----------------------------- MODULE ReplayStatus -----------------------------
(***************************************************************************)
(* The replay of one log stream: ObReplayStatus with its submit task and   *)
(* its task queues, the threads of ObLogReplayService that run them under  *)
(* leases, the barriers, the readers of the replay position, and the steps *)
(* of the role change, of offline and of online that touch it.             *)
(*                                                                         *)
(* The LSN and the SCN of a log are its index.  Log i is of the queue that *)
(* its replay hint picks.  The rwlock_ is held by readers from one step to *)
(* another and by a writer within one step; a try_rdlock that fails pushes *)
(* the task back and changes nothing.                                      *)
(***************************************************************************)
EXTENDS Integers, Sequences, FiniteSets, Functions

CONSTANTS NQ,        \* REPLAY_TASK_QUEUE_SIZE
          Entries,   \* the kinds of log entries
          MaxLog,    \* bound: logs of the stream
          Env        \* the parts of the environment that are at work

Queues == 1 .. NQ

ASSUME NQAssumption == NQ \in Nat \ {0}
ASSUME MaxLogAssumption == MaxLog \in Nat
ASSUME EntriesAssumption ==
    Entries \subseteq [q : Queues, pre : BOOLEAN, post : BOOLEAN, pad : BOOLEAN]

VARIABLES
    log, done,           \* committed logs, those that have taken effect
    own, end_lsn, mine,  \* PALF's leader is this replica; its log when it became
                         \* leader ends at end_lsn, the log it has written at mine
    app,                 \* the last log whose callback is applied
    rc,                  \* the role change thread
    role, enabled, blocked, fatal,   \* role_, is_enabled_, is_submit_blocked_,
                                     \* err_info_
    base, next_lsn, next_scn,        \* base_scn_, next_to_submit_*: the next log
    sub_lease, sub_pc,   \* the submit task: its lease, the thread that runs it
    bc, again,           \* its loop over the queues; it is to be pushed back
    queue, lease, pc,    \* task_queues_, their leases and threads
    need_batch,          \* need_batch_push_
    ref,                 \* references to the buffer of a pre-barrier log
    post,                \* post_barrier_lsn_, 0 when invalid
    pending,             \* pending_task_count_
    fs_check, fs_push,   \* PALF's file size callback: called, to push
    unblocking,          \* unblock_submit has to push the submit task
    disabling,           \* disable waits for the write lock
    scan                 \* get_min_unreplayed_log_info

logVars == <<log, done>>
rcVars == <<own, end_lsn, mine, app, rc>>
stVars == <<role, enabled, blocked, fatal>>
nextVars == <<base, next_lsn, next_scn>>
subVars == <<sub_lease, sub_pc, bc, again>>
taskVars == <<lease, pc, need_batch>>
taskQueueVars == <<queue, ref, post, pending>>
envVars == <<fs_check, fs_push, unblocking, disabling>>

vars == <<logVars, rcVars, stVars, nextVars, subVars, taskVars, taskQueueVars,
          envVars, scan>>

LeaseStates == {"idle", "handling", "ready"}
ScanType == [pc : {"idle", "scan", "answer"}, done : BOOLEAN, k : Nat,
             lsn : Nat, scn : Nat]
IdleScan == [pc |-> "idle", done |-> FALSE, k |-> 0, lsn |-> 0, scn |-> 0]

need_submit_log == role = "FOLLOWER" /\ ~blocked

Quiet(i) == i \in done \/ log[i].pad

Larger(a, b) == IF a > b THEN a ELSE b

(* The readers that hold rwlock_: no writer gets it.                       *)
SubmitReads == sub_pc \in {"check", "fetch", "bcast", "signal", "meta", "batch"}
Unlocked ==
    /\ ~SubmitReads /\ ~fs_push
    /\ \A q \in Queues : pc[q] \notin {"replay", "pop"}
    /\ ~(scan.pc # "idle" /\ scan.done)

-------------------------------------------------------------------------------
(* The leases (ObThreadLease)                                              *)

Acquired(l) == IF l = "idle" THEN "handling" ELSE "ready"

(* submit_task_to_replay_service_: the one that gets the lease puts the    *)
(* task into the thread pool.                                              *)
submit_submit_task ==
    /\ sub_lease' = Acquired(sub_lease)
    /\ sub_pc' = IF sub_lease = "idle" THEN "pool" ELSE sub_pc

submit_task_queue(q) ==
    /\ lease' = [lease EXCEPT ![q] = Acquired(@)]
    /\ pc' = [pc EXCEPT ![q] = IF lease[q] = "idle" THEN "pool" ELSE @]

(* revoke_lease: a task that has become ready meanwhile is pushed back.    *)
SubmitRevoke ==
    /\ sub_pc = "revoke"
    /\ sub_lease' = IF sub_lease = "ready" THEN "handling" ELSE "idle"
    /\ sub_pc' = IF sub_lease = "ready" THEN "pool" ELSE "out"
    /\ UNCHANGED <<logVars, rcVars, stVars, nextVars, bc, again, taskVars,
                   taskQueueVars, envVars, scan>>

QueueRevoke(q) ==
    /\ pc[q] = "revoke"
    /\ lease' = [lease EXCEPT ![q] = IF @ = "ready" THEN "handling" ELSE "idle"]
    /\ pc' = [pc EXCEPT ![q] = IF lease[q] = "ready" THEN "pool" ELSE "out"]
    /\ UNCHANGED <<logVars, rcVars, stVars, nextVars, subVars, need_batch,
                   taskQueueVars, envVars, scan>>

-------------------------------------------------------------------------------
(* handle_submit_task_: the thread that runs the submit task               *)

SubmitGoto(p) == sub_pc' = p /\ UNCHANGED sub_lease

(* Mutant: is_timeslice_run_out is left over from the last round.          *)
SubmitTakeOldSlice ==
    /\ sub_pc = "pool" /\ (enabled => ~fatal)
    /\ SubmitGoto(IF enabled THEN "check" ELSE "revoke")
    /\ UNCHANGED <<logVars, rcVars, stVars, nextVars, bc, again, taskVars,
                   taskQueueVars, envVars, scan>>

(* handle and pre_check_: after a fatal error the task only goes round.    *)
SubmitTake ==
    /\ sub_pc = "pool" /\ (enabled => ~fatal)
    /\ SubmitGoto(IF enabled THEN "check" ELSE "revoke")
    /\ again' = FALSE
    /\ UNCHANGED <<logVars, rcVars, stVars, nextVars, bc, taskVars, taskQueueVars,
                   envVars, scan>>

SubmitCheck ==
    /\ sub_pc = "check"
    /\ SubmitGoto(IF need_submit_log THEN "fetch" ELSE "batch")
    /\ UNCHANGED <<logVars, rcVars, stVars, nextVars, bc, again, taskVars,
                   taskQueueVars, envVars, scan>>

(* has_remained_submit_log: the iterator has reached the end.              *)
FetchNone ==
    /\ sub_pc = "fetch" /\ next_lsn > Len(log)
    /\ SubmitGoto("batch")
    /\ UNCHANGED <<logVars, rcVars, stVars, nextVars, bc, again, taskVars,
                   taskQueueVars, envVars, scan>>

Fetched == sub_pc = "fetch" /\ next_lsn <= Len(log)

need_skip(i) == i < base \/ log[i].pad

FetchSkip ==
    /\ Fetched /\ need_skip(next_lsn)
    /\ SubmitGoto("meta")
    /\ UNCHANGED <<logVars, rcVars, stVars, nextVars, bc, again, taskVars,
                   taskQueueVars, envVars, scan>>

(* No memory, too much pending, or a post-barrier log is not replayed yet: *)
(* the same log is tried again.                                            *)
FetchRetry ==
    /\ Fetched /\ ~need_skip(next_lsn)
    /\ post # 0 \/ "alloc" \in Env
    /\ SubmitGoto("batch")
    /\ again' = TRUE
    /\ UNCHANGED <<logVars, rcVars, stVars, nextVars, bc, taskVars, taskQueueVars,
                   envVars, scan>>

(* Mutant: check_submit_barrier is left out.                               *)
SubmitPastBarrier ==
    /\ Fetched /\ ~need_skip(next_lsn)
    /\ pending' = pending + 1
    /\ post' = IF log[next_lsn].post THEN next_lsn ELSE post
    /\ UNCHANGED <<logVars, rcVars, stVars, nextVars, again, lease, pc, envVars,
                   scan>>

(* submit_log_replay_task_ counts the log, marks a post barrier, and       *)
(* pushes the task to its queue ...                                        *)
SubmitLog ==
    /\ Fetched /\ ~need_skip(next_lsn) /\ post = 0
    /\ pending' = pending + 1
    /\ post' = IF log[next_lsn].post THEN next_lsn ELSE 0
    /\ UNCHANGED <<logVars, rcVars, stVars, nextVars, again, lease, pc, envVars,
                   scan>>

PushTask(q) ==
    /\ queue' = [queue EXCEPT ![q] = Append(@, next_lsn)]
    /\ need_batch' = [need_batch EXCEPT ![q] = TRUE]

FetchPush ==
    /\ SubmitLog /\ ~log[next_lsn].pre
    /\ PushTask(log[next_lsn].q)
    /\ SubmitGoto("meta")
    /\ UNCHANGED <<bc, ref>>

(* ... or, for a pre-barrier log, a copy to every queue in turn.           *)
FetchBroadcast ==
    /\ SubmitLog /\ log[next_lsn].pre
    /\ ref' = [ref EXCEPT ![next_lsn] = NQ]
    /\ bc' = 1
    /\ SubmitGoto("bcast")
    /\ UNCHANGED <<queue, need_batch>>

Broadcast ==
    /\ sub_pc = "bcast"
    /\ PushTask(bc)
    /\ SubmitGoto("signal")
    /\ UNCHANGED <<logVars, rcVars, stVars, nextVars, bc, again, lease, pc, ref,
                   post, pending, envVars, scan>>

BroadcastSignal ==
    /\ sub_pc = "signal"
    /\ submit_task_queue(bc)
    /\ need_batch' = [need_batch EXCEPT ![bc] = FALSE]
    /\ bc' = bc + 1
    /\ SubmitGoto(IF bc = NQ THEN "meta" ELSE "bcast")
    /\ UNCHANGED <<logVars, rcVars, stVars, nextVars, again, taskQueueVars,
                   envVars, scan>>

(* update_submit_log_meta_info and next_log; the time slice may be over,   *)
(* which also covers the batches pushed from within the loop.              *)
SubmitMeta ==
    /\ sub_pc = "meta"
    /\ next_lsn' = next_lsn + 1
    /\ next_scn' = next_lsn + 1
    /\ \/ SubmitGoto("check") /\ UNCHANGED again
       \/ SubmitGoto("batch") /\ again' = TRUE
    /\ UNCHANGED <<logVars, rcVars, stVars, base, bc, taskVars, taskQueueVars,
                   envVars, scan>>

batch_push_all_task_queue(q) ==
    /\ sub_pc = "batch" /\ need_batch[q]
    /\ \A r \in 1 .. q - 1 : ~need_batch[r]
    /\ submit_task_queue(q)
    /\ need_batch' = [need_batch EXCEPT ![q] = FALSE]
    /\ UNCHANGED <<logVars, rcVars, stVars, nextVars, subVars, taskQueueVars,
                   envVars, scan>>

SubmitEnd ==
    /\ sub_pc = "batch" /\ \A q \in Queues : ~need_batch[q]
    /\ SubmitGoto(IF again THEN "pool" ELSE "revoke")
    /\ UNCHANGED <<logVars, rcVars, stVars, nextVars, bc, again, taskVars,
                   taskQueueVars, envVars, scan>>

-------------------------------------------------------------------------------
(* handle_replay_task_: the thread that runs task queue q                  *)

QueueGoto(q, p) == pc' = [pc EXCEPT ![q] = p] /\ UNCHANGED lease

queueFrame == <<log, rcVars, nextVars, subVars, need_batch, envVars, scan>>

QueueTake(q) ==
    /\ pc[q] = "pool" /\ (enabled => ~fatal)
    /\ QueueGoto(q, IF enabled THEN "top" ELSE "revoke")
    /\ UNCHANGED <<done, stVars, taskQueueVars, queueFrame>>

QueueEmpty(q) ==
    /\ pc[q] = "top" /\ (enabled => queue[q] = << >>)
    /\ QueueGoto(q, "revoke")
    /\ UNCHANGED <<done, stVars, taskQueueVars, queueFrame>>

HasTop(q) == pc[q] = "top" /\ enabled /\ queue[q] # << >>

(* check_replay_barrier: a pre-barrier log is replayed by its own queue,   *)
(* after every other queue has come to its copy.                           *)
must_wait(q, i) == log[i].pre /\ log[i].q = q /\ ref[i] # 1

QueueWait(q) ==
    /\ HasTop(q) /\ (role # "FOLLOWER" \/ must_wait(q, Head(queue[q])))
    /\ QueueGoto(q, "pool")
    /\ UNCHANGED <<done, stVars, taskQueueVars, queueFrame>>

(* dec_replay_ref; a copy of another queue is only popped.                 *)
QueueStart(q) ==
    LET i == Head(queue[q]) IN
    /\ HasTop(q) /\ role = "FOLLOWER" /\ ~must_wait(q, i)
    /\ ref' = IF log[i].pre THEN [ref EXCEPT ![i] = @ - 1] ELSE ref
    /\ QueueGoto(q, IF log[i].q = q THEN "replay" ELSE "pop")
    /\ UNCHANGED <<done, stVars, queue, post, pending, queueFrame>>

(* Mutant: the post barrier is not lifted.                                 *)
ReplayKeepsBarrier(q) ==
    LET i == Head(queue[q]) IN
    /\ pc[q] = "replay"
    /\ done' = done \union {i}
    /\ pending' = IF log[i].pre THEN pending - 1 ELSE pending
    /\ QueueGoto(q, "pop")
    /\ UNCHANGED <<stVars, queue, ref, post, queueFrame>>

ReplayOk(q) ==
    LET i == Head(queue[q]) IN
    /\ pc[q] = "replay"
    /\ done' = done \union {i}
    /\ pending' = IF log[i].pre THEN pending - 1 ELSE pending
    /\ post' = IF log[i].post THEN 0 ELSE post
    /\ QueueGoto(q, "pop")
    /\ UNCHANGED <<stVars, queue, ref, queueFrame>>

(* The error is worth a retry, or it is fatal and stops the log stream.    *)
ReplayFail(q) ==
    LET i == Head(queue[q]) IN
    /\ pc[q] = "replay" /\ "fail" \in Env
    /\ ref' = IF log[i].pre THEN [ref EXCEPT ![i] = @ + 1] ELSE ref
    /\ fatal' \in {fatal, TRUE}
    /\ QueueGoto(q, "pool")
    /\ UNCHANGED <<done, role, enabled, blocked, queue, post, pending, queueFrame>>

(* pop; the time slice may be over.                                        *)
QueuePop(q) ==
    LET i == Head(queue[q]) IN
    /\ pc[q] = "pop"
    /\ queue' = [queue EXCEPT ![q] = Tail(@)]
    /\ pending' = IF log[i].pre THEN pending ELSE pending - 1
    /\ \E p \in {"top", "pool"} : QueueGoto(q, p)
    /\ UNCHANGED <<done, stVars, ref, post, queueFrame>>

-------------------------------------------------------------------------------
(* get_min_unreplayed_log_info, for get_max_replayed_scn or, under the     *)
(* read lock, for is_replay_done                                           *)

scanFrame == <<logVars, own, end_lsn, mine, app, stVars, nextVars, subVars,
               taskVars, taskQueueVars, envVars>>

ScanStart(for_done) ==
    /\ scan.pc = "idle" /\ enabled
    /\ IF for_done THEN rc = "wait" ELSE "query" \in Env
    /\ scan' = IF next_scn <= base
               THEN [pc |-> "answer", done |-> for_done, k |-> NQ + 1,
                     lsn |-> next_lsn, scn |-> base]
               ELSE [pc |-> "scan", done |-> for_done, k |-> 1,
                     lsn |-> next_lsn, scn |-> next_scn]
    /\ UNCHANGED <<rc, scanFrame>>

(* Mutant: the last queue is left out.                                     *)
ScanAllButOne ==
    LET q == scan.k
        smaller == /\ queue[q] # << >>
                   /\ Head(queue[q]) < scan.lsn /\ Head(queue[q]) < scan.scn IN
    /\ scan.pc = "scan"
    /\ scan' = [scan EXCEPT !.lsn = IF smaller THEN Head(queue[q]) ELSE @,
                            !.scn = IF smaller THEN Head(queue[q]) ELSE @,
                            !.k = @ + 1,
                            !.pc = IF q >= NQ - 1 THEN "answer" ELSE "scan"]
    /\ UNCHANGED <<rc, scanFrame>>

ScanQueue ==
    LET q == scan.k
        smaller == /\ queue[q] # << >>
                   /\ Head(queue[q]) < scan.lsn /\ Head(queue[q]) < scan.scn IN
    /\ scan.pc = "scan"
    /\ scan' = [scan EXCEPT !.lsn = IF smaller THEN Head(queue[q]) ELSE @,
                            !.scn = IF smaller THEN Head(queue[q]) ELSE @,
                            !.k = @ + 1,
                            !.pc = IF q = NQ THEN "answer" ELSE "scan"]
    /\ UNCHANGED <<rc, scanFrame>>

(* The answer counts when replay is still enabled.                         *)
ScanEnd ==
    /\ scan.pc = "answer"
    /\ scan' = IdleScan
    /\ rc' = IF scan.done /\ scan.lsn > end_lsn THEN "ready" ELSE rc
    /\ UNCHANGED scanFrame

-------------------------------------------------------------------------------
(* Role, enable and disable, block and unblock                             *)

rcFrame == <<logVars, enabled, blocked, fatal, base, next_scn, bc, again, taskVars,
             taskQueueVars, fs_check, fs_push, unblocking, disabling, scan>>

(* PALF makes this replica leader: the log ends with what it has, and      *)
(* switch_follower_to_leader_ starts.                                      *)
BecomeLeader ==
    /\ "role" \in Env
    /\ rc = "follower" /\ ~own /\ enabled /\ ~disabling
    /\ own' = TRUE /\ end_lsn' = Len(log) /\ mine' = Len(log) /\ rc' = "wait"
    /\ UNCHANGED <<app, role, next_lsn, sub_lease, sub_pc, rcFrame>>

LoseLeader ==
    /\ own /\ own' = FALSE
    /\ UNCHANGED <<end_lsn, mine, app, rc, role, next_lsn, sub_lease, sub_pc,
                   rcFrame>>

(* wait_replay_service_replay_done_ times out; PALF is follower again.     *)
GiveUp ==
    /\ rc = "wait" /\ ~own /\ ~scan.done
    /\ rc' = "follower"
    /\ UNCHANGED <<own, end_lsn, mine, app, role, next_lsn, sub_lease, sub_pc,
                   rcFrame>>

switch_to_leader ==
    /\ rc = "ready" /\ role' = "LEADER" /\ rc' = "clear"
    /\ UNCHANGED <<own, end_lsn, mine, app, next_lsn, sub_lease, sub_pc, rcFrame>>

(* Mutant: the submit task is not waited for.                              *)
ServeAtOnce ==
    /\ rc = "clear" /\ rc' = "leading"
    /\ UNCHANGED <<own, end_lsn, mine, app, role, next_lsn, sub_lease, sub_pc,
                   rcFrame>>

(* wait_replay_service_submit_task_clear_, then the log handler is LEADER. *)
Serve ==
    /\ rc = "clear" /\ sub_lease = "idle" /\ rc' = "leading"
    /\ UNCHANGED <<own, end_lsn, mine, app, role, next_lsn, sub_lease, sub_pc,
                   rcFrame>>

(* switch_leader_to_follower_forcedly_: what is applied ends with app.     *)
StepDown ==
    /\ rc = "leading" /\ ~own /\ rc' = "reset"
    /\ UNCHANGED <<own, end_lsn, mine, app, role, next_lsn, sub_lease, sub_pc,
                   rcFrame>>

(* Mutant: next_to_submit_lsn_ is set to begin_lsn, larger or not.         *)
ResetToBegin ==
    /\ rc = "reset" /\ Unlocked /\ rc' = "role"
    /\ next_lsn' = app + 1
    /\ UNCHANGED <<own, end_lsn, mine, app, role, sub_lease, sub_pc, rcFrame>>

(* switch_to_follower: reset_iterator, the role, then the submit task.     *)
reset_iterator ==
    /\ rc = "reset" /\ Unlocked /\ rc' = "role"
    /\ next_lsn' = Larger(next_lsn, app + 1)
    /\ UNCHANGED <<own, end_lsn, mine, app, role, sub_lease, sub_pc, rcFrame>>

FollowerRole ==
    /\ rc = "role" /\ role' = "FOLLOWER" /\ rc' = "push"
    /\ UNCHANGED <<own, end_lsn, mine, app, next_lsn, sub_lease, sub_pc, rcFrame>>

(* Mutant: the submit task is left to the next log that is committed.      *)
FollowerWaits ==
    /\ rc = "push" /\ rc' = "follower"
    /\ UNCHANGED <<own, end_lsn, mine, app, role, next_lsn, sub_lease, sub_pc,
                   rcFrame>>

FollowerPush ==
    /\ rc = "push" /\ rc' = "follower"
    /\ submit_submit_task
    /\ UNCHANGED <<own, end_lsn, mine, app, role, next_lsn, rcFrame>>

(* enable: the data is as of a checkpoint that holds the logs before scn.  *)
enable(lsn, scn) ==
    /\ ~enabled /\ scan.pc = "idle" /\ rc = "follower" /\ Unlocked
    /\ pending = 0
    /\ \A i \in 1 .. scn - 1 : Quiet(i)
    /\ done' = 1 .. scn - 1
    /\ enabled' = TRUE /\ blocked' = FALSE
    /\ base' = scn /\ next_lsn' = lsn /\ next_scn' = 0
    /\ submit_submit_task
    /\ UNCHANGED <<log, rcVars, role, fatal, bc, again, taskVars, taskQueueVars,
                   envVars, scan>>

(* disable blocks the submit task and then takes the write lock.           *)
disable ==
    /\ "disable" \in Env
    /\ enabled /\ rc = "follower" /\ ~own /\ ~disabling
    /\ blocked' = TRUE /\ disabling' = TRUE
    /\ UNCHANGED <<logVars, rcVars, role, enabled, fatal, nextVars, subVars,
                   taskVars, taskQueueVars, fs_check, fs_push, unblocking, scan>>

(* ObReplayServiceReplayTask::reset drops the tasks of every queue; the    *)
(* last copy of a pre-barrier log frees its buffer.                        *)
Copies(i) == {q \in Queues : i \in Range(queue[q])}
Dropped == {i \in 1 .. Len(log) :
              /\ Copies(i) # {}
              /\ log[i].pre => ref[i] = Cardinality(Copies(i))}

(* Mutant: dropping a copy of a pre-barrier log does not count it off.     *)
DisableKeepsCount ==
    /\ disabling /\ Unlocked
    /\ disabling' = FALSE /\ enabled' = FALSE
    /\ next_lsn' = 0 /\ next_scn' = 0 /\ base' = 0
    /\ queue' = [q \in Queues |-> << >>]
    /\ ref' = [i \in 1 .. MaxLog |->
                 IF i <= Len(log) /\ log[i].pre THEN ref[i] - Cardinality(Copies(i))
                                                ELSE ref[i]]
    /\ post' = 0 /\ fatal' = FALSE
    /\ UNCHANGED <<logVars, rcVars, role, blocked, subVars, taskVars, pending,
                   fs_check, fs_push, unblocking, scan>>

disable_ ==
    /\ disabling /\ Unlocked
    /\ disabling' = FALSE /\ enabled' = FALSE
    /\ next_lsn' = 0 /\ next_scn' = 0 /\ base' = 0
    /\ queue' = [q \in Queues |-> << >>]
    /\ ref' = [i \in 1 .. MaxLog |->
                 IF i <= Len(log) /\ log[i].pre THEN ref[i] - Cardinality(Copies(i))
                                                ELSE ref[i]]
    /\ pending' = pending - Cardinality(Dropped)
    /\ post' = 0 /\ fatal' = FALSE
    /\ UNCHANGED <<logVars, rcVars, role, blocked, subVars, taskVars, fs_check,
                   fs_push, unblocking, scan>>

block_submit ==
    /\ "block" \in Env /\ ~blocked /\ blocked' = TRUE
    /\ UNCHANGED <<logVars, rcVars, role, enabled, fatal, nextVars, subVars,
                   taskVars, taskQueueVars, envVars, scan>>

unblock_submit ==
    /\ "block" \in Env /\ ~unblocking
    /\ blocked' = FALSE /\ unblocking' = TRUE
    /\ UNCHANGED <<logVars, rcVars, role, enabled, fatal, nextVars, subVars,
                   taskVars, taskQueueVars, fs_check, fs_push, disabling, scan>>

UnblockPush ==
    /\ unblocking /\ unblocking' = FALSE
    /\ IF enabled THEN submit_submit_task ELSE UNCHANGED <<sub_lease, sub_pc>>
    /\ UNCHANGED <<logVars, rcVars, stVars, nextVars, bc, again, taskVars,
                   taskQueueVars, fs_check, fs_push, disabling, scan>>

-------------------------------------------------------------------------------
(* PALF: logs are committed and the end of the log moves                   *)

logFrame == <<end_lsn, app, rc, stVars, nextVars, subVars, taskVars, taskQueueVars,
              fs_push, unblocking, disabling, scan>>

Commit(e) ==
    /\ ~own /\ Len(log) < MaxLog
    /\ log' = Append(log, e) /\ fs_check' = TRUE
    /\ UNCHANGED <<done, own, mine, logFrame>>

(* A log of this leader; its callback takes effect in the order of the log.*)
CommitOwn(e) ==
    /\ own /\ rc = "leading" /\ Len(log) < MaxLog
    /\ log' = Append(log, e) /\ mine' = Len(log) + 1 /\ fs_check' = TRUE
    /\ UNCHANGED <<done, own, logFrame>>

Apply ==
    LET i == Larger(app, end_lsn) + 1 IN
    /\ rc = "leading" /\ i <= mine
    /\ app' = i
    /\ done' = IF log[i].pad THEN done ELSE done \union {i}
    /\ UNCHANGED <<log, own, end_lsn, mine, rc, stVars, nextVars, subVars, taskVars,
                   taskQueueVars, envVars, scan>>

(* update_end_offset                                                       *)
FsCheck ==
    /\ fs_check /\ ~fs_push
    /\ fs_check' = FALSE
    /\ fs_push' = (enabled /\ need_submit_log)
    /\ UNCHANGED <<logVars, rcVars, stVars, nextVars, subVars, taskVars,
                   taskQueueVars, unblocking, disabling, scan>>

FsPush ==
    /\ fs_push /\ fs_push' = FALSE
    /\ submit_submit_task
    /\ UNCHANGED <<logVars, rcVars, stVars, nextVars, bc, again, taskVars,
                   taskQueueVars, fs_check, unblocking, disabling, scan>>

-------------------------------------------------------------------------------
Init ==
    /\ log = << >> /\ done = {}
    /\ own = FALSE /\ end_lsn = 0 /\ mine = 0 /\ app = 0 /\ rc = "follower"
    /\ role = "FOLLOWER" /\ enabled = FALSE /\ blocked = TRUE /\ fatal = FALSE
    /\ base = 0 /\ next_lsn = 0 /\ next_scn = 0
    /\ sub_lease = "idle" /\ sub_pc = "out" /\ bc = 1 /\ again = FALSE
    /\ lease = [q \in Queues |-> "idle"] /\ pc = [q \in Queues |-> "out"]
    /\ need_batch = [q \in Queues |-> FALSE]
    /\ queue = [q \in Queues |-> << >>] /\ ref = [i \in 1 .. MaxLog |-> 0]
    /\ post = 0 /\ pending = 0
    /\ fs_check = FALSE /\ fs_push = FALSE /\ unblocking = FALSE
    /\ disabling = FALSE
    /\ scan = IdleScan

SubmitStep ==
    \/ SubmitTake \/ SubmitCheck \/ FetchNone \/ FetchSkip \/ FetchRetry
    \/ FetchPush \/ FetchBroadcast \/ Broadcast \/ BroadcastSignal \/ SubmitMeta
    \/ \E q \in Queues : batch_push_all_task_queue(q)
    \/ SubmitEnd \/ SubmitRevoke

QueueStep(q) ==
    \/ QueueTake(q) \/ QueueEmpty(q) \/ QueueWait(q) \/ QueueStart(q)
    \/ ReplayOk(q) \/ ReplayFail(q) \/ QueuePop(q) \/ QueueRevoke(q)

ScanStep == (\E d \in BOOLEAN : ScanStart(d)) \/ ScanQueue \/ ScanEnd

RoleStep ==
    \/ BecomeLeader \/ LoseLeader \/ GiveUp \/ switch_to_leader \/ Serve \/ StepDown
    \/ reset_iterator \/ FollowerRole \/ FollowerPush

AdminStep ==
    \/ \E scn \in 1 .. Len(log) + 1 : \E lsn \in 1 .. scn : enable(lsn, scn)
    \/ disable \/ disable_ \/ block_submit \/ unblock_submit \/ UnblockPush

LogStep ==
    \/ \E e \in Entries : Commit(e) \/ CommitOwn(e)
    \/ Apply \/ FsCheck \/ FsPush

Next ==
    \/ SubmitStep \/ \E q \in Queues : QueueStep(q)
    \/ ScanStep \/ RoleStep \/ AdminStep \/ LogStep

Spec == Init /\ [][Next]_vars

-------------------------------------------------------------------------------
(* Properties                                                              *)

SubPcs == {"out", "pool", "check", "fetch", "bcast", "signal", "meta", "batch",
           "revoke"}
QueuePcs == {"out", "pool", "top", "replay", "pop", "revoke"}
RcStates == {"follower", "wait", "ready", "clear", "leading", "reset", "role",
             "push"}

(* The state of the replay status, its tasks and its environment has its   *)
(* type.                                                                   *)
TypeOK ==
    /\ log \in Seq(Entries) /\ Len(log) <= MaxLog /\ done \in SUBSET (1 .. MaxLog)
    /\ own \in BOOLEAN /\ end_lsn \in 0 .. MaxLog /\ mine \in 0 .. MaxLog
    /\ app \in 0 .. MaxLog /\ rc \in RcStates
    /\ role \in {"LEADER", "FOLLOWER"} /\ enabled \in BOOLEAN
    /\ blocked \in BOOLEAN /\ fatal \in BOOLEAN
    /\ base \in Nat /\ next_lsn \in Nat /\ next_scn \in Nat
    /\ sub_lease \in LeaseStates /\ sub_pc \in SubPcs
    /\ bc \in 1 .. NQ + 1 /\ again \in BOOLEAN
    /\ queue \in [Queues -> Seq(1 .. MaxLog)]
    /\ lease \in [Queues -> LeaseStates] /\ pc \in [Queues -> QueuePcs]
    /\ need_batch \in [Queues -> BOOLEAN]
    /\ ref \in [1 .. MaxLog -> Int] /\ post \in 0 .. MaxLog /\ pending \in Int
    /\ fs_check \in BOOLEAN /\ fs_push \in BOOLEAN /\ unblocking \in BOOLEAN
    /\ disabling \in BOOLEAN
    /\ scan \in ScanType

(* Logs take effect in the order that queues and barriers promise, through *)
(* role changes, retries and restarts from a checkpoint (ReplayOrder).     *)
Order == INSTANCE ReplayOrder
OrderSpec == Order!Spec

(* No log takes effect twice: what a queue is about to replay, and the log *)
(* of this leader whose callback is next, have not taken effect, although  *)
(* logs come by the queues, by callbacks and, after a role change or a     *)
(* restart from a checkpoint, by an iterator that is set anew.             *)
TakesEffectOnce ==
    /\ \A q \in Queues : pc[q] = "replay" => Head(queue[q]) \notin done
    /\ LET i == Larger(app, end_lsn) + 1 IN
       rc = "leading" /\ i <= mine => i \notin done

(* What get_max_replayed_scn and is_replay_done answer: every log before   *)
(* the position has taken effect, although the queues are read one after   *)
(* the other while they are filled and drained.                            *)
AnswerSound ==
    scan.pc = "answer" /\ enabled =>
        \A i \in 1 .. Len(log) :
            i < scan.scn \/ (scan.done /\ i < scan.lsn) => Quiet(i)

(* While this replica writes the log, replay has nothing left of its own:  *)
(* every log before its term has taken effect and no task is in a queue.   *)
LeaderReplaysNothing ==
    rc = "leading" /\ own =>
        /\ \A i \in 1 .. end_lsn : Quiet(i)
        /\ \A q \in Queues : queue[q] = << >>
        /\ next_lsn = end_lsn + 1

(* The branches that the code reports as unexpected: a reference count     *)
(* that falls to 0 in a foreign queue or below 0, a post barrier that is   *)
(* not the one outstanding, tasks pending when replay is enabled.          *)
NoUnexpectedBranch ==
    /\ \A q \in Queues :
          queue[q] # << >> =>
             LET i == Head(queue[q]) IN
             /\ pc[q] = "top" /\ log[i].pre => ref[i] >= IF log[i].q = q THEN 1 ELSE 2
             /\ pc[q] = "replay" /\ log[i].post => post = i
    /\ pending >= 0 /\ (~enabled => pending = 0)

(* No wake-up is lost: a queue with tasks is in the pool or run by a       *)
(* thread that will look at it again, or the submit task will submit it;   *)
(* and the submit task will look at a log it has not submitted.            *)
QueueAwake(q) ==
    \/ need_batch[q] /\ SubmitReads
    \/ lease[q] = "ready"
    \/ lease[q] = "handling" /\ pc[q] \in {"pool", "top", "replay", "pop"}
SubmitAwake ==
    \/ fs_check \/ fs_push \/ unblocking \/ rc = "push"
    \/ sub_lease = "ready"
    \/ /\ sub_lease = "handling"
       /\ \/ sub_pc \in {"pool", "check", "fetch", "bcast", "signal", "meta"}
          \/ sub_pc = "batch" /\ again
NoLostWakeup ==
    enabled =>
        /\ \A q \in Queues : queue[q] # << >> => QueueAwake(q)
        /\ need_submit_log /\ next_lsn <= Len(log) => SubmitAwake

(* The threads of the pool run, callers finish what they have begun, the   *)
(* role change thread polls, memory is available again at times and a      *)
(* replay that is tried again succeeds at times.                           *)
Fairness ==
    /\ WF_vars(SubmitStep) /\ SF_vars(FetchPush \/ FetchBroadcast)
    /\ \A q \in Queues : WF_vars(QueueStep(q)) /\ SF_vars(ReplayOk(q))
    /\ WF_vars(FsCheck) /\ WF_vars(FsPush) /\ WF_vars(UnblockPush)
    /\ WF_vars(ScanQueue \/ ScanEnd) /\ SF_vars(ScanStart(TRUE))
    /\ WF_vars(switch_to_leader) /\ WF_vars(Serve) /\ WF_vars(FollowerPush)

FairSpec == Spec /\ Fairness

(* A follower that stays enabled, unblocked and without a fatal error      *)
(* replays all that is committed: no queue waits for a barrier for ever    *)
(* and no wake-up is lost.                                                 *)
CatchesUp ==
    <>[](enabled /\ need_submit_log /\ ~fatal)
        => <>[](\A i \in 1 .. Len(log) : Quiet(i))

(* A replica that stays PALF's leader gets through the wait for the replay *)
(* and for the submit task, and serves.                                    *)
ServesInTheEnd ==
    <>[](own /\ ~blocked /\ ~fatal) => <>(rc = "leading")

===============================================================================
