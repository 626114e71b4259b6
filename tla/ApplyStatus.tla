------------------------------ MODULE ApplyStatus -----------------------------
(***************************************************************************)
(* ObApplyStatus and the thread pool of ObLogApplyService: append          *)
(* callbacks wait in queues until their log has slid, and are answered by  *)
(* on_success, or by on_failure once the status is FOLLOWER.  Tasks (one   *)
(* per queue, and one that looks at all queues) run in a pool under an     *)
(* ObThreadLease each.                                                     *)
(***************************************************************************)
EXTENDS Palf

CONSTANTS
    Queue,        \* cb_queues_
    SubmitTask,   \* submit_task_
    NoTask,
    Handler,      \* threads of the pool
    Appender      \* threads that append logs

ASSUME ApplyAssumption ==
    /\ SubmitTask \notin Queue /\ NoTask \notin Queue \union {SubmitTask}
    /\ IsFiniteSet(Appender)

VARIABLES
    ap_role,        \* role_
    ap_pid,         \* proposal_id_
    ap_end,         \* palf_committed_end_lsn_ and _scn_
    queue,          \* callbacks waiting: [lsn, id]
    total_submit, total_apply, last_check_cnt,   \* counters of each queue
    lease,          \* of each task
    pool,           \* tasks in the queue of the thread group
    hd,             \* the handler threads
    fs,             \* TRUE: ObApplyFsCb has stored the end, not yet submitted
    last_check_scn, max_applied_scn,             \* 0: invalid
    gm,             \* the one get_max_applied_scn at a time
    ok, failed,     \* ids of the logs answered by on_success / on_failure
    unexpected      \* a branch that logs ERROR "unexpected" has been taken

applyVars == <<ap_role, ap_pid, ap_end, queue, total_submit, total_apply,
               last_check_cnt, lease, pool, hd, fs, last_check_scn,
               max_applied_scn, gm, ok, failed, unexpected>>

queueVars == <<queue, total_submit, total_apply>>
leaseVars == <<lease, pool>>
scnVars   == <<last_check_scn, max_applied_scn, last_check_cnt, gm>>

Task == Queue \union {SubmitTask}

CbType == [lsn : Nat, id : Nat]

HandlerType == [pc : {"idle", "submit", "queue", "cb", "revoke"},
                task : Task \union {NoTask}, todo : SUBSET Queue,
                cb : CbType, ok : BOOLEAN]

NoCb == [lsn |-> 0, id |-> 0]

IdleHandler == [pc |-> "idle", task |-> NoTask, todo |-> {}, cb |-> NoCb,
                ok |-> FALSE]

IdleCheck == [pc |-> "idle", scn |-> 0, wait |-> {}]

-------------------------------------------------------------------------------
(* ObThreadLease and the pool                                              *)

acquire_lease(t) ==
    lease' = [lease EXCEPT ![t] = IF lease[t] = "idle" THEN "handling" ELSE "ready"]

submit_task_to_apply_service_(t) ==
    /\ acquire_lease(t)
    /\ pool' = IF lease[t] = "idle" THEN pool \union {t} ELSE pool

(* A handler thread takes a task.  It handles a queue under the read lock. *)
TakeTask(h, t) ==
    /\ hd[h].pc = "idle" /\ t \in pool
    /\ pool' = pool \ {t}
    /\ hd' = [hd EXCEPT ![h] =
          [IdleHandler EXCEPT !.pc = IF t = SubmitTask THEN "submit" ELSE "queue",
                              !.task = t,
                              !.todo = IF t = SubmitTask THEN Queue ELSE {}]]
    /\ UNCHANGED <<ap_role, ap_pid, ap_end, queueVars, lease, fs, scnVars, ok,
                   failed, unexpected>>

(* try_submit_cb_queues: one queue of the loop.                            *)
SubmitQueue(h, q) ==
    /\ hd[h].pc = "submit" /\ q \in hd[h].todo
    /\ IF total_apply[q] < total_submit[q]
       THEN submit_task_to_apply_service_(q)
       ELSE UNCHANGED leaseVars
    /\ hd' = [hd EXCEPT ![h].todo = @ \ {q}]
    /\ UNCHANGED <<ap_role, ap_pid, ap_end, queueVars, fs, scnVars, ok, failed,
                   unexpected>>

Succeeds(cb) == cb.lsn <= ap_end

(* try_handle_cb_queue takes the first callback if it can be answered ...  *)
PopCb(h) ==
    LET q == hd[h].task IN
    /\ hd[h].pc = "queue" /\ queue[q] # <<>>
    /\ Succeeds(Head(queue[q])) \/ ap_role = "FOLLOWER"
    /\ queue' = [queue EXCEPT ![q] = Tail(@)]
    /\ hd' = [hd EXCEPT ![h].pc = "cb", ![h].cb = Head(queue[q]),
                        ![h].ok = Succeeds(Head(queue[q]))]
    /\ UNCHANGED <<ap_role, ap_pid, ap_end, total_submit, total_apply, leaseVars,
                   fs, scnVars, ok, failed, unexpected>>

(* ... runs it, counts it, and goes on unless its time slice has run out.  *)
RunCb(h) ==
    LET q == hd[h].task
        id == hd[h].cb.id IN
    /\ hd[h].pc = "cb"
    /\ ok' = IF hd[h].ok THEN ok \union {id} ELSE ok
    /\ failed' = IF hd[h].ok THEN failed ELSE failed \union {id}
    /\ total_apply' = [total_apply EXCEPT ![q] = @ + 1]
    /\ \/ /\ hd' = [hd EXCEPT ![h] = [IdleHandler EXCEPT !.pc = "queue", !.task = q]]
          /\ UNCHANGED pool
       \/ /\ hd' = [hd EXCEPT ![h] = IdleHandler]
          /\ pool' = pool \union {q}
    /\ UNCHANGED <<ap_role, ap_pid, ap_end, queue, total_submit, lease, fs, scnVars,
                   unexpected>>

(* Nothing (more) to do for this task.                                     *)
FinishTask(h) ==
    /\ hd[h].pc \in {"submit", "queue"} /\ hd[h].todo = {}
    /\ hd[h].pc = "queue" /\ queue[hd[h].task] # <<>> =>
          ~Succeeds(Head(queue[hd[h].task])) /\ ap_role = "LEADER"
    /\ hd' = [hd EXCEPT ![h].pc = "revoke"]
    /\ UNCHANGED <<ap_role, ap_pid, ap_end, queueVars, leaseVars, fs, scnVars, ok,
                   failed, unexpected>>

(* handle: give the lease back, or go on if somebody came meanwhile.       *)
revoke_lease(h) ==
    LET t == hd[h].task IN
    /\ hd[h].pc = "revoke"
    /\ lease' = [lease EXCEPT ![t] = IF @ = "ready" THEN "handling" ELSE "idle"]
    /\ pool' = IF lease[t] = "ready" THEN pool \union {t} ELSE pool
    /\ hd' = [hd EXCEPT ![h] = IdleHandler]
    /\ UNCHANGED <<ap_role, ap_pid, ap_end, queueVars, fs, scnVars, ok, failed,
                   unexpected>>

-------------------------------------------------------------------------------
(* The file size callback of PALF                                          *)

SlidingLog == plog[slid + 1]

CommittedEnd == IF fs THEN slid + 1 ELSE slid

Unexpected == unexpected' = TRUE

(* The log slides: slid moves after the callback has returned.             *)
SlideLog ==
    /\ slid' = slid + 1
    /\ UNCHANGED <<plog, next_id, palf_role, palf_pid, own_pid, pending_end>>

(* update_palf_committed_end_lsn, under the read lock: a log of the term   *)
(* that this status leads moves its end; a log of a later leader does not. *)
UpdateEnd ==
    /\ ~fs /\ slid < Len(plog)
    /\ SlidingLog.pid = ap_pid /\ ap_role = "LEADER"
    /\ IF ap_end >= slid + 1
       THEN Unexpected /\ SlideLog /\ UNCHANGED <<ap_end, fs>>
       ELSE ap_end' = slid + 1 /\ fs' = TRUE /\ UNCHANGED <<palfVars, unexpected>>
    /\ UNCHANGED <<ap_role, ap_pid, queueVars, leaseVars, hd, scnVars, ok, failed>>

SubmitAfterUpdateEnd ==
    /\ fs /\ fs' = FALSE
    /\ submit_task_to_apply_service_(SubmitTask)
    /\ SlideLog
    /\ UNCHANGED <<ap_role, ap_pid, ap_end, queueVars, hd, scnVars, ok, failed,
                   unexpected>>

SkipUpdateEnd ==
    /\ ~fs /\ slid < Len(plog)
    /\ ~(SlidingLog.pid = ap_pid /\ ap_role = "LEADER")
    /\ IF SlidingLog.pid <= ap_pid THEN Unexpected ELSE UNCHANGED unexpected
    /\ SlideLog
    /\ UNCHANGED <<ap_role, ap_pid, ap_end, queueVars, leaseVars, hd, fs, scnVars,
                   ok, failed>>

-------------------------------------------------------------------------------
(* Role                                                                    *)

Readers == fs \/ gm.pc # "idle" \/ \E h \in Handler : hd[h].pc \in {"queue", "cb"}

(* switch_to_leader; its caller treats an error as unexpected.             *)
apply_switch_to_leader(pid) ==
    /\ ~Readers
    /\ IF pid < ap_pid \/ ap_role = "LEADER"
       THEN Unexpected /\ UNCHANGED <<ap_role, ap_pid>>
       ELSE ap_role' = "LEADER" /\ ap_pid' = pid /\ UNCHANGED unexpected
    /\ UNCHANGED <<ap_end, queueVars, leaseVars, hd, fs, scnVars, ok, failed>>

(* switch_to_follower: the callbacks left must be woken to fail.           *)
apply_switch_to_follower ==
    /\ ~Readers
    /\ ap_role' = "FOLLOWER"
    /\ IF ap_role = "FOLLOWER"
       THEN UNCHANGED <<leaseVars, last_check_scn>>
       ELSE last_check_scn' = 0 /\ submit_task_to_apply_service_(SubmitTask)
    /\ UNCHANGED <<ap_pid, ap_end, queueVars, hd, fs, max_applied_scn,
                   last_check_cnt, gm, ok, failed, unexpected>>

is_apply_done == \A q \in Queue : total_apply[q] = total_submit[q]

-------------------------------------------------------------------------------
(* get_max_applied_scn, under the read lock and mutex_                     *)

checkFrame == <<ap_role, ap_pid, ap_end, queueVars, leaseVars, hd, fs, ok, failed>>

(* FOLLOWER: all that has slid has been answered once every callback has.  *)
MaxAppliedOfFollower ==
    /\ gm.pc = "idle" /\ ap_role = "FOLLOWER"
    /\ is_apply_done /\ max_applied_scn < ap_end
    /\ max_applied_scn' = ap_end
    /\ UNCHANGED <<palfVars, checkFrame, last_check_scn, last_check_cnt, gm, unexpected>>

SnapshotApplied == \A q \in Queue : total_apply[q] >= last_check_cnt[q]

(* LEADER: the last snapshot is complete, or there is none: take a new one *)
(* (update_last_check_scn_), first reading PALF's max SCN ...              *)
ReadMaxScn ==
    /\ gm.pc = "idle" /\ ap_role = "LEADER"
    /\ last_check_scn > max_applied_scn => SnapshotApplied
    /\ IF last_check_scn # 0 /\ last_check_scn < max_applied_scn
       THEN Unexpected /\ UNCHANGED <<max_applied_scn, gm>>
       ELSE /\ max_applied_scn' = IF last_check_scn = 0 THEN max_applied_scn
                                                        ELSE last_check_scn
            /\ gm' = [gm EXCEPT !.pc = "role", !.scn = Len(plog)]
            /\ UNCHANGED unexpected
    /\ UNCHANGED <<palfVars, checkFrame, last_check_scn, last_check_cnt>>

(* ... then its role: another leader's logs must not be counted ...        *)
ReadPalfRole(critical) ==
    /\ gm.pc = "role"
    /\ IF gm.scn < max_applied_scn
       THEN Unexpected /\ gm' = IdleCheck
       ELSE IF can_append(ap_pid)
       THEN gm' = [gm EXCEPT !.pc = "sync", !.wait = critical] /\ UNCHANGED unexpected
       ELSE /\ gm' = IdleCheck
            /\ IF palf_pid < ap_pid THEN Unexpected ELSE UNCHANGED unexpected
    /\ UNCHANGED <<palfVars, checkFrame, last_check_scn, max_applied_scn, last_check_cnt>>

(* Mutant: wait_append_sync is missing.                                    *)
SnapshotWithoutSync ==
    /\ gm.pc = "sync"
    /\ last_check_cnt' = total_submit
    /\ last_check_scn' = gm.scn
    /\ gm' = IdleCheck
    /\ UNCHANGED <<palfVars, checkFrame, max_applied_scn, unexpected>>

(* ... and when every append that had begun has pushed its callback, the   *)
(* number of callbacks.                                                    *)
TakeSnapshot ==
    /\ gm.pc = "sync" /\ gm.wait = {}
    /\ last_check_cnt' = total_submit
    /\ last_check_scn' = gm.scn
    /\ gm' = IdleCheck
    /\ UNCHANGED <<palfVars, checkFrame, max_applied_scn, unexpected>>

ApplyInit ==
    /\ ap_role = "FOLLOWER" /\ ap_pid = 0 /\ ap_end = 0
    /\ queue = [q \in Queue |-> <<>>]
    /\ total_submit = [q \in Queue |-> 0] /\ total_apply = [q \in Queue |-> 0]
    /\ last_check_cnt = [q \in Queue |-> 0]
    /\ lease = [t \in Task |-> "idle"] /\ pool = {}
    /\ hd = [h \in Handler |-> IdleHandler]
    /\ fs = FALSE
    /\ last_check_scn = 0 /\ max_applied_scn = 0
    /\ gm = IdleCheck
    /\ ok = {} /\ failed = {}
    /\ unexpected = FALSE

===============================================================================
