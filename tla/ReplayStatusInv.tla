---------------------------- MODULE ReplayStatusInv ----------------------------
(***************************************************************************)
(* The inductive invariant of ReplayStatus: which logs are in which queue, *)
(* what has taken effect, what the counters count, who is awake.           *)
(***************************************************************************)
EXTENDS ReplayStatus

(* The tasks of a queue as a set, and the first of them (0 when empty).    *)
Cont == [q \in Queues |-> Range(queue[q])]
Front == [q \in Queues |-> IF queue[q] = << >> THEN 0 ELSE Head(queue[q])]

(* A queue holds logs in the order of the log.                             *)
QueuesOrdered ==
    \A q \in Queues : \A k, l \in 1 .. Len(queue[q]) :
        k < l => queue[q][k] < queue[q][l]

(* The log being submitted, the queues it has reached, and the logs that   *)
(* queue q has been given if they go there.                                *)
Sending(i) ==
    /\ i = next_lsn
    /\ sub_pc \in {"bcast", "signal"} \/ (sub_pc = "meta" /\ ~need_skip(i))
Reached(q) == sub_pc = "meta" \/ q < bc \/ (q = bc /\ sub_pc = "signal")
Sent(q, i) == i < next_lsn \/ (Sending(i) /\ Reached(q))

(* A replay status that is not enabled is empty; enable, disable and the   *)
(* role change do not overlap.                                             *)
EnabledInv ==
    /\ enabled => /\ base \in 1 .. Len(log) + 1 /\ next_lsn \in 1 .. Len(log) + 1
                  /\ next_scn <= next_lsn
    /\ ~enabled => /\ \A q \in Queues : Front[q] = 0 /\ pc[q] \notin {"replay", "pop"}
                   /\ post = 0 /\ ~SubmitReads /\ ~fs_push
                   /\ rc = "follower"
    /\ disabling => rc = "follower" /\ ~own
    /\ rc = "follower" => ~own
    /\ scan.done => rc = "wait"

SubmitInv ==
    /\ sub_pc \in {"bcast", "signal"} =>
          /\ next_lsn <= Len(log) /\ ~need_skip(next_lsn) /\ log[next_lsn].pre
          /\ bc <= NQ
    /\ sub_pc = "meta" => next_lsn <= Len(log)

(* What is in the queues, and what has taken effect.                       *)
TasksInv ==
    \A q \in Queues : \A x \in Cont[q] :
        /\ x \in 1 .. Len(log) /\ base <= x /\ ~log[x].pad
        /\ log[x].q = q \/ log[x].pre
        /\ x < next_scn \/ (Sending(x) /\ Reached(q))

CoveredInv ==
    enabled =>
      /\ \A i \in 1 .. base - 1 : Quiet(i)
      /\ \A i \in 1 .. Len(log) :
          Sent(log[i].q, i) => i < base \/ Quiet(i) \/ i \in Cont[log[i].q]

DoneInv ==
    /\ \A i \in done : i <= Len(log)
    /\ enabled => \A i \in done : \/ i < base \/ Sent(log[i].q, i)
                                  \/ (rc \in {"leading", "reset"} /\ i <= app)

(* A queue's first task is the one it replays; what has taken effect is    *)
(* popped next.                                                            *)
HeadInv ==
    /\ \A q \in Queues : \A x \in Cont[q] :
          x \in done /\ log[x].q = q => pc[q] = "pop" /\ x = Front[q]
    /\ \A q \in Queues :
          /\ pc[q] = "replay" => Front[q] # 0 /\ log[Front[q]].q = q
          /\ pc[q] = "pop" => Front[q] # 0 /\ (log[Front[q]].q = q => Front[q] \in done)

(* A queue that still has something before a pre-barrier log has its copy. *)
BroadcastInv ==
    \A q \in Queues : \A i \in 1 .. Len(log) :
        log[i].pre /\ ~log[i].pad /\ Sent(q, i) /\ Front[q] # 0 /\ Front[q] < i
            => i \in Cont[q]

(* The queues that have still to drop their reference to log i.            *)
Holders(i) ==
    {q \in Queues :
        \/ i \in Cont[q] /\ ~(Front[q] = i /\ pc[q] \in {"replay", "pop"})
        \/ Sending(i) /\ ~Reached(q)}

RefInv ==
    /\ \A i \in 1 .. Len(log) : log[i].pre =>
          /\ ref[i] = Cardinality(Holders(i))
          /\ Holders(i) # {} => log[i].q \in Holders(i)
    /\ \A i \in 1 .. MaxLog : i > Len(log) => ref[i] = 0

(* The one post-barrier log that is submitted and not replayed.            *)
PostInv ==
    /\ enabled => \A j \in 1 .. Len(log) :
          log[j].post /\ base <= j /\ ~Quiet(j) /\ (j < next_lsn \/ Sending(j)) => post = j
    /\ post # 0 => /\ post \in 1 .. Len(log) /\ log[post].post /\ post \notin done
                   /\ \A q \in Queues : \A x \in Cont[q] : x <= post
                   /\ post < next_lsn \/ Sending(post)
                   /\ Sending(next_lsn) => next_lsn = post

(* The logs that are counted as pending.                                   *)
Pend ==
    {i \in 1 .. Len(log) :
        IF log[i].pre THEN /\ i \notin done
                           /\ i \in Cont[log[i].q] \/ (Sending(i) /\ ~Reached(log[i].q))
                      ELSE i \in Cont[log[i].q]}

PendingInv == pending = Cardinality(Pend)

ScanInv ==
    /\ scan.pc = "scan" => scan.k \in Queues
    /\ scan.pc = "answer" => scan.k = NQ + 1
    /\ enabled /\ scan.pc # "idle" =>
          /\ scan.lsn <= next_lsn /\ (scan.scn <= scan.lsn \/ scan.scn <= base)
          /\ scan.pc = "scan" => scan.scn <= scan.lsn
          /\ \A q \in Queues : \A x \in Cont[q] :
                /\ q < scan.k => x >= scan.lsn
                /\ x < scan.lsn => x < scan.scn

(* The role change: what the log and the queues are in each of its states. *)
RoleInv ==
    /\ role = "LEADER" <=> rc \in {"clear", "leading", "reset", "role"}
    /\ rc \in {"leading", "reset", "role"} =>
          sub_pc \notin {"fetch", "bcast", "signal", "meta"}
    /\ app <= mine /\ end_lsn <= mine /\ mine <= Len(log)
    /\ own => /\ rc \in {"wait", "ready", "clear", "leading"}
              /\ mine = Len(log)
              /\ rc # "leading" => mine = end_lsn
    /\ rc \in {"ready", "clear", "leading", "reset"} =>
          /\ next_lsn > end_lsn
          /\ \A i \in 1 .. end_lsn : Quiet(i)
          /\ \A q \in Queues : \A x \in Cont[q] : x > end_lsn
    /\ rc \in {"wait", "ready", "clear"} => mine = end_lsn
    /\ rc \in {"wait", "ready", "clear", "leading", "reset"} => base <= end_lsn + 1
    /\ rc \in {"leading", "reset"} =>
          /\ \A i \in 1 .. app : Quiet(i)
          /\ mine > end_lsn \/ own =>
                next_lsn = end_lsn + 1 /\ \A q \in Queues : Front[q] = 0

LeaseInv ==
    /\ sub_lease = "idle" <=> sub_pc = "out"
    /\ \A q \in Queues : lease[q] = "idle" <=> pc[q] = "out"
    /\ \A q \in Queues : need_batch[q] => SubmitReads

WakeInv ==
    /\ enabled => \A q \in Queues : Front[q] # 0 => QueueAwake(q)
    /\ enabled /\ need_submit_log /\ next_lsn <= Len(log) => SubmitAwake

IInv ==
    /\ TypeOK /\ QueuesOrdered /\ EnabledInv /\ SubmitInv /\ TasksInv /\ CoveredInv /\ DoneInv
    /\ HeadInv /\ BroadcastInv /\ RefInv /\ PostInv /\ PendingInv /\ ScanInv /\ RoleInv
    /\ LeaseInv /\ WakeInv

===============================================================================
