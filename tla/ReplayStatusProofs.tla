-------------------------- MODULE ReplayStatusProofs --------------------------
(***************************************************************************)
(* Proofs about the replay of one log stream, for any number of queues,    *)
(* any kinds of logs, any bound on the log and every part of the           *)
(* environment: the invariant of ReplayStatusInv is inductive; from it     *)
(* follow the order in which logs take effect (ReplayOrder), that none     *)
(* does twice, the answers about the replay position, the state in which   *)
(* a leader serves, and that no wake-up is lost.                           *)
(***************************************************************************)
EXTENDS ReplayStatusInv, FiniteSetTheorems, TLAPS

-------------------------------------------------------------------------------
(* Sequences in increasing order: the tasks of a queue.                    *)

Increasing(s) == \A k, l \in 1 .. Len(s) : k < l => s[k] < s[l]

(* The range of a sequence in terms of its indices.                        *)
LEMMA RangeOf ==
  ASSUME NEW S, NEW s \in Seq(S)
  PROVE  Range(s) = {s[k] : k \in 1 .. Len(s)}
BY DEF Range

(* The head of an increasing sequence is its least element.                *)
LEMMA IncHead ==
  ASSUME NEW s \in Seq(Nat), Increasing(s), s # << >>
  PROVE  Head(s) \in Range(s) /\ \A x \in Range(s) : Head(s) <= x
BY RangeOf DEF Increasing

(* Appending an element larger than all keeps a sequence increasing, with  *)
(* the same head unless it was empty.                                      *)
LEMMA IncAppend ==
  ASSUME NEW s \in Seq(Nat), Increasing(s), NEW x \in Nat, \A y \in Range(s) : y < x
  PROVE  /\ Increasing(Append(s, x)) /\ Range(Append(s, x)) = Range(s) \union {x}
         /\ Append(s, x) # << >>
         /\ Head(Append(s, x)) = IF s = << >> THEN x ELSE Head(s)
<1>1. Append(s, x) \in Seq(Nat) /\ Len(Append(s, x)) = Len(s) + 1
  OBVIOUS
<1>2. /\ \A k \in 1 .. Len(s) : Append(s, x)[k] = s[k]
      /\ Append(s, x)[Len(s) + 1] = x
  OBVIOUS
<1>r. /\ Range(s) = {s[k] : k \in 1 .. Len(s)}
      /\ Range(Append(s, x)) = {Append(s, x)[k] : k \in 1 .. Len(s) + 1}
  BY <1>1, RangeOf
<1>3. Range(Append(s, x)) = Range(s) \union {x}
  <2>1. ASSUME NEW y \in Range(Append(s, x)) PROVE y \in Range(s) \union {x}
    BY <1>2, <1>r
  <2>2. ASSUME NEW y \in Range(s) \union {x} PROVE y \in Range(Append(s, x))
    BY <1>2, <1>r
  <2> QED
    BY <2>1, <2>2
<1>4. Increasing(Append(s, x))
  <2> SUFFICES ASSUME NEW k \in 1 .. Len(s) + 1, NEW l \in 1 .. Len(s) + 1, k < l
               PROVE  Append(s, x)[k] < Append(s, x)[l]
    BY <1>1 DEF Increasing
  <2>1. k \in 1 .. Len(s) /\ Append(s, x)[k] = s[k] /\ s[k] \in Range(s)
    BY <1>2, <1>r
  <2>2. CASE l = Len(s) + 1
    BY <2>1, <2>2, <1>2
  <2>3. CASE l \in 1 .. Len(s)
    BY <2>1, <2>3, <1>2 DEF Increasing
  <2> QED
    BY <2>2, <2>3
<1> QED
  BY SMTT(30), <1>1, <1>2, <1>3, <1>4

(* The tail of an increasing sequence is increasing and has lost the head  *)
(* only.                                                                   *)
LEMMA IncTail ==
  ASSUME NEW s \in Seq(Nat), Increasing(s), s # << >>
  PROVE  Increasing(Tail(s)) /\ Range(Tail(s)) = Range(s) \ {Head(s)}
<1>1. Tail(s) \in Seq(Nat) /\ Len(Tail(s)) = Len(s) - 1 /\ Len(s) >= 1
  OBVIOUS
<1>2. \A k \in 1 .. Len(s) - 1 : Tail(s)[k] = s[k + 1]
  OBVIOUS
<1>3. Increasing(Tail(s))
  BY <1>1, <1>2 DEF Increasing
<1>4. Range(Tail(s)) = {s[k] : k \in 2 .. Len(s)}
  <2>1. \A k \in 2 .. Len(s) : k - 1 \in 1 .. Len(s) - 1 /\ Tail(s)[k - 1] = s[k]
    BY <1>1, <1>2
  <2>2. Range(Tail(s)) = {Tail(s)[k] : k \in 1 .. Len(s) - 1}
    BY <1>1, RangeOf
  <2>3. \A k \in 1 .. Len(s) - 1 : k + 1 \in 2 .. Len(s)
    BY <1>1
  <2>4. ASSUME NEW y \in Range(Tail(s)) PROVE y \in {s[k] : k \in 2 .. Len(s)}
    BY <2>2, <2>3, <1>2
  <2>5. ASSUME NEW y \in {s[k] : k \in 2 .. Len(s)} PROVE y \in Range(Tail(s))
    BY <2>1, <2>2
  <2> QED
    BY <2>4, <2>5
<1>5. Head(s) = s[1] /\ \A k \in 2 .. Len(s) : s[1] < s[k]
  BY <1>1 DEF Increasing
<1>6. \A k \in 2 .. Len(s) : s[k] # s[1]
  BY <1>5, <1>1
<1>7. Range(s) = {s[k] : k \in 1 .. Len(s)}
  BY RangeOf
<1> QED
  BY <1>1, <1>3, <1>4, <1>5, <1>6, <1>7

-------------------------------------------------------------------------------
(* The queues seen as sets with a first element.                           *)

QueueFacts ==
    /\ Cont \in [Queues -> SUBSET (1 .. MaxLog)]
    /\ Front \in [Queues -> 0 .. MaxLog]
    /\ \A q \in Queues :
          /\ queue[q] = << >> <=> Front[q] = 0
          /\ queue[q] # << >> => Head(queue[q]) = Front[q]
          /\ Front[q] = 0 <=> Cont[q] = {}
          /\ Front[q] # 0 => Front[q] \in Cont[q]
          /\ \A x \in Cont[q] : Front[q] <= x

(* A queue is empty when its first task is 0, and its first task is the    *)
(* least of its set.                                                       *)
LEMMA QueueFactsHold ==
  TypeOK /\ QueuesOrdered => QueueFacts
<1> SUFFICES ASSUME TypeOK, QueuesOrdered PROVE QueueFacts
  OBVIOUS
<1> USE MaxLogAssumption
<1>1. \A q \in Queues : queue[q] \in Seq(1 .. MaxLog) /\ queue[q] \in Seq(Nat)
                        /\ Increasing(queue[q])
  BY DEF TypeOK, QueuesOrdered, Increasing
<1>2. ASSUME NEW q \in Queues PROVE Range(queue[q]) \in SUBSET (1 .. MaxLog)
  <2>1. queue[q] \in Seq(1 .. MaxLog)
    BY <1>1
  <2>2. Range(queue[q]) = {queue[q][k] : k \in 1 .. Len(queue[q])}
    BY <2>1, RangeOf
  <2> QED
    BY <2>1, <2>2
<1>3. Cont \in [Queues -> SUBSET (1 .. MaxLog)]
  BY <1>2 DEF Cont
<1>4. ASSUME NEW q \in Queues, queue[q] = << >>
      PROVE  Front[q] = 0 /\ Cont[q] = {}
  <2>1. Range(<< >>) = {}
    BY DEF Range
  <2> QED
    BY <1>4, <2>1 DEF Front, Cont
<1>5. ASSUME NEW q \in Queues, queue[q] # << >>
      PROVE  /\ Front[q] = Head(queue[q]) /\ Front[q] \in 1 .. MaxLog
             /\ Front[q] \in Cont[q] /\ \A x \in Cont[q] : Front[q] <= x
  <2>1. Head(queue[q]) \in Range(queue[q]) /\ \A x \in Range(queue[q]) : Head(queue[q]) <= x
    BY <1>1, <1>5, IncHead
  <2> QED
    BY <2>1, <1>2, <1>5 DEF Front, Cont
<1>6. Front \in [Queues -> 0 .. MaxLog]
  BY <1>4, <1>5 DEF Front
<1> QED
  BY <1>3, <1>4, <1>5, <1>6 DEF QueueFacts

(* A step that leaves the queues alone leaves all that is defined from     *)
(* them.                                                                   *)
LEMMA QueueSame ==
  ASSUME queue' = queue
  PROVE  Cont' = Cont /\ Front' = Front /\ (QueuesOrdered => QueuesOrdered')
         /\ (QueueFacts => QueueFacts')
<1>1. Cont' = Cont /\ Front' = Front
  BY DEF Cont, Front
<1> QED
  BY <1>1 DEF QueuesOrdered, QueueFacts

(* PushTask: the log is later than those in the queue.                     *)
LEMMA QueuePush ==
  ASSUME TypeOK, QueuesOrdered, NEW q \in Queues, NEW x \in 1 .. MaxLog,
         \A y \in Cont[q] : y < x, queue' = [queue EXCEPT ![q] = Append(@, x)]
  PROVE  /\ queue' \in [Queues -> Seq(1 .. MaxLog)] /\ QueuesOrdered'
         /\ Cont' = [Cont EXCEPT ![q] = @ \union {x}]
         /\ Front' = [Front EXCEPT ![q] = IF @ = 0 THEN x ELSE @]
<1> USE MaxLogAssumption
<1>0. \A r \in Queues : queue[r] \in Seq(1 .. MaxLog) /\ queue[r] \in Seq(Nat)
                        /\ Increasing(queue[r])
  BY DEF TypeOK, QueuesOrdered, Increasing
<1>f. QueueFacts
  BY QueueFactsHold
<1>1. queue \in [Queues -> Seq(1 .. MaxLog)]
  BY DEF TypeOK
<1>2. queue' \in [Queues -> Seq(1 .. MaxLog)]
  BY <1>0, <1>1
<1>3. /\ queue'[q] = Append(queue[q], x)
      /\ \A r \in Queues : r # q => queue'[r] = queue[r]
  BY <1>1
<1>4. /\ Increasing(Append(queue[q], x))
      /\ Range(Append(queue[q], x)) = Range(queue[q]) \union {x}
      /\ Append(queue[q], x) # << >>
      /\ Head(Append(queue[q], x)) = IF queue[q] = << >> THEN x ELSE Head(queue[q])
  <2>1. \A y \in Range(queue[q]) : y < x
    BY DEF Cont
  <2> QED
    BY <2>1, <1>0, IncAppend
<1>5. \A r \in Queues : Increasing(queue'[r])
  BY <1>0, <1>3, <1>4
<1>6. QueuesOrdered'
  BY <1>5 DEF QueuesOrdered, Increasing
<1>7. Cont' = [Cont EXCEPT ![q] = @ \union {x}]
  <2>0. \A r \in Queues : Cont[r] = Range(queue[r]) /\ Cont'[r] = Range(queue'[r])
    BY DEF Cont
  <2>1. \A r \in Queues : Cont'[r] = IF r = q THEN Cont[r] \union {x} ELSE Cont[r]
    BY <1>3, <1>4, <2>0
  <2> QED
    BY <2>1 DEF Cont
<1>8. Front' = [Front EXCEPT ![q] = IF @ = 0 THEN x ELSE @]
  <2>1. Front[q] = 0 <=> queue[q] = << >>
    BY <1>f DEF QueueFacts
  <2>2. \A r \in Queues : Front'[r] = IF r = q THEN (IF Front[r] = 0 THEN x ELSE Front[r])
                                       ELSE Front[r]
    BY <2>1, <1>3, <1>4 DEF Front
  <2> QED
    BY <2>2 DEF Front
<1> QED
  BY <1>2, <1>6, <1>7, <1>8

(* pop.                                                                    *)
LEMMA QueuePopped ==
  ASSUME TypeOK, QueuesOrdered, NEW q \in Queues, queue[q] # << >>,
         queue' = [queue EXCEPT ![q] = Tail(@)]
  PROVE  /\ queue' \in [Queues -> Seq(1 .. MaxLog)] /\ QueuesOrdered'
         /\ Cont' = [Cont EXCEPT ![q] = @ \ {Front[q]}]
         /\ \A r \in Queues : r # q => Front'[r] = Front[r]
<1> USE MaxLogAssumption
<1>0. \A r \in Queues : queue[r] \in Seq(1 .. MaxLog) /\ queue[r] \in Seq(Nat)
                        /\ Increasing(queue[r])
  BY DEF TypeOK, QueuesOrdered, Increasing
<1>1. queue \in [Queues -> Seq(1 .. MaxLog)]
  BY DEF TypeOK
<1>2. queue' \in [Queues -> Seq(1 .. MaxLog)]
  BY <1>0, <1>1
<1>3. /\ queue'[q] = Tail(queue[q])
      /\ \A r \in Queues : r # q => queue'[r] = queue[r]
  BY <1>1
<1>4. /\ Increasing(Tail(queue[q]))
      /\ Range(Tail(queue[q])) = Range(queue[q]) \ {Head(queue[q])}
  BY <1>0, IncTail
<1>5. \A r \in Queues : Increasing(queue'[r])
  BY <1>0, <1>3, <1>4
<1>6. QueuesOrdered'
  BY <1>5 DEF QueuesOrdered, Increasing
<1>7. Front[q] = Head(queue[q])
  BY DEF Front
<1>8. Cont' = [Cont EXCEPT ![q] = @ \ {Front[q]}]
  <2>0. \A r \in Queues : Cont[r] = Range(queue[r]) /\ Cont'[r] = Range(queue'[r])
    BY DEF Cont
  <2>1. \A r \in Queues : Cont'[r] = IF r = q THEN Cont[r] \ {Front[q]} ELSE Cont[r]
    BY <1>3, <1>4, <1>7, <2>0
  <2> QED
    BY <2>1 DEF Cont
<1> QED
  BY <1>2, <1>3, <1>6, <1>8 DEF Front

-------------------------------------------------------------------------------
(* TypeOK in two parts: the Boolean variables and the others.              *)

BoolOK ==
    /\ own \in BOOLEAN /\ enabled \in BOOLEAN /\ blocked \in BOOLEAN /\ fatal \in BOOLEAN
    /\ again \in BOOLEAN /\ need_batch \in [Queues -> BOOLEAN]
    /\ fs_check \in BOOLEAN /\ fs_push \in BOOLEAN /\ unblocking \in BOOLEAN
    /\ disabling \in BOOLEAN

DataOK ==
    /\ log \in Seq(Entries) /\ Len(log) <= MaxLog /\ done \in SUBSET (1 .. MaxLog)
    /\ end_lsn \in 0 .. MaxLog /\ mine \in 0 .. MaxLog
    /\ app \in 0 .. MaxLog /\ rc \in RcStates /\ role \in {"LEADER", "FOLLOWER"}
    /\ base \in Nat /\ next_lsn \in Nat /\ next_scn \in Nat
    /\ sub_lease \in LeaseStates /\ sub_pc \in SubPcs /\ bc \in 1 .. NQ + 1
    /\ queue \in [Queues -> Seq(1 .. MaxLog)]
    /\ lease \in [Queues -> LeaseStates] /\ pc \in [Queues -> QueuePcs]
    /\ ref \in [1 .. MaxLog -> Int] /\ post \in 0 .. MaxLog /\ pending \in Int

(* The type invariant in two parts: the flags, and the rest.               *)
LEMMA TypeParts == TypeOK <=> BoolOK /\ DataOK /\ scan \in ScanType
BY DEF TypeOK, BoolOK, DataOK

(* The fields of a committed log entry.                                    *)
LEMMA LogEntry ==
  ASSUME TypeOK, NEW i \in 1 .. Len(log)
  PROVE  /\ log[i] \in Entries /\ log[i].q \in Queues /\ log[i].pre \in BOOLEAN
         /\ log[i].post \in BOOLEAN /\ log[i].pad \in BOOLEAN /\ i \in 1 .. MaxLog
BY EntriesAssumption, MaxLogAssumption DEF TypeOK

(* The flags stay flags.                                                   *)
LEMMA BoolStep ==
  BoolOK /\ scan \in ScanType /\ Next
  => BoolOK'
<1> SUFFICES ASSUME BoolOK, scan \in ScanType, Next PROVE BoolOK'
  OBVIOUS
<1> USE DEF logVars, rcVars, stVars, nextVars, subVars, taskVars, taskQueueVars, envVars
<1>1. ASSUME SubmitTake PROVE BoolOK'
    BY <1>1 DEF SubmitTake, SubmitGoto, BoolOK, ScanType
<1>2. ASSUME SubmitCheck PROVE BoolOK'
    BY <1>2 DEF SubmitCheck, SubmitGoto, BoolOK, ScanType
<1>3. ASSUME FetchNone PROVE BoolOK'
    BY <1>3 DEF FetchNone, SubmitGoto, BoolOK, ScanType
<1>4. ASSUME FetchSkip PROVE BoolOK'
    BY <1>4 DEF FetchSkip, SubmitGoto, Fetched, BoolOK, ScanType
<1>5. ASSUME FetchRetry PROVE BoolOK'
    BY <1>5 DEF FetchRetry, SubmitGoto, Fetched, BoolOK, ScanType
<1>6. ASSUME FetchPush PROVE BoolOK'
    BY <1>6 DEF FetchPush, SubmitLog, PushTask, SubmitGoto, Fetched, BoolOK, ScanType
<1>7. ASSUME FetchBroadcast PROVE BoolOK'
    BY <1>7 DEF FetchBroadcast, SubmitLog, SubmitGoto, Fetched, BoolOK, ScanType
<1>8. ASSUME Broadcast PROVE BoolOK'
    BY <1>8 DEF Broadcast, PushTask, SubmitGoto, BoolOK, ScanType
<1>9. ASSUME BroadcastSignal PROVE BoolOK'
    BY <1>9 DEF BroadcastSignal, submit_task_queue, Acquired, SubmitGoto, BoolOK,
       ScanType
<1>10. ASSUME SubmitMeta PROVE BoolOK'
    BY <1>10 DEF SubmitMeta, SubmitGoto, BoolOK, ScanType
<1>11. ASSUME NEW q \in Queues, batch_push_all_task_queue(q) PROVE BoolOK'
    BY <1>11 DEF batch_push_all_task_queue, submit_task_queue, Acquired, BoolOK,
       ScanType
<1>12. ASSUME SubmitEnd PROVE BoolOK'
    BY <1>12 DEF SubmitEnd, SubmitGoto, BoolOK, ScanType
<1>13. ASSUME SubmitRevoke PROVE BoolOK'
    BY <1>13 DEF SubmitRevoke, BoolOK, ScanType
<1>14. ASSUME NEW q \in Queues, QueueTake(q) PROVE BoolOK'
    BY <1>14 DEF QueueTake, QueueGoto, queueFrame, BoolOK, ScanType
<1>15. ASSUME NEW q \in Queues, QueueEmpty(q) PROVE BoolOK'
    BY <1>15 DEF QueueEmpty, QueueGoto, queueFrame, BoolOK, ScanType
<1>16. ASSUME NEW q \in Queues, QueueWait(q) PROVE BoolOK'
    BY <1>16 DEF QueueWait, QueueGoto, queueFrame, HasTop, BoolOK, ScanType
<1>17. ASSUME NEW q \in Queues, QueueStart(q) PROVE BoolOK'
    BY <1>17 DEF QueueStart, QueueGoto, queueFrame, HasTop, BoolOK, ScanType
<1>18. ASSUME NEW q \in Queues, ReplayOk(q) PROVE BoolOK'
    BY <1>18 DEF ReplayOk, QueueGoto, queueFrame, BoolOK, ScanType
<1>19. ASSUME NEW q \in Queues, ReplayFail(q) PROVE BoolOK'
    BY <1>19 DEF ReplayFail, QueueGoto, queueFrame, BoolOK, ScanType
<1>20. ASSUME NEW q \in Queues, QueuePop(q) PROVE BoolOK'
    BY <1>20 DEF QueuePop, QueueGoto, queueFrame, BoolOK, ScanType
<1>21. ASSUME NEW q \in Queues, QueueRevoke(q) PROVE BoolOK'
    BY <1>21 DEF QueueRevoke, BoolOK, ScanType
<1>22. ASSUME NEW d \in BOOLEAN, ScanStart(d) PROVE BoolOK'
    BY <1>22 DEF ScanStart, scanFrame, BoolOK, ScanType
<1>23. ASSUME ScanQueue PROVE BoolOK'
    BY <1>23 DEF ScanQueue, scanFrame, BoolOK, ScanType
<1>24. ASSUME ScanEnd PROVE BoolOK'
    BY <1>24 DEF ScanEnd, scanFrame, IdleScan, BoolOK, ScanType
<1>25. ASSUME BecomeLeader PROVE BoolOK'
    BY <1>25 DEF BecomeLeader, rcFrame, BoolOK, ScanType
<1>26. ASSUME LoseLeader PROVE BoolOK'
    BY <1>26 DEF LoseLeader, rcFrame, BoolOK, ScanType
<1>27. ASSUME GiveUp PROVE BoolOK'
    BY <1>27 DEF GiveUp, rcFrame, BoolOK, ScanType
<1>28. ASSUME switch_to_leader PROVE BoolOK'
    BY <1>28 DEF switch_to_leader, rcFrame, BoolOK, ScanType
<1>29. ASSUME Serve PROVE BoolOK'
    BY <1>29 DEF Serve, rcFrame, BoolOK, ScanType
<1>30. ASSUME StepDown PROVE BoolOK'
    BY <1>30 DEF StepDown, rcFrame, BoolOK, ScanType
<1>31. ASSUME reset_iterator PROVE BoolOK'
    BY <1>31 DEF reset_iterator, rcFrame, Larger, BoolOK, ScanType
<1>32. ASSUME FollowerRole PROVE BoolOK'
    BY <1>32 DEF FollowerRole, rcFrame, BoolOK, ScanType
<1>33. ASSUME FollowerPush PROVE BoolOK'
    BY <1>33 DEF FollowerPush, submit_submit_task, Acquired, rcFrame, BoolOK, ScanType
<1>34. ASSUME NEW scn \in 1 .. Len(log) + 1, NEW lsn \in 1 .. scn, enable(lsn, scn)
       PROVE  BoolOK'
    BY <1>34 DEF enable, submit_submit_task, Acquired, BoolOK, ScanType
<1>35. ASSUME disable PROVE BoolOK'
    BY <1>35 DEF disable, BoolOK, ScanType
<1>36. ASSUME disable_ PROVE BoolOK'
    BY <1>36 DEF disable_, BoolOK, ScanType
<1>37. ASSUME block_submit PROVE BoolOK'
    BY <1>37 DEF block_submit, BoolOK, ScanType
<1>38. ASSUME unblock_submit PROVE BoolOK'
    BY <1>38 DEF unblock_submit, BoolOK, ScanType
<1>39. ASSUME UnblockPush PROVE BoolOK'
    BY <1>39 DEF UnblockPush, submit_submit_task, Acquired, BoolOK, ScanType
<1>40. ASSUME NEW e \in Entries, Commit(e) PROVE BoolOK'
    BY <1>40 DEF Commit, logFrame, BoolOK, ScanType
<1>41. ASSUME NEW e \in Entries, CommitOwn(e) PROVE BoolOK'
    BY <1>41 DEF CommitOwn, logFrame, BoolOK, ScanType
<1>42. ASSUME Apply PROVE BoolOK'
    BY <1>42 DEF Apply, Larger, BoolOK, ScanType
<1>43. ASSUME FsCheck PROVE BoolOK'
    BY <1>43 DEF FsCheck, BoolOK, ScanType
<1>44. ASSUME FsPush PROVE BoolOK'
    BY <1>44 DEF FsPush, submit_submit_task, Acquired, BoolOK, ScanType
<1> QED
  BY <1>1, <1>2, <1>3, <1>4, <1>5, <1>6, <1>7, <1>8, <1>9, <1>10, <1>11, <1>12, <1>13,
     <1>14, <1>15, <1>16, <1>17, <1>18, <1>19, <1>20, <1>21, <1>22, <1>23, <1>24, <1>25,
     <1>26, <1>27, <1>28, <1>29, <1>30, <1>31, <1>32, <1>33, <1>34, <1>35, <1>36, <1>37,
     <1>38, <1>39, <1>40, <1>41, <1>42, <1>43, <1>44 DEF Next, SubmitStep, QueueStep,
     ScanStep, RoleStep, AdminStep, LogStep

(* Types, and the order in the queues.                                     *)
LEMMA DataStep ==
  IInv /\ Next => DataOK' /\ QueuesOrdered'
<1> SUFFICES ASSUME IInv, Next PROVE DataOK' /\ QueuesOrdered'
  OBVIOUS
<1> USE NQAssumption, MaxLogAssumption, EntriesAssumption DEF SubPcs, QueuePcs,
       RcStates, LeaseStates, logVars, rcVars, stVars, nextVars, subVars, taskVars,
       taskQueueVars, envVars
<1>0. /\ TypeOK /\ QueuesOrdered /\ TasksInv /\ EnabledInv /\ SubmitInv /\ HeadInv
      /\ RoleInv
  BY DEF IInv
<1>t. DataOK
  BY <1>0, TypeParts
<1>f. QueueFacts
  BY <1>0, QueueFactsHold
<1>1. CASE SubmitTake
  BY <1>1, <1>0, <1>t, QueueSame DEF SubmitTake, SubmitGoto, DataOK
<1>2. CASE SubmitCheck
  BY <1>2, <1>0, <1>t, QueueSame DEF SubmitCheck, SubmitGoto, DataOK
<1>3. CASE FetchNone
  BY <1>3, <1>0, <1>t, QueueSame DEF FetchNone, SubmitGoto, DataOK
<1>4. CASE FetchSkip
  BY <1>4, <1>0, <1>t, QueueSame DEF FetchSkip, SubmitGoto, Fetched, DataOK
<1>5. CASE FetchRetry
  BY <1>5, <1>0, <1>t, QueueSame DEF FetchRetry, SubmitGoto, Fetched, DataOK
<1>6. ASSUME FetchPush PROVE DataOK' /\ QueuesOrdered'
  <2>0. next_lsn \in 1 .. Len(log)
    BY <1>6, <1>0 DEF TypeOK, FetchPush, SubmitLog, Fetched, SubmitReads, EnabledInv, SubmitInv
  <2>1. log[next_lsn].q \in Queues /\ next_lsn \in 1 .. MaxLog
    BY <1>6, <2>0, <1>0, LogEntry DEF TypeOK, SubmitInv, Queues, FetchPush, SubmitLog
  <2>2. ASSUME NEW y \in Cont[log[next_lsn].q] PROVE y < next_lsn
    <3>1. y < next_scn \/ (Sending(y) /\ Reached(log[next_lsn].q))
      BY <1>0, <2>1 DEF TasksInv
    <3>2. ~(Sending(y) /\ Reached(log[next_lsn].q))
      BY <1>6, <1>0, <2>1 DEF Sending, Reached, FetchPush, SubmitLog, Fetched, TypeOK
    <3>3. enabled
      BY <1>6, <1>0 DEF EnabledInv, SubmitReads, FetchPush, SubmitLog, Fetched
    <3>4. y \in Nat
      BY <1>f, <2>1 DEF QueueFacts
    <3> QED
      BY <3>1, <3>2, <3>3, <3>4, <1>0 DEF EnabledInv, TypeOK
  <2>3. /\ queue' \in [Queues -> Seq(1 .. MaxLog)] /\ QueuesOrdered'
    BY <1>6, <2>1, <2>2, <1>0, QueuePush DEF FetchPush, SubmitLog, PushTask, Fetched, SubmitGoto
  <2> QED
    BY <1>6, <2>0, <2>3, <1>t DEF DataOK, FetchPush, SubmitLog, PushTask, Fetched, SubmitGoto
<1>7. ASSUME FetchBroadcast PROVE DataOK' /\ QueuesOrdered'
  BY <1>7, <1>0, <1>t, QueueSame DEF FetchBroadcast, SubmitLog, SubmitGoto,
     Fetched, DataOK, EnabledInv, SubmitReads
<1>8. ASSUME Broadcast PROVE DataOK' /\ QueuesOrdered'
  <2>0. next_lsn \in 1 .. Len(log)
    BY <1>8, <1>0 DEF TypeOK, Broadcast, Fetched, SubmitReads, EnabledInv, SubmitInv
  <2>1. bc \in Queues /\ next_lsn \in 1 .. MaxLog
    BY <1>8, <2>0, <1>0, LogEntry DEF TypeOK, SubmitInv, Queues, Broadcast
  <2>2. ASSUME NEW y \in Cont[bc] PROVE y < next_lsn
    <3>1. y < next_scn \/ (Sending(y) /\ Reached(bc))
      BY <1>0, <2>1 DEF TasksInv
    <3>2. ~(Sending(y) /\ Reached(bc))
      BY <1>8, <1>0, <2>1 DEF Sending, Reached, Broadcast, Fetched, TypeOK
    <3>3. enabled
      BY <1>8, <1>0 DEF EnabledInv, SubmitReads, Broadcast, Fetched
    <3>4. y \in Nat
      BY <1>f, <2>1 DEF QueueFacts
    <3> QED
      BY <3>1, <3>2, <3>3, <3>4, <1>0 DEF EnabledInv, TypeOK
  <2>3. /\ queue' \in [Queues -> Seq(1 .. MaxLog)] /\ QueuesOrdered'
    BY <1>8, <2>1, <2>2, <1>0, QueuePush DEF Broadcast, PushTask, SubmitGoto
  <2> QED
    BY <1>8, <2>0, <2>3, <1>t DEF DataOK, Broadcast, PushTask, SubmitGoto
<1>9. ASSUME BroadcastSignal PROVE DataOK' /\ QueuesOrdered'
  <2>1. bc \in Queues
    BY <1>9, <1>0 DEF BroadcastSignal, SubmitInv, Queues, TypeOK
  <2>2. lease' \in [Queues -> LeaseStates] /\ pc' \in [Queues -> QueuePcs]
    BY <1>9, <2>1, <1>t DEF BroadcastSignal, submit_task_queue, Acquired, DataOK
  <2>3. bc' \in 1 .. NQ + 1
    BY <1>9, <2>1 DEF BroadcastSignal, Queues
  <2> QED
    BY <1>9, <2>2, <2>3, <1>0, <1>t, QueueSame DEF BroadcastSignal, SubmitGoto, DataOK
<1>10. CASE SubmitMeta
  BY <1>10, <1>0, <1>t, QueueSame DEF SubmitMeta, SubmitGoto, DataOK
<1>11. ASSUME NEW q \in Queues, batch_push_all_task_queue(q) PROVE DataOK' /\ QueuesOrdered'
  BY <1>11, <1>0, <1>t, QueueSame DEF batch_push_all_task_queue,
     submit_task_queue, Acquired, DataOK
<1>12. ASSUME SubmitEnd PROVE DataOK' /\ QueuesOrdered'
  BY <1>12, <1>0, <1>t, QueueSame DEF SubmitEnd, SubmitGoto, DataOK
<1>13. ASSUME SubmitRevoke PROVE DataOK' /\ QueuesOrdered'
  BY <1>13, <1>0, <1>t, QueueSame DEF SubmitRevoke, DataOK
<1>14. CASE (\E q \in Queues : QueueTake(q))
  BY <1>14, <1>0, <1>t, QueueSame DEF QueueTake, QueueGoto, queueFrame, DataOK
<1>15. CASE (\E q \in Queues : QueueEmpty(q))
  BY <1>15, <1>0, <1>t, QueueSame DEF QueueEmpty, QueueGoto, queueFrame, DataOK
<1>16. CASE (\E q \in Queues : QueueWait(q))
  BY <1>16, <1>0, <1>t, QueueSame DEF QueueWait, QueueGoto, queueFrame, HasTop,
     DataOK
<1>17. ASSUME NEW q \in Queues, QueueStart(q) PROVE DataOK' /\ QueuesOrdered'
  <2>1. Head(queue[q]) \in 1 .. MaxLog
    BY <1>17, <1>0, <1>f DEF QueueStart, HeadInv, QueueFacts, HasTop
  <2>2. pc' \in [Queues -> QueuePcs]
    BY <1>17, <1>t DEF QueueStart, QueueGoto, DataOK
  <2>3. ref' \in [1 .. MaxLog -> Int] /\ done' \in SUBSET (1 .. MaxLog)
    BY SMTT(30), <1>17, <2>1, <1>t DEF QueueStart, DataOK
  <2>4. post' \in 0 .. MaxLog /\ pending' \in Int
    BY <1>17, <1>t DEF QueueStart, DataOK
  <2>5. queue' \in [Queues -> Seq(1 .. MaxLog)] /\ QueuesOrdered'
    BY <1>17, <1>0, QueueSame, <1>t DEF QueueStart, DataOK
  <2> QED
    BY <1>17, <2>2, <2>3, <2>4, <2>5, <1>t DEF DataOK, QueueStart, QueueGoto, queueFrame, HasTop
<1>18. ASSUME NEW q \in Queues, ReplayOk(q) PROVE DataOK' /\ QueuesOrdered'
  <2>1. Head(queue[q]) \in 1 .. MaxLog
    BY <1>18, <1>0, <1>f DEF ReplayOk, HeadInv, QueueFacts, HasTop
  <2>2. pc' \in [Queues -> QueuePcs]
    BY <1>18, <1>t DEF ReplayOk, QueueGoto, DataOK
  <2>3. ref' \in [1 .. MaxLog -> Int] /\ done' \in SUBSET (1 .. MaxLog)
    BY <1>18, <2>1, <1>t DEF ReplayOk, DataOK
  <2>4. post' \in 0 .. MaxLog /\ pending' \in Int
    BY <1>18, <1>t DEF ReplayOk, DataOK
  <2>5. queue' \in [Queues -> Seq(1 .. MaxLog)] /\ QueuesOrdered'
    BY <1>18, <1>0, QueueSame, <1>t DEF ReplayOk, DataOK
  <2> QED
    BY <1>18, <2>2, <2>3, <2>4, <2>5, <1>t DEF DataOK, ReplayOk, QueueGoto, queueFrame, HasTop
<1>19. ASSUME NEW q \in Queues, ReplayFail(q) PROVE DataOK' /\ QueuesOrdered'
  <2>1. Head(queue[q]) \in 1 .. MaxLog
    BY <1>19, <1>0, <1>f DEF ReplayFail, HeadInv, QueueFacts, HasTop
  <2>2. pc' \in [Queues -> QueuePcs]
    BY <1>19, <1>t DEF ReplayFail, QueueGoto, DataOK
  <2>3. ref' \in [1 .. MaxLog -> Int] /\ done' \in SUBSET (1 .. MaxLog)
    BY SMTT(30), <1>19, <2>1, <1>t DEF ReplayFail, DataOK
  <2>4. post' \in 0 .. MaxLog /\ pending' \in Int
    BY <1>19, <1>t DEF ReplayFail, DataOK
  <2>5. queue' \in [Queues -> Seq(1 .. MaxLog)] /\ QueuesOrdered'
    BY <1>19, <1>0, QueueSame, <1>t DEF ReplayFail, DataOK
  <2> QED
    BY <1>19, <2>2, <2>3, <2>4, <2>5, <1>t DEF DataOK, ReplayFail, QueueGoto, queueFrame, HasTop
<1>20. ASSUME NEW q \in Queues, QueuePop(q) PROVE DataOK' /\ QueuesOrdered'
  <2>1. queue[q] # << >>
    BY <1>20, <1>0, <1>f DEF QueuePop, HeadInv, QueueFacts
  <2>2. queue' \in [Queues -> Seq(1 .. MaxLog)] /\ QueuesOrdered'
    BY <1>20, <2>1, <1>0, QueuePopped DEF QueuePop
  <2>3. pc' \in [Queues -> QueuePcs]
    BY <1>20, <1>t DEF QueuePop, QueueGoto, DataOK
  <2> QED
    BY <1>20, <2>2, <2>3, <1>t DEF DataOK, QueuePop, QueueGoto, queueFrame
<1>21. ASSUME NEW q \in Queues, QueueRevoke(q) PROVE DataOK' /\ QueuesOrdered'
  BY <1>21, <1>0, <1>t, QueueSame DEF QueueRevoke, DataOK
<1>22. CASE (\E d \in BOOLEAN : ScanStart(d))
  BY <1>22, <1>0, <1>t, QueueSame DEF ScanStart, scanFrame, DataOK
<1>23. CASE ScanQueue
  BY <1>23, <1>0, <1>t, QueueSame DEF ScanQueue, scanFrame, DataOK
<1>24. CASE ScanEnd
  BY <1>24, <1>0, <1>t, QueueSame DEF ScanEnd, scanFrame, IdleScan, DataOK
<1>25. CASE BecomeLeader
  BY <1>25, <1>0, <1>t, QueueSame DEF BecomeLeader, rcFrame, DataOK
<1>26. CASE LoseLeader
  BY <1>26, <1>0, <1>t, QueueSame DEF LoseLeader, rcFrame, DataOK
<1>27. CASE GiveUp
  BY <1>27, <1>0, <1>t, QueueSame DEF GiveUp, rcFrame, DataOK
<1>28. CASE switch_to_leader
  BY <1>28, <1>0, <1>t, QueueSame DEF switch_to_leader, rcFrame, DataOK
<1>29. CASE Serve
  BY <1>29, <1>0, <1>t, QueueSame DEF Serve, rcFrame, DataOK
<1>30. CASE StepDown
  BY <1>30, <1>0, <1>t, QueueSame DEF StepDown, rcFrame, DataOK
<1>31. ASSUME reset_iterator PROVE DataOK' /\ QueuesOrdered'
  BY <1>31, <1>0, <1>t, QueueSame DEF reset_iterator, rcFrame, Larger, DataOK
<1>32. CASE FollowerRole
  BY <1>32, <1>0, <1>t, QueueSame DEF FollowerRole, rcFrame, DataOK
<1>33. CASE FollowerPush
  BY <1>33, <1>0, <1>t, QueueSame DEF FollowerPush, submit_submit_task,
     Acquired, rcFrame, DataOK
<1>34. ASSUME NEW scn \in 1 .. Len(log) + 1, NEW lsn \in 1 .. scn, enable(lsn, scn)
       PROVE  DataOK' /\ QueuesOrdered'
  BY <1>34, <1>0, <1>t, QueueSame DEF enable, submit_submit_task, Acquired,
     DataOK
<1>35. CASE disable
  BY <1>35, <1>0, <1>t, QueueSame DEF disable, DataOK
<1>36. ASSUME disable_ PROVE DataOK' /\ QueuesOrdered'
  <2>1. queue' \in [Queues -> Seq(1 .. MaxLog)] /\ QueuesOrdered'
    BY <1>36 DEF disable_, QueuesOrdered
  <2>2. \A i \in 1 .. Len(log) : Cardinality(Copies(i)) \in Int
    <3>1. IsFiniteSet(Queues)
      BY FS_Interval DEF Queues
    <3> QED
      BY <3>1, FS_Subset, FS_CardinalityType DEF Copies
  <2>3. Cardinality(Dropped) \in Int
    <3>1. IsFiniteSet(1 .. Len(log))
      BY <1>t, FS_Interval DEF DataOK
    <3> QED
      BY <3>1, FS_Subset, FS_CardinalityType DEF Dropped
  <2>4. ref' \in [1 .. MaxLog -> Int]
    BY <1>36, <2>2, <1>t DEF DataOK, disable_
  <2> QED
    BY <1>36, <2>1, <2>3, <2>4, <1>t DEF DataOK, disable_
<1>37. CASE block_submit
  BY <1>37, <1>0, <1>t, QueueSame DEF block_submit, DataOK
<1>38. CASE unblock_submit
  BY <1>38, <1>0, <1>t, QueueSame DEF unblock_submit, DataOK
<1>39. ASSUME UnblockPush PROVE DataOK' /\ QueuesOrdered'
  BY <1>39, <1>0, <1>t, QueueSame DEF UnblockPush, submit_submit_task, Acquired,
     DataOK
<1>40. ASSUME NEW e \in Entries, Commit(e) PROVE DataOK' /\ QueuesOrdered'
  BY <1>40, <1>0, <1>t, QueueSame DEF Commit, logFrame, DataOK
<1>41. ASSUME NEW e \in Entries, CommitOwn(e) PROVE DataOK' /\ QueuesOrdered'
  BY <1>41, <1>0, <1>t, QueueSame DEF CommitOwn, logFrame, DataOK
<1>42. ASSUME Apply PROVE DataOK' /\ QueuesOrdered'
  BY SMTT(30), <1>42, <1>0, <1>t, QueueSame DEF Apply, Larger, DataOK, RoleInv
<1>43. CASE FsCheck
  BY <1>43, <1>0, <1>t, QueueSame DEF FsCheck, DataOK
<1>44. ASSUME FsPush PROVE DataOK' /\ QueuesOrdered'
  BY <1>44, <1>0, <1>t, QueueSame DEF FsPush, submit_submit_task, Acquired,
     DataOK
<1> QED
  BY <1>1, <1>2, <1>3, <1>4, <1>5, <1>6, <1>7, <1>8, <1>9, <1>10, <1>11, <1>12,
     <1>13, <1>14, <1>15, <1>16, <1>17, <1>18, <1>19, <1>20, <1>21, <1>22,
     <1>23, <1>24, <1>25, <1>26, <1>27, <1>28, <1>29, <1>30, <1>31, <1>32,
     <1>33, <1>34, <1>35, <1>36, <1>37, <1>38, <1>39, <1>40, <1>41, <1>42,
     <1>43, <1>44 DEF Next, SubmitStep, QueueStep, ScanStep, RoleStep,
     AdminStep, LogStep

(* A reader's registers.                                                   *)
LEMMA ScanTypeStep ==
  IInv /\ Next => scan' \in ScanType
<1> SUFFICES ASSUME IInv, Next PROVE scan' \in ScanType
  OBVIOUS
<1> USE NQAssumption, MaxLogAssumption DEF logVars, rcVars, stVars, nextVars, subVars,
       taskVars, taskQueueVars, envVars
<1>0. TypeOK /\ EnabledInv /\ QueuesOrdered /\ ScanInv
  BY DEF IInv
<1>f. QueueFacts
  BY <1>0, QueueFactsHold
<1>1. CASE SubmitTake \/ SubmitCheck \/ FetchNone \/ FetchSkip \/ FetchRetry \/
           FetchPush \/ FetchBroadcast \/ Broadcast \/ BroadcastSignal \/
           SubmitMeta \/ (\E q \in Queues : batch_push_all_task_queue(q))
  BY <1>1, <1>0 DEF SubmitTake, SubmitGoto, SubmitCheck, FetchNone, FetchSkip,
     Fetched, FetchRetry, FetchPush, SubmitLog, PushTask, FetchBroadcast,
     Broadcast, BroadcastSignal, submit_task_queue, Acquired, SubmitMeta,
     batch_push_all_task_queue, TypeOK
<1>2. CASE SubmitEnd \/ SubmitRevoke \/ (\E q \in Queues : QueueTake(q) \/
           QueueEmpty(q) \/ QueueWait(q) \/ QueueStart(q) \/ ReplayOk(q) \/
           ReplayFail(q) \/ QueuePop(q) \/ QueueRevoke(q))
  BY <1>2, <1>0 DEF SubmitEnd, SubmitGoto, SubmitRevoke, QueueTake, QueueGoto,
     queueFrame, QueueEmpty, QueueWait, HasTop, QueueStart, ReplayOk,
     ReplayFail, QueuePop, QueueRevoke, TypeOK
<1>3. ASSUME NEW d \in BOOLEAN, ScanStart(d) PROVE scan' \in ScanType
  BY <1>3, <1>0 DEF ScanStart, scanFrame, TypeOK, ScanType
<1>4. ASSUME ScanQueue PROVE scan' \in ScanType
  <2>1. scan.k \in Queues
    BY <1>4, <1>0 DEF ScanQueue, ScanInv
  <2>2. queue[scan.k] # << >> => Head(queue[scan.k]) \in Nat
    BY <2>1, <1>f DEF QueueFacts
  <2>3. /\ scan.lsn \in Nat /\ scan.scn \in Nat /\ scan.k \in Nat /\ scan.done \in BOOLEAN
        /\ scan = [pc |-> scan.pc, done |-> scan.done, k |-> scan.k, lsn |-> scan.lsn,
                   scn |-> scan.scn]
    BY <1>0 DEF TypeOK, ScanType
  <2> DEFINE sm == /\ queue[scan.k] # << >>
                   /\ Head(queue[scan.k]) < scan.lsn /\ Head(queue[scan.k]) < scan.scn
             l == IF sm THEN Head(queue[scan.k]) ELSE scan.lsn
             s == IF sm THEN Head(queue[scan.k]) ELSE scan.scn
             p == IF scan.k = NQ THEN "answer" ELSE "scan"
  <2>4. scan' = [scan EXCEPT !.lsn = l, !.scn = s, !.k = @ + 1, !.pc = p]
    BY <1>4 DEF ScanQueue
  <2>5. l \in Nat /\ s \in Nat /\ p \in {"scan", "answer"}
    BY <2>2, <2>3
  <2>6. scan' = [pc |-> p, done |-> scan.done, k |-> scan.k + 1, lsn |-> l, scn |-> s]
    BY <2>3, <2>4
  <2> QED
    BY <2>3, <2>5, <2>6 DEF ScanType
<1>5. ASSUME ScanEnd PROVE scan' \in ScanType
  BY <1>5, <1>0 DEF ScanEnd, scanFrame, IdleScan, ScanType
<1>6. CASE BecomeLeader \/ LoseLeader \/ GiveUp \/ switch_to_leader \/ Serve \/
           StepDown \/ reset_iterator \/ FollowerRole \/ FollowerPush \/ (\E
           scn \in 1 .. Len(log) + 1 : \E lsn \in 1 .. scn : enable(lsn,
           scn)) \/ disable
  BY <1>6, <1>0 DEF BecomeLeader, rcFrame, LoseLeader, GiveUp, switch_to_leader,
     Serve, StepDown, reset_iterator, Larger, FollowerRole, FollowerPush,
     submit_submit_task, Acquired, enable, disable, TypeOK
<1>7. CASE disable_ \/ block_submit \/ unblock_submit \/ UnblockPush \/ (\E e \in
           Entries : Commit(e) \/ CommitOwn(e)) \/ Apply \/ FsCheck \/
           FsPush
  BY <1>7, <1>0 DEF disable_, block_submit, unblock_submit, UnblockPush,
     submit_submit_task, Acquired, Commit, logFrame, CommitOwn, Apply, Larger,
     FsCheck, FsPush, TypeOK
<1> QED
  BY <1>1, <1>2, <1>3, <1>4, <1>5, <1>6, <1>7 DEF Next, SubmitStep, QueueStep,
     ScanStep, RoleStep, AdminStep, LogStep

(* The type invariant and the order of the queues are preserved.           *)
LEMMA TypeStep ==
  IInv /\ Next => TypeOK' /\ QueuesOrdered' /\ QueueFacts'
<1> SUFFICES ASSUME IInv, Next PROVE TypeOK' /\ QueuesOrdered' /\ QueueFacts'
  OBVIOUS
<1>1. BoolOK /\ scan \in ScanType
  BY TypeParts DEF IInv
<1>2. BoolOK' /\ DataOK' /\ (scan \in ScanType)' /\ QueuesOrdered'
  BY <1>1, BoolStep, DataStep, ScanTypeStep
<1>t. TypeOK'
  BY <1>2, TypeParts, PTL
<1>3. (TypeOK /\ QueuesOrdered)' => QueueFacts'
  BY QueueFactsHold, PTL
<1> QED
  BY <1>2, <1>t, <1>3

-------------------------------------------------------------------------------
(* What the steps do to the queues and to what the invariant says of them. *)

(* The log being submitted and the queues it has reached stay the same.    *)
SendKept ==
    /\ \A i : Sending(i)' <=> Sending(i)
    /\ \A i, q : (Sending(i) /\ Reached(q))' <=> (Sending(i) /\ Reached(q))
    /\ \A i, q : (Sending(i) /\ ~Reached(q))' <=> (Sending(i) /\ ~Reached(q))

(* The same queues are replaying, the same are about to pop.               *)
RunKept ==
    /\ \A q \in Queues : pc'[q] = "replay" <=> pc[q] = "replay"
    /\ \A q \in Queues : pc'[q] = "pop" <=> pc[q] = "pop"

(* The steps of the submit task that send nothing, and those that wake it. *)
LEMMA SendKeeps ==
  ASSUME IInv,
         SubmitTake \/ SubmitCheck \/ FetchNone \/ FetchSkip \/ FetchRetry \/
         (\E q \in Queues : batch_push_all_task_queue(q)) \/ SubmitEnd \/
         SubmitRevoke \/ (\E q \in Queues : QueueTake(q) \/ QueueEmpty(q) \/
         QueueWait(q) \/ QueueStart(q) \/ ReplayOk(q) \/ ReplayFail(q) \/
         QueuePop(q) \/ QueueRevoke(q)) \/ (\E d \in BOOLEAN : ScanStart(d)) \/
         ScanQueue \/ ScanEnd \/ BecomeLeader \/ LoseLeader \/ GiveUp \/
         switch_to_leader \/ Serve \/ StepDown \/ FollowerRole \/ FollowerPush
         \/ disable \/ block_submit \/ unblock_submit \/ UnblockPush \/ Apply \/
         FsCheck \/ FsPush
  PROVE  SendKept
<1> USE DEF logVars, rcVars, stVars, nextVars, subVars, taskVars, taskQueueVars, envVars
<1>0. TypeOK /\ LeaseInv
  BY DEF IInv
<1>1. CASE SubmitTake \/ SubmitCheck \/ FetchNone \/ FetchSkip \/ FetchRetry \/ (\E q
           \in Queues : batch_push_all_task_queue(q)) \/ SubmitEnd
  BY <1>1, <1>0 DEF SubmitTake, SubmitGoto, SubmitCheck, FetchNone, FetchSkip,
     Fetched, FetchRetry, batch_push_all_task_queue, submit_task_queue,
     Acquired, SubmitEnd, SendKept, Sending, Reached, need_skip, LeaseInv
<1>2. CASE SubmitRevoke \/ (\E q \in Queues : QueueTake(q) \/ QueueEmpty(q) \/
           QueueWait(q) \/ QueueStart(q) \/ ReplayOk(q) \/ ReplayFail(q))
  BY <1>2, <1>0 DEF SubmitRevoke, QueueTake, QueueGoto, queueFrame, QueueEmpty,
     QueueWait, HasTop, QueueStart, ReplayOk, ReplayFail, SendKept, Sending,
     Reached, need_skip, LeaseInv
<1>3. CASE (\E q \in Queues : QueuePop(q) \/ QueueRevoke(q)) \/ (\E d \in BOOLEAN :
           ScanStart(d)) \/ ScanQueue \/ ScanEnd \/ BecomeLeader \/
           LoseLeader
  BY <1>3, <1>0 DEF QueuePop, QueueGoto, queueFrame, QueueRevoke, ScanStart,
     scanFrame, ScanQueue, ScanEnd, IdleScan, BecomeLeader, rcFrame, LoseLeader,
     SendKept, Sending, Reached, need_skip, LeaseInv
<1>4. CASE GiveUp \/ switch_to_leader \/ Serve \/ StepDown \/ FollowerRole \/
           FollowerPush \/ disable
  BY <1>4, <1>0 DEF GiveUp, rcFrame, switch_to_leader, Serve, StepDown,
     FollowerRole, FollowerPush, submit_submit_task, Acquired, disable,
     SendKept, Sending, Reached, need_skip, LeaseInv
<1>5. CASE block_submit \/ unblock_submit \/ UnblockPush \/ Apply \/ FsCheck \/ FsPush
  BY <1>5, <1>0 DEF block_submit, unblock_submit, UnblockPush,
     submit_submit_task, Acquired, Apply, Larger, FsCheck, FsPush, SendKept,
     Sending, Reached, need_skip, LeaseInv
<1> QED
  BY <1>1, <1>2, <1>3, <1>4, <1>5

(* A step that leaves next_to_submit_lsn_ and the submitting thread alone  *)
(* keeps what is being sent and how far it has come.                       *)
LEMMA SendSame ==
  ASSUME UNCHANGED <<sub_pc, bc, next_lsn, base, log>>
  PROVE  SendKept
BY DEF SendKept, Sending, Reached, need_skip

(* The steps that put a queue into the pool, take it and let it go.        *)
LEMMA RunKeeps ==
  ASSUME IInv,
         BroadcastSignal \/ (\E q \in Queues : batch_push_all_task_queue(q) \/
         QueueTake(q) \/ QueueEmpty(q) \/ QueueWait(q) \/ QueueRevoke(q)) \/
         SubmitTake \/ SubmitCheck \/ FetchNone \/ FetchSkip \/ FetchRetry \/
         FetchPush \/ FetchBroadcast \/ Broadcast \/ SubmitMeta \/ SubmitEnd \/
         SubmitRevoke \/ (\E d \in BOOLEAN : ScanStart(d)) \/ ScanQueue \/
         ScanEnd \/ BecomeLeader \/ LoseLeader \/ GiveUp \/ switch_to_leader \/
         Serve \/ StepDown \/ reset_iterator \/ FollowerRole \/ FollowerPush \/
         (\E scn \in 1 .. Len(log) + 1 : \E lsn \in 1 .. scn : enable(lsn, scn))
         \/ disable \/ disable_ \/ block_submit \/ unblock_submit \/ UnblockPush
         \/ (\E e \in Entries : Commit(e) \/ CommitOwn(e)) \/ Apply \/ FsCheck
         \/ FsPush
  PROVE  RunKept
<1> USE DEF logVars, rcVars, stVars, nextVars, subVars, taskVars, taskQueueVars, envVars
<1>0. TypeOK /\ LeaseInv
  BY DEF IInv
<1>1. CASE BroadcastSignal
  BY <1>1, <1>0 DEF BroadcastSignal, submit_task_queue, Acquired, SubmitGoto,
     RunKept, LeaseInv, TypeOK
<1>2. CASE (\E q \in Queues : batch_push_all_task_queue(q))
  BY <1>2, <1>0 DEF batch_push_all_task_queue, submit_task_queue, Acquired,
     RunKept, LeaseInv, TypeOK
<1>3. CASE (\E q \in Queues : QueueTake(q))
  BY <1>3, <1>0 DEF QueueTake, QueueGoto, queueFrame, RunKept, LeaseInv, TypeOK
<1>4. CASE (\E q \in Queues : QueueEmpty(q))
  BY <1>4, <1>0 DEF QueueEmpty, QueueGoto, queueFrame, RunKept, LeaseInv, TypeOK
<1>5. CASE (\E q \in Queues : QueueWait(q))
  BY <1>5, <1>0 DEF QueueWait, QueueGoto, queueFrame, HasTop, RunKept, LeaseInv,
     TypeOK
<1>6. CASE (\E q \in Queues : QueueRevoke(q))
  BY <1>6, <1>0 DEF QueueRevoke, RunKept, LeaseInv, TypeOK
<1>7. CASE SubmitTake \/ SubmitCheck \/ FetchNone \/ FetchSkip \/ FetchRetry \/
           FetchPush \/ FetchBroadcast \/ Broadcast \/ SubmitMeta \/
           SubmitEnd \/ SubmitRevoke \/ (\E d \in BOOLEAN : ScanStart(d)) \/
           ScanQueue \/ ScanEnd \/ BecomeLeader \/ LoseLeader \/ GiveUp \/
           switch_to_leader \/ Serve
  BY <1>7, <1>0 DEF SubmitTake, SubmitGoto, SubmitCheck, FetchNone, FetchSkip,
     Fetched, FetchRetry, FetchPush, SubmitLog, PushTask, FetchBroadcast,
     Broadcast, SubmitMeta, SubmitEnd, SubmitRevoke, ScanStart, scanFrame,
     ScanQueue, ScanEnd, IdleScan, BecomeLeader, rcFrame, LoseLeader, GiveUp,
     switch_to_leader, Serve, RunKept, LeaseInv, TypeOK
<1>8. CASE StepDown \/ reset_iterator \/ FollowerRole \/ FollowerPush \/ (\E scn \in 1
           .. Len(log) + 1 : \E lsn \in 1 .. scn : enable(lsn, scn)) \/
           disable \/ disable_ \/ block_submit \/ unblock_submit \/
           UnblockPush \/ (\E e \in Entries : Commit(e) \/ CommitOwn(e)) \/
           Apply \/ FsCheck \/ FsPush
  BY <1>8, <1>0 DEF StepDown, rcFrame, reset_iterator, Larger, FollowerRole,
     FollowerPush, submit_submit_task, Acquired, enable, disable, disable_,
     block_submit, unblock_submit, UnblockPush, Commit, logFrame, CommitOwn,
     Apply, FsCheck, FsPush, RunKept, LeaseInv, TypeOK
<1> QED
  BY <1>1, <1>2, <1>3, <1>4, <1>5, <1>6, <1>7, <1>8

(* A step that leaves the threads of the queues alone keeps who runs a     *)
(* task.                                                                   *)
LEMMA RunSame ==
  ASSUME UNCHANGED pc
  PROVE  RunKept
BY DEF RunKept

(* A submit task that fetches has sent the logs before next_lsn only.      *)
LEMMA FetchFacts ==
  ASSUME IInv, Fetched
  PROVE  /\ next_lsn \in 1 .. Len(log) /\ next_lsn \in 1 .. MaxLog /\ enabled
         /\ base \in 1 .. Len(log) + 1 /\ next_scn <= next_lsn
         /\ log[next_lsn].q \in Queues /\ bc \in Nat
         /\ \A i : ~Sending(i)
         /\ \A r \in Queues : \A y \in Cont[r] : y < next_scn /\ y < next_lsn
<1>0. TypeOK /\ QueuesOrdered /\ TasksInv /\ EnabledInv /\ QueueFacts
  BY QueueFactsHold DEF IInv
<1>1. enabled
  BY <1>0 DEF Fetched, EnabledInv, SubmitReads
<1>2. next_lsn \in 1 .. Len(log) /\ base \in 1 .. Len(log) + 1 /\ next_scn <= next_lsn
  BY <1>0, <1>1 DEF Fetched, EnabledInv, TypeOK
<1>3. \A i : ~Sending(i)
  BY DEF Fetched, Sending
<1>4. ASSUME NEW r \in Queues, NEW y \in Cont[r] PROVE y < next_scn /\ y < next_lsn
  <2>1. y < next_scn /\ y \in Nat
    BY <1>0, <1>3 DEF TasksInv, QueueFacts
  <2> QED
    BY <2>1, <1>2, <1>0 DEF TypeOK
<1> QED
  BY SMTT(30), <1>0, <1>1, <1>2, <1>3, <1>4, LogEntry, NQAssumption DEF TypeOK

(* FetchPush: the log goes to the end of its own queue.                    *)
LEMMA PushFacts ==
  ASSUME IInv, FetchPush
  PROVE  /\ Fetched
         /\ Cont' = [Cont EXCEPT ![log[next_lsn].q] = @ \union {next_lsn}]
         /\ Front' = [Front EXCEPT ![log[next_lsn].q] = IF @ = 0 THEN next_lsn ELSE @]
         /\ \A i : Sending(i)' <=> i = next_lsn
         /\ \A q : Reached(q)'
<1>0. TypeOK /\ QueuesOrdered
  BY DEF IInv
<1>1. Fetched
  BY DEF FetchPush, SubmitLog
<1>2. /\ next_lsn \in 1 .. MaxLog /\ log[next_lsn].q \in Queues
      /\ \A y \in Cont[log[next_lsn].q] : y < next_lsn
  BY <1>1, FetchFacts
<1>3. queue' = [queue EXCEPT ![log[next_lsn].q] = Append(@, next_lsn)]
  BY DEF FetchPush, PushTask
<1>4. /\ \A i : Sending(i)' <=> i = next_lsn
      /\ \A q : Reached(q)'
  BY DEF FetchPush, SubmitLog, SubmitGoto, Sending, Reached, need_skip, logVars, nextVars
<1> QED
  BY <1>0, <1>1, <1>2, <1>3, <1>4, QueuePush

(* A pre-barrier log that is being broadcast.                              *)
LEMMA SendFacts ==
  ASSUME IInv, sub_pc \in {"bcast", "signal"}
  PROVE  /\ next_lsn \in 1 .. Len(log) /\ next_lsn \in 1 .. MaxLog /\ enabled
         /\ base \in 1 .. Len(log) + 1 /\ base <= next_lsn /\ next_scn <= next_lsn
         /\ log[next_lsn].q \in Queues /\ log[next_lsn].pre /\ ~log[next_lsn].pad
         /\ bc \in Queues
         /\ \A i : Sending(i) <=> i = next_lsn
         /\ \A r \in Queues : \A y \in Cont[r] :
               y < next_scn \/ (y = next_lsn /\ Reached(r))
<1>0. TypeOK /\ QueuesOrdered /\ TasksInv /\ EnabledInv /\ SubmitInv /\ QueueFacts
  BY QueueFactsHold DEF IInv
<1>1. enabled
  BY <1>0 DEF EnabledInv, SubmitReads
<1>2. next_lsn \in 1 .. Len(log) /\ base \in 1 .. Len(log) + 1 /\ next_scn <= next_lsn
  BY <1>0, <1>1 DEF EnabledInv, SubmitInv, TypeOK
<1>3. \A i : Sending(i) <=> i = next_lsn
  BY DEF Sending
<1>4. bc \in Queues /\ log[next_lsn].pre /\ ~log[next_lsn].pad /\ base <= next_lsn
  BY <1>0, <1>2 DEF SubmitInv, TypeOK, Queues, need_skip
<1> QED
  BY <1>0, <1>1, <1>2, <1>3, <1>4, LogEntry DEF TasksInv

(* One round of the loop of push_log_replay_task: queue bc gets its copy.  *)
LEMMA BroadcastFacts ==
  ASSUME IInv, Broadcast
  PROVE  /\ sub_pc \in {"bcast", "signal"}
         /\ Cont' = [Cont EXCEPT ![bc] = @ \union {next_lsn}]
         /\ Front' = [Front EXCEPT ![bc] = IF @ = 0 THEN next_lsn ELSE @]
         /\ \A i : Sending(i)' <=> i = next_lsn
         /\ \A q \in Queues : Reached(q)' <=> q = bc \/ Reached(q)
         /\ \A q \in Queues : Reached(q) <=> q < bc
<1>0. TypeOK /\ QueuesOrdered /\ QueueFacts
  BY QueueFactsHold DEF IInv
<1>1. sub_pc = "bcast"
  BY DEF Broadcast
<1>2. \A q \in Queues : Reached(q) <=> q < bc
  BY <1>1 DEF Reached
<1>3. /\ next_lsn \in 1 .. MaxLog /\ bc \in Queues /\ next_scn <= next_lsn
      /\ \A y \in Cont[bc] : y < next_scn \/ (y = next_lsn /\ Reached(bc))
  BY <1>1, SendFacts
<1>4. \A y \in Cont[bc] : y < next_lsn
  BY <1>0, <1>2, <1>3 DEF QueueFacts, TypeOK, Queues
<1>5. queue' = [queue EXCEPT ![bc] = Append(@, next_lsn)]
  BY DEF Broadcast, PushTask
<1>6. /\ \A i : Sending(i)' <=> i = next_lsn
      /\ \A q \in Queues : Reached(q)' <=> q = bc \/ Reached(q)
  BY <1>1 DEF Broadcast, SubmitGoto, Sending, Reached, nextVars
<1> QED
  BY <1>0, <1>1, <1>2, <1>3, <1>4, <1>5, <1>6, QueuePush

(* The end of a round: the queues reached stay reached.                    *)
LEMMA SignalFacts ==
  ASSUME IInv, BroadcastSignal
  PROVE  /\ sub_pc \in {"bcast", "signal"}
         /\ \A i : Sending(i)' <=> i = next_lsn
         /\ \A q \in Queues : Reached(q)' <=> Reached(q)
         /\ bc = NQ => \A q \in Queues : Reached(q)
<1>1. sub_pc = "signal" /\ TypeOK /\ SubmitInv
  BY DEF BroadcastSignal, IInv
<1>2. next_lsn' = next_lsn /\ bc' = bc + 1 /\ base' = base /\ log' = log
      /\ sub_pc' = IF bc = NQ THEN "meta" ELSE "bcast"
  BY DEF BroadcastSignal, SubmitGoto, nextVars, logVars
<1>3. bc \in Queues /\ \A i : Sending(i) <=> i = next_lsn
  BY <1>1, SendFacts
<1>4. ~need_skip(next_lsn) /\ need_skip(next_lsn)' = need_skip(next_lsn)
  BY <1>1, <1>2 DEF SubmitInv, need_skip
<1>5. \A i : Sending(i)' <=> i = next_lsn
  BY <1>1, <1>2, <1>4 DEF Sending, need_skip
<1>6. \A q \in Queues : (Reached(q)' <=> Reached(q)) /\ (bc = NQ => Reached(q))
  BY <1>1, <1>2, <1>3, NQAssumption DEF Reached, Queues
<1> QED
  BY <1>1, <1>5, <1>6

(* The first task of a queue.                                              *)
LEMMA TopFacts ==
  ASSUME IInv, NEW q \in Queues, HasTop(q) \/ pc[q] \in {"replay", "pop"}
  PROVE  /\ enabled /\ queue[q] # << >> /\ Head(queue[q]) = Front[q]
         /\ Front[q] \in 1 .. Len(log) /\ Front[q] \in 1 .. MaxLog
         /\ Front[q] \in Cont[q] /\ \A x \in Cont[q] : Front[q] <= x
         /\ base <= Front[q] /\ ~log[Front[q]].pad
         /\ log[Front[q]].q \in Queues /\ (log[Front[q]].q = q \/ log[Front[q]].pre)
         /\ Front[q] < next_scn \/ (Sending(Front[q]) /\ Reached(q))
<1>0. TypeOK /\ QueuesOrdered /\ TasksInv /\ EnabledInv /\ HeadInv /\ QueueFacts
  BY QueueFactsHold DEF IInv
<1>1. enabled /\ Front[q] # 0
  BY <1>0 DEF EnabledInv, HeadInv, HasTop, QueueFacts
<1>2. /\ queue[q] # << >> /\ Head(queue[q]) = Front[q] /\ Front[q] \in Cont[q]
      /\ \A x \in Cont[q] : Front[q] <= x
  BY <1>0, <1>1 DEF QueueFacts
<1>3. /\ Front[q] \in 1 .. Len(log) /\ base <= Front[q] /\ ~log[Front[q]].pad
      /\ (log[Front[q]].q = q \/ log[Front[q]].pre)
      /\ Front[q] < next_scn \/ (Sending(Front[q]) /\ Reached(q))
  BY <1>0, <1>2 DEF TasksInv
<1> QED
  BY <1>0, <1>1, <1>2, <1>3, LogEntry

(* QueuePop: the first task goes, and the next one is later.               *)
LEMMA PopFacts ==
  ASSUME IInv, NEW q \in Queues, QueuePop(q)
  PROVE  /\ Cont' = [Cont EXCEPT ![q] = @ \ {Front[q]}]
         /\ \A r \in Queues : r # q => Front'[r] = Front[r]
         /\ Front'[q] = 0 \/ (Front'[q] \in Cont[q] /\ Front[q] < Front'[q])
         /\ pc[q] = "pop" /\ pc'[q] \notin {"replay", "pop"}
         /\ \A r \in Queues : r # q => pc'[r] = pc[r]
<1>0. TypeOK /\ QueuesOrdered /\ QueueFacts /\ QueueFacts'
  BY QueueFactsHold, TypeStep DEF IInv, Next, QueueStep
<1>1. pc[q] = "pop" /\ queue' = [queue EXCEPT ![q] = Tail(@)]
  BY DEF QueuePop
<1>2. queue[q] # << >> /\ \A x \in Cont[q] : Front[q] <= x
  BY <1>1, TopFacts
<1>3. /\ Cont' = [Cont EXCEPT ![q] = @ \ {Front[q]}]
      /\ \A r \in Queues : r # q => Front'[r] = Front[r]
  BY <1>0, <1>1, <1>2, QueuePopped
<1>4. Cont'[q] = Cont[q] \ {Front[q]}
  BY <1>0, <1>3 DEF QueueFacts
<1>5. Front'[q] = 0 \/ (Front'[q] \in Cont[q] /\ Front'[q] # Front[q])
  BY <1>0, <1>4 DEF QueueFacts
<1>6. Front'[q] = 0 \/ (Front'[q] \in Cont[q] /\ Front[q] < Front'[q])
  <2>1. Front[q] \in Nat /\ \A x \in Cont[q] : x \in Nat
    BY <1>0 DEF QueueFacts
  <2> QED
    BY <1>2, <1>5, <2>1
<1>7. /\ pc'[q] \notin {"replay", "pop"}
      /\ \A r \in Queues : r # q => pc'[r] = pc[r]
  BY <1>0 DEF QueuePop, QueueGoto, TypeOK
<1> QED
  BY <1>1, <1>3, <1>6, <1>7

(* disable_: the queues are empty.                                         *)
LEMMA DropFacts ==
  ASSUME disable_
  PROVE  Cont' = [q \in Queues |-> {}] /\ Front' = [q \in Queues |-> 0]
<1>1. queue' = [q \in Queues |-> << >>]
  BY DEF disable_
<1>2. Range(<< >>) = {}
  BY DEF Range
<1>3. \A q \in Queues : Cont'[q] = {} /\ Front'[q] = 0
  BY <1>1, <1>2 DEF Cont, Front
<1> QED
  BY <1>3 DEF Cont, Front

(* A log that is committed leaves the earlier ones as they are.            *)
LEMMA CommitFacts ==
  ASSUME IInv, NEW e \in Entries, log' = Append(log, e),
         UNCHANGED <<base, next_lsn, sub_pc, bc>>
  PROVE  /\ Len(log') = Len(log) + 1 /\ Len(log) \in Nat
         /\ \A i \in 1 .. Len(log) : log'[i] = log[i]
         /\ SendKept
<1>0. TypeOK /\ SubmitInv /\ EnabledInv
  BY DEF IInv
<1>1. /\ Len(log') = Len(log) + 1 /\ Len(log) \in Nat
      /\ \A i \in 1 .. Len(log) : log'[i] = log[i]
  BY <1>0 DEF TypeOK
<1>2. sub_pc = "meta" => next_lsn \in 1 .. Len(log)
  BY <1>0 DEF SubmitInv, EnabledInv, SubmitReads, TypeOK
<1>3. sub_pc = "meta" => (need_skip(next_lsn)' <=> need_skip(next_lsn))
  BY <1>1, <1>2 DEF need_skip
<1>4. \A i : i = next_lsn => (need_skip(i) <=> need_skip(next_lsn))
             /\ (need_skip(i)' <=> need_skip(next_lsn)')
  BY DEF need_skip
<1>5. \A i : Sending(i)' <=> Sending(i)
  BY <1>3, <1>4 DEF Sending
<1>6. \A q : Reached(q)' <=> Reached(q)
  BY DEF Reached
<1> QED
  BY <1>1, <1>5, <1>6 DEF SendKept

(* The positions are natural numbers.                                      *)
LEMMA Numbers ==
  IInv => /\ next_lsn \in Nat /\ next_scn \in Nat /\ base \in Nat
          /\ scan.lsn \in Nat /\ scan.scn \in Nat /\ scan.k \in Nat
          /\ \A q \in Queues : Front[q] \in Nat /\ \A x \in Cont[q] : x \in Nat
<1> SUFFICES ASSUME IInv
             PROVE  /\ next_lsn \in Nat /\ next_scn \in Nat /\ base \in Nat
                    /\ scan.lsn \in Nat /\ scan.scn \in Nat /\ scan.k \in Nat
                    /\ \A q \in Queues : Front[q] \in Nat /\ \A x \in Cont[q] : x \in Nat
  OBVIOUS
<1>1. TypeOK /\ QueuesOrdered /\ QueueFacts
  BY QueueFactsHold DEF IInv
<1>2. next_lsn \in Nat /\ next_scn \in Nat /\ base \in Nat /\ scan \in ScanType
  BY <1>1 DEF TypeOK
<1>3. \A q \in Queues : Front[q] \in 0 .. MaxLog /\ Cont[q] \subseteq 1 .. MaxLog
  BY <1>1 DEF QueueFacts
<1> QED
  BY <1>2, <1>3, MaxLogAssumption DEF ScanType

-------------------------------------------------------------------------------
(* The conjuncts of the invariant, one after the other.                    *)

(* Every step preserves EnabledInv.                                        *)
LEMMA EnabledStep ==
  IInv /\ Next => EnabledInv'
<1> SUFFICES ASSUME IInv, Next PROVE EnabledInv'
  OBVIOUS
<1> USE NQAssumption, MaxLogAssumption DEF logVars, rcVars, stVars, nextVars, subVars,
       taskVars, taskQueueVars, envVars
<1>0. /\ TypeOK /\ QueuesOrdered /\ EnabledInv /\ SubmitInv /\ TasksInv /\ DoneInv
      /\ RoleInv /\ ScanInv /\ LeaseInv
  BY DEF IInv
<1>f. QueueFacts /\ QueueFacts' /\ TypeOK'
  BY <1>0, QueueFactsHold, TypeStep
<1>1. ASSUME SubmitTake PROVE EnabledInv'
  BY <1>1, <1>0, <1>f, QueueSame DEF SubmitTake, SubmitGoto, EnabledInv,
     SubmitReads, TypeOK, SubmitInv, RoleInv, LeaseInv
<1>2. ASSUME SubmitCheck PROVE EnabledInv'
  BY <1>2, <1>0, <1>f, QueueSame DEF SubmitCheck, SubmitGoto, EnabledInv,
     SubmitReads, TypeOK, SubmitInv, RoleInv, LeaseInv
<1>3. ASSUME FetchNone PROVE EnabledInv'
  BY <1>3, <1>0, <1>f, QueueSame DEF FetchNone, SubmitGoto, EnabledInv,
     SubmitReads, TypeOK, SubmitInv, RoleInv, LeaseInv
<1>4. ASSUME FetchSkip PROVE EnabledInv'
  BY <1>4, <1>0, <1>f, QueueSame DEF FetchSkip, SubmitGoto, Fetched, EnabledInv,
     SubmitReads, TypeOK, SubmitInv, RoleInv, LeaseInv
<1>5. ASSUME FetchRetry PROVE EnabledInv'
  BY <1>5, <1>0, <1>f, QueueSame DEF FetchRetry, SubmitGoto, Fetched,
     EnabledInv, SubmitReads, TypeOK, SubmitInv, RoleInv, LeaseInv
<1>6. ASSUME FetchPush PROVE EnabledInv'
  <2>1. enabled
    BY <1>6, FetchFacts, PushFacts
  <2> QED
    BY <1>6, <2>1, <1>0 DEF EnabledInv, SubmitReads, FetchPush, SubmitLog, SubmitGoto, TypeOK
<1>7. ASSUME FetchBroadcast PROVE EnabledInv'
  BY <1>7, <1>0, <1>f, QueueSame DEF FetchBroadcast, SubmitLog, SubmitGoto,
     Fetched, EnabledInv, SubmitReads, TypeOK, SubmitInv, RoleInv, LeaseInv
<1>8. ASSUME Broadcast PROVE EnabledInv'
  <2>1. enabled
    BY <1>8, SendFacts, BroadcastFacts
  <2> QED
    BY <1>8, <2>1, <1>0 DEF EnabledInv, SubmitReads, Broadcast, SubmitGoto, TypeOK
<1>9. ASSUME BroadcastSignal PROVE EnabledInv'
  BY <1>9, <1>0, <1>f, QueueSame, SendFacts, SignalFacts DEF BroadcastSignal,
     submit_task_queue, Acquired, SubmitGoto, EnabledInv, SubmitReads, TypeOK
<1>10. ASSUME SubmitMeta PROVE EnabledInv'
  BY <1>10, <1>0, <1>f, QueueSame DEF SubmitMeta, SubmitGoto, EnabledInv,
     SubmitReads, TypeOK, SubmitInv, RoleInv, LeaseInv
<1>11. ASSUME NEW q \in Queues, batch_push_all_task_queue(q) PROVE EnabledInv'
  <2>1. enabled
    BY <1>11, <1>0 DEF batch_push_all_task_queue, EnabledInv, SubmitReads
  <2> QED
    BY <1>11, <2>1, <1>0, QueueSame DEF EnabledInv, SubmitReads, batch_push_all_task_queue
<1>12. ASSUME SubmitEnd PROVE EnabledInv'
  BY <1>12, <1>0, <1>f, QueueSame DEF SubmitEnd, SubmitGoto, EnabledInv,
     SubmitReads, TypeOK, SubmitInv, RoleInv, LeaseInv
<1>13. ASSUME SubmitRevoke PROVE EnabledInv'
  BY <1>13, <1>0, <1>f, QueueSame DEF SubmitRevoke, EnabledInv, SubmitReads,
     TypeOK, SubmitInv, RoleInv, LeaseInv
<1>14. ASSUME NEW q \in Queues, QueueTake(q) PROVE EnabledInv'
  BY <1>14, <1>0, <1>f, QueueSame DEF QueueTake, QueueGoto, queueFrame,
     EnabledInv, SubmitReads, TypeOK, SubmitInv, RoleInv, LeaseInv
<1>15. ASSUME NEW q \in Queues, QueueEmpty(q) PROVE EnabledInv'
  BY <1>15, <1>0, <1>f, QueueSame DEF QueueEmpty, QueueGoto, queueFrame,
     EnabledInv, SubmitReads, TypeOK, SubmitInv, RoleInv, LeaseInv
<1>16. ASSUME NEW q \in Queues, QueueWait(q) PROVE EnabledInv'
  BY <1>16, <1>0, <1>f, QueueSame DEF QueueWait, QueueGoto, queueFrame, HasTop,
     EnabledInv, SubmitReads, TypeOK, SubmitInv, RoleInv, LeaseInv
<1>17. ASSUME NEW q \in Queues, QueueStart(q) PROVE EnabledInv'
  <2>1. enabled
    BY <1>17, <1>0, TopFacts DEF QueueStart, HasTop
  <2> QED
    BY <1>17, <2>1, <1>0, QueueSame DEF EnabledInv, SubmitReads, QueueStart, queueFrame
<1>18. ASSUME NEW q \in Queues, ReplayOk(q) PROVE EnabledInv'
  <2>1. enabled
    BY <1>18, <1>0, TopFacts DEF ReplayOk, HasTop
  <2> QED
    BY <1>18, <2>1, <1>0, QueueSame DEF EnabledInv, SubmitReads, ReplayOk, queueFrame
<1>19. ASSUME NEW q \in Queues, ReplayFail(q) PROVE EnabledInv'
  <2>1. enabled
    BY <1>19, <1>0, TopFacts DEF ReplayFail, HasTop
  <2> QED
    BY <1>19, <2>1, <1>0, QueueSame DEF EnabledInv, SubmitReads, ReplayFail, queueFrame
<1>20. ASSUME NEW q \in Queues, QueuePop(q) PROVE EnabledInv'
  <2>1. enabled
    BY <1>20, <1>0, TopFacts DEF QueuePop, HasTop
  <2> QED
    BY <1>20, <2>1, <1>0, QueueSame DEF EnabledInv, SubmitReads, QueuePop, queueFrame
<1>21. ASSUME NEW q \in Queues, QueueRevoke(q) PROVE EnabledInv'
  BY <1>21, <1>0, <1>f, QueueSame DEF QueueRevoke, EnabledInv, SubmitReads,
     TypeOK, SubmitInv, RoleInv, LeaseInv
<1>22. ASSUME NEW d \in BOOLEAN, ScanStart(d) PROVE EnabledInv'
  BY <1>22, <1>0, <1>f, QueueSame DEF ScanStart, scanFrame, EnabledInv,
     SubmitReads, TypeOK, SubmitInv, RoleInv, LeaseInv
<1>23. ASSUME ScanQueue PROVE EnabledInv'
  BY <1>23, <1>0, <1>f, QueueSame DEF ScanQueue, scanFrame, EnabledInv,
     SubmitReads, TypeOK, SubmitInv, RoleInv, LeaseInv
<1>24. ASSUME ScanEnd PROVE EnabledInv'
  BY <1>24, <1>0, <1>f, QueueSame DEF ScanEnd, scanFrame, IdleScan, EnabledInv,
     SubmitReads, TypeOK, SubmitInv, RoleInv, LeaseInv
<1>25. ASSUME BecomeLeader PROVE EnabledInv'
  BY <1>25, <1>0, <1>f, QueueSame DEF BecomeLeader, rcFrame, EnabledInv,
     SubmitReads, TypeOK, SubmitInv, RoleInv, LeaseInv
<1>26. ASSUME LoseLeader PROVE EnabledInv'
  BY <1>26, <1>0, <1>f, QueueSame DEF LoseLeader, rcFrame, EnabledInv,
     SubmitReads, TypeOK, SubmitInv, RoleInv, LeaseInv
<1>27. ASSUME GiveUp PROVE EnabledInv'
  BY <1>27, <1>0, <1>f, QueueSame DEF GiveUp, rcFrame, EnabledInv, SubmitReads,
     TypeOK, SubmitInv, RoleInv, LeaseInv
<1>28. ASSUME switch_to_leader PROVE EnabledInv'
  BY <1>28, <1>0, <1>f, QueueSame DEF switch_to_leader, rcFrame, EnabledInv,
     SubmitReads, TypeOK, SubmitInv, RoleInv, LeaseInv
<1>29. ASSUME Serve PROVE EnabledInv'
  BY <1>29, <1>0, <1>f, QueueSame DEF Serve, rcFrame, EnabledInv, SubmitReads,
     TypeOK, SubmitInv, RoleInv, LeaseInv
<1>30. ASSUME StepDown PROVE EnabledInv'
  BY <1>30, <1>0, <1>f, QueueSame DEF StepDown, rcFrame, EnabledInv,
     SubmitReads, TypeOK, SubmitInv, RoleInv, LeaseInv
<1>31. ASSUME reset_iterator PROVE EnabledInv'
  BY <1>31, <1>0, <1>f, QueueSame DEF reset_iterator, rcFrame, Larger,
     EnabledInv, SubmitReads, TypeOK, SubmitInv, RoleInv, LeaseInv
<1>32. ASSUME FollowerRole PROVE EnabledInv'
  BY <1>32, <1>0, <1>f, QueueSame DEF FollowerRole, rcFrame, EnabledInv,
     SubmitReads, TypeOK, SubmitInv, RoleInv, LeaseInv
<1>33. ASSUME FollowerPush PROVE EnabledInv'
  BY <1>33, <1>0, <1>f, QueueSame DEF FollowerPush, submit_submit_task,
     Acquired, rcFrame, EnabledInv, SubmitReads, TypeOK, SubmitInv, RoleInv,
     LeaseInv
<1>34. ASSUME NEW scn \in 1 .. Len(log) + 1, NEW lsn \in 1 .. scn, enable(lsn, scn)
       PROVE  EnabledInv'
  BY <1>34, <1>0, <1>f, QueueSame DEF enable, submit_submit_task, Acquired,
     EnabledInv, SubmitReads, TypeOK, SubmitInv, RoleInv, LeaseInv
<1>35. ASSUME disable PROVE EnabledInv'
  BY <1>35, <1>0, <1>f, QueueSame DEF disable, EnabledInv, SubmitReads, TypeOK,
     SubmitInv, RoleInv, LeaseInv
<1>36. ASSUME disable_ PROVE EnabledInv'
  BY <1>36, <1>0, DropFacts DEF disable_, EnabledInv, SubmitReads, Unlocked,
     TypeOK
<1>37. CASE block_submit
  BY <1>37, <1>0, QueueSame DEF EnabledInv, SubmitReads, block_submit
<1>38. CASE unblock_submit
  BY <1>38, <1>0, QueueSame DEF EnabledInv, SubmitReads, unblock_submit
<1>39. ASSUME UnblockPush PROVE EnabledInv'
  BY <1>39, <1>0, <1>f, QueueSame DEF UnblockPush, submit_submit_task, Acquired,
     EnabledInv, SubmitReads, TypeOK, SubmitInv, RoleInv, LeaseInv
<1>40. ASSUME NEW e \in Entries, Commit(e) PROVE EnabledInv'
  BY <1>40, <1>0, <1>f, QueueSame DEF Commit, logFrame, EnabledInv, SubmitReads,
     TypeOK, SubmitInv, RoleInv, LeaseInv
<1>41. ASSUME NEW e \in Entries, CommitOwn(e) PROVE EnabledInv'
  BY <1>41, <1>0, <1>f, QueueSame DEF CommitOwn, logFrame, EnabledInv,
     SubmitReads, TypeOK, SubmitInv, RoleInv, LeaseInv
<1>42. CASE Apply
  BY <1>42, <1>0, QueueSame DEF EnabledInv, SubmitReads, Apply, Larger
<1>43. ASSUME FsCheck PROVE EnabledInv'
  BY <1>43, <1>0, <1>f, QueueSame DEF FsCheck, EnabledInv, SubmitReads, TypeOK,
     SubmitInv, RoleInv, LeaseInv
<1>44. ASSUME FsPush PROVE EnabledInv'
  BY <1>44, <1>0, <1>f, QueueSame DEF FsPush, submit_submit_task, Acquired,
     EnabledInv, SubmitReads, TypeOK, SubmitInv, RoleInv, LeaseInv
<1> QED
  BY <1>1, <1>2, <1>3, <1>4, <1>5, <1>6, <1>7, <1>8, <1>9, <1>10, <1>11, <1>12,
     <1>13, <1>14, <1>15, <1>16, <1>17, <1>18, <1>19, <1>20, <1>21, <1>22,
     <1>23, <1>24, <1>25, <1>26, <1>27, <1>28, <1>29, <1>30, <1>31, <1>32,
     <1>33, <1>34, <1>35, <1>36, <1>37, <1>38, <1>39, <1>40, <1>41, <1>42,
     <1>43, <1>44 DEF Next, SubmitStep, QueueStep, ScanStep, RoleStep,
     AdminStep, LogStep

(* What SubmitInv speaks of is left alone, and so it is kept.              *)
LEMMA SubmitSame ==
  ASSUME SubmitInv, UNCHANGED <<sub_pc, next_lsn, log, base, bc>>
  PROVE  SubmitInv'
BY DEF SubmitInv, need_skip

(* Every step preserves SubmitInv.                                         *)
LEMMA SubmitStepInv ==
  IInv /\ Next => SubmitInv'
<1> SUFFICES ASSUME IInv, Next PROVE SubmitInv'
  OBVIOUS
<1> USE NQAssumption DEF logVars, rcVars, stVars, nextVars, subVars, taskVars,
       taskQueueVars, envVars
<1>0. /\ TypeOK /\ QueuesOrdered /\ EnabledInv /\ SubmitInv /\ TasksInv /\ DoneInv
      /\ RoleInv /\ ScanInv /\ LeaseInv
  BY DEF IInv
<1>f. QueueFacts /\ QueueFacts' /\ TypeOK'
  BY <1>0, QueueFactsHold, TypeStep
<1>1. CASE (\E q \in Queues : batch_push_all_task_queue(q) \/ QueueTake(q) \/
           QueueEmpty(q) \/ QueueWait(q) \/ QueueStart(q) \/ ReplayOk(q) \/
           ReplayFail(q) \/ QueuePop(q) \/ QueueRevoke(q)) \/ (\E d \in
           BOOLEAN : ScanStart(d)) \/ ScanQueue \/ ScanEnd \/ BecomeLeader
           \/ LoseLeader \/ GiveUp \/ switch_to_leader
  <2>1. UNCHANGED <<sub_pc, next_lsn, log, base, bc>>
    BY <1>1 DEF batch_push_all_task_queue, submit_task_queue, Acquired,
       QueueTake, QueueGoto, queueFrame, QueueEmpty, QueueWait, HasTop,
       QueueStart, ReplayOk, ReplayFail, QueuePop, QueueRevoke, ScanStart,
       scanFrame, ScanQueue, ScanEnd, IdleScan, BecomeLeader, rcFrame,
       LoseLeader, GiveUp, switch_to_leader
  <2> QED
    BY <2>1, <1>0, SubmitSame
<1>2. CASE Serve \/ StepDown \/ FollowerRole \/ disable \/ block_submit \/
           unblock_submit \/ Apply \/ FsCheck
  <2>1. UNCHANGED <<sub_pc, next_lsn, log, base, bc>>
    BY <1>2 DEF Serve, rcFrame, StepDown, FollowerRole, disable, block_submit,
       unblock_submit, Apply, Larger, FsCheck
  <2> QED
    BY <2>1, <1>0, SubmitSame
<1>3. ASSUME SubmitTake PROVE SubmitInv'
  BY <1>3, <1>0 DEF SubmitTake, SubmitGoto, SubmitInv, need_skip, LeaseInv,
     Unlocked, SubmitReads, EnabledInv
<1>4. ASSUME SubmitCheck PROVE SubmitInv'
  BY <1>4, <1>0 DEF SubmitCheck, SubmitGoto, SubmitInv, need_skip, LeaseInv,
     Unlocked, SubmitReads, EnabledInv
<1>5. ASSUME FetchNone PROVE SubmitInv'
  BY <1>5, <1>0 DEF FetchNone, SubmitGoto, SubmitInv, need_skip, LeaseInv,
     Unlocked, SubmitReads, EnabledInv
<1>6. ASSUME FetchSkip PROVE SubmitInv'
  BY <1>6, <1>0 DEF FetchSkip, SubmitGoto, Fetched, SubmitInv, need_skip,
     LeaseInv, Unlocked, SubmitReads, EnabledInv
<1>7. ASSUME FetchRetry PROVE SubmitInv'
  BY <1>7, <1>0 DEF FetchRetry, SubmitGoto, Fetched, SubmitInv, need_skip,
     LeaseInv, Unlocked, SubmitReads, EnabledInv
<1>8. ASSUME FetchPush PROVE SubmitInv'
  BY <1>8, <1>0 DEF FetchPush, SubmitLog, PushTask, SubmitGoto, Fetched,
     SubmitInv, need_skip, LeaseInv, Unlocked, SubmitReads, EnabledInv
<1>9. ASSUME FetchBroadcast PROVE SubmitInv'
  BY <1>9, <1>0, FetchFacts DEF FetchBroadcast, SubmitLog, SubmitGoto, Fetched,
     SubmitInv, need_skip, TypeOK
<1>10. ASSUME Broadcast PROVE SubmitInv'
  BY <1>10, <1>0 DEF Broadcast, PushTask, SubmitGoto, SubmitInv, need_skip,
     LeaseInv, Unlocked, SubmitReads, EnabledInv
<1>11. ASSUME BroadcastSignal PROVE SubmitInv'
  BY <1>11, <1>0, SendFacts, SignalFacts DEF BroadcastSignal, submit_task_queue,
     Acquired, SubmitGoto, SubmitInv, need_skip, TypeOK, Queues
<1>12. ASSUME SubmitMeta PROVE SubmitInv'
  BY <1>12, <1>0 DEF SubmitMeta, SubmitGoto, SubmitInv, need_skip, LeaseInv,
     Unlocked, SubmitReads, EnabledInv
<1>13. ASSUME SubmitEnd PROVE SubmitInv'
  BY <1>13, <1>0 DEF SubmitEnd, SubmitGoto, SubmitInv, need_skip, LeaseInv,
     Unlocked, SubmitReads, EnabledInv
<1>14. ASSUME SubmitRevoke PROVE SubmitInv'
  BY <1>14, <1>0 DEF SubmitRevoke, SubmitInv, need_skip, LeaseInv, Unlocked,
     SubmitReads, EnabledInv
<1>15. ASSUME reset_iterator PROVE SubmitInv'
  BY <1>15, <1>0 DEF reset_iterator, rcFrame, Larger, SubmitInv, need_skip,
     LeaseInv, Unlocked, SubmitReads, EnabledInv
<1>16. ASSUME FollowerPush PROVE SubmitInv'
  BY <1>16, <1>0 DEF FollowerPush, submit_submit_task, Acquired, rcFrame,
     SubmitInv, need_skip, LeaseInv, Unlocked, SubmitReads, EnabledInv
<1>17. ASSUME NEW scn \in 1 .. Len(log) + 1, NEW lsn \in 1 .. scn, enable(lsn, scn)
       PROVE  SubmitInv'
  BY <1>17, <1>0 DEF enable, submit_submit_task, Acquired, SubmitInv, need_skip,
     LeaseInv, Unlocked, SubmitReads, EnabledInv
<1>18. ASSUME disable_ PROVE SubmitInv'
  BY <1>18, <1>0 DEF disable_, SubmitInv, need_skip, LeaseInv, Unlocked,
     SubmitReads, EnabledInv
<1>19. ASSUME UnblockPush PROVE SubmitInv'
  BY <1>19, <1>0 DEF UnblockPush, submit_submit_task, Acquired, SubmitInv,
     need_skip, LeaseInv, Unlocked, SubmitReads, EnabledInv
<1>20. ASSUME NEW e \in Entries, Commit(e) PROVE SubmitInv'
  <2>1. /\ Len(log') = Len(log) + 1 /\ \A i \in 1 .. Len(log) : log'[i] = log[i]
    BY <1>20, CommitFacts DEF Commit, logFrame
  <2>2. sub_pc \in {"bcast", "signal", "meta"} => next_lsn \in 1 .. Len(log)
    BY <1>0 DEF SubmitInv, EnabledInv, SubmitReads, TypeOK
  <2> QED
    BY <1>20, <2>1, <2>2, <1>0 DEF Commit, logFrame, SubmitInv, need_skip
<1>21. ASSUME NEW e \in Entries, CommitOwn(e) PROVE SubmitInv'
  <2>1. /\ Len(log') = Len(log) + 1 /\ \A i \in 1 .. Len(log) : log'[i] = log[i]
    BY <1>21, CommitFacts DEF CommitOwn, logFrame
  <2>2. sub_pc \in {"bcast", "signal", "meta"} => next_lsn \in 1 .. Len(log)
    BY <1>0 DEF SubmitInv, EnabledInv, SubmitReads, TypeOK
  <2> QED
    BY <1>21, <2>1, <2>2, <1>0 DEF CommitOwn, logFrame, SubmitInv, need_skip
<1>22. ASSUME FsPush PROVE SubmitInv'
  BY <1>22, <1>0 DEF FsPush, submit_submit_task, Acquired, SubmitInv, need_skip,
     LeaseInv, Unlocked, SubmitReads, EnabledInv
<1> QED
  BY <1>1, <1>2, <1>3, <1>4, <1>5, <1>6, <1>7, <1>8, <1>9, <1>10, <1>11, <1>12,
     <1>13, <1>14, <1>15, <1>16, <1>17, <1>18, <1>19, <1>20, <1>21, <1>22 DEF
     Next, SubmitStep, QueueStep, ScanStep, RoleStep, AdminStep, LogStep

(* What TasksInv speaks of is left alone, and so it is kept.               *)
LEMMA TasksSame ==
  ASSUME TasksInv, UNCHANGED <<Cont, log, base, next_scn>>, SendKept
  PROVE  TasksInv'
BY DEF TasksInv, SendKept

(* Every step preserves TasksInv: what is in the queues is submitted, not  *)
(* in the checkpoint and of the queue or a barrier.                        *)
LEMMA TasksStep ==
  IInv /\ Next => TasksInv'
<1> SUFFICES ASSUME IInv, Next PROVE TasksInv'
  OBVIOUS
<1> USE DEF logVars, rcVars, stVars, nextVars, subVars, taskVars, taskQueueVars, envVars
<1>0. /\ TypeOK /\ QueuesOrdered /\ EnabledInv /\ SubmitInv /\ TasksInv /\ DoneInv
      /\ RoleInv /\ ScanInv /\ LeaseInv
  BY DEF IInv
<1>f. QueueFacts /\ QueueFacts' /\ TypeOK'
  BY <1>0, QueueFactsHold, TypeStep
<1>1. CASE SubmitTake \/ SubmitCheck \/ FetchNone \/ FetchSkip \/ FetchRetry \/ (\E q
           \in Queues : batch_push_all_task_queue(q)) \/ SubmitEnd \/
           SubmitRevoke \/ (\E q \in Queues : QueueTake(q) \/ QueueEmpty(q)
           \/ QueueWait(q) \/ QueueStart(q) \/ ReplayOk(q) \/ ReplayFail(q)
           \/ QueueRevoke(q)) \/ (\E d \in BOOLEAN : ScanStart(d))
  <2>1. SendKept
    BY <1>1, SendKeeps
  <2>2. UNCHANGED <<queue, log, base, next_scn>>
    BY <1>1 DEF SubmitTake, SubmitGoto, SubmitCheck, FetchNone, FetchSkip,
       Fetched, FetchRetry, batch_push_all_task_queue, submit_task_queue,
       Acquired, SubmitEnd, SubmitRevoke, QueueTake, QueueGoto, queueFrame,
       QueueEmpty, QueueWait, HasTop, QueueStart, ReplayOk, ReplayFail,
       QueueRevoke, ScanStart, scanFrame
  <2> QED
    BY <2>1, <2>2, <1>0, TasksSame, QueueSame
<1>2. CASE ScanQueue \/ ScanEnd \/ BecomeLeader \/ LoseLeader \/ GiveUp \/
           switch_to_leader \/ Serve \/ StepDown \/ FollowerRole \/
           FollowerPush \/ disable \/ block_submit \/ unblock_submit \/
           UnblockPush \/ Apply \/ FsCheck
  <2>1. SendKept
    BY <1>2, SendKeeps
  <2>2. UNCHANGED <<queue, log, base, next_scn>>
    BY <1>2 DEF ScanQueue, scanFrame, ScanEnd, IdleScan, BecomeLeader, rcFrame,
       LoseLeader, GiveUp, switch_to_leader, Serve, StepDown, FollowerRole,
       FollowerPush, submit_submit_task, Acquired, disable, block_submit,
       unblock_submit, UnblockPush, Apply, Larger, FsCheck
  <2> QED
    BY <2>1, <2>2, <1>0, TasksSame, QueueSame
<1>3. CASE FsPush
  <2>1. SendKept
    BY <1>3, SendKeeps
  <2>2. UNCHANGED <<queue, log, base, next_scn>>
    BY <1>3 DEF FsPush, submit_submit_task, Acquired
  <2> QED
    BY <2>1, <2>2, <1>0, TasksSame, QueueSame
<1>4. ASSUME FetchPush PROVE TasksInv'
  <2>0. Fetched /\ ~need_skip(next_lsn)
    BY <1>4 DEF FetchPush, SubmitLog
  <2>1. UNCHANGED <<log, base, next_scn>>
    BY <1>4 DEF FetchPush, SubmitLog
  <2> SUFFICES ASSUME NEW q \in Queues, NEW x \in Cont'[q]
               PROVE  /\ x \in 1 .. Len(log) /\ base <= x /\ ~log[x].pad
                      /\ log[x].q = q \/ log[x].pre
                      /\ x < next_scn \/ (Sending(x)' /\ Reached(q)')
    BY <2>1 DEF TasksInv
  <2>2. x \in Cont[q] \/ (x = next_lsn /\ q = log[next_lsn].q)
    BY <1>4, PushFacts, <1>f DEF QueueFacts
  <2>3. CASE x \in Cont[q]
    BY <2>3, <2>0, <1>0, FetchFacts DEF TasksInv
  <2>4. CASE x = next_lsn /\ q = log[next_lsn].q
    BY <1>4, <2>4, <2>0, <1>0, FetchFacts, PushFacts DEF need_skip, TypeOK
  <2> QED
    BY <2>2, <2>3, <2>4
<1>5. ASSUME FetchBroadcast PROVE TasksInv'
  <2>0. Fetched /\ UNCHANGED <<log, base, next_scn, queue>>
    BY <1>5 DEF FetchBroadcast, SubmitLog
  <2> QED
    BY <2>0, <1>0, FetchFacts, QueueSame DEF TasksInv
<1>6. ASSUME Broadcast PROVE TasksInv'
  <2>1. UNCHANGED <<log, base, next_scn>>
    BY <1>6 DEF Broadcast
  <2> SUFFICES ASSUME NEW q \in Queues, NEW x \in Cont'[q]
               PROVE  /\ x \in 1 .. Len(log) /\ base <= x /\ ~log[x].pad
                      /\ log[x].q = q \/ log[x].pre
                      /\ x < next_scn \/ (Sending(x)' /\ Reached(q)')
    BY <2>1 DEF TasksInv
  <2>2. x \in Cont[q] \/ (x = next_lsn /\ q = bc)
    BY <1>6, BroadcastFacts, <1>f DEF QueueFacts
  <2>3. CASE x \in Cont[q]
    BY <1>6, <2>3, <1>0, SendFacts, BroadcastFacts DEF TasksInv
  <2>4. CASE x = next_lsn /\ q = bc
    BY <1>6, <2>4, <1>0, SendFacts, BroadcastFacts
  <2> QED
    BY <2>2, <2>3, <2>4
<1>7. ASSUME BroadcastSignal PROVE TasksInv'
  <2>1. UNCHANGED <<log, base, next_scn, queue>>
    BY <1>7 DEF BroadcastSignal
  <2> QED
    BY <1>7, <2>1, <1>0, SendFacts, SignalFacts, QueueSame DEF TasksInv
<1>8. ASSUME SubmitMeta PROVE TasksInv'
  <2>1. UNCHANGED <<log, base, queue>> /\ next_scn' = next_lsn + 1
    BY <1>8 DEF SubmitMeta
  <2>2. next_scn <= next_lsn
    BY <1>8, <1>0 DEF SubmitMeta, EnabledInv, SubmitReads
  <2>3. ASSUME NEW q \in Queues, NEW x \in Cont[q] PROVE x < next_lsn + 1
    <3>1. x < next_scn \/ x = next_lsn
      BY <1>0 DEF TasksInv, Sending
    <3>2. next_scn \in Nat /\ next_lsn \in Nat
      BY <1>0 DEF TypeOK
    <3>3. x \in 1 .. MaxLog
      BY <1>f DEF QueueFacts
    <3> QED
      BY <3>1, <3>2, <3>3, <2>2
  <2> QED
    BY <2>1, <2>3, <1>0, QueueSame DEF TasksInv
<1>9. ASSUME NEW q \in Queues, QueuePop(q) PROVE TasksInv'
  <2>1. UNCHANGED <<log, base, next_scn, next_lsn, sub_pc, bc>>
    BY <1>9 DEF QueuePop, queueFrame
  <2>2. SendKept
    BY <2>1, SendSame
  <2>3. \A r \in Queues : Cont'[r] \subseteq Cont[r]
    BY <1>9, <1>f, PopFacts DEF QueueFacts
  <2> QED
    BY <2>1, <2>2, <2>3, <1>0 DEF TasksInv, SendKept
<1>10. ASSUME reset_iterator PROVE TasksInv'
  <2>1. \A i : ~Sending(i)
    BY <1>10 DEF reset_iterator, Unlocked, SubmitReads, Sending
  <2>2. UNCHANGED <<log, base, next_scn, queue>>
    BY <1>10 DEF reset_iterator, rcFrame
  <2> QED
    BY <2>1, <2>2, <1>0, QueueSame DEF TasksInv
<1>11. ASSUME NEW scn \in 1 .. Len(log) + 1, NEW lsn \in 1 .. scn, enable(lsn, scn)
       PROVE  TasksInv'
  <2>1. \A q \in Queues : Cont'[q] = {}
    BY <1>11, <1>0, <1>f, QueueSame DEF enable, EnabledInv, QueueFacts
  <2> QED
    BY <2>1 DEF TasksInv
<1>12. ASSUME disable_ PROVE TasksInv'
  BY <1>12, DropFacts DEF disable_, TasksInv
<1>13. ASSUME NEW e \in Entries, Commit(e) PROVE TasksInv'
  <2>1. /\ Len(log') = Len(log) + 1 /\ \A i \in 1 .. Len(log) : log'[i] = log[i]
        /\ SendKept /\ Len(log) \in Nat
    BY <1>13, CommitFacts DEF Commit, logFrame
  <2>2. UNCHANGED <<Cont, base, next_scn>>
    BY <1>13, QueueSame DEF Commit, logFrame
  <2> QED
    BY <2>1, <2>2, <1>0 DEF TasksInv, SendKept
<1>14. ASSUME NEW e \in Entries, CommitOwn(e) PROVE TasksInv'
  <2>1. /\ Len(log') = Len(log) + 1 /\ \A i \in 1 .. Len(log) : log'[i] = log[i]
        /\ SendKept /\ Len(log) \in Nat
    BY <1>14, CommitFacts DEF CommitOwn, logFrame
  <2>2. UNCHANGED <<Cont, base, next_scn>>
    BY <1>14, QueueSame DEF CommitOwn, logFrame
  <2> QED
    BY <2>1, <2>2, <1>0 DEF TasksInv, SendKept
<1> QED
  BY <1>1, <1>2, <1>3, <1>4, <1>5, <1>6, <1>7, <1>8, <1>9, <1>10, <1>11, <1>12,
     <1>13, <1>14 DEF Next, SubmitStep, QueueStep, ScanStep, RoleStep,
     AdminStep, LogStep

(* What LeaseInv speaks of is left alone, and so it is kept.               *)
LEMMA LeaseSame ==
  ASSUME LeaseInv, UNCHANGED <<sub_lease, sub_pc, lease, pc, need_batch>>
  PROVE  LeaseInv'
BY DEF LeaseInv, SubmitReads

(* Every step preserves LeaseInv: one thread runs a task, or none.         *)
LEMMA LeaseStep ==
  IInv /\ Next => LeaseInv'
<1> SUFFICES ASSUME IInv, Next PROVE LeaseInv'
  OBVIOUS
<1> USE DEF logVars, rcVars, stVars, nextVars, subVars, taskVars, taskQueueVars, envVars
<1>0. /\ TypeOK /\ QueuesOrdered /\ EnabledInv /\ SubmitInv /\ TasksInv /\ DoneInv
      /\ RoleInv /\ ScanInv /\ LeaseInv
  BY DEF IInv
<1>f. QueueFacts /\ QueueFacts' /\ TypeOK'
  BY <1>0, QueueFactsHold, TypeStep
<1>b. sub_pc \in {"bcast", "signal"} => bc \in Queues
  BY SendFacts
<1>1. CASE (\E d \in BOOLEAN : ScanStart(d)) \/ ScanQueue \/ ScanEnd \/ BecomeLeader \/
           LoseLeader \/ GiveUp \/ switch_to_leader \/ Serve \/ StepDown \/
           reset_iterator \/ FollowerRole \/ disable \/ disable_ \/
           block_submit \/ unblock_submit \/ (\E e \in Entries : Commit(e))
  <2>1. UNCHANGED <<sub_lease, sub_pc, lease, pc, need_batch>>
    BY <1>1 DEF ScanStart, scanFrame, ScanQueue, ScanEnd, IdleScan,
       BecomeLeader, rcFrame, LoseLeader, GiveUp, switch_to_leader, Serve,
       StepDown, reset_iterator, Larger, FollowerRole, disable, disable_,
       block_submit, unblock_submit, Commit, logFrame
  <2> QED
    BY <2>1, <1>0, LeaseSame
<1>2. CASE (\E e \in Entries : CommitOwn(e)) \/ Apply \/ FsCheck
  <2>1. UNCHANGED <<sub_lease, sub_pc, lease, pc, need_batch>>
    BY <1>2 DEF CommitOwn, logFrame, Apply, Larger, FsCheck
  <2> QED
    BY <2>1, <1>0, LeaseSame
<1>3. ASSUME SubmitTake PROVE LeaseInv'
  BY <1>3, <1>0 DEF SubmitTake, SubmitGoto, LeaseInv, SubmitReads, TypeOK,
     LeaseStates
<1>4. ASSUME SubmitCheck PROVE LeaseInv'
  BY <1>4, <1>0 DEF SubmitCheck, SubmitGoto, LeaseInv, SubmitReads, TypeOK,
     LeaseStates
<1>5. ASSUME FetchNone PROVE LeaseInv'
  BY <1>5, <1>0 DEF FetchNone, SubmitGoto, LeaseInv, SubmitReads, TypeOK,
     LeaseStates
<1>6. ASSUME FetchSkip PROVE LeaseInv'
  BY <1>6, <1>0 DEF FetchSkip, SubmitGoto, Fetched, LeaseInv, SubmitReads,
     TypeOK, LeaseStates
<1>7. ASSUME FetchRetry PROVE LeaseInv'
  BY <1>7, <1>0 DEF FetchRetry, SubmitGoto, Fetched, LeaseInv, SubmitReads,
     TypeOK, LeaseStates
<1>8. ASSUME FetchPush PROVE LeaseInv'
  BY <1>8, <1>0, <1>f, FetchFacts DEF FetchPush, SubmitLog, PushTask,
     SubmitGoto, Fetched, LeaseInv, SubmitReads, TypeOK
<1>9. ASSUME FetchBroadcast PROVE LeaseInv'
  BY <1>9, <1>0 DEF FetchBroadcast, SubmitLog, SubmitGoto, Fetched, LeaseInv,
     SubmitReads, TypeOK, LeaseStates
<1>10. ASSUME Broadcast PROVE LeaseInv'
  BY <1>10, <1>0, <1>b DEF Broadcast, PushTask, SubmitGoto, LeaseInv,
     SubmitReads, TypeOK
<1>11. ASSUME BroadcastSignal PROVE LeaseInv'
  BY <1>11, <1>0, <1>b DEF BroadcastSignal, submit_task_queue, Acquired,
     SubmitGoto, LeaseInv, SubmitReads, TypeOK
<1>12. ASSUME SubmitMeta PROVE LeaseInv'
  BY <1>12, <1>0 DEF SubmitMeta, SubmitGoto, LeaseInv, SubmitReads, TypeOK,
     LeaseStates
<1>13. ASSUME NEW q \in Queues, batch_push_all_task_queue(q) PROVE LeaseInv'
  BY <1>13, <1>0 DEF batch_push_all_task_queue, submit_task_queue, Acquired,
     LeaseInv, SubmitReads, TypeOK, LeaseStates
<1>14. ASSUME SubmitEnd PROVE LeaseInv'
  BY <1>14, <1>0 DEF SubmitEnd, SubmitGoto, LeaseInv, SubmitReads, TypeOK,
     LeaseStates
<1>15. ASSUME SubmitRevoke PROVE LeaseInv'
  BY <1>15, <1>0 DEF SubmitRevoke, LeaseInv, SubmitReads, TypeOK, LeaseStates
<1>16. ASSUME NEW q \in Queues, QueueTake(q) PROVE LeaseInv'
  BY <1>16, <1>0 DEF QueueTake, QueueGoto, queueFrame, LeaseInv, SubmitReads,
     TypeOK, LeaseStates
<1>17. ASSUME NEW q \in Queues, QueueEmpty(q) PROVE LeaseInv'
  BY <1>17, <1>0 DEF QueueEmpty, QueueGoto, queueFrame, LeaseInv, SubmitReads,
     TypeOK, LeaseStates
<1>18. ASSUME NEW q \in Queues, QueueWait(q) PROVE LeaseInv'
  BY <1>18, <1>0 DEF QueueWait, QueueGoto, queueFrame, HasTop, LeaseInv,
     SubmitReads, TypeOK, LeaseStates
<1>19. ASSUME NEW q \in Queues, QueueStart(q) PROVE LeaseInv'
  BY <1>19, <1>0 DEF QueueStart, QueueGoto, queueFrame, HasTop, LeaseInv,
     SubmitReads, TypeOK, LeaseStates
<1>20. ASSUME NEW q \in Queues, ReplayOk(q) PROVE LeaseInv'
  BY <1>20, <1>0 DEF ReplayOk, QueueGoto, queueFrame, LeaseInv, SubmitReads,
     TypeOK, LeaseStates
<1>21. ASSUME NEW q \in Queues, ReplayFail(q) PROVE LeaseInv'
  BY <1>21, <1>0 DEF ReplayFail, QueueGoto, queueFrame, LeaseInv, SubmitReads,
     TypeOK, LeaseStates
<1>22. ASSUME NEW q \in Queues, QueuePop(q) PROVE LeaseInv'
  BY <1>22, <1>0 DEF QueuePop, QueueGoto, queueFrame, LeaseInv, SubmitReads,
     TypeOK, LeaseStates
<1>23. ASSUME NEW q \in Queues, QueueRevoke(q) PROVE LeaseInv'
  BY <1>23, <1>0 DEF QueueRevoke, LeaseInv, SubmitReads, TypeOK, LeaseStates
<1>24. ASSUME FollowerPush PROVE LeaseInv'
  BY <1>24, <1>0 DEF FollowerPush, submit_submit_task, Acquired, rcFrame,
     LeaseInv, SubmitReads, TypeOK, LeaseStates
<1>25. ASSUME NEW scn \in 1 .. Len(log) + 1, NEW lsn \in 1 .. scn, enable(lsn, scn)
       PROVE  LeaseInv'
  BY <1>25, <1>0 DEF enable, submit_submit_task, Acquired, LeaseInv,
     SubmitReads, TypeOK, LeaseStates
<1>26. ASSUME UnblockPush PROVE LeaseInv'
  BY <1>26, <1>0 DEF UnblockPush, submit_submit_task, Acquired, LeaseInv,
     SubmitReads, TypeOK, LeaseStates
<1>27. ASSUME FsPush PROVE LeaseInv'
  BY <1>27, <1>0 DEF FsPush, submit_submit_task, Acquired, LeaseInv,
     SubmitReads, TypeOK, LeaseStates
<1> QED
  BY <1>1, <1>2, <1>3, <1>4, <1>5, <1>6, <1>7, <1>8, <1>9, <1>10, <1>11, <1>12,
     <1>13, <1>14, <1>15, <1>16, <1>17, <1>18, <1>19, <1>20, <1>21, <1>22,
     <1>23, <1>24, <1>25, <1>26, <1>27 DEF Next, SubmitStep, QueueStep,
     ScanStep, RoleStep, AdminStep, LogStep

(* What ScanInv speaks of is left alone, and so it is kept.                *)
LEMMA ScanSame ==
  ASSUME ScanInv, UNCHANGED <<scan, enabled, next_lsn, base, Cont>>
  PROVE  ScanInv'
BY DEF ScanInv

(* Every step preserves ScanInv: what readers of the position have passed  *)
(* over holds nothing that is smaller.                                     *)
LEMMA ScanStepInv ==
  IInv /\ Next => ScanInv'
<1> SUFFICES ASSUME IInv, Next PROVE ScanInv'
  OBVIOUS
<1> USE DEF logVars, rcVars, stVars, nextVars, subVars, taskVars, taskQueueVars, envVars
<1>0. /\ TypeOK /\ QueuesOrdered /\ EnabledInv /\ SubmitInv /\ TasksInv /\ DoneInv
      /\ HeadInv
      /\ RoleInv /\ ScanInv /\ LeaseInv /\ CoveredInv /\ BroadcastInv
  BY DEF IInv
<1>f. QueueFacts /\ QueueFacts' /\ TypeOK'
  BY <1>0, QueueFactsHold, TypeStep
<1>n. /\ next_lsn \in Nat /\ next_scn \in Nat /\ base \in Nat
      /\ scan.lsn \in Nat /\ scan.scn \in Nat /\ scan.k \in Nat
      /\ \A q \in Queues : Front[q] \in Nat /\ \A x \in Cont[q] : x \in Nat
  BY Numbers
<1>1. CASE SubmitTake \/ SubmitCheck \/ FetchNone \/ FetchSkip \/ FetchRetry \/
           FetchBroadcast \/ BroadcastSignal \/ (\E q \in Queues :
           batch_push_all_task_queue(q)) \/ SubmitEnd \/ SubmitRevoke \/ (\E
           q \in Queues : QueueTake(q) \/ QueueEmpty(q) \/ QueueWait(q) \/
           QueueStart(q) \/ ReplayOk(q) \/ ReplayFail(q))
  <2>1. UNCHANGED <<scan, enabled, next_lsn, base, queue>>
    BY <1>1 DEF SubmitTake, SubmitGoto, SubmitCheck, FetchNone, FetchSkip,
       Fetched, FetchRetry, FetchBroadcast, SubmitLog, BroadcastSignal,
       submit_task_queue, Acquired, batch_push_all_task_queue, SubmitEnd,
       SubmitRevoke, QueueTake, QueueGoto, queueFrame, QueueEmpty, QueueWait,
       HasTop, QueueStart, ReplayOk, ReplayFail
  <2> QED
    BY <2>1, <1>0, ScanSame, QueueSame
<1>2. CASE (\E q \in Queues : QueueRevoke(q)) \/ BecomeLeader \/ LoseLeader \/ GiveUp
           \/ switch_to_leader \/ Serve \/ StepDown \/ FollowerRole \/
           FollowerPush \/ disable \/ block_submit \/ unblock_submit \/
           UnblockPush \/ (\E e \in Entries : Commit(e) \/ CommitOwn(e)) \/
           Apply
  <2>1. UNCHANGED <<scan, enabled, next_lsn, base, queue>>
    BY <1>2 DEF QueueRevoke, BecomeLeader, rcFrame, LoseLeader, GiveUp,
       switch_to_leader, Serve, StepDown, FollowerRole, FollowerPush,
       submit_submit_task, Acquired, disable, block_submit, unblock_submit,
       UnblockPush, Commit, logFrame, CommitOwn, Apply, Larger
  <2> QED
    BY <2>1, <1>0, ScanSame, QueueSame
<1>3. CASE FsCheck \/ FsPush
  <2>1. UNCHANGED <<scan, enabled, next_lsn, base, queue>>
    BY <1>3 DEF FsCheck, FsPush, submit_submit_task, Acquired
  <2> QED
    BY <2>1, <1>0, ScanSame, QueueSame
<1>4. ASSUME FetchPush PROVE ScanInv'
  <2>1. UNCHANGED <<scan, enabled, next_lsn, base>> /\ enabled
    BY <1>4, PushFacts, FetchFacts DEF FetchPush, SubmitLog
  <2>2. \A q \in Queues : \A x \in Cont'[q] : x \in Cont[q] \/ x = next_lsn
    BY <1>4, PushFacts, <1>f DEF QueueFacts
  <2> QED
    BY <2>1, <2>2, <1>0, <1>n DEF ScanInv
<1>5. ASSUME Broadcast PROVE ScanInv'
  <2>1. UNCHANGED <<scan, enabled, next_lsn, base>> /\ enabled
    BY <1>5, BroadcastFacts, SendFacts DEF Broadcast
  <2>2. \A q \in Queues : \A x \in Cont'[q] : x \in Cont[q] \/ x = next_lsn
    BY <1>5, BroadcastFacts, <1>f DEF QueueFacts
  <2> QED
    BY <2>1, <2>2, <1>0, <1>n DEF ScanInv
<1>6. ASSUME SubmitMeta PROVE ScanInv'
  BY <1>6, <1>0, <1>n, QueueSame DEF SubmitMeta, SubmitGoto, ScanInv
<1>7. ASSUME NEW q \in Queues, QueuePop(q) PROVE ScanInv'
  <2>1. UNCHANGED <<scan, enabled, next_lsn, base>>
    BY <1>7 DEF QueuePop, queueFrame
  <2>2. \A r \in Queues : Cont'[r] \subseteq Cont[r]
    BY <1>7, <1>f, PopFacts DEF QueueFacts
  <2> QED
    BY <2>1, <2>2, <1>0 DEF ScanInv
<1>8. ASSUME NEW d \in BOOLEAN, ScanStart(d) PROVE ScanInv'
  <2>0. Cont' = Cont /\ UNCHANGED <<enabled, next_lsn, base>> /\ enabled
    BY <1>8, QueueSame DEF ScanStart, scanFrame
  <2>1. \A q \in Queues : \A x \in Cont[q] : base <= x /\ (x < next_scn \/ x = next_lsn)
    BY <1>0 DEF TasksInv, Sending
  <2>2. next_scn <= next_lsn
    BY <2>0, <1>0 DEF EnabledInv
  <2>3. CASE next_scn <= base
    <3>1. scan' = [pc |-> "answer", done |-> d, k |-> NQ + 1, lsn |-> next_lsn, scn |-> base]
      BY <1>8, <2>3 DEF ScanStart
    <3>2. \A q \in Queues : \A x \in Cont[q] : x >= next_lsn
      BY <2>1, <2>3, <1>n
    <3> QED
      BY <2>0, <3>1, <3>2, <1>n DEF ScanInv
  <2>4. CASE ~(next_scn <= base)
    <3>1. scan' = [pc |-> "scan", done |-> d, k |-> 1, lsn |-> next_lsn, scn |-> next_scn]
      BY <1>8, <2>4 DEF ScanStart
    <3>2. \A q \in Queues : \A x \in Cont[q] : x < next_lsn => x < next_scn
      BY <2>1, <1>n
    <3>3. \A q \in Queues : ~(q < 1)
      BY DEF Queues
    <3> QED
      BY <2>0, <2>2, <3>1, <3>2, <3>3, <1>n, NQAssumption DEF ScanInv, Queues
  <2> QED
    BY <2>3, <2>4
<1>9. ASSUME ScanQueue PROVE ScanInv'
  <2>0. Cont' = Cont /\ UNCHANGED <<enabled, next_lsn, base>> /\ scan.k \in Queues
    BY <1>9, QueueSame, <1>0 DEF ScanQueue, scanFrame, ScanInv
  <2> DEFINE sm == /\ Front[scan.k] # 0 /\ Front[scan.k] < scan.lsn
                   /\ Front[scan.k] < scan.scn
             l == IF sm THEN Front[scan.k] ELSE scan.lsn
             s == IF sm THEN Front[scan.k] ELSE scan.scn
  <2>1. scan' = [scan EXCEPT !.lsn = l, !.scn = s, !.k = @ + 1,
                             !.pc = IF scan.k = NQ THEN "answer" ELSE "scan"]
    <3>1. CASE queue[scan.k] = << >>
      <4>1. Front[scan.k] = 0
        BY <3>1, <2>0, <1>f DEF QueueFacts
      <4> QED
        BY <1>9, <3>1, <4>1 DEF ScanQueue
    <3>2. CASE queue[scan.k] # << >>
      <4>1. Front[scan.k] # 0 /\ Head(queue[scan.k]) = Front[scan.k]
        BY <3>2, <2>0, <1>f DEF QueueFacts
      <4> QED
        BY <1>9, <3>2, <4>1 DEF ScanQueue
    <3> QED
      BY <3>1, <3>2
  <2>2. /\ scan'.lsn = l /\ scan'.scn = s /\ scan'.k = scan.k + 1
        /\ scan'.pc = IF scan.k = NQ THEN "answer" ELSE "scan"
    BY <2>1, <1>0 DEF TypeOK, ScanType
  <2>3. /\ scan'.pc = "scan" => scan'.k \in Queues
        /\ scan'.pc = "answer" => scan'.k = NQ + 1
    BY <2>0, <2>2, NQAssumption DEF Queues
  <2> SUFFICES ASSUME enabled, scan.pc = "scan"
               PROVE  /\ l <= next_lsn /\ s <= l
                      /\ \A q \in Queues : \A x \in Cont[q] :
                            /\ q < scan.k + 1 => x >= l
                            /\ x < l => x < s
    BY <1>9, <2>0, <2>2, <2>3 DEF ScanInv, ScanQueue
  <2>4. /\ scan.lsn <= next_lsn /\ scan.scn <= scan.lsn
        /\ \A q \in Queues : \A x \in Cont[q] :
              (q < scan.k => x >= scan.lsn) /\ (x < scan.lsn => x < scan.scn)
    BY <1>0 DEF ScanInv
  <2>5. \A x \in Cont[scan.k] : Front[scan.k] <= x /\ Front[scan.k] # 0
    BY <2>0, <1>f DEF QueueFacts
  <2>6. \A q \in Queues : q < scan.k + 1 => q < scan.k \/ q = scan.k
    BY <2>0 DEF Queues
  <2>7. CASE sm
    BY <2>0, <2>1, <2>4, <2>5, <2>6, <2>7, <1>n
  <2>8. CASE ~sm
    <3>1. l = scan.lsn /\ s = scan.scn
      BY <2>1, <2>8
    <3>2. \A x \in Cont[scan.k] : x >= scan.lsn
      BY <2>0, <2>4, <2>5, <2>8, <1>n
    <3> QED
      BY <2>0, <2>4, <2>6, <3>1, <3>2, <1>n
  <2> QED
    BY <2>7, <2>8
<1>10. ASSUME ScanEnd PROVE ScanInv'
  BY <1>10 DEF ScanEnd, scanFrame, IdleScan, ScanInv
<1>11. ASSUME reset_iterator PROVE ScanInv'
  <2>1. UNCHANGED <<scan, enabled, base, Cont>>
    BY <1>11, QueueSame DEF reset_iterator, rcFrame
  <2>2. next_lsn <= next_lsn' /\ next_lsn' \in Nat
    BY <1>11, <1>0, <1>f DEF reset_iterator, Larger, TypeOK
  <2> QED
    BY <2>1, <2>2, <1>0, <1>n DEF ScanInv
<1>12. ASSUME NEW scn \in 1 .. Len(log) + 1, NEW lsn \in 1 .. scn, enable(lsn, scn)
       PROVE  ScanInv'
  BY <1>12, <1>0 DEF enable, submit_submit_task, Acquired, ScanInv
<1>13. ASSUME disable_ PROVE ScanInv'
  BY <1>13, <1>0 DEF disable_, ScanInv
<1> QED
  BY <1>1, <1>2, <1>3, <1>4, <1>5, <1>6, <1>7, <1>8, <1>9, <1>10, <1>11, <1>12,
     <1>13 DEF Next, SubmitStep, QueueStep, ScanStep, RoleStep, AdminStep,
     LogStep

(* What CoveredInv speaks of is left alone, and so it is kept.             *)
LEMMA CoveredSame ==
  ASSUME CoveredInv, UNCHANGED <<enabled, base, done, log, next_lsn, Cont>>, SendKept
  PROVE  CoveredInv'
BY DEF CoveredInv, SendKept, Sent, Quiet

(* Every step preserves CoveredInv: a log that was submitted is in its     *)
(* queue until it takes effect.                                            *)
LEMMA CoveredStep ==
  IInv /\ Next => CoveredInv'
<1> SUFFICES ASSUME IInv, Next PROVE CoveredInv'
  OBVIOUS
<1> USE DEF logVars, rcVars, stVars, nextVars, subVars, taskVars, taskQueueVars, envVars
<1>0. /\ TypeOK /\ QueuesOrdered /\ EnabledInv /\ SubmitInv /\ TasksInv /\ DoneInv
      /\ HeadInv
      /\ RoleInv /\ ScanInv /\ LeaseInv /\ CoveredInv /\ BroadcastInv
  BY DEF IInv
<1>f. QueueFacts /\ QueueFacts' /\ TypeOK'
  BY <1>0, QueueFactsHold, TypeStep
<1>n. /\ next_lsn \in Nat /\ next_scn \in Nat /\ base \in Nat
      /\ scan.lsn \in Nat /\ scan.scn \in Nat /\ scan.k \in Nat
      /\ \A q \in Queues : Front[q] \in Nat /\ \A x \in Cont[q] : x \in Nat
  BY Numbers
<1>1. CASE SubmitTake \/ SubmitCheck \/ FetchNone \/ FetchSkip \/ FetchRetry \/ (\E q
           \in Queues : batch_push_all_task_queue(q)) \/ SubmitEnd \/
           SubmitRevoke \/ (\E q \in Queues : QueueTake(q) \/ QueueEmpty(q)
           \/ QueueWait(q) \/ QueueStart(q) \/ ReplayFail(q) \/
           QueueRevoke(q)) \/ (\E d \in BOOLEAN : ScanStart(d)) \/ ScanQueue
  <2>1. SendKept
    BY <1>1, SendKeeps
  <2>2. UNCHANGED <<enabled, base, done, log, next_lsn, queue>>
    BY <1>1 DEF SubmitTake, SubmitGoto, SubmitCheck, FetchNone, FetchSkip,
       Fetched, FetchRetry, batch_push_all_task_queue, submit_task_queue,
       Acquired, SubmitEnd, SubmitRevoke, QueueTake, QueueGoto, queueFrame,
       QueueEmpty, QueueWait, HasTop, QueueStart, ReplayFail, QueueRevoke,
       ScanStart, scanFrame, ScanQueue
  <2> QED
    BY <2>1, <2>2, <1>0, CoveredSame, QueueSame
<1>2. CASE ScanEnd \/ BecomeLeader \/ LoseLeader \/ GiveUp \/ switch_to_leader \/ Serve
           \/ StepDown \/ FollowerRole \/ FollowerPush \/ disable \/
           block_submit \/ unblock_submit \/ UnblockPush \/ FsCheck \/
           FsPush
  <2>1. SendKept
    BY <1>2, SendKeeps
  <2>2. UNCHANGED <<enabled, base, done, log, next_lsn, queue>>
    BY <1>2 DEF ScanEnd, scanFrame, IdleScan, BecomeLeader, rcFrame, LoseLeader,
       GiveUp, switch_to_leader, Serve, StepDown, FollowerRole, FollowerPush,
       submit_submit_task, Acquired, disable, block_submit, unblock_submit,
       UnblockPush, FsCheck, FsPush
  <2> QED
    BY <2>1, <2>2, <1>0, CoveredSame, QueueSame
<1>3. ASSUME FetchPush PROVE CoveredInv'
  <2>0. Fetched /\ UNCHANGED <<enabled, base, log, next_lsn, done>>
    BY <1>3 DEF FetchPush, SubmitLog
  <2>1. \A q \in Queues : Cont[q] \subseteq Cont'[q]
    BY <1>3, PushFacts, <1>f DEF QueueFacts
  <2>2. next_lsn \in Cont'[log[next_lsn].q]
    BY <1>3, <2>0, PushFacts, FetchFacts, <1>f DEF QueueFacts
  <2>3. \A i \in 1 .. Len(log) : Sent(log[i].q, i)' => i < next_lsn \/ i = next_lsn
    BY <1>3, <2>0, PushFacts DEF Sent
  <2>4. \A i \in 1 .. Len(log) : log[i].q \in Queues
    BY <1>0, LogEntry
  <2> QED
    BY <2>0, <2>1, <2>2, <2>3, <2>4, <1>0 DEF CoveredInv, Quiet, Sent
<1>4. ASSUME FetchBroadcast PROVE CoveredInv'
  <2>0. Fetched /\ UNCHANGED <<enabled, base, log, next_lsn, done, Cont>>
    BY <1>4, QueueSame DEF FetchBroadcast, SubmitLog
  <2>1. \A q \in Queues : ~Reached(q)'
    BY <1>4 DEF FetchBroadcast, SubmitGoto, Reached, Queues
  <2>2. \A i \in 1 .. Len(log) : log[i].q \in Queues
    BY <1>0, LogEntry
  <2> QED
    BY <2>0, <2>1, <2>2, <1>0 DEF CoveredInv, Quiet, Sent
<1>5. ASSUME Broadcast PROVE CoveredInv'
  <2>0. UNCHANGED <<enabled, base, log, next_lsn, done>>
    BY <1>5 DEF Broadcast
  <2>1. \A q \in Queues : Cont[q] \subseteq Cont'[q]
    BY <1>5, BroadcastFacts, <1>f DEF QueueFacts
  <2>2. next_lsn \in Cont'[bc]
    BY <1>5, BroadcastFacts, SendFacts, <1>f DEF QueueFacts
  <2>3. \A i \in 1 .. Len(log) : log[i].q \in Queues
    BY <1>0, LogEntry
  <2>4. \A i \in 1 .. Len(log) :
          Sent(log[i].q, i)' => Sent(log[i].q, i) \/ (i = next_lsn /\ log[i].q = bc)
    BY <1>5, <2>0, <2>3, BroadcastFacts, SendFacts DEF Sent
  <2> QED
    BY <2>0, <2>1, <2>2, <2>3, <2>4, <1>0 DEF CoveredInv, Quiet
<1>6. ASSUME BroadcastSignal PROVE CoveredInv'
  <2>0. UNCHANGED <<enabled, base, log, next_lsn, done, Cont>>
    BY <1>6, QueueSame DEF BroadcastSignal
  <2>1. \A i \in 1 .. Len(log) : log[i].q \in Queues
    BY <1>0, LogEntry
  <2> QED
    BY <1>6, <2>0, <2>1, <1>0, SignalFacts, SendFacts DEF CoveredInv, Quiet, Sent
<1>7. ASSUME SubmitMeta PROVE CoveredInv'
  <2>0. UNCHANGED <<enabled, base, log, done, Cont>> /\ next_lsn' = next_lsn + 1
    BY <1>7, QueueSame DEF SubmitMeta
  <2>1. \A i : ~Sending(i)'
    BY <1>7 DEF SubmitMeta, SubmitGoto, Sending
  <2>2. \A i \in 1 .. Len(log) : Sent(log[i].q, i)' => i < next_lsn \/ i = next_lsn
    BY <2>0, <2>1, <1>n DEF Sent
  <2>3. \A i \in 1 .. Len(log) :
          i = next_lsn => i < base \/ log[i].pad \/ Sent(log[i].q, i)
    BY <1>7 DEF SubmitMeta, Sent, Sending, Reached, need_skip
  <2>4. \A i \in 1 .. Len(log) :
          Sent(log[i].q, i)' => i < base \/ Quiet(i) \/ Sent(log[i].q, i)
    BY <2>2, <2>3 DEF Sent, Quiet
  <2> QED
    BY <2>0, <2>4, <1>0 DEF CoveredInv, Quiet
<1>8. ASSUME NEW q \in Queues, ReplayOk(q) PROVE CoveredInv'
  <2>1. UNCHANGED <<enabled, base, log, next_lsn, sub_pc, bc, Cont>>
    BY <1>8, QueueSame DEF ReplayOk, queueFrame
  <2>2. SendKept
    BY <2>1, SendSame
  <2>3. \A i : Quiet(i) => Quiet(i)'
    BY <1>8, <2>1 DEF Quiet, ReplayOk
  <2> QED
    BY <2>1, <2>2, <2>3, <1>0 DEF CoveredInv, SendKept, Sent
<1>9. ASSUME NEW q \in Queues, QueuePop(q) PROVE CoveredInv'
  <2>1. UNCHANGED <<enabled, base, log, next_lsn, sub_pc, bc, done>>
    BY <1>9 DEF QueuePop, queueFrame
  <2>2. SendKept
    BY <2>1, SendSame
  <2>3. \A i \in 1 .. Len(log) : log[i].q \in Queues
    BY <1>0, LogEntry
  <2>4. \A i \in 1 .. Len(log) : i \in Cont[log[i].q] =>
           i \in Cont'[log[i].q] \/ (i = Front[q] /\ log[i].q = q)
    BY <1>9, <2>3, <1>f, PopFacts DEF QueueFacts
  <2>5. log[Front[q]].q = q => Front[q] \in done
    BY <1>9, <1>0 DEF HeadInv, QueuePop
  <2> QED
    BY <2>1, <2>2, <2>4, <2>5, <1>0 DEF CoveredInv, SendKept, Sent, Quiet
<1>10. ASSUME reset_iterator PROVE CoveredInv'
  <2>0. UNCHANGED <<enabled, base, log, done, Cont>> /\ next_lsn' = Larger(next_lsn, app + 1)
    BY <1>10, QueueSame DEF reset_iterator, rcFrame
  <2>1. \A i : ~Sending(i)'
    BY <1>10 DEF reset_iterator, rcFrame, Unlocked, SubmitReads, Sending
  <2>2. \A i \in 1 .. app : Quiet(i)
    BY <1>10, <1>0 DEF reset_iterator, RoleInv
  <2>3. \A i \in 1 .. Len(log) : Sent(log[i].q, i)' => i < next_lsn \/ i \in 1 .. app
    BY <2>0, <2>1, <1>n, <1>0 DEF Sent, Larger, TypeOK
  <2> QED
    BY <2>0, <2>2, <2>3, <1>0 DEF CoveredInv, Sent, Quiet
<1>11. ASSUME NEW scn \in 1 .. Len(log) + 1, NEW lsn \in 1 .. scn, enable(lsn, scn)
       PROVE  CoveredInv'
  <2>0. base' = scn /\ next_lsn' = lsn /\ done' = 1 .. scn - 1 /\ log' = log
    BY <1>11 DEF enable
  <2>1. \A i : ~Sending(i)'
    BY <1>11, <1>0 DEF enable, submit_submit_task, EnabledInv, SubmitReads, Sending
  <2>2. \A i \in 1 .. Len(log) : Sent(log[i].q, i)' => i < scn
    BY <2>0, <2>1 DEF Sent
  <2> QED
    BY <2>0, <2>2 DEF CoveredInv, Quiet
<1>12. ASSUME disable_ PROVE CoveredInv'
  BY <1>12 DEF disable_, CoveredInv
<1>13. ASSUME NEW e \in Entries, Commit(e) PROVE CoveredInv'
  <2>1. /\ Len(log') = Len(log) + 1 /\ \A i \in 1 .. Len(log) : log'[i] = log[i]
        /\ SendKept /\ Len(log) \in Nat
    BY <1>13, CommitFacts DEF Commit, logFrame
  <2>2. UNCHANGED <<Cont, base, next_lsn, enabled, done>>
    BY <1>13, QueueSame DEF Commit, logFrame
  <2> SUFFICES ASSUME enabled PROVE CoveredInv'
    BY <2>2 DEF CoveredInv
  <2>3. base \in 1 .. Len(log) + 1 /\ next_lsn \in 1 .. Len(log) + 1
    BY <1>0 DEF EnabledInv
  <2>4. \A i : Sending(i) => i <= Len(log)
    BY <1>0 DEF Sending, SubmitInv
  <2>5. \A i \in 1 .. Len(log) + 1 : \A q : Sent(q, i)' => i \in 1 .. Len(log) /\ Sent(q, i)
    BY <2>1, <2>2, <2>3, <2>4 DEF Sent, SendKept
  <2>6. \A i \in 1 .. Len(log) : Quiet(i)' <=> Quiet(i)
    BY <2>1, <2>2 DEF Quiet
  <2>7. \A i \in 1 .. base - 1 : i \in 1 .. Len(log)
    BY <2>3
  <2> QED
    BY <2>1, <2>2, <2>5, <2>6, <2>7, <1>0 DEF CoveredInv
<1>14. ASSUME NEW e \in Entries, CommitOwn(e) PROVE CoveredInv'
  <2>1. /\ Len(log') = Len(log) + 1 /\ \A i \in 1 .. Len(log) : log'[i] = log[i]
        /\ SendKept /\ Len(log) \in Nat
    BY <1>14, CommitFacts DEF CommitOwn, logFrame
  <2>2. UNCHANGED <<Cont, base, next_lsn, enabled, done>>
    BY <1>14, QueueSame DEF CommitOwn, logFrame
  <2> SUFFICES ASSUME enabled PROVE CoveredInv'
    BY <2>2 DEF CoveredInv
  <2>3. base \in 1 .. Len(log) + 1 /\ next_lsn \in 1 .. Len(log) + 1
    BY <1>0 DEF EnabledInv
  <2>4. \A i : Sending(i) => i <= Len(log)
    BY <1>0 DEF Sending, SubmitInv
  <2>5. \A i \in 1 .. Len(log) + 1 : \A q : Sent(q, i)' => i \in 1 .. Len(log) /\ Sent(q, i)
    BY <2>1, <2>2, <2>3, <2>4 DEF Sent, SendKept
  <2>6. \A i \in 1 .. Len(log) : Quiet(i)' <=> Quiet(i)
    BY <2>1, <2>2 DEF Quiet
  <2>7. \A i \in 1 .. base - 1 : i \in 1 .. Len(log)
    BY <2>3
  <2> QED
    BY <2>1, <2>2, <2>5, <2>6, <2>7, <1>0 DEF CoveredInv
<1>15. ASSUME Apply PROVE CoveredInv'
  <2>1. UNCHANGED <<enabled, base, log, next_lsn, sub_pc, bc, Cont>>
    BY <1>15, QueueSame DEF Apply
  <2>2. SendKept
    BY <2>1, SendSame
  <2>3. \A i : Quiet(i) => Quiet(i)'
    BY <1>15, <2>1 DEF Quiet, Apply
  <2> QED
    BY <2>1, <2>2, <2>3, <1>0 DEF CoveredInv, SendKept, Sent
<1> QED
  BY <1>1, <1>2, <1>3, <1>4, <1>5, <1>6, <1>7, <1>8, <1>9, <1>10, <1>11, <1>12,
     <1>13, <1>14, <1>15 DEF Next, SubmitStep, QueueStep, ScanStep, RoleStep,
     AdminStep, LogStep

(* What DoneInv speaks of is left alone, and so it is kept.                *)
LEMMA DoneSame ==
  ASSUME DoneInv, UNCHANGED <<done, enabled, base, log, next_lsn, app>>, SendKept,
         rc \in {"leading", "reset"} => rc' \in {"leading", "reset"}
  PROVE  DoneInv'
BY DEF DoneInv, SendKept, Sent

(* Every step preserves DoneInv: nothing takes effect that has not been    *)
(* submitted or applied.                                                   *)
LEMMA DoneStep ==
  IInv /\ Next => DoneInv'
<1> SUFFICES ASSUME IInv, Next PROVE DoneInv'
  OBVIOUS
<1> USE DEF logVars, rcVars, stVars, nextVars, subVars, taskVars, taskQueueVars, envVars
<1>0. /\ TypeOK /\ QueuesOrdered /\ EnabledInv /\ SubmitInv /\ TasksInv /\ DoneInv
      /\ HeadInv /\ RoleInv /\ ScanInv /\ LeaseInv /\ CoveredInv /\ BroadcastInv
  BY DEF IInv
<1>f. QueueFacts /\ QueueFacts' /\ TypeOK'
  BY <1>0, QueueFactsHold, TypeStep
<1>n. /\ next_lsn \in Nat /\ next_scn \in Nat /\ base \in Nat
      /\ \A q \in Queues : Front[q] \in Nat /\ \A x \in Cont[q] : x \in Nat
  BY Numbers
<1>e. \A i \in 1 .. Len(log) : log[i].q \in Queues
  BY <1>0, LogEntry
<1>d. \A i \in done : i \in 1 .. Len(log)
  BY <1>0 DEF DoneInv, TypeOK
<1>1. CASE SubmitTake \/ SubmitCheck \/ FetchNone \/ FetchSkip \/ FetchRetry \/ (\E q
           \in Queues : batch_push_all_task_queue(q)) \/ SubmitEnd \/
           SubmitRevoke \/ (\E q \in Queues : QueueTake(q) \/ QueueEmpty(q)
           \/ QueueWait(q) \/ QueueStart(q) \/ ReplayFail(q) \/ QueuePop(q)
           \/ QueueRevoke(q)) \/ (\E d \in BOOLEAN : ScanStart(d))
  <2>1. SendKept
    BY <1>1, SendKeeps
  <2>2. UNCHANGED <<done, enabled, base, log, next_lsn, rc, app>>
    BY <1>1 DEF SubmitTake, SubmitGoto, SubmitCheck, FetchNone, FetchSkip,
       Fetched, FetchRetry, batch_push_all_task_queue, submit_task_queue,
       Acquired, SubmitEnd, SubmitRevoke, QueueTake, QueueGoto, queueFrame,
       QueueEmpty, QueueWait, HasTop, QueueStart, ReplayFail, QueuePop,
       QueueRevoke, ScanStart, scanFrame
  <2> QED
    BY <2>1, <2>2, <1>0, DoneSame
<1>2. CASE ScanQueue \/ LoseLeader \/ disable \/ block_submit \/ unblock_submit \/
           UnblockPush \/ FsCheck \/ FsPush
  <2>1. SendKept
    BY <1>2, SendKeeps
  <2>2. UNCHANGED <<done, enabled, base, log, next_lsn, rc, app>>
    BY <1>2 DEF ScanQueue, scanFrame, LoseLeader, rcFrame, disable,
       block_submit, unblock_submit, UnblockPush, submit_submit_task, Acquired,
       FsCheck, FsPush
  <2> QED
    BY <2>1, <2>2, <1>0, DoneSame
<1>3. ASSUME FetchPush PROVE DoneInv'
  <2>0. UNCHANGED <<done, enabled, base, log, rc, app>> /\ next_lsn \in Nat
    BY <1>3, <1>n DEF FetchPush, SubmitLog
  <2>1. \A i \in 1 .. Len(log) : Sent(log[i].q, i) => Sent(log[i].q, i)'
    BY <1>3, <2>0, <1>e, PushFacts, FetchFacts DEF Sent, FetchPush, SubmitLog
  <2> QED
    BY <2>0, <2>1, <1>0, <1>d DEF DoneInv
<1>4. ASSUME FetchBroadcast PROVE DoneInv'
  <2>0. UNCHANGED <<done, enabled, base, log, rc, app>> /\ next_lsn \in Nat
    BY <1>4, <1>n DEF FetchBroadcast, SubmitLog
  <2>1. \A i \in 1 .. Len(log) : Sent(log[i].q, i) => Sent(log[i].q, i)'
    BY <1>4, <2>0, <1>e, FetchFacts DEF Sent, FetchBroadcast, SubmitLog
  <2> QED
    BY <2>0, <2>1, <1>0, <1>d DEF DoneInv
<1>5. ASSUME Broadcast PROVE DoneInv'
  <2>0. UNCHANGED <<done, enabled, base, log, rc, app>> /\ next_lsn \in Nat
    BY <1>5, <1>n DEF Broadcast
  <2>1. \A i \in 1 .. Len(log) : Sent(log[i].q, i) => Sent(log[i].q, i)'
    BY <1>5, <2>0, <1>e, BroadcastFacts, SendFacts DEF Sent, Broadcast
  <2> QED
    BY <2>0, <2>1, <1>0, <1>d DEF DoneInv
<1>6. ASSUME BroadcastSignal PROVE DoneInv'
  <2>0. UNCHANGED <<done, enabled, base, log, rc, app>> /\ next_lsn \in Nat
    BY <1>6, <1>n DEF BroadcastSignal
  <2>1. \A i \in 1 .. Len(log) : Sent(log[i].q, i) => Sent(log[i].q, i)'
    BY <1>6, <2>0, <1>e, SignalFacts, SendFacts DEF Sent, BroadcastSignal
  <2> QED
    BY <2>0, <2>1, <1>0, <1>d DEF DoneInv
<1>7. ASSUME SubmitMeta PROVE DoneInv'
  <2>0. UNCHANGED <<done, enabled, base, log, rc, app>> /\ next_lsn \in Nat
    BY <1>7, <1>n DEF SubmitMeta
  <2>1. \A i \in 1 .. Len(log) : Sent(log[i].q, i) => Sent(log[i].q, i)'
    BY <1>7, <2>0, <1>e, <1>n DEF Sent, SubmitMeta, Sending
  <2> QED
    BY <2>0, <2>1, <1>0, <1>d DEF DoneInv
<1>8. ASSUME NEW q \in Queues, ReplayOk(q) PROVE DoneInv'
  <2>0. UNCHANGED <<enabled, base, log, next_lsn, rc, app, sub_pc, bc>>
    BY <1>8 DEF ReplayOk, queueFrame
  <2>1. SendKept
    BY <2>0, SendSame
  <2>2. /\ Head(queue[q]) = Front[q] /\ Front[q] \in 1 .. Len(log) /\ log[Front[q]].q = q
        /\ Front[q] < next_scn \/ (Sending(Front[q]) /\ Reached(q))
        /\ enabled
    BY <1>8, <1>0, TopFacts DEF ReplayOk, HeadInv
  <2>3. Sent(q, Front[q])
    BY <2>2, <1>0, <1>n DEF Sent, EnabledInv
  <2>4. done' = done \union {Front[q]}
    BY <1>8, <2>2 DEF ReplayOk
  <2> QED
    BY <2>0, <2>1, <2>2, <2>3, <2>4, <1>0 DEF DoneInv, SendKept, Sent
<1>9. ASSUME ScanEnd PROVE DoneInv'
  <2>1. SendKept
    BY <1>9, SendKeeps
  <2>2. /\ UNCHANGED <<done, enabled, base, log, next_lsn, app>>
        /\ rc \in {"leading", "reset"} => rc' \in {"leading", "reset"}
    BY <1>9, <1>0 DEF ScanEnd, scanFrame, IdleScan, EnabledInv
  <2> QED
    BY <2>1, <2>2, <1>0, DoneSame
<1>10. ASSUME BecomeLeader PROVE DoneInv'
  <2>1. SendKept
    BY <1>10, SendKeeps
  <2>2. /\ UNCHANGED <<done, enabled, base, log, next_lsn, app>>
        /\ rc \in {"leading", "reset"} => rc' \in {"leading", "reset"}
    BY <1>10, <1>0 DEF BecomeLeader, rcFrame, EnabledInv
  <2> QED
    BY <2>1, <2>2, <1>0, DoneSame
<1>11. ASSUME GiveUp PROVE DoneInv'
  <2>1. SendKept
    BY <1>11, SendKeeps
  <2>2. /\ UNCHANGED <<done, enabled, base, log, next_lsn, app>>
        /\ rc \in {"leading", "reset"} => rc' \in {"leading", "reset"}
    BY <1>11, <1>0 DEF GiveUp, rcFrame, EnabledInv
  <2> QED
    BY <2>1, <2>2, <1>0, DoneSame
<1>12. ASSUME switch_to_leader PROVE DoneInv'
  <2>1. SendKept
    BY <1>12, SendKeeps
  <2>2. /\ UNCHANGED <<done, enabled, base, log, next_lsn, app>>
        /\ rc \in {"leading", "reset"} => rc' \in {"leading", "reset"}
    BY <1>12, <1>0 DEF switch_to_leader, rcFrame, EnabledInv
  <2> QED
    BY <2>1, <2>2, <1>0, DoneSame
<1>13. ASSUME Serve PROVE DoneInv'
  <2>1. SendKept
    BY <1>13, SendKeeps
  <2>2. /\ UNCHANGED <<done, enabled, base, log, next_lsn, app>>
        /\ rc \in {"leading", "reset"} => rc' \in {"leading", "reset"}
    BY <1>13, <1>0 DEF Serve, rcFrame, EnabledInv
  <2> QED
    BY <2>1, <2>2, <1>0, DoneSame
<1>14. ASSUME StepDown PROVE DoneInv'
  <2>1. SendKept
    BY <1>14, SendKeeps
  <2>2. /\ UNCHANGED <<done, enabled, base, log, next_lsn, app>>
        /\ rc \in {"leading", "reset"} => rc' \in {"leading", "reset"}
    BY <1>14, <1>0 DEF StepDown, rcFrame, EnabledInv
  <2> QED
    BY <2>1, <2>2, <1>0, DoneSame
<1>15. ASSUME reset_iterator PROVE DoneInv'
  <2>0. UNCHANGED <<done, enabled, base, log, app>> /\ next_lsn' = Larger(next_lsn, app + 1)
    BY <1>15 DEF reset_iterator, rcFrame
  <2>1. \A i : ~Sending(i)
    BY <1>15 DEF reset_iterator, Unlocked, SubmitReads, Sending
  <2>2. \A i \in 1 .. Len(log) : i < next_lsn \/ i <= app => i < next_lsn'
    BY <2>0, <1>n, <1>0 DEF Larger, TypeOK
  <2> QED
    BY <2>0, <2>1, <2>2, <1>0, <1>d DEF DoneInv, Sent
<1>16. ASSUME FollowerRole PROVE DoneInv'
  <2>1. SendKept
    BY <1>16, SendKeeps
  <2>2. /\ UNCHANGED <<done, enabled, base, log, next_lsn, app>>
        /\ rc \in {"leading", "reset"} => rc' \in {"leading", "reset"}
    BY <1>16, <1>0 DEF FollowerRole, rcFrame, EnabledInv
  <2> QED
    BY <2>1, <2>2, <1>0, DoneSame
<1>17. ASSUME FollowerPush PROVE DoneInv'
  <2>1. SendKept
    BY <1>17, SendKeeps
  <2>2. /\ UNCHANGED <<done, enabled, base, log, next_lsn, app>>
        /\ rc \in {"leading", "reset"} => rc' \in {"leading", "reset"}
    BY <1>17, <1>0 DEF FollowerPush, submit_submit_task, Acquired, rcFrame, EnabledInv
  <2> QED
    BY <2>1, <2>2, <1>0, DoneSame
<1>18. ASSUME NEW scn \in 1 .. Len(log) + 1, NEW lsn \in 1 .. scn, enable(lsn, scn)
       PROVE  DoneInv'
  BY <1>18, <1>0 DEF enable, submit_submit_task, Acquired, DoneInv, TypeOK
<1>19. ASSUME disable_ PROVE DoneInv'
  BY <1>19, <1>0 DEF disable_, DoneInv
<1>20. ASSUME NEW e \in Entries, Commit(e) PROVE DoneInv'
  <2>1. /\ Len(log') = Len(log) + 1 /\ \A i \in 1 .. Len(log) : log'[i] = log[i]
        /\ SendKept /\ Len(log) \in Nat
    BY <1>20, CommitFacts DEF Commit, logFrame
  <2>2. UNCHANGED <<base, next_lsn, enabled, done, rc, app>>
    BY <1>20 DEF Commit, logFrame
  <2>3. \A i \in 1 .. Len(log) : Sent(log[i].q, i) => Sent(log[i].q, i)'
    BY <2>1, <2>2 DEF Sent, SendKept
  <2> QED
    BY <2>1, <2>2, <2>3, <1>0, <1>d DEF DoneInv
<1>21. ASSUME NEW e \in Entries, CommitOwn(e) PROVE DoneInv'
  <2>1. /\ Len(log') = Len(log) + 1 /\ \A i \in 1 .. Len(log) : log'[i] = log[i]
        /\ SendKept /\ Len(log) \in Nat
    BY <1>21, CommitFacts DEF CommitOwn, logFrame
  <2>2. UNCHANGED <<base, next_lsn, enabled, done, rc, app>>
    BY <1>21 DEF CommitOwn, logFrame
  <2>3. \A i \in 1 .. Len(log) : Sent(log[i].q, i) => Sent(log[i].q, i)'
    BY <2>1, <2>2 DEF Sent, SendKept
  <2> QED
    BY <2>1, <2>2, <2>3, <1>0, <1>d DEF DoneInv
<1>22. ASSUME Apply PROVE DoneInv'
  <2>0. UNCHANGED <<enabled, base, log, next_lsn, rc, sub_pc, bc>> /\ rc = "leading"
    BY <1>22 DEF Apply
  <2>1. SendKept
    BY <2>0, SendSame
  <2>2. app' \in 1 .. Len(log) /\ app < app' /\ app \in Nat /\ app' \in Nat
    BY <1>22, <1>0, <1>f DEF Apply, Larger, RoleInv, TypeOK
  <2>3. done' \subseteq done \union {app'}
    BY <1>22 DEF Apply
  <2> QED
    BY <2>0, <2>1, <2>2, <2>3, <1>0, <1>d DEF DoneInv, SendKept, Sent
<1> QED
  BY <1>1, <1>2, <1>3, <1>4, <1>5, <1>6, <1>7, <1>8, <1>9, <1>10, <1>11, <1>12,
     <1>13, <1>14, <1>15, <1>16, <1>17, <1>18, <1>19, <1>20, <1>21, <1>22 DEF
     Next, SubmitStep, QueueStep, ScanStep, RoleStep, AdminStep, LogStep

(* What HeadInv speaks of is left alone, and so it is kept.                *)
LEMMA HeadSame ==
  ASSUME HeadInv, UNCHANGED <<done, log, Cont, Front>>, RunKept
  PROVE  HeadInv'
BY DEF HeadInv, RunKept

(* The log to be sent next, or to this queue next, has not taken effect.   *)
LEMMA NotYetDone ==
  ASSUME IInv
  PROVE  /\ Fetched /\ ~need_skip(next_lsn) => next_lsn \notin done
         /\ sub_pc = "bcast" /\ log[next_lsn].q = bc => next_lsn \notin done
<1>0. TypeOK /\ DoneInv /\ RoleInv /\ EnabledInv
  BY DEF IInv
<1>n. next_lsn \in Nat /\ base \in Nat
  BY Numbers
<1>1. ASSUME Fetched, ~need_skip(next_lsn) PROVE next_lsn \notin done
  <2>1. enabled /\ ~Sending(next_lsn)
    BY <1>1, FetchFacts
  <2>2. rc \notin {"leading", "reset"}
    BY <1>1, <1>0 DEF Fetched, RoleInv
  <2> QED
    BY <1>1, <2>1, <2>2, <1>0, <1>n DEF DoneInv, Sent, need_skip
<1>2. ASSUME sub_pc = "bcast", log[next_lsn].q = bc PROVE next_lsn \notin done
  <2>1. enabled /\ base <= next_lsn /\ bc \in Queues
    BY <1>2, SendFacts
  <2>2. ~Reached(bc)
    BY <1>2, <2>1 DEF Reached, Queues
  <2>3. rc \notin {"leading", "reset"}
    BY <1>2, <1>0 DEF RoleInv
  <2> QED
    BY <1>2, <2>1, <2>2, <2>3, <1>0, <1>n DEF DoneInv, Sent
<1> QED
  BY <1>1, <1>2

(* Every step preserves HeadInv.                                           *)
LEMMA HeadStep ==
  IInv /\ Next => HeadInv'
<1> SUFFICES ASSUME IInv, Next PROVE HeadInv'
  OBVIOUS
<1> USE DEF logVars, rcVars, stVars, nextVars, subVars, taskVars, taskQueueVars, envVars
<1>0. /\ TypeOK /\ QueuesOrdered /\ EnabledInv /\ SubmitInv /\ TasksInv /\ DoneInv
      /\ HeadInv /\ RoleInv /\ ScanInv /\ LeaseInv /\ CoveredInv /\ BroadcastInv
  BY DEF IInv
<1>f. QueueFacts /\ QueueFacts' /\ TypeOK'
  BY <1>0, QueueFactsHold, TypeStep
<1>n. /\ next_lsn \in Nat /\ next_scn \in Nat /\ base \in Nat
      /\ \A q \in Queues : Front[q] \in Nat /\ \A x \in Cont[q] : x \in Nat
  BY Numbers
<1>e. \A i \in 1 .. Len(log) : log[i].q \in Queues
  BY <1>0, LogEntry
<1>d. \A i \in done : i \in 1 .. Len(log)
  BY <1>0 DEF DoneInv, TypeOK
<1>1. CASE SubmitTake \/ SubmitCheck \/ FetchNone \/ FetchSkip \/ FetchRetry \/
           FetchBroadcast \/ BroadcastSignal \/ SubmitMeta \/ (\E q \in
           Queues : batch_push_all_task_queue(q)) \/ SubmitEnd \/
           SubmitRevoke \/ (\E q \in Queues : QueueTake(q) \/ QueueEmpty(q)
           \/ QueueWait(q) \/ QueueRevoke(q)) \/ (\E d \in BOOLEAN :
           ScanStart(d))
  <2>1. RunKept
    BY <1>1, RunKeeps
  <2>2. UNCHANGED <<done, log, queue>>
    BY <1>1 DEF SubmitTake, SubmitGoto, SubmitCheck, FetchNone, FetchSkip,
       Fetched, FetchRetry, FetchBroadcast, SubmitLog, BroadcastSignal,
       submit_task_queue, Acquired, SubmitMeta, batch_push_all_task_queue,
       SubmitEnd, SubmitRevoke, QueueTake, QueueGoto, queueFrame, QueueEmpty,
       QueueWait, HasTop, QueueRevoke, ScanStart, scanFrame
  <2> QED
    BY <2>1, <2>2, <1>0, HeadSame, QueueSame
<1>2. CASE ScanQueue \/ ScanEnd \/ BecomeLeader \/ LoseLeader \/ GiveUp \/
           switch_to_leader \/ Serve \/ StepDown \/ reset_iterator \/
           FollowerRole \/ FollowerPush \/ disable \/ block_submit \/
           unblock_submit \/ UnblockPush \/ FsCheck
  <2>1. RunKept
    BY <1>2, RunKeeps
  <2>2. UNCHANGED <<done, log, queue>>
    BY <1>2 DEF ScanQueue, scanFrame, ScanEnd, IdleScan, BecomeLeader, rcFrame,
       LoseLeader, GiveUp, switch_to_leader, Serve, StepDown, reset_iterator,
       Larger, FollowerRole, FollowerPush, submit_submit_task, Acquired,
       disable, block_submit, unblock_submit, UnblockPush, FsCheck
  <2> QED
    BY <2>1, <2>2, <1>0, HeadSame, QueueSame
<1>3. CASE FsPush
  <2>1. RunKept
    BY <1>3, RunKeeps
  <2>2. UNCHANGED <<done, log, queue>>
    BY <1>3 DEF FsPush, submit_submit_task, Acquired
  <2> QED
    BY <2>1, <2>2, <1>0, HeadSame, QueueSame
<1>4. ASSUME FetchPush PROVE HeadInv'
  <2>0. UNCHANGED <<done, log, pc>>
    BY <1>4 DEF FetchPush, SubmitLog
  <2>1. /\ Cont' = [Cont EXCEPT ![log[next_lsn].q] = @ \union {next_lsn}]
        /\ Front' = [Front EXCEPT ![log[next_lsn].q] = IF @ = 0 THEN next_lsn ELSE @]
        /\ log[next_lsn].q \in Queues /\ next_lsn # 0
    BY <1>4, PushFacts, FetchFacts
  <2>2. log[next_lsn].q = log[next_lsn].q => next_lsn \notin done
    BY <1>4, NotYetDone DEF FetchPush, SubmitLog
  <2>3. \A r \in Queues : Front[r] # 0 => Front'[r] = Front[r]
    BY <2>1, <1>f DEF QueueFacts
  <2>4. ASSUME NEW r \in Queues, NEW x \in Cont'[r], x \in done, log[x].q = r
        PROVE  pc[r] = "pop" /\ x = Front'[r]
    <3>1. x \in Cont[r] \/ (r = log[next_lsn].q /\ x = next_lsn)
      BY <2>1, <1>f DEF QueueFacts
    <3>2. x \in Cont[r]
      BY <3>1, <2>2, <2>4
    <3>3. Front[r] # 0
      BY <3>2, <1>f DEF QueueFacts
    <3> QED
      BY <3>2, <3>3, <2>3, <2>4, <1>0 DEF HeadInv
  <2> QED
    BY <2>0, <2>3, <2>4, <1>0 DEF HeadInv
<1>5. ASSUME Broadcast PROVE HeadInv'
  <2>0. UNCHANGED <<done, log, pc>>
    BY <1>5 DEF Broadcast
  <2>1. /\ Cont' = [Cont EXCEPT ![bc] = @ \union {next_lsn}]
        /\ Front' = [Front EXCEPT ![bc] = IF @ = 0 THEN next_lsn ELSE @]
        /\ bc \in Queues /\ next_lsn # 0
    BY <1>5, BroadcastFacts, SendFacts
  <2>2. log[next_lsn].q = bc => next_lsn \notin done
    BY <1>5, NotYetDone DEF Broadcast
  <2>3. \A r \in Queues : Front[r] # 0 => Front'[r] = Front[r]
    BY <2>1, <1>f DEF QueueFacts
  <2>4. ASSUME NEW r \in Queues, NEW x \in Cont'[r], x \in done, log[x].q = r
        PROVE  pc[r] = "pop" /\ x = Front'[r]
    <3>1. x \in Cont[r] \/ (r = bc /\ x = next_lsn)
      BY <2>1, <1>f DEF QueueFacts
    <3>2. x \in Cont[r]
      BY <3>1, <2>2, <2>4
    <3>3. Front[r] # 0
      BY <3>2, <1>f DEF QueueFacts
    <3> QED
      BY <3>2, <3>3, <2>3, <2>4, <1>0 DEF HeadInv
  <2> QED
    BY <2>0, <2>3, <2>4, <1>0 DEF HeadInv
<1>6. ASSUME NEW q \in Queues, QueueStart(q) PROVE HeadInv'
  <2>0. UNCHANGED <<log, Cont, Front>>
    BY <1>6, QueueSame DEF QueueStart, queueFrame
  <2>1. pc[q] # "pop" /\ \A r \in Queues : r # q => pc'[r] = pc[r]
    BY <1>6, <1>0 DEF QueueStart, QueueGoto, HasTop, TypeOK
  <2>2. Front[q] # 0 /\ Head(queue[q]) = Front[q]
    BY <1>6, TopFacts DEF QueueStart
  <2>3. pc'[q] = IF log[Front[q]].q = q THEN "replay" ELSE "pop"
    BY <1>6, <2>2, <1>0 DEF QueueStart, QueueGoto, TypeOK
  <2>4. done' = done
    BY <1>6 DEF QueueStart
  <2> QED
    BY <2>0, <2>1, <2>2, <2>3, <2>4, <1>0 DEF HeadInv
<1>7. ASSUME NEW q \in Queues, ReplayOk(q) PROVE HeadInv'
  <2>0. UNCHANGED <<log, Cont, Front>>
    BY <1>7, QueueSame DEF ReplayOk, queueFrame
  <2>1. pc[q] # "pop" /\ \A r \in Queues : r # q => pc'[r] = pc[r]
    BY <1>7, <1>0 DEF ReplayOk, QueueGoto, HasTop, TypeOK
  <2>2. Front[q] # 0 /\ Head(queue[q]) = Front[q] /\ log[Front[q]].q = q
    BY <1>7, TopFacts, <1>0 DEF ReplayOk, HeadInv
  <2>3. pc'[q] = "pop"
    BY <1>7, <1>0 DEF ReplayOk, QueueGoto, TypeOK
  <2>4. done' = done \union {Front[q]}
    BY <1>7, <2>2 DEF ReplayOk
  <2> QED
    BY <2>0, <2>1, <2>2, <2>3, <2>4, <1>0 DEF HeadInv
<1>8. ASSUME NEW q \in Queues, ReplayFail(q) PROVE HeadInv'
  <2>0. UNCHANGED <<log, Cont, Front>>
    BY <1>8, QueueSame DEF ReplayFail, queueFrame
  <2>1. pc[q] # "pop" /\ \A r \in Queues : r # q => pc'[r] = pc[r]
    BY <1>8, <1>0 DEF ReplayFail, QueueGoto, HasTop, TypeOK
  <2>3. pc'[q] = "pool"
    BY <1>8, <1>0 DEF ReplayFail, QueueGoto, TypeOK
  <2>4. done' = done
    BY <1>8 DEF ReplayFail
  <2> QED
    BY <2>0, <2>1, <2>3, <2>4, <1>0 DEF HeadInv
<1>9. ASSUME NEW q \in Queues, QueuePop(q) PROVE HeadInv'
  <2>0. UNCHANGED <<done, log>>
    BY <1>9 DEF QueuePop, queueFrame
  <2>1. \A r \in Queues : Cont'[r] = IF r = q THEN Cont[q] \ {Front[q]} ELSE Cont[r]
    BY <1>9, PopFacts, <1>f DEF QueueFacts
  <2> QED
    BY <1>9, <2>0, <2>1, PopFacts, <1>0 DEF HeadInv
<1>10. ASSUME NEW scn \in 1 .. Len(log) + 1, NEW lsn \in 1 .. scn, enable(lsn, scn)
       PROVE  HeadInv'
  <2>1. /\ \A q \in Queues : Cont'[q] = {}
        /\ \A q \in Queues : pc'[q] \notin {"replay", "pop"}
    BY <1>10, <1>0, <1>f, QueueSame DEF enable, EnabledInv, QueueFacts
  <2> QED
    BY <2>1 DEF HeadInv
<1>11. ASSUME disable_ PROVE HeadInv'
  <2>1. /\ \A q \in Queues : Cont'[q] = {}
        /\ \A q \in Queues : pc'[q] \notin {"replay", "pop"}
    BY <1>11, DropFacts DEF disable_, Unlocked
  <2> QED
    BY <2>1 DEF HeadInv
<1>12. ASSUME NEW e \in Entries, Commit(e) PROVE HeadInv'
  <2>1. \A i \in 1 .. Len(log) : log'[i] = log[i]
    BY <1>12, CommitFacts DEF Commit, logFrame
  <2>2. UNCHANGED <<Cont, Front, done, pc>>
    BY <1>12, QueueSame DEF Commit, logFrame
  <2>3. \A q \in Queues : \A x \in Cont[q] : x \in 1 .. Len(log)
    BY <1>0 DEF TasksInv
  <2>4. \A q \in Queues : Front[q] # 0 => Front[q] \in 1 .. Len(log)
    BY <2>3, <1>f DEF QueueFacts
  <2> QED
    BY <2>1, <2>2, <2>3, <2>4, <1>0 DEF HeadInv
<1>13. ASSUME NEW e \in Entries, CommitOwn(e) PROVE HeadInv'
  <2>1. \A i \in 1 .. Len(log) : log'[i] = log[i]
    BY <1>13, CommitFacts DEF CommitOwn, logFrame
  <2>2. UNCHANGED <<Cont, Front, done, pc>>
    BY <1>13, QueueSame DEF CommitOwn, logFrame
  <2>3. \A q \in Queues : \A x \in Cont[q] : x \in 1 .. Len(log)
    BY <1>0 DEF TasksInv
  <2>4. \A q \in Queues : Front[q] # 0 => Front[q] \in 1 .. Len(log)
    BY <2>3, <1>f DEF QueueFacts
  <2> QED
    BY <2>1, <2>2, <2>3, <2>4, <1>0 DEF HeadInv
<1>14. ASSUME Apply PROVE HeadInv'
  <2>0. UNCHANGED <<log, Cont, Front, pc>> /\ done \subseteq done'
    BY <1>14, QueueSame DEF Apply
  <2>1. mine > end_lsn
    BY <1>14, <1>0 DEF Apply, Larger, TypeOK
  <2>2. \A q \in Queues : Cont[q] = {}
    BY <1>14, <2>1, <1>0, <1>f DEF Apply, RoleInv, QueueFacts
  <2> QED
    BY <2>0, <2>2, <1>0 DEF HeadInv
<1> QED
  BY <1>1, <1>2, <1>3, <1>4, <1>5, <1>6, <1>7, <1>8, <1>9, <1>10, <1>11, <1>12,
     <1>13, <1>14 DEF Next, SubmitStep, QueueStep, ScanStep, RoleStep,
     AdminStep, LogStep

(* What BroadcastInv speaks of is left alone, and so it is kept.           *)
LEMMA BroadcastSame ==
  ASSUME BroadcastInv, UNCHANGED <<next_lsn, log, Cont, Front>>, SendKept
  PROVE  BroadcastInv'
BY DEF BroadcastInv, SendKept, Sent

(* Every step preserves BroadcastInv: no queue passes a pre-barrier log    *)
(* without its copy.                                                       *)
LEMMA BroadcastStep ==
  IInv /\ Next => BroadcastInv'
<1> SUFFICES ASSUME IInv, Next PROVE BroadcastInv'
  OBVIOUS
<1> USE DEF logVars, rcVars, stVars, nextVars, subVars, taskVars, taskQueueVars, envVars
<1>0. /\ TypeOK /\ QueuesOrdered /\ EnabledInv /\ SubmitInv /\ TasksInv /\ DoneInv
      /\ HeadInv /\ RoleInv /\ ScanInv /\ LeaseInv /\ CoveredInv /\ BroadcastInv
  BY DEF IInv
<1>f. QueueFacts /\ QueueFacts' /\ TypeOK'
  BY <1>0, QueueFactsHold, TypeStep
<1>n. /\ next_lsn \in Nat /\ next_scn \in Nat /\ base \in Nat
      /\ \A q \in Queues : Front[q] \in Nat /\ \A x \in Cont[q] : x \in Nat
  BY Numbers
<1>e. \A i \in 1 .. Len(log) : log[i].q \in Queues
  BY <1>0, LogEntry
<1>d. \A i \in done : i \in 1 .. Len(log)
  BY <1>0 DEF DoneInv, TypeOK
<1>1. CASE SubmitTake \/ SubmitCheck \/ FetchNone \/ FetchSkip \/ FetchRetry \/ (\E q
           \in Queues : batch_push_all_task_queue(q)) \/ SubmitEnd \/
           SubmitRevoke \/ (\E q \in Queues : QueueTake(q) \/ QueueEmpty(q)
           \/ QueueWait(q) \/ QueueStart(q) \/ ReplayOk(q) \/ ReplayFail(q)
           \/ QueueRevoke(q)) \/ (\E d \in BOOLEAN : ScanStart(d))
  <2>1. SendKept
    BY <1>1, SendKeeps
  <2>2. UNCHANGED <<next_lsn, log, queue>>
    BY <1>1 DEF SubmitTake, SubmitGoto, SubmitCheck, FetchNone, FetchSkip,
       Fetched, FetchRetry, batch_push_all_task_queue, submit_task_queue,
       Acquired, SubmitEnd, SubmitRevoke, QueueTake, QueueGoto, queueFrame,
       QueueEmpty, QueueWait, HasTop, QueueStart, ReplayOk, ReplayFail,
       QueueRevoke, ScanStart, scanFrame
  <2> QED
    BY <2>1, <2>2, <1>0, BroadcastSame, QueueSame
<1>2. CASE ScanQueue \/ ScanEnd \/ BecomeLeader \/ LoseLeader \/ GiveUp \/
           switch_to_leader \/ Serve \/ StepDown \/ FollowerRole \/
           FollowerPush \/ disable \/ block_submit \/ unblock_submit \/
           UnblockPush \/ Apply \/ FsCheck
  <2>1. SendKept
    BY <1>2, SendKeeps
  <2>2. UNCHANGED <<next_lsn, log, queue>>
    BY <1>2 DEF ScanQueue, scanFrame, ScanEnd, IdleScan, BecomeLeader, rcFrame,
       LoseLeader, GiveUp, switch_to_leader, Serve, StepDown, FollowerRole,
       FollowerPush, submit_submit_task, Acquired, disable, block_submit,
       unblock_submit, UnblockPush, Apply, Larger, FsCheck
  <2> QED
    BY <2>1, <2>2, <1>0, BroadcastSame, QueueSame
<1>3. CASE FsPush
  <2>1. SendKept
    BY <1>3, SendKeeps
  <2>2. UNCHANGED <<next_lsn, log, queue>>
    BY <1>3 DEF FsPush, submit_submit_task, Acquired
  <2> QED
    BY <2>1, <2>2, <1>0, BroadcastSame, QueueSame
<1>4. ASSUME FetchPush PROVE BroadcastInv'
  <2>0. UNCHANGED <<log, next_lsn>>
    BY <1>4 DEF FetchPush, SubmitLog
  <2>c. \A r \in Queues : Cont[r] \subseteq Cont'[r]
    BY <1>4, PushFacts, <1>f DEF QueueFacts
  <2>1. \A r \in Queues : IF Front[r] = 0 THEN Front'[r] \in {0, next_lsn}
                                          ELSE Front'[r] = Front[r]
    BY <1>4, PushFacts, <1>f DEF QueueFacts
  <2>2. \A r \in Queues : \A i \in 1 .. Len(log) : Sent(r, i)' =>
           /\ ~(next_lsn < i)
           /\ Sent(r, i) \/ i = next_lsn
    BY <1>4, <2>0, <1>n, PushFacts, FetchFacts DEF Sent
  <2> QED
    BY <1>4, <2>0, <2>c, <2>1, <2>2, <1>0 DEF BroadcastInv, FetchPush
<1>5. ASSUME FetchBroadcast PROVE BroadcastInv'
  <2>0. UNCHANGED <<log, next_lsn, Cont, Front>>
    BY <1>5, QueueSame DEF FetchBroadcast, SubmitLog
  <2>1. \A q \in Queues : ~Reached(q)'
    BY <1>5 DEF FetchBroadcast, SubmitGoto, Reached, Queues
  <2> QED
    BY <2>0, <2>1, <1>0 DEF BroadcastInv, Sent
<1>6. ASSUME Broadcast PROVE BroadcastInv'
  <2>0. UNCHANGED <<log, next_lsn>>
    BY <1>6 DEF Broadcast
  <2>c. \A r \in Queues : Cont[r] \subseteq Cont'[r]
    BY <1>6, BroadcastFacts, <1>f DEF QueueFacts
  <2>1. \A r \in Queues : IF Front[r] = 0 THEN Front'[r] \in {0, next_lsn}
                                          ELSE Front'[r] = Front[r]
    BY <1>6, BroadcastFacts, <1>f DEF QueueFacts
  <2>2. \A r \in Queues : \A i \in 1 .. Len(log) : Sent(r, i)' =>
           /\ ~(next_lsn < i)
           /\ Sent(r, i) \/ (i = next_lsn /\ i \in Cont'[r])
    BY <1>6, <2>0, <1>n, BroadcastFacts, SendFacts,<1>f DEF QueueFacts, Sent
  <2> QED
    BY <1>6, <2>0, <2>c, <2>1, <2>2, <1>0 DEF BroadcastInv
<1>7. ASSUME BroadcastSignal PROVE BroadcastInv'
  <2>0. UNCHANGED <<log, next_lsn, Cont, Front>>
    BY <1>7, QueueSame DEF BroadcastSignal
  <2>1. \A q \in Queues : \A i \in 1 .. Len(log) : Sent(q, i)' => Sent(q, i)
    BY <1>7, <2>0, SignalFacts, SendFacts DEF Sent
  <2> QED
    BY <2>0, <2>1, <1>0 DEF BroadcastInv
<1>8. ASSUME SubmitMeta PROVE BroadcastInv'
  <2>0. UNCHANGED <<log, Cont, Front>> /\ next_lsn' = next_lsn + 1
    BY <1>8, QueueSame DEF SubmitMeta
  <2>1. \A i : ~Sending(i)'
    BY <1>8 DEF SubmitMeta, SubmitGoto, Sending
  <2>2. \A q \in Queues : \A i \in 1 .. Len(log) : Sent(q, i)' => i < next_lsn \/ i = next_lsn
    BY <2>0, <2>1, <1>n DEF Sent
  <2>3. \A q \in Queues : \A i \in 1 .. Len(log) :
          i = next_lsn => i < base \/ log[i].pad \/ Sent(q, i)
    BY <1>8 DEF SubmitMeta, Sent, Sending, Reached, need_skip
  <2>4. \A q \in Queues : Front[q] # 0 => base <= Front[q]
    BY <1>0, <1>f DEF TasksInv, QueueFacts
  <2>5. \A q \in Queues : \A i \in 1 .. Len(log) :
          Sent(q, i)' /\ Front[q] # 0 /\ Front[q] < i => log[i].pad \/ Sent(q, i)
    BY <2>2, <2>3, <2>4, <1>n DEF Sent
  <2> QED
    BY <2>0, <2>5, <1>0 DEF BroadcastInv
<1>9. ASSUME NEW q \in Queues, QueuePop(q) PROVE BroadcastInv'
  <2>0. UNCHANGED <<log, base, next_lsn, sub_pc, bc>>
    BY <1>9 DEF QueuePop, queueFrame
  <2>1. SendKept
    BY <2>0, SendSame
  <2>2. \A r \in Queues : \A i \in 1 .. Len(log) : Sent(r, i)' <=> Sent(r, i)
    BY <2>0, <2>1 DEF SendKept, Sent
  <2> SUFFICES ASSUME NEW r \in Queues, NEW i \in 1 .. Len(log), log[i].pre, ~log[i].pad,
                      Sent(r, i), Front'[r] # 0, Front'[r] < i
               PROVE  i \in Cont'[r]
    BY <2>0, <2>2 DEF BroadcastInv
  <2>3. CASE r # q
    BY <1>9, <2>3, PopFacts, <1>f, <1>0 DEF QueueFacts, BroadcastInv
  <2>4. CASE r = q
    <3>1. Front'[q] \in Cont[q] /\ Front[q] < Front'[q] /\ Front[q] \in Nat /\ Front'[q] \in Nat
      BY <1>9, <2>4, PopFacts, <1>n
    <3>2. Front[q] # 0
      BY <1>9, TopFacts DEF QueuePop
    <3>3. i \in Cont[q] /\ i # Front[q]
      BY <2>4, <3>1, <3>2, <1>0 DEF BroadcastInv
    <3> QED
      BY <1>9, <2>4, <3>3, PopFacts, <1>f DEF QueueFacts
  <2> QED
    BY <2>3, <2>4
<1>10. ASSUME reset_iterator PROVE BroadcastInv'
  <2>0. UNCHANGED <<log, Cont, Front>> /\ next_lsn' = Larger(next_lsn, app + 1)
    BY <1>10, QueueSame DEF reset_iterator, rcFrame
  <2>1. \A i : ~Sending(i) /\ ~Sending(i)'
    BY <1>10 DEF reset_iterator, rcFrame, Unlocked, SubmitReads, Sending
  <2>2. CASE mine > end_lsn
    <3>1. \A q \in Queues : Front[q] = 0
      BY <1>10, <2>2, <1>0 DEF reset_iterator, RoleInv
    <3> QED
      BY <3>1, <2>0 DEF BroadcastInv
  <2>3. CASE ~(mine > end_lsn)
    <3>1. next_lsn > end_lsn /\ app <= mine
      BY <1>10, <1>0 DEF reset_iterator, RoleInv
    <3>2. next_lsn' = next_lsn
      BY <3>1, <2>0, <2>3, <1>0 DEF TypeOK, Larger
    <3> QED
      BY <3>2, <2>0, <2>1, <1>0 DEF BroadcastInv, Sent
  <2> QED
    BY <2>2, <2>3
<1>11. ASSUME NEW scn \in 1 .. Len(log) + 1, NEW lsn \in 1 .. scn, enable(lsn, scn)
       PROVE  BroadcastInv'
  <2>1. \A q \in Queues : Front'[q] = 0
    BY <1>11, <1>0, QueueSame DEF enable, EnabledInv
  <2> QED
    BY <2>1 DEF BroadcastInv
<1>12. ASSUME disable_ PROVE BroadcastInv'
  BY <1>12, DropFacts DEF disable_, BroadcastInv
<1>13. ASSUME NEW e \in Entries, Commit(e) PROVE BroadcastInv'
  <2>1. /\ Len(log') = Len(log) + 1 /\ \A i \in 1 .. Len(log) : log'[i] = log[i]
        /\ SendKept /\ Len(log) \in Nat
    BY <1>13, CommitFacts DEF Commit, logFrame
  <2>2. UNCHANGED <<Cont, Front, base, next_lsn, enabled, done>>
    BY <1>13, QueueSame DEF Commit, logFrame
  <2>3. \A q \in Queues : Front[q] # 0 => enabled
    BY <1>0 DEF EnabledInv
  <2>4. enabled => next_lsn \in 1 .. Len(log) + 1
    BY <1>0 DEF EnabledInv
  <2>5. \A i : Sending(i) => i <= Len(log)
    BY <1>0 DEF Sending, SubmitInv
  <2>6. \A i \in 1 .. Len(log) + 1 : \A q :
          enabled /\ Sent(q, i)' => i \in 1 .. Len(log) /\ Sent(q, i)
    BY <2>1, <2>2, <2>4, <2>5 DEF Sent, SendKept
  <2> QED
    BY <2>1, <2>2, <2>3, <2>6, <1>0 DEF BroadcastInv
<1>14. ASSUME NEW e \in Entries, CommitOwn(e) PROVE BroadcastInv'
  <2>1. /\ Len(log') = Len(log) + 1 /\ \A i \in 1 .. Len(log) : log'[i] = log[i]
        /\ SendKept /\ Len(log) \in Nat
    BY <1>14, CommitFacts DEF CommitOwn, logFrame
  <2>2. UNCHANGED <<Cont, Front, base, next_lsn, enabled, done>>
    BY <1>14, QueueSame DEF CommitOwn, logFrame
  <2>3. \A q \in Queues : Front[q] # 0 => enabled
    BY <1>0 DEF EnabledInv
  <2>4. enabled => next_lsn \in 1 .. Len(log) + 1
    BY <1>0 DEF EnabledInv
  <2>5. \A i : Sending(i) => i <= Len(log)
    BY <1>0 DEF Sending, SubmitInv
  <2>6. \A i \in 1 .. Len(log) + 1 : \A q :
          enabled /\ Sent(q, i)' => i \in 1 .. Len(log) /\ Sent(q, i)
    BY <2>1, <2>2, <2>4, <2>5 DEF Sent, SendKept
  <2> QED
    BY <2>1, <2>2, <2>3, <2>6, <1>0 DEF BroadcastInv
<1> QED
  BY <1>1, <1>2, <1>3, <1>4, <1>5, <1>6, <1>7, <1>8, <1>9, <1>10, <1>11, <1>12,
     <1>13, <1>14 DEF Next, SubmitStep, QueueStep, ScanStep, RoleStep,
     AdminStep, LogStep

(* RefInv: the references to the buffer of a pre-barrier log.              *)
LEMMA HoldersSame ==
  ASSUME UNCHANGED <<Cont, Front>>, SendKept, RunKept
  PROVE  \A i : Holders(i)' = Holders(i)
BY DEF Holders, SendKept, RunKept

(* The queues that hold a reference are finitely many.                     *)
LEMMA HoldersFinite ==
  \A i : IsFiniteSet(Holders(i)) /\ Cardinality(Holders(i)) \in Nat
<1>1. IsFiniteSet(Queues)
  BY FS_Interval, NQAssumption DEF Queues
<1>2. \A i : Holders(i) \subseteq Queues
  BY DEF Holders
<1> QED
  BY <1>1, <1>2, FS_Subset, FS_CardinalityType

(* The holders of the pre-barrier logs, and the counts, do not change.     *)
LEMMA RefSame ==
  ASSUME RefInv, UNCHANGED <<log, ref>>,
         \A i \in 1 .. Len(log) : log[i].pre => Holders(i)' = Holders(i)
  PROVE  RefInv'
BY DEF RefInv

(* Every step preserves RefInv: the reference count of a pre-barrier log   *)
(* is the number of queues that have not come to their copy.               *)
LEMMA RefStep ==
  IInv /\ Next => RefInv'
<1> SUFFICES ASSUME IInv, Next PROVE RefInv'
  OBVIOUS
<1> USE DEF logVars, rcVars, stVars, nextVars, subVars, taskVars, taskQueueVars, envVars
<1>0. /\ TypeOK /\ QueuesOrdered /\ EnabledInv /\ SubmitInv /\ TasksInv /\ DoneInv
      /\ HeadInv /\ RoleInv /\ RefInv /\ PendingInv
  BY DEF IInv
<1>f. QueueFacts /\ QueueFacts' /\ TypeOK'
  BY <1>0, QueueFactsHold, TypeStep
<1>n. /\ next_lsn \in Nat /\ next_scn \in Nat /\ base \in Nat
      /\ \A q \in Queues : Front[q] \in Nat /\ \A x \in Cont[q] : x \in Nat
  BY Numbers
<1>e. \A i \in 1 .. Len(log) : log[i].q \in Queues /\ i \in 1 .. MaxLog
  BY <1>0, LogEntry
<1>t. ref \in [1 .. MaxLog -> Int]
  BY <1>0 DEF TypeOK
<1>1. CASE SubmitTake \/ SubmitCheck \/ FetchNone \/ FetchSkip \/ FetchRetry \/ (\E q
           \in Queues : batch_push_all_task_queue(q)) \/ SubmitEnd \/
           SubmitRevoke \/ (\E q \in Queues : QueueTake(q) \/ QueueEmpty(q)
           \/ QueueWait(q) \/ QueueRevoke(q)) \/ (\E d \in BOOLEAN :
           ScanStart(d)) \/ ScanQueue \/ ScanEnd \/ BecomeLeader
  <2>1. SendKept
    BY <1>1, SendKeeps
  <2>2. RunKept
    BY <1>1, RunKeeps
  <2>3. UNCHANGED <<log, ref, queue>>
    BY <1>1 DEF SubmitTake, SubmitGoto, SubmitCheck, FetchNone, FetchSkip,
       Fetched, FetchRetry, batch_push_all_task_queue, submit_task_queue,
       Acquired, SubmitEnd, SubmitRevoke, QueueTake, QueueGoto, queueFrame,
       QueueEmpty, QueueWait, HasTop, QueueRevoke, ScanStart, scanFrame,
       ScanQueue, ScanEnd, IdleScan, BecomeLeader, rcFrame
  <2> QED
    BY <2>1, <2>2, <2>3, <1>0, RefSame, HoldersSame, QueueSame
<1>2. CASE LoseLeader \/ GiveUp \/ switch_to_leader \/ Serve \/ StepDown \/
           FollowerRole \/ FollowerPush \/ disable \/ block_submit \/
           unblock_submit \/ UnblockPush \/ Apply \/ FsCheck \/ FsPush
  <2>1. SendKept
    BY <1>2, SendKeeps
  <2>2. RunKept
    BY <1>2, RunKeeps
  <2>3. UNCHANGED <<log, ref, queue>>
    BY <1>2 DEF LoseLeader, rcFrame, GiveUp, switch_to_leader, Serve, StepDown,
       FollowerRole, FollowerPush, submit_submit_task, Acquired, disable,
       block_submit, unblock_submit, UnblockPush, Apply, Larger, FsCheck, FsPush
  <2> QED
    BY <2>1, <2>2, <2>3, <1>0, RefSame, HoldersSame, QueueSame
<1>3. ASSUME FetchPush PROVE RefInv'
  <2>0. UNCHANGED <<log, ref, pc, next_lsn>> /\ ~log[next_lsn].pre /\ Fetched
    BY <1>3 DEF FetchPush, SubmitLog
  <2>1. \A r \in Queues : /\ Cont[r] \subseteq Cont'[r] /\ Cont'[r] \subseteq Cont[r] \union {next_lsn}
                          /\ Front'[r] = Front[r] \/ (Front[r] = 0 /\ Front'[r] = next_lsn)
    BY <1>3, PushFacts, FetchFacts, <1>f DEF QueueFacts
  <2>2. \A r \in Queues : Front[r] = 0 => Cont[r] = {}
    BY <1>f DEF QueueFacts
  <2>3. \A i : i # next_lsn => Holders(i)' = Holders(i)
    BY <1>3, <2>0, <2>1, <2>2, PushFacts, FetchFacts DEF Holders
  <2> QED
    BY <2>0, <2>3, <1>0, RefSame
<1>4. ASSUME FetchBroadcast PROVE RefInv'
  <2>0. UNCHANGED <<log, pc, next_lsn, Cont, Front>> /\ Fetched
    BY <1>4, QueueSame DEF FetchBroadcast, SubmitLog
  <2>1. /\ \A q \in Queues : ~Reached(q)'
        /\ \A i : Sending(i)' <=> i = next_lsn
    BY <1>4 DEF FetchBroadcast, SubmitGoto, SubmitLog, Reached, Queues, Sending
  <2>2. \A i : i # next_lsn => Holders(i)' = Holders(i)
    BY <2>0, <2>1, FetchFacts DEF Holders
  <2>3. Holders(next_lsn)' = Queues
    BY <2>0, <2>1 DEF Holders
  <2>4. Cardinality(Queues) = NQ
    BY FS_Interval, NQAssumption DEF Queues
  <2>5. next_lsn \in 1 .. Len(log) /\ next_lsn \in 1 .. MaxLog
    BY <2>0, FetchFacts
  <2>6. ref'[next_lsn] = NQ /\ \A i \in 1 .. MaxLog : i # next_lsn => ref'[i] = ref[i]
    BY <1>4, <2>5, <1>t DEF FetchBroadcast
  <2> QED
    BY <2>0, <2>2, <2>3, <2>4, <2>5, <2>6, <1>0, <1>e DEF RefInv
<1>5. ASSUME Broadcast PROVE RefInv'
  <2>0. UNCHANGED <<log, ref, pc, next_lsn>>
    BY <1>5 DEF Broadcast
  <2>1. bc \in Queues /\ ~Reached(bc)
    BY <1>5, BroadcastFacts, SendFacts DEF Queues
  <2>2. \A r \in Queues : r # bc => Cont'[r] = Cont[r] /\ Front'[r] = Front[r]
    BY <1>5, BroadcastFacts, <1>f DEF QueueFacts
  <2>3. /\ Cont'[bc] = Cont[bc] \union {next_lsn}
        /\ Front'[bc] = IF Front[bc] = 0 THEN next_lsn ELSE Front[bc]
    BY <1>5, <2>1, BroadcastFacts, <1>f DEF QueueFacts
  <2>4. Front[bc] = 0 => Cont[bc] = {} /\ pc[bc] \notin {"replay", "pop"}
    BY <2>1, <1>f, <1>0 DEF QueueFacts, HeadInv
  <2>5. Front[bc] # 0 => Front[bc] # next_lsn
    BY <1>5, <2>1, SendFacts, BroadcastFacts, <1>f, <1>n DEF QueueFacts
  <2>6. /\ \A i : Sending(i)' <=> Sending(i)
        /\ \A r \in Queues : Reached(r)' <=> r = bc \/ Reached(r)
        /\ \A i : Sending(i) <=> i = next_lsn
    BY <1>5, BroadcastFacts, SendFacts
  <2>7. ASSUME NEW i, NEW r \in Queues PROVE r \in Holders(i)' <=> r \in Holders(i)
    <3>1. CASE r # bc
      BY <3>1, <2>0, <2>2, <2>6 DEF Holders
    <3>2. CASE r = bc
      BY <3>2, <2>0, <2>1, <2>3, <2>4, <2>5, <2>6 DEF Holders
    <3> QED
      BY <3>1, <3>2
  <2>8. \A i : Holders(i)' \subseteq Queues /\ Holders(i) \subseteq Queues
    BY DEF Holders
  <2>9. \A i : Holders(i)' = Holders(i)
    BY <2>7, <2>8
  <2> QED
    BY <2>0, <2>9, <1>0, RefSame
<1>6. ASSUME BroadcastSignal PROVE RefInv'
  <2>0. UNCHANGED <<log, ref, Cont, Front>>
    BY <1>6, QueueSame DEF BroadcastSignal
  <2>1. RunKept
    BY <1>6, RunKeeps
  <2>2. \A i : Holders(i)' = Holders(i)
    BY <1>6, <2>0, <2>1, SignalFacts, SendFacts DEF Holders, RunKept
  <2> QED
    BY <2>0, <2>2, <1>0, RefSame
<1>7. ASSUME SubmitMeta PROVE RefInv'
  <2>0. UNCHANGED <<log, ref, pc, Cont, Front>>
    BY <1>7, QueueSame DEF SubmitMeta
  <2>1. \A i, q : ~(Sending(i) /\ ~Reached(q)) /\ ~Sending(i)'
    BY <1>7 DEF SubmitMeta, SubmitGoto, Sending, Reached
  <2>2. \A i : Holders(i)' = Holders(i)
    BY <2>0, <2>1 DEF Holders
  <2> QED
    BY <2>0, <2>2, <1>0, RefSame
<1>8. ASSUME NEW q \in Queues, QueueStart(q) PROVE RefInv'
  <2>i. PICK i : i = Front[q]
    OBVIOUS
  <2>0. UNCHANGED <<log, Cont, Front, next_lsn, sub_pc, bc, base>>
    BY <1>8, QueueSame DEF QueueStart, queueFrame
  <2>1. SendKept
    BY <2>0, SendSame
  <2>2. /\ Head(queue[q]) = i /\ i \in 1 .. Len(log) /\ i \in 1 .. MaxLog /\ i \in Cont[q]
        /\ pc[q] = "top" /\ ~must_wait(q, i)
    BY <1>8, <2>i, TopFacts DEF QueueStart, HasTop
  <2>3. pc'[q] \in {"replay", "pop"} /\ \A r \in Queues : r # q => pc'[r] = pc[r]
    BY <1>8, <1>0 DEF QueueStart, QueueGoto, TypeOK
  <2>4. \A j : j # i => Holders(j)' = Holders(j)
    BY <2>i, <2>0, <2>1, <2>2, <2>3 DEF Holders, SendKept
  <2>5. ~(Sending(i) /\ ~Reached(q))
    BY <1>8, <2>i, TopFacts, <1>n, <1>0 DEF QueueStart, EnabledInv, Sending
  <2>6. q \in Holders(i) /\ Holders(i)' = Holders(i) \ {q}
    BY <2>i, <2>0, <2>1, <2>2, <2>3, <2>5 DEF Holders, SendKept
  <2>7. Cardinality(Holders(i)') = Cardinality(Holders(i)) - 1
    BY <2>6, HoldersFinite, FS_RemoveElement
  <2>8. CASE log[i].pre
    <3>1. ref'[i] = ref[i] - 1 /\ \A j \in 1 .. MaxLog : j # i => ref'[j] = ref[j]
      BY <1>8, <2>2, <2>8, <1>t DEF QueueStart
    <3>2. ref[i] = Cardinality(Holders(i)) /\ log[i].q \in Holders(i)
      BY <2>2, <2>6, <2>8, <1>0 DEF RefInv
    <3>3. ref'[i] = Cardinality(Holders(i)')
      BY <3>1, <3>2, <2>7
    <3>4. Holders(i)' # {} => log[i].q \in Holders(i)'
      <4>1. CASE log[i].q # q
        BY <4>1, <3>2, <2>6
      <4>2. CASE log[i].q = q
        <5>1. ref[i] = 1
          BY <4>2, <2>2, <2>8 DEF must_wait
        <5>2. Cardinality(Holders(i)') = 0 /\ IsFiniteSet(Holders(i)')
          BY <5>1, <3>2, <2>6, <2>7, HoldersFinite, FS_RemoveElement
        <5> QED
          BY <5>2, FS_EmptySet
      <4> QED
        BY <4>1, <4>2
    <3>5. ASSUME NEW j \in 1 .. Len(log), log[j].pre
          PROVE  /\ ref'[j] = Cardinality(Holders(j)')
                 /\ Holders(j)' # {} => log[j].q \in Holders(j)'
      <4>1. CASE j = i
        BY <4>1, <3>3, <3>4
      <4>2. CASE j # i
        BY <4>2, <3>5, <3>1, <2>4, <1>0, <1>e DEF RefInv
      <4> QED
        BY <4>1, <4>2
    <3>6. \A j \in 1 .. MaxLog : j > Len(log) => ref'[j] = 0
      BY <3>1, <2>2, <1>0 DEF RefInv, TypeOK
    <3> QED
      BY <2>0, <3>5, <3>6 DEF RefInv
  <2>9. CASE ~log[i].pre
    <3>1. ref' = ref
      BY <1>8, <2>2, <2>9 DEF QueueStart
    <3> QED
      BY <3>1, <2>0, <2>4, <2>9, <1>0, RefSame
  <2> QED
    BY <2>8, <2>9
<1>9. ASSUME NEW q \in Queues, ReplayOk(q) PROVE RefInv'
  <2>0. UNCHANGED <<log, ref, Cont, Front, next_lsn, sub_pc, bc, base>>
    BY <1>9, QueueSame DEF ReplayOk, queueFrame
  <2>1. SendKept
    BY <2>0, SendSame
  <2>2. \A r \in Queues : pc'[r] \in {"replay", "pop"} <=> pc[r] \in {"replay", "pop"}
    BY <1>9, <1>0 DEF ReplayOk, QueueGoto, TypeOK
  <2>3. \A i : Holders(i)' = Holders(i)
    BY <2>0, <2>1, <2>2 DEF Holders, SendKept
  <2> QED
    BY <2>0, <2>3, <1>0, RefSame
<1>10. ASSUME NEW q \in Queues, ReplayFail(q) PROVE RefInv'
  <2>i. PICK i : i = Front[q]
    OBVIOUS
  <2>0. UNCHANGED <<log, Cont, Front, next_lsn, sub_pc, bc, base>>
    BY <1>10, QueueSame DEF ReplayFail, queueFrame
  <2>1. SendKept
    BY <2>0, SendSame
  <2>2. /\ Head(queue[q]) = i /\ i \in 1 .. Len(log) /\ i \in 1 .. MaxLog /\ i \in Cont[q]
        /\ pc[q] = "replay" /\ log[i].q = q
    BY <1>10, <2>i, TopFacts, <1>0 DEF ReplayFail, HeadInv
  <2>3. pc'[q] = "pool" /\ \A r \in Queues : r # q => pc'[r] = pc[r]
    BY <1>10, <1>0 DEF ReplayFail, QueueGoto, TypeOK
  <2>4. \A j : j # i => Holders(j)' = Holders(j)
    BY <2>i, <2>0, <2>1, <2>2, <2>3 DEF Holders, SendKept
  <2>5. ~(Sending(i) /\ ~Reached(q))
    BY <1>10, <2>i, TopFacts, <1>n, <1>0 DEF ReplayFail, EnabledInv, Sending
  <2>6. q \notin Holders(i) /\ Holders(i)' = Holders(i) \union {q}
    BY <2>i, <2>0, <2>1, <2>2, <2>3, <2>5 DEF Holders, SendKept
  <2>7. Cardinality(Holders(i)') = Cardinality(Holders(i)) + 1
    BY <2>6, HoldersFinite, FS_AddElement
  <2>8. CASE log[i].pre
    <3>1. ref'[i] = ref[i] + 1 /\ \A j \in 1 .. MaxLog : j # i => ref'[j] = ref[j]
      BY <1>10, <2>2, <2>8, <1>t DEF ReplayFail
    <3>2. ref[i] = Cardinality(Holders(i))
      BY <2>2, <2>6, <2>8, <1>0 DEF RefInv
    <3>3. ref'[i] = Cardinality(Holders(i)') /\ log[i].q \in Holders(i)'
      BY <3>1, <3>2, <2>2, <2>6, <2>7
    <3> QED
      BY <2>0, <2>2, <2>4, <3>1, <3>3, <1>0, <1>e DEF RefInv
  <2>9. CASE ~log[i].pre
    <3>1. ref' = ref
      BY <1>10, <2>2, <2>9 DEF ReplayFail
    <3> QED
      BY <3>1, <2>0, <2>4, <2>9, <1>0, RefSame
  <2> QED
    BY <2>8, <2>9
<1>11. ASSUME NEW q \in Queues, QueuePop(q) PROVE RefInv'
  <2>0. UNCHANGED <<log, ref, next_lsn, sub_pc, bc, base>>
    BY <1>11 DEF QueuePop, queueFrame
  <2>1. SendKept
    BY <2>0, SendSame
  <2>2. \A r \in Queues : Cont'[r] = IF r = q THEN Cont[q] \ {Front[q]} ELSE Cont[r]
    BY <1>11, PopFacts, <1>f DEF QueueFacts
  <2>3. \A r \in Queues : r # q => Front'[r] = Front[r] /\ pc'[r] = pc[r]
    BY <1>11, PopFacts
  <2>4. pc[q] = "pop" /\ pc'[q] \notin {"replay", "pop"}
    BY <1>11, PopFacts
  <2>5. \A i : Holders(i)' = Holders(i)
    BY <2>0, <2>1, <2>2, <2>3, <2>4 DEF Holders, SendKept
  <2> QED
    BY <2>0, <2>5, <1>0, RefSame
<1>12. ASSUME reset_iterator PROVE RefInv'
  <2>0. UNCHANGED <<log, ref, pc, Cont, Front>>
    BY <1>12, QueueSame DEF reset_iterator, rcFrame
  <2>1. \A i : ~Sending(i) /\ ~Sending(i)'
    BY <1>12 DEF reset_iterator, rcFrame, Unlocked, SubmitReads, Sending
  <2>2. \A i : Holders(i)' = Holders(i)
    BY <2>0, <2>1 DEF Holders
  <2> QED
    BY <2>0, <2>2, <1>0, RefSame
<1>13. ASSUME NEW scn \in 1 .. Len(log) + 1, NEW lsn \in 1 .. scn, enable(lsn, scn)
       PROVE  RefInv'
  <2>0. UNCHANGED <<log, ref, pc, Cont, Front>>
    BY <1>13, QueueSame DEF enable
  <2>1. \A i : ~Sending(i) /\ ~Sending(i)'
    BY <1>13, <1>0 DEF enable, submit_submit_task, EnabledInv, SubmitReads, Sending
  <2>2. \A i : Holders(i)' = Holders(i)
    BY <2>0, <2>1 DEF Holders
  <2> QED
    BY <2>0, <2>2, <1>0, RefSame
<1>14. ASSUME disable_ PROVE RefInv'
  <2>1. /\ log' = log /\ \A q \in Queues : Cont'[q] = {}
        /\ \A i : ~Sending(i) /\ ~Sending(i)'
        /\ \A q \in Queues : pc[q] \notin {"replay", "pop"}
    BY <1>14, DropFacts DEF disable_, Unlocked, SubmitReads, Sending
  <2>2. \A i : Holders(i)' = {}
    BY <2>1 DEF Holders
  <2>3. \A i : Copies(i) = Holders(i)
    BY <2>1 DEF Copies, Holders, Cont
  <2>4. ASSUME NEW i \in 1 .. Len(log), log[i].pre PROVE ref'[i] = 0
    <3>1. ref[i] = Cardinality(Holders(i)) /\ i \in 1 .. MaxLog /\ Cardinality(Holders(i)) \in Nat
      BY <2>4, <1>0, <1>e, HoldersFinite DEF RefInv
    <3>2. ref'[i] = ref[i] - Cardinality(Copies(i))
      BY <1>14, <2>4, <3>1 DEF disable_
    <3> QED
      BY <3>1, <3>2, <2>3
  <2>5. \A i \in 1 .. MaxLog : i > Len(log) => ref'[i] = 0
    BY <1>14, <1>0 DEF disable_, RefInv, TypeOK
  <2>6. Cardinality({}) = 0
    BY FS_EmptySet
  <2> QED
    BY <2>1, <2>2, <2>4, <2>5, <2>6 DEF RefInv
<1>15. ASSUME NEW e \in Entries, Commit(e) PROVE RefInv'
  <2>1. /\ Len(log') = Len(log) + 1 /\ \A i \in 1 .. Len(log) : log'[i] = log[i]
        /\ SendKept /\ Len(log) \in Nat
    BY <1>15, CommitFacts DEF Commit, logFrame
  <2>2. UNCHANGED <<Cont, Front, pc, ref, next_lsn>>
    BY <1>15, QueueSame DEF Commit, logFrame
  <2>3. \A i : Holders(i)' = Holders(i)
    BY <2>1, <2>2, RunSame, HoldersSame
  <2>4. Len(log) + 1 \in 1 .. MaxLog
    BY <1>15, <2>1, MaxLogAssumption DEF Commit
  <2>5. \A i : Sending(i) => i <= Len(log)
    BY <1>0 DEF Sending, SubmitInv
  <2>6. Holders(Len(log) + 1) = {}
    BY <2>1, <2>5, <1>0 DEF Holders, TasksInv
  <2>7. Cardinality({}) = 0 /\ ref[Len(log) + 1] = 0
    BY <2>1, <2>4, <1>0, FS_EmptySet DEF RefInv
  <2>8. ASSUME NEW i \in 1 .. Len(log'), log'[i].pre
        PROVE  /\ ref[i] = Cardinality(Holders(i))
               /\ Holders(i) # {} => log'[i].q \in Holders(i)
    <3>1. CASE i \in 1 .. Len(log)
      BY <3>1, <2>1, <2>8, <1>0 DEF RefInv
    <3>2. CASE i = Len(log) + 1
      BY <3>2, <2>6, <2>7
    <3> QED
      BY <3>1, <3>2, <2>1
  <2>9. \A i \in 1 .. MaxLog : i > Len(log') => ref[i] = 0
    BY <2>1, <1>0 DEF RefInv
  <2> QED
    BY <2>2, <2>3, <2>8, <2>9 DEF RefInv
<1>16. ASSUME NEW e \in Entries, CommitOwn(e) PROVE RefInv'
  <2>1. /\ Len(log') = Len(log) + 1 /\ \A i \in 1 .. Len(log) : log'[i] = log[i]
        /\ SendKept /\ Len(log) \in Nat
    BY <1>16, CommitFacts DEF CommitOwn, logFrame
  <2>2. UNCHANGED <<Cont, Front, pc, ref, next_lsn>>
    BY <1>16, QueueSame DEF CommitOwn, logFrame
  <2>3. \A i : Holders(i)' = Holders(i)
    BY <2>1, <2>2, RunSame, HoldersSame
  <2>4. Len(log) + 1 \in 1 .. MaxLog
    BY <1>16, <2>1, MaxLogAssumption DEF CommitOwn
  <2>5. \A i : Sending(i) => i <= Len(log)
    BY <1>0 DEF Sending, SubmitInv
  <2>6. Holders(Len(log) + 1) = {}
    BY <2>1, <2>5, <1>0 DEF Holders, TasksInv
  <2>7. Cardinality({}) = 0 /\ ref[Len(log) + 1] = 0
    BY <2>1, <2>4, <1>0, FS_EmptySet DEF RefInv
  <2>8. ASSUME NEW i \in 1 .. Len(log'), log'[i].pre
        PROVE  /\ ref[i] = Cardinality(Holders(i))
               /\ Holders(i) # {} => log'[i].q \in Holders(i)
    <3>1. CASE i \in 1 .. Len(log)
      BY <3>1, <2>1, <2>8, <1>0 DEF RefInv
    <3>2. CASE i = Len(log) + 1
      BY <3>2, <2>6, <2>7
    <3> QED
      BY <3>1, <3>2, <2>1
  <2>9. \A i \in 1 .. MaxLog : i > Len(log') => ref[i] = 0
    BY <2>1, <1>0 DEF RefInv
  <2> QED
    BY <2>2, <2>3, <2>8, <2>9 DEF RefInv
<1> QED
  BY <1>1, <1>2, <1>3, <1>4, <1>5, <1>6, <1>7, <1>8, <1>9, <1>10, <1>11, <1>12,
     <1>13, <1>14, <1>15, <1>16 DEF Next, SubmitStep, QueueStep, ScanStep,
     RoleStep, AdminStep, LogStep

(* PendingInv: the tasks that are counted as pending.                      *)
LEMMA PendFinite ==
  ASSUME TypeOK
  PROVE  IsFiniteSet(Pend) /\ Cardinality(Pend) \in Nat
<1>1. IsFiniteSet(1 .. Len(log))
  BY FS_Interval DEF TypeOK
<1>2. Pend \subseteq 1 .. Len(log)
  BY DEF Pend
<1> QED
  BY <1>1, <1>2, FS_Subset, FS_CardinalityType

(* A step that leaves queues and effects alone keeps the logs that are     *)
(* pending.                                                                *)
LEMMA PendSame ==
  ASSUME UNCHANGED <<log, done, Cont>>, SendKept
  PROVE  Pend' = Pend
BY DEF Pend, SendKept

(* ... and so PendingInv.                                                  *)
LEMMA PendingSame ==
  ASSUME PendingInv, UNCHANGED pending, Pend' = Pend
  PROVE  PendingInv'
BY DEF PendingInv

(* Every step preserves PendingInv: pending_task_count_ counts each log    *)
(* once, copies of a pre-barrier log included.                             *)
LEMMA PendingStep ==
  IInv /\ Next => PendingInv'
<1> SUFFICES ASSUME IInv, Next PROVE PendingInv'
  OBVIOUS
<1> USE DEF logVars, rcVars, stVars, nextVars, subVars, taskVars, taskQueueVars, envVars
<1>0. /\ TypeOK /\ QueuesOrdered /\ EnabledInv /\ SubmitInv /\ TasksInv /\ DoneInv
      /\ HeadInv /\ RoleInv /\ RefInv /\ PendingInv
  BY DEF IInv
<1>f. QueueFacts /\ QueueFacts' /\ TypeOK'
  BY <1>0, QueueFactsHold, TypeStep
<1>n. /\ next_lsn \in Nat /\ next_scn \in Nat /\ base \in Nat
      /\ \A q \in Queues : Front[q] \in Nat /\ \A x \in Cont[q] : x \in Nat
  BY Numbers
<1>e. \A i \in 1 .. Len(log) : log[i].q \in Queues /\ i \in 1 .. MaxLog
  BY <1>0, LogEntry
<1>t. ref \in [1 .. MaxLog -> Int]
  BY <1>0 DEF TypeOK
<1>1. CASE SubmitTake \/ SubmitCheck \/ FetchNone \/ FetchSkip \/ FetchRetry \/ (\E q
           \in Queues : batch_push_all_task_queue(q)) \/ SubmitEnd \/
           SubmitRevoke \/ (\E q \in Queues : QueueTake(q) \/ QueueEmpty(q)
           \/ QueueWait(q) \/ QueueStart(q) \/ ReplayFail(q) \/
           QueueRevoke(q)) \/ (\E d \in BOOLEAN : ScanStart(d)) \/ ScanQueue
  <2>1. SendKept
    BY <1>1, SendKeeps
  <2>2. UNCHANGED <<log, done, queue, pending>>
    BY <1>1 DEF SubmitTake, SubmitGoto, SubmitCheck, FetchNone, FetchSkip,
       Fetched, FetchRetry, batch_push_all_task_queue, submit_task_queue,
       Acquired, SubmitEnd, SubmitRevoke, QueueTake, QueueGoto, queueFrame,
       QueueEmpty, QueueWait, HasTop, QueueStart, ReplayFail, QueueRevoke,
       ScanStart, scanFrame, ScanQueue
  <2> QED
    BY <2>1, <2>2, <1>0, PendingSame, PendSame, QueueSame
<1>2. CASE ScanEnd \/ BecomeLeader \/ LoseLeader \/ GiveUp \/ switch_to_leader \/ Serve
           \/ StepDown \/ FollowerRole \/ FollowerPush \/ disable \/
           block_submit \/ unblock_submit \/ UnblockPush \/ FsCheck \/
           FsPush
  <2>1. SendKept
    BY <1>2, SendKeeps
  <2>2. UNCHANGED <<log, done, queue, pending>>
    BY <1>2 DEF ScanEnd, scanFrame, IdleScan, BecomeLeader, rcFrame, LoseLeader,
       GiveUp, switch_to_leader, Serve, StepDown, FollowerRole, FollowerPush,
       submit_submit_task, Acquired, disable, block_submit, unblock_submit,
       UnblockPush, FsCheck, FsPush
  <2> QED
    BY <2>1, <2>2, <1>0, PendingSame, PendSame, QueueSame
<1>3. ASSUME FetchPush PROVE PendingInv'
  <2>0. UNCHANGED <<log, done, next_lsn>> /\ ~log[next_lsn].pre /\ Fetched /\ pending' = pending + 1
    BY <1>3 DEF FetchPush, SubmitLog
  <2>1. /\ next_lsn \in 1 .. Len(log) /\ log[next_lsn].q \in Queues
        /\ next_lsn \notin Cont[log[next_lsn].q]
    BY <2>0, FetchFacts
  <2>2. \A r \in Queues : /\ Cont[r] \subseteq Cont'[r] /\ Cont'[r] \subseteq Cont[r] \union {next_lsn}
                          /\ r = log[next_lsn].q => next_lsn \in Cont'[r]
    BY <1>3, PushFacts, <1>f DEF QueueFacts
  <2>3. \A i : ~Sending(i) /\ \A q : Reached(q)'
    BY <1>3, <2>0, PushFacts, FetchFacts
  <2>4. Pend' = Pend \union {next_lsn} /\ next_lsn \notin Pend
    BY <2>0, <2>1, <2>2, <2>3, <1>e DEF Pend
  <2> QED
    BY <2>0, <2>4, <1>0, PendFinite, FS_AddElement DEF PendingInv
<1>4. ASSUME FetchBroadcast PROVE PendingInv'
  <2>0. /\ UNCHANGED <<log, done, next_lsn, Cont>> /\ log[next_lsn].pre /\ Fetched
        /\ pending' = pending + 1 /\ ~need_skip(next_lsn)
    BY <1>4, QueueSame DEF FetchBroadcast, SubmitLog
  <2>1. /\ next_lsn \in 1 .. Len(log) /\ log[next_lsn].q \in Queues
        /\ next_lsn \notin Cont[log[next_lsn].q] /\ next_lsn \notin done
        /\ \A i : ~Sending(i)
    BY <2>0, FetchFacts, NotYetDone
  <2>2. /\ \A q \in Queues : ~Reached(q)'
        /\ \A i : Sending(i)' <=> i = next_lsn
    BY <1>4 DEF FetchBroadcast, SubmitGoto, SubmitLog, Reached, Queues, Sending
  <2>4. Pend' = Pend \union {next_lsn} /\ next_lsn \notin Pend
    BY <2>0, <2>1, <2>2, <1>e DEF Pend
  <2> QED
    BY <2>0, <2>4, <1>0, PendFinite, FS_AddElement DEF PendingInv
<1>5. ASSUME Broadcast PROVE PendingInv'
  <2>0. UNCHANGED <<log, done, next_lsn, pending>>
    BY <1>5 DEF Broadcast
  <2>1. /\ bc \in Queues /\ ~Reached(bc) /\ log[next_lsn].pre /\ next_lsn \in 1 .. Len(log)
        /\ log[next_lsn].q = bc => next_lsn \notin done
    BY <1>5, BroadcastFacts, SendFacts, NotYetDone DEF Queues, Broadcast
  <2>2. \A r \in Queues : Cont'[r] = IF r = bc THEN Cont[r] \union {next_lsn} ELSE Cont[r]
    BY <1>5, BroadcastFacts, <1>f DEF QueueFacts
  <2>3. /\ \A i : Sending(i)' <=> i = next_lsn
        /\ \A r \in Queues : Reached(r)' <=> r = bc \/ Reached(r)
        /\ \A i : Sending(i) <=> i = next_lsn
    BY <1>5, BroadcastFacts, SendFacts
  <2>4. ASSUME NEW i \in 1 .. Len(log) PROVE i \in Pend' <=> i \in Pend
    <3>0. log[i].q \in Queues
      BY <1>e
    <3>1. CASE i # next_lsn
      <4>1. i \in Cont'[log[i].q] <=> i \in Cont[log[i].q]
        BY <3>0, <3>1, <2>2
      <4> QED
        BY <3>1, <4>1, <2>0, <2>3 DEF Pend
    <3>2. CASE i = next_lsn
      BY <3>0, <3>2, <2>0, <2>1, <2>2, <2>3 DEF Pend
    <3> QED
      BY <3>1, <3>2
  <2>5. Pend' = Pend
    BY <2>0, <2>4 DEF Pend
  <2> QED
    BY <2>0, <2>5, <1>0, PendingSame
<1>6. ASSUME BroadcastSignal PROVE PendingInv'
  <2>0. UNCHANGED <<log, done, Cont, pending>>
    BY <1>6, QueueSame DEF BroadcastSignal
  <2>1. Pend' = Pend
    BY <1>6, <2>0, SignalFacts, SendFacts, <1>e DEF Pend
  <2> QED
    BY <2>0, <2>1, <1>0, PendingSame
<1>7. ASSUME SubmitMeta PROVE PendingInv'
  <2>0. UNCHANGED <<log, done, Cont, pending>>
    BY <1>7, QueueSame DEF SubmitMeta
  <2>1. \A i, q : ~(Sending(i) /\ ~Reached(q)) /\ ~Sending(i)'
    BY <1>7 DEF SubmitMeta, SubmitGoto, Sending, Reached
  <2>2. Pend' = Pend
    BY <2>0, <2>1 DEF Pend
  <2> QED
    BY <2>0, <2>2, <1>0, PendingSame
<1>8. ASSUME NEW q \in Queues, ReplayOk(q) PROVE PendingInv'
  <2>i. PICK i : i = Front[q]
    OBVIOUS
  <2>0. UNCHANGED <<log, Cont, next_lsn, sub_pc, bc, base>>
    BY <1>8, QueueSame DEF ReplayOk, queueFrame
  <2>1. SendKept
    BY <2>0, SendSame
  <2>2. /\ Head(queue[q]) = i /\ i \in 1 .. Len(log) /\ i \in Cont[q]
        /\ log[i].q = q /\ i \notin done
    BY <1>8, <2>i, TopFacts, <1>0 DEF ReplayOk, HeadInv
  <2>3. done' = done \union {i} /\ pending' = IF log[i].pre THEN pending - 1 ELSE pending
    BY <1>8, <2>2 DEF ReplayOk
  <2>4. CASE log[i].pre
    <3>1. Pend' = Pend \ {i} /\ i \in Pend
      BY <2>i, <2>0, <2>1, <2>2, <2>3, <2>4 DEF Pend, SendKept
    <3> QED
      BY <3>1, <2>3, <2>4, <1>0, PendFinite, FS_RemoveElement DEF PendingInv
  <2>5. CASE ~log[i].pre
    <3>1. Pend' = Pend
      BY <2>i, <2>0, <2>1, <2>2, <2>3, <2>5 DEF Pend, SendKept
    <3> QED
      BY <3>1, <2>3, <2>5, <1>0, PendingSame
  <2> QED
    BY <2>4, <2>5
<1>9. ASSUME NEW q \in Queues, QueuePop(q) PROVE PendingInv'
  <2>i. PICK i : i = Front[q]
    OBVIOUS
  <2>0. UNCHANGED <<log, done, next_lsn, sub_pc, bc, base>>
    BY <1>9 DEF QueuePop, queueFrame
  <2>1. SendKept
    BY <2>0, SendSame
  <2>2. /\ Head(queue[q]) = i /\ i \in 1 .. Len(log) /\ i \in Cont[q]
        /\ log[i].q = q => i \in done
        /\ log[i].q = q \/ log[i].pre
    BY <1>9, <2>i, TopFacts, <1>0 DEF QueuePop, HeadInv
  <2>3. \A r \in Queues : Cont'[r] = IF r = q THEN Cont[q] \ {i} ELSE Cont[r]
    BY <1>9, <2>i, PopFacts, <1>f DEF QueueFacts
  <2>4. pending' = IF log[i].pre THEN pending ELSE pending - 1
    BY <1>9, <2>2 DEF QueuePop
  <2>5. CASE log[i].pre
    <3>1. Pend' = Pend
      BY <2>i, <2>0, <2>1, <2>2, <2>3, <2>5, <1>e DEF Pend, SendKept
    <3> QED
      BY <3>1, <2>4, <2>5, <1>0, PendingSame
  <2>6. CASE ~log[i].pre
    <3>1. Pend' = Pend \ {i} /\ i \in Pend
      BY <2>i, <2>0, <2>1, <2>2, <2>3, <2>6, <1>e DEF Pend, SendKept
    <3> QED
      BY <3>1, <2>4, <2>6, <1>0, PendFinite, FS_RemoveElement DEF PendingInv
  <2> QED
    BY <2>5, <2>6
<1>10. ASSUME reset_iterator PROVE PendingInv'
  <2>0. UNCHANGED <<log, done, Cont, pending>>
    BY <1>10, QueueSame DEF reset_iterator, rcFrame
  <2>1. \A i : ~Sending(i) /\ ~Sending(i)'
    BY <1>10 DEF reset_iterator, rcFrame, Unlocked, SubmitReads, Sending
  <2>2. Pend' = Pend
    BY <2>0, <2>1 DEF Pend
  <2> QED
    BY <2>0, <2>2, <1>0, PendingSame
<1>11. ASSUME NEW scn \in 1 .. Len(log) + 1, NEW lsn \in 1 .. scn, enable(lsn, scn)
       PROVE  PendingInv'
  <2>0. UNCHANGED <<log, Cont, pending>>
    BY <1>11, QueueSame DEF enable
  <2>1. \A i : ~Sending(i) /\ ~Sending(i)'
    BY <1>11, <1>0 DEF enable, submit_submit_task, EnabledInv, SubmitReads, Sending
  <2>2. \A q \in Queues : Cont[q] = {}
    BY <1>11, <1>0, <1>f DEF enable, EnabledInv, QueueFacts
  <2>3. Pend' = {} /\ Pend = {}
    BY <2>0, <2>1, <2>2, <1>e DEF Pend
  <2> QED
    BY <2>0, <2>3, <1>0, PendingSame
<1>12. ASSUME disable_ PROVE PendingInv'
  <2>1. /\ log' = log /\ done' = done /\ \A q \in Queues : Cont'[q] = {}
        /\ \A i : ~Sending(i) /\ ~Sending(i)'
        /\ \A q \in Queues : pc[q] \notin {"replay", "pop"}
    BY <1>12, DropFacts DEF disable_, Unlocked, SubmitReads, Sending
  <2>2. Pend' = {}
    BY <2>1, <1>e DEF Pend
  <2>3. \A i : Copies(i) = Holders(i)
    BY <2>1 DEF Copies, Holders, Cont
  <2>4. ASSUME NEW i \in 1 .. Len(log) PROVE i \in Dropped <=> Copies(i) # {}
    BY <2>3, <1>0 DEF Dropped, RefInv
  <2>5. ASSUME NEW i \in 1 .. Len(log) PROVE Copies(i) # {} <=> i \in Cont[log[i].q]
    <3>1. Copies(i) = {r \in Queues : i \in Cont[r]}
      BY DEF Copies, Cont
    <3>2. CASE log[i].pre
      BY <3>1, <3>2, <2>3, <1>0, <1>e DEF RefInv
    <3>3. CASE ~log[i].pre
      BY <3>1, <3>3, <1>0, <1>e DEF TasksInv
    <3> QED
      BY <3>2, <3>3
  <2>6. ASSUME NEW i \in 1 .. Len(log) PROVE i \in Pend <=> i \in Cont[log[i].q]
    BY <2>1, <1>0, <1>e DEF Pend, HeadInv
  <2>7. Pend \subseteq 1 .. Len(log) /\ Dropped \subseteq 1 .. Len(log)
    BY DEF Pend, Dropped
  <2>8. Pend = Dropped
    BY <2>4, <2>5, <2>6, <2>7
  <2>9. pending' = pending - Cardinality(Dropped)
    BY <1>12 DEF disable_
  <2>10. Cardinality({}) = 0 /\ Cardinality(Pend) \in Nat
    BY <1>0, PendFinite, FS_EmptySet
  <2> QED
    BY <2>2, <2>8, <2>9, <2>10, <1>0 DEF PendingInv
<1>13. ASSUME NEW e \in Entries, Commit(e) PROVE PendingInv'
  <2>1. /\ Len(log') = Len(log) + 1 /\ \A i \in 1 .. Len(log) : log'[i] = log[i]
        /\ SendKept /\ Len(log) \in Nat
    BY <1>13, CommitFacts DEF Commit, logFrame
  <2>2. UNCHANGED <<Cont, done, pending>>
    BY <1>13, QueueSame DEF Commit, logFrame
  <2>3. \A i : Sending(i) => i <= Len(log)
    BY <1>0 DEF Sending, SubmitInv
  <2>n. PICK n \in Nat : n = Len(log) + 1
    BY <2>1
  <2>4. log'[n].q \in Queues
    BY <1>13, <2>n, <1>0, EntriesAssumption DEF Commit, TypeOK
  <2>5. n \notin Pend'
    <3>1. ~Sending(n) /\ n \notin Cont[log'[n].q]
      BY <2>1, <2>n, <2>3, <2>4, <1>0 DEF TasksInv
    <3>2. ~Sending(n)' /\ n \notin Cont'[log'[n].q]
      BY <3>1, <2>1, <2>2 DEF SendKept
    <3> QED
      BY <3>2 DEF Pend
  <2>6. \A i \in 1 .. Len(log) : i \in Pend' <=> i \in Pend
    BY <2>1, <2>2 DEF Pend, SendKept
  <2>7. /\ \A i \in Pend' : i \in 1 .. Len(log) \/ i = n
        /\ \A i \in Pend : i \in 1 .. Len(log)
    BY <2>1, <2>n DEF Pend
  <2>8. Pend' = Pend
    BY <2>5, <2>6, <2>7
  <2> QED
    BY <2>2, <2>8, <1>0, PendingSame
<1>14. ASSUME NEW e \in Entries, CommitOwn(e) PROVE PendingInv'
  <2>1. /\ Len(log') = Len(log) + 1 /\ \A i \in 1 .. Len(log) : log'[i] = log[i]
        /\ SendKept /\ Len(log) \in Nat
    BY <1>14, CommitFacts DEF CommitOwn, logFrame
  <2>2. UNCHANGED <<Cont, done, pending>>
    BY <1>14, QueueSame DEF CommitOwn, logFrame
  <2>3. \A i : Sending(i) => i <= Len(log)
    BY <1>0 DEF Sending, SubmitInv
  <2>n. PICK n \in Nat : n = Len(log) + 1
    BY <2>1
  <2>4. log'[n].q \in Queues
    BY <1>14, <2>n, <1>0, EntriesAssumption DEF CommitOwn, TypeOK
  <2>5. n \notin Pend'
    <3>1. ~Sending(n) /\ n \notin Cont[log'[n].q]
      BY <2>1, <2>n, <2>3, <2>4, <1>0 DEF TasksInv
    <3>2. ~Sending(n)' /\ n \notin Cont'[log'[n].q]
      BY <3>1, <2>1, <2>2 DEF SendKept
    <3> QED
      BY <3>2 DEF Pend
  <2>6. \A i \in 1 .. Len(log) : i \in Pend' <=> i \in Pend
    BY <2>1, <2>2 DEF Pend, SendKept
  <2>7. /\ \A i \in Pend' : i \in 1 .. Len(log) \/ i = n
        /\ \A i \in Pend : i \in 1 .. Len(log)
    BY <2>1, <2>n DEF Pend
  <2>8. Pend' = Pend
    BY <2>5, <2>6, <2>7
  <2> QED
    BY <2>2, <2>8, <1>0, PendingSame
<1>15. ASSUME Apply PROVE PendingInv'
  <2>0. UNCHANGED <<log, Cont, pending, sub_pc, next_lsn>> /\ rc = "leading"
    BY <1>15, QueueSame DEF Apply
  <2>1. mine > end_lsn
    BY <1>15, <1>0 DEF Apply, Larger, TypeOK
  <2>2. \A q \in Queues : Cont[q] = {}
    BY <2>0, <2>1, <1>0, <1>f DEF RoleInv, QueueFacts
  <2>3. \A i : ~Sending(i) /\ ~Sending(i)'
    BY <2>0, <1>0 DEF RoleInv, Sending
  <2>4. Pend' = {} /\ Pend = {}
    BY <2>0, <2>2, <2>3, <1>e DEF Pend
  <2> QED
    BY <2>0, <2>4, <1>0, PendingSame
<1> QED
  BY <1>1, <1>2, <1>3, <1>4, <1>5, <1>6, <1>7, <1>8, <1>9, <1>10, <1>11, <1>12,
     <1>13, <1>14, <1>15 DEF Next, SubmitStep, QueueStep, ScanStep, RoleStep,
     AdminStep, LogStep

(* What PostInv speaks of is left alone, and so it is kept.                *)
LEMMA PostSame ==
  ASSUME PostInv, UNCHANGED <<enabled, base, done, log, next_lsn, Cont, post>>, SendKept
  PROVE  PostInv'
BY DEF PostInv, SendKept, Quiet

(* Every step preserves PostInv: post_barrier_lsn_ is the one post-barrier *)
(* log outstanding, and nothing after it is in a queue.                    *)
LEMMA PostStep ==
  IInv /\ Next => PostInv'
<1> SUFFICES ASSUME IInv, Next PROVE PostInv'
  OBVIOUS
<1> USE DEF logVars, rcVars, stVars, nextVars, subVars, taskVars, taskQueueVars, envVars
<1>0. /\ TypeOK /\ QueuesOrdered /\ EnabledInv /\ SubmitInv /\ TasksInv /\ DoneInv
      /\ HeadInv /\ RoleInv /\ PostInv /\ ScanInv /\ LeaseInv /\ WakeInv /\ CoveredInv
  BY DEF IInv
<1>f. QueueFacts /\ QueueFacts' /\ TypeOK'
  BY <1>0, QueueFactsHold, TypeStep
<1>n. /\ next_lsn \in Nat /\ next_scn \in Nat /\ base \in Nat
      /\ \A q \in Queues : Front[q] \in Nat /\ \A x \in Cont[q] : x \in Nat
  BY Numbers
<1>e. \A i \in 1 .. Len(log) : log[i].q \in Queues /\ i \in 1 .. MaxLog
  BY <1>0, LogEntry
<1>t. post \in Nat /\ Len(log) \in Nat /\ app \in Nat
  BY <1>0, MaxLogAssumption DEF TypeOK
<1>1. CASE SubmitTake \/ SubmitCheck \/ FetchNone \/ FetchSkip \/ FetchRetry \/ (\E q
           \in Queues : batch_push_all_task_queue(q)) \/ SubmitEnd \/
           SubmitRevoke \/ (\E q \in Queues : QueueTake(q) \/ QueueEmpty(q)
           \/ QueueWait(q) \/ QueueStart(q) \/ ReplayFail(q) \/
           QueueRevoke(q)) \/ (\E d \in BOOLEAN : ScanStart(d)) \/ ScanQueue
  <2>1. SendKept
    BY <1>1, SendKeeps
  <2>2. UNCHANGED <<enabled, base, done, log, next_lsn, queue, post>>
    BY <1>1 DEF SubmitTake, SubmitGoto, SubmitCheck, FetchNone, FetchSkip,
       Fetched, FetchRetry, batch_push_all_task_queue, submit_task_queue,
       Acquired, SubmitEnd, SubmitRevoke, QueueTake, QueueGoto, queueFrame,
       QueueEmpty, QueueWait, HasTop, QueueStart, ReplayFail, QueueRevoke,
       ScanStart, scanFrame, ScanQueue
  <2> QED
    BY <2>1, <2>2, <1>0, PostSame, QueueSame
<1>2. CASE ScanEnd \/ BecomeLeader \/ LoseLeader \/ GiveUp \/ switch_to_leader \/ Serve
           \/ StepDown \/ FollowerRole \/ FollowerPush \/ disable \/
           block_submit \/ unblock_submit \/ UnblockPush \/ FsCheck \/
           FsPush
  <2>1. SendKept
    BY <1>2, SendKeeps
  <2>2. UNCHANGED <<enabled, base, done, log, next_lsn, queue, post>>
    BY <1>2 DEF ScanEnd, scanFrame, IdleScan, BecomeLeader, rcFrame, LoseLeader,
       GiveUp, switch_to_leader, Serve, StepDown, FollowerRole, FollowerPush,
       submit_submit_task, Acquired, disable, block_submit, unblock_submit,
       UnblockPush, FsCheck, FsPush
  <2> QED
    BY <2>1, <2>2, <1>0, PostSame, QueueSame
<1>3. ASSUME FetchPush PROVE PostInv'
  <2>0. /\ UNCHANGED <<enabled, base, done, log, next_lsn>> /\ Fetched /\ post = 0
        /\ ~need_skip(next_lsn) /\ post' = IF log[next_lsn].post THEN next_lsn ELSE 0
    BY <1>3 DEF FetchPush, SubmitLog
  <2>1. \A i : Sending(i)' <=> i = next_lsn
    BY <1>3, <2>0, PushFacts
  <2>2. next_lsn \in 1 .. Len(log) /\ next_lsn \notin done
    BY <2>0, FetchFacts, NotYetDone
  <2>3. \A q \in Queues : \A x \in Cont'[q] : x <= next_lsn
    BY SMTT(30), <1>3, <2>0, PushFacts, FetchFacts, <1>f, <1>n DEF QueueFacts
  <2>4. ASSUME enabled, NEW j \in 1 .. Len(log), log[j].post, base <= j, ~Quiet(j)
        PROVE  ~(j < next_lsn)
    BY <2>0, <2>4, <1>0 DEF PostInv
  <2> QED
    BY <2>0, <2>1, <2>2, <2>3, <2>4 DEF PostInv, Quiet
<1>4. ASSUME FetchBroadcast PROVE PostInv'
  <2>0. /\ UNCHANGED <<enabled, base, done, log, next_lsn>> /\ Fetched /\ post = 0
        /\ ~need_skip(next_lsn) /\ post' = IF log[next_lsn].post THEN next_lsn ELSE 0
    BY <1>4 DEF FetchBroadcast, SubmitLog
  <2>1. \A i : Sending(i)' <=> i = next_lsn
    BY <1>4, <2>0 DEF FetchBroadcast, SubmitGoto, SubmitLog, Sending
  <2>2. next_lsn \in 1 .. Len(log) /\ next_lsn \notin done
    BY <2>0, FetchFacts, NotYetDone
  <2>3. \A q \in Queues : \A x \in Cont'[q] : x <= next_lsn
    BY <1>4, <2>0, QueueSame, FetchFacts, <1>f, <1>n DEF QueueFacts, FetchBroadcast
  <2>4. ASSUME enabled, NEW j \in 1 .. Len(log), log[j].post, base <= j, ~Quiet(j)
        PROVE  ~(j < next_lsn)
    BY <2>0, <2>4, <1>0 DEF PostInv
  <2> QED
    BY <2>0, <2>1, <2>2, <2>3, <2>4 DEF PostInv, Quiet
<1>5. ASSUME Broadcast PROVE PostInv'
  <2>0. UNCHANGED <<enabled, base, done, log, next_lsn, post>>
    BY <1>5 DEF Broadcast
  <2>1. \A i : (Sending(i)' <=> i = next_lsn) /\ (Sending(i) <=> i = next_lsn)
    BY <1>5, BroadcastFacts, SendFacts
  <2>2. \A q \in Queues : \A x \in Cont'[q] : x \in Cont[q] \/ x = next_lsn
    BY <1>5, BroadcastFacts, <1>f DEF QueueFacts
  <2> QED
    BY <2>0, <2>1, <2>2, <1>0, <1>n DEF PostInv, Quiet
<1>6. ASSUME BroadcastSignal PROVE PostInv'
  <2>0. UNCHANGED <<enabled, base, done, log, next_lsn, post, Cont>>
    BY <1>6, QueueSame DEF BroadcastSignal
  <2>1. \A i : (Sending(i)' <=> i = next_lsn) /\ (Sending(i) <=> i = next_lsn)
    BY <1>6, SignalFacts, SendFacts
  <2> QED
    BY <2>0, <2>1, <1>0 DEF PostInv, Quiet
<1>7. ASSUME SubmitMeta PROVE PostInv'
  <2>0. UNCHANGED <<enabled, base, done, log, post, Cont>> /\ next_lsn' = next_lsn + 1
    BY <1>7, QueueSame DEF SubmitMeta
  <2>1. \A i : ~Sending(i)'
    BY <1>7 DEF SubmitMeta, SubmitGoto, Sending
  <2>2. \A j \in 1 .. Len(log) : base <= j /\ ~Quiet(j) /\ j < next_lsn + 1
           => j < next_lsn \/ Sending(j)
    BY <1>7, <1>n DEF SubmitMeta, Sending, need_skip, Quiet
  <2>3. \A i : Sending(i) => i = next_lsn
    BY DEF Sending
  <2> QED
    BY <2>0, <2>1, <2>2, <2>3, <1>0, <1>n, <1>t DEF PostInv, Quiet
<1>8. ASSUME NEW q \in Queues, ReplayOk(q) PROVE PostInv'
  <2>i. PICK i : i = Front[q]
    OBVIOUS
  <2>0. UNCHANGED <<enabled, base, log, next_lsn, Cont, sub_pc, bc>>
    BY <1>8, QueueSame DEF ReplayOk, queueFrame
  <2>1. SendKept
    BY <2>0, SendSame
  <2>2. /\ Head(queue[q]) = i /\ i \in 1 .. Len(log) /\ ~log[i].pad /\ base <= i
        /\ i \notin done /\ enabled
        /\ i < next_scn \/ Sending(i)
    BY <1>8, <2>i, TopFacts, <1>0 DEF ReplayOk, HeadInv
  <2>3. done' = done \union {i} /\ post' = IF log[i].post THEN 0 ELSE post
    BY <1>8, <2>2 DEF ReplayOk
  <2>4. i < next_lsn \/ Sending(i)
    BY <2>2, <1>0, <1>n DEF EnabledInv
  <2>5. log[i].post => post = i
    BY <2>2, <2>4, <1>0 DEF PostInv, Quiet
  <2>6. ASSUME NEW j \in 1 .. Len(log), ~Quiet(j)' PROVE ~Quiet(j) /\ j # i
    BY <2>0, <2>3, <2>6 DEF Quiet
  <2>7. ~log[i].post /\ post # 0 => post # i
    BY <1>0 DEF PostInv
  <2> QED
    BY <2>0, <2>1, <2>3, <2>5, <2>6, <2>7, <1>0 DEF PostInv, SendKept
<1>9. ASSUME NEW q \in Queues, QueuePop(q) PROVE PostInv'
  <2>1. UNCHANGED <<enabled, base, done, log, next_lsn, post, sub_pc, bc>>
    BY <1>9 DEF QueuePop, queueFrame
  <2>2. SendKept
    BY <2>1, SendSame
  <2>3. \A r \in Queues : Cont'[r] \subseteq Cont[r]
    BY <1>9, <1>f, PopFacts DEF QueueFacts
  <2> QED
    BY <2>1, <2>2, <2>3, <1>0 DEF PostInv, SendKept, Quiet
<1>10. ASSUME reset_iterator PROVE PostInv'
  <2>0. /\ UNCHANGED <<enabled, base, log, done, post, Cont>>
        /\ next_lsn' = Larger(next_lsn, app + 1)
    BY <1>10, QueueSame DEF reset_iterator, rcFrame
  <2>1. \A i : ~Sending(i) /\ ~Sending(i)'
    BY <1>10 DEF reset_iterator, rcFrame, Unlocked, SubmitReads, Sending
  <2>2. \A i \in 1 .. app : Quiet(i)
    BY <1>10, <1>0 DEF reset_iterator, RoleInv
  <2>3. \A j \in 1 .. Len(log) : ~Quiet(j) /\ j < next_lsn' => j < next_lsn
    BY <2>0, <2>2, <1>n, <1>t DEF Larger
  <2>4. next_lsn <= next_lsn' /\ next_lsn' \in Nat
    BY <2>0, <1>n, <1>t DEF Larger
  <2> QED
    BY <2>0, <2>1, <2>3, <2>4, <1>0, <1>n, <1>t DEF PostInv, Quiet
<1>11. ASSUME NEW scn \in 1 .. Len(log) + 1, NEW lsn \in 1 .. scn, enable(lsn, scn)
       PROVE  PostInv'
  <2>0. post' = 0 /\ base' = scn /\ next_lsn' = lsn /\ log' = log
    BY <1>11, <1>0 DEF enable, EnabledInv
  <2>1. \A i : ~Sending(i)'
    BY <1>11, <1>0 DEF enable, submit_submit_task, EnabledInv, SubmitReads, Sending
  <2> QED
    BY <2>0, <2>1 DEF PostInv
<1>12. ASSUME disable_ PROVE PostInv'
  BY <1>12 DEF disable_, PostInv
<1>13. ASSUME NEW e \in Entries, Commit(e) PROVE PostInv'
  <2>1. /\ Len(log') = Len(log) + 1 /\ \A i \in 1 .. Len(log) : log'[i] = log[i]
        /\ SendKept /\ Len(log) \in Nat
    BY <1>13, CommitFacts DEF Commit, logFrame
  <2>2. UNCHANGED <<Cont, base, next_lsn, enabled, done, post>>
    BY <1>13, QueueSame DEF Commit, logFrame
  <2>3. \A i : Sending(i) => i <= Len(log)
    BY <1>0 DEF Sending, SubmitInv
  <2>4. enabled => next_lsn <= Len(log) + 1
    BY <1>0 DEF EnabledInv
  <2>5. ASSUME enabled, NEW j \in 1 .. Len(log'), log'[j].post, base <= j, ~Quiet(j)',
               j < next_lsn \/ Sending(j)
        PROVE  post = j
    <3>1. j \in 1 .. Len(log)
      BY <2>1, <2>3, <2>4, <2>5, <1>n
    <3>2. log'[j] = log[j] /\ ~Quiet(j)
      BY <3>1, <2>1, <2>2, <2>5 DEF Quiet
    <3> QED
      BY <3>1, <3>2, <2>5, <1>0 DEF PostInv
  <2>6. post # 0 => post \in 1 .. Len(log') /\ log'[post].post
    BY <2>1, <1>0 DEF PostInv
  <2> QED
    BY <2>1, <2>2, <2>5, <2>6, <1>0 DEF PostInv, SendKept
<1>14. ASSUME NEW e \in Entries, CommitOwn(e) PROVE PostInv'
  <2>1. /\ Len(log') = Len(log) + 1 /\ \A i \in 1 .. Len(log) : log'[i] = log[i]
        /\ SendKept /\ Len(log) \in Nat
    BY <1>14, CommitFacts DEF CommitOwn, logFrame
  <2>2. UNCHANGED <<Cont, base, next_lsn, enabled, done, post>>
    BY <1>14, QueueSame DEF CommitOwn, logFrame
  <2>3. \A i : Sending(i) => i <= Len(log)
    BY <1>0 DEF Sending, SubmitInv
  <2>4. enabled => next_lsn <= Len(log) + 1
    BY <1>0 DEF EnabledInv
  <2>5. ASSUME enabled, NEW j \in 1 .. Len(log'), log'[j].post, base <= j, ~Quiet(j)',
               j < next_lsn \/ Sending(j)
        PROVE  post = j
    <3>1. j \in 1 .. Len(log)
      BY <2>1, <2>3, <2>4, <2>5, <1>n
    <3>2. log'[j] = log[j] /\ ~Quiet(j)
      BY <3>1, <2>1, <2>2, <2>5 DEF Quiet
    <3> QED
      BY <3>1, <3>2, <2>5, <1>0 DEF PostInv
  <2>6. post # 0 => post \in 1 .. Len(log') /\ log'[post].post
    BY <2>1, <1>0 DEF PostInv
  <2> QED
    BY <2>1, <2>2, <2>5, <2>6, <1>0 DEF PostInv, SendKept
<1>15. ASSUME Apply PROVE PostInv'
  <2>0. UNCHANGED <<enabled, base, log, next_lsn, Cont, sub_pc, bc, post>> /\ rc = "leading"
    BY <1>15, QueueSame DEF Apply
  <2>1. SendKept
    BY <2>0, SendSame
  <2>2. app' > end_lsn /\ mine > end_lsn /\ end_lsn \in Nat /\ app' \in Nat
    BY <1>15, <1>0, <1>f, MaxLogAssumption DEF Apply, Larger, TypeOK
  <2>3. next_lsn = end_lsn + 1 /\ \A i : ~Sending(i)
    BY <2>0, <2>2, <1>0 DEF RoleInv, Sending
  <2>4. post # 0 => post # app'
    BY <2>2, <2>3, <1>0, <1>t DEF PostInv
  <2>5. done \subseteq done' /\ done' \subseteq done \union {app'}
    BY <1>15 DEF Apply
  <2> QED
    BY <2>0, <2>1, <2>4, <2>5, <1>0 DEF PostInv, SendKept, Quiet
<1> QED
  BY <1>1, <1>2, <1>3, <1>4, <1>5, <1>6, <1>7, <1>8, <1>9, <1>10, <1>11, <1>12,
     <1>13, <1>14, <1>15 DEF Next, SubmitStep, QueueStep, ScanStep, RoleStep,
     AdminStep, LogStep

(* What WakeInv speaks of is left alone, and so it is kept.                *)
QueuesAwake == enabled => \A q \in Queues : Front[q] # 0 => QueueAwake(q)
SubmitterAwake == enabled /\ need_submit_log /\ next_lsn <= Len(log) => SubmitAwake

(* A step that only adds reasons to run keeps the queues awake.            *)
LEMMA QueuesAwakeSame ==
  ASSUME QueuesAwake, UNCHANGED <<enabled, Front, need_batch, lease, pc>>,
         SubmitReads => SubmitReads'
  PROVE  QueuesAwake'
BY DEF QueuesAwake, QueueAwake

(* Every step keeps queues with tasks awake: acquire and revoke of the     *)
(* lease, need_batch_push_.                                                *)
LEMMA QueuesAwakeStep ==
  IInv /\ Next => QueuesAwake'
<1> SUFFICES ASSUME IInv, Next PROVE QueuesAwake'
  OBVIOUS
<1> USE DEF logVars, rcVars, stVars, nextVars, subVars, taskVars, taskQueueVars, envVars
<1>0. /\ TypeOK /\ QueuesOrdered /\ EnabledInv /\ SubmitInv /\ TasksInv /\ DoneInv
      /\ HeadInv /\ RoleInv /\ PostInv /\ ScanInv /\ LeaseInv /\ WakeInv /\ CoveredInv
  BY DEF IInv
<1>f. QueueFacts /\ QueueFacts' /\ TypeOK'
  BY <1>0, QueueFactsHold, TypeStep
<1>n. /\ next_lsn \in Nat /\ next_scn \in Nat /\ base \in Nat
      /\ \A q \in Queues : Front[q] \in Nat /\ \A x \in Cont[q] : x \in Nat
  BY Numbers
<1>e. \A i \in 1 .. Len(log) : log[i].q \in Queues /\ i \in 1 .. MaxLog
  BY <1>0, LogEntry
<1>w. QueuesAwake /\ SubmitterAwake
  BY <1>0 DEF WakeInv, QueuesAwake, SubmitterAwake
<1>1. CASE (\E d \in BOOLEAN : ScanStart(d)) \/ ScanQueue \/ ScanEnd \/ BecomeLeader \/
           LoseLeader \/ GiveUp \/ switch_to_leader \/ Serve \/ StepDown \/
           reset_iterator \/ FollowerRole \/ disable \/ block_submit \/
           unblock_submit \/ (\E e \in Entries : Commit(e) \/ CommitOwn(e))
  <2>1. UNCHANGED <<enabled, queue, need_batch, lease, pc, sub_pc>>
    BY <1>1 DEF ScanStart, scanFrame, ScanQueue, ScanEnd, IdleScan,
       BecomeLeader, rcFrame, LoseLeader, GiveUp, switch_to_leader, Serve,
       StepDown, reset_iterator, Larger, FollowerRole, disable, block_submit,
       unblock_submit, Commit, logFrame, CommitOwn
  <2> QED
    BY <2>1, <1>w, QueuesAwakeSame, QueueSame DEF SubmitReads
<1>2. CASE Apply \/ FsCheck
  <2>1. UNCHANGED <<enabled, queue, need_batch, lease, pc, sub_pc>>
    BY <1>2 DEF Apply, Larger, FsCheck
  <2> QED
    BY <2>1, <1>w, QueuesAwakeSame, QueueSame DEF SubmitReads
<1>3. ASSUME SubmitTake PROVE QueuesAwake'
  <2>1. UNCHANGED <<enabled, Front, need_batch, lease, pc>> /\ (SubmitReads => SubmitReads')
    BY <1>3, QueueSame, <1>0 DEF SubmitTake, SubmitGoto, SubmitReads, LeaseInv
  <2> QED
    BY <2>1, <1>w, QueuesAwakeSame
<1>4. ASSUME SubmitCheck PROVE QueuesAwake'
  <2>1. UNCHANGED <<enabled, Front, need_batch, lease, pc>> /\ (SubmitReads => SubmitReads')
    BY <1>4, QueueSame, <1>0 DEF SubmitCheck, SubmitGoto, SubmitReads, LeaseInv
  <2> QED
    BY <2>1, <1>w, QueuesAwakeSame
<1>5. ASSUME FetchNone PROVE QueuesAwake'
  <2>1. UNCHANGED <<enabled, Front, need_batch, lease, pc>> /\ (SubmitReads => SubmitReads')
    BY <1>5, QueueSame, <1>0 DEF FetchNone, SubmitGoto, SubmitReads, LeaseInv
  <2> QED
    BY <2>1, <1>w, QueuesAwakeSame
<1>6. ASSUME FetchSkip PROVE QueuesAwake'
  <2>1. UNCHANGED <<enabled, Front, need_batch, lease, pc>> /\ (SubmitReads => SubmitReads')
    BY <1>6, QueueSame, <1>0 DEF FetchSkip, SubmitGoto, Fetched, SubmitReads, LeaseInv
  <2> QED
    BY <2>1, <1>w, QueuesAwakeSame
<1>7. ASSUME FetchRetry PROVE QueuesAwake'
  <2>1. UNCHANGED <<enabled, Front, need_batch, lease, pc>> /\ (SubmitReads => SubmitReads')
    BY <1>7, QueueSame, <1>0 DEF FetchRetry, SubmitGoto, Fetched, SubmitReads, LeaseInv
  <2> QED
    BY <2>1, <1>w, QueuesAwakeSame
<1>8. ASSUME FetchPush PROVE QueuesAwake'
  <2>i. PICK q : q = log[next_lsn].q
    OBVIOUS
  <2>0. q \in Queues
    BY <1>8, <2>i, PushFacts, FetchFacts
  <2>1. UNCHANGED <<enabled, lease, pc>> /\ SubmitReads'
    BY <1>8 DEF FetchPush, SubmitLog, SubmitGoto, SubmitReads
  <2>2. need_batch'[q] /\ \A r \in Queues : need_batch[r] => need_batch'[r]
    BY <1>8, <2>0, <2>i, <1>0 DEF FetchPush, PushTask, TypeOK
  <2>3. \A r \in Queues : r # q => Front'[r] = Front[r]
    BY <1>8, <2>i, PushFacts, <1>f DEF QueueFacts
  <2> QED
    BY <2>1, <2>2, <2>3, <1>w DEF QueuesAwake, QueueAwake
<1>9. ASSUME FetchBroadcast PROVE QueuesAwake'
  <2>1. UNCHANGED <<enabled, Front, need_batch, lease, pc>> /\ (SubmitReads => SubmitReads')
    BY <1>9, QueueSame, <1>0 DEF FetchBroadcast, SubmitLog, SubmitGoto, Fetched, SubmitReads, LeaseInv
  <2> QED
    BY <2>1, <1>w, QueuesAwakeSame
<1>10. ASSUME Broadcast PROVE QueuesAwake'
  <2>i. PICK q : q = bc
    OBVIOUS
  <2>0. q \in Queues
    BY <1>10, <2>i, BroadcastFacts, SendFacts
  <2>1. UNCHANGED <<enabled, lease, pc>> /\ SubmitReads'
    BY <1>10 DEF Broadcast, SubmitGoto, SubmitReads
  <2>2. need_batch'[q] /\ \A r \in Queues : need_batch[r] => need_batch'[r]
    BY <1>10, <2>0, <2>i, <1>0 DEF Broadcast, PushTask, TypeOK
  <2>3. \A r \in Queues : r # q => Front'[r] = Front[r]
    BY <1>10, <2>i, BroadcastFacts, <1>f DEF QueueFacts
  <2> QED
    BY <2>1, <2>2, <2>3, <1>w DEF QueuesAwake, QueueAwake
<1>11. ASSUME BroadcastSignal PROVE QueuesAwake'
  <2>i. PICK q : q = bc
    OBVIOUS
  <2>0. q \in Queues
    BY <1>11, <2>i, SignalFacts, SendFacts
  <2>1. UNCHANGED <<enabled, Front>> /\ SubmitReads'
    BY <1>11, QueueSame DEF BroadcastSignal, SubmitGoto, SubmitReads
  <2>2. \A r \in Queues : r # q =>
          need_batch'[r] = need_batch[r] /\ lease'[r] = lease[r] /\ pc'[r] = pc[r]
    BY <1>11, <2>i, <1>0 DEF BroadcastSignal, submit_task_queue, TypeOK
  <2>3. lease'[q] = "ready" \/ (lease'[q] = "handling" /\ pc'[q] = "pool")
    BY <1>11, <2>0, <2>i, <1>0 DEF BroadcastSignal, submit_task_queue, Acquired, TypeOK
  <2> QED
    BY <2>1, <2>2, <2>3, <1>w DEF QueuesAwake, QueueAwake
<1>12. ASSUME SubmitMeta PROVE QueuesAwake'
  <2>1. UNCHANGED <<enabled, Front, need_batch, lease, pc>> /\ (SubmitReads => SubmitReads')
    BY <1>12, QueueSame, <1>0 DEF SubmitMeta, SubmitGoto, SubmitReads, LeaseInv
  <2> QED
    BY <2>1, <1>w, QueuesAwakeSame
<1>13. ASSUME NEW q \in Queues, batch_push_all_task_queue(q) PROVE QueuesAwake'
  <2>1. UNCHANGED <<enabled, Front>> /\ SubmitReads'
    BY <1>13, QueueSame DEF batch_push_all_task_queue, subVars, SubmitReads
  <2>2. \A r \in Queues : r # q =>
          need_batch'[r] = need_batch[r] /\ lease'[r] = lease[r] /\ pc'[r] = pc[r]
    BY <1>13, <1>0 DEF batch_push_all_task_queue, submit_task_queue, TypeOK
  <2>3. lease'[q] = "ready" \/ (lease'[q] = "handling" /\ pc'[q] = "pool")
    BY <1>13, <1>0 DEF batch_push_all_task_queue, submit_task_queue, Acquired, TypeOK
  <2> QED
    BY <2>1, <2>2, <2>3, <1>w DEF QueuesAwake, QueueAwake
<1>14. ASSUME SubmitEnd PROVE QueuesAwake'
  <2>1. UNCHANGED <<enabled, Front, need_batch, lease, pc>> /\ \A q \in Queues : ~need_batch[q]
    BY <1>14, QueueSame DEF SubmitEnd
  <2> QED
    BY <2>1, <1>w DEF QueuesAwake, QueueAwake
<1>15. ASSUME SubmitRevoke PROVE QueuesAwake'
  <2>1. UNCHANGED <<enabled, Front, need_batch, lease, pc>> /\ (SubmitReads => SubmitReads')
    BY <1>15, QueueSame, <1>0 DEF SubmitRevoke, SubmitReads, LeaseInv
  <2> QED
    BY <2>1, <1>w, QueuesAwakeSame
<1>16. ASSUME NEW q \in Queues, QueueTake(q) PROVE QueuesAwake'
  <2>1. /\ UNCHANGED <<enabled, Front, need_batch, sub_pc>>
        /\ \A r \in Queues : r # q => lease'[r] = lease[r] /\ pc'[r] = pc[r]
    BY <1>16, QueueSame, <1>0 DEF QueueTake, QueueGoto, queueFrame, TypeOK
  <2>2. enabled => lease'[q] \in {"handling", "ready"} /\ pc'[q] \in {"pool", "top", "replay", "pop"}
    BY <1>16, <1>0, <1>f DEF QueueTake, QueueGoto, queueFrame, TypeOK, LeaseInv, LeaseStates, QueueFacts
  <2> QED
    BY <2>1, <2>2, <1>w DEF QueuesAwake, QueueAwake, SubmitReads
<1>17. ASSUME NEW q \in Queues, QueueEmpty(q) PROVE QueuesAwake'
  <2>1. /\ UNCHANGED <<enabled, Front, need_batch, sub_pc>>
        /\ \A r \in Queues : r # q => lease'[r] = lease[r] /\ pc'[r] = pc[r]
    BY <1>17, QueueSame, <1>0 DEF QueueEmpty, QueueGoto, queueFrame, TypeOK
  <2>2. enabled => Front[q] = 0
    BY <1>17, <1>0, <1>f DEF QueueEmpty, QueueGoto, queueFrame, TypeOK, LeaseInv, LeaseStates, QueueFacts
  <2> QED
    BY <2>1, <2>2, <1>w DEF QueuesAwake, QueueAwake, SubmitReads
<1>18. ASSUME NEW q \in Queues, QueueWait(q) PROVE QueuesAwake'
  <2>1. /\ UNCHANGED <<enabled, Front, need_batch, sub_pc>>
        /\ \A r \in Queues : r # q => lease'[r] = lease[r] /\ pc'[r] = pc[r]
    BY <1>18, QueueSame, <1>0 DEF QueueWait, QueueGoto, queueFrame, HasTop, TypeOK
  <2>2. lease'[q] \in {"handling", "ready"} /\ pc'[q] \in {"pool", "top", "replay", "pop"}
    BY <1>18, <1>0, <1>f DEF QueueWait, QueueGoto, queueFrame, HasTop, TypeOK, LeaseInv, LeaseStates, QueueFacts
  <2> QED
    BY <2>1, <2>2, <1>w DEF QueuesAwake, QueueAwake, SubmitReads
<1>19. ASSUME NEW q \in Queues, QueueStart(q) PROVE QueuesAwake'
  <2>1. /\ UNCHANGED <<enabled, Front, need_batch, sub_pc>>
        /\ \A r \in Queues : r # q => lease'[r] = lease[r] /\ pc'[r] = pc[r]
    BY <1>19, QueueSame, <1>0 DEF QueueStart, QueueGoto, queueFrame, HasTop, TypeOK
  <2>2. lease'[q] \in {"handling", "ready"} /\ pc'[q] \in {"pool", "top", "replay", "pop"}
    BY <1>19, <1>0, <1>f DEF QueueStart, QueueGoto, queueFrame, HasTop, TypeOK, LeaseInv, LeaseStates, QueueFacts
  <2> QED
    BY <2>1, <2>2, <1>w DEF QueuesAwake, QueueAwake, SubmitReads
<1>20. ASSUME NEW q \in Queues, ReplayOk(q) PROVE QueuesAwake'
  <2>1. /\ UNCHANGED <<enabled, Front, need_batch, sub_pc>>
        /\ \A r \in Queues : r # q => lease'[r] = lease[r] /\ pc'[r] = pc[r]
    BY <1>20, QueueSame, <1>0 DEF ReplayOk, QueueGoto, queueFrame, TypeOK
  <2>2. lease'[q] \in {"handling", "ready"} /\ pc'[q] \in {"pool", "top", "replay", "pop"}
    BY <1>20, <1>0, <1>f DEF ReplayOk, QueueGoto, queueFrame, TypeOK, LeaseInv, LeaseStates, QueueFacts
  <2> QED
    BY <2>1, <2>2, <1>w DEF QueuesAwake, QueueAwake, SubmitReads
<1>21. ASSUME NEW q \in Queues, ReplayFail(q) PROVE QueuesAwake'
  <2>1. /\ UNCHANGED <<enabled, Front, need_batch, sub_pc>>
        /\ \A r \in Queues : r # q => lease'[r] = lease[r] /\ pc'[r] = pc[r]
    BY <1>21, QueueSame, <1>0 DEF ReplayFail, QueueGoto, queueFrame, TypeOK
  <2>2. lease'[q] \in {"handling", "ready"} /\ pc'[q] \in {"pool", "top", "replay", "pop"}
    BY <1>21, <1>0, <1>f DEF ReplayFail, QueueGoto, queueFrame, TypeOK, LeaseInv, LeaseStates, QueueFacts
  <2> QED
    BY <2>1, <2>2, <1>w DEF QueuesAwake, QueueAwake, SubmitReads
<1>22. ASSUME NEW q \in Queues, QueuePop(q) PROVE QueuesAwake'
  <2>1. /\ UNCHANGED <<enabled, need_batch, sub_pc>>
        /\ \A r \in Queues : r # q => lease'[r] = lease[r] /\ pc'[r] = pc[r]
    BY <1>22, <1>0 DEF QueuePop, QueueGoto, queueFrame, TypeOK
  <2>2. \A r \in Queues : r # q => Front'[r] = Front[r]
    BY <1>22, PopFacts
  <2>3. lease'[q] \in {"handling", "ready"} /\ pc'[q] \in {"pool", "top"}
    BY <1>22, <1>0 DEF QueuePop, QueueGoto, TypeOK, LeaseInv, LeaseStates
  <2> QED
    BY <2>1, <2>2, <2>3, <1>w DEF QueuesAwake, QueueAwake, SubmitReads
<1>23. ASSUME NEW q \in Queues, QueueRevoke(q) PROVE QueuesAwake'
  <2>1. /\ UNCHANGED <<enabled, Front, need_batch, sub_pc>>
        /\ \A r \in Queues : r # q => lease'[r] = lease[r] /\ pc'[r] = pc[r]
    BY <1>23, QueueSame, <1>0 DEF QueueRevoke, TypeOK
  <2>2. \/ lease'[q] = "handling" /\ pc'[q] = "pool"
        \/ ~(\/ lease[q] = "ready"
             \/ lease[q] = "handling" /\ pc[q] \in {"pool", "top", "replay", "pop"})
    BY <1>23, <1>0, <1>f DEF QueueRevoke, TypeOK, LeaseInv, LeaseStates, QueueFacts
  <2> QED
    BY <2>1, <2>2, <1>w DEF QueuesAwake, QueueAwake, SubmitReads
<1>24. ASSUME FollowerPush PROVE QueuesAwake'
  <2>1. UNCHANGED <<enabled, Front, need_batch, lease, pc>> /\ (SubmitReads => SubmitReads')
    BY <1>24, QueueSame, <1>0 DEF FollowerPush, submit_submit_task, Acquired, rcFrame, SubmitReads, LeaseInv
  <2> QED
    BY <2>1, <1>w, QueuesAwakeSame
<1>25. ASSUME NEW scn \in 1 .. Len(log) + 1, NEW lsn \in 1 .. scn, enable(lsn, scn)
       PROVE  QueuesAwake'
  <2>1. \A q \in Queues : Front'[q] = 0
    BY <1>25, <1>0, QueueSame DEF enable, EnabledInv
  <2> QED
    BY <2>1 DEF QueuesAwake
<1>26. ASSUME disable_ PROVE QueuesAwake'
  BY <1>26 DEF disable_, QueuesAwake
<1>27. ASSUME UnblockPush PROVE QueuesAwake'
  <2>1. UNCHANGED <<enabled, Front, need_batch, lease, pc>> /\ (SubmitReads => SubmitReads')
    BY <1>27, QueueSame, <1>0 DEF UnblockPush, submit_submit_task, Acquired, SubmitReads, LeaseInv
  <2> QED
    BY <2>1, <1>w, QueuesAwakeSame
<1>28. ASSUME FsPush PROVE QueuesAwake'
  <2>1. UNCHANGED <<enabled, Front, need_batch, lease, pc>> /\ (SubmitReads => SubmitReads')
    BY <1>28, QueueSame, <1>0 DEF FsPush, submit_submit_task, Acquired, SubmitReads, LeaseInv
  <2> QED
    BY <2>1, <1>w, QueuesAwakeSame
<1> QED
  BY <1>1, <1>2, <1>3, <1>4, <1>5, <1>6, <1>7, <1>8, <1>9, <1>10, <1>11, <1>12,
     <1>13, <1>14, <1>15, <1>16, <1>17, <1>18, <1>19, <1>20, <1>21, <1>22,
     <1>23, <1>24, <1>25, <1>26, <1>27, <1>28 DEF Next, SubmitStep, QueueStep,
     ScanStep, RoleStep, AdminStep, LogStep

(* A step that only adds reasons to run keeps the submit task awake.       *)
LEMMA SubmitterAwakeSame ==
  ASSUME SubmitterAwake,
         UNCHANGED <<enabled, role, blocked, next_lsn, log, fs_check, fs_push,
                     unblocking, sub_lease, sub_pc, again>>,
         rc = "push" => rc' = "push"
  PROVE  SubmitterAwake'
BY DEF SubmitterAwake, SubmitAwake, need_submit_log

(* Every step keeps the submit task awake while there is something to      *)
(* submit.                                                                 *)
LEMMA SubmitterAwakeStep ==
  IInv /\ Next => SubmitterAwake'
<1> SUFFICES ASSUME IInv, Next PROVE SubmitterAwake'
  OBVIOUS
<1> USE DEF logVars, rcVars, stVars, nextVars, subVars, taskVars, taskQueueVars, envVars
<1>0. /\ TypeOK /\ QueuesOrdered /\ EnabledInv /\ SubmitInv /\ TasksInv /\ DoneInv
      /\ HeadInv /\ RoleInv /\ PostInv /\ ScanInv /\ LeaseInv /\ WakeInv /\ CoveredInv
  BY DEF IInv
<1>f. QueueFacts /\ QueueFacts' /\ TypeOK'
  BY <1>0, QueueFactsHold, TypeStep
<1>n. /\ next_lsn \in Nat /\ next_scn \in Nat /\ base \in Nat
      /\ \A q \in Queues : Front[q] \in Nat /\ \A x \in Cont[q] : x \in Nat
  BY Numbers
<1>e. \A i \in 1 .. Len(log) : log[i].q \in Queues /\ i \in 1 .. MaxLog
  BY <1>0, LogEntry
<1>w. QueuesAwake /\ SubmitterAwake
  BY <1>0 DEF WakeInv, QueuesAwake, SubmitterAwake
<1>1. CASE (\E q \in Queues : batch_push_all_task_queue(q) \/ QueueTake(q) \/
           QueueEmpty(q) \/ QueueWait(q) \/ QueueStart(q) \/ ReplayOk(q) \/
           ReplayFail(q) \/ QueuePop(q) \/ QueueRevoke(q)) \/ (\E d \in
           BOOLEAN : ScanStart(d)) \/ ScanQueue \/ LoseLeader \/ Apply
  <2>1. UNCHANGED <<enabled, role, blocked, next_lsn, log, fs_check, fs_push, unblocking, rc, sub_lease, sub_pc, again>>
    BY <1>1 DEF batch_push_all_task_queue, submit_task_queue, Acquired,
       QueueTake, QueueGoto, queueFrame, QueueEmpty, QueueWait, HasTop,
       QueueStart, ReplayOk, ReplayFail, QueuePop, QueueRevoke, ScanStart,
       scanFrame, ScanQueue, LoseLeader, rcFrame, Apply, Larger
  <2> QED
    BY <2>1, <1>w, SubmitterAwakeSame
<1>2. ASSUME SubmitTake PROVE SubmitterAwake'
  BY <1>2, <1>0, <1>w DEF SubmitTake, SubmitGoto, SubmitterAwake, SubmitAwake,
     need_submit_log, LeaseInv, LeaseStates, TypeOK
<1>3. ASSUME SubmitCheck PROVE SubmitterAwake'
  BY <1>3, <1>0, <1>w DEF SubmitCheck, SubmitGoto, SubmitterAwake, SubmitAwake,
     need_submit_log, LeaseInv, LeaseStates, TypeOK
<1>4. ASSUME FetchNone PROVE SubmitterAwake'
  BY <1>4, <1>0, <1>w DEF FetchNone, SubmitGoto, SubmitterAwake, SubmitAwake,
     need_submit_log, LeaseInv, LeaseStates, TypeOK
<1>5. ASSUME FetchSkip PROVE SubmitterAwake'
  BY <1>5, <1>0, <1>w DEF FetchSkip, SubmitGoto, Fetched, SubmitterAwake,
     SubmitAwake, need_submit_log, LeaseInv, LeaseStates, TypeOK
<1>6. ASSUME FetchRetry PROVE SubmitterAwake'
  BY <1>6, <1>0, <1>w DEF FetchRetry, SubmitGoto, Fetched, SubmitterAwake,
     SubmitAwake, need_submit_log, LeaseInv, LeaseStates, TypeOK
<1>7. ASSUME FetchPush PROVE SubmitterAwake'
  BY <1>7, <1>0, <1>w DEF FetchPush, SubmitLog, PushTask, SubmitGoto, Fetched,
     SubmitterAwake, SubmitAwake, need_submit_log, LeaseInv, LeaseStates, TypeOK
<1>8. ASSUME FetchBroadcast PROVE SubmitterAwake'
  BY <1>8, <1>0, <1>w DEF FetchBroadcast, SubmitLog, SubmitGoto, Fetched,
     SubmitterAwake, SubmitAwake, need_submit_log, LeaseInv, LeaseStates, TypeOK
<1>9. ASSUME Broadcast PROVE SubmitterAwake'
  BY <1>9, <1>0, <1>w DEF Broadcast, PushTask, SubmitGoto, SubmitterAwake,
     SubmitAwake, need_submit_log, LeaseInv, LeaseStates, TypeOK
<1>10. ASSUME BroadcastSignal PROVE SubmitterAwake'
  BY <1>10, <1>0, <1>w DEF BroadcastSignal, submit_task_queue, Acquired,
     SubmitGoto, SubmitterAwake, SubmitAwake, need_submit_log, LeaseInv,
     LeaseStates, TypeOK
<1>11. ASSUME SubmitMeta PROVE SubmitterAwake'
  BY <1>11, <1>0, <1>w DEF SubmitMeta, SubmitGoto, SubmitterAwake, SubmitAwake,
     need_submit_log, LeaseInv, LeaseStates, TypeOK
<1>12. ASSUME SubmitEnd PROVE SubmitterAwake'
  BY <1>12, <1>0, <1>w DEF SubmitEnd, SubmitGoto, SubmitterAwake, SubmitAwake,
     need_submit_log, LeaseInv, LeaseStates, TypeOK
<1>13. ASSUME SubmitRevoke PROVE SubmitterAwake'
  BY <1>13, <1>0, <1>w DEF SubmitRevoke, SubmitterAwake, SubmitAwake,
     need_submit_log, LeaseInv, LeaseStates, TypeOK
<1>14. ASSUME ScanEnd PROVE SubmitterAwake'
  <2>1. /\ UNCHANGED <<enabled, role, blocked, next_lsn, log, fs_check, fs_push,
                       unblocking, sub_lease, sub_pc, again>>
        /\ rc = "push" => rc' = "push"
    BY <1>14, <1>0 DEF ScanEnd, scanFrame, IdleScan, EnabledInv
  <2> QED
    BY <2>1, <1>w, SubmitterAwakeSame
<1>15. ASSUME BecomeLeader PROVE SubmitterAwake'
  <2>1. /\ UNCHANGED <<enabled, role, blocked, next_lsn, log, fs_check, fs_push,
                       unblocking, sub_lease, sub_pc, again>>
        /\ rc = "push" => rc' = "push"
    BY <1>15, <1>0 DEF BecomeLeader, rcFrame, EnabledInv
  <2> QED
    BY <2>1, <1>w, SubmitterAwakeSame
<1>16. ASSUME GiveUp PROVE SubmitterAwake'
  <2>1. /\ UNCHANGED <<enabled, role, blocked, next_lsn, log, fs_check, fs_push,
                       unblocking, sub_lease, sub_pc, again>>
        /\ rc = "push" => rc' = "push"
    BY <1>16, <1>0 DEF GiveUp, rcFrame, EnabledInv
  <2> QED
    BY <2>1, <1>w, SubmitterAwakeSame
<1>17. ASSUME switch_to_leader PROVE SubmitterAwake'
  BY <1>17 DEF switch_to_leader, rcFrame, SubmitterAwake, need_submit_log
<1>18. ASSUME Serve PROVE SubmitterAwake'
  <2>1. /\ UNCHANGED <<enabled, role, blocked, next_lsn, log, fs_check, fs_push,
                       unblocking, sub_lease, sub_pc, again>>
        /\ rc = "push" => rc' = "push"
    BY <1>18, <1>0 DEF Serve, rcFrame, EnabledInv
  <2> QED
    BY <2>1, <1>w, SubmitterAwakeSame
<1>19. ASSUME StepDown PROVE SubmitterAwake'
  <2>1. /\ UNCHANGED <<enabled, role, blocked, next_lsn, log, fs_check, fs_push,
                       unblocking, sub_lease, sub_pc, again>>
        /\ rc = "push" => rc' = "push"
    BY <1>19, <1>0 DEF StepDown, rcFrame, EnabledInv
  <2> QED
    BY <2>1, <1>w, SubmitterAwakeSame
<1>20. ASSUME reset_iterator PROVE SubmitterAwake'
  BY <1>20, <1>0 DEF reset_iterator, rcFrame, Larger, SubmitterAwake,
     need_submit_log, RoleInv
<1>21. ASSUME FollowerRole PROVE SubmitterAwake'
  BY <1>21 DEF FollowerRole, rcFrame, SubmitterAwake, SubmitAwake
<1>22. ASSUME FollowerPush PROVE SubmitterAwake'
  BY <1>22, <1>0, <1>w DEF FollowerPush, submit_submit_task, Acquired, rcFrame,
     SubmitterAwake, SubmitAwake, need_submit_log, LeaseInv, LeaseStates, TypeOK
<1>23. ASSUME NEW scn \in 1 .. Len(log) + 1, NEW lsn \in 1 .. scn, enable(lsn, scn)
       PROVE  SubmitterAwake'
  BY <1>23, <1>0, <1>w DEF enable, submit_submit_task, Acquired, SubmitterAwake,
     SubmitAwake, need_submit_log, LeaseInv, LeaseStates, TypeOK
<1>24. ASSUME disable PROVE SubmitterAwake'
  BY <1>24 DEF disable, SubmitterAwake, need_submit_log
<1>25. ASSUME disable_ PROVE SubmitterAwake'
  BY <1>25 DEF disable_, SubmitterAwake, need_submit_log
<1>26. ASSUME block_submit PROVE SubmitterAwake'
  BY <1>26 DEF block_submit, SubmitterAwake, need_submit_log
<1>27. ASSUME unblock_submit PROVE SubmitterAwake'
  BY <1>27 DEF unblock_submit, SubmitterAwake, SubmitAwake
<1>28. ASSUME UnblockPush PROVE SubmitterAwake'
  BY <1>28, <1>0, <1>w DEF UnblockPush, submit_submit_task, Acquired,
     SubmitterAwake, SubmitAwake, need_submit_log, LeaseInv, LeaseStates, TypeOK
<1>29. ASSUME NEW e \in Entries, Commit(e) PROVE SubmitterAwake'
  BY <1>29 DEF Commit, logFrame, SubmitterAwake, SubmitAwake
<1>30. ASSUME NEW e \in Entries, CommitOwn(e) PROVE SubmitterAwake'
  BY <1>30 DEF CommitOwn, logFrame, SubmitterAwake, SubmitAwake
<1>31. ASSUME FsCheck PROVE SubmitterAwake'
  BY <1>31, <1>w DEF FsCheck, SubmitterAwake, SubmitAwake, need_submit_log
<1>32. ASSUME FsPush PROVE SubmitterAwake'
  BY <1>32, <1>0, <1>w DEF FsPush, submit_submit_task, Acquired, SubmitterAwake,
     SubmitAwake, need_submit_log, LeaseInv, LeaseStates, TypeOK
<1> QED
  BY <1>1, <1>2, <1>3, <1>4, <1>5, <1>6, <1>7, <1>8, <1>9, <1>10, <1>11, <1>12,
     <1>13, <1>14, <1>15, <1>16, <1>17, <1>18, <1>19, <1>20, <1>21, <1>22,
     <1>23, <1>24, <1>25, <1>26, <1>27, <1>28, <1>29, <1>30, <1>31, <1>32 DEF
     Next, SubmitStep, QueueStep, ScanStep, RoleStep, AdminStep, LogStep

(* A reader that has been through all queues: what is before its position  *)
(* has taken effect.                                                       *)
LEMMA Answered ==
  ASSUME IInv, enabled, scan.pc = "answer"
  PROVE  /\ scan.lsn <= next_lsn
         /\ \A q \in Queues : \A x \in Cont[q] : x >= scan.lsn
         /\ \A i \in 1 .. Len(log) : i < scan.lsn \/ i < scan.scn => Quiet(i)
<1>0. TypeOK /\ ScanInv /\ CoveredInv
  BY DEF IInv
<1>n. /\ next_lsn \in Nat /\ base \in Nat /\ scan.lsn \in Nat /\ scan.scn \in Nat
      /\ \A q \in Queues : \A x \in Cont[q] : x \in Nat
  BY Numbers
<1>1. \A q \in Queues : q < NQ + 1
  BY NQAssumption DEF Queues
<1>2. /\ scan.lsn <= next_lsn /\ (scan.scn <= scan.lsn \/ scan.scn <= base)
      /\ \A q \in Queues : \A x \in Cont[q] : x >= scan.lsn
  BY <1>0, <1>1 DEF ScanInv
<1>3. ASSUME NEW i \in 1 .. Len(log), i < scan.lsn \/ i < scan.scn PROVE Quiet(i)
  <2>1. CASE i < base
    BY <2>1, <1>0, <1>n DEF CoveredInv
  <2>2. CASE ~(i < base)
    <3>1. i < scan.lsn /\ i < next_lsn
      BY <2>2, <1>2, <1>3, <1>n
    <3>2. i \notin Cont[log[i].q]
      BY <3>1, <1>0, <1>2, <1>n, LogEntry
    <3> QED
      BY <2>2, <3>1, <3>2, <1>0 DEF CoveredInv, Sent
  <2> QED
    BY <2>1, <2>2
<1> QED
  BY <1>2, <1>3

(* RoleInv in two parts: the numbers, and what the queues hold.            *)
RoleNumbers ==
    /\ role = "LEADER" <=> rc \in {"clear", "leading", "reset", "role"}
    /\ rc \in {"leading", "reset", "role"} =>
          sub_pc \notin {"fetch", "bcast", "signal", "meta"}
    /\ app <= mine /\ end_lsn <= mine /\ mine <= Len(log)
    /\ own => /\ rc \in {"wait", "ready", "clear", "leading"}
              /\ mine = Len(log)
              /\ rc # "leading" => mine = end_lsn
    /\ rc \in {"wait", "ready", "clear"} => mine = end_lsn
    /\ rc \in {"wait", "ready", "clear", "leading", "reset"} => base <= end_lsn + 1

RoleQueues ==
    /\ rc \in {"ready", "clear", "leading", "reset"} =>
          /\ next_lsn > end_lsn
          /\ \A i \in 1 .. end_lsn : Quiet(i)
          /\ \A q \in Queues : \A x \in Cont[q] : x > end_lsn
    /\ rc \in {"leading", "reset"} =>
          /\ \A i \in 1 .. app : Quiet(i)
          /\ mine > end_lsn \/ own =>
                next_lsn = end_lsn + 1 /\ \A q \in Queues : Front[q] = 0

(* RoleInv in two parts: positions and roles, and queues and effects.      *)
LEMMA RoleParts == RoleInv <=> RoleNumbers /\ RoleQueues
BY DEF RoleInv, RoleNumbers, RoleQueues

(* A step that leaves positions and roles alone keeps the first part.      *)
LEMMA RoleNumbersSame ==
  ASSUME RoleNumbers, UNCHANGED <<role, rc, sub_pc, app, end_lsn, mine, log, own, base>>
  PROVE  RoleNumbers'
BY DEF RoleNumbers

(* Every step preserves the first part.                                    *)
LEMMA RoleNumbersStep ==
  IInv /\ Next => RoleNumbers'
<1> SUFFICES ASSUME IInv, Next PROVE RoleNumbers'
  OBVIOUS
<1> USE DEF logVars, rcVars, stVars, nextVars, subVars, taskVars, taskQueueVars, envVars
<1>0. /\ TypeOK /\ QueuesOrdered /\ EnabledInv /\ SubmitInv /\ TasksInv /\ DoneInv
      /\ HeadInv /\ RoleInv /\ ScanInv /\ LeaseInv /\ CoveredInv
  BY DEF IInv
<1>f. QueueFacts /\ QueueFacts' /\ TypeOK'
  BY <1>0, QueueFactsHold, TypeStep
<1>n. /\ next_lsn \in Nat /\ next_scn \in Nat /\ base \in Nat
      /\ \A q \in Queues : Front[q] \in Nat /\ \A x \in Cont[q] : x \in Nat
  BY Numbers
<1>t. app \in Nat /\ end_lsn \in Nat /\ mine \in Nat /\ Len(log) \in Nat
  BY <1>0, MaxLogAssumption DEF TypeOK
<1>r. RoleNumbers /\ RoleQueues
  BY <1>0, RoleParts
<1>1. CASE (\E q \in Queues : batch_push_all_task_queue(q) \/ QueueTake(q) \/
           QueueEmpty(q) \/ QueueWait(q) \/ QueueStart(q) \/ ReplayOk(q) \/
           ReplayFail(q) \/ QueuePop(q) \/ QueueRevoke(q)) \/ (\E d \in
           BOOLEAN : ScanStart(d)) \/ ScanQueue \/ disable \/ block_submit
           \/ unblock_submit \/ FsCheck
  <2>1. UNCHANGED <<role, rc, sub_pc, app, end_lsn, mine, log, own, base>>
    BY <1>1 DEF batch_push_all_task_queue, submit_task_queue, Acquired,
       QueueTake, QueueGoto, queueFrame, QueueEmpty, QueueWait, HasTop,
       QueueStart, ReplayOk, ReplayFail, QueuePop, QueueRevoke, ScanStart,
       scanFrame, ScanQueue, disable, block_submit, unblock_submit, FsCheck
  <2> QED
    BY <2>1, <1>r, RoleNumbersSame
<1>2. ASSUME SubmitTake PROVE RoleNumbers'
  BY <1>2, <1>0, <1>r DEF SubmitTake, SubmitGoto, RoleNumbers, LeaseInv, RoleInv
<1>3. ASSUME SubmitCheck PROVE RoleNumbers'
  BY <1>3, <1>r DEF SubmitCheck, SubmitGoto, RoleNumbers, need_submit_log
<1>4. ASSUME FetchNone PROVE RoleNumbers'
  BY <1>4, <1>0, <1>r DEF FetchNone, SubmitGoto, RoleNumbers, LeaseInv, RoleInv
<1>5. ASSUME FetchSkip PROVE RoleNumbers'
  BY <1>5, <1>0, <1>r DEF FetchSkip, SubmitGoto, Fetched, RoleNumbers, LeaseInv,
     RoleInv
<1>6. ASSUME FetchRetry PROVE RoleNumbers'
  BY <1>6, <1>0, <1>r DEF FetchRetry, SubmitGoto, Fetched, RoleNumbers,
     LeaseInv, RoleInv
<1>7. ASSUME FetchPush PROVE RoleNumbers'
  BY <1>7, <1>0, <1>r DEF FetchPush, SubmitLog, PushTask, SubmitGoto, Fetched,
     RoleNumbers, LeaseInv, RoleInv
<1>8. ASSUME FetchBroadcast PROVE RoleNumbers'
  BY <1>8, <1>0, <1>r DEF FetchBroadcast, SubmitLog, SubmitGoto, Fetched,
     RoleNumbers, LeaseInv, RoleInv
<1>9. ASSUME Broadcast PROVE RoleNumbers'
  BY <1>9, <1>0, <1>r DEF Broadcast, PushTask, SubmitGoto, RoleNumbers,
     LeaseInv, RoleInv
<1>10. ASSUME BroadcastSignal PROVE RoleNumbers'
  BY <1>10, <1>0, <1>r DEF BroadcastSignal, submit_task_queue, Acquired,
     SubmitGoto, RoleNumbers, LeaseInv, RoleInv
<1>11. ASSUME SubmitMeta PROVE RoleNumbers'
  BY <1>11, <1>0, <1>r DEF SubmitMeta, SubmitGoto, RoleNumbers, LeaseInv,
     RoleInv
<1>12. ASSUME SubmitEnd PROVE RoleNumbers'
  BY <1>12, <1>0, <1>r DEF SubmitEnd, SubmitGoto, RoleNumbers, LeaseInv, RoleInv
<1>13. ASSUME SubmitRevoke PROVE RoleNumbers'
  BY <1>13, <1>0, <1>r DEF SubmitRevoke, RoleNumbers, LeaseInv, RoleInv
<1>14. ASSUME ScanEnd PROVE RoleNumbers'
  BY <1>14, <1>0, <1>r DEF ScanEnd, scanFrame, IdleScan, RoleNumbers, EnabledInv
<1>15. ASSUME BecomeLeader PROVE RoleNumbers'
  BY <1>15, <1>0, <1>r, <1>t DEF BecomeLeader, rcFrame, RoleNumbers, EnabledInv
<1>16. ASSUME LoseLeader PROVE RoleNumbers'
  BY <1>16, <1>0, <1>r DEF LoseLeader, rcFrame, RoleNumbers, LeaseInv, RoleInv
<1>17. ASSUME GiveUp PROVE RoleNumbers'
  BY <1>17, <1>0, <1>r DEF GiveUp, rcFrame, RoleNumbers, LeaseInv, RoleInv
<1>18. ASSUME switch_to_leader PROVE RoleNumbers'
  BY <1>18, <1>0, <1>r DEF switch_to_leader, rcFrame, RoleNumbers, LeaseInv,
     RoleInv
<1>19. ASSUME Serve PROVE RoleNumbers'
  BY <1>19, <1>0, <1>r DEF Serve, rcFrame, RoleNumbers, LeaseInv, RoleInv
<1>20. ASSUME StepDown PROVE RoleNumbers'
  BY <1>20, <1>0, <1>r DEF StepDown, rcFrame, RoleNumbers, LeaseInv, RoleInv
<1>21. ASSUME reset_iterator PROVE RoleNumbers'
  BY <1>21, <1>0, <1>r DEF reset_iterator, rcFrame, Larger, RoleNumbers,
     LeaseInv, RoleInv
<1>22. ASSUME FollowerRole PROVE RoleNumbers'
  BY <1>22, <1>0, <1>r DEF FollowerRole, rcFrame, RoleNumbers, LeaseInv, RoleInv
<1>23. ASSUME FollowerPush PROVE RoleNumbers'
  BY <1>23, <1>0, <1>r DEF FollowerPush, submit_submit_task, Acquired, rcFrame,
     RoleNumbers, LeaseInv, RoleInv
<1>24. ASSUME NEW scn \in 1 .. Len(log) + 1, NEW lsn \in 1 .. scn, enable(lsn, scn)
       PROVE  RoleNumbers'
  BY <1>24, <1>0, <1>r DEF enable, submit_submit_task, Acquired, RoleNumbers,
     LeaseInv
<1>25. ASSUME disable_ PROVE RoleNumbers'
  BY <1>25, <1>0, <1>r DEF disable_, RoleNumbers, EnabledInv
<1>26. ASSUME UnblockPush PROVE RoleNumbers'
  BY <1>26, <1>0, <1>r DEF UnblockPush, submit_submit_task, Acquired,
     RoleNumbers, LeaseInv, RoleInv
<1>27. ASSUME NEW e \in Entries, Commit(e) PROVE RoleNumbers'
  <2>1. Len(log') = Len(log) + 1
    BY <1>27, CommitFacts DEF Commit, logFrame
  <2> QED
    BY <1>27, <2>1, <1>r, <1>t DEF Commit, logFrame, RoleNumbers
<1>28. ASSUME NEW e \in Entries, CommitOwn(e) PROVE RoleNumbers'
  <2>1. Len(log') = Len(log) + 1
    BY <1>28, CommitFacts DEF CommitOwn, logFrame
  <2> QED
    BY <1>28, <2>1, <1>r, <1>t DEF CommitOwn, logFrame, RoleNumbers
<1>29. ASSUME Apply PROVE RoleNumbers'
  BY <1>29, <1>r, <1>t DEF Apply, Larger, RoleNumbers
<1>30. ASSUME FsPush PROVE RoleNumbers'
  BY <1>30, <1>0, <1>r DEF FsPush, submit_submit_task, Acquired, RoleNumbers,
     LeaseInv, RoleInv
<1> QED
  BY <1>1, <1>2, <1>3, <1>4, <1>5, <1>6, <1>7, <1>8, <1>9, <1>10, <1>11, <1>12,
     <1>13, <1>14, <1>15, <1>16, <1>17, <1>18, <1>19, <1>20, <1>21, <1>22,
     <1>23, <1>24, <1>25, <1>26, <1>27, <1>28, <1>29, <1>30 DEF Next,
     SubmitStep, QueueStep, ScanStep, RoleStep, AdminStep, LogStep

(* A step that leaves the role change, queues and effects alone keeps the  *)
(* second part.                                                            *)
LEMMA RoleQueuesSame ==
  ASSUME RoleQueues, UNCHANGED <<rc, end_lsn, mine, app, next_lsn, log, done, own, Cont, Front>>
  PROVE  RoleQueues'
BY DEF RoleQueues, Quiet

(* Every step preserves the second part: what is_replay_done has found     *)
(* stays true until the next reset_iterator.                               *)
LEMMA RoleQueuesStep ==
  IInv /\ Next => RoleQueues'
<1> SUFFICES ASSUME IInv, Next PROVE RoleQueues'
  OBVIOUS
<1> USE DEF logVars, rcVars, stVars, nextVars, subVars, taskVars, taskQueueVars, envVars
<1>0. /\ TypeOK /\ QueuesOrdered /\ EnabledInv /\ SubmitInv /\ TasksInv /\ DoneInv
      /\ HeadInv /\ RoleInv /\ ScanInv /\ LeaseInv /\ CoveredInv
  BY DEF IInv
<1>f. QueueFacts /\ QueueFacts' /\ TypeOK'
  BY <1>0, QueueFactsHold, TypeStep
<1>n. /\ next_lsn \in Nat /\ next_scn \in Nat /\ base \in Nat
      /\ \A q \in Queues : Front[q] \in Nat /\ \A x \in Cont[q] : x \in Nat
  BY Numbers
<1>t. app \in Nat /\ end_lsn \in Nat /\ mine \in Nat /\ Len(log) \in Nat
  BY <1>0, MaxLogAssumption DEF TypeOK
<1>r. RoleNumbers /\ RoleQueues
  BY <1>0, RoleParts
<1>1. CASE SubmitTake \/ SubmitCheck \/ FetchNone \/ FetchSkip \/ FetchRetry \/
           FetchBroadcast \/ BroadcastSignal \/ (\E q \in Queues :
           batch_push_all_task_queue(q)) \/ SubmitEnd \/ SubmitRevoke \/ (\E
           q \in Queues : QueueTake(q) \/ QueueEmpty(q) \/ QueueWait(q) \/
           QueueStart(q) \/ ReplayFail(q) \/ QueueRevoke(q))
  <2>1. UNCHANGED <<rc, end_lsn, mine, app, next_lsn, log, done, own, queue>>
    BY <1>1 DEF SubmitTake, SubmitGoto, SubmitCheck, FetchNone, FetchSkip,
       Fetched, FetchRetry, FetchBroadcast, SubmitLog, BroadcastSignal,
       submit_task_queue, Acquired, batch_push_all_task_queue, SubmitEnd,
       SubmitRevoke, QueueTake, QueueGoto, queueFrame, QueueEmpty, QueueWait,
       HasTop, QueueStart, ReplayFail, QueueRevoke
  <2> QED
    BY <2>1, <1>r, RoleQueuesSame, QueueSame
<1>2. CASE (\E d \in BOOLEAN : ScanStart(d)) \/ ScanQueue \/ disable \/ block_submit \/
           unblock_submit \/ UnblockPush \/ FsCheck \/ FsPush
  <2>1. UNCHANGED <<rc, end_lsn, mine, app, next_lsn, log, done, own, queue>>
    BY <1>2 DEF ScanStart, scanFrame, ScanQueue, disable, block_submit,
       unblock_submit, UnblockPush, submit_submit_task, Acquired, FsCheck,
       FsPush
  <2> QED
    BY <2>1, <1>r, RoleQueuesSame, QueueSame
<1>3. ASSUME FetchPush PROVE RoleQueues'
  <2>0. /\ UNCHANGED <<rc, end_lsn, mine, app, next_lsn, log, done, own>>
        /\ rc \notin {"leading", "reset"}
    BY <1>3, <1>r DEF FetchPush, SubmitLog, Fetched, RoleNumbers
  <2>1. \A q \in Queues : \A x \in Cont'[q] : x \in Cont[q] \/ x = next_lsn
    BY <1>3, PushFacts, <1>f DEF QueueFacts
  <2> QED
    BY <2>0, <2>1, <1>r DEF RoleQueues, Quiet
<1>4. ASSUME Broadcast PROVE RoleQueues'
  <2>0. /\ UNCHANGED <<rc, end_lsn, mine, app, next_lsn, log, done, own>>
        /\ rc \notin {"leading", "reset"}
    BY <1>4, <1>r DEF Broadcast, Fetched, RoleNumbers
  <2>1. \A q \in Queues : \A x \in Cont'[q] : x \in Cont[q] \/ x = next_lsn
    BY <1>4, BroadcastFacts, <1>f DEF QueueFacts
  <2> QED
    BY <2>0, <2>1, <1>r DEF RoleQueues, Quiet
<1>5. ASSUME SubmitMeta PROVE RoleQueues'
  BY <1>5, <1>r, <1>n, <1>t, QueueSame DEF SubmitMeta, SubmitGoto, RoleQueues,
     RoleNumbers, Quiet
<1>6. ASSUME NEW q \in Queues, ReplayOk(q) PROVE RoleQueues'
  <2>1. UNCHANGED <<rc, end_lsn, mine, app, next_lsn, log, own, Cont, Front>> /\ done \subseteq done'
    BY <1>6, QueueSame DEF ReplayOk, queueFrame
  <2> QED
    BY <2>1, <1>r DEF RoleQueues, Quiet
<1>7. ASSUME NEW q \in Queues, QueuePop(q) PROVE RoleQueues'
  <2>0. UNCHANGED <<rc, end_lsn, mine, app, next_lsn, log, done, own>>
    BY <1>7 DEF QueuePop, queueFrame
  <2>1. \A r \in Queues : Cont'[r] \subseteq Cont[r]
    BY <1>7, PopFacts, <1>f DEF QueueFacts
  <2>2. Front[q] # 0
    BY <1>7, TopFacts DEF QueuePop
  <2> QED
    BY <2>0, <2>1, <2>2, <1>r DEF RoleQueues, Quiet
<1>8. ASSUME ScanEnd PROVE RoleQueues'
  <2>0. UNCHANGED <<end_lsn, mine, app, next_lsn, log, done, own, Cont, Front>>
    BY <1>8, QueueSame DEF ScanEnd, scanFrame
  <2>1. CASE rc' = rc
    BY <2>0, <2>1, <1>r, RoleQueuesSame
  <2>2. CASE rc' # rc
    <3>1. rc' = "ready" /\ scan.done /\ scan.lsn > end_lsn /\ scan.pc = "answer" /\ scan.lsn \in Nat
      BY <1>8, <2>2, Numbers DEF ScanEnd
    <3>2. rc = "wait" /\ enabled
      BY <3>1, <1>0 DEF EnabledInv
    <3>3. /\ scan.lsn <= next_lsn
          /\ \A q \in Queues : \A x \in Cont[q] : x >= scan.lsn
          /\ \A i \in 1 .. Len(log) : i < scan.lsn => Quiet(i)
      BY <3>1, <3>2, Answered
    <3>4. next_lsn > end_lsn /\ \A q \in Queues : \A x \in Cont[q] : x > end_lsn
      BY <3>1, <3>3, <1>n, <1>t
    <3>5. \A i \in 1 .. end_lsn : Quiet(i)
      BY <3>1, <3>3, <1>r, <1>t DEF RoleNumbers
    <3> QED
      BY <2>0, <3>1, <3>4, <3>5 DEF RoleQueues, Quiet
  <2> QED
    BY <2>1, <2>2
<1>9. ASSUME BecomeLeader PROVE RoleQueues'
  BY <1>9 DEF BecomeLeader, rcFrame, RoleQueues
<1>10. ASSUME LoseLeader PROVE RoleQueues'
  BY <1>10, <1>r, QueueSame DEF LoseLeader, rcFrame, RoleQueues, Quiet
<1>11. ASSUME GiveUp PROVE RoleQueues'
  BY <1>11 DEF GiveUp, rcFrame, RoleQueues
<1>12. ASSUME switch_to_leader PROVE RoleQueues'
  BY <1>12, <1>r, QueueSame DEF switch_to_leader, rcFrame, RoleQueues, Quiet
<1>13. ASSUME Serve PROVE RoleQueues'
  <2>0. UNCHANGED <<end_lsn, mine, app, next_lsn, log, done, own, Cont, Front>>
    BY <1>13, QueueSame DEF Serve, rcFrame
  <2>1. rc = "clear" /\ rc' = "leading"
    BY <1>13 DEF Serve
  <2>2. mine = end_lsn /\ app <= end_lsn
    BY <2>1, <1>r DEF RoleNumbers
  <2>3. next_lsn > end_lsn /\ next_lsn <= Len(log) + 1
    BY <2>1, <1>r, <1>0 DEF RoleQueues, EnabledInv
  <2>4. own => next_lsn = end_lsn + 1
    BY <2>2, <2>3, <1>r, <1>n, <1>t DEF RoleNumbers
  <2>5. own => \A q \in Queues : Cont[q] = {}
    <3>1. \A q \in Queues : \A x \in Cont[q] : x > end_lsn /\ x <= Len(log)
      BY <2>1, <1>r, <1>0 DEF RoleQueues, TasksInv
    <3> QED
      BY <3>1, <2>2, <1>r, <1>n, <1>t DEF RoleNumbers
  <2>6. own => \A q \in Queues : Front[q] = 0
    BY <2>5, <1>f DEF QueueFacts
  <2>7. \A i \in 1 .. app : Quiet(i)
    BY <2>1, <2>2, <1>r, <1>t DEF RoleQueues
  <2> QED
    BY <2>0, <2>1, <2>2, <2>4, <2>6, <2>7, <1>r, <1>t DEF RoleQueues, Quiet
<1>14. ASSUME StepDown PROVE RoleQueues'
  BY <1>14, <1>r, QueueSame DEF StepDown, rcFrame, RoleQueues, Quiet
<1>15. ASSUME reset_iterator PROVE RoleQueues'
  BY <1>15 DEF reset_iterator, rcFrame, Larger, RoleQueues
<1>16. ASSUME FollowerRole PROVE RoleQueues'
  BY <1>16 DEF FollowerRole, rcFrame, RoleQueues
<1>17. ASSUME FollowerPush PROVE RoleQueues'
  BY <1>17 DEF FollowerPush, submit_submit_task, Acquired, rcFrame, RoleQueues
<1>18. ASSUME NEW scn \in 1 .. Len(log) + 1, NEW lsn \in 1 .. scn, enable(lsn, scn)
       PROVE  RoleQueues'
  BY <1>18 DEF enable, submit_submit_task, Acquired, RoleQueues
<1>19. ASSUME disable_ PROVE RoleQueues'
  BY <1>19, <1>0 DEF disable_, RoleQueues, EnabledInv
<1>20. ASSUME NEW e \in Entries, Commit(e) PROVE RoleQueues'
  <2>1. Len(log') = Len(log) + 1 /\ \A i \in 1 .. Len(log) : log'[i] = log[i]
    BY <1>20, CommitFacts DEF Commit, logFrame
  <2>2. UNCHANGED <<rc, end_lsn, app, next_lsn, done, own, Cont, Front>>
    BY <1>20, QueueSame DEF Commit, logFrame
  <2>3. /\ \A i \in 1 .. end_lsn : i \in 1 .. Len(log)
        /\ \A i \in 1 .. app : i \in 1 .. Len(log)
    BY <1>r, <1>t DEF RoleNumbers
  <2>4. mine' > end_lsn \/ own => mine > end_lsn \/ own
    BY <1>20 DEF Commit
  <2> QED
    BY <2>1, <2>2, <2>3, <2>4, <1>r DEF RoleQueues, Quiet
<1>21. ASSUME NEW e \in Entries, CommitOwn(e) PROVE RoleQueues'
  <2>1. Len(log') = Len(log) + 1 /\ \A i \in 1 .. Len(log) : log'[i] = log[i]
    BY <1>21, CommitFacts DEF CommitOwn, logFrame
  <2>2. UNCHANGED <<rc, end_lsn, app, next_lsn, done, own, Cont, Front>>
    BY <1>21, QueueSame DEF CommitOwn, logFrame
  <2>3. /\ \A i \in 1 .. end_lsn : i \in 1 .. Len(log)
        /\ \A i \in 1 .. app : i \in 1 .. Len(log)
    BY <1>r, <1>t DEF RoleNumbers
  <2>4. mine' > end_lsn \/ own => mine > end_lsn \/ own
    BY <1>21 DEF CommitOwn
  <2> QED
    BY <2>1, <2>2, <2>3, <2>4, <1>r DEF RoleQueues, Quiet
<1>22. ASSUME Apply PROVE RoleQueues'
  <2>0. UNCHANGED <<rc, end_lsn, mine, next_lsn, log, own, Cont, Front>> /\ done \subseteq done'
    BY <1>22, QueueSame DEF Apply
  <2>1. /\ app' = Larger(app, end_lsn) + 1 /\ rc = "leading"
        /\ app' \in done' \/ log[app'].pad
    BY <1>22 DEF Apply
  <2>2. \A i \in 1 .. app' : i \in 1 .. app \/ i \in 1 .. end_lsn \/ i = app'
    BY <2>1, <1>t DEF Larger
  <2>3. \A i \in 1 .. app' : Quiet(i)'
    BY <2>0, <2>1, <2>2, <1>r DEF RoleQueues, Quiet
  <2> QED
    BY <2>0, <2>3, <1>r DEF RoleQueues, Quiet
<1> QED
  BY <1>1, <1>2, <1>3, <1>4, <1>5, <1>6, <1>7, <1>8, <1>9, <1>10, <1>11, <1>12,
     <1>13, <1>14, <1>15, <1>16, <1>17, <1>18, <1>19, <1>20, <1>21, <1>22 DEF
     Next, SubmitStep, QueueStep, ScanStep, RoleStep, AdminStep, LogStep
-------------------------------------------------------------------------------
(* The invariant holds.                                                    *)

(* The invariant holds when ObReplayStatus is constructed.                 *)
LEMMA InitInv == Init => IInv
<1> SUFFICES ASSUME Init PROVE IInv
  OBVIOUS
<1> USE NQAssumption, MaxLogAssumption, EntriesAssumption
<1>1. BoolOK
  BY DEF Init, BoolOK
<1>2. DataOK
  <2>1. /\ lease \in [Queues -> LeaseStates] /\ pc \in [Queues -> QueuePcs]
        /\ queue \in [Queues -> Seq(1 .. MaxLog)] /\ ref \in [1 .. MaxLog -> Int]
    BY DEF Init, LeaseStates, QueuePcs
  <2>2. log \in Seq(Entries) /\ Len(log) = 0
    BY DEF Init
  <2> QED
    BY <2>1, <2>2 DEF Init, DataOK, LeaseStates, SubPcs, RcStates
<1>3. scan \in ScanType /\ scan.pc = "idle" /\ ~scan.done
  BY DEF Init, IdleScan, ScanType
<1>4. TypeOK
  BY <1>1, <1>2, <1>3, TypeParts
<1>5. QueuesOrdered /\ QueueFacts
  <2>1. QueuesOrdered
    BY DEF Init, QueuesOrdered
  <2> QED
    BY <2>1, <1>4, QueueFactsHold
<1>6. \A q \in Queues : Front[q] = 0 /\ Cont[q] = {}
  BY <1>5 DEF Init, QueueFacts
<1>7. Len(log) = 0 /\ 1 .. Len(log) = {}
  BY DEF Init
<1>8. EnabledInv /\ SubmitInv /\ TasksInv
  BY <1>3, <1>6 DEF Init, EnabledInv, SubmitInv, TasksInv, SubmitReads
<1>9. CoveredInv /\ DoneInv /\ HeadInv /\ BroadcastInv
  BY <1>6, <1>7 DEF Init, CoveredInv, DoneInv, HeadInv, BroadcastInv
<1>10. RefInv /\ PostInv
  BY <1>6, <1>7 DEF Init, RefInv, PostInv
<1>11. PendingInv
  <2>1. Pend = {}
    BY <1>7 DEF Pend
  <2> QED
    BY <2>1, FS_EmptySet DEF Init, PendingInv
<1>12. ScanInv
  BY <1>3 DEF ScanInv
<1>13. RoleInv
  BY <1>7 DEF Init, RoleInv
<1>14. LeaseInv
  BY DEF Init, LeaseInv
<1>15. WakeInv
  BY DEF Init, WakeInv
<1> QED
  BY <1>4, <1>5, <1>8, <1>9, <1>10, <1>11, <1>12, <1>13, <1>14, <1>15 DEF IInv

(* Every step preserves the invariant.                                     *)
LEMMA InvStep == IInv /\ [Next]_vars => IInv'
<1> SUFFICES ASSUME IInv, [Next]_vars PROVE IInv'
  OBVIOUS
<1>1. CASE Next
  <2>1. TypeOK' /\ QueuesOrdered'
    BY <1>1, TypeStep
  <2>2. EnabledInv' /\ SubmitInv' /\ TasksInv'
    BY <1>1, EnabledStep, SubmitStepInv, TasksStep
  <2>3. CoveredInv' /\ DoneInv' /\ HeadInv' /\ BroadcastInv'
    BY <1>1, CoveredStep, DoneStep, HeadStep, BroadcastStep
  <2>4. RefInv' /\ PostInv' /\ PendingInv' /\ ScanInv' /\ LeaseInv'
    BY <1>1, RefStep, PostStep, PendingStep, ScanStepInv, LeaseStep
  <2>5. RoleNumbers' /\ RoleQueues'
    BY <1>1, RoleNumbersStep, RoleQueuesStep
  <2>6. RoleInv'
    BY <2>5, RoleParts, PTL
  <2>7. QueuesAwake' /\ SubmitterAwake'
    BY <1>1, QueuesAwakeStep, SubmitterAwakeStep
  <2>8. WakeInv'
    BY <2>7 DEF WakeInv, QueuesAwake, SubmitterAwake
  <2> QED
    BY <2>1, <2>2, <2>3, <2>4, <2>6, <2>8 DEF IInv
<1>2. CASE UNCHANGED vars
  <2> USE <1>2 DEF vars, logVars, rcVars, stVars, nextVars, subVars, taskVars, taskQueueVars,
                   envVars
  <2>0. SendKept /\ RunKept /\ UNCHANGED <<Cont, Front>>
    BY SendSame, RunSame, QueueSame
  <2>i. /\ TypeOK /\ QueuesOrdered /\ EnabledInv /\ SubmitInv /\ TasksInv /\ CoveredInv
        /\ DoneInv /\ HeadInv /\ BroadcastInv /\ RefInv /\ PostInv /\ PendingInv
        /\ ScanInv /\ RoleInv /\ LeaseInv /\ WakeInv
    BY DEF IInv
  <2>1. TypeOK'
    BY <2>i DEF TypeOK
  <2>2. QueuesOrdered' /\ SubmitInv' /\ LeaseInv' /\ ScanInv'
    BY <2>0, <2>i, QueueSame, SubmitSame, LeaseSame, ScanSame
  <2>3. EnabledInv'
    BY <2>0, <2>i DEF EnabledInv, SubmitReads
  <2>4. TasksInv' /\ CoveredInv' /\ DoneInv'
    BY <2>0, <2>i, TasksSame, CoveredSame, DoneSame
  <2>5. HeadInv' /\ BroadcastInv' /\ PostInv'
    BY <2>0, <2>i, HeadSame, BroadcastSame, PostSame
  <2>6. RefInv' /\ PendingInv'
    BY <2>0, <2>i, HoldersSame, RefSame, PendSame, PendingSame
  <2>7. RoleInv'
    BY <2>0, <2>i DEF RoleInv, Quiet
  <2>8. WakeInv'
    BY <2>0, <2>i DEF WakeInv, QueueAwake, SubmitAwake, SubmitReads, need_submit_log
  <2> QED
    BY <2>1, <2>2, <2>3, <2>4, <2>5, <2>6, <2>7, <2>8 DEF IInv
<1> QED
  BY <1>1, <1>2

(* The inductive invariant of the replay service holds, for any number of  *)
(* queues (REPLAY_TASK_QUEUE_SIZE), logs and kinds of logs.                *)
THEOREM Invariance == Spec => []IInv
BY InitInv, InvStep, PTL DEF Spec

(* The state of ObReplayStatus, of its tasks and of its environment has    *)
(* its type.                                                               *)
THEOREM TypeCorrect == Spec => []TypeOK
<1>1. IInv => TypeOK
  BY DEF IInv
<1> QED
  BY <1>1, Invariance, PTL

(* get_max_replayed_scn and is_replay_done are never ahead of the replay,  *)
(* although get_min_unreplayed_log_info reads the queues one after the     *)
(* other while they are filled and drained.                                *)
THEOREM AnswersAreSound == Spec => []AnswerSound
<1>1. IInv => AnswerSound
  BY Answered DEF AnswerSound
<1> QED
  BY <1>1, Invariance, PTL

(* While the replica leads, nothing is left for it to replay:              *)
(* switch_follower_to_leader_ has waited for the replay and for the submit *)
(* task.                                                                   *)
THEOREM LeaderHasReplayed == Spec => []LeaderReplaysNothing
<1>1. IInv => LeaderReplaysNothing
  <2> SUFFICES ASSUME IInv, rc = "leading", own
               PROVE  /\ \A i \in 1 .. end_lsn : Quiet(i)
                      /\ \A q \in Queues : queue[q] = << >>
                      /\ next_lsn = end_lsn + 1
    BY DEF LeaderReplaysNothing
  <2>1. RoleInv /\ QueueFacts
    BY QueueFactsHold DEF IInv
  <2> QED
    BY <2>1 DEF RoleInv, QueueFacts
<1> QED
  BY <1>1, Invariance, PTL

(* The branches of check_replay_barrier, set_post_barrier_finished and     *)
(* enable_ that report OB_ERR_UNEXPECTED are never taken.                  *)
THEOREM NoBranchIsUnexpected == Spec => []NoUnexpectedBranch
<1>1. IInv => NoUnexpectedBranch
  <2> SUFFICES ASSUME IInv PROVE NoUnexpectedBranch
    OBVIOUS
  <2>0. /\ TypeOK /\ TasksInv /\ EnabledInv /\ HeadInv /\ RefInv /\ PostInv /\ PendingInv
        /\ QueueFacts
    BY QueueFactsHold DEF IInv
  <2>n. next_lsn \in Nat /\ next_scn \in Nat
    BY Numbers
  <2>1. ASSUME NEW q \in Queues, queue[q] # << >>, NEW i, i = Head(queue[q])
        PROVE  /\ pc[q] = "top" /\ log[i].pre => ref[i] >= IF log[i].q = q THEN 1 ELSE 2
               /\ pc[q] = "replay" /\ log[i].post => post = i
    <3>1. i = Front[q] /\ Front[q] # 0 /\ i \in Cont[q] /\ enabled
      BY <2>0, <2>1 DEF QueueFacts, EnabledInv
    <3>2. /\ i \in 1 .. Len(log) /\ base <= i /\ ~log[i].pad
          /\ i < next_scn \/ Sending(i)
      BY <2>0, <3>1 DEF TasksInv
    <3>3. ASSUME pc[q] = "top", log[i].pre
          PROVE  ref[i] >= IF log[i].q = q THEN 1 ELSE 2
      <4>1. q \in Holders(i) /\ log[i].q \in Holders(i) /\ ref[i] = Cardinality(Holders(i))
        <5>1. q \in Holders(i)
          BY <3>1, <3>3 DEF Holders
        <5> QED
          BY <5>1, <2>0, <3>2, <3>3 DEF RefInv
      <4>2. IsFiniteSet(Holders(i)) /\ Cardinality(Holders(i)) \in Nat
        BY HoldersFinite
      <4>3. Cardinality({q}) = 1 /\ {q} \subseteq Holders(i)
        BY <4>1, FS_Singleton
      <4>4. Cardinality(Holders(i)) >= 1
        BY <4>2, <4>3, FS_Subset
      <4>5. CASE log[i].q # q
        <5>0. IsFiniteSet({q}) /\ log[i].q \notin {q}
          BY <4>5, FS_Singleton
        <5>1. Cardinality({q} \union {log[i].q}) = Cardinality({q}) + 1
          BY <5>0, FS_AddElement, Zenon
        <5> QED
          BY <5>1, <4>1, <4>2, <4>3, <4>5, FS_Subset
      <4> QED
        BY <4>1, <4>4, <4>5
    <3>4. ASSUME pc[q] = "replay", log[i].post PROVE post = i
      <4>1. i \notin done
        BY <3>1, <3>4, <2>0 DEF HeadInv
      <4>2. i < next_lsn \/ Sending(i)
        BY <3>1, <3>2, <2>0, <2>n DEF EnabledInv
      <4> QED
        BY <3>1, <3>2, <3>4, <4>1, <4>2, <2>0 DEF PostInv, Quiet
    <3> QED
      BY <3>3, <3>4
  <2>2. pending \in Nat
    BY <2>0, PendFinite DEF PendingInv
  <2>3. ASSUME ~enabled PROVE pending = 0
    <3>1. \A q \in Queues : Cont[q] = {}
      BY <2>3, <2>0 DEF EnabledInv, QueueFacts
    <3>2. \A i : ~Sending(i)
      BY <2>3, <2>0 DEF EnabledInv, SubmitReads, Sending
    <3>3. Pend = {}
      BY <3>1, <3>2, <2>0, LogEntry DEF Pend
    <3> QED
      BY <3>3, <2>0, FS_EmptySet DEF PendingInv
  <2> QED
    BY <2>1, <2>2, <2>3 DEF NoUnexpectedBranch
<1> QED
  BY <1>1, Invariance, PTL

(* Tasks in a queue and logs to submit always have a thread that will come *)
(* to them: no lease is revoked past a wake-up, and update_end_offset,     *)
(* unblock_submit and switch_to_follower push the submit task in time.     *)
THEOREM NoWakeupIsLost == Spec => []NoLostWakeup
<1>1. IInv => NoLostWakeup
  <2> SUFFICES ASSUME IInv PROVE NoLostWakeup
    OBVIOUS
  <2>1. WakeInv /\ QueueFacts
    BY QueueFactsHold DEF IInv
  <2> QED
    BY <2>1 DEF WakeInv, QueueFacts, NoLostWakeup
<1> QED
  BY <1>1, Invariance, PTL

-------------------------------------------------------------------------------
(* The order in which logs take effect.                                    *)

(* The queue that replays log i has it in front: all that must precede i   *)
(* has taken effect.  A log of the same queue would be in front of i; for  *)
(* a pre barrier no queue holds a reference any more, so that no queue has *)
(* anything before i; a post-barrier log that has not taken effect is the  *)
(* last one in the queues.                                                 *)
LEMMA ReplayInOrder ==
  ASSUME IInv, NEW q \in Queues, pc[q] = "replay", NEW i, i = Front[q],
         NEW j \in 1 .. Len(log), Order!Precedes(j, i)
  PROVE  Quiet(j)
<1>0. /\ TypeOK /\ EnabledInv /\ CoveredInv /\ HeadInv /\ BroadcastInv /\ RefInv /\ PostInv
      /\ QueueFacts
  BY QueueFactsHold DEF IInv
<1>1. /\ enabled /\ i \in 1 .. Len(log) /\ i \in Cont[q] /\ base <= i /\ ~log[i].pad
      /\ i < next_scn \/ (Sending(i) /\ Reached(q))
      /\ \A x \in Cont[q] : i <= x
  BY TopFacts
<1>2. log[i].q = q /\ log[j].q \in Queues
  BY <1>0, LogEntry DEF HeadInv
<1>n. next_lsn \in Nat /\ next_scn \in Nat /\ base \in Nat
  BY Numbers
<1>3. j < i /\ (log[j].q = q \/ log[i].pre \/ log[j].post)
  BY <1>2 DEF Order!Precedes
<1>4. j < next_lsn
  BY <1>0, <1>1, <1>3, <1>n DEF EnabledInv, Sending
<1>5. CASE j < base
  BY <1>5, <1>0, <1>1, <1>n DEF CoveredInv
<1>6. SUFFICES ASSUME ~Quiet(j), base <= j PROVE FALSE
  BY <1>5, <1>n
<1>7. PICK r \in Queues : r = log[j].q
  BY <1>2
<1>8. j \in Cont[r]
  BY <1>0, <1>1, <1>4, <1>6, <1>7, <1>n DEF CoveredInv, Sent
<1>9. Front[r] # 0 /\ Front[r] <= j /\ Front[r] \in Nat
  BY <1>0, <1>8, MaxLogAssumption DEF QueueFacts
<1>10. CASE r = q
  BY <1>10, <1>1, <1>3, <1>8
<1>11. CASE log[i].pre
  <2>1. q \notin Holders(i)
    <3>1. ~(Sending(i) /\ ~Reached(q))
      BY <1>0, <1>1, <1>n DEF EnabledInv, Sending
    <3> QED
      BY <3>1 DEF Holders
  <2>2. Holders(i) = {}
    BY <2>1, <1>0, <1>1, <1>2, <1>11 DEF RefInv
  <2>3. CASE Sent(r, i)
    <3>1. i \in Cont[r] /\ Front[r] # i
      BY <2>3, <1>0, <1>1, <1>3, <1>9, <1>11 DEF BroadcastInv
    <3>2. r \in Holders(i)
      BY <3>1 DEF Holders
    <3> QED
      BY <3>2, <2>2
  <2>4. CASE ~Sent(r, i)
    <3>1. Sending(i) /\ ~Reached(r)
      BY <2>4, <1>0, <1>1, <1>n DEF Sent, EnabledInv
    <3>2. r \in Holders(i)
      BY <3>1 DEF Holders
    <3> QED
      BY <3>2, <2>2
  <2> QED
    BY <2>3, <2>4
<1>12. CASE log[j].post
  <2>1. post = j
    BY <1>12, <1>0, <1>1, <1>4, <1>6 DEF PostInv
  <2>2. i <= post
    BY <2>1, <1>0, <1>1 DEF PostInv
  <2> QED
    BY <2>1, <2>2, <1>1, <1>3
<1> QED
  BY <1>3, <1>7, <1>10, <1>11, <1>12

(* A replay that succeeds is a step of ReplayOrder.                        *)
LEMMA ReplayTakesEffect ==
  ASSUME IInv, NEW q \in Queues, ReplayOk(q)
  PROVE  Order!Next
<1>1. PICK i : i = Front[q]
  OBVIOUS
<1>2. pc[q] = "replay" /\ done' = done \union {Head(queue[q])} /\ log' = log
  BY DEF ReplayOk, queueFrame
<1>3. Head(queue[q]) = i /\ i \in 1 .. Len(log) /\ i \in Cont[q] /\ ~log[i].pad
  BY <1>1, <1>2, TopFacts
<1>4. log[i].q = q /\ HeadInv
  BY <1>1, <1>2 DEF IInv, HeadInv
<1>5. i \notin done
  BY <1>2, <1>3, <1>4 DEF HeadInv
<1>6. \A j \in 1 .. Len(log) : Order!Precedes(j, i) => Quiet(j)
  BY <1>1, <1>2, ReplayInOrder
<1>7. Order!TakeEffect(i)
  BY <1>2, <1>3, <1>5, <1>6 DEF Order!TakeEffect, Order!Quiet, Quiet
<1> QED
  BY <1>3, <1>7 DEF Order!Next

(* The log of this leader whose callback is next has not taken effect, and *)
(* all before it have.                                                     *)
LEMMA NextOfLeader ==
  ASSUME IInv, rc = "leading", NEW i, i = Larger(app, end_lsn) + 1, i <= mine
  PROVE  /\ i \in 1 .. Len(log) /\ i \notin done
         /\ \A j \in 1 .. Len(log) : j < i => Quiet(j)
<1>0. TypeOK /\ RoleInv /\ DoneInv /\ EnabledInv
  BY DEF IInv
<1>n. /\ app \in Nat /\ end_lsn \in Nat /\ mine \in Nat /\ base \in Nat /\ next_lsn \in Nat
      /\ done \in SUBSET Nat /\ Len(log) \in Nat
  BY <1>0, MaxLogAssumption DEF TypeOK
<1>1. i \in Nat /\ i > app /\ i > end_lsn /\ \A j \in Nat : j < i => j <= app \/ j <= end_lsn
  BY <1>n DEF Larger
<1>2. i \in 1 .. Len(log)
  BY <1>0, <1>1, <1>n DEF RoleInv
<1>3. \A j \in 1 .. Len(log) : j < i => Quiet(j)
  <2>1. (\A j \in 1 .. end_lsn : Quiet(j)) /\ (\A j \in 1 .. app : Quiet(j))
    BY <1>0 DEF RoleInv
  <2> QED
    BY <2>1, <1>1, <1>n
<1>4. enabled
  BY <1>0 DEF EnabledInv
<1>5. /\ base <= end_lsn + 1 /\ next_lsn = end_lsn + 1
      /\ sub_pc \notin {"bcast", "signal", "meta"}
  <2>1. base <= end_lsn + 1 /\ sub_pc \notin {"bcast", "signal", "meta"}
    BY <1>0 DEF RoleInv
  <2>2. mine > end_lsn
    BY <1>1, <1>n
  <2>3. next_lsn = end_lsn + 1
    BY <1>0, <2>2 DEF RoleInv
  <2> QED
    BY <2>1, <2>3
<1>6. ~(i < base) /\ ~Sent(log[i].q, i)
  BY <1>5, <1>1, <1>n DEF Sent, Sending
<1>7. i \notin done
  BY <1>4, <1>6, <1>0, <1>1, <1>n DEF DoneInv
<1> QED
  BY <1>2, <1>3, <1>7

(* The leader's own logs take effect in the order of the log, after all    *)
(* that was there when it became leader.                                   *)
LEMMA ApplyTakesEffect ==
  ASSUME IInv, Apply
  PROVE  [Order!Next]_(Order!orderVars)
<1>1. PICK i : i = Larger(app, end_lsn) + 1
  OBVIOUS
<1>2. /\ rc = "leading" /\ i <= mine /\ log' = log
      /\ done' = IF log[i].pad THEN done ELSE done \union {i}
  BY <1>1 DEF Apply
<1>3. /\ i \in 1 .. Len(log) /\ i \notin done
      /\ \A j \in 1 .. Len(log) : j < i => Quiet(j)
  BY <1>1, <1>2, NextOfLeader
<1>4. CASE log[i].pad
  BY <1>2, <1>4 DEF Order!orderVars
<1>5. CASE ~log[i].pad
  <2>1. Order!TakeEffect(i)
    BY <1>2, <1>3, <1>5 DEF Order!TakeEffect, Order!Quiet, Order!Precedes, Quiet
  <2> QED
    BY <2>1, <1>3 DEF Order!Next
<1> QED
  BY <1>4, <1>5

(* All other steps of the threads leave the log and the data alone.        *)
LEMMA SubmitterTakesNoEffect == SubmitStep => UNCHANGED logVars
<1> SUFFICES ASSUME SubmitStep PROVE UNCHANGED logVars
  OBVIOUS
<1>1. CASE SubmitTake \/ SubmitCheck \/ FetchNone \/ FetchSkip \/ FetchRetry
  BY <1>1 DEF SubmitTake, SubmitCheck, FetchNone, FetchSkip, FetchRetry
<1>2. CASE FetchPush \/ FetchBroadcast \/ Broadcast \/ BroadcastSignal \/ SubmitMeta
  BY <1>2 DEF FetchPush, FetchBroadcast, SubmitLog, Broadcast, BroadcastSignal, SubmitMeta
<1>3. CASE \E q \in Queues : batch_push_all_task_queue(q)
  BY <1>3 DEF batch_push_all_task_queue
<1>4. CASE SubmitEnd \/ SubmitRevoke
  BY <1>4 DEF SubmitEnd, SubmitRevoke
<1> QED
  BY <1>1, <1>2, <1>3, <1>4 DEF SubmitStep

(* Nor do the readers of the position ...                                  *)
LEMMA ScanTakesNoEffect == ScanStep => UNCHANGED logVars
BY DEF ScanStep, ScanStart, ScanQueue, ScanEnd, scanFrame

(* ... or the role change thread.                                          *)
LEMMA RoleTakesNoEffect == RoleStep => UNCHANGED logVars
BY DEF RoleStep, BecomeLeader, LoseLeader, GiveUp, switch_to_leader, Serve, StepDown,
       reset_iterator, FollowerRole, FollowerPush, rcFrame

(* Every step of the replay service is a step of ReplayOrder or none.      *)
LEMMA OrderStep == IInv /\ [Next]_vars => [Order!Next]_(Order!orderVars)
<1> SUFFICES ASSUME IInv, [Next]_vars PROVE [Order!Next]_(Order!orderVars)
  OBVIOUS
<1>0. TypeOK
  BY DEF IInv
<1>u. UNCHANGED logVars => [Order!Next]_(Order!orderVars)
  BY DEF logVars, Order!orderVars
<1>1. CASE SubmitStep \/ ScanStep \/ RoleStep
  BY <1>1, <1>u, SubmitterTakesNoEffect, ScanTakesNoEffect, RoleTakesNoEffect
<1>2. ASSUME NEW q \in Queues, QueueStep(q) PROVE [Order!Next]_(Order!orderVars)
  <2>1. CASE ReplayOk(q)
    BY <2>1, ReplayTakesEffect
  <2>2. CASE QueueTake(q) \/ QueueEmpty(q) \/ QueueWait(q) \/ QueueStart(q)
    BY <2>2, <1>u DEF QueueTake, QueueEmpty, QueueWait, QueueStart, queueFrame, logVars
  <2>3. CASE ReplayFail(q) \/ QueuePop(q) \/ QueueRevoke(q)
    BY <2>3, <1>u DEF ReplayFail, QueuePop, QueueRevoke, queueFrame, logVars
  <2> QED
    BY <1>2, <2>1, <2>2, <2>3 DEF QueueStep
<1>3. ASSUME NEW scn \in 1 .. Len(log) + 1, NEW lsn \in 1 .. scn, enable(lsn, scn)
      PROVE  Order!Next
  <2>1. Order!Restart(scn)
    BY <1>3 DEF enable, Order!Restart, Order!Quiet, Quiet
  <2> QED
    BY <2>1 DEF Order!Next
<1>4. CASE disable \/ disable_ \/ block_submit \/ unblock_submit \/ UnblockPush
  BY <1>4, <1>u DEF disable, disable_, block_submit, unblock_submit, UnblockPush
<1>5. ASSUME NEW e \in Entries, Commit(e) \/ CommitOwn(e) PROVE Order!Next
  BY <1>5 DEF Commit, CommitOwn, Order!Next, Order!Write
<1>6. CASE Apply
  BY <1>6, ApplyTakesEffect
<1>7. CASE FsCheck \/ FsPush
  BY <1>7, <1>u DEF FsCheck, FsPush
<1>8. CASE UNCHANGED vars
  BY <1>8, <1>u DEF vars
<1> QED
  BY <1>1, <1>2, <1>3, <1>4, <1>5, <1>6, <1>7, <1>8 DEF Next, AdminStep, LogStep

(* The replay service implements ReplayOrder for any number of queues and  *)
(* logs: whatever the threads of the pool, the barriers, the retries, the  *)
(* role changes and the restarts from a checkpoint do, a log takes effect  *)
(* only after those that must precede it (push_log_replay_task,            *)
(* check_submit_barrier, check_replay_barrier, switch_to_follower).        *)
THEOREM TakesEffectInOrder == Spec => OrderSpec
<1>1. Init => Order!Init
  BY DEF Init, Order!Init
<1> QED
  BY <1>1, OrderStep, Invariance, PTL DEF Spec, OrderSpec, Order!Spec

(* No log takes effect twice: neither the queues nor the callbacks come to *)
(* a log that has taken effect, also not after reset_iterator and after    *)
(* disable and enable.                                                     *)
THEOREM TakesEffectOnceAlways == Spec => []TakesEffectOnce
<1>1. IInv => TakesEffectOnce
  <2> SUFFICES ASSUME IInv PROVE TakesEffectOnce
    OBVIOUS
  <2>1. ASSUME NEW q \in Queues, pc[q] = "replay" PROVE Head(queue[q]) \notin done
    <3>1. Head(queue[q]) = Front[q] /\ Front[q] \in Cont[q]
      BY <2>1, TopFacts
    <3> QED
      BY <2>1, <3>1 DEF IInv, HeadInv
  <2>2. ASSUME NEW i, i = Larger(app, end_lsn) + 1, rc = "leading", i <= mine
        PROVE  i \notin done
    BY <2>2, NextOfLeader
  <2> QED
    BY <2>1, <2>2 DEF TakesEffectOnce
<1> QED
  BY <1>1, Invariance, PTL
===============================================================================
