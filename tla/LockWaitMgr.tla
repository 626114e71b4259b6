----------------------------- MODULE LockWaitMgr ------------------------------
(***************************************************************************)
(* ObLockWaitMgr: a request whose statement meets a locked row leaves its  *)
(* worker thread and waits in a lock-free hash, under the hash of the row  *)
(* or of the transaction that holds it.  Whoever releases the lock bumps   *)
(* the sequence of that hash and reposts a waiter; a request that may have *)
(* missed the bump waits as a "standalone" task, which a periodic thread   *)
(* reposts.  A node leaves the hash to exactly one thread, which waits     *)
(* until no other thread is in a critical section before it hands the      *)
(* node to a worker.                                                       *)
(*                                                                         *)
(* A request stands for its session and transaction as well: one statement *)
(* that locks one row of its choice, then the end of the transaction.      *)
(***************************************************************************)
EXTENDS Naturals, FiniteSets, FiniteSetsExt

CONSTANTS
    Req,          \* requests; a smaller number was received earlier
    Row,
    Checker,      \* the thread of run1
    Remover,      \* the thread that checkpoints callbacks
    NoOne,
    OneBucket,    \* TRUE: all hashes share one sequence
    Removals,     \* TRUE: callbacks of live transactions are removed
    Timeouts,     \* TRUE: lock waits time out or last 5 s, sessions are killed
    Detected      \* bound: requests that may be registered with the deadlock detector

Actor == Req \union {Checker, Remover}

Hash == Row \union Req      \* hash_rowkey, and hash_trans of a request's transaction

ASSUME LockWaitAssumption ==
    /\ Req \subseteq Nat /\ IsFiniteSet(Req) /\ IsFiniteSet(Row)
    /\ Row \intersect Actor = {} /\ NoOne \notin Row \union Actor
    /\ Checker \notin Req /\ Remover \notin Req \union {Checker}
    /\ {OneBucket, Removals, Timeouts} \subseteq BOOLEAN
    /\ Detected \subseteq Req

VARIABLES
    \* the rows and transactions
    owner,        \* transaction of the undecided node at the head of a row
    cleaned,      \* rows whose head node is delayed cleanout (callback removed)
    latch,        \* who holds the latch of a row
    ended,        \* transactions decided in the tx table
    \* requests
    pc,           \* where the request (or the thread) is
    want,         \* the row of the conflict
    holder,       \* conflict_tx_id, as it was when the conflict was met
    delayed,      \* lock_state.is_delayed_cleanout_ at that time
    hold_key,     \* of the worker thread that runs the request
    \* lock wait nodes
    hash, need_wait, standalone,
    node_hold,    \* hold_key_ of the node
    fresh,        \* hashes whose sequence has not moved since it was read
    \* the manager
    waiting,      \* nodes in hash_
    total_wait_node,
    registered,   \* requests known to the deadlock detector as waiting
    stop,         \* has_set_stop()
    \* wait, wakeup and check_timeout, as each thread runs them
    step, key,    \* where in them it is, and the hash it wakes up
    got,          \* nodes it has taken out of the hash
    ref,          \* nodes it has a pointer to
    crit,         \* threads in a CriticalGuard
    quiesce       \* whom a WaitQuiescent still waits for

rowVars  == <<owner, cleaned, latch, ended>>
stmtVars == <<want, holder, delayed>>
nodeVars == <<hash, need_wait, standalone, node_hold, fresh>>
syncVars == <<crit, quiesce>>
mgrVars  == <<waiting, total_wait_node, registered, stop>>
subVars  == <<step, key, got, ref>>
vars == <<rowVars, pc, stmtVars, hold_key, nodeVars, mgrVars, subVars, syncVars>>

-------------------------------------------------------------------------------
(* QSync and the sequences                                                 *)

EnterCritical(a) == crit' = crit \union {a} /\ UNCHANGED quiesce

(* A WaitQuiescent looks at every thread once; leaving satisfies it.       *)
LeaveCritical(a) ==
    /\ crit' = crit \ {a}
    /\ quiesce' = [b \in Actor |-> quiesce[b] \ {a}]

(* ... and begin to wait for the critical sections that are open.          *)
LeaveAndQuiesce(a) ==
    /\ crit' = crit \ {a}
    /\ quiesce' = [b \in Actor |-> IF b = a THEN crit \ {a} ELSE quiesce[b] \ {a}]

SameBucket(g, h) == OneBucket \/ g = h

Bump(h) ==
    fresh' = [a \in Actor |-> {g \in fresh[a] : ~SameBucket(g, h)}]

Goto(a, s) == step' = [step EXCEPT ![a] = s]

Wakeup(a, h) == Goto(a, "inc") /\ key' = [key EXCEPT ![a] = h]

Deliver(n) == pc' = [pc EXCEPT ![n] = "queue"]

-------------------------------------------------------------------------------
(* Requests: ObThWorker::process_request, and the row locks                *)

Locked(k, r) ==
    /\ owner[k] \notin {NoOne, r}
    /\ ~(k \in cleaned /\ owner[k] \in ended)

(* setup.  What the node and the locals of the last attempt hold is not    *)
(* read again before it is set again, and is forgotten.                    *)
Start(r) ==
    /\ pc[r] = "queue"
    /\ pc' = [pc EXCEPT ![r] = "run"]
    /\ need_wait' = [need_wait EXCEPT ![r] = FALSE]
    /\ hold_key' = [hold_key EXCEPT ![r] = node_hold[r]]
    /\ node_hold' = [node_hold EXCEPT ![r] = NoOne]
    /\ hash' = [hash EXCEPT ![r] = NoOne]
    /\ standalone' = [standalone EXCEPT ![r] = FALSE]
    /\ UNCHANGED <<rowVars, stmtVars, fresh, mgrVars, subVars, syncVars>>

(* The statement writes a row that nobody else holds ...                   *)
LockRow(r, k) ==
    /\ pc[r] = "run" /\ latch[k] = NoOne /\ ~Locked(k, r)
    /\ owner' = [owner EXCEPT ![k] = r]
    /\ cleaned' = cleaned \ {k}
    /\ pc' = [pc EXCEPT ![r] = "done"]
    /\ UNCHANGED <<latch, ended, stmtVars, hold_key, nodeVars, mgrVars, subVars, syncVars>>

(* ... or meets a conflict ...                                             *)
Conflict(r, k) ==
    /\ pc[r] = "run" /\ latch[k] = NoOne /\ Locked(k, r)
    /\ want' = [want EXCEPT ![r] = k]
    /\ holder' = [holder EXCEPT ![r] = owner[k]]
    /\ delayed' = [delayed EXCEPT ![r] = k \in cleaned]
    /\ pc' = [pc EXCEPT ![r] = "post_lock"]
    /\ UNCHANGED <<rowVars, hold_key, nodeVars, mgrVars, subVars, syncVars>>

(* ... or fails without a retry (its time is up, its session is killed).   *)
GiveUp(r) ==
    /\ pc[r] = "run" /\ Timeouts
    /\ pc' = [pc EXCEPT ![r] = "done"]
    /\ UNCHANGED <<rowVars, stmtVars, hold_key, nodeVars, mgrVars, subVars, syncVars>>

(* post_lock: the sequences are read before the lock is checked again.     *)
ReadSeq(r) ==
    /\ pc[r] = "post_lock"
    /\ fresh' = [fresh EXCEPT ![r] = {want[r], holder[r]}]
    /\ pc' = [pc EXCEPT ![r] = "recheck"]
    /\ UNCHANGED <<rowVars, stmtVars, hold_key, hash, need_wait, standalone, node_hold,
                   mgrVars, subVars, syncVars>>

(* recheck_func: by the tx table when the conflict was with a node of      *)
(* delayed cleanout, else by the row itself.                               *)
StillLocked(r) ==
    IF delayed[r] THEN holder[r] \notin ended ELSE Locked(want[r], r)

WaitOnRow(r) == ~delayed[r] /\ want[r] \notin cleaned

Recheck(r) ==
    LET h == IF WaitOnRow(r) THEN want[r] ELSE holder[r] IN
    /\ pc[r] = "recheck" /\ (delayed[r] \/ latch[want[r]] = NoOne)
    /\ pc' = [pc EXCEPT ![r] = "retry"]
    /\ IF StillLocked(r)
       THEN /\ hold_key' = [hold_key EXCEPT ![r] = IF @ = h THEN NoOne ELSE @]
            /\ hash' = [hash EXCEPT ![r] = h]
            /\ fresh' = [fresh EXCEPT ![r] = @ \intersect {h}]
            /\ need_wait' = [need_wait EXCEPT ![r] = TRUE]
       ELSE fresh' = [fresh EXCEPT ![r] = {}] /\ UNCHANGED <<hold_key, hash, need_wait>>
    /\ want' = [want EXCEPT ![r] = NoOne]
    /\ holder' = [holder EXCEPT ![r] = NoOne]
    /\ delayed' = [delayed EXCEPT ![r] = FALSE]
    /\ UNCHANGED <<rowVars, standalone, node_hold, mgrVars, subVars, syncVars>>

(* post_process: pass the wake-up on that this request was given ...       *)
PassOn(r) ==
    /\ pc[r] \in {"retry", "done"} /\ step[r] = "none" /\ hold_key[r] # NoOne
    /\ hold_key' = [hold_key EXCEPT ![r] = NoOne]
    /\ Wakeup(r, hold_key[r])
    /\ UNCHANGED <<rowVars, pc, stmtVars, nodeVars, mgrVars, got, ref, syncVars>>

(* ... and wait, if a lock is in the way.  The deadlock detector is told,  *)
(* when it is enabled; the request waits as well when that fails.          *)
StartWait(r) ==
    /\ pc[r] = "retry" /\ step[r] = "none" /\ hold_key[r] = NoOne /\ need_wait[r]
    /\ \/ r \in Detected /\ registered' = registered \union {r}
       \/ UNCHANGED registered
    /\ pc' = [pc EXCEPT ![r] = "wait"]
    /\ Goto(r, "wait")
    /\ UNCHANGED <<rowVars, stmtVars, hold_key, nodeVars, waiting, total_wait_node, stop,
                   key, got, ref, syncVars>>

(* Nothing to wait for: the worker puts the request back in the queue.     *)
Retry(r) ==
    /\ pc[r] = "retry" /\ step[r] = "none" /\ hold_key[r] = NoOne /\ ~need_wait[r]
    /\ Deliver(r)
    /\ UNCHANGED <<rowVars, stmtVars, hold_key, nodeVars, mgrVars, subVars, syncVars>>

-------------------------------------------------------------------------------
(* wait, for a worker (its own request) and for the remover                *)

Arg(a) == IF a = Remover THEN CHOOSE n \in got[a] \union ref[a] : TRUE ELSE a

(* The waiting has failed: the worker, or transform, queues the request.   *)
WaitFails(a) ==
    /\ registered' = registered \ {Arg(a)}
    /\ Deliver(Arg(a))
    /\ got' = [got EXCEPT ![a] = {}]
    /\ Goto(a, IF a = Remover THEN "inc" ELSE "none")

MissedWakeup(n) == hash[n] \notin fresh[n]

RefuseWait(a) ==
    /\ step[a] = "wait" /\ stop
    /\ WaitFails(a)
    /\ UNCHANGED <<rowVars, stmtVars, hold_key, nodeVars, waiting, total_wait_node, stop,
                   key, ref, syncVars>>

EnterWait(a) ==
    /\ step[a] = "wait" /\ ~stop
    /\ total_wait_node' = total_wait_node + 1
    /\ standalone' = [standalone EXCEPT ![Arg(a)] = MissedWakeup(Arg(a))]
    /\ ref' = [ref EXCEPT ![a] = {Arg(a)}]
    /\ EnterCritical(a)
    /\ Goto(a, "insert")
    /\ UNCHANGED <<rowVars, pc, stmtVars, hold_key, hash, need_wait, node_hold, fresh,
                   waiting, registered, stop, key, got>>

Insert(a) ==
    /\ step[a] = "insert"
    /\ waiting' = waiting \union {Arg(a)}
    /\ got' = [got EXCEPT ![a] = {}]
    /\ Goto(a, "double_check")
    /\ UNCHANGED <<rowVars, pc, stmtVars, hold_key, nodeVars, total_wait_node, registered,
                   stop, key, ref, syncVars>>

DoubleCheck(a) ==
    /\ step[a] = "double_check"
    /\ standalone' = [standalone EXCEPT ![Arg(a)] = @ \/ MissedWakeup(Arg(a))]
    /\ fresh' = [fresh EXCEPT ![Arg(a)] = {}]       \* lock_seq_ is not used any more
    /\ Goto(a, "check_stop")
    /\ UNCHANGED <<rowVars, pc, stmtVars, hold_key, hash, need_wait, node_hold, mgrVars,
                   key, got, ref, syncVars>>

(* Mutant: the stop is not looked at after the insertion.                  *)
WaitsAnyway(a) ==
    /\ step[a] = "check_stop"
    /\ LeaveCritical(a)
    /\ IF a = Remover
       THEN Goto(a, "touch") /\ UNCHANGED ref
       ELSE Goto(a, "none") /\ ref' = [ref EXCEPT ![a] = {}]
    /\ UNCHANGED <<rowVars, pc, stmtVars, hold_key, nodeVars, mgrVars, key, got>>

(* The node waits, unless the manager has been stopped and nobody else has *)
(* taken it meanwhile.                                                     *)
Waits(a) ==
    /\ step[a] = "check_stop" /\ ~(stop /\ Arg(a) \in waiting)
    /\ LeaveCritical(a)
    /\ IF a = Remover
       THEN Goto(a, "touch") /\ UNCHANGED ref
       ELSE Goto(a, "none") /\ ref' = [ref EXCEPT ![a] = {}]
    /\ UNCHANGED <<rowVars, pc, stmtVars, hold_key, nodeVars, mgrVars, key, got>>

Withdraw(a) ==
    /\ step[a] = "check_stop" /\ stop /\ Arg(a) \in waiting
    /\ waiting' = waiting \ {Arg(a)}
    /\ got' = [got EXCEPT ![a] = {Arg(a)}]
    /\ ref' = [ref EXCEPT ![a] = {}]
    /\ LeaveAndQuiesce(a)
    /\ Goto(a, "withdrawn")
    /\ UNCHANGED <<rowVars, pc, stmtVars, hold_key, nodeVars, total_wait_node, registered,
                   stop, key>>

Withdrawn(a) ==
    /\ step[a] = "withdrawn" /\ quiesce[a] = {}
    /\ total_wait_node' = total_wait_node - 1
    /\ WaitFails(a)
    /\ UNCHANGED <<rowVars, stmtVars, hold_key, nodeVars, waiting, stop, key, ref, syncVars>>

-------------------------------------------------------------------------------
(* fetch_waiter and wakeup                                                 *)

Queued(h) == {n \in waiting : hash[n] = h}

(* Mutant: the sequence is not moved.                                      *)
KeepSeq(a) ==
    /\ step[a] = "inc"
    /\ Goto(a, "load")
    /\ UNCHANGED <<rowVars, pc, stmtVars, hold_key, nodeVars, mgrVars, key, got, ref, syncVars>>

IncSeq(a) ==
    /\ step[a] = "inc"
    /\ Bump(key[a])
    /\ Goto(a, "load")
    /\ UNCHANGED <<rowVars, pc, stmtVars, hold_key, hash, need_wait, standalone, node_hold,
                   mgrVars, key, got, ref, syncVars>>

(* wakeup and transform return, and the latch they were called under is    *)
(* released; transform and the wakeup of a transaction only when           *)
(* fetch_waiter has found nobody.                                          *)
Return(a) ==
    /\ Goto(a, "none")
    /\ key' = [key EXCEPT ![a] = NoOne]
    /\ latch' = [k \in Row |-> IF latch[k] = a THEN NoOne ELSE latch[k]]

NoWaiter(a) ==
    /\ Return(a)
    /\ pc' = IF a = Remover THEN [pc EXCEPT ![a] = "idle"] ELSE pc

FindFirst(a) ==
    LET q == Queued(key[a]) IN
    /\ step[a] = "load"
    /\ IF total_wait_node = 0 \/ q = {}
       THEN NoWaiter(a) /\ UNCHANGED <<ref, syncVars>>
       ELSE /\ ref' = [ref EXCEPT ![a] = {Min(q)}]
            /\ EnterCritical(a)
            /\ Goto(a, "del")
            /\ UNCHANGED <<latch, pc, key>>
    /\ UNCHANGED <<owner, cleaned, ended, stmtVars, hold_key, nodeVars, mgrVars, got>>

(* Take the node, or go on to the next one if somebody else has taken it.  *)
TakeNode(a) ==
    LET n == CHOOSE m \in ref[a] : TRUE
        next == {m \in Queued(key[a]) : m > n} IN
    /\ step[a] = "del"
    /\ \/ /\ n \in waiting
          /\ waiting' = waiting \ {n}
          /\ total_wait_node' = total_wait_node - 1
          /\ got' = [got EXCEPT ![a] = {n}]
          /\ ref' = [ref EXCEPT ![a] = {}]
          /\ LeaveAndQuiesce(a)
          /\ Goto(a, "sync")
          /\ UNCHANGED <<latch, pc, key>>
       \/ /\ n \notin waiting /\ next # {}
          /\ ref' = [ref EXCEPT ![a] = {Min(next)}]
          /\ UNCHANGED <<latch, pc, waiting, total_wait_node, got, step, key, syncVars>>
       \/ /\ n \notin waiting /\ next = {}
          /\ ref' = [ref EXCEPT ![a] = {}]
          /\ LeaveCritical(a)
          /\ NoWaiter(a)
          /\ UNCHANGED <<waiting, total_wait_node, got>>
    /\ UNCHANGED <<owner, cleaned, ended, stmtVars, hold_key, nodeVars, registered, stop>>

(* The critical sections that were open are closed: the node is private.   *)
Quiescent(a) ==
    /\ step[a] = "sync" /\ quiesce[a] = {}
    /\ Goto(a, IF a = Remover THEN "transform" ELSE "repost")
    /\ UNCHANGED <<rowVars, pc, stmtVars, hold_key, nodeVars, mgrVars, key, got, ref, syncVars>>

(* wakeup: on_retry_lock and repost; the waiters of a transaction are all  *)
(* woken, of a row only the first.                                         *)
Repost(a) ==
    /\ step[a] = "repost" /\ a \in Req
    /\ \E n \in got[a] :
          /\ node_hold' = [node_hold EXCEPT ![n] = key[a]]
          /\ registered' = registered \ {n}
          /\ got' = [got EXCEPT ![a] = {}]
          /\ Deliver(n)
    /\ IF key[a] \in Row
       THEN Return(a)
       ELSE Goto(a, "inc") /\ UNCHANGED <<latch, key>>
    /\ UNCHANGED <<owner, cleaned, ended, stmtVars, hold_key, hash, need_wait, standalone,
                   fresh, waiting, total_wait_node, stop, ref, syncVars>>

-------------------------------------------------------------------------------
(* The end of a transaction, and of a statement that is rolled back        *)

Processed(r) == pc[r] = "done" /\ step[r] = "none" /\ hold_key[r] = NoOne

OwnRows(r) == {k \in Row : owner[k] = r /\ k \notin cleaned}

(* The callbacks of a live transaction are run or removed under its lock.  *)
CtxFree(r) == pc[Remover] = "remove" => owner[key[Remover]] # r

(* A row is released under its latch, which is held until its waiter has   *)
(* been woken up.                                                          *)
Release(r, k) ==
    /\ latch[k] = NoOne /\ k \in OwnRows(r)
    /\ owner' = [owner EXCEPT ![k] = NoOne]
    /\ latch' = [latch EXCEPT ![k] = r]
    /\ Wakeup(r, k)
    /\ UNCHANGED <<cleaned, ended, pc, stmtVars, hold_key, nodeVars, mgrVars, got, ref, syncVars>>

(* rollback_callback                                                       *)
Rollback(r, k) == Processed(r) /\ CtxFree(r) /\ Release(r, k)

(* The outcome is stored in the tx table before the callbacks run.         *)
Decide(r) ==
    /\ Processed(r) /\ CtxFree(r)
    /\ ended' = ended \union {r}
    /\ pc' = [pc EXCEPT ![r] = "end"]
    /\ UNCHANGED <<owner, cleaned, latch, stmtVars, hold_key, nodeVars, mgrVars, subVars,
                   syncVars>>

(* trans_commit and trans_abort of a callback                              *)
EndRow(r, k) == pc[r] = "end" /\ step[r] = "none" /\ Release(r, k)

(* wakeup_waiting_txns_, after the callbacks.                              *)
EndTx(r) ==
    /\ pc[r] = "end" /\ step[r] = "none" /\ OwnRows(r) = {}
    /\ pc' = [pc EXCEPT ![r] = "gone"]
    /\ Wakeup(r, r)
    /\ UNCHANGED <<rowVars, stmtVars, hold_key, nodeVars, mgrVars, got, ref, syncVars>>

-------------------------------------------------------------------------------
(* checkpoint_callback and transform_row_lock_to_tx_lock                   *)

RemoveCallback(k) ==
    /\ Removals /\ pc[Remover] = "idle" /\ latch[k] = NoOne
    /\ owner[k] # NoOne /\ k \notin cleaned /\ owner[k] \notin ended
    /\ cleaned' = cleaned \union {k}
    /\ latch' = [latch EXCEPT ![k] = Remover]
    /\ fresh' = [fresh EXCEPT ![Remover] = {owner[k]}]
    /\ pc' = [pc EXCEPT ![Remover] = "remove"]
    /\ Wakeup(Remover, k)
    /\ UNCHANGED <<owner, ended, stmtVars, hold_key, hash, need_wait, standalone, node_hold,
                   mgrVars, got, ref, syncVars>>

(* change_hash, then wait for the transaction.                             *)
ChangeHash ==
    LET n == Arg(Remover)
        t == owner[key[Remover]] IN
    /\ step[Remover] = "transform"
    /\ hash' = [hash EXCEPT ![n] = t]
    /\ fresh' = [fresh EXCEPT ![n] = fresh[Remover]]
    /\ Goto(Remover, "wait")
    /\ UNCHANGED <<rowVars, pc, stmtVars, hold_key, need_wait, standalone, node_hold,
                   mgrVars, key, got, ref, syncVars>>

(* Mutant: only the first waiter is moved to the transaction.              *)
TouchAndReturn ==
    /\ step[Remover] = "touch"
    /\ ref' = [ref EXCEPT ![Remover] = {}]
    /\ NoWaiter(Remover)
    /\ UNCHANGED <<owner, cleaned, ended, stmtVars, hold_key, nodeVars, mgrVars, got, syncVars>>

(* try_lock_times_-- of the node that waits again.                         *)
TouchNode ==
    /\ step[Remover] = "touch"
    /\ ref' = [ref EXCEPT ![Remover] = {}]
    /\ Goto(Remover, "inc")
    /\ UNCHANGED <<rowVars, pc, stmtVars, hold_key, nodeVars, mgrVars, key, got, syncVars>>

-------------------------------------------------------------------------------
(* run1 and check_timeout                                                  *)

(* A pass over the nodes that are in the hash; over none it does nothing.  *)
BeginCheck ==
    /\ pc[Checker] = "idle" /\ waiting # {}
    /\ ref' = [ref EXCEPT ![Checker] = waiting]
    /\ EnterCritical(Checker)
    /\ pc' = [pc EXCEPT ![Checker] = "check"]
    /\ UNCHANGED <<rowVars, stmtVars, hold_key, nodeVars, mgrVars, step, key, got>>

(* A node is popped as it stands when it has timed out, its session was    *)
(* killed or the manager stops; a standalone task, or a node that has      *)
(* waited for 5 s, as if it had been woken up (on_retry_lock).             *)
MustPop(n) == stop \/ standalone[n]

PoppedHold(n) ==
    {h \in {node_hold[n], hash[n]} :
        \/ h = node_hold[n] /\ (stop \/ Timeouts)
        \/ h = hash[n] /\ ~stop /\ (standalone[n] \/ Timeouts)}

MarkNode(n) ==
    /\ pc[Checker] = "check" /\ n \in ref[Checker] \intersect waiting
    /\ \E h \in PoppedHold(n) : node_hold' = [node_hold EXCEPT ![n] = h]
    /\ pc' = [pc EXCEPT ![Checker] = "retire"]
    /\ key' = [key EXCEPT ![Checker] = n]
    /\ UNCHANGED <<rowVars, stmtVars, hold_key, hash, need_wait, standalone, fresh, mgrVars,
                   step, got, ref, syncVars>>

(* Mutant: the result of hash_.del is not looked at.                       *)
RetireAnyNode ==
    LET n == key[Checker] IN
    /\ pc[Checker] = "retire"
    /\ waiting' = waiting \ {n}
    /\ total_wait_node' = total_wait_node - 1
    /\ got' = [got EXCEPT ![Checker] = @ \union {n}]
    /\ key' = [key EXCEPT ![Checker] = NoOne]
    /\ pc' = [pc EXCEPT ![Checker] = "check"]
    /\ UNCHANGED <<rowVars, stmtVars, hold_key, nodeVars, registered, stop, step, ref,
                   syncVars>>

(* Mutant: the counter is not decremented.                                 *)
RetireUncounted ==
    LET n == key[Checker] IN
    /\ pc[Checker] = "retire"
    /\ IF n \in waiting
       THEN /\ waiting' = waiting \ {n}
            /\ got' = [got EXCEPT ![Checker] = @ \union {n}]
       ELSE UNCHANGED <<waiting, got>>
    /\ key' = [key EXCEPT ![Checker] = NoOne]
    /\ pc' = [pc EXCEPT ![Checker] = "check"]
    /\ UNCHANGED <<rowVars, stmtVars, hold_key, nodeVars, total_wait_node, registered, stop,
                   step, ref, syncVars>>

(* retire_node, unless somebody else has taken it meanwhile.               *)
RetireNode ==
    LET n == key[Checker] IN
    /\ pc[Checker] = "retire"
    /\ IF n \in waiting
       THEN /\ waiting' = waiting \ {n}
            /\ total_wait_node' = total_wait_node - 1
            /\ got' = [got EXCEPT ![Checker] = @ \union {n}]
       ELSE UNCHANGED <<waiting, total_wait_node, got>>
    /\ key' = [key EXCEPT ![Checker] = NoOne]
    /\ pc' = [pc EXCEPT ![Checker] = "check"]
    /\ UNCHANGED <<rowVars, stmtVars, hold_key, nodeVars, registered, stop, step, ref,
                   syncVars>>

EndCheck ==
    /\ pc[Checker] = "check"
    /\ \A n \in ref[Checker] \intersect waiting : ~MustPop(n)
    /\ ref' = [ref EXCEPT ![Checker] = {}]
    /\ LeaveAndQuiesce(Checker)
    /\ pc' = [pc EXCEPT ![Checker] = "post"]
    /\ UNCHANGED <<rowVars, stmtVars, hold_key, nodeVars, mgrVars, step, key, got>>

RepostRetired ==
    /\ pc[Checker] = "post" /\ quiesce[Checker] = {}
    /\ IF got[Checker] = {}
       THEN pc' = [pc EXCEPT ![Checker] = "idle"] /\ UNCHANGED <<got, registered>>
       ELSE \E n \in got[Checker] :
               /\ registered' = registered \ {n}
               /\ got' = [got EXCEPT ![Checker] = @ \ {n}]
               /\ Deliver(n)
    /\ UNCHANGED <<rowVars, stmtVars, hold_key, nodeVars, waiting, total_wait_node, stop,
                   step, key, ref, syncVars>>

CheckerExits ==
    /\ pc[Checker] = "idle" /\ stop /\ waiting = {}
    /\ pc' = [pc EXCEPT ![Checker] = "exited"]
    /\ UNCHANGED <<rowVars, stmtVars, hold_key, nodeVars, mgrVars, subVars, syncVars>>

Stop ==
    /\ ~stop /\ stop' = TRUE
    /\ UNCHANGED <<rowVars, pc, stmtVars, hold_key, nodeVars, waiting, total_wait_node,
                   registered, subVars, syncVars>>

-------------------------------------------------------------------------------
(* The specification                                                       *)

Init ==
    /\ owner = [k \in Row |-> NoOne]
    /\ cleaned = {}
    /\ latch = [k \in Row |-> NoOne]
    /\ ended = {}
    /\ pc = [a \in Actor |-> IF a \in Req THEN "queue" ELSE "idle"]
    /\ want = [r \in Req |-> NoOne]
    /\ holder = [r \in Req |-> NoOne]
    /\ delayed = [r \in Req |-> FALSE]
    /\ hold_key = [r \in Req |-> NoOne]
    /\ hash = [r \in Req |-> NoOne]
    /\ need_wait = [r \in Req |-> FALSE]
    /\ standalone = [r \in Req |-> FALSE]
    /\ node_hold = [r \in Req |-> NoOne]
    /\ fresh = [a \in Actor |-> {}]
    /\ waiting = {}
    /\ total_wait_node = 0
    /\ registered = {}
    /\ stop = FALSE
    /\ step = [a \in Actor |-> "none"]
    /\ key = [a \in Actor |-> NoOne]
    /\ got = [a \in Actor |-> {}]
    /\ ref = [a \in Actor |-> {}]
    /\ crit = {}
    /\ quiesce = [a \in Actor |-> {}]

StmtStep(r) ==
    \/ Start(r) \/ GiveUp(r) \/ ReadSeq(r) \/ Recheck(r)
    \/ PassOn(r) \/ StartWait(r) \/ Retry(r)
    \/ Decide(r) \/ EndTx(r)
    \/ \E k \in Row : LockRow(r, k) \/ Conflict(r, k) \/ Rollback(r, k) \/ EndRow(r, k)

WaitStep(a) ==
    \/ RefuseWait(a) \/ EnterWait(a) \/ Insert(a) \/ DoubleCheck(a)
    \/ Waits(a) \/ Withdraw(a) \/ Withdrawn(a)

FetchStep(a) == IncSeq(a) \/ FindFirst(a) \/ TakeNode(a) \/ Quiescent(a)

ReqStep(r) == StmtStep(r) \/ WaitStep(r) \/ FetchStep(r) \/ Repost(r)

RemoverStep ==
    \/ WaitStep(Remover) \/ FetchStep(Remover) \/ ChangeHash \/ TouchNode

CheckerStep ==
    \/ BeginCheck \/ RetireNode \/ EndCheck \/ RepostRetired \/ CheckerExits
    \/ \E n \in Req : MarkNode(n)

(* Every transaction has ended and the manager has stopped.                *)
Finished ==
    /\ pc[Checker] = "exited"
    /\ \A r \in Req : pc[r] = "gone" /\ step[r] = "none"
    /\ UNCHANGED vars

Next ==
    \/ \E r \in Req : ReqStep(r)
    \/ RemoverStep
    \/ \E k \in Row : RemoveCallback(k)
    \/ CheckerStep
    \/ Stop
    \/ Finished

Spec == Init /\ [][Next]_vars

(* The threads of the pool, the thread of the manager and the one that     *)
(* removes callbacks run on; a statement ends, and so does a transaction.  *)
FairSpec ==
    /\ Spec
    /\ \A r \in Req : WF_vars(ReqStep(r))
    /\ WF_vars(RemoverStep)
    /\ WF_vars(CheckerStep)

-------------------------------------------------------------------------------
(* Properties                                                              *)

Place == {"queue", "run", "post_lock", "recheck", "retry", "done", "wait", "end", "gone"}

(* Every variable has its type.                                            *)
TypeOK ==
    /\ owner \in [Row -> Req \union {NoOne}] /\ cleaned \subseteq Row
    /\ latch \in [Row -> Actor \union {NoOne}] /\ ended \subseteq Req
    /\ pc \in [Actor -> Place \union {"idle", "check", "retire", "post", "exited", "remove"}]
    /\ want \in [Req -> Row \union {NoOne}] /\ holder \in [Req -> Req \union {NoOne}]
    /\ delayed \in [Req -> BOOLEAN] /\ hold_key \in [Req -> Hash \union {NoOne}]
    /\ hash \in [Req -> Hash \union {NoOne}] /\ need_wait \in [Req -> BOOLEAN]
    /\ standalone \in [Req -> BOOLEAN] /\ node_hold \in [Req -> Hash \union {NoOne}]
    /\ fresh \in [Actor -> SUBSET Hash]
    /\ waiting \subseteq Req /\ total_wait_node \in Nat /\ registered \subseteq Req
    /\ stop \in BOOLEAN
    /\ step \in [Actor -> {"none", "wait", "insert", "double_check", "check_stop",
                           "withdrawn", "inc", "load", "del", "sync", "repost",
                           "transform", "touch"}]
    /\ key \in [Actor -> Hash \union {NoOne}]
    /\ got \in [Actor -> SUBSET Req] /\ ref \in [Actor -> SUBSET Req]
    /\ crit \subseteq Actor /\ quiesce \in [Actor -> SUBSET Actor]

(* A wake-up of h will come: a lock is held whose release wakes it, a      *)
(* thread is waking it up, or a request has been woken up for it and will  *)
(* pass that on or find the lock held again.                               *)
WakeupComes(h) ==
    \/ h \in Row /\ owner[h] # NoOne /\ h \notin cleaned
    \/ h \in Req /\ pc[h] # "gone"
    \/ \E a \in Req \union {Remover} : key[a] = h /\ step[a] # "none"
    \/ \E r \in Req : hold_key[r] = h \/ (node_hold[r] = h /\ r \notin waiting)

Settled(n) ==
    /\ n \in waiting
    /\ ~\E a \in Req \union {Remover} : step[a] = "double_check" /\ Arg(a) = n

(* Where rows change their holder and callbacks are removed, the only      *)
(* wake-up that is lost is that of a request which waits for a transaction *)
(* that no longer holds its row.                                           *)
OnlyStaleHolderLost ==
    \A n \in Req :
        Settled(n) => \/ standalone[n] \/ WakeupComes(hash[n])
                      \/ hash[n] \in Req /\ \A k \in Row : owner[k] # hash[n]

(* A node has one owner: a thread that has taken it, the hash, or the      *)
(* worker that runs the request.                                           *)
NodeHasOneOwner ==
    /\ \A a \in Actor : \A n \in got[a] :
          /\ pc[n] = "wait" /\ n \notin waiting
          /\ \A b \in Actor \ {a} : n \notin got[b]
    /\ \A n \in waiting : pc[n] = "wait"

(* Nobody else has a pointer to the node of a request that a worker runs   *)
(* (or has answered): WaitQuiescent has waited for every visitor.          *)
NoVisitorAfterRepost ==
    \A n \in Req : pc[n] # "wait" => \A a \in Actor \ {n} : n \notin ref[a]

(* After the manager's thread has ended, no request is left in the hash    *)
(* but one that its worker is about to take out again.                     *)
NobodyLeftAtStop ==
    pc[Checker] = "exited" =>
        \A n \in waiting : \E a \in Req \union {Remover} :
            step[a] \in {"double_check", "check_stop"} /\ Arg(a) = n

(* The books are sound: total_wait_node_ counts the nodes in the hash and  *)
(* those on their way into it or out of it, so that fetch_waiter may trust *)
(* a zero, and the deadlock detector has nobody on record as waiting that  *)
(* runs, whoever of wakeup, transform, check_timeout and the worker itself *)
(* ended its wait.                                                         *)
WaitBooksSound ==
    /\ total_wait_node = Cardinality(waiting)
                         + Cardinality({a \in Actor : step[a] \in {"insert", "withdrawn"}})
    /\ \A r \in registered : pc[r] = "wait"

(* Every request gets its lock and its transaction ends, with no help from *)
(* timeouts or from the repost of every waiter after 5 s.                  *)
EveryRequestEnds == \A r \in Req : <>(pc[r] = "gone")

===============================================================================
