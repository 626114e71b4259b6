-------------------------- MODULE LockWaitMgrProofs ---------------------------
(***************************************************************************)
(* Proofs about LockWaitMgr, for every set of requests and of rows: a node *)
(* has one owner, nobody but the remover visits the node of a request that *)
(* runs, the books match the hash, nobody is left behind at the stop, and  *)
(* the only wake-up that is lost is that of a stale holder.                *)
(***************************************************************************)
EXTENDS LockWaitMgr, FiniteSetTheorems, NaturalsInduction, WellFoundedInduction, TLAPS

-------------------------------------------------------------------------------
(* The inductive invariant                                                 *)

(* Where a thread is in wait and in wakeup goes with where its request is. *)
StepInv ==
    /\ \A r \in Req :
          /\ pc[r] \in Place /\ step[r] \notin {"transform", "touch"}
          /\ step[r] \in {"wait", "insert", "withdrawn"} => pc[r] = "wait"
          /\ step[r] \in {"inc", "load", "del", "sync", "repost"}
                => pc[r] \in {"retry", "done", "end", "gone"}
    /\ pc[Checker] \in {"idle", "check", "retire", "post", "exited"}
    /\ step[Checker] = "none"
    /\ pc[Remover] \in {"idle", "remove"} /\ step[Remover] # "repost"
    /\ pc[Remover] = "idle" <=> step[Remover] = "none"

(* The nodes each thread points to, and those it has taken.                *)
PointerInv ==
    /\ \A r \in Req :
          /\ step[r] \in {"insert", "double_check", "check_stop"} => ref[r] = {r}
          /\ step[r] = "del" => \E n \in Req : ref[r] = {n}
          /\ step[r] \notin {"insert", "double_check", "check_stop", "del"} => ref[r] = {}
          /\ step[r] = "withdrawn" => got[r] = {r}
          /\ step[r] \in {"sync", "repost"} => \E n \in Req : got[r] = {n}
          /\ step[r] \notin {"withdrawn", "sync", "repost"} => got[r] = {}
    /\ pc[Checker] \in {"idle", "exited"} => got[Checker] = {}
    /\ pc[Checker] \notin {"check", "retire"} => ref[Checker] = {}
    /\ pc[Checker] = "retire" => key[Checker] \in ref[Checker]

RemoverInv ==
    /\ step[Remover] \in {"del", "insert", "double_check", "check_stop", "touch"}
          => \E n \in Req : ref[Remover] = {n}
    /\ step[Remover] \notin {"del", "insert", "double_check", "check_stop", "touch"}
          => ref[Remover] = {}
    /\ step[Remover] \in {"sync", "transform", "wait", "insert", "withdrawn"}
          => \E n \in Req : got[Remover] = {n}
    /\ step[Remover] \notin {"sync", "transform", "wait", "insert", "withdrawn"}
          => got[Remover] = {}
    /\ step[Remover] = "insert" => ref[Remover] = got[Remover]
    /\ pc[Remover] = "remove" =>
          /\ key[Remover] \in Row /\ latch[key[Remover]] = Remover
          /\ owner[key[Remover]] \in Req \ ended

(* A node on its way into the hash belongs to its worker.                  *)
OwnerInv ==
    /\ NodeHasOneOwner
    /\ \A r \in Req : step[r] \in {"wait", "insert"} =>
          r \notin waiting /\ \A a \in Actor : r \notin got[a]

(* The deadlock detector has nobody on record as waiting that runs.        *)
KnownInv == \A r \in registered : pc[r] = "wait"

OnTheWay == {a \in Actor : step[a] \in {"insert", "withdrawn"}}

CountInv == total_wait_node = Cardinality(waiting) + Cardinality(OnTheWay)

(* Whoever is in the hash after the thread has ended is about to look at   *)
(* the stop.                                                               *)
StopInv ==
    pc[Checker] = "exited" =>
        /\ stop
        /\ \A n \in waiting : \E a \in Req \union {Remover} :
              step[a] \in {"double_check", "check_stop"} /\ n \in ref[a]

(* The transactions: what is decided, who holds rows, what a conflict was. *)
RowInv ==
    /\ \A r \in Req : r \in ended <=> pc[r] \in {"end", "gone"}
    /\ \A k \in Row : owner[k] \in Req =>
          /\ pc[owner[k]] \in {"done", "end", "gone"}
          /\ \A l \in Row : owner[l] = owner[k] => l = k
    /\ \A r \in Req : pc[r] \in {"queue", "wait"} => hold_key[r] = NoOne
    /\ \A r \in Req : pc[r] \in {"post_lock", "recheck"} =>
          /\ want[r] \in Row /\ holder[r] \in Req
          /\ pc[holder[r]] \in {"done", "end", "gone"}
          /\ \A k \in Row : owner[k] = holder[r] => k = want[r]

(* Visits: a thread that has a pointer to a node is in a critical section  *)
(* (but for the remover that touches a node it has inserted), and whoever  *)
(* has taken a node out of the hash waits for its visitors, or has done so *)
(* already.                                                                *)
Visits(a, n) == n \in ref[a] /\ ~(a = Remover /\ step[a] = "touch")

Quiescing(b) == step[b] \in {"sync", "withdrawn"} \/ (b = Checker /\ pc[b] = "post")

VisitInv ==
    /\ \A a \in Actor, n \in Req : Visits(a, n) =>
          /\ a \in crit /\ pc[n] = "wait"
          /\ (step[n] \in {"wait", "insert"} => a = n)
          /\ \A b \in Actor : n \in got[b] =>
                \/ Quiescing(b) /\ a \in quiesce[b]
                \/ b = Checker /\ pc[b] \in {"check", "retire"}
                \/ b = a
    
(* A thread will bump the sequence of h and then look for its waiters: the *)
(* one that releases the lock, one that is about to, or one that has been  *)
(* woken up for h.                                                         *)
BumpComes(h) ==
    \/ h \in Row /\ owner[h] # NoOne /\ h \notin cleaned
    \/ h \in Req /\ pc[h] # "gone"
    \/ \E a \in Req \union {Remover} : key[a] = h /\ step[a] = "inc"
    \/ \E r \in Req : hold_key[r] = h
    \/ \E r \in Req : node_hold[r] = h /\ (pc[r] = "queue" \/ r \in got[Checker])

(* A transaction that is over and holds no row.                            *)
StaleHolder(h) == h \in Req /\ \A k \in Row : owner[k] # h

(* A thread is looking for the waiters of h and has not gone past n.       *)
Finds(a, n) ==
    /\ key[a] = hash[n]
    /\ \/ step[a] \in {"load", "del", "sync", "repost"}
       \/ a = Remover /\ step[a] \notin {"none", "inc"}
    /\ step[a] = "del" => \A m \in ref[a] : m <= n

(* A node that waits has the hash its request was told to wait for.        *)
HashInv ==
    \A n \in Req :
        /\ pc[n] \in {"run", "post_lock", "recheck"} => ~need_wait[n]
        /\ pc[n] = "wait" \/ (pc[n] = "retry" /\ need_wait[n]) => hash[n] \in Hash

(* A node in the hash whose second look at the sequence is behind it.      *)
Checked(n) ==
    n \in waiting /\ \A a \in Req \union {Remover} : step[a] = "double_check" => n \notin ref[a]

(* No wake-up is lost: for a request whose sequence has not moved a bump   *)
(* is still to come, and for a checked node that or a thread that is       *)
(* looking for it.                                                         *)
Safe(h) == BumpComes(h) \/ StaleHolder(h)

FreshInv ==
    \A n \in Req : pc[n] \in {"retry", "wait"} /\ hash[n] \in fresh[n] => Safe(hash[n])

CheckedInv ==
    \A n \in Req :
        Checked(n) => \/ standalone[n] \/ Safe(hash[n])
                      \/ \E a \in Req \union {Remover} : Finds(a, n)

IInv ==
    /\ TypeOK /\ StepInv /\ PointerInv /\ RemoverInv /\ OwnerInv
    /\ KnownInv /\ CountInv /\ StopInv /\ RowInv /\ VisitInv /\ HashInv /\ FreshInv /\ CheckedInv

-------------------------------------------------------------------------------
(* Lemmas about the operators                                              *)

(* The threads that run wait and wakeup.                                   *)
Mover == Req \union {Remover}

(* What the constants are, as the provers use it.                          *)
LEMMA ActorFacts ==
    /\ Checker \notin Req /\ Remover \notin Req /\ Checker # Remover
    /\ NoOne \notin Actor /\ NoOne \notin Row /\ NoOne \notin Hash
    /\ Row \intersect Req = {} /\ Checker \notin Row /\ Remover \notin Row
    /\ Req \subseteq Nat
    /\ Actor = Req \union {Checker, Remover} /\ Mover = Req \union {Remover}
    /\ Hash = Row \union Req
BY LockWaitAssumption DEF Actor, Mover, Hash

(* Numbers are well ordered: the first of the waiters of a hash exists.    *)
LEMMA FirstOf ==
    ASSUME NEW S \in SUBSET Nat, S # {}
    PROVE  Min(S) \in S /\ \A m \in S : Min(S) <= m
<1>1. PICK n \in S : \A m \in S : ~(<<m, n>> \in OpToRel(<, Nat))
    BY WFMin, NatLessThanWellFounded
<1>2. ASSUME NEW m \in S PROVE n <= m
    <2>1. <<m, n>> \notin {p \in Nat \X Nat : p[1] < p[2]}
        BY <1>1 DEF OpToRel
    <2>2. <<m, n>> \in Nat \X Nat /\ <<m, n>>[1] = m /\ <<m, n>>[2] = n /\ m \in Nat /\ n \in Nat
        OBVIOUS
    <2>3. ~(m < n)
        BY <2>1, <2>2
    <2> QED
        BY <2>2, <2>3
<1> QED
    BY <1>2 DEF Min

(* The node a worker waits with is its own, ...                            *)
LEMMA ArgOfWorker ==
    ASSUME NEW r \in Req
    PROVE  Arg(r) = r /\ Arg(r)' = r
BY LockWaitAssumption DEF Arg

(* ... and that of the remover is the one it has.                          *)
LEMMA ArgOfRemover ==
    ASSUME NEW n, got[Remover] \union ref[Remover] = {n}
    PROVE  Arg(Remover) = n
BY DEF Arg

(* `n` is the node that `a` waits with.                                    *)
InHand(a, n) ==
    /\ n = Arg(a)
    /\ a \in Req => n = a
    /\ a = Remover /\ step[a] \in {"insert", "double_check", "check_stop"} => ref[a] = {n}
    /\ a = Remover /\ step[a] \in {"wait", "insert", "withdrawn", "transform"} => got[a] = {n}

WaitSteps == {"wait", "insert", "double_check", "check_stop", "withdrawn", "transform"}

(* There is one in each step of wait.                                      *)
LEMMA NodeInHand ==
    ASSUME RemoverInv, NEW a \in Mover, step[a] \in WaitSteps
    PROVE  \E n \in Req : InHand(a, n)
<1>1. CASE a \in Req
    BY <1>1, ArgOfWorker, ActorFacts DEF InHand
<1>2. CASE a = Remover
    <2>1. PICK n \in Req : got[a] \union ref[a] = {n}
        BY <1>2 DEF RemoverInv, WaitSteps
    <2>2. Arg(a) = n
        BY <1>2, <2>1, ArgOfRemover
    <2> QED
        BY <1>2, <2>1, <2>2, ActorFacts DEF RemoverInv, InHand
<1> QED
    BY <1>1, <1>2 DEF Mover

-------------------------------------------------------------------------------
(* The actions that choose a node, one move for each outcome               *)

FoundWaiter(a, n) ==
    /\ step[a] = "load" /\ n \in Queued(key[a]) /\ \A m \in Queued(key[a]) : n <= m
    /\ ref' = [ref EXCEPT ![a] = {n}]
    /\ step' = [step EXCEPT ![a] = "del"]
    /\ EnterCritical(a)
    /\ UNCHANGED <<rowVars, pc, stmtVars, hold_key, nodeVars, mgrVars, key, got>>

FoundNobody(a) ==
    /\ step[a] = "load" /\ (total_wait_node = 0 \/ Queued(key[a]) = {})
    /\ NoWaiter(a)
    /\ UNCHANGED <<owner, cleaned, ended, stmtVars, hold_key, nodeVars, mgrVars, got, ref,
                   syncVars>>

(* fetch_waiter finds the first waiter of the hash or nobody.              *)
LEMMA FindFirstMoves ==
    ASSUME TypeOK, NEW a \in Mover, FindFirst(a)
    PROVE  FoundNobody(a) \/ \E n \in Req : FoundWaiter(a, n)
<1>1. CASE total_wait_node = 0 \/ Queued(key[a]) = {}
    BY <1>1 DEF FindFirst, FoundNobody, mgrVars, syncVars
<1>2. CASE ~(total_wait_node = 0 \/ Queued(key[a]) = {})
    <2> DEFINE n == Min(Queued(key[a]))
    <2>1. Queued(key[a]) \in SUBSET Nat
        BY ActorFacts DEF Queued, TypeOK
    <2>2. n \in Queued(key[a]) /\ \A m \in Queued(key[a]) : n <= m
        BY <1>2, <2>1, FirstOf
    <2>3. n \in Req
        BY <2>2 DEF Queued, TypeOK
    <2>4. FoundWaiter(a, n)
        BY <1>2, <2>2 DEF FindFirst, FoundWaiter, Goto, rowVars
    <2> QED
        BY <2>3, <2>4
<1> QED
    BY <1>1, <1>2

Taken(a, n) ==
    /\ step[a] = "del" /\ ref[a] = {n} /\ n \in waiting
    /\ waiting' = waiting \ {n}
    /\ total_wait_node' = total_wait_node - 1
    /\ got' = [got EXCEPT ![a] = {n}]
    /\ ref' = [ref EXCEPT ![a] = {}]
    /\ step' = [step EXCEPT ![a] = "sync"]
    /\ LeaveAndQuiesce(a)
    /\ UNCHANGED <<rowVars, pc, stmtVars, hold_key, nodeVars, registered, stop, key>>

TriesNext(a, n, m) ==
    /\ step[a] = "del" /\ ref[a] = {n} /\ n \notin waiting
    /\ m \in Queued(key[a]) /\ n < m /\ \A l \in Queued(key[a]) : n < l => m <= l
    /\ ref' = [ref EXCEPT ![a] = {m}]
    /\ UNCHANGED <<rowVars, pc, stmtVars, hold_key, nodeVars, mgrVars, step, key, got, syncVars>>

TriedAll(a, n) ==
    /\ step[a] = "del" /\ ref[a] = {n} /\ n \notin waiting
    /\ \A l \in Queued(key[a]) : ~(n < l)
    /\ ref' = [ref EXCEPT ![a] = {}]
    /\ LeaveCritical(a)
    /\ NoWaiter(a)
    /\ UNCHANGED <<owner, cleaned, ended, stmtVars, hold_key, nodeVars, mgrVars, got>>

(* It takes the node, tries the next one, or has tried them all.           *)
LEMMA TakeNodeMoves ==
    ASSUME TypeOK, PointerInv, RemoverInv, NEW a \in Mover, TakeNode(a)
    PROVE  \E n \in Req : \/ Taken(a, n) \/ TriedAll(a, n)
                          \/ \E m \in Req : TriesNext(a, n, m)
<1>1. PICK n \in Req : ref[a] = {n}
    BY DEF TakeNode, PointerInv, RemoverInv, Mover
<1> DEFINE next == {m \in Queued(key[a]) : m > n}
<1>2. (CHOOSE m \in ref[a] : TRUE) = n
    BY <1>1
<1>3. CASE n \in waiting
    <2>1. Taken(a, n)
        BY <1>1, <1>2, <1>3 DEF TakeNode, Taken, Goto, rowVars
    <2> QED
        BY <2>1
<1>4. CASE n \notin waiting /\ next # {}
    <2> DEFINE m == Min(next)
    <2>1. next \in SUBSET Nat /\ next \subseteq Req /\ n \in Nat
        BY ActorFacts DEF Queued, TypeOK
    <2>2. m \in next /\ \A l \in next : m <= l
        BY <1>4, <2>1, FirstOf
    <2>3. ref' = [ref EXCEPT ![a] = {m}]
        BY <1>2, <1>4 DEF TakeNode
    <2>4. UNCHANGED <<rowVars, pc, stmtVars, hold_key, nodeVars, mgrVars, step, key, got, syncVars>>
        BY <1>2, <1>4 DEF TakeNode, rowVars, mgrVars
    <2> HIDE DEF m
    <2>5. m \in Queued(key[a]) /\ n < m /\ \A l \in Queued(key[a]) : n < l => m <= l
        BY <2>1, <2>2 DEF Queued
    <2>6. TriesNext(a, n, m)
        BY <1>1, <1>4, <2>3, <2>4, <2>5 DEF TakeNode, TriesNext
    <2> QED
        BY <2>1, <2>2, <2>6
<1>5. CASE n \notin waiting /\ next = {}
    <2>1. \A l \in Queued(key[a]) : ~(n < l)
        BY <1>5, ActorFacts DEF Queued, TypeOK
    <2>2. TriedAll(a, n)
        BY <1>1, <1>2, <1>5, <2>1 DEF TakeNode, TriedAll, mgrVars
    <2> QED
        BY <2>2
<1> QED
    BY <1>3, <1>4, <1>5

RepostBase(r, n) ==
    /\ step[r] = "repost" /\ got[r] = {n}
    /\ node_hold' = [node_hold EXCEPT ![n] = key[r]]
    /\ registered' = registered \ {n}
    /\ got' = [got EXCEPT ![r] = {}]
    /\ pc' = [pc EXCEPT ![n] = "queue"]
    /\ UNCHANGED <<owner, cleaned, ended, stmtVars, hold_key, hash, need_wait, standalone,
                   fresh, waiting, total_wait_node, stop, ref, syncVars>>

RepostedOfRow(r, n) == RepostBase(r, n) /\ key[r] \in Row /\ Return(r)

RepostedOfTx(r, n) ==
    RepostBase(r, n) /\ key[r] \notin Row /\ Goto(r, "inc") /\ UNCHANGED <<latch, key>>

(* wakeup reposts the node and returns, or goes on for a transaction.      *)
LEMMA RepostMoves ==
    ASSUME PointerInv, NEW r \in Req, Repost(r)
    PROVE  \E n \in Req : RepostedOfRow(r, n) \/ RepostedOfTx(r, n)
<1>1. PICK n \in Req : got[r] = {n}
    BY DEF PointerInv, Repost
<1>2. RepostedOfRow(r, n) \/ RepostedOfTx(r, n)
    BY <1>1 DEF Repost, RepostBase, RepostedOfRow, RepostedOfTx, Deliver
<1> QED
    BY <1>2

WorkerWaits(r) ==
    /\ step[r] = "check_stop" /\ ~(stop /\ r \in waiting)
    /\ LeaveCritical(r)
    /\ step' = [step EXCEPT ![r] = "none"]
    /\ ref' = [ref EXCEPT ![r] = {}]
    /\ UNCHANGED <<rowVars, pc, stmtVars, hold_key, nodeVars, mgrVars, key, got>>

RemoverWaits(n) ==
    /\ step[Remover] = "check_stop" /\ ref[Remover] = {n} /\ ~(stop /\ n \in waiting)
    /\ LeaveCritical(Remover)
    /\ step' = [step EXCEPT ![Remover] = "touch"]
    /\ UNCHANGED <<rowVars, pc, stmtVars, hold_key, nodeVars, mgrVars, key, got, ref>>

(* wait returns to the worker, or to transform_row_lock_to_tx_lock.        *)
LEMMA WaitsMoves ==
    ASSUME RemoverInv, NEW a \in Mover, Waits(a)
    PROVE  (a \in Req /\ WorkerWaits(a)) \/ \E n \in Req : RemoverWaits(n)
<1>1. PICK n \in Req : InHand(a, n)
    BY NodeInHand DEF Waits, WaitSteps
<1>2. CASE a \in Req
    BY <1>1, <1>2, ActorFacts DEF Waits, WorkerWaits, InHand, Goto
<1>3. CASE a = Remover
    BY <1>1, <1>3, ActorFacts DEF Waits, RemoverWaits, InHand, Goto
<1> QED
    BY <1>2, <1>3, ActorFacts

Retired(n) ==
    /\ pc[Checker] = "retire" /\ n = key[Checker] /\ n \in waiting
    /\ waiting' = waiting \ {n}
    /\ total_wait_node' = total_wait_node - 1
    /\ got' = [got EXCEPT ![Checker] = @ \union {n}]
    /\ key' = [key EXCEPT ![Checker] = NoOne]
    /\ pc' = [pc EXCEPT ![Checker] = "check"]
    /\ UNCHANGED <<rowVars, stmtVars, hold_key, nodeVars, registered, stop, step, ref, syncVars>>

RetiredLate ==
    /\ pc[Checker] = "retire"
    /\ key' = [key EXCEPT ![Checker] = NoOne]
    /\ pc' = [pc EXCEPT ![Checker] = "check"]
    /\ UNCHANGED <<rowVars, stmtVars, hold_key, nodeVars, mgrVars, step, got, ref, syncVars>>

(* The node check_timeout has marked is retired or was taken meanwhile.    *)
LEMMA RetireNodeMoves ==
    ASSUME TypeOK, RetireNode
    PROVE  RetiredLate \/ \E n \in Req : Retired(n)
<1>1. CASE key[Checker] \in waiting
    BY <1>1 DEF RetireNode, Retired, TypeOK
<1>2. CASE key[Checker] \notin waiting
    BY <1>2 DEF RetireNode, RetiredLate, mgrVars
<1> QED
    BY <1>1, <1>2

RepostedOne(n) ==
    /\ pc[Checker] = "post" /\ quiesce[Checker] = {} /\ n \in got[Checker]
    /\ registered' = registered \ {n}
    /\ got' = [got EXCEPT ![Checker] = @ \ {n}]
    /\ pc' = [pc EXCEPT ![n] = "queue"]
    /\ UNCHANGED <<rowVars, stmtVars, hold_key, nodeVars, waiting, total_wait_node, stop,
                   step, key, ref, syncVars>>

RepostedAll ==
    /\ pc[Checker] = "post" /\ got[Checker] = {}
    /\ pc' = [pc EXCEPT ![Checker] = "idle"]
    /\ UNCHANGED <<rowVars, stmtVars, hold_key, nodeVars, mgrVars, subVars, syncVars>>

(* The retired nodes are reposted one by one.                              *)
LEMMA RepostRetiredMoves ==
    ASSUME TypeOK, RepostRetired
    PROVE  RepostedAll \/ \E n \in Req : RepostedOne(n)
<1>1. CASE got[Checker] = {}
    BY <1>1 DEF RepostRetired, RepostedAll, mgrVars, subVars
<1>2. CASE got[Checker] # {}
    <2>1. PICK n \in got[Checker] :
              /\ registered' = registered \ {n}
              /\ got' = [got EXCEPT ![Checker] = @ \ {n}]
              /\ Deliver(n)
        BY <1>2 DEF RepostRetired
    <2>2. n \in Req
        BY ActorFacts DEF TypeOK
    <2>3. RepostedOne(n)
        BY <2>1 DEF RepostRetired, RepostedOne, Deliver
    <2> QED
        BY <2>2, <2>3
<1> QED
    BY <1>1, <1>2

(* The steps of the specification, as moves.                               *)
Move ==
    \/ \E r \in Req : \/ Start(r) \/ GiveUp(r) \/ ReadSeq(r) \/ Recheck(r) \/ PassOn(r)
                      \/ StartWait(r) \/ Retry(r) \/ Decide(r) \/ EndTx(r) \/ WorkerWaits(r)
    \/ \E r \in Req, k \in Row :
          LockRow(r, k) \/ Conflict(r, k) \/ Rollback(r, k) \/ EndRow(r, k)
    \/ \E a \in Mover, n \in Req :
          /\ InHand(a, n)
          /\ \/ RefuseWait(a) \/ EnterWait(a) \/ Insert(a) \/ DoubleCheck(a)
             \/ Withdraw(a) \/ Withdrawn(a)
    \/ \E a \in Mover : IncSeq(a) \/ Quiescent(a) \/ FoundNobody(a)
    \/ \E a \in Mover, n \in Req : FoundWaiter(a, n) \/ Taken(a, n) \/ TriedAll(a, n)
    \/ \E a \in Mover, n \in Req, m \in Req : TriesNext(a, n, m)
    \/ \E r \in Req, n \in Req : RepostedOfRow(r, n) \/ RepostedOfTx(r, n)
    \/ \E n \in Req : InHand(Remover, n) /\ ChangeHash
    \/ \E k \in Row : RemoveCallback(k)
    \/ \E n \in Req : RemoverWaits(n) \/ MarkNode(n) \/ Retired(n) \/ RepostedOne(n)
    \/ TouchNode \/ BeginCheck \/ RetiredLate \/ EndCheck \/ RepostedAll \/ CheckerExits
    \/ Stop \/ UNCHANGED vars

(* Every step is a move.                                                   *)
LEMMA NextMoves ==
    ASSUME TypeOK, PointerInv, RemoverInv, [Next]_vars
    PROVE  Move
<1>1. ASSUME NEW r \in Req, StmtStep(r) PROVE Move
    BY <1>1 DEF StmtStep, Move
<1>2. ASSUME NEW a \in Mover, WaitStep(a) PROVE Move
    <2>1. step[a] \in WaitSteps
        BY <1>2 DEF WaitStep, WaitSteps, RefuseWait, EnterWait, Insert, DoubleCheck, Waits,
                    Withdraw, Withdrawn
    <2>2. PICK n \in Req : InHand(a, n)
        BY <2>1, NodeInHand
    <2>3. CASE Waits(a)
        BY <2>3, WaitsMoves DEF Move
    <2>4. CASE ~Waits(a)
        BY <1>2, <2>2, <2>4 DEF WaitStep, Move
    <2> QED
        BY <2>3, <2>4
<1>3. ASSUME NEW a \in Mover, FetchStep(a) PROVE Move
    <2>1. CASE IncSeq(a) \/ Quiescent(a)
        BY <2>1 DEF Move
    <2>2. CASE FindFirst(a)
        BY <2>2, FindFirstMoves DEF Move
    <2>3. CASE TakeNode(a)
        BY <2>3, TakeNodeMoves DEF Move
    <2> QED
        BY <1>3, <2>1, <2>2, <2>3 DEF FetchStep
<1>4. ASSUME NEW r \in Req, Repost(r) PROVE Move
    BY <1>4, RepostMoves DEF Move
<1>5. CASE ChangeHash
    <2>1. PICK n \in Req : InHand(Remover, n)
        BY <1>5, NodeInHand DEF ChangeHash, WaitSteps, Mover
    <2> QED
        BY <1>5, <2>1 DEF Move
<1>6. CASE CheckerStep
    BY <1>6, RetireNodeMoves, RepostRetiredMoves DEF CheckerStep, Move
<1>7. CASE TouchNode \/ Stop \/ (\E k \in Row : RemoveCallback(k)) \/ Finished \/ UNCHANGED vars
    BY <1>7 DEF Finished, Move
<1> QED
    BY <1>1, <1>2, <1>3, <1>4, <1>5, <1>6, <1>7 DEF Next, ReqStep, RemoverStep, Mover

-------------------------------------------------------------------------------
(* Counting                                                                *)

(* The sets that are counted are finite.                                   *)
LEMMA FiniteBooks ==
    ASSUME TypeOK
    PROVE  /\ IsFiniteSet(waiting) /\ IsFiniteSet(OnTheWay)
           /\ Cardinality(waiting) \in Nat /\ Cardinality(OnTheWay) \in Nat
<1>1. IsFiniteSet(Req) /\ IsFiniteSet(Actor)
    <2>1. Actor = (Req \union {Checker}) \union {Remover}
        BY DEF Actor
    <2>2. IsFiniteSet(Req) /\ IsFiniteSet(Req \union {Checker})
        BY LockWaitAssumption, FS_AddElement
    <2>3. IsFiniteSet((Req \union {Checker}) \union {Remover})
        BY <2>2, FS_AddElement
    <2> QED
        BY <2>1, <2>2, <2>3
<1>2. IsFiniteSet(waiting) /\ IsFiniteSet(OnTheWay)
    BY <1>1, FS_Subset DEF TypeOK, OnTheWay
<1> QED
    BY <1>2, FS_CardinalityType

(* The counter is at least 1 while a node waits or is on its way.          *)
LEMMA CountPositive ==
    ASSUME TypeOK, CountInv, waiting # {} \/ OnTheWay # {}
    PROVE  total_wait_node \in Nat /\ total_wait_node - 1 \in Nat
<1>1. Cardinality(waiting) # 0 \/ Cardinality(OnTheWay) # 0
    BY FiniteBooks, FS_EmptySet
<1> QED
    BY <1>1, FiniteBooks DEF CountInv

-------------------------------------------------------------------------------
(* Each part of the invariant is preserved                                 *)

(* Every variable keeps its type.                                          *)
LEMMA TypeStep ==
    ASSUME TypeOK, StepInv, PointerInv, RemoverInv, RowInv, CountInv, Move
    PROVE  TypeOK'
<1> USE ActorFacts DEF TypeOK, Place, vars, rowVars, stmtVars, nodeVars, syncVars, mgrVars,
           subVars
<1>1. ASSUME NEW r \in Req, Start(r) PROVE TypeOK'
    BY <1>1 DEF Start
<1>2. ASSUME NEW r \in Req, GiveUp(r) PROVE TypeOK'
    BY <1>2 DEF GiveUp
<1>3. ASSUME NEW r \in Req, ReadSeq(r) PROVE TypeOK'
    BY <1>3 DEF ReadSeq, RowInv
<1>4. ASSUME NEW r \in Req, Recheck(r) PROVE TypeOK'
    <2> DEFINE h == IF WaitOnRow(r) THEN want[r] ELSE holder[r]
    <2>1. h \in Hash
        BY <1>4 DEF Recheck, RowInv
    <2>2. /\ UNCHANGED <<rowVars, standalone, node_hold, mgrVars, subVars, syncVars>>
          /\ pc' \in [Actor -> Place \union {"idle", "check", "retire", "post", "exited", "remove"}]
          /\ want' \in [Req -> Row \union {NoOne}] /\ holder' \in [Req -> Req \union {NoOne}]
          /\ delayed' \in [Req -> BOOLEAN]
        BY <1>4 DEF Recheck
    <2>3. CASE StillLocked(r)
        <3>1. /\ hold_key' = [hold_key EXCEPT ![r] = IF @ = h THEN NoOne ELSE @]
              /\ hash' = [hash EXCEPT ![r] = h]
              /\ fresh' = [fresh EXCEPT ![r] = @ \intersect {h}]
              /\ need_wait' = [need_wait EXCEPT ![r] = TRUE]
            BY <1>4, <2>3 DEF Recheck
        <3> HIDE DEF h
        <3> QED
            BY <2>1, <2>2, <3>1
    <2>4. CASE ~StillLocked(r)
        <3>1. fresh' = [fresh EXCEPT ![r] = {}] /\ UNCHANGED <<hold_key, hash, need_wait>>
            BY <1>4, <2>4 DEF Recheck
        <3> QED
            BY <2>2, <3>1
    <2> QED
        BY <2>3, <2>4
<1>5. ASSUME NEW r \in Req, PassOn(r) PROVE TypeOK'
    BY <1>5 DEF PassOn, Wakeup, Goto
<1>6. ASSUME NEW r \in Req, StartWait(r) PROVE TypeOK'
    BY <1>6 DEF StartWait, Goto
<1>7. ASSUME NEW r \in Req, Retry(r) PROVE TypeOK'
    BY <1>7 DEF Retry, Deliver
<1>8. ASSUME NEW r \in Req, Decide(r) PROVE TypeOK'
    BY <1>8 DEF Decide, Processed, CtxFree
<1>9. ASSUME NEW r \in Req, EndTx(r) PROVE TypeOK'
    BY <1>9 DEF EndTx, OwnRows, Wakeup, Goto
<1>10. ASSUME NEW r \in Req, NEW k \in Row, LockRow(r, k) PROVE TypeOK'
    BY <1>10 DEF LockRow, Locked
<1>11. ASSUME NEW r \in Req, NEW k \in Row, Conflict(r, k) PROVE TypeOK'
    BY <1>11 DEF Conflict, Locked
<1>12. ASSUME NEW r \in Req, NEW k \in Row, Rollback(r, k) PROVE TypeOK'
    BY <1>12 DEF Rollback, Processed, CtxFree, Release, OwnRows, Wakeup, Goto
<1>13. ASSUME NEW r \in Req, NEW k \in Row, EndRow(r, k) PROVE TypeOK'
    BY <1>13 DEF EndRow, Release, OwnRows, Wakeup, Goto
<1>14. ASSUME NEW a \in Mover, NEW n \in Req, InHand(a, n), RefuseWait(a) PROVE TypeOK'
    BY <1>14 DEF RefuseWait, WaitFails, Goto, Deliver, InHand
<1>15. ASSUME NEW a \in Mover, NEW n \in Req, InHand(a, n), EnterWait(a) PROVE TypeOK'
    <2>1. standalone' \in [Req -> BOOLEAN]
        BY <1>15 DEF EnterWait, InHand, MissedWakeup
    <2> QED
        BY <1>15, <2>1 DEF EnterWait, EnterCritical, Goto, InHand
<1>16. ASSUME NEW a \in Mover, NEW n \in Req, InHand(a, n), Insert(a) PROVE TypeOK'
    BY <1>16 DEF Insert, Goto, InHand
<1>17. ASSUME NEW a \in Mover, NEW n \in Req, InHand(a, n), DoubleCheck(a) PROVE TypeOK'
    BY <1>17 DEF DoubleCheck, Goto, InHand
<1>18. ASSUME NEW r \in Req, WorkerWaits(r) PROVE TypeOK'
    BY <1>18 DEF WorkerWaits, LeaveCritical
<1>19. ASSUME NEW n \in Req, RemoverWaits(n) PROVE TypeOK'
    BY <1>19 DEF RemoverWaits, LeaveCritical
<1>20. ASSUME NEW a \in Mover, NEW n \in Req, InHand(a, n), Withdraw(a) PROVE TypeOK'
    <2>1. quiesce' \in [Actor -> SUBSET Actor] /\ crit' \subseteq Actor
        BY <1>20 DEF Withdraw, LeaveAndQuiesce
    <2>2. /\ waiting' = waiting \ {n}
          /\ got' = [got EXCEPT ![a] = {n}] /\ ref' = [ref EXCEPT ![a] = {}]
        BY <1>20 DEF Withdraw, InHand
    <2>3. got' \in [Actor -> SUBSET Req] /\ ref' \in [Actor -> SUBSET Req] /\ waiting' \subseteq Req
        BY <2>2
    <2> QED
        BY <1>20, <2>1, <2>3 DEF Withdraw, Goto
<1>21. ASSUME NEW a \in Mover, NEW n \in Req, InHand(a, n), Withdrawn(a) PROVE TypeOK'
    <2>1. total_wait_node' \in Nat
        BY <1>21, CountPositive DEF Withdrawn, OnTheWay
    <2> QED
        BY <1>21, <2>1 DEF Withdrawn, WaitFails, Goto, Deliver, InHand
<1>22. ASSUME NEW a \in Mover, IncSeq(a) PROVE TypeOK'
    BY <1>22 DEF IncSeq, Bump, SameBucket, Goto
<1>23. ASSUME NEW a \in Mover, FoundNobody(a) PROVE TypeOK'
    BY <1>23 DEF FoundNobody, Queued, NoWaiter, Return, Goto
<1>24. ASSUME NEW a \in Mover, NEW n \in Req, FoundWaiter(a, n) PROVE TypeOK'
    BY <1>24 DEF FoundWaiter, Queued, EnterCritical
<1>25. ASSUME NEW a \in Mover, NEW n \in Req, Taken(a, n) PROVE TypeOK'
    <2>1. total_wait_node' \in Nat
        BY <1>25, CountPositive DEF Taken
    <2> QED
        BY <1>25, <2>1 DEF Taken, LeaveAndQuiesce
<1>26. ASSUME NEW a \in Mover, NEW n \in Req, NEW m \in Req, TriesNext(a, n, m) PROVE TypeOK'
    BY <1>26 DEF TriesNext, Queued
<1>27. ASSUME NEW a \in Mover, NEW n \in Req, TriedAll(a, n) PROVE TypeOK'
    BY <1>27 DEF TriedAll, Queued, LeaveCritical, NoWaiter, Return, Goto
<1>28. ASSUME NEW a \in Mover, Quiescent(a) PROVE TypeOK'
    BY <1>28 DEF Quiescent, Goto
<1>29. ASSUME NEW r \in Req, NEW n \in Req, RepostedOfRow(r, n) PROVE TypeOK'
    BY <1>29 DEF RepostedOfRow, RepostBase, Return, Goto
<1>30. ASSUME NEW r \in Req, NEW n \in Req, RepostedOfTx(r, n) PROVE TypeOK'
    BY <1>30 DEF RepostedOfTx, RepostBase, Goto
<1>31. ASSUME NEW n \in Req, InHand(Remover, n), ChangeHash PROVE TypeOK'
    <2>1. owner[key[Remover]] \in Req
        BY <1>31 DEF ChangeHash, StepInv, RemoverInv
    <2>2. hash' \in [Req -> Hash \union {NoOne}]
        BY <1>31, <2>1 DEF ChangeHash, InHand
    <2> QED
        BY <1>31, <2>2 DEF ChangeHash, Goto, InHand
<1>32. ASSUME TouchNode PROVE TypeOK'
    BY <1>32 DEF TouchNode, Goto
<1>33. ASSUME NEW k \in Row, RemoveCallback(k) PROVE TypeOK'
    BY <1>33 DEF RemoveCallback, Wakeup, Goto
<1>34. ASSUME BeginCheck PROVE TypeOK'
    BY <1>34 DEF BeginCheck, EnterCritical
<1>35. ASSUME NEW n \in Req, MarkNode(n) PROVE TypeOK'
    BY <1>35 DEF MarkNode, PoppedHold
<1>36. ASSUME NEW n \in Req, Retired(n) PROVE TypeOK'
    <2>1. total_wait_node' \in Nat
        BY <1>36, CountPositive DEF Retired
    <2>2. got' \in [Actor -> SUBSET Req]
        BY <1>36 DEF Retired
    <2> QED
        BY <1>36, <2>1, <2>2 DEF Retired
<1>37. ASSUME RetiredLate PROVE TypeOK'
    BY <1>37 DEF RetiredLate
<1>38. ASSUME EndCheck PROVE TypeOK'
    BY <1>38 DEF EndCheck, MustPop, LeaveAndQuiesce
<1>39. ASSUME NEW n \in Req, RepostedOne(n) PROVE TypeOK'
    BY <1>39 DEF RepostedOne
<1>40. ASSUME RepostedAll PROVE TypeOK'
    BY <1>40 DEF RepostedAll
<1>41. ASSUME CheckerExits PROVE TypeOK'
    BY <1>41 DEF CheckerExits
<1>42. ASSUME Stop PROVE TypeOK'
    BY <1>42 DEF Stop
<1>43. ASSUME UNCHANGED vars PROVE TypeOK'
    BY <1>43
<1> QED
    BY <1>1, <1>2, <1>3, <1>4, <1>5, <1>6, <1>7, <1>8, <1>9, <1>10, <1>11, <1>12, <1>13, <1>14,
           <1>15, <1>16, <1>17, <1>18, <1>19, <1>20, <1>21, <1>22, <1>23, <1>24, <1>25, <1>26,
           <1>27, <1>28, <1>29, <1>30, <1>31, <1>32, <1>33, <1>34, <1>35, <1>36, <1>37, <1>38,
           <1>39, <1>40, <1>41, <1>42, <1>43 DEF Move

(* wait and wakeup go on where their requests are.                         *)
LEMMA StepStep ==
    ASSUME TypeOK, StepInv, PointerInv, OwnerInv, Move
    PROVE  StepInv'
<1> USE ActorFacts DEF TypeOK, Place, StepInv, vars, rowVars, stmtVars, nodeVars, syncVars,
           mgrVars, subVars
<1>1. ASSUME NEW r \in Req, Start(r) PROVE StepInv'
    BY <1>1 DEF Start
<1>2. ASSUME NEW r \in Req, GiveUp(r) PROVE StepInv'
    BY <1>2 DEF GiveUp
<1>3. ASSUME NEW r \in Req, ReadSeq(r) PROVE StepInv'
    BY <1>3 DEF ReadSeq
<1>4. ASSUME NEW r \in Req, Recheck(r) PROVE StepInv'
    BY <1>4 DEF Recheck, StillLocked, WaitOnRow, Locked
<1>5. ASSUME NEW r \in Req, PassOn(r) PROVE StepInv'
    BY <1>5 DEF PassOn, Wakeup, Goto
<1>6. ASSUME NEW r \in Req, StartWait(r) PROVE StepInv'
    BY <1>6 DEF StartWait, Goto
<1>7. ASSUME NEW r \in Req, Retry(r) PROVE StepInv'
    BY <1>7 DEF Retry, Deliver
<1>8. ASSUME NEW r \in Req, Decide(r) PROVE StepInv'
    BY <1>8 DEF Decide, Processed, CtxFree
<1>9. ASSUME NEW r \in Req, EndTx(r) PROVE StepInv'
    BY <1>9 DEF EndTx, OwnRows, Wakeup, Goto
<1>10. ASSUME NEW r \in Req, NEW k \in Row, LockRow(r, k) PROVE StepInv'
    BY <1>10 DEF LockRow, Locked
<1>11. ASSUME NEW r \in Req, NEW k \in Row, Conflict(r, k) PROVE StepInv'
    BY <1>11 DEF Conflict, Locked
<1>12. ASSUME NEW r \in Req, NEW k \in Row, Rollback(r, k) PROVE StepInv'
    BY <1>12 DEF Rollback, Processed, CtxFree, Release, OwnRows, Wakeup, Goto
<1>13. ASSUME NEW r \in Req, NEW k \in Row, EndRow(r, k) PROVE StepInv'
    BY <1>13 DEF EndRow, Release, OwnRows, Wakeup, Goto
<1>14. ASSUME NEW a \in Mover, NEW n \in Req, InHand(a, n), RefuseWait(a) PROVE StepInv'
    BY <1>14 DEF RefuseWait, WaitFails, Goto, Deliver, InHand, OwnerInv, NodeHasOneOwner, PointerInv
<1>15. ASSUME NEW a \in Mover, NEW n \in Req, InHand(a, n), EnterWait(a) PROVE StepInv'
    BY <1>15 DEF EnterWait, EnterCritical, Goto, InHand
<1>16. ASSUME NEW a \in Mover, NEW n \in Req, InHand(a, n), Insert(a) PROVE StepInv'
    BY <1>16 DEF Insert, Goto, InHand
<1>17. ASSUME NEW a \in Mover, NEW n \in Req, InHand(a, n), DoubleCheck(a) PROVE StepInv'
    BY <1>17 DEF DoubleCheck, Goto, InHand
<1>18. ASSUME NEW r \in Req, WorkerWaits(r) PROVE StepInv'
    BY <1>18 DEF WorkerWaits, LeaveCritical
<1>19. ASSUME NEW n \in Req, RemoverWaits(n) PROVE StepInv'
    BY <1>19 DEF RemoverWaits, LeaveCritical
<1>20. ASSUME NEW a \in Mover, NEW n \in Req, InHand(a, n), Withdraw(a) PROVE StepInv'
    <2>1. /\ step' = [step EXCEPT ![a] = "withdrawn"] /\ pc' = pc
          /\ pc[n] = "wait" /\ (a \in Req => n = a)
        BY <1>20 DEF Withdraw, Goto, InHand, OwnerInv, NodeHasOneOwner
    <2> QED
        BY <1>20, <2>1 DEF Withdraw
<1>21. ASSUME NEW a \in Mover, NEW n \in Req, InHand(a, n), Withdrawn(a) PROVE StepInv'
    BY <1>21 DEF Withdrawn, WaitFails, Goto, Deliver, InHand, OwnerInv, NodeHasOneOwner, PointerInv
<1>22. ASSUME NEW a \in Mover, IncSeq(a) PROVE StepInv'
    BY <1>22 DEF IncSeq, Bump, SameBucket, Goto
<1>23. ASSUME NEW a \in Mover, FoundNobody(a) PROVE StepInv'
    BY <1>23 DEF FoundNobody, Queued, NoWaiter, Return, Goto
<1>24. ASSUME NEW a \in Mover, NEW n \in Req, FoundWaiter(a, n) PROVE StepInv'
    BY <1>24 DEF FoundWaiter, Queued, EnterCritical
<1>25. ASSUME NEW a \in Mover, NEW n \in Req, Taken(a, n) PROVE StepInv'
    BY <1>25 DEF Taken, LeaveAndQuiesce
<1>26. ASSUME NEW a \in Mover, NEW n \in Req, NEW m \in Req, TriesNext(a, n, m) PROVE StepInv'
    BY <1>26 DEF TriesNext, Queued
<1>27. ASSUME NEW a \in Mover, NEW n \in Req, TriedAll(a, n) PROVE StepInv'
    BY <1>27 DEF TriedAll, Queued, LeaveCritical, NoWaiter, Return, Goto
<1>28. ASSUME NEW a \in Mover, Quiescent(a) PROVE StepInv'
    BY <1>28 DEF Quiescent, Goto
<1>29. ASSUME NEW r \in Req, NEW n \in Req, RepostedOfRow(r, n) PROVE StepInv'
    BY <1>29 DEF RepostedOfRow, RepostBase, Return, Goto, OwnerInv, NodeHasOneOwner, PointerInv
<1>30. ASSUME NEW r \in Req, NEW n \in Req, RepostedOfTx(r, n) PROVE StepInv'
    BY <1>30 DEF RepostedOfTx, RepostBase, Goto, OwnerInv, NodeHasOneOwner, PointerInv
<1>31. ASSUME NEW n \in Req, InHand(Remover, n), ChangeHash PROVE StepInv'
    BY <1>31 DEF ChangeHash, Goto, InHand
<1>32. ASSUME TouchNode PROVE StepInv'
    BY <1>32 DEF TouchNode, Goto
<1>33. ASSUME NEW k \in Row, RemoveCallback(k) PROVE StepInv'
    BY <1>33 DEF RemoveCallback, Wakeup, Goto
<1>34. ASSUME BeginCheck PROVE StepInv'
    BY <1>34 DEF BeginCheck, EnterCritical
<1>35. ASSUME NEW n \in Req, MarkNode(n) PROVE StepInv'
    BY <1>35 DEF MarkNode, PoppedHold
<1>36. ASSUME NEW n \in Req, Retired(n) PROVE StepInv'
    BY <1>36 DEF Retired
<1>37. ASSUME RetiredLate PROVE StepInv'
    BY <1>37 DEF RetiredLate
<1>38. ASSUME EndCheck PROVE StepInv'
    BY <1>38 DEF EndCheck, MustPop, LeaveAndQuiesce
<1>39. ASSUME NEW n \in Req, RepostedOne(n) PROVE StepInv'
    <2>1. n \in got[Checker] /\ n # Checker /\ n # Remover /\ n \in Actor /\ Checker \in Actor
        BY <1>39 DEF RepostedOne
    <2>2. pc[n] = "wait" /\ n \notin waiting /\ \A b \in Actor \ {Checker} : n \notin got[b]
        BY <2>1 DEF OwnerInv, NodeHasOneOwner
    <2>3. step[n] \notin {"wait", "insert", "withdrawn"}
        BY <2>1, <2>2 DEF OwnerInv, PointerInv
    <2>4. /\ \A b \in Actor \ {Checker} : got'[b] = got[b]
          /\ got'[Checker] = got[Checker] \ {n}
        BY <1>39 DEF RepostedOne
    <2> QED
        BY <1>39, <2>1, <2>2, <2>3, <2>4 DEF RepostedOne
<1>40. ASSUME RepostedAll PROVE StepInv'
    BY <1>40 DEF RepostedAll
<1>41. ASSUME CheckerExits PROVE StepInv'
    BY <1>41 DEF CheckerExits
<1>42. ASSUME Stop PROVE StepInv'
    BY <1>42 DEF Stop
<1>43. ASSUME UNCHANGED vars PROVE StepInv'
    BY <1>43
<1> QED
    BY <1>1, <1>2, <1>3, <1>4, <1>5, <1>6, <1>7, <1>8, <1>9, <1>10, <1>11, <1>12, <1>13, <1>14,
           <1>15, <1>16, <1>17, <1>18, <1>19, <1>20, <1>21, <1>22, <1>23, <1>24, <1>25, <1>26,
           <1>27, <1>28, <1>29, <1>30, <1>31, <1>32, <1>33, <1>34, <1>35, <1>36, <1>37, <1>38,
           <1>39, <1>40, <1>41, <1>42, <1>43 DEF Move

(* Threads point to and take the nodes of their step.                      *)
LEMMA PointerStep ==
    ASSUME TypeOK, StepInv, PointerInv, RemoverInv, OwnerInv, Move
    PROVE  PointerInv'
<1> USE ActorFacts DEF TypeOK, StepInv, PointerInv, vars, rowVars, stmtVars, nodeVars, syncVars,
           mgrVars, subVars
<1>1. ASSUME NEW r \in Req, Start(r) PROVE PointerInv'
    BY <1>1 DEF Start
<1>2. ASSUME NEW r \in Req, GiveUp(r) PROVE PointerInv'
    BY <1>2 DEF GiveUp
<1>3. ASSUME NEW r \in Req, ReadSeq(r) PROVE PointerInv'
    BY <1>3 DEF ReadSeq
<1>4. ASSUME NEW r \in Req, Recheck(r) PROVE PointerInv'
    BY <1>4 DEF Recheck, StillLocked, WaitOnRow, Locked
<1>5. ASSUME NEW r \in Req, PassOn(r) PROVE PointerInv'
    BY <1>5 DEF PassOn, Wakeup, Goto
<1>6. ASSUME NEW r \in Req, StartWait(r) PROVE PointerInv'
    BY <1>6 DEF StartWait, Goto
<1>7. ASSUME NEW r \in Req, Retry(r) PROVE PointerInv'
    BY <1>7 DEF Retry, Deliver
<1>8. ASSUME NEW r \in Req, Decide(r) PROVE PointerInv'
    BY <1>8 DEF Decide, Processed, CtxFree
<1>9. ASSUME NEW r \in Req, EndTx(r) PROVE PointerInv'
    BY <1>9 DEF EndTx, OwnRows, Wakeup, Goto
<1>10. ASSUME NEW r \in Req, NEW k \in Row, LockRow(r, k) PROVE PointerInv'
    BY <1>10 DEF LockRow, Locked
<1>11. ASSUME NEW r \in Req, NEW k \in Row, Conflict(r, k) PROVE PointerInv'
    BY <1>11 DEF Conflict, Locked
<1>12. ASSUME NEW r \in Req, NEW k \in Row, Rollback(r, k) PROVE PointerInv'
    BY <1>12 DEF Rollback, Processed, CtxFree, Release, OwnRows, Wakeup, Goto
<1>13. ASSUME NEW r \in Req, NEW k \in Row, EndRow(r, k) PROVE PointerInv'
    BY <1>13 DEF EndRow, Release, OwnRows, Wakeup, Goto
<1>14. ASSUME NEW a \in Mover, NEW n \in Req, InHand(a, n), RefuseWait(a) PROVE PointerInv'
    BY <1>14 DEF RefuseWait, WaitFails, Goto, Deliver, InHand
<1>15. ASSUME NEW a \in Mover, NEW n \in Req, InHand(a, n), EnterWait(a) PROVE PointerInv'
    BY <1>15 DEF EnterWait, EnterCritical, Goto, InHand
<1>16. ASSUME NEW a \in Mover, NEW n \in Req, InHand(a, n), Insert(a) PROVE PointerInv'
    BY <1>16 DEF Insert, Goto, InHand
<1>17. ASSUME NEW a \in Mover, NEW n \in Req, InHand(a, n), DoubleCheck(a) PROVE PointerInv'
    BY <1>17 DEF DoubleCheck, Goto, InHand
<1>18. ASSUME NEW r \in Req, WorkerWaits(r) PROVE PointerInv'
    BY <1>18 DEF WorkerWaits, LeaveCritical
<1>19. ASSUME NEW n \in Req, RemoverWaits(n) PROVE PointerInv'
    BY <1>19 DEF RemoverWaits, LeaveCritical
<1>20. ASSUME NEW a \in Mover, NEW n \in Req, InHand(a, n), Withdraw(a) PROVE PointerInv'
    BY <1>20 DEF Withdraw, LeaveAndQuiesce, Goto, InHand
<1>21. ASSUME NEW a \in Mover, NEW n \in Req, InHand(a, n), Withdrawn(a) PROVE PointerInv'
    BY <1>21 DEF Withdrawn, WaitFails, Goto, Deliver, InHand
<1>22. ASSUME NEW a \in Mover, IncSeq(a) PROVE PointerInv'
    BY <1>22 DEF IncSeq, Bump, SameBucket, Goto
<1>23. ASSUME NEW a \in Mover, FoundNobody(a) PROVE PointerInv'
    BY <1>23 DEF FoundNobody, Queued, NoWaiter, Return, Goto
<1>24. ASSUME NEW a \in Mover, NEW n \in Req, FoundWaiter(a, n) PROVE PointerInv'
    BY <1>24 DEF FoundWaiter, Queued, EnterCritical
<1>25. ASSUME NEW a \in Mover, NEW n \in Req, Taken(a, n) PROVE PointerInv'
    BY <1>25 DEF Taken, LeaveAndQuiesce
<1>26. ASSUME NEW a \in Mover, NEW n \in Req, NEW m \in Req, TriesNext(a, n, m) PROVE PointerInv'
    <2>1. /\ \A r \in Req : /\ step'[r] = step[r] /\ got'[r] = got[r]
                            /\ ref'[r] = ref[r] \/ (step[r] = "del" /\ ref'[r] = {m})
          /\ ref'[Checker] = ref[Checker] /\ UNCHANGED <<pc, key, got>>
        BY <1>26 DEF TriesNext
    <2> HIDE ActorFacts DEF TypeOK, StepInv
    <2> QED
        BY <2>1
<1>27. ASSUME NEW a \in Mover, NEW n \in Req, TriedAll(a, n) PROVE PointerInv'
    BY <1>27 DEF TriedAll, Queued, LeaveCritical, NoWaiter, Return, Goto
<1>28. ASSUME NEW a \in Mover, Quiescent(a) PROVE PointerInv'
    BY <1>28 DEF Quiescent, Goto
<1>29. ASSUME NEW r \in Req, NEW n \in Req, RepostedOfRow(r, n) PROVE PointerInv'
    BY <1>29 DEF RepostedOfRow, RepostBase, Return, Goto
<1>30. ASSUME NEW r \in Req, NEW n \in Req, RepostedOfTx(r, n) PROVE PointerInv'
    BY <1>30 DEF RepostedOfTx, RepostBase, Goto
<1>31. ASSUME NEW n \in Req, InHand(Remover, n), ChangeHash PROVE PointerInv'
    BY <1>31 DEF ChangeHash, Goto, InHand
<1>32. ASSUME TouchNode PROVE PointerInv'
    BY <1>32 DEF TouchNode, Goto
<1>33. ASSUME NEW k \in Row, RemoveCallback(k) PROVE PointerInv'
    BY <1>33 DEF RemoveCallback, Wakeup, Goto
<1>34. ASSUME BeginCheck PROVE PointerInv'
    BY <1>34 DEF BeginCheck, EnterCritical
<1>35. ASSUME NEW n \in Req, MarkNode(n) PROVE PointerInv'
    BY <1>35 DEF MarkNode, PoppedHold
<1>36. ASSUME NEW n \in Req, Retired(n) PROVE PointerInv'
    <2>1. /\ \A r \in Req : got'[r] = got[r] /\ ref'[r] = ref[r] /\ step'[r] = step[r]
          /\ pc'[Checker] = "check"
        BY <1>36 DEF Retired
    <2> HIDE ActorFacts DEF TypeOK, StepInv
    <2> QED
        BY <2>1
<1>37. ASSUME RetiredLate PROVE PointerInv'
    BY <1>37 DEF RetiredLate
<1>38. ASSUME EndCheck PROVE PointerInv'
    BY <1>38 DEF EndCheck, MustPop, LeaveAndQuiesce
<1>39. ASSUME NEW n \in Req, RepostedOne(n) PROVE PointerInv'
    <2>1. n \in got[Checker] /\ n # Checker /\ n # Remover /\ n \in Actor /\ Checker \in Actor
        BY <1>39 DEF RepostedOne
    <2>2. pc[n] = "wait" /\ n \notin waiting /\ \A b \in Actor \ {Checker} : n \notin got[b]
        BY <2>1 DEF OwnerInv, NodeHasOneOwner
    <2>3. step[n] \notin {"wait", "insert", "withdrawn"}
        BY <2>1, <2>2 DEF OwnerInv, PointerInv
    <2>4. /\ \A b \in Actor \ {Checker} : got'[b] = got[b]
          /\ got'[Checker] = got[Checker] \ {n}
        BY <1>39 DEF RepostedOne
    <2>5. UNCHANGED <<step, ref, key>> /\ pc'[Checker] = pc[Checker] /\ pc[Checker] = "post"
        BY <1>39, <2>1 DEF RepostedOne
    <2> HIDE DEF TypeOK, StepInv
    <2> QED
        BY ZenonT(60), <2>4, <2>5
<1>40. ASSUME RepostedAll PROVE PointerInv'
    BY <1>40 DEF RepostedAll
<1>41. ASSUME CheckerExits PROVE PointerInv'
    BY <1>41 DEF CheckerExits
<1>42. ASSUME Stop PROVE PointerInv'
    BY <1>42 DEF Stop
<1>43. ASSUME UNCHANGED vars PROVE PointerInv'
    BY <1>43
<1> QED
    BY <1>1, <1>2, <1>3, <1>4, <1>5, <1>6, <1>7, <1>8, <1>9, <1>10, <1>11, <1>12, <1>13, <1>14,
           <1>15, <1>16, <1>17, <1>18, <1>19, <1>20, <1>21, <1>22, <1>23, <1>24, <1>25, <1>26,
           <1>27, <1>28, <1>29, <1>30, <1>31, <1>32, <1>33, <1>34, <1>35, <1>36, <1>37, <1>38,
           <1>39, <1>40, <1>41, <1>42, <1>43 DEF Move

(* So does the remover, under the latch of its row.                        *)
LEMMA RemoverPointerStep ==
    ASSUME TypeOK, StepInv, RemoverInv, OwnerInv, RowInv, Move
    PROVE  RemoverInv'
<1> USE ActorFacts DEF TypeOK, StepInv, RemoverInv, RowInv, vars, rowVars, stmtVars, nodeVars,
           syncVars, mgrVars, subVars
<1>1. ASSUME NEW r \in Req, Start(r) PROVE RemoverInv'
    BY <1>1 DEF Start
<1>2. ASSUME NEW r \in Req, GiveUp(r) PROVE RemoverInv'
    BY <1>2 DEF GiveUp
<1>3. ASSUME NEW r \in Req, ReadSeq(r) PROVE RemoverInv'
    BY <1>3 DEF ReadSeq
<1>4. ASSUME NEW r \in Req, Recheck(r) PROVE RemoverInv'
    BY <1>4 DEF Recheck, StillLocked, WaitOnRow, Locked
<1>5. ASSUME NEW r \in Req, PassOn(r) PROVE RemoverInv'
    BY <1>5 DEF PassOn, Wakeup, Goto
<1>6. ASSUME NEW r \in Req, StartWait(r) PROVE RemoverInv'
    BY <1>6 DEF StartWait, Goto
<1>7. ASSUME NEW r \in Req, Retry(r) PROVE RemoverInv'
    BY <1>7 DEF Retry, Deliver
<1>8. ASSUME NEW r \in Req, Decide(r) PROVE RemoverInv'
    BY <1>8 DEF Decide, Processed, CtxFree
<1>9. ASSUME NEW r \in Req, EndTx(r) PROVE RemoverInv'
    BY <1>9 DEF EndTx, OwnRows, Wakeup, Goto
<1>10. ASSUME NEW r \in Req, NEW k \in Row, LockRow(r, k) PROVE RemoverInv'
    BY <1>10 DEF LockRow, Locked
<1>11. ASSUME NEW r \in Req, NEW k \in Row, Conflict(r, k) PROVE RemoverInv'
    BY <1>11 DEF Conflict, Locked
<1>12. ASSUME NEW r \in Req, NEW k \in Row, Rollback(r, k) PROVE RemoverInv'
    BY <1>12 DEF Rollback, Processed, CtxFree, Release, OwnRows, Wakeup, Goto
<1>13. ASSUME NEW r \in Req, NEW k \in Row, EndRow(r, k) PROVE RemoverInv'
    BY <1>13 DEF EndRow, Release, OwnRows, Wakeup, Goto
<1>14. ASSUME NEW a \in Mover, NEW n \in Req, InHand(a, n), RefuseWait(a) PROVE RemoverInv'
    BY <1>14 DEF RefuseWait, WaitFails, Goto, Deliver, InHand
<1>15. ASSUME NEW a \in Mover, NEW n \in Req, InHand(a, n), EnterWait(a) PROVE RemoverInv'
    BY <1>15 DEF EnterWait, EnterCritical, Goto, InHand
<1>16. ASSUME NEW a \in Mover, NEW n \in Req, InHand(a, n), Insert(a) PROVE RemoverInv'
    BY <1>16 DEF Insert, Goto, InHand
<1>17. ASSUME NEW a \in Mover, NEW n \in Req, InHand(a, n), DoubleCheck(a) PROVE RemoverInv'
    BY <1>17 DEF DoubleCheck, Goto, InHand
<1>18. ASSUME NEW r \in Req, WorkerWaits(r) PROVE RemoverInv'
    BY <1>18 DEF WorkerWaits, LeaveCritical
<1>19. ASSUME NEW n \in Req, RemoverWaits(n) PROVE RemoverInv'
    BY <1>19 DEF RemoverWaits, LeaveCritical
<1>20. ASSUME NEW a \in Mover, NEW n \in Req, InHand(a, n), Withdraw(a) PROVE RemoverInv'
    BY <1>20 DEF Withdraw, LeaveAndQuiesce, Goto, InHand
<1>21. ASSUME NEW a \in Mover, NEW n \in Req, InHand(a, n), Withdrawn(a) PROVE RemoverInv'
    BY <1>21 DEF Withdrawn, WaitFails, Goto, Deliver, InHand
<1>22. ASSUME NEW a \in Mover, IncSeq(a) PROVE RemoverInv'
    BY <1>22 DEF IncSeq, Bump, SameBucket, Goto
<1>23. ASSUME NEW a \in Mover, FoundNobody(a) PROVE RemoverInv'
    BY <1>23 DEF FoundNobody, Queued, NoWaiter, Return, Goto
<1>24. ASSUME NEW a \in Mover, NEW n \in Req, FoundWaiter(a, n) PROVE RemoverInv'
    BY <1>24 DEF FoundWaiter, Queued, EnterCritical
<1>25. ASSUME NEW a \in Mover, NEW n \in Req, Taken(a, n) PROVE RemoverInv'
    BY <1>25 DEF Taken, LeaveAndQuiesce
<1>26. ASSUME NEW a \in Mover, NEW n \in Req, NEW m \in Req, TriesNext(a, n, m) PROVE RemoverInv'
    BY <1>26 DEF TriesNext, Queued
<1>27. ASSUME NEW a \in Mover, NEW n \in Req, TriedAll(a, n) PROVE RemoverInv'
    BY <1>27 DEF TriedAll, Queued, LeaveCritical, NoWaiter, Return, Goto
<1>28. ASSUME NEW a \in Mover, Quiescent(a) PROVE RemoverInv'
    BY <1>28 DEF Quiescent, Goto
<1>29. ASSUME NEW r \in Req, NEW n \in Req, RepostedOfRow(r, n) PROVE RemoverInv'
    BY <1>29 DEF RepostedOfRow, RepostBase, Return, Goto
<1>30. ASSUME NEW r \in Req, NEW n \in Req, RepostedOfTx(r, n) PROVE RemoverInv'
    BY <1>30 DEF RepostedOfTx, RepostBase, Goto
<1>31. ASSUME NEW n \in Req, InHand(Remover, n), ChangeHash PROVE RemoverInv'
    BY <1>31 DEF ChangeHash, Goto, InHand
<1>32. ASSUME TouchNode PROVE RemoverInv'
    BY <1>32 DEF TouchNode, Goto
<1>33. ASSUME NEW k \in Row, RemoveCallback(k) PROVE RemoverInv'
    BY <1>33 DEF RemoveCallback, Wakeup, Goto
<1>34. ASSUME BeginCheck PROVE RemoverInv'
    BY <1>34 DEF BeginCheck, EnterCritical
<1>35. ASSUME NEW n \in Req, MarkNode(n) PROVE RemoverInv'
    BY <1>35 DEF MarkNode, PoppedHold
<1>36. ASSUME NEW n \in Req, Retired(n) PROVE RemoverInv'
    BY <1>36 DEF Retired
<1>37. ASSUME RetiredLate PROVE RemoverInv'
    BY <1>37 DEF RetiredLate
<1>38. ASSUME EndCheck PROVE RemoverInv'
    BY <1>38 DEF EndCheck, MustPop, LeaveAndQuiesce
<1>39. ASSUME NEW n \in Req, RepostedOne(n) PROVE RemoverInv'
    BY <1>39 DEF RepostedOne
<1>40. ASSUME RepostedAll PROVE RemoverInv'
    BY <1>40 DEF RepostedAll
<1>41. ASSUME CheckerExits PROVE RemoverInv'
    BY <1>41 DEF CheckerExits
<1>42. ASSUME Stop PROVE RemoverInv'
    BY <1>42 DEF Stop
<1>43. ASSUME UNCHANGED vars PROVE RemoverInv'
    BY <1>43
<1> QED
    BY <1>1, <1>2, <1>3, <1>4, <1>5, <1>6, <1>7, <1>8, <1>9, <1>10, <1>11, <1>12, <1>13, <1>14,
           <1>15, <1>16, <1>17, <1>18, <1>19, <1>20, <1>21, <1>22, <1>23, <1>24, <1>25, <1>26,
           <1>27, <1>28, <1>29, <1>30, <1>31, <1>32, <1>33, <1>34, <1>35, <1>36, <1>37, <1>38,
           <1>39, <1>40, <1>41, <1>42, <1>43 DEF Move

(* A node that changes hands has one owner before and after.               *)
LEMMA OwnerStep ==
    ASSUME TypeOK, StepInv, PointerInv, RemoverInv, OwnerInv, Move
    PROVE  OwnerInv'
<1> USE ActorFacts DEF TypeOK, StepInv, PointerInv, RemoverInv, OwnerInv, NodeHasOneOwner, vars,
           rowVars, stmtVars, nodeVars, syncVars, mgrVars, subVars
<1>1. ASSUME NEW r \in Req, Start(r) PROVE OwnerInv'
    BY <1>1 DEF Start
<1>2. ASSUME NEW r \in Req, GiveUp(r) PROVE OwnerInv'
    BY <1>2 DEF GiveUp
<1>3. ASSUME NEW r \in Req, ReadSeq(r) PROVE OwnerInv'
    BY <1>3 DEF ReadSeq
<1>4. ASSUME NEW r \in Req, Recheck(r) PROVE OwnerInv'
    BY <1>4 DEF Recheck, StillLocked, WaitOnRow, Locked
<1>5. ASSUME NEW r \in Req, PassOn(r) PROVE OwnerInv'
    BY <1>5 DEF PassOn, Wakeup, Goto
<1>6. ASSUME NEW r \in Req, StartWait(r) PROVE OwnerInv'
    BY <1>6 DEF StartWait, Goto
<1>7. ASSUME NEW r \in Req, Retry(r) PROVE OwnerInv'
    BY <1>7 DEF Retry, Deliver
<1>8. ASSUME NEW r \in Req, Decide(r) PROVE OwnerInv'
    BY <1>8 DEF Decide, Processed, CtxFree
<1>9. ASSUME NEW r \in Req, EndTx(r) PROVE OwnerInv'
    BY <1>9 DEF EndTx, OwnRows, Wakeup, Goto
<1>10. ASSUME NEW r \in Req, NEW k \in Row, LockRow(r, k) PROVE OwnerInv'
    BY <1>10 DEF LockRow, Locked
<1>11. ASSUME NEW r \in Req, NEW k \in Row, Conflict(r, k) PROVE OwnerInv'
    BY <1>11 DEF Conflict, Locked
<1>12. ASSUME NEW r \in Req, NEW k \in Row, Rollback(r, k) PROVE OwnerInv'
    BY <1>12 DEF Rollback, Processed, CtxFree, Release, OwnRows, Wakeup, Goto
<1>13. ASSUME NEW r \in Req, NEW k \in Row, EndRow(r, k) PROVE OwnerInv'
    BY <1>13 DEF EndRow, Release, OwnRows, Wakeup, Goto
<1>14. ASSUME NEW a \in Mover, NEW n \in Req, InHand(a, n), RefuseWait(a) PROVE OwnerInv'
    BY <1>14 DEF RefuseWait, WaitFails, Goto, Deliver, InHand
<1>15. ASSUME NEW a \in Mover, NEW n \in Req, InHand(a, n), EnterWait(a) PROVE OwnerInv'
    BY <1>15 DEF EnterWait, EnterCritical, Goto, InHand
<1>16. ASSUME NEW a \in Mover, NEW n \in Req, InHand(a, n), Insert(a) PROVE OwnerInv'
    BY <1>16 DEF Insert, Goto, InHand
<1>17. ASSUME NEW a \in Mover, NEW n \in Req, InHand(a, n), DoubleCheck(a) PROVE OwnerInv'
    BY <1>17 DEF DoubleCheck, Goto, InHand
<1>18. ASSUME NEW r \in Req, WorkerWaits(r) PROVE OwnerInv'
    BY <1>18 DEF WorkerWaits, LeaveCritical
<1>19. ASSUME NEW n \in Req, RemoverWaits(n) PROVE OwnerInv'
    BY <1>19 DEF RemoverWaits, LeaveCritical
<1>20. ASSUME NEW a \in Mover, NEW n \in Req, InHand(a, n), Withdraw(a) PROVE OwnerInv'
    BY <1>20 DEF Withdraw, LeaveAndQuiesce, Goto, InHand
<1>21. ASSUME NEW a \in Mover, NEW n \in Req, InHand(a, n), Withdrawn(a) PROVE OwnerInv'
    BY <1>21 DEF Withdrawn, WaitFails, Goto, Deliver, InHand
<1>22. ASSUME NEW a \in Mover, IncSeq(a) PROVE OwnerInv'
    BY <1>22 DEF IncSeq, Bump, SameBucket, Goto
<1>23. ASSUME NEW a \in Mover, FoundNobody(a) PROVE OwnerInv'
    BY <1>23 DEF FoundNobody, Queued, NoWaiter, Return, Goto
<1>24. ASSUME NEW a \in Mover, NEW n \in Req, FoundWaiter(a, n) PROVE OwnerInv'
    BY <1>24 DEF FoundWaiter, Queued, EnterCritical
<1>25. ASSUME NEW a \in Mover, NEW n \in Req, Taken(a, n) PROVE OwnerInv'
    BY <1>25 DEF Taken, LeaveAndQuiesce
<1>26. ASSUME NEW a \in Mover, NEW n \in Req, NEW m \in Req, TriesNext(a, n, m) PROVE OwnerInv'
    BY <1>26 DEF TriesNext, Queued
<1>27. ASSUME NEW a \in Mover, NEW n \in Req, TriedAll(a, n) PROVE OwnerInv'
    BY <1>27 DEF TriedAll, Queued, LeaveCritical, NoWaiter, Return, Goto
<1>28. ASSUME NEW a \in Mover, Quiescent(a) PROVE OwnerInv'
    BY <1>28 DEF Quiescent, Goto
<1>29. ASSUME NEW r \in Req, NEW n \in Req, RepostedOfRow(r, n) PROVE OwnerInv'
    BY <1>29 DEF RepostedOfRow, RepostBase, Return, Goto
<1>30. ASSUME NEW r \in Req, NEW n \in Req, RepostedOfTx(r, n) PROVE OwnerInv'
    BY <1>30 DEF RepostedOfTx, RepostBase, Goto
<1>31. ASSUME NEW n \in Req, InHand(Remover, n), ChangeHash PROVE OwnerInv'
    BY <1>31 DEF ChangeHash, Goto, InHand
<1>32. ASSUME TouchNode PROVE OwnerInv'
    BY <1>32 DEF TouchNode, Goto
<1>33. ASSUME NEW k \in Row, RemoveCallback(k) PROVE OwnerInv'
    BY <1>33 DEF RemoveCallback, Wakeup, Goto
<1>34. ASSUME BeginCheck PROVE OwnerInv'
    BY <1>34 DEF BeginCheck, EnterCritical
<1>35. ASSUME NEW n \in Req, MarkNode(n) PROVE OwnerInv'
    BY <1>35 DEF MarkNode, PoppedHold
<1>36. ASSUME NEW n \in Req, Retired(n) PROVE OwnerInv'
    BY <1>36 DEF Retired
<1>37. ASSUME RetiredLate PROVE OwnerInv'
    BY <1>37 DEF RetiredLate
<1>38. ASSUME EndCheck PROVE OwnerInv'
    BY <1>38 DEF EndCheck, MustPop, LeaveAndQuiesce
<1>39. ASSUME NEW n \in Req, RepostedOne(n) PROVE OwnerInv'
    <2>1. n \in got[Checker] /\ n # Checker /\ n # Remover /\ n \in Actor /\ Checker \in Actor
        BY <1>39 DEF RepostedOne
    <2>2. pc[n] = "wait" /\ n \notin waiting /\ \A b \in Actor \ {Checker} : n \notin got[b]
        BY <2>1 DEF OwnerInv, NodeHasOneOwner
    <2>3. step[n] \notin {"wait", "insert", "withdrawn"}
        BY <2>1, <2>2 DEF OwnerInv, PointerInv
    <2>4. /\ \A b \in Actor \ {Checker} : got'[b] = got[b]
          /\ got'[Checker] = got[Checker] \ {n}
        BY <1>39 DEF RepostedOne
    <2> QED
        BY <1>39, <2>1, <2>2, <2>3, <2>4 DEF RepostedOne
<1>40. ASSUME RepostedAll PROVE OwnerInv'
    BY <1>40 DEF RepostedAll
<1>41. ASSUME CheckerExits PROVE OwnerInv'
    BY <1>41 DEF CheckerExits
<1>42. ASSUME Stop PROVE OwnerInv'
    BY <1>42 DEF Stop
<1>43. ASSUME UNCHANGED vars PROVE OwnerInv'
    BY <1>43
<1> QED
    BY <1>1, <1>2, <1>3, <1>4, <1>5, <1>6, <1>7, <1>8, <1>9, <1>10, <1>11, <1>12, <1>13, <1>14,
           <1>15, <1>16, <1>17, <1>18, <1>19, <1>20, <1>21, <1>22, <1>23, <1>24, <1>25, <1>26,
           <1>27, <1>28, <1>29, <1>30, <1>31, <1>32, <1>33, <1>34, <1>35, <1>36, <1>37, <1>38,
           <1>39, <1>40, <1>41, <1>42, <1>43 DEF Move

(* Transactions, the rows they hold and the conflicts met with them.       *)
LEMMA RowStep ==
    ASSUME TypeOK, StepInv, RemoverInv, OwnerInv, RowInv, Move
    PROVE  RowInv'
<1> USE ActorFacts DEF TypeOK, StepInv, RowInv, OwnerInv, NodeHasOneOwner, vars, rowVars,
           stmtVars, nodeVars, syncVars, mgrVars, subVars
<1>1. ASSUME NEW r \in Req, Start(r) PROVE RowInv'
    BY <1>1 DEF Start
<1>2. ASSUME NEW r \in Req, GiveUp(r) PROVE RowInv'
    BY <1>2 DEF GiveUp
<1>3. ASSUME NEW r \in Req, ReadSeq(r) PROVE RowInv'
    BY <1>3 DEF ReadSeq
<1>4. ASSUME NEW r \in Req, Recheck(r) PROVE RowInv'
    BY <1>4 DEF Recheck, StillLocked, WaitOnRow, Locked
<1>5. ASSUME NEW r \in Req, PassOn(r) PROVE RowInv'
    BY <1>5 DEF PassOn, Wakeup, Goto
<1>6. ASSUME NEW r \in Req, StartWait(r) PROVE RowInv'
    BY <1>6 DEF StartWait, Goto
<1>7. ASSUME NEW r \in Req, Retry(r) PROVE RowInv'
    BY <1>7 DEF Retry, Deliver
<1>8. ASSUME NEW r \in Req, Decide(r) PROVE RowInv'
    BY <1>8 DEF Decide, Processed, CtxFree
<1>9. ASSUME NEW r \in Req, EndTx(r) PROVE RowInv'
    BY <1>9 DEF EndTx, OwnRows, Wakeup, Goto
<1>10. ASSUME NEW r \in Req, NEW k \in Row, LockRow(r, k) PROVE RowInv'
    BY <1>10 DEF LockRow, Locked
<1>11. ASSUME NEW r \in Req, NEW k \in Row, Conflict(r, k) PROVE RowInv'
    BY <1>11 DEF Conflict, Locked
<1>12. ASSUME NEW r \in Req, NEW k \in Row, Rollback(r, k) PROVE RowInv'
    BY <1>12 DEF Rollback, Processed, CtxFree, Release, OwnRows, Wakeup, Goto
<1>13. ASSUME NEW r \in Req, NEW k \in Row, EndRow(r, k) PROVE RowInv'
    BY <1>13 DEF EndRow, Release, OwnRows, Wakeup, Goto
<1>14. ASSUME NEW a \in Mover, NEW n \in Req, InHand(a, n), RefuseWait(a) PROVE RowInv'
    BY <1>14 DEF RefuseWait, WaitFails, Goto, Deliver, InHand, RemoverInv
<1>15. ASSUME NEW a \in Mover, NEW n \in Req, InHand(a, n), EnterWait(a) PROVE RowInv'
    BY <1>15 DEF EnterWait, EnterCritical, Goto, InHand
<1>16. ASSUME NEW a \in Mover, NEW n \in Req, InHand(a, n), Insert(a) PROVE RowInv'
    BY <1>16 DEF Insert, Goto, InHand
<1>17. ASSUME NEW a \in Mover, NEW n \in Req, InHand(a, n), DoubleCheck(a) PROVE RowInv'
    BY <1>17 DEF DoubleCheck, Goto, InHand
<1>18. ASSUME NEW r \in Req, WorkerWaits(r) PROVE RowInv'
    BY <1>18 DEF WorkerWaits, LeaveCritical
<1>19. ASSUME NEW n \in Req, RemoverWaits(n) PROVE RowInv'
    BY <1>19 DEF RemoverWaits, LeaveCritical
<1>20. ASSUME NEW a \in Mover, NEW n \in Req, InHand(a, n), Withdraw(a) PROVE RowInv'
    BY <1>20 DEF Withdraw, LeaveAndQuiesce, Goto, InHand
<1>21. ASSUME NEW a \in Mover, NEW n \in Req, InHand(a, n), Withdrawn(a) PROVE RowInv'
    BY SMTT(30), <1>21 DEF Withdrawn, WaitFails, Goto, Deliver, InHand, RemoverInv
<1>22. ASSUME NEW a \in Mover, IncSeq(a) PROVE RowInv'
    BY <1>22 DEF IncSeq, Bump, SameBucket, Goto
<1>23. ASSUME NEW a \in Mover, FoundNobody(a) PROVE RowInv'
    BY <1>23 DEF FoundNobody, Queued, NoWaiter, Return, Goto
<1>24. ASSUME NEW a \in Mover, NEW n \in Req, FoundWaiter(a, n) PROVE RowInv'
    BY <1>24 DEF FoundWaiter, Queued, EnterCritical
<1>25. ASSUME NEW a \in Mover, NEW n \in Req, Taken(a, n) PROVE RowInv'
    BY <1>25 DEF Taken, LeaveAndQuiesce
<1>26. ASSUME NEW a \in Mover, NEW n \in Req, NEW m \in Req, TriesNext(a, n, m) PROVE RowInv'
    BY <1>26 DEF TriesNext, Queued
<1>27. ASSUME NEW a \in Mover, NEW n \in Req, TriedAll(a, n) PROVE RowInv'
    BY <1>27 DEF TriedAll, Queued, LeaveCritical, NoWaiter, Return, Goto
<1>28. ASSUME NEW a \in Mover, Quiescent(a) PROVE RowInv'
    BY <1>28 DEF Quiescent, Goto
<1>29. ASSUME NEW r \in Req, NEW n \in Req, RepostedOfRow(r, n) PROVE RowInv'
    BY <1>29 DEF RepostedOfRow, RepostBase, Return, Goto
<1>30. ASSUME NEW r \in Req, NEW n \in Req, RepostedOfTx(r, n) PROVE RowInv'
    BY <1>30 DEF RepostedOfTx, RepostBase, Goto
<1>31. ASSUME NEW n \in Req, InHand(Remover, n), ChangeHash PROVE RowInv'
    BY <1>31 DEF ChangeHash, Goto, InHand
<1>32. ASSUME TouchNode PROVE RowInv'
    BY <1>32 DEF TouchNode, Goto
<1>33. ASSUME NEW k \in Row, RemoveCallback(k) PROVE RowInv'
    BY <1>33 DEF RemoveCallback, Wakeup, Goto
<1>34. ASSUME BeginCheck PROVE RowInv'
    BY <1>34 DEF BeginCheck, EnterCritical
<1>35. ASSUME NEW n \in Req, MarkNode(n) PROVE RowInv'
    BY <1>35 DEF MarkNode, PoppedHold
<1>36. ASSUME NEW n \in Req, Retired(n) PROVE RowInv'
    BY <1>36 DEF Retired
<1>37. ASSUME RetiredLate PROVE RowInv'
    BY <1>37 DEF RetiredLate
<1>38. ASSUME EndCheck PROVE RowInv'
    BY <1>38 DEF EndCheck, MustPop, LeaveAndQuiesce
<1>39. ASSUME NEW n \in Req, RepostedOne(n) PROVE RowInv'
    <2>1. n \in got[Checker] /\ n # Checker /\ n # Remover /\ n \in Actor /\ Checker \in Actor
        BY <1>39 DEF RepostedOne
    <2>2. pc[n] = "wait" /\ hold_key[n] = NoOne
        BY <2>1
    <2>3. /\ \A r \in Req : pc'[r] = IF r = n THEN "queue" ELSE pc[r]
          /\ UNCHANGED <<ended, owner, hold_key, want, holder>>
        BY <1>39, <2>1 DEF RepostedOne
    <2> HIDE DEF StepInv, OwnerInv, NodeHasOneOwner
    <2> QED
        BY ZenonT(60), <2>2, <2>3
<1>40. ASSUME RepostedAll PROVE RowInv'
    BY <1>40 DEF RepostedAll
<1>41. ASSUME CheckerExits PROVE RowInv'
    BY <1>41 DEF CheckerExits
<1>42. ASSUME Stop PROVE RowInv'
    BY <1>42 DEF Stop
<1>43. ASSUME UNCHANGED vars PROVE RowInv'
    BY <1>43
<1> QED
    BY ZenonT(60), <1>1, <1>2, <1>3, <1>4, <1>5, <1>6, <1>7, <1>8, <1>9, <1>10, <1>11, <1>12, <1>13, <1>14,
           <1>15, <1>16, <1>17, <1>18, <1>19, <1>20, <1>21, <1>22, <1>23, <1>24, <1>25, <1>26,
           <1>27, <1>28, <1>29, <1>30, <1>31, <1>32, <1>33, <1>34, <1>35, <1>36, <1>37, <1>38,
           <1>39, <1>40, <1>41, <1>42, <1>43 DEF Move

(* Whoever ends a wait tells the deadlock detector.                        *)
LEMMA KnownStep ==
    ASSUME TypeOK, StepInv, PointerInv, RemoverInv, OwnerInv, KnownInv, Move
    PROVE  KnownInv'
<1> USE ActorFacts DEF TypeOK, StepInv, OwnerInv, NodeHasOneOwner, PointerInv, RemoverInv,
           KnownInv, vars, rowVars, stmtVars, nodeVars, syncVars, mgrVars, subVars
<1>1. ASSUME NEW r \in Req, Start(r) PROVE KnownInv'
    BY <1>1 DEF Start
<1>2. ASSUME NEW r \in Req, GiveUp(r) PROVE KnownInv'
    BY <1>2 DEF GiveUp
<1>3. ASSUME NEW r \in Req, ReadSeq(r) PROVE KnownInv'
    BY <1>3 DEF ReadSeq
<1>4. ASSUME NEW r \in Req, Recheck(r) PROVE KnownInv'
    BY <1>4 DEF Recheck, StillLocked, WaitOnRow, Locked
<1>5. ASSUME NEW r \in Req, PassOn(r) PROVE KnownInv'
    BY <1>5 DEF PassOn, Wakeup, Goto
<1>6. ASSUME NEW r \in Req, StartWait(r) PROVE KnownInv'
    <2>1. /\ registered' \subseteq registered \union {r} /\ pc'[r] = "wait"
          /\ \A q \in Req \ {r} : pc'[q] = pc[q]
        BY <1>6 DEF StartWait
    <2> QED
        BY <2>1
<1>7. ASSUME NEW r \in Req, Retry(r) PROVE KnownInv'
    BY <1>7 DEF Retry, Deliver
<1>8. ASSUME NEW r \in Req, Decide(r) PROVE KnownInv'
    BY <1>8 DEF Decide, Processed, CtxFree
<1>9. ASSUME NEW r \in Req, EndTx(r) PROVE KnownInv'
    BY <1>9 DEF EndTx, OwnRows, Wakeup, Goto
<1>10. ASSUME NEW r \in Req, NEW k \in Row, LockRow(r, k) PROVE KnownInv'
    BY <1>10 DEF LockRow, Locked
<1>11. ASSUME NEW r \in Req, NEW k \in Row, Conflict(r, k) PROVE KnownInv'
    BY <1>11 DEF Conflict, Locked
<1>12. ASSUME NEW r \in Req, NEW k \in Row, Rollback(r, k) PROVE KnownInv'
    BY <1>12 DEF Rollback, Processed, CtxFree, Release, OwnRows, Wakeup, Goto
<1>13. ASSUME NEW r \in Req, NEW k \in Row, EndRow(r, k) PROVE KnownInv'
    BY <1>13 DEF EndRow, Release, OwnRows, Wakeup, Goto
<1>14. ASSUME NEW a \in Mover, NEW n \in Req, InHand(a, n), RefuseWait(a) PROVE KnownInv'
    BY <1>14 DEF RefuseWait, WaitFails, Goto, Deliver, InHand
<1>15. ASSUME NEW a \in Mover, NEW n \in Req, InHand(a, n), EnterWait(a) PROVE KnownInv'
    BY <1>15 DEF EnterWait, EnterCritical, Goto, InHand
<1>16. ASSUME NEW a \in Mover, NEW n \in Req, InHand(a, n), Insert(a) PROVE KnownInv'
    BY <1>16 DEF Insert
<1>17. ASSUME NEW a \in Mover, NEW n \in Req, InHand(a, n), DoubleCheck(a) PROVE KnownInv'
    BY <1>17 DEF DoubleCheck, Goto, InHand
<1>18. ASSUME NEW r \in Req, WorkerWaits(r) PROVE KnownInv'
    BY <1>18 DEF WorkerWaits, LeaveCritical
<1>19. ASSUME NEW n \in Req, RemoverWaits(n) PROVE KnownInv'
    BY <1>19 DEF RemoverWaits, LeaveCritical
<1>20. ASSUME NEW a \in Mover, NEW n \in Req, InHand(a, n), Withdraw(a) PROVE KnownInv'
    BY <1>20 DEF Withdraw
<1>21. ASSUME NEW a \in Mover, NEW n \in Req, InHand(a, n), Withdrawn(a) PROVE KnownInv'
    BY <1>21 DEF Withdrawn, WaitFails, Goto, Deliver, InHand
<1>22. ASSUME NEW a \in Mover, IncSeq(a) PROVE KnownInv'
    BY <1>22 DEF IncSeq, Bump, SameBucket, Goto
<1>23. ASSUME NEW a \in Mover, FoundNobody(a) PROVE KnownInv'
    BY <1>23 DEF FoundNobody, Queued, NoWaiter, Return, Goto
<1>24. ASSUME NEW a \in Mover, NEW n \in Req, FoundWaiter(a, n) PROVE KnownInv'
    BY <1>24 DEF FoundWaiter, Queued, EnterCritical
<1>25. ASSUME NEW a \in Mover, NEW n \in Req, Taken(a, n) PROVE KnownInv'
    BY <1>25 DEF Taken, LeaveAndQuiesce
<1>26. ASSUME NEW a \in Mover, NEW n \in Req, NEW m \in Req, TriesNext(a, n, m) PROVE KnownInv'
    BY <1>26 DEF TriesNext, Queued
<1>27. ASSUME NEW a \in Mover, NEW n \in Req, TriedAll(a, n) PROVE KnownInv'
    BY <1>27 DEF TriedAll, Queued, LeaveCritical, NoWaiter, Return, Goto
<1>28. ASSUME NEW a \in Mover, Quiescent(a) PROVE KnownInv'
    BY <1>28 DEF Quiescent, Goto
<1>29. ASSUME NEW r \in Req, NEW n \in Req, RepostedOfRow(r, n) PROVE KnownInv'
    BY <1>29 DEF RepostedOfRow, RepostBase, Return, Goto
<1>30. ASSUME NEW r \in Req, NEW n \in Req, RepostedOfTx(r, n) PROVE KnownInv'
    BY <1>30 DEF RepostedOfTx, RepostBase, Goto
<1>31. ASSUME NEW n \in Req, InHand(Remover, n), ChangeHash PROVE KnownInv'
    BY <1>31 DEF ChangeHash, Goto, InHand
<1>32. ASSUME TouchNode PROVE KnownInv'
    BY <1>32 DEF TouchNode, Goto
<1>33. ASSUME NEW k \in Row, RemoveCallback(k) PROVE KnownInv'
    BY <1>33 DEF RemoveCallback, Wakeup, Goto
<1>34. ASSUME BeginCheck PROVE KnownInv'
    BY <1>34 DEF BeginCheck, EnterCritical
<1>35. ASSUME NEW n \in Req, MarkNode(n) PROVE KnownInv'
    BY <1>35 DEF MarkNode, PoppedHold
<1>36. ASSUME NEW n \in Req, Retired(n) PROVE KnownInv'
    BY <1>36 DEF Retired
<1>37. ASSUME RetiredLate PROVE KnownInv'
    BY <1>37 DEF RetiredLate
<1>38. ASSUME EndCheck PROVE KnownInv'
    BY <1>38 DEF EndCheck, MustPop, LeaveAndQuiesce
<1>39. ASSUME NEW n \in Req, RepostedOne(n) PROVE KnownInv'
    BY <1>39 DEF RepostedOne
<1>40. ASSUME RepostedAll PROVE KnownInv'
    BY <1>40 DEF RepostedAll
<1>41. ASSUME CheckerExits PROVE KnownInv'
    BY <1>41 DEF CheckerExits
<1>42. ASSUME Stop PROVE KnownInv'
    BY <1>42 DEF Stop
<1>43. ASSUME UNCHANGED vars PROVE KnownInv'
    BY <1>43
<1> QED
    BY <1>1, <1>2, <1>3, <1>4, <1>5, <1>6, <1>7, <1>8, <1>9, <1>10, <1>11, <1>12, <1>13, <1>14,
           <1>15, <1>16, <1>17, <1>18, <1>19, <1>20, <1>21, <1>22, <1>23, <1>24, <1>25, <1>26,
           <1>27, <1>28, <1>29, <1>30, <1>31, <1>32, <1>33, <1>34, <1>35, <1>36, <1>37, <1>38,
           <1>39, <1>40, <1>41, <1>42, <1>43 DEF Move

(* Once the manager has stopped nobody enters the hash and stays.          *)
LEMMA StopStep ==
    ASSUME TypeOK, StepInv, PointerInv, RemoverInv, OwnerInv, StopInv, Move
    PROVE  StopInv'
<1> USE ActorFacts DEF TypeOK, StepInv, PointerInv, StopInv, Mover, vars, rowVars, stmtVars,
           nodeVars, syncVars, mgrVars, subVars
<1>1. ASSUME NEW r \in Req, Start(r) PROVE StopInv'
    BY <1>1 DEF Start
<1>2. ASSUME NEW r \in Req, GiveUp(r) PROVE StopInv'
    BY <1>2 DEF GiveUp
<1>3. ASSUME NEW r \in Req, ReadSeq(r) PROVE StopInv'
    BY <1>3 DEF ReadSeq
<1>4. ASSUME NEW r \in Req, Recheck(r) PROVE StopInv'
    BY <1>4 DEF Recheck, StillLocked, WaitOnRow, Locked
<1>5. ASSUME NEW r \in Req, PassOn(r) PROVE StopInv'
    BY <1>5 DEF PassOn, Wakeup, Goto
<1>6. ASSUME NEW r \in Req, StartWait(r) PROVE StopInv'
    BY <1>6 DEF StartWait, Goto
<1>7. ASSUME NEW r \in Req, Retry(r) PROVE StopInv'
    BY <1>7 DEF Retry, Deliver
<1>8. ASSUME NEW r \in Req, Decide(r) PROVE StopInv'
    BY <1>8 DEF Decide, Processed, CtxFree
<1>9. ASSUME NEW r \in Req, EndTx(r) PROVE StopInv'
    BY <1>9 DEF EndTx, OwnRows, Wakeup, Goto
<1>10. ASSUME NEW r \in Req, NEW k \in Row, LockRow(r, k) PROVE StopInv'
    BY <1>10 DEF LockRow, Locked
<1>11. ASSUME NEW r \in Req, NEW k \in Row, Conflict(r, k) PROVE StopInv'
    BY <1>11 DEF Conflict, Locked
<1>12. ASSUME NEW r \in Req, NEW k \in Row, Rollback(r, k) PROVE StopInv'
    BY <1>12 DEF Rollback, Processed, CtxFree, Release, OwnRows, Wakeup, Goto
<1>13. ASSUME NEW r \in Req, NEW k \in Row, EndRow(r, k) PROVE StopInv'
    BY <1>13 DEF EndRow, Release, OwnRows, Wakeup, Goto
<1>14. ASSUME NEW a \in Mover, NEW n \in Req, InHand(a, n), RefuseWait(a) PROVE StopInv'
    BY <1>14 DEF RefuseWait, WaitFails, Goto, Deliver, InHand
<1>15. ASSUME NEW a \in Mover, NEW n \in Req, InHand(a, n), EnterWait(a) PROVE StopInv'
    BY <1>15 DEF EnterWait, EnterCritical, Goto, InHand
<1>16. ASSUME NEW a \in Mover, NEW n \in Req, InHand(a, n), Insert(a) PROVE StopInv'
    <2>1. /\ waiting' = waiting \union {n} /\ UNCHANGED <<stop, pc, ref>>
          /\ n \in ref[a] /\ step' = [step EXCEPT ![a] = "double_check"]
          /\ step[a] = "insert" /\ a \in Actor
        BY <1>16 DEF Insert, Goto, InHand
    <2>2. \A b \in Req \union {Remover} :
             step[b] \in {"double_check", "check_stop"} => b # a /\ step'[b] = step[b]
        BY <2>1
    <2> HIDE ActorFacts DEF StepInv, PointerInv
    <2> QED
        BY <2>1, <2>2
<1>17. ASSUME NEW a \in Mover, NEW n \in Req, InHand(a, n), DoubleCheck(a) PROVE StopInv'
    BY <1>17 DEF DoubleCheck, Goto, InHand
<1>18. ASSUME NEW r \in Req, WorkerWaits(r) PROVE StopInv'
    <2>1. /\ UNCHANGED <<stop, pc, waiting>> /\ ref[r] = {r} /\ ~(stop /\ r \in waiting)
          /\ \A b \in Actor \ {r} : ref'[b] = ref[b] /\ step'[b] = step[b]
        BY <1>18 DEF WorkerWaits
    <2> HIDE DEF TypeOK, StepInv, PointerInv
    <2> QED
        BY <2>1
<1>19. ASSUME NEW n \in Req, RemoverWaits(n) PROVE StopInv'
    <2>1. /\ UNCHANGED <<stop, pc, waiting>> /\ ref[Remover] = {n} /\ ~(stop /\ n \in waiting)
          /\ \A b \in Actor \ {Remover} : ref'[b] = ref[b] /\ step'[b] = step[b]
        BY <1>19 DEF RemoverWaits
    <2> HIDE DEF TypeOK, StepInv, PointerInv
    <2> QED
        BY <2>1
<1>20. ASSUME NEW a \in Mover, NEW n \in Req, InHand(a, n), Withdraw(a) PROVE StopInv'
    <2>1. /\ waiting' = waiting \ {n} /\ UNCHANGED <<stop, pc>> /\ ref[a] = {n}
          /\ \A b \in Actor \ {a} : ref'[b] = ref[b] /\ step'[b] = step[b]
        BY <1>20 DEF Withdraw, Goto, InHand
    <2> HIDE DEF TypeOK, StepInv, PointerInv
    <2> QED
        BY <2>1
<1>21. ASSUME NEW a \in Mover, NEW n \in Req, InHand(a, n), Withdrawn(a) PROVE StopInv'
    BY <1>21 DEF Withdrawn, WaitFails, Goto, Deliver, InHand
<1>22. ASSUME NEW a \in Mover, IncSeq(a) PROVE StopInv'
    BY <1>22 DEF IncSeq, Bump, SameBucket, Goto
<1>23. ASSUME NEW a \in Mover, FoundNobody(a) PROVE StopInv'
    BY <1>23 DEF FoundNobody, Queued, NoWaiter, Return, Goto
<1>24. ASSUME NEW a \in Mover, NEW n \in Req, FoundWaiter(a, n) PROVE StopInv'
    BY <1>24 DEF FoundWaiter, Queued, EnterCritical
<1>25. ASSUME NEW a \in Mover, NEW n \in Req, Taken(a, n) PROVE StopInv'
    BY <1>25 DEF Taken, LeaveAndQuiesce
<1>26. ASSUME NEW a \in Mover, NEW n \in Req, NEW m \in Req, TriesNext(a, n, m) PROVE StopInv'
    BY <1>26 DEF TriesNext, Queued
<1>27. ASSUME NEW a \in Mover, NEW n \in Req, TriedAll(a, n) PROVE StopInv'
    BY SMTT(30), <1>27 DEF TriedAll, Queued, LeaveCritical, NoWaiter, Return, Goto
<1>28. ASSUME NEW a \in Mover, Quiescent(a) PROVE StopInv'
    BY <1>28 DEF Quiescent, Goto
<1>29. ASSUME NEW r \in Req, NEW n \in Req, RepostedOfRow(r, n) PROVE StopInv'
    BY <1>29 DEF RepostedOfRow, RepostBase, Return, Goto
<1>30. ASSUME NEW r \in Req, NEW n \in Req, RepostedOfTx(r, n) PROVE StopInv'
    BY <1>30 DEF RepostedOfTx, RepostBase, Goto
<1>31. ASSUME NEW n \in Req, InHand(Remover, n), ChangeHash PROVE StopInv'
    BY <1>31 DEF ChangeHash, Goto, InHand
<1>32. ASSUME TouchNode PROVE StopInv'
    BY <1>32 DEF TouchNode, Goto
<1>33. ASSUME NEW k \in Row, RemoveCallback(k) PROVE StopInv'
    BY <1>33 DEF RemoveCallback, Wakeup, Goto
<1>34. ASSUME BeginCheck PROVE StopInv'
    BY <1>34 DEF BeginCheck, EnterCritical
<1>35. ASSUME NEW n \in Req, MarkNode(n) PROVE StopInv'
    BY <1>35 DEF MarkNode, PoppedHold
<1>36. ASSUME NEW n \in Req, Retired(n) PROVE StopInv'
    BY <1>36 DEF Retired
<1>37. ASSUME RetiredLate PROVE StopInv'
    BY <1>37 DEF RetiredLate
<1>38. ASSUME EndCheck PROVE StopInv'
    BY <1>38 DEF EndCheck, MustPop, LeaveAndQuiesce
<1>39. ASSUME NEW n \in Req, RepostedOne(n) PROVE StopInv'
    BY <1>39 DEF RepostedOne
<1>40. ASSUME RepostedAll PROVE StopInv'
    BY <1>40 DEF RepostedAll
<1>41. ASSUME CheckerExits PROVE StopInv'
    BY <1>41 DEF CheckerExits
<1>42. ASSUME Stop PROVE StopInv'
    BY <1>42 DEF Stop
<1>43. ASSUME UNCHANGED vars PROVE StopInv'
    BY <1>43
<1> QED
    BY <1>1, <1>2, <1>3, <1>4, <1>5, <1>6, <1>7, <1>8, <1>9, <1>10, <1>11, <1>12, <1>13, <1>14,
           <1>15, <1>16, <1>17, <1>18, <1>19, <1>20, <1>21, <1>22, <1>23, <1>24, <1>25, <1>26,
           <1>27, <1>28, <1>29, <1>30, <1>31, <1>32, <1>33, <1>34, <1>35, <1>36, <1>37, <1>38,
           <1>39, <1>40, <1>41, <1>42, <1>43 DEF Move

(* QSync: a node changes hands only when its visitors have left.           *)
LEMMA VisitStep ==
    ASSUME TypeOK, StepInv, PointerInv, RemoverInv, OwnerInv, VisitInv, Move
    PROVE  VisitInv'
<1> USE ActorFacts DEF TypeOK, StepInv, PointerInv, RemoverInv, OwnerInv, NodeHasOneOwner,
           VisitInv, Visits, Quiescing, vars, rowVars, stmtVars, nodeVars, syncVars, mgrVars,
           subVars
<1>1. ASSUME NEW r \in Req, Start(r) PROVE VisitInv'
    BY <1>1 DEF Start
<1>2. ASSUME NEW r \in Req, GiveUp(r) PROVE VisitInv'
    BY <1>2 DEF GiveUp
<1>3. ASSUME NEW r \in Req, ReadSeq(r) PROVE VisitInv'
    BY <1>3 DEF ReadSeq
<1>4. ASSUME NEW r \in Req, Recheck(r) PROVE VisitInv'
    BY <1>4 DEF Recheck, StillLocked, WaitOnRow, Locked
<1>5. ASSUME NEW r \in Req, PassOn(r) PROVE VisitInv'
    BY <1>5 DEF PassOn, Wakeup, Goto
<1>6. ASSUME NEW r \in Req, StartWait(r) PROVE VisitInv'
    BY <1>6 DEF StartWait, Goto
<1>7. ASSUME NEW r \in Req, Retry(r) PROVE VisitInv'
    BY <1>7 DEF Retry, Deliver
<1>8. ASSUME NEW r \in Req, Decide(r) PROVE VisitInv'
    BY <1>8 DEF Decide, Processed, CtxFree
<1>9. ASSUME NEW r \in Req, EndTx(r) PROVE VisitInv'
    BY <1>9 DEF EndTx, OwnRows, Wakeup, Goto
<1>10. ASSUME NEW r \in Req, NEW k \in Row, LockRow(r, k) PROVE VisitInv'
    BY <1>10 DEF LockRow, Locked
<1>11. ASSUME NEW r \in Req, NEW k \in Row, Conflict(r, k) PROVE VisitInv'
    BY <1>11 DEF Conflict, Locked
<1>12. ASSUME NEW r \in Req, NEW k \in Row, Rollback(r, k) PROVE VisitInv'
    BY <1>12 DEF Rollback, Processed, CtxFree, Release, OwnRows, Wakeup, Goto
<1>13. ASSUME NEW r \in Req, NEW k \in Row, EndRow(r, k) PROVE VisitInv'
    BY <1>13 DEF EndRow, Release, OwnRows, Wakeup, Goto
<1>14. ASSUME NEW a \in Mover, NEW n \in Req, InHand(a, n), RefuseWait(a) PROVE VisitInv'
    BY <1>14 DEF RefuseWait, WaitFails, Goto, Deliver, InHand
<1>15. ASSUME NEW a \in Mover, NEW n \in Req, InHand(a, n), EnterWait(a) PROVE VisitInv'
    BY <1>15 DEF EnterWait, EnterCritical, Goto, InHand
<1>16. ASSUME NEW a \in Mover, NEW n \in Req, InHand(a, n), Insert(a) PROVE VisitInv'
    BY <1>16 DEF Insert, Goto, InHand
<1>17. ASSUME NEW a \in Mover, NEW n \in Req, InHand(a, n), DoubleCheck(a) PROVE VisitInv'
    BY <1>17 DEF DoubleCheck, Goto, InHand
<1>18. ASSUME NEW r \in Req, WorkerWaits(r) PROVE VisitInv'
    BY <1>18 DEF WorkerWaits, LeaveCritical
<1>19. ASSUME NEW n \in Req, RemoverWaits(n) PROVE VisitInv'
    BY <1>19 DEF RemoverWaits, LeaveCritical
<1>20. ASSUME NEW a \in Mover, NEW n \in Req, InHand(a, n), Withdraw(a) PROVE VisitInv'
    BY <1>20 DEF Withdraw, LeaveAndQuiesce, Goto, InHand
<1>21. ASSUME NEW a \in Mover, NEW n \in Req, InHand(a, n), Withdrawn(a) PROVE VisitInv'
    BY <1>21 DEF Withdrawn, WaitFails, Goto, Deliver, InHand
<1>22. ASSUME NEW a \in Mover, IncSeq(a) PROVE VisitInv'
    BY <1>22 DEF IncSeq, Bump, SameBucket, Goto
<1>23. ASSUME NEW a \in Mover, FoundNobody(a) PROVE VisitInv'
    BY <1>23 DEF FoundNobody, Queued, NoWaiter, Return, Goto
<1>24. ASSUME NEW a \in Mover, NEW n \in Req, FoundWaiter(a, n) PROVE VisitInv'
    BY <1>24 DEF FoundWaiter, Queued, EnterCritical
<1>25. ASSUME NEW a \in Mover, NEW n \in Req, Taken(a, n) PROVE VisitInv'
    BY <1>25 DEF Taken, LeaveAndQuiesce
<1>26. ASSUME NEW a \in Mover, NEW n \in Req, NEW m \in Req, TriesNext(a, n, m) PROVE VisitInv'
    BY <1>26 DEF TriesNext, Queued
<1>27. ASSUME NEW a \in Mover, NEW n \in Req, TriedAll(a, n) PROVE VisitInv'
    BY <1>27 DEF TriedAll, Queued, LeaveCritical, NoWaiter, Return, Goto
<1>28. ASSUME NEW a \in Mover, Quiescent(a) PROVE VisitInv'
    BY <1>28 DEF Quiescent, Goto
<1>29. ASSUME NEW r \in Req, NEW n \in Req, RepostedOfRow(r, n) PROVE VisitInv'
    <2>1. /\ got[r] = {n} /\ ~Quiescing(r) /\ r # Checker /\ ref[r] = {} /\ step[r] = "repost"
          /\ r \in Actor
        BY <1>29 DEF RepostedOfRow, RepostBase
    <2>2. \A a \in Actor : ~Visits(a, n)
        BY <2>1
    <2>3. /\ \A b \in Req \union {Checker} : b # n => pc'[b] = pc[b]
          /\ \A b \in Actor \ {r} : got'[b] = got[b] /\ step'[b] = step[b]
          /\ got'[r] = {} /\ step'[r] = "none" /\ UNCHANGED <<ref, crit, quiesce>>
        BY <1>29 DEF RepostedOfRow, RepostBase, Return, Goto
    <2> HIDE DEF TypeOK, StepInv, PointerInv, RemoverInv, OwnerInv, NodeHasOneOwner, VisitInv
    <2>4. \A a \in Actor, m \in Req : Visits(a, m)' => Visits(a, m) /\ m # n /\ a # r
        BY <2>1, <2>2, <2>3
    <2>5. /\ \A b \in Actor : b # r => (Quiescing(b)' <=> Quiescing(b))
          /\ pc'[Checker] = pc[Checker] /\ \A m \in Req : m # r => step'[m] = step[m]
        BY <2>3
    <2>6. step'[r] \notin {"wait", "insert"}
        BY <2>1, <2>3
    <2> HIDE DEF Visits, Quiescing
    <2> QED
        BY <2>3, <2>4, <2>5, <2>6 DEF VisitInv
<1>30. ASSUME NEW r \in Req, NEW n \in Req, RepostedOfTx(r, n) PROVE VisitInv'
    <2>1. /\ got[r] = {n} /\ ~Quiescing(r) /\ r # Checker /\ ref[r] = {} /\ step[r] = "repost"
          /\ r \in Actor
        BY <1>30 DEF RepostedOfTx, RepostBase
    <2>2. \A a \in Actor : ~Visits(a, n)
        BY <2>1
    <2>3. /\ \A b \in Req \union {Checker} : b # n => pc'[b] = pc[b]
          /\ \A b \in Actor \ {r} : got'[b] = got[b] /\ step'[b] = step[b]
          /\ got'[r] = {} /\ step'[r] = "inc" /\ UNCHANGED <<ref, crit, quiesce>>
        BY <1>30 DEF RepostedOfTx, RepostBase, Return, Goto
    <2> HIDE DEF TypeOK, StepInv, PointerInv, RemoverInv, OwnerInv, NodeHasOneOwner, VisitInv
    <2>4. \A a \in Actor, m \in Req : Visits(a, m)' => Visits(a, m) /\ m # n /\ a # r
        BY <2>1, <2>2, <2>3
    <2>5. /\ \A b \in Actor : b # r => (Quiescing(b)' <=> Quiescing(b))
          /\ pc'[Checker] = pc[Checker] /\ \A m \in Req : m # r => step'[m] = step[m]
        BY <2>3
    <2>6. step'[r] \notin {"wait", "insert"}
        BY <2>1, <2>3
    <2> HIDE DEF Visits, Quiescing
    <2> QED
        BY <2>3, <2>4, <2>5, <2>6 DEF VisitInv
<1>31. ASSUME NEW n \in Req, InHand(Remover, n), ChangeHash PROVE VisitInv'
    BY <1>31 DEF ChangeHash, Goto, InHand
<1>32. ASSUME TouchNode PROVE VisitInv'
    BY <1>32 DEF TouchNode, Goto
<1>33. ASSUME NEW k \in Row, RemoveCallback(k) PROVE VisitInv'
    BY <1>33 DEF RemoveCallback, Wakeup, Goto
<1>34. ASSUME BeginCheck PROVE VisitInv'
    BY <1>34 DEF BeginCheck, EnterCritical
<1>35. ASSUME NEW n \in Req, MarkNode(n) PROVE VisitInv'
    BY <1>35 DEF MarkNode, PoppedHold
<1>36. ASSUME NEW n \in Req, Retired(n) PROVE VisitInv'
    BY <1>36 DEF Retired
<1>37. ASSUME RetiredLate PROVE VisitInv'
    BY <1>37 DEF RetiredLate
<1>38. ASSUME EndCheck PROVE VisitInv'
    BY <1>38 DEF EndCheck, MustPop, LeaveAndQuiesce
<1>39. ASSUME NEW n \in Req, RepostedOne(n) PROVE VisitInv'
    <2>1. n \in got[Checker] /\ n # Checker /\ n # Remover /\ n \in Actor /\ Checker \in Actor
        BY <1>39 DEF RepostedOne
    <2>2. pc[n] = "wait" /\ n \notin waiting /\ \A b \in Actor \ {Checker} : n \notin got[b]
        BY <2>1 DEF OwnerInv, NodeHasOneOwner
    <2>3. step[n] \notin {"wait", "insert", "withdrawn"}
        BY <2>1, <2>2 DEF OwnerInv, PointerInv
    <2>4. /\ \A b \in Actor \ {Checker} : got'[b] = got[b]
          /\ got'[Checker] = got[Checker] \ {n}
        BY <1>39 DEF RepostedOne
    <2>5. pc[Checker] = "post" /\ quiesce[Checker] = {} /\ ref[Checker] = {}
        BY <1>39 DEF RepostedOne
    <2>6. ASSUME NEW a \in Actor, Visits(a, n) PROVE FALSE
        <3>1. a \in quiesce[Checker] \/ a = Checker
            BY <2>1, <2>5, <2>6 DEF VisitInv
        <3> QED
            BY <2>5, <2>6, <3>1 DEF Visits
    <2>7. /\ \A b \in Req \union {Checker} : b # n => pc'[b] = pc[b]
          /\ UNCHANGED <<step, ref, crit, quiesce>>
        BY <1>39 DEF RepostedOne
    <2> HIDE DEF TypeOK, StepInv, PointerInv, RemoverInv, OwnerInv, NodeHasOneOwner
    <2>8. \A a \in Actor, m \in Req : Visits(a, m)' => Visits(a, m) /\ m # n
        BY <2>6, <2>7
    <2>9. /\ \A b \in Actor : Quiescing(b)' <=> Quiescing(b)
          /\ pc'[Checker] = pc[Checker] /\ \A b \in Actor : got'[b] \subseteq got[b]
        BY <2>1, <2>4, <2>7
    <2> HIDE ActorFacts DEF Visits, Quiescing
    <2>10. ASSUME NEW a \in Actor, NEW m \in Req, Visits(a, m)'
           PROVE  /\ a \in crit' /\ pc'[m] = "wait"
                  /\ (step'[m] \in {"wait", "insert"} => a = m)
                  /\ \A b \in Actor : m \in got'[b] =>
                        \/ Quiescing(b)' /\ a \in quiesce'[b]
                        \/ b = Checker /\ pc'[b] \in {"check", "retire"}
                        \/ b = a
        <3>1. Visits(a, m) /\ m # n
            BY <2>8, <2>10
        <3>2. /\ a \in crit /\ pc[m] = "wait" /\ (step[m] \in {"wait", "insert"} => a = m)
              /\ \A b \in Actor : m \in got[b] =>
                    \/ Quiescing(b) /\ a \in quiesce[b]
                    \/ b = Checker /\ pc[b] \in {"check", "retire"}
                    \/ b = a
            BY <3>1
        <3> HIDE DEF VisitInv
        <3> QED
            BY <2>7, <2>9, <3>1, <3>2
    <2> HIDE DEF VisitInv
    <2> QED
        BY <2>10 DEF VisitInv
<1>40. ASSUME RepostedAll PROVE VisitInv'
    BY <1>40 DEF RepostedAll
<1>41. ASSUME CheckerExits PROVE VisitInv'
    BY <1>41 DEF CheckerExits
<1>42. ASSUME Stop PROVE VisitInv'
    BY <1>42 DEF Stop
<1>43. ASSUME UNCHANGED vars PROVE VisitInv'
    BY <1>43
<1> QED
    BY SMTT(30), <1>1, <1>2, <1>3, <1>4, <1>5, <1>6, <1>7, <1>8, <1>9, <1>10, <1>11, <1>12, <1>13, <1>14,
           <1>15, <1>16, <1>17, <1>18, <1>19, <1>20, <1>21, <1>22, <1>23, <1>24, <1>25, <1>26,
           <1>27, <1>28, <1>29, <1>30, <1>31, <1>32, <1>33, <1>34, <1>35, <1>36, <1>37, <1>38,
           <1>39, <1>40, <1>41, <1>42, <1>43 DEF Move

-------------------------------------------------------------------------------
(* What the counter counts, before and after a move.                       *)
Way(s) == s \in {"insert", "withdrawn"}
Stay == \A b \in Actor : Way(step'[b]) <=> Way(step[b])
Joins(a) == ~Way(step[a]) /\ Way(step'[a]) /\ \A b \in Actor \ {a} : Way(step'[b]) <=> Way(step[b])
Leaves(a) == Way(step[a]) /\ ~Way(step'[a]) /\ \A b \in Actor \ {a} : Way(step'[b]) <=> Way(step[b])

CountMove ==
    \/ waiting' = waiting /\ total_wait_node' = total_wait_node /\ Stay
    \/ \E a \in Actor : waiting' = waiting /\ total_wait_node' = total_wait_node + 1 /\ Joins(a)
    \/ \E a \in Actor : waiting' = waiting /\ total_wait_node' = total_wait_node - 1 /\ Leaves(a)
    \/ \E n \in waiting : waiting' = waiting \ {n} /\ total_wait_node' = total_wait_node - 1 /\ Stay
    \/ \E a \in Actor, n \in Req \ waiting :
          waiting' = waiting \union {n} /\ total_wait_node' = total_wait_node /\ Leaves(a)
    \/ \E a \in Actor, n \in waiting :
          waiting' = waiting \ {n} /\ total_wait_node' = total_wait_node /\ Joins(a)

(* Every move is one of these.                                             *)
LEMMA CountMoves ==
    ASSUME TypeOK, StepInv, OwnerInv, RemoverInv, Move
    PROVE  CountMove
<1> USE ActorFacts DEF TypeOK, StepInv, CountMove, Stay, Way, vars, rowVars, stmtVars, nodeVars,
           syncVars, mgrVars, subVars
<1>1. ASSUME NEW r \in Req, Start(r) PROVE CountMove
    BY <1>1 DEF Start
<1>2. ASSUME NEW r \in Req, GiveUp(r) PROVE CountMove
    BY <1>2 DEF GiveUp
<1>3. ASSUME NEW r \in Req, ReadSeq(r) PROVE CountMove
    BY <1>3 DEF ReadSeq
<1>4. ASSUME NEW r \in Req, Recheck(r) PROVE CountMove
    BY <1>4 DEF Recheck, StillLocked, WaitOnRow, Locked
<1>5. ASSUME NEW r \in Req, PassOn(r) PROVE CountMove
    BY <1>5 DEF PassOn, Wakeup, Goto
<1>6. ASSUME NEW r \in Req, StartWait(r) PROVE CountMove
    BY <1>6 DEF StartWait, Goto
<1>7. ASSUME NEW r \in Req, Retry(r) PROVE CountMove
    BY <1>7 DEF Retry, Deliver
<1>8. ASSUME NEW r \in Req, Decide(r) PROVE CountMove
    BY <1>8 DEF Decide, Processed, CtxFree
<1>9. ASSUME NEW r \in Req, EndTx(r) PROVE CountMove
    BY <1>9 DEF EndTx, OwnRows, Wakeup, Goto
<1>10. ASSUME NEW r \in Req, NEW k \in Row, LockRow(r, k) PROVE CountMove
    BY <1>10 DEF LockRow, Locked
<1>11. ASSUME NEW r \in Req, NEW k \in Row, Conflict(r, k) PROVE CountMove
    BY <1>11 DEF Conflict, Locked
<1>12. ASSUME NEW r \in Req, NEW k \in Row, Rollback(r, k) PROVE CountMove
    BY <1>12 DEF Rollback, Processed, CtxFree, Release, OwnRows, Wakeup, Goto
<1>13. ASSUME NEW r \in Req, NEW k \in Row, EndRow(r, k) PROVE CountMove
    BY <1>13 DEF EndRow, Release, OwnRows, Wakeup, Goto
<1>14. ASSUME NEW a \in Mover, NEW n \in Req, InHand(a, n), RefuseWait(a) PROVE CountMove
    BY <1>14 DEF RefuseWait, WaitFails, Goto, Deliver, InHand
<1>15. ASSUME NEW a \in Mover, NEW n \in Req, InHand(a, n), EnterWait(a) PROVE CountMove
    <2>1. /\ waiting' = waiting /\ total_wait_node' = total_wait_node + 1
          /\ a \in Actor /\ step[a] = "wait" /\ step' = [step EXCEPT ![a] = "insert"]
        BY <1>15 DEF EnterWait, Goto
    <2>2. Joins(a)
        BY <2>1 DEF Joins
    <2> QED
        BY <2>1, <2>2
<1>16. ASSUME NEW a \in Mover, NEW n \in Req, InHand(a, n), Insert(a) PROVE CountMove
    <2>1. n \in Req \ waiting
        BY <1>16 DEF Insert, InHand, OwnerInv, NodeHasOneOwner, RemoverInv
    <2> QED
        BY <1>16, <2>1 DEF Insert, Goto, InHand, Leaves
<1>17. ASSUME NEW a \in Mover, NEW n \in Req, InHand(a, n), DoubleCheck(a) PROVE CountMove
    BY <1>17 DEF DoubleCheck, Goto, InHand
<1>18. ASSUME NEW r \in Req, WorkerWaits(r) PROVE CountMove
    BY <1>18 DEF WorkerWaits, LeaveCritical
<1>19. ASSUME NEW n \in Req, RemoverWaits(n) PROVE CountMove
    BY <1>19 DEF RemoverWaits, LeaveCritical
<1>20. ASSUME NEW a \in Mover, NEW n \in Req, InHand(a, n), Withdraw(a) PROVE CountMove
    BY <1>20 DEF Withdraw, Goto, InHand, Joins
<1>21. ASSUME NEW a \in Mover, NEW n \in Req, InHand(a, n), Withdrawn(a) PROVE CountMove
    BY <1>21 DEF Withdrawn, WaitFails, Goto, Leaves
<1>22. ASSUME NEW a \in Mover, IncSeq(a) PROVE CountMove
    BY <1>22 DEF IncSeq, Bump, SameBucket, Goto
<1>23. ASSUME NEW a \in Mover, FoundNobody(a) PROVE CountMove
    BY <1>23 DEF FoundNobody, Queued, NoWaiter, Return, Goto
<1>24. ASSUME NEW a \in Mover, NEW n \in Req, FoundWaiter(a, n) PROVE CountMove
    BY <1>24 DEF FoundWaiter, Queued, EnterCritical
<1>25. ASSUME NEW a \in Mover, NEW n \in Req, Taken(a, n) PROVE CountMove
    BY <1>25 DEF Taken, LeaveAndQuiesce
<1>26. ASSUME NEW a \in Mover, NEW n \in Req, NEW m \in Req, TriesNext(a, n, m) PROVE CountMove
    BY <1>26 DEF TriesNext, Queued
<1>27. ASSUME NEW a \in Mover, NEW n \in Req, TriedAll(a, n) PROVE CountMove
    BY <1>27 DEF TriedAll, Queued, LeaveCritical, NoWaiter, Return, Goto
<1>28. ASSUME NEW a \in Mover, Quiescent(a) PROVE CountMove
    BY <1>28 DEF Quiescent, Goto
<1>29. ASSUME NEW r \in Req, NEW n \in Req, RepostedOfRow(r, n) PROVE CountMove
    BY <1>29 DEF RepostedOfRow, RepostBase, Return, Goto
<1>30. ASSUME NEW r \in Req, NEW n \in Req, RepostedOfTx(r, n) PROVE CountMove
    BY <1>30 DEF RepostedOfTx, RepostBase, Goto
<1>31. ASSUME NEW n \in Req, InHand(Remover, n), ChangeHash PROVE CountMove
    BY <1>31 DEF ChangeHash, Goto, InHand
<1>32. ASSUME TouchNode PROVE CountMove
    BY <1>32 DEF TouchNode, Goto
<1>33. ASSUME NEW k \in Row, RemoveCallback(k) PROVE CountMove
    BY <1>33 DEF RemoveCallback, Wakeup, Goto
<1>34. ASSUME BeginCheck PROVE CountMove
    BY <1>34 DEF BeginCheck, EnterCritical
<1>35. ASSUME NEW n \in Req, MarkNode(n) PROVE CountMove
    BY <1>35 DEF MarkNode, PoppedHold
<1>36. ASSUME NEW n \in Req, Retired(n) PROVE CountMove
    BY <1>36 DEF Retired
<1>37. ASSUME RetiredLate PROVE CountMove
    BY <1>37 DEF RetiredLate
<1>38. ASSUME EndCheck PROVE CountMove
    BY <1>38 DEF EndCheck, MustPop, LeaveAndQuiesce
<1>39. ASSUME NEW n \in Req, RepostedOne(n) PROVE CountMove
    BY <1>39 DEF RepostedOne
<1>40. ASSUME RepostedAll PROVE CountMove
    BY <1>40 DEF RepostedAll
<1>41. ASSUME CheckerExits PROVE CountMove
    BY <1>41 DEF CheckerExits
<1>42. ASSUME Stop PROVE CountMove
    BY <1>42 DEF Stop
<1>43. ASSUME UNCHANGED vars PROVE CountMove
    BY <1>43
<1> QED
    BY <1>1, <1>2, <1>3, <1>4, <1>5, <1>6, <1>7, <1>8, <1>9, <1>10, <1>11, <1>12, <1>13, <1>14,
           <1>15, <1>16, <1>17, <1>18, <1>19, <1>20, <1>21, <1>22, <1>23, <1>24, <1>25, <1>26,
           <1>27, <1>28, <1>29, <1>30, <1>31, <1>32, <1>33, <1>34, <1>35, <1>36, <1>37, <1>38,
           <1>39, <1>40, <1>41, <1>42, <1>43 DEF Move

(* The counter follows.                                                    *)
LEMMA CountStep ==
    ASSUME TypeOK, CountInv, CountMove
    PROVE  CountInv'
<1>1. /\ IsFiniteSet(waiting) /\ IsFiniteSet(OnTheWay)
      /\ Cardinality(waiting) \in Nat /\ Cardinality(OnTheWay) \in Nat
    BY FiniteBooks
<1>2. Stay => OnTheWay' = OnTheWay
    BY DEF Stay, Way, OnTheWay
<1>3. \A a \in Actor : Joins(a) => OnTheWay' = OnTheWay \union {a} /\ a \notin OnTheWay
    BY DEF Joins, Way, OnTheWay
<1>4. \A a \in Actor : Leaves(a) => OnTheWay' = OnTheWay \ {a} /\ a \in OnTheWay
    BY DEF Leaves, Way, OnTheWay
<1>5. \A a : /\ a \notin OnTheWay
                  => Cardinality(OnTheWay \union {a}) = Cardinality(OnTheWay) + 1
             /\ a \in OnTheWay => Cardinality(OnTheWay \ {a}) = Cardinality(OnTheWay) - 1
    BY <1>1, FS_AddElement, FS_RemoveElement
<1>6. \A n : /\ n \notin waiting => Cardinality(waiting \union {n}) = Cardinality(waiting) + 1
             /\ n \in waiting => Cardinality(waiting \ {n}) = Cardinality(waiting) - 1
    BY <1>1, FS_AddElement, FS_RemoveElement
<1>7. CASE waiting' = waiting /\ total_wait_node' = total_wait_node /\ Stay
    BY <1>2, <1>7 DEF CountInv
<1>8. ASSUME NEW a \in Actor,
             waiting' = waiting /\ total_wait_node' = total_wait_node + 1 /\ Joins(a)
      PROVE  CountInv'
    BY <1>1, <1>3, <1>5, <1>8 DEF CountInv
<1>9. ASSUME NEW a \in Actor,
             waiting' = waiting /\ total_wait_node' = total_wait_node - 1 /\ Leaves(a)
      PROVE  CountInv'
    BY <1>1, <1>4, <1>5, <1>9 DEF CountInv
<1>10. ASSUME NEW n \in waiting,
              waiting' = waiting \ {n} /\ total_wait_node' = total_wait_node - 1 /\ Stay
       PROVE  CountInv'
    BY <1>1, <1>2, <1>6, <1>10 DEF CountInv
<1>11. ASSUME NEW a \in Actor, NEW n \in Req \ waiting,
              waiting' = waiting \union {n} /\ total_wait_node' = total_wait_node /\ Leaves(a)
       PROVE  CountInv'
    <2>1. Cardinality(waiting') = Cardinality(waiting) + 1
        BY <1>6, <1>11
    <2>2. Cardinality(OnTheWay') = Cardinality(OnTheWay) - 1
        BY <1>4, <1>5, <1>11
    <2> QED
        BY <1>1, <1>11, <2>1, <2>2 DEF CountInv
<1>12. ASSUME NEW a \in Actor, NEW n \in waiting,
              waiting' = waiting \ {n} /\ total_wait_node' = total_wait_node /\ Joins(a)
       PROVE  CountInv'
    BY <1>1, <1>3, <1>5, <1>6, <1>12 DEF CountInv
<1> QED
    BY <1>7, <1>8, <1>9, <1>10, <1>11, <1>12 DEF CountMove

-------------------------------------------------------------------------------
(* No wake-up is lost                                                      *)

(* A request waits with a hash.                                            *)
LEMMA HashStep ==
    ASSUME TypeOK, StepInv, OwnerInv, RemoverInv, RowInv, HashInv, Move
    PROVE  HashInv'
<1> USE ActorFacts DEF TypeOK, StepInv, HashInv, vars, rowVars, stmtVars, nodeVars, syncVars,
           mgrVars, subVars
<1>1. ASSUME NEW r \in Req, Start(r) PROVE HashInv'
    BY <1>1 DEF Start
<1>2. ASSUME NEW r \in Req, GiveUp(r) PROVE HashInv'
    BY <1>2 DEF GiveUp
<1>3. ASSUME NEW r \in Req, ReadSeq(r) PROVE HashInv'
    BY <1>3 DEF ReadSeq
<1>4. ASSUME NEW r \in Req, Recheck(r) PROVE HashInv'
    BY <1>4 DEF Recheck, RowInv
<1>5. ASSUME NEW r \in Req, PassOn(r) PROVE HashInv'
    BY <1>5 DEF PassOn, Wakeup, Goto
<1>6. ASSUME NEW r \in Req, StartWait(r) PROVE HashInv'
    BY <1>6 DEF StartWait, Goto
<1>7. ASSUME NEW r \in Req, Retry(r) PROVE HashInv'
    BY <1>7 DEF Retry, Deliver
<1>8. ASSUME NEW r \in Req, Decide(r) PROVE HashInv'
    BY <1>8 DEF Decide, Processed, CtxFree
<1>9. ASSUME NEW r \in Req, EndTx(r) PROVE HashInv'
    BY <1>9 DEF EndTx, OwnRows, Wakeup, Goto
<1>10. ASSUME NEW r \in Req, NEW k \in Row, LockRow(r, k) PROVE HashInv'
    BY <1>10 DEF LockRow, Locked
<1>11. ASSUME NEW r \in Req, NEW k \in Row, Conflict(r, k) PROVE HashInv'
    BY <1>11 DEF Conflict, Locked
<1>12. ASSUME NEW r \in Req, NEW k \in Row, Rollback(r, k) PROVE HashInv'
    BY <1>12 DEF Rollback, Processed, CtxFree, Release, OwnRows, Wakeup, Goto
<1>13. ASSUME NEW r \in Req, NEW k \in Row, EndRow(r, k) PROVE HashInv'
    BY <1>13 DEF EndRow, Release, OwnRows, Wakeup, Goto
<1>14. ASSUME NEW a \in Mover, NEW n \in Req, InHand(a, n), RefuseWait(a) PROVE HashInv'
    BY <1>14 DEF RefuseWait, WaitFails, Goto, Deliver, InHand
<1>15. ASSUME NEW a \in Mover, NEW n \in Req, InHand(a, n), EnterWait(a) PROVE HashInv'
    BY <1>15 DEF EnterWait, EnterCritical, Goto, InHand
<1>16. ASSUME NEW a \in Mover, NEW n \in Req, InHand(a, n), Insert(a) PROVE HashInv'
    BY <1>16 DEF Insert, Goto, InHand
<1>17. ASSUME NEW a \in Mover, NEW n \in Req, InHand(a, n), DoubleCheck(a) PROVE HashInv'
    BY <1>17 DEF DoubleCheck, Goto, InHand
<1>18. ASSUME NEW r \in Req, WorkerWaits(r) PROVE HashInv'
    BY <1>18 DEF WorkerWaits, LeaveCritical
<1>19. ASSUME NEW n \in Req, RemoverWaits(n) PROVE HashInv'
    BY <1>19 DEF RemoverWaits, LeaveCritical
<1>20. ASSUME NEW a \in Mover, NEW n \in Req, InHand(a, n), Withdraw(a) PROVE HashInv'
    BY <1>20 DEF Withdraw, LeaveAndQuiesce, Goto, InHand
<1>21. ASSUME NEW a \in Mover, NEW n \in Req, InHand(a, n), Withdrawn(a) PROVE HashInv'
    BY <1>21 DEF Withdrawn, WaitFails, Goto, Deliver, InHand
<1>22. ASSUME NEW a \in Mover, IncSeq(a) PROVE HashInv'
    BY <1>22 DEF IncSeq, Bump, SameBucket, Goto
<1>23. ASSUME NEW a \in Mover, FoundNobody(a) PROVE HashInv'
    BY <1>23 DEF FoundNobody, Queued, NoWaiter, Return, Goto
<1>24. ASSUME NEW a \in Mover, NEW n \in Req, FoundWaiter(a, n) PROVE HashInv'
    BY <1>24 DEF FoundWaiter, Queued, EnterCritical
<1>25. ASSUME NEW a \in Mover, NEW n \in Req, Taken(a, n) PROVE HashInv'
    BY <1>25 DEF Taken, LeaveAndQuiesce
<1>26. ASSUME NEW a \in Mover, NEW n \in Req, NEW m \in Req, TriesNext(a, n, m) PROVE HashInv'
    BY <1>26 DEF TriesNext, Queued
<1>27. ASSUME NEW a \in Mover, NEW n \in Req, TriedAll(a, n) PROVE HashInv'
    BY <1>27 DEF TriedAll, Queued, LeaveCritical, NoWaiter, Return, Goto
<1>28. ASSUME NEW a \in Mover, Quiescent(a) PROVE HashInv'
    BY <1>28 DEF Quiescent, Goto
<1>29. ASSUME NEW r \in Req, NEW n \in Req, RepostedOfRow(r, n) PROVE HashInv'
    BY <1>29 DEF RepostedOfRow, RepostBase, Return, Goto
<1>30. ASSUME NEW r \in Req, NEW n \in Req, RepostedOfTx(r, n) PROVE HashInv'
    BY <1>30 DEF RepostedOfTx, RepostBase, Goto
<1>31. ASSUME NEW n \in Req, InHand(Remover, n), ChangeHash PROVE HashInv'
    BY <1>31 DEF ChangeHash, Goto, InHand, RemoverInv
<1>32. ASSUME TouchNode PROVE HashInv'
    BY <1>32 DEF TouchNode, Goto
<1>33. ASSUME NEW k \in Row, RemoveCallback(k) PROVE HashInv'
    BY <1>33 DEF RemoveCallback, Wakeup, Goto
<1>34. ASSUME BeginCheck PROVE HashInv'
    BY <1>34 DEF BeginCheck, EnterCritical
<1>35. ASSUME NEW n \in Req, MarkNode(n) PROVE HashInv'
    BY <1>35 DEF MarkNode, PoppedHold
<1>36. ASSUME NEW n \in Req, Retired(n) PROVE HashInv'
    BY <1>36 DEF Retired
<1>37. ASSUME RetiredLate PROVE HashInv'
    BY <1>37 DEF RetiredLate
<1>38. ASSUME EndCheck PROVE HashInv'
    BY <1>38 DEF EndCheck, MustPop, LeaveAndQuiesce
<1>39. ASSUME NEW n \in Req, RepostedOne(n) PROVE HashInv'
    BY <1>39 DEF RepostedOne
<1>40. ASSUME RepostedAll PROVE HashInv'
    BY <1>40 DEF RepostedAll
<1>41. ASSUME CheckerExits PROVE HashInv'
    BY <1>41 DEF CheckerExits
<1>42. ASSUME Stop PROVE HashInv'
    BY <1>42 DEF Stop
<1>43. ASSUME UNCHANGED vars PROVE HashInv'
    BY <1>43
<1> QED
    BY <1>1, <1>2, <1>3, <1>4, <1>5, <1>6, <1>7, <1>8, <1>9, <1>10, <1>11, <1>12, <1>13, <1>14,
           <1>15, <1>16, <1>17, <1>18, <1>19, <1>20, <1>21, <1>22, <1>23, <1>24, <1>25, <1>26,
           <1>27, <1>28, <1>29, <1>30, <1>31, <1>32, <1>33, <1>34, <1>35, <1>36, <1>37, <1>38,
           <1>39, <1>40, <1>41, <1>42, <1>43 DEF Move

(* The bump that is to come for a hash still is, until it is made.         *)
LEMMA SafeStays ==
    ASSUME TypeOK, StepInv, PointerInv, RemoverInv, OwnerInv, RowInv,
           NEW h \in Hash, Safe(h), ~\E a \in Mover : IncSeq(a) /\ key[a] = h, Move
    PROVE  Safe(h)'
<1> USE ActorFacts DEF TypeOK, StepInv, PointerInv, RemoverInv, OwnerInv, NodeHasOneOwner, RowInv,
           Safe, BumpComes, StaleHolder, vars, rowVars, stmtVars, nodeVars, syncVars, mgrVars,
           subVars
<1>1. ASSUME NEW r \in Req, Start(r) PROVE Safe(h)'
    BY <1>1 DEF Start
<1>2. ASSUME NEW r \in Req, GiveUp(r) PROVE Safe(h)'
    BY <1>2 DEF GiveUp
<1>3. ASSUME NEW r \in Req, ReadSeq(r) PROVE Safe(h)'
    BY <1>3 DEF ReadSeq
<1>4. ASSUME NEW r \in Req, Recheck(r) PROVE Safe(h)'
    <2> DEFINE w == IF WaitOnRow(r) THEN want[r] ELSE holder[r]
    <2>1. /\ UNCHANGED <<owner, cleaned, ended, key, step, node_hold, got>>
          /\ pc[r] = "recheck" /\ pc' = [pc EXCEPT ![r] = "retry"]
        BY <1>4 DEF Recheck
    <2>2. \/ UNCHANGED hold_key
          \/ StillLocked(r) /\ hold_key' = [hold_key EXCEPT ![r] = IF @ = w THEN NoOne ELSE @]
        BY <1>4 DEF Recheck
    <2>3. CASE hold_key[r] = h /\ hold_key'[r] # h
        <3>1. StillLocked(r) /\ h = w
            BY <2>2, <2>3
        <3>2. CASE WaitOnRow(r)
            BY <2>1, <3>1, <3>2 DEF StillLocked, WaitOnRow, Locked
        <3>3. CASE ~WaitOnRow(r) /\ pc[h] # "gone"
            BY <2>1, <3>1, <3>3
        <3>4. CASE ~WaitOnRow(r) /\ pc[h] = "gone"
            BY <2>1, <3>1, <3>4 DEF StillLocked, WaitOnRow, Locked
        <3> QED
            BY <3>2, <3>3, <3>4
    <2>4. CASE hold_key[r] = h => hold_key'[r] = h
        <3>1. \A x \in Req : hold_key[x] = h => hold_key'[x] = h
            BY <2>2, <2>4
        <3>2. /\ \A x \in Req : pc[x] = "queue" => pc'[x] = "queue"
              /\ \A x \in Req : pc[x] # "gone" => pc'[x] # "gone"
            BY <2>1
        <3> HIDE DEF TypeOK, StepInv, PointerInv, RemoverInv, OwnerInv, NodeHasOneOwner, RowInv
        <3> QED
            BY <2>1, <3>1, <3>2
    <2> QED
        BY <2>3, <2>4
<1>5. ASSUME NEW r \in Req, PassOn(r) PROVE Safe(h)'
    BY <1>5 DEF PassOn, Wakeup, Goto
<1>6. ASSUME NEW r \in Req, StartWait(r) PROVE Safe(h)'
    BY <1>6 DEF StartWait, Goto
<1>7. ASSUME NEW r \in Req, Retry(r) PROVE Safe(h)'
    BY <1>7 DEF Retry, Deliver
<1>8. ASSUME NEW r \in Req, Decide(r) PROVE Safe(h)'
    BY <1>8 DEF Decide, Processed, CtxFree
<1>9. ASSUME NEW r \in Req, EndTx(r) PROVE Safe(h)'
    BY <1>9 DEF EndTx, OwnRows, Wakeup, Goto
<1>10. ASSUME NEW r \in Req, NEW k \in Row, LockRow(r, k) PROVE Safe(h)'
    BY <1>10 DEF LockRow, Locked
<1>11. ASSUME NEW r \in Req, NEW k \in Row, Conflict(r, k) PROVE Safe(h)'
    BY <1>11 DEF Conflict, Locked
<1>12. ASSUME NEW r \in Req, NEW k \in Row, Rollback(r, k) PROVE Safe(h)'
    BY <1>12 DEF Rollback, Processed, CtxFree, Release, OwnRows, Wakeup, Goto
<1>13. ASSUME NEW r \in Req, NEW k \in Row, EndRow(r, k) PROVE Safe(h)'
    BY <1>13 DEF EndRow, Release, OwnRows, Wakeup, Goto
<1>14. ASSUME NEW a \in Mover, NEW n \in Req, InHand(a, n), RefuseWait(a) PROVE Safe(h)'
    BY <1>14 DEF RefuseWait, WaitFails, Goto, Deliver, InHand
<1>15. ASSUME NEW a \in Mover, NEW n \in Req, InHand(a, n), EnterWait(a) PROVE Safe(h)'
    BY <1>15 DEF EnterWait, EnterCritical, Goto, InHand
<1>16. ASSUME NEW a \in Mover, NEW n \in Req, InHand(a, n), Insert(a) PROVE Safe(h)'
    BY <1>16 DEF Insert, Goto, InHand
<1>17. ASSUME NEW a \in Mover, NEW n \in Req, InHand(a, n), DoubleCheck(a) PROVE Safe(h)'
    BY <1>17 DEF DoubleCheck, Goto, InHand
<1>18. ASSUME NEW r \in Req, WorkerWaits(r) PROVE Safe(h)'
    BY <1>18 DEF WorkerWaits, LeaveCritical
<1>19. ASSUME NEW n \in Req, RemoverWaits(n) PROVE Safe(h)'
    BY <1>19 DEF RemoverWaits, LeaveCritical
<1>20. ASSUME NEW a \in Mover, NEW n \in Req, InHand(a, n), Withdraw(a) PROVE Safe(h)'
    BY <1>20 DEF Withdraw, LeaveAndQuiesce, Goto, InHand
<1>21. ASSUME NEW a \in Mover, NEW n \in Req, InHand(a, n), Withdrawn(a) PROVE Safe(h)'
    BY <1>21 DEF Withdrawn, WaitFails, Goto, Deliver, InHand
<1>22. ASSUME NEW a \in Mover, IncSeq(a) PROVE Safe(h)'
    <2>1. /\ UNCHANGED <<owner, cleaned, pc, key, node_hold, got, hold_key>> /\ key[a] # h
          /\ \A b \in Actor \ {a} : step'[b] = step[b]
        BY <1>22 DEF IncSeq, Goto
    <2> HIDE DEF TypeOK, StepInv, PointerInv, RemoverInv, OwnerInv, NodeHasOneOwner, RowInv
    <2> QED
        BY <2>1
<1>23. ASSUME NEW a \in Mover, FoundNobody(a) PROVE Safe(h)'
    BY <1>23 DEF FoundNobody, Queued, NoWaiter, Return, Goto
<1>24. ASSUME NEW a \in Mover, NEW n \in Req, FoundWaiter(a, n) PROVE Safe(h)'
    BY <1>24 DEF FoundWaiter, Queued, EnterCritical
<1>25. ASSUME NEW a \in Mover, NEW n \in Req, Taken(a, n) PROVE Safe(h)'
    BY <1>25 DEF Taken, LeaveAndQuiesce
<1>26. ASSUME NEW a \in Mover, NEW n \in Req, NEW m \in Req, TriesNext(a, n, m) PROVE Safe(h)'
    BY <1>26 DEF TriesNext, Queued
<1>27. ASSUME NEW a \in Mover, NEW n \in Req, TriedAll(a, n) PROVE Safe(h)'
    BY <1>27 DEF TriedAll, Queued, LeaveCritical, NoWaiter, Return, Goto
<1>28. ASSUME NEW a \in Mover, Quiescent(a) PROVE Safe(h)'
    BY <1>28 DEF Quiescent, Goto
<1>29. ASSUME NEW r \in Req, NEW n \in Req, RepostedOfRow(r, n) PROVE Safe(h)'
    <2>1. /\ n \in got[r] /\ r \in Actor /\ r # Checker /\ step[r] = "repost"
          /\ \A b \in Actor \ {r} : step'[b] = step[b] /\ key'[b] = key[b] /\ got'[b] = got[b]
          /\ UNCHANGED <<owner, cleaned, hold_key>>
          /\ \A x \in Req \ {n} : pc'[x] = pc[x] /\ node_hold'[x] = node_hold[x]
          /\ pc'[n] = "queue"
        BY <1>29 DEF RepostedOfRow, RepostBase, Return, Goto
    <2>2. pc[n] = "wait" /\ n \notin got[Checker]
        BY ZenonT(60), <2>1
    <2> HIDE DEF TypeOK, StepInv, PointerInv, RemoverInv, OwnerInv, NodeHasOneOwner, RowInv
    <2>3. \A x \in Req : node_hold[x] = h /\ (pc[x] = "queue" \/ x \in got[Checker]) =>
             node_hold'[x] = h /\ (pc'[x] = "queue" \/ x \in got'[Checker])
        BY <2>1, <2>2
    <2>4. /\ \A b \in Req \union {Remover} :
                key[b] = h /\ step[b] = "inc" => key'[b] = h /\ step'[b] = "inc"
          /\ \A x \in Req : pc[x] # "gone" => pc'[x] # "gone"
        BY <2>1
    <2> QED
        BY <2>1, <2>3, <2>4
<1>30. ASSUME NEW r \in Req, NEW n \in Req, RepostedOfTx(r, n) PROVE Safe(h)'
    <2>1. /\ n \in got[r] /\ r \in Actor /\ r # Checker /\ step[r] = "repost"
          /\ \A b \in Actor \ {r} : step'[b] = step[b] /\ key'[b] = key[b] /\ got'[b] = got[b]
          /\ UNCHANGED <<owner, cleaned, hold_key>>
          /\ \A x \in Req \ {n} : pc'[x] = pc[x] /\ node_hold'[x] = node_hold[x]
          /\ pc'[n] = "queue"
        BY <1>30 DEF RepostedOfTx, RepostBase, Goto
    <2>2. pc[n] = "wait" /\ n \notin got[Checker]
        BY ZenonT(60), <2>1
    <2> HIDE DEF TypeOK, StepInv, PointerInv, RemoverInv, OwnerInv, NodeHasOneOwner, RowInv
    <2>3. \A x \in Req : node_hold[x] = h /\ (pc[x] = "queue" \/ x \in got[Checker]) =>
             node_hold'[x] = h /\ (pc'[x] = "queue" \/ x \in got'[Checker])
        BY <2>1, <2>2
    <2>4. /\ \A b \in Req \union {Remover} :
                key[b] = h /\ step[b] = "inc" => key'[b] = h /\ step'[b] = "inc"
          /\ \A x \in Req : pc[x] # "gone" => pc'[x] # "gone"
        BY <2>1
    <2> QED
        BY <2>1, <2>3, <2>4
<1>31. ASSUME NEW n \in Req, InHand(Remover, n), ChangeHash PROVE Safe(h)'
    BY <1>31 DEF ChangeHash, Goto, InHand
<1>32. ASSUME TouchNode PROVE Safe(h)'
    BY <1>32 DEF TouchNode, Goto
<1>33. ASSUME NEW k \in Row, RemoveCallback(k) PROVE Safe(h)'
    BY <1>33 DEF RemoveCallback, Wakeup, Goto
<1>34. ASSUME BeginCheck PROVE Safe(h)'
    BY <1>34 DEF BeginCheck, EnterCritical
<1>35. ASSUME NEW n \in Req, MarkNode(n) PROVE Safe(h)'
    <2>1. /\ \A x \in Req \ {n} : node_hold'[x] = node_hold[x]
          /\ \A x \in Req : pc'[x] = pc[x] /\ key'[x] = key[x]
          /\ key'[Remover] = key[Remover] /\ UNCHANGED <<owner, cleaned, hold_key, step, got>>
        BY <1>35 DEF MarkNode
    <2>2. pc[n] = "wait" /\ n \notin got[Checker]
        BY <1>35 DEF MarkNode
    <2> HIDE DEF TypeOK, StepInv, PointerInv, RemoverInv, OwnerInv, NodeHasOneOwner, RowInv
    <2> QED
        BY <2>1, <2>2
<1>36. ASSUME NEW n \in Req, Retired(n) PROVE Safe(h)'
    BY <1>36 DEF Retired
<1>37. ASSUME RetiredLate PROVE Safe(h)'
    BY <1>37 DEF RetiredLate
<1>38. ASSUME EndCheck PROVE Safe(h)'
    BY <1>38 DEF EndCheck, MustPop, LeaveAndQuiesce
<1>39. ASSUME NEW n \in Req, RepostedOne(n) PROVE Safe(h)'
    BY <1>39 DEF RepostedOne
<1>40. ASSUME RepostedAll PROVE Safe(h)'
    BY <1>40 DEF RepostedAll
<1>41. ASSUME CheckerExits PROVE Safe(h)'
    BY <1>41 DEF CheckerExits
<1>42. ASSUME Stop PROVE Safe(h)'
    BY <1>42 DEF Stop
<1>43. ASSUME UNCHANGED vars PROVE Safe(h)'
    BY <1>43
<1> QED
    BY ZenonT(60), <1>1, <1>2, <1>3, <1>4, <1>5, <1>6, <1>7, <1>8, <1>9, <1>10, <1>11, <1>12, <1>13, <1>14,
           <1>15, <1>16, <1>17, <1>18, <1>19, <1>20, <1>21, <1>22, <1>23, <1>24, <1>25, <1>26,
           <1>27, <1>28, <1>29, <1>30, <1>31, <1>32, <1>33, <1>34, <1>35, <1>36, <1>37, <1>38,
           <1>39, <1>40, <1>41, <1>42, <1>43 DEF Move

FreshBefore(x) ==
    pc[x] \in {"retry", "wait"} /\ hash[x] \in fresh[x] /\ hash'[x] = hash[x]

CheckedBefore(x) ==
    Checked(x) /\ hash'[x] = hash[x] /\ standalone'[x] = standalone[x]

CheckedNow(x) ==
    /\ x \in waiting /\ hash'[x] = hash[x]
    /\ standalone[x] \/ MissedWakeup(x) => standalone'[x]

(* A sequence that has not moved was read before, with the lock in place.  *)
LEMMA FreshSource ==
    ASSUME TypeOK, StepInv, RemoverInv, OwnerInv, RowInv, HashInv,
           NEW x \in Req, pc'[x] \in {"retry", "wait"}, hash'[x] \in fresh'[x], NEW h \in Hash,
           h = hash'[x], Move
    PROVE  FreshBefore(x) \/ Safe(h)'
<1> USE ActorFacts DEF TypeOK, StepInv, OwnerInv, NodeHasOneOwner, FreshBefore, vars, rowVars,
           stmtVars, nodeVars, syncVars, mgrVars, subVars
<1>1. ASSUME NEW r \in Req, Start(r) PROVE FreshBefore(x) \/ Safe(h)'
    BY <1>1 DEF Start
<1>2. ASSUME NEW r \in Req, GiveUp(r) PROVE FreshBefore(x) \/ Safe(h)'
    BY <1>2 DEF GiveUp
<1>3. ASSUME NEW r \in Req, ReadSeq(r) PROVE FreshBefore(x) \/ Safe(h)'
    BY <1>3 DEF ReadSeq
<1>4. ASSUME NEW r \in Req, Recheck(r) PROVE FreshBefore(x) \/ Safe(h)'
    <2>1. CASE x # r
        BY <1>4, <2>1 DEF Recheck
    <2>2. CASE x = r /\ ~StillLocked(r)
        BY <1>4, <2>2 DEF Recheck
    <2>3. CASE x = r /\ StillLocked(r)
        <3>1. h = IF WaitOnRow(r) THEN want[r] ELSE holder[r]
            BY <1>4, <2>3 DEF Recheck
        <3>2. /\ UNCHANGED <<owner, cleaned, ended>>
              /\ pc[r] = "recheck" /\ pc' = [pc EXCEPT ![r] = "retry"]
            BY <1>4 DEF Recheck
        <3>3. CASE WaitOnRow(r)
            BY <2>3, <3>1, <3>2, <3>3
               DEF StillLocked, WaitOnRow, Locked, Safe, BumpComes, RowInv
        <3>4. CASE ~WaitOnRow(r) /\ pc[h] # "gone"
            BY <3>1, <3>2, <3>4 DEF Safe, BumpComes, RowInv
        <3>5. CASE ~WaitOnRow(r) /\ pc[h] = "gone"
            <4>1. h = holder[r] /\ h \in Req /\ want[r] \in Row
                BY <3>1, <3>2, <3>5 DEF RowInv
            <4>2. h \in ended
                BY <3>5, <4>1 DEF RowInv
            <4>3. owner[want[r]] # h
                BY <2>3, <3>5, <4>1, <4>2 DEF StillLocked, WaitOnRow, Locked
            <4>4. \A k \in Row : owner[k] # h
                BY <3>2, <4>1, <4>3 DEF RowInv
            <4> QED
                BY <3>2, <4>1, <4>4 DEF Safe, StaleHolder
        <3> QED
            BY <3>3, <3>4, <3>5
    <2> QED
        BY <2>1, <2>2, <2>3
<1>5. ASSUME NEW r \in Req, PassOn(r) PROVE FreshBefore(x) \/ Safe(h)'
    BY <1>5 DEF PassOn, Wakeup, Goto
<1>6. ASSUME NEW r \in Req, StartWait(r) PROVE FreshBefore(x) \/ Safe(h)'
    BY <1>6 DEF StartWait, Goto
<1>7. ASSUME NEW r \in Req, Retry(r) PROVE FreshBefore(x) \/ Safe(h)'
    BY <1>7 DEF Retry, Deliver
<1>8. ASSUME NEW r \in Req, Decide(r) PROVE FreshBefore(x) \/ Safe(h)'
    BY <1>8 DEF Decide, Processed, CtxFree
<1>9. ASSUME NEW r \in Req, EndTx(r) PROVE FreshBefore(x) \/ Safe(h)'
    BY <1>9 DEF EndTx, OwnRows, Wakeup, Goto
<1>10. ASSUME NEW r \in Req, NEW k \in Row, LockRow(r, k) PROVE FreshBefore(x) \/ Safe(h)'
    BY <1>10 DEF LockRow, Locked
<1>11. ASSUME NEW r \in Req, NEW k \in Row, Conflict(r, k) PROVE FreshBefore(x) \/ Safe(h)'
    BY <1>11 DEF Conflict, Locked
<1>12. ASSUME NEW r \in Req, NEW k \in Row, Rollback(r, k) PROVE FreshBefore(x) \/ Safe(h)'
    BY <1>12 DEF Rollback, Processed, CtxFree, Release, OwnRows, Wakeup, Goto
<1>13. ASSUME NEW r \in Req, NEW k \in Row, EndRow(r, k) PROVE FreshBefore(x) \/ Safe(h)'
    BY <1>13 DEF EndRow, Release, OwnRows, Wakeup, Goto
<1>14. ASSUME NEW a \in Mover, NEW n \in Req, InHand(a, n), RefuseWait(a)
      PROVE  FreshBefore(x) \/ Safe(h)'
    BY <1>14 DEF RefuseWait, WaitFails, Goto, Deliver, InHand
<1>15. ASSUME NEW a \in Mover, NEW n \in Req, InHand(a, n), EnterWait(a)
      PROVE  FreshBefore(x) \/ Safe(h)'
    BY <1>15 DEF EnterWait, EnterCritical, Goto, InHand
<1>16. ASSUME NEW a \in Mover, NEW n \in Req, InHand(a, n), Insert(a)
      PROVE  FreshBefore(x) \/ Safe(h)'
    BY <1>16 DEF Insert, Goto, InHand
<1>17. ASSUME NEW a \in Mover, NEW n \in Req, InHand(a, n), DoubleCheck(a)
      PROVE  FreshBefore(x) \/ Safe(h)'
    BY <1>17 DEF DoubleCheck, Goto, InHand
<1>18. ASSUME NEW r \in Req, WorkerWaits(r) PROVE FreshBefore(x) \/ Safe(h)'
    BY <1>18 DEF WorkerWaits, LeaveCritical
<1>19. ASSUME NEW n \in Req, RemoverWaits(n) PROVE FreshBefore(x) \/ Safe(h)'
    BY <1>19 DEF RemoverWaits, LeaveCritical
<1>20. ASSUME NEW a \in Mover, NEW n \in Req, InHand(a, n), Withdraw(a)
      PROVE  FreshBefore(x) \/ Safe(h)'
    BY <1>20 DEF Withdraw, LeaveAndQuiesce, Goto, InHand
<1>21. ASSUME NEW a \in Mover, NEW n \in Req, InHand(a, n), Withdrawn(a)
      PROVE  FreshBefore(x) \/ Safe(h)'
    BY <1>21 DEF Withdrawn, WaitFails, Goto, Deliver, InHand
<1>22. ASSUME NEW a \in Mover, IncSeq(a) PROVE FreshBefore(x) \/ Safe(h)'
    BY <1>22 DEF IncSeq, Bump, SameBucket, Goto
<1>23. ASSUME NEW a \in Mover, FoundNobody(a) PROVE FreshBefore(x) \/ Safe(h)'
    BY <1>23 DEF FoundNobody, Queued, NoWaiter, Return, Goto
<1>24. ASSUME NEW a \in Mover, NEW n \in Req, FoundWaiter(a, n) PROVE FreshBefore(x) \/ Safe(h)'
    BY <1>24 DEF FoundWaiter, Queued, EnterCritical
<1>25. ASSUME NEW a \in Mover, NEW n \in Req, Taken(a, n) PROVE FreshBefore(x) \/ Safe(h)'
    BY <1>25 DEF Taken, LeaveAndQuiesce
<1>26. ASSUME NEW a \in Mover, NEW n \in Req, NEW m \in Req, TriesNext(a, n, m)
      PROVE  FreshBefore(x) \/ Safe(h)'
    BY <1>26 DEF TriesNext, Queued
<1>27. ASSUME NEW a \in Mover, NEW n \in Req, TriedAll(a, n) PROVE FreshBefore(x) \/ Safe(h)'
    BY <1>27 DEF TriedAll, Queued, LeaveCritical, NoWaiter, Return, Goto
<1>28. ASSUME NEW a \in Mover, Quiescent(a) PROVE FreshBefore(x) \/ Safe(h)'
    BY <1>28 DEF Quiescent, Goto
<1>29. ASSUME NEW r \in Req, NEW n \in Req, RepostedOfRow(r, n) PROVE FreshBefore(x) \/ Safe(h)'
    BY <1>29 DEF RepostedOfRow, RepostBase, Return, Goto
<1>30. ASSUME NEW r \in Req, NEW n \in Req, RepostedOfTx(r, n) PROVE FreshBefore(x) \/ Safe(h)'
    BY <1>30 DEF RepostedOfTx, RepostBase, Goto
<1>31. ASSUME NEW n \in Req, InHand(Remover, n), ChangeHash PROVE FreshBefore(x) \/ Safe(h)'
    <2>1. CASE x # n
        BY <1>31, <2>1 DEF ChangeHash, InHand
    <2>2. CASE x = n
        <3>1. pc[h] # "gone" /\ h \in Req
            BY <1>31, <2>2 DEF ChangeHash, InHand, RemoverInv, RowInv
        <3>2. pc' = pc
            BY <1>31 DEF ChangeHash
        <3> QED
            BY <3>1, <3>2 DEF Safe, BumpComes
    <2> QED
        BY <2>1, <2>2
<1>32. ASSUME TouchNode PROVE FreshBefore(x) \/ Safe(h)'
    BY <1>32 DEF TouchNode, Goto
<1>33. ASSUME NEW k \in Row, RemoveCallback(k) PROVE FreshBefore(x) \/ Safe(h)'
    BY <1>33 DEF RemoveCallback, Wakeup, Goto
<1>34. ASSUME BeginCheck PROVE FreshBefore(x) \/ Safe(h)'
    BY <1>34 DEF BeginCheck, EnterCritical
<1>35. ASSUME NEW n \in Req, MarkNode(n) PROVE FreshBefore(x) \/ Safe(h)'
    BY <1>35 DEF MarkNode, PoppedHold
<1>36. ASSUME NEW n \in Req, Retired(n) PROVE FreshBefore(x) \/ Safe(h)'
    BY <1>36 DEF Retired
<1>37. ASSUME RetiredLate PROVE FreshBefore(x) \/ Safe(h)'
    BY <1>37 DEF RetiredLate
<1>38. ASSUME EndCheck PROVE FreshBefore(x) \/ Safe(h)'
    BY <1>38 DEF EndCheck, MustPop, LeaveAndQuiesce
<1>39. ASSUME NEW n \in Req, RepostedOne(n) PROVE FreshBefore(x) \/ Safe(h)'
    BY <1>39 DEF RepostedOne
<1>40. ASSUME RepostedAll PROVE FreshBefore(x) \/ Safe(h)'
    BY <1>40 DEF RepostedAll
<1>41. ASSUME CheckerExits PROVE FreshBefore(x) \/ Safe(h)'
    BY <1>41 DEF CheckerExits
<1>42. ASSUME Stop PROVE FreshBefore(x) \/ Safe(h)'
    BY <1>42 DEF Stop
<1>43. ASSUME UNCHANGED vars PROVE FreshBefore(x) \/ Safe(h)'
    BY <1>43
<1> QED
    BY <1>1, <1>2, <1>3, <1>4, <1>5, <1>6, <1>7, <1>8, <1>9, <1>10, <1>11, <1>12, <1>13, <1>14,
           <1>15, <1>16, <1>17, <1>18, <1>19, <1>20, <1>21, <1>22, <1>23, <1>24, <1>25, <1>26,
           <1>27, <1>28, <1>29, <1>30, <1>31, <1>32, <1>33, <1>34, <1>35, <1>36, <1>37, <1>38,
           <1>39, <1>40, <1>41, <1>42, <1>43 DEF Move

(* A node is checked once its second look is behind it.                   *)
LEMMA CheckedSource ==
    ASSUME TypeOK, StepInv, PointerInv, RemoverInv, OwnerInv,
           NEW x \in Req, Checked(x)', Move
    PROVE  CheckedBefore(x) \/ CheckedNow(x)
<1> USE ActorFacts DEF TypeOK, StepInv, PointerInv, RemoverInv, OwnerInv, NodeHasOneOwner,
           Checked, CheckedBefore, CheckedNow, Mover, vars, rowVars, stmtVars, nodeVars, syncVars,
           mgrVars, subVars
<1>1. ASSUME NEW r \in Req, Start(r) PROVE CheckedBefore(x) \/ CheckedNow(x)
    <2>1. r # x
        BY <1>1 DEF Start
    <2>2. /\ hash' = [hash EXCEPT ![r] = NoOne] /\ standalone' = [standalone EXCEPT ![r] = FALSE]
          /\ UNCHANGED <<waiting, step, ref>>
        BY <1>1 DEF Start
    <2> HIDE DEF StepInv, PointerInv, RemoverInv, OwnerInv, NodeHasOneOwner
    <2>3. hash'[x] = hash[x] /\ standalone'[x] = standalone[x]
        BY ZenonT(60), <2>1, <2>2
    <2> HIDE DEF TypeOK
    <2> QED
        BY <2>2, <2>3
<1>2. ASSUME NEW r \in Req, GiveUp(r) PROVE CheckedBefore(x) \/ CheckedNow(x)
    BY <1>2 DEF GiveUp
<1>3. ASSUME NEW r \in Req, ReadSeq(r) PROVE CheckedBefore(x) \/ CheckedNow(x)
    BY <1>3 DEF ReadSeq
<1>4. ASSUME NEW r \in Req, Recheck(r) PROVE CheckedBefore(x) \/ CheckedNow(x)
    BY <1>4 DEF Recheck, StillLocked, WaitOnRow, Locked
<1>5. ASSUME NEW r \in Req, PassOn(r) PROVE CheckedBefore(x) \/ CheckedNow(x)
    BY <1>5 DEF PassOn, Wakeup, Goto
<1>6. ASSUME NEW r \in Req, StartWait(r) PROVE CheckedBefore(x) \/ CheckedNow(x)
    BY <1>6 DEF StartWait, Goto
<1>7. ASSUME NEW r \in Req, Retry(r) PROVE CheckedBefore(x) \/ CheckedNow(x)
    BY <1>7 DEF Retry, Deliver
<1>8. ASSUME NEW r \in Req, Decide(r) PROVE CheckedBefore(x) \/ CheckedNow(x)
    BY <1>8 DEF Decide, Processed, CtxFree
<1>9. ASSUME NEW r \in Req, EndTx(r) PROVE CheckedBefore(x) \/ CheckedNow(x)
    BY <1>9 DEF EndTx, OwnRows, Wakeup, Goto
<1>10. ASSUME NEW r \in Req, NEW k \in Row, LockRow(r, k) PROVE CheckedBefore(x) \/ CheckedNow(x)
    BY <1>10 DEF LockRow, Locked
<1>11. ASSUME NEW r \in Req, NEW k \in Row, Conflict(r, k) PROVE CheckedBefore(x) \/ CheckedNow(x)
    BY <1>11 DEF Conflict, Locked
<1>12. ASSUME NEW r \in Req, NEW k \in Row, Rollback(r, k) PROVE CheckedBefore(x) \/ CheckedNow(x)
    BY <1>12 DEF Rollback, Processed, CtxFree, Release, OwnRows, Wakeup, Goto
<1>13. ASSUME NEW r \in Req, NEW k \in Row, EndRow(r, k) PROVE CheckedBefore(x) \/ CheckedNow(x)
    BY <1>13 DEF EndRow, Release, OwnRows, Wakeup, Goto
<1>14. ASSUME NEW a \in Mover, NEW n \in Req, InHand(a, n), RefuseWait(a)
      PROVE  CheckedBefore(x) \/ CheckedNow(x)
    BY <1>14 DEF RefuseWait, WaitFails, Goto, Deliver, InHand
<1>15. ASSUME NEW a \in Mover, NEW n \in Req, InHand(a, n), EnterWait(a)
      PROVE  CheckedBefore(x) \/ CheckedNow(x)
    <2>1. n # x
        BY <1>15 DEF EnterWait, InHand
    <2> QED
        BY <1>15, <2>1 DEF EnterWait, Goto, InHand
<1>16. ASSUME NEW a \in Mover, NEW n \in Req, InHand(a, n), Insert(a)
      PROVE  CheckedBefore(x) \/ CheckedNow(x)
    BY <1>16 DEF Insert, Goto, InHand
<1>17. ASSUME NEW a \in Mover, NEW n \in Req, InHand(a, n), DoubleCheck(a)
      PROVE  CheckedBefore(x) \/ CheckedNow(x)
    <2>1. /\ UNCHANGED <<hash, waiting, ref>> /\ step' = [step EXCEPT ![a] = "check_stop"]
          /\ standalone' = [standalone EXCEPT ![n] = @ \/ MissedWakeup(n)]
          /\ step[a] = "double_check" /\ ref[a] = {n}
        BY <1>17 DEF DoubleCheck, Goto, InHand
    <2>2. CASE x = n
        <3>1. x \in waiting /\ hash' = hash
            BY <2>1
        <3>2. standalone'[x] = (standalone[x] \/ MissedWakeup(x))
            BY <2>1, <2>2
        <3> QED
            BY <3>1, <3>2
    <2>3. CASE x # n
        BY <2>1, <2>3
    <2> QED
        BY <2>2, <2>3
<1>18. ASSUME NEW r \in Req, WorkerWaits(r) PROVE CheckedBefore(x) \/ CheckedNow(x)
    BY <1>18 DEF WorkerWaits, LeaveCritical
<1>19. ASSUME NEW n \in Req, RemoverWaits(n) PROVE CheckedBefore(x) \/ CheckedNow(x)
    BY <1>19 DEF RemoverWaits, LeaveCritical
<1>20. ASSUME NEW a \in Mover, NEW n \in Req, InHand(a, n), Withdraw(a)
      PROVE  CheckedBefore(x) \/ CheckedNow(x)
    BY <1>20 DEF Withdraw, LeaveAndQuiesce, Goto, InHand
<1>21. ASSUME NEW a \in Mover, NEW n \in Req, InHand(a, n), Withdrawn(a)
      PROVE  CheckedBefore(x) \/ CheckedNow(x)
    BY <1>21 DEF Withdrawn, WaitFails, Goto, Deliver, InHand
<1>22. ASSUME NEW a \in Mover, IncSeq(a) PROVE CheckedBefore(x) \/ CheckedNow(x)
    BY <1>22 DEF IncSeq, Bump, SameBucket, Goto
<1>23. ASSUME NEW a \in Mover, FoundNobody(a) PROVE CheckedBefore(x) \/ CheckedNow(x)
    BY <1>23 DEF FoundNobody, Queued, NoWaiter, Return, Goto
<1>24. ASSUME NEW a \in Mover, NEW n \in Req, FoundWaiter(a, n)
      PROVE  CheckedBefore(x) \/ CheckedNow(x)
    BY <1>24 DEF FoundWaiter, Queued, EnterCritical
<1>25. ASSUME NEW a \in Mover, NEW n \in Req, Taken(a, n) PROVE CheckedBefore(x) \/ CheckedNow(x)
    BY <1>25 DEF Taken, LeaveAndQuiesce
<1>26. ASSUME NEW a \in Mover, NEW n \in Req, NEW m \in Req, TriesNext(a, n, m)
      PROVE  CheckedBefore(x) \/ CheckedNow(x)
    BY <1>26 DEF TriesNext, Queued
<1>27. ASSUME NEW a \in Mover, NEW n \in Req, TriedAll(a, n)
      PROVE  CheckedBefore(x) \/ CheckedNow(x)
    BY <1>27 DEF TriedAll, Queued, LeaveCritical, NoWaiter, Return, Goto
<1>28. ASSUME NEW a \in Mover, Quiescent(a) PROVE CheckedBefore(x) \/ CheckedNow(x)
    BY <1>28 DEF Quiescent, Goto
<1>29. ASSUME NEW r \in Req, NEW n \in Req, RepostedOfRow(r, n)
      PROVE  CheckedBefore(x) \/ CheckedNow(x)
    BY <1>29 DEF RepostedOfRow, RepostBase, Return, Goto
<1>30. ASSUME NEW r \in Req, NEW n \in Req, RepostedOfTx(r, n)
      PROVE  CheckedBefore(x) \/ CheckedNow(x)
    BY <1>30 DEF RepostedOfTx, RepostBase, Goto
<1>31. ASSUME NEW n \in Req, InHand(Remover, n), ChangeHash
      PROVE  CheckedBefore(x) \/ CheckedNow(x)
    <2>1. n # x
        <3>1. n \in got[Remover] /\ x \in waiting
            BY <1>31 DEF ChangeHash, InHand
        <3> HIDE DEF TypeOK, StepInv, PointerInv, RemoverInv, Checked
        <3> QED
            BY <3>1
    <2> QED
        BY <1>31, <2>1 DEF ChangeHash, Goto, InHand
<1>32. ASSUME TouchNode PROVE CheckedBefore(x) \/ CheckedNow(x)
    BY <1>32 DEF TouchNode, Goto
<1>33. ASSUME NEW k \in Row, RemoveCallback(k) PROVE CheckedBefore(x) \/ CheckedNow(x)
    BY <1>33 DEF RemoveCallback, Wakeup, Goto
<1>34. ASSUME BeginCheck PROVE CheckedBefore(x) \/ CheckedNow(x)
    BY <1>34 DEF BeginCheck, EnterCritical
<1>35. ASSUME NEW n \in Req, MarkNode(n) PROVE CheckedBefore(x) \/ CheckedNow(x)
    BY <1>35 DEF MarkNode, PoppedHold
<1>36. ASSUME NEW n \in Req, Retired(n) PROVE CheckedBefore(x) \/ CheckedNow(x)
    BY <1>36 DEF Retired
<1>37. ASSUME RetiredLate PROVE CheckedBefore(x) \/ CheckedNow(x)
    BY <1>37 DEF RetiredLate
<1>38. ASSUME EndCheck PROVE CheckedBefore(x) \/ CheckedNow(x)
    BY <1>38 DEF EndCheck, MustPop, LeaveAndQuiesce
<1>39. ASSUME NEW n \in Req, RepostedOne(n) PROVE CheckedBefore(x) \/ CheckedNow(x)
    BY <1>39 DEF RepostedOne
<1>40. ASSUME RepostedAll PROVE CheckedBefore(x) \/ CheckedNow(x)
    BY <1>40 DEF RepostedAll
<1>41. ASSUME CheckerExits PROVE CheckedBefore(x) \/ CheckedNow(x)
    BY <1>41 DEF CheckerExits
<1>42. ASSUME Stop PROVE CheckedBefore(x) \/ CheckedNow(x)
    BY <1>42 DEF Stop
<1>43. ASSUME UNCHANGED vars PROVE CheckedBefore(x) \/ CheckedNow(x)
    BY <1>43
<1> QED
    BY <1>1, <1>2, <1>3, <1>4, <1>5, <1>6, <1>7, <1>8, <1>9, <1>10, <1>11, <1>12, <1>13, <1>14,
           <1>15, <1>16, <1>17, <1>18, <1>19, <1>20, <1>21, <1>22, <1>23, <1>24, <1>25, <1>26,
           <1>27, <1>28, <1>29, <1>30, <1>31, <1>32, <1>33, <1>34, <1>35, <1>36, <1>37, <1>38,
           <1>39, <1>40, <1>41, <1>42, <1>43 DEF Move

(* A thread that is looking for a waiter goes on or passes the wake-up on. *)
LEMMA FindsStays ==
    ASSUME TypeOK, StepInv, PointerInv, RemoverInv, OwnerInv, CountInv,
           NEW x \in Req, x \in waiting, x \in waiting', hash'[x] = hash[x], NEW b \in Mover,
           Finds(b, x), Move
    PROVE  Finds(b, x)' \/ BumpComes(hash[x])'
<1> USE ActorFacts DEF TypeOK, StepInv, PointerInv, RemoverInv, Finds, BumpComes, Mover, vars,
           rowVars, stmtVars, nodeVars, syncVars, mgrVars, subVars
<1>1. ASSUME NEW r \in Req, Start(r) PROVE Finds(b, x)' \/ BumpComes(hash[x])'
    BY <1>1 DEF Start
<1>2. ASSUME NEW r \in Req, GiveUp(r) PROVE Finds(b, x)' \/ BumpComes(hash[x])'
    BY <1>2 DEF GiveUp
<1>3. ASSUME NEW r \in Req, ReadSeq(r) PROVE Finds(b, x)' \/ BumpComes(hash[x])'
    BY <1>3 DEF ReadSeq
<1>4. ASSUME NEW r \in Req, Recheck(r) PROVE Finds(b, x)' \/ BumpComes(hash[x])'
    BY <1>4 DEF Recheck, StillLocked, WaitOnRow, Locked
<1>5. ASSUME NEW r \in Req, PassOn(r) PROVE Finds(b, x)' \/ BumpComes(hash[x])'
    BY <1>5 DEF PassOn, Wakeup, Goto
<1>6. ASSUME NEW r \in Req, StartWait(r) PROVE Finds(b, x)' \/ BumpComes(hash[x])'
    BY <1>6 DEF StartWait, Goto
<1>7. ASSUME NEW r \in Req, Retry(r) PROVE Finds(b, x)' \/ BumpComes(hash[x])'
    BY <1>7 DEF Retry, Deliver
<1>8. ASSUME NEW r \in Req, Decide(r) PROVE Finds(b, x)' \/ BumpComes(hash[x])'
    BY <1>8 DEF Decide, Processed, CtxFree
<1>9. ASSUME NEW r \in Req, EndTx(r) PROVE Finds(b, x)' \/ BumpComes(hash[x])'
    BY <1>9 DEF EndTx, OwnRows, Wakeup, Goto
<1>10. ASSUME NEW r \in Req, NEW k \in Row, LockRow(r, k)
      PROVE  Finds(b, x)' \/ BumpComes(hash[x])'
    BY <1>10 DEF LockRow, Locked
<1>11. ASSUME NEW r \in Req, NEW k \in Row, Conflict(r, k)
      PROVE  Finds(b, x)' \/ BumpComes(hash[x])'
    BY <1>11 DEF Conflict, Locked
<1>12. ASSUME NEW r \in Req, NEW k \in Row, Rollback(r, k)
      PROVE  Finds(b, x)' \/ BumpComes(hash[x])'
    BY <1>12 DEF Rollback, Processed, CtxFree, Release, OwnRows, Wakeup, Goto
<1>13. ASSUME NEW r \in Req, NEW k \in Row, EndRow(r, k) PROVE Finds(b, x)' \/ BumpComes(hash[x])'
    BY <1>13 DEF EndRow, Release, OwnRows, Wakeup, Goto
<1>14. ASSUME NEW a \in Mover, NEW n \in Req, InHand(a, n), RefuseWait(a)
      PROVE  Finds(b, x)' \/ BumpComes(hash[x])'
    BY <1>14 DEF RefuseWait, WaitFails, Goto, Deliver, InHand
<1>15. ASSUME NEW a \in Mover, NEW n \in Req, InHand(a, n), EnterWait(a)
      PROVE  Finds(b, x)' \/ BumpComes(hash[x])'
    BY <1>15 DEF EnterWait, EnterCritical, Goto, InHand
<1>16. ASSUME NEW a \in Mover, NEW n \in Req, InHand(a, n), Insert(a)
      PROVE  Finds(b, x)' \/ BumpComes(hash[x])'
    BY <1>16 DEF Insert, Goto, InHand
<1>17. ASSUME NEW a \in Mover, NEW n \in Req, InHand(a, n), DoubleCheck(a)
      PROVE  Finds(b, x)' \/ BumpComes(hash[x])'
    BY <1>17 DEF DoubleCheck, Goto, InHand
<1>18. ASSUME NEW r \in Req, WorkerWaits(r) PROVE Finds(b, x)' \/ BumpComes(hash[x])'
    BY <1>18 DEF WorkerWaits, LeaveCritical
<1>19. ASSUME NEW n \in Req, RemoverWaits(n) PROVE Finds(b, x)' \/ BumpComes(hash[x])'
    BY <1>19 DEF RemoverWaits, LeaveCritical
<1>20. ASSUME NEW a \in Mover, NEW n \in Req, InHand(a, n), Withdraw(a)
      PROVE  Finds(b, x)' \/ BumpComes(hash[x])'
    BY <1>20 DEF Withdraw, LeaveAndQuiesce, Goto, InHand
<1>21. ASSUME NEW a \in Mover, NEW n \in Req, InHand(a, n), Withdrawn(a)
      PROVE  Finds(b, x)' \/ BumpComes(hash[x])'
    BY <1>21 DEF Withdrawn, WaitFails, Goto, Deliver, InHand
<1>22. ASSUME NEW a \in Mover, IncSeq(a) PROVE Finds(b, x)' \/ BumpComes(hash[x])'
    BY <1>22 DEF IncSeq, Bump, SameBucket, Goto
<1>23. ASSUME NEW a \in Mover, FoundNobody(a) PROVE Finds(b, x)' \/ BumpComes(hash[x])'
    <2>1. x \in Queued(key[b]) /\ total_wait_node # 0
        BY CountPositive DEF Queued
    <2>2. a # b
        BY <1>23, <2>1 DEF FoundNobody
    <2> QED
        BY <1>23, <2>2 DEF FoundNobody, NoWaiter, Return, Goto
<1>24. ASSUME NEW a \in Mover, NEW n \in Req, FoundWaiter(a, n)
      PROVE  Finds(b, x)' \/ BumpComes(hash[x])'
    BY <1>24 DEF FoundWaiter, Queued, EnterCritical
<1>25. ASSUME NEW a \in Mover, NEW n \in Req, Taken(a, n)
      PROVE  Finds(b, x)' \/ BumpComes(hash[x])'
    BY <1>25 DEF Taken, LeaveAndQuiesce
<1>26. ASSUME NEW a \in Mover, NEW n \in Req, NEW m \in Req, TriesNext(a, n, m)
      PROVE  Finds(b, x)' \/ BumpComes(hash[x])'
    <2>1. CASE a # b
        BY <1>26, <2>1 DEF TriesNext
    <2>2. CASE a = b
        <3>1. n <= x /\ n # x /\ x \in Queued(key[b])
            BY <1>26, <2>2 DEF TriesNext, Queued
        <3>2. m <= x
            BY <1>26, <2>2, <3>1 DEF TriesNext
        <3> QED
            BY <1>26, <2>2, <3>2 DEF TriesNext
    <2> QED
        BY <2>1, <2>2
<1>27. ASSUME NEW a \in Mover, NEW n \in Req, TriedAll(a, n)
      PROVE  Finds(b, x)' \/ BumpComes(hash[x])'
    <2>1. a # b
        <3> SUFFICES ASSUME a = b PROVE FALSE
            OBVIOUS
        <3>1. n <= x /\ n # x /\ x \in Queued(key[b])
            BY <1>27 DEF TriedAll, Queued
        <3> QED
            BY <1>27, <3>1 DEF TriedAll
    <2> QED
        BY <1>27, <2>1 DEF TriedAll, NoWaiter, Return, Goto
<1>28. ASSUME NEW a \in Mover, Quiescent(a) PROVE Finds(b, x)' \/ BumpComes(hash[x])'
    BY <1>28 DEF Quiescent, Goto
<1>29. ASSUME NEW r \in Req, NEW n \in Req, RepostedOfRow(r, n)
      PROVE  Finds(b, x)' \/ BumpComes(hash[x])'
    BY <1>29 DEF RepostedOfRow, RepostBase, Return, Goto
<1>30. ASSUME NEW r \in Req, NEW n \in Req, RepostedOfTx(r, n)
      PROVE  Finds(b, x)' \/ BumpComes(hash[x])'
    BY <1>30 DEF RepostedOfTx, RepostBase, Goto
<1>31. ASSUME NEW n \in Req, InHand(Remover, n), ChangeHash
      PROVE  Finds(b, x)' \/ BumpComes(hash[x])'
    BY <1>31 DEF ChangeHash, Goto, InHand
<1>32. ASSUME TouchNode PROVE Finds(b, x)' \/ BumpComes(hash[x])'
    BY <1>32 DEF TouchNode, Goto
<1>33. ASSUME NEW k \in Row, RemoveCallback(k) PROVE Finds(b, x)' \/ BumpComes(hash[x])'
    BY <1>33 DEF RemoveCallback, Wakeup, Goto
<1>34. ASSUME BeginCheck PROVE Finds(b, x)' \/ BumpComes(hash[x])'
    BY <1>34 DEF BeginCheck, EnterCritical
<1>35. ASSUME NEW n \in Req, MarkNode(n) PROVE Finds(b, x)' \/ BumpComes(hash[x])'
    BY <1>35 DEF MarkNode, PoppedHold
<1>36. ASSUME NEW n \in Req, Retired(n) PROVE Finds(b, x)' \/ BumpComes(hash[x])'
    BY <1>36 DEF Retired
<1>37. ASSUME RetiredLate PROVE Finds(b, x)' \/ BumpComes(hash[x])'
    BY <1>37 DEF RetiredLate
<1>38. ASSUME EndCheck PROVE Finds(b, x)' \/ BumpComes(hash[x])'
    BY <1>38 DEF EndCheck, MustPop, LeaveAndQuiesce
<1>39. ASSUME NEW n \in Req, RepostedOne(n) PROVE Finds(b, x)' \/ BumpComes(hash[x])'
    BY <1>39 DEF RepostedOne
<1>40. ASSUME RepostedAll PROVE Finds(b, x)' \/ BumpComes(hash[x])'
    BY <1>40 DEF RepostedAll
<1>41. ASSUME CheckerExits PROVE Finds(b, x)' \/ BumpComes(hash[x])'
    BY <1>41 DEF CheckerExits
<1>42. ASSUME Stop PROVE Finds(b, x)' \/ BumpComes(hash[x])'
    BY <1>42 DEF Stop
<1>43. ASSUME UNCHANGED vars PROVE Finds(b, x)' \/ BumpComes(hash[x])'
    BY <1>43
<1> QED
    BY <1>1, <1>2, <1>3, <1>4, <1>5, <1>6, <1>7, <1>8, <1>9, <1>10, <1>11, <1>12, <1>13, <1>14,
           <1>15, <1>16, <1>17, <1>18, <1>19, <1>20, <1>21, <1>22, <1>23, <1>24, <1>25, <1>26,
           <1>27, <1>28, <1>29, <1>30, <1>31, <1>32, <1>33, <1>34, <1>35, <1>36, <1>37, <1>38,
           <1>39, <1>40, <1>41, <1>42, <1>43 DEF Move

(* The parts together: a wake-up that was to come still is, or comes now.  *)
LEMMA FreshStep ==
    ASSUME IInv, Move
    PROVE  FreshInv'
<1> SUFFICES ASSUME NEW x \in Req, pc'[x] \in {"retry", "wait"}, hash'[x] \in fresh'[x]
             PROVE  Safe(hash[x])'
    BY DEF FreshInv
<1>1. PICK h \in Hash : h = hash'[x]
    <2>1. TypeOK'
        BY TypeStep DEF IInv
    <2> QED
        BY <2>1, ActorFacts DEF TypeOK
<1>2. FreshBefore(x) \/ Safe(h)'
    BY <1>1, FreshSource DEF IInv
<1>3. CASE FreshBefore(x)
    <2>1. h = hash[x] /\ Safe(h)
        BY <1>1, <1>3 DEF FreshBefore, IInv, FreshInv
    <2>2. ASSUME NEW a \in Mover, IncSeq(a), key[a] = h PROVE FALSE
        BY <1>1, <2>1, <2>2, ActorFacts DEF IncSeq, Bump, SameBucket
    <2>3. Safe(h)'
        BY <1>1, <2>1, <2>2, SafeStays DEF IInv
    <2> QED
        BY <1>1, <2>3
<1> QED
    BY <1>1, <1>2, <1>3

(* A checked node has its wake-up, too.                                    *)
LEMMA CheckedStep ==
    ASSUME IInv, Move
    PROVE  CheckedInv'
<1> SUFFICES ASSUME NEW x \in Req, Checked(x)', ~standalone'[x]
             PROVE  Safe(hash[x])' \/ \E a \in Mover : Finds(a, x)'
    BY DEF CheckedInv, Mover
<1> DEFINE h == hash[x]
<1>1. CheckedBefore(x) \/ CheckedNow(x)
    BY CheckedSource DEF IInv
<1>2. x \in waiting /\ x \in waiting' /\ hash'[x] = h /\ pc[x] = "wait" /\ h \in Hash
    BY <1>1 DEF CheckedBefore, CheckedNow, Checked, IInv, OwnerInv, NodeHasOneOwner, HashInv
<1>3. CASE Safe(h)
    <2>1. ASSUME NEW a \in Mover, IncSeq(a), key[a] = h PROVE Finds(a, x)'
        BY <1>2, <2>1, ActorFacts DEF IncSeq, Goto, Finds, IInv, TypeOK, nodeVars
    <2>2. CASE ~\E a \in Mover : IncSeq(a) /\ key[a] = h
        <3>1. Safe(h)'
            BY <1>2, <1>3, <2>2, SafeStays DEF IInv
        <3> QED
            BY <1>2, <3>1
    <2> QED
        BY <2>1, <2>2
<1>4. ASSUME NEW b \in Mover, Finds(b, x) PROVE Safe(hash[x])' \/ Finds(b, x)'
    BY <1>2, <1>4, FindsStays DEF IInv, Safe
<1>5. CASE CheckedBefore(x)
    BY <1>3, <1>4, <1>5 DEF CheckedBefore, IInv, CheckedInv, Mover
<1>6. CASE CheckedNow(x)
    <2>1. h \in fresh[x]
        BY <1>6 DEF CheckedNow, MissedWakeup
    <2>2. Safe(h)
        BY <1>2, <2>1 DEF IInv, FreshInv
    <2> QED
        BY <1>3, <2>2
<1> QED
    BY <1>1, <1>5, <1>6

-------------------------------------------------------------------------------
(* The theorems                                                            *)

(* No request waits and no thread is in the manager at the start.          *)
LEMMA InitIInv ==
    ASSUME Init
    PROVE  IInv
<1> USE ActorFacts DEF Init
<1>1. TypeOK /\ StepInv /\ PointerInv /\ RemoverInv
    BY DEF TypeOK, Place, StepInv, PointerInv, RemoverInv
<1>2. OwnerInv /\ KnownInv /\ StopInv /\ RowInv /\ VisitInv /\ HashInv
    BY DEF OwnerInv, NodeHasOneOwner, KnownInv, StopInv, RowInv, VisitInv, Visits, HashInv
<1>3. CountInv
    <2>1. OnTheWay = {}
        BY DEF OnTheWay
    <2> QED
        BY <2>1, FS_EmptySet DEF CountInv
<1>4. FreshInv /\ CheckedInv
    BY DEF FreshInv, CheckedInv, Checked
<1> QED
    BY <1>1, <1>2, <1>3, <1>4 DEF IInv

(* Every step keeps it.                                                    *)
LEMMA NextIInv ==
    ASSUME IInv, [Next]_vars
    PROVE  IInv'
<1>1. Move
    BY NextMoves DEF IInv
<1>2. TypeOK' /\ StepInv' /\ PointerInv' /\ RemoverInv'
    BY <1>1, TypeStep, StepStep, PointerStep, RemoverPointerStep DEF IInv
<1>3. OwnerInv' /\ KnownInv' /\ StopInv' /\ RowInv'
    BY <1>1, OwnerStep, KnownStep, StopStep, RowStep DEF IInv
<1>4. VisitInv' /\ HashInv'
    BY <1>1, VisitStep, HashStep DEF IInv
<1>5. CountInv'
    BY <1>1, CountMoves, CountStep DEF IInv
<1>6. FreshInv' /\ CheckedInv'
    BY <1>1, FreshStep, CheckedStep
<1> QED
    BY <1>2, <1>3, <1>4, <1>5, <1>6 DEF IInv

(* The inductive invariant of the lock wait manager.                       *)
THEOREM Inductive == Spec => []IInv
<1>1. Init => IInv
    BY InitIInv
<1>2. IInv /\ [Next]_vars => IInv'
    BY NextIInv
<1> QED
    BY <1>1, <1>2, PTL DEF Spec

(* Every variable of the manager has its type.                             *)
THEOREM TypeCorrect == Spec => []TypeOK
<1>1. IInv => TypeOK
    BY DEF IInv
<1> QED
    BY <1>1, Inductive, PTL

(* hash_.del succeeds for one thread only: however wakeup, check_timeout,  *)
(* transform_row_lock_to_tx_lock and the worker itself race for a node, it *)
(* has one owner.                                                          *)
THEOREM NodeHasOneOwnerAlways == Spec => []NodeHasOneOwner
<1>1. IInv => NodeHasOneOwner
    BY DEF IInv, OwnerInv
<1> QED
    BY <1>1, Inductive, PTL

(* total_wait_node_ counts what the hash holds or is about to, and nobody  *)
(* is on record with the deadlock detector that no longer waits.           *)
THEOREM WaitBooksSoundAlways == Spec => []WaitBooksSound
<1>1. IInv => WaitBooksSound
    BY DEF IInv, KnownInv, CountInv, OnTheWay, WaitBooksSound
<1> QED
    BY <1>1, Inductive, PTL

(* When run1 has ended, the only nodes in the hash are those whose worker  *)
(* (or the remover) is about to see the stop in wait.                      *)
THEOREM NobodyLeftAtStopAlways == Spec => []NobodyLeftAtStop
<1>1. IInv => NobodyLeftAtStop
    <2> SUFFICES ASSUME IInv, pc[Checker] = "exited", NEW n \in waiting
                 PROVE  \E a \in Req \union {Remover} :
                           step[a] \in {"double_check", "check_stop"} /\ Arg(a) = n
        BY DEF NobodyLeftAtStop
    <2>1. PICK a \in Mover : step[a] \in {"double_check", "check_stop"} /\ n \in ref[a]
        BY DEF IInv, StopInv, Mover
    <2>2. PICK m \in Req : InHand(a, m)
        BY <2>1, NodeInHand DEF IInv, WaitSteps
    <2>3. ref[a] = {m}
        BY <2>1, <2>2, ActorFacts DEF InHand, IInv, PointerInv
    <2> QED
        BY <2>1, <2>2, <2>3 DEF InHand, Mover
<1> QED
    BY <1>1, Inductive, PTL

(* A wake-up is lost only for a request that waits for a transaction which *)
(* no longer holds its row: everyone else in the hash who is not a         *)
(* standalone task is going to be woken up.                                *)
THEOREM OnlyStaleHolderLostAlways == Spec => []OnlyStaleHolderLost
<1>1. IInv => OnlyStaleHolderLost
    <2> SUFFICES ASSUME IInv, NEW n \in Req, Settled(n), ~standalone[n]
                 PROVE  \/ WakeupComes(hash[n])
                        \/ hash[n] \in Req /\ \A k \in Row : owner[k] # hash[n]
        BY DEF OnlyStaleHolderLost
    <2>1. Checked(n)
        <3> SUFFICES ASSUME NEW a \in Mover, step[a] = "double_check", n \in ref[a]
                     PROVE  FALSE
            BY DEF Checked, Settled, Mover
        <3>1. PICK m \in Req : InHand(a, m)
            BY NodeInHand DEF IInv, WaitSteps
        <3>2. ref[a] = {m}
            BY <3>1, ActorFacts DEF InHand, IInv, PointerInv
        <3> QED
            BY <3>1, <3>2 DEF InHand, Settled, Mover
    <2>2. Safe(hash[n]) \/ \E a \in Mover : Finds(a, n)
        BY <2>1 DEF IInv, CheckedInv, Mover
    <2>3. ASSUME NEW a \in Mover, Finds(a, n) PROVE WakeupComes(hash[n])
        BY <2>3 DEF Finds, WakeupComes, Mover
    <2>4. ASSUME BumpComes(hash[n]) PROVE WakeupComes(hash[n])
        <3>1. \A r \in Req : pc[r] = "queue" \/ r \in got[Checker] => r \notin waiting
            BY ActorFacts DEF IInv, OwnerInv, NodeHasOneOwner
        <3> QED
            BY <2>4, <3>1 DEF BumpComes, WakeupComes
    <2> QED
        BY <2>2, <2>3, <2>4 DEF Safe, StaleHolder
<1> QED
    BY <1>1, Inductive, PTL

(* Once a request is back with a worker, the only thread that may still    *)
(* have a pointer to its node is the remover, after its call of wait has   *)
(* left the critical section: WaitQuiescent has seen everyone else leave.  *)
OnlyTouchVisits ==
    \A n \in Req : pc[n] # "wait" =>
        \A a \in Actor : n \in ref[a] => a = Remover /\ step[a] = "touch"

(* Quiescence protects every node but from try_lock_times_ of transform.   *)
THEOREM OnlyTouchVisitsAlways == Spec => []OnlyTouchVisits
<1>1. IInv => OnlyTouchVisits
    BY DEF IInv, VisitInv, Visits, OnlyTouchVisits
<1> QED
    BY <1>1, Inductive, PTL

===============================================================================
