-------------------------- MODULE FixedSlidingWindow --------------------------
(***************************************************************************)
(* FixedSlidingWindow: the ring of slots that keeps the log tasks of a     *)
(* PALF replica.  Log id g lives in slot g & (size_ - 1) while g is in     *)
(* [begin_sn_, end_sn_).  get pins a slot with a reference count and no    *)
(* lock; slide moves begin_sn_ over the first log; the slot of a log that  *)
(* has slid out is reset and given to a new id (end_sn_ moves) by whoever  *)
(* drops the last reference, revert or slide, under the lock of the slot.  *)
(*                                                                         *)
(* Every atomic access that another thread can see is a step of its own.   *)
(***************************************************************************)
EXTENDS Integers, FiniteSets

CONSTANTS
    Thread,
    Size,        \* size_, a power of two
    FirstId,     \* start_id of init
    MaxId,       \* bound: the last id that is ever filled
    NoOne

ASSUME WindowAssumption ==
    /\ IsFiniteSet(Thread) /\ NoOne \notin Thread
    /\ Size \in Nat /\ Size > 1 /\ FirstId \in Nat /\ MaxId \in Nat /\ FirstId <= MaxId

NoId == -1
Empty == -2      \* the content of a slot after reset()

Ids == FirstId .. MaxId + Size
Slot == 0 .. Size - 1

VARIABLES
    begin_sn, end_sn,
    ref,          \* ref_ of a slot
    slot_lock,    \* slot_lock_ of a slot
    data,         \* the log a slot holds
    pc,           \* where a thread is
    held,         \* the id a thread has got and not reverted
    local,        \* <<tmp_id, tmp_end>> of revert_, <<curr_begin, curr_end>> of slide,
                  \* <<i, end_tid>> of range_truncate_
    rd,           \* threads that hold lock_ for reading
    wr,           \* the thread that holds lock_ for writing
    unexpected,   \* a branch that reports "must be bug" was taken
    turned       \* history: revert_ has reclaimed with an id over a turn old

slotVars == <<ref, slot_lock, data>>
vars == <<begin_sn, end_sn, slotVars, pc, held, local, rd, wr, unexpected, turned>>

calc_idx(g) == g % Size

InRange(g) == begin_sn <= g /\ g < end_sn      \* check_id_in_range_

NoLocal == <<0, 0>>

Goto(t, l) == pc' = [pc EXCEPT ![t] = l]
Let(t, a, b) == local' = [local EXCEPT ![t] = <<a, b>>]
Lock(t, i) == slot_lock[i] = NoOne /\ slot_lock' = [slot_lock EXCEPT ![i] = t]
Unlock(I) == slot_lock' = [i \in Slot |-> IF i \in I THEN NoOne ELSE slot_lock[i]]
Reset(i) == data' = [data EXCEPT ![i] = Empty]

(* A thread that leaves an operation keeps what it held before it.         *)
Return(t) == Goto(t, IF held[t] = NoId THEN "idle" ELSE "hold")

Init ==
    /\ begin_sn = FirstId /\ end_sn = FirstId + Size
    /\ ref = [i \in Slot |-> 0]
    /\ slot_lock = [i \in Slot |-> NoOne]
    /\ data = [i \in Slot |-> Empty]
    /\ pc = [t \in Thread |-> "idle"]
    /\ held = [t \in Thread |-> NoId]
    /\ local = [t \in Thread |-> NoLocal]
    /\ rd = {} /\ wr = NoOne
    /\ unexpected = FALSE /\ turned = FALSE

-------------------------------------------------------------------------------
(* get                                                                     *)

(* rdlock and the first range check; a failed check has no effect.         *)
GetCheck(t, g) ==
    /\ pc[t] = "idle" /\ wr = NoOne
    /\ InRange(g)
    /\ held' = [held EXCEPT ![t] = g]
    /\ rd' = rd \union {t}
    /\ Goto(t, "get_inc")
    /\ UNCHANGED <<begin_sn, end_sn, slotVars, local, wr, unexpected, turned>>

GetInc(t) ==
    /\ pc[t] = "get_inc"
    /\ ref' = [ref EXCEPT ![calc_idx(held[t])] = @ + 1]
    /\ Goto(t, "get_check")
    /\ UNCHANGED <<begin_sn, end_sn, slot_lock, data, held, local, rd, wr, unexpected, turned>>

(* Mutant: no double check after the reference is counted.                 *)
GetUnchecked(t) ==
    /\ pc[t] = "get_check"
    /\ rd' = rd \ {t}
    /\ Goto(t, "hold")
    /\ UNCHANGED <<begin_sn, end_sn, slotVars, held, local, wr, unexpected, turned>>

(* The double check.                                                       *)
GetDone(t) ==
    /\ pc[t] = "get_check" /\ InRange(held[t])
    /\ rd' = rd \ {t}
    /\ Goto(t, "hold")
    /\ UNCHANGED <<begin_sn, end_sn, slotVars, held, local, wr, unexpected, turned>>

GetLate(t) ==
    /\ pc[t] = "get_check" /\ ~InRange(held[t])
    /\ Goto(t, "revert")
    /\ UNCHANGED <<begin_sn, end_sn, slotVars, held, local, rd, wr, unexpected, turned>>

(* The holder writes its log into the slot, under the lock of the data.    *)
Fill(t) ==
    /\ pc[t] = "hold" /\ held[t] <= MaxId
    /\ data[calc_idx(held[t])] = Empty
    /\ data' = [data EXCEPT ![calc_idx(held[t])] = held[t]]
    /\ UNCHANGED <<begin_sn, end_sn, ref, slot_lock, pc, held, local, rd, wr, unexpected, turned>>

-------------------------------------------------------------------------------
(* revert                                                                  *)

(* An id more than a window behind is refused: its reference stays.       *)
Revert(t) ==
    LET refused == held[t] < begin_sn - Size IN
    /\ pc[t] = "hold"
    /\ unexpected' = (unexpected \/ refused)
    /\ held' = IF refused THEN [held EXCEPT ![t] = NoId] ELSE held
    /\ Goto(t, IF refused THEN "idle" ELSE "revert")
    /\ UNCHANGED <<begin_sn, end_sn, slotVars, local, rd, wr, turned>>

(* The last reference goes on to reclaim the slot.                         *)
Unref(t) ==
    LET i == calc_idx(held[t]) IN
    /\ pc[t] = "revert"
    /\ unexpected' = (unexpected \/ held[t] >= end_sn \/ ref[i] < 1)
    /\ ref' = [ref EXCEPT ![i] = @ - 1]
    /\ held' = [held EXCEPT ![t] = NoId]
    /\ \/ /\ ref[i] # 1
          /\ Goto(t, "idle") /\ rd' = rd \ {t}
          /\ UNCHANGED local
       \/ /\ ref[i] = 1
          /\ Goto(t, "rev_end") /\ Let(t, held[t], 0)
          /\ UNCHANGED rd
    /\ UNCHANGED <<begin_sn, end_sn, slot_lock, data, wr, turned>>

RevertEnd(t) ==
    /\ pc[t] = "rev_end"
    /\ Let(t, local[t][1], end_sn)
    /\ Goto(t, "rev_loop")
    /\ UNCHANGED <<begin_sn, end_sn, slotVars, held, rd, wr, unexpected, turned>>

(* Mutant: a log that has not slid out is reclaimed.                       *)
ReclaimUnslid(t) == calc_idx(local[t][1]) = calc_idx(local[t][2])

CanReclaim(t) == calc_idx(local[t][1]) = calc_idx(local[t][2]) /\ local[t][1] < begin_sn

RevertExit(t) ==
    /\ Goto(t, "idle") /\ Let(t, 0, 0) /\ rd' = rd \ {t}

RevertStop(t) ==
    /\ pc[t] = "rev_loop" /\ ~CanReclaim(t)
    /\ RevertExit(t)
    /\ UNCHANGED <<begin_sn, end_sn, slotVars, held, wr, unexpected, turned>>

(* The loop condition is evaluated before the lock is waited for.          *)
RevertNext(t) ==
    /\ pc[t] = "rev_loop" /\ CanReclaim(t)
    /\ Goto(t, "rev_lock")
    /\ UNCHANGED <<begin_sn, end_sn, slotVars, held, local, rd, wr, unexpected, turned>>

RevertLock(t) ==
    /\ pc[t] = "rev_lock"
    /\ Lock(t, calc_idx(local[t][1]))
    /\ Goto(t, "rev_check")
    /\ UNCHANGED <<begin_sn, end_sn, ref, data, held, local, rd, wr, unexpected, turned>>

Unreferenced(t) == local[t][2] = end_sn /\ ref[calc_idx(local[t][1])] = 0

RevertLost(t) ==
    /\ pc[t] = "rev_check" /\ ~Unreferenced(t)
    /\ Unlock({calc_idx(local[t][1])})
    /\ RevertExit(t)
    /\ UNCHANGED <<begin_sn, end_sn, ref, data, held, wr, unexpected, turned>>

RevertReset(t) ==
    /\ pc[t] = "rev_check" /\ Unreferenced(t)
    /\ Reset(calc_idx(local[t][1]))
    /\ turned' = (turned \/ local[t][1] # end_sn - Size)
    /\ Goto(t, "rev_bump")
    /\ UNCHANGED <<begin_sn, end_sn, ref, slot_lock, held, local, rd, wr, unexpected>>

RevertBump(t) ==
    /\ pc[t] = "rev_bump"
    /\ unexpected' = (unexpected \/ end_sn # local[t][2])
    /\ end_sn' = IF end_sn = local[t][2] THEN end_sn + 1 ELSE end_sn
    /\ Unlock({calc_idx(local[t][1])})
    /\ Let(t, local[t][1] + 1, local[t][2] + 1)
    /\ Goto(t, "rev_loop")
    /\ UNCHANGED <<begin_sn, ref, data, held, rd, wr, turned>>

-------------------------------------------------------------------------------
(* slide                                                                   *)

(* The thread may hold the first log, as handle_committed_log_ does.       *)
SlideCall(t) ==
    /\ pc[t] \in {"idle", "hold"} /\ wr = NoOne
    /\ begin_sn <= MaxId
    /\ rd' = rd \union {t}
    /\ Goto(t, "slide")
    /\ UNCHANGED <<begin_sn, end_sn, slotVars, held, local, wr, unexpected, turned>>

SlideRead(t) ==
    /\ pc[t] = "slide"
    /\ Let(t, begin_sn, end_sn)
    /\ Goto(t, "sl_lock")
    /\ UNCHANGED <<begin_sn, end_sn, slotVars, held, rd, wr, unexpected, turned>>

SlideLock(t) ==
    /\ pc[t] = "sl_lock"
    /\ Lock(t, calc_idx(local[t][1]))
    /\ Goto(t, "sl_check")
    /\ UNCHANGED <<begin_sn, end_sn, ref, data, held, local, rd, wr, unexpected, turned>>

Moved(t) == local[t][2] <= local[t][1] \/ local[t][1] # begin_sn

SlideRetry(t) ==
    /\ pc[t] = "sl_check" /\ Moved(t)
    /\ Unlock({calc_idx(local[t][1])})
    /\ Goto(t, "slide") /\ Let(t, 0, 0)
    /\ UNCHANGED <<begin_sn, end_sn, ref, data, held, rd, wr, unexpected, turned>>

SlideExit(t) == Return(t) /\ Let(t, 0, 0) /\ rd' = rd \ {t}

(* can_be_slid() of the log is false, sliding_cb fails, or the time is up. *)
SlideStop(t) ==
    /\ pc[t] = "sl_check" /\ ~Moved(t)
    /\ Unlock({calc_idx(local[t][1])})
    /\ SlideExit(t)
    /\ UNCHANGED <<begin_sn, end_sn, ref, data, held, wr, unexpected, turned>>

SlideNext(t) ==
    /\ pc[t] = "sl_check" /\ ~Moved(t)
    /\ data[calc_idx(local[t][1])] = local[t][1]
    /\ Lock(t, calc_idx(local[t][1] + 1))
    /\ Goto(t, "sl_begin")
    /\ UNCHANGED <<begin_sn, end_sn, ref, data, held, local, rd, wr, unexpected, turned>>

SlideBegin(t) ==
    /\ pc[t] = "sl_begin"
    /\ unexpected' = (unexpected \/ begin_sn # local[t][1])
    /\ begin_sn' = IF begin_sn = local[t][1] THEN begin_sn + 1 ELSE begin_sn
    /\ Goto(t, "sl_end")
    /\ UNCHANGED <<end_sn, slotVars, held, local, rd, wr, turned>>

(* Mutant: slide goes on with the end_sn_ it read before it moved begin_sn_. *)
SlideEndStale(t) ==
    /\ pc[t] = "sl_end"
    /\ Goto(t, "sl_ref")
    /\ UNCHANGED <<begin_sn, end_sn, slotVars, held, local, rd, wr, unexpected, turned>>

SlideEnd(t) ==
    /\ pc[t] = "sl_end"
    /\ Let(t, local[t][1], end_sn)
    /\ Goto(t, "sl_ref")
    /\ UNCHANGED <<begin_sn, end_sn, slotVars, held, rd, wr, unexpected, turned>>

(* Mutant: the lock of the next slot is not released.                      *)
SlideUnlockOne(t) == Unlock({calc_idx(local[t][1])})

SlideUnlock(t) == Unlock({calc_idx(local[t][1]), calc_idx(local[t][1] + 1)})

(* The slot is still pinned, or an older slot has to be reclaimed first.   *)
SlideKeep(t) ==
    /\ pc[t] = "sl_ref"
    /\ ref[calc_idx(local[t][1])] # 0 \/ calc_idx(local[t][2]) # calc_idx(local[t][1])
    /\ SlideUnlock(t)
    /\ Goto(t, "slide") /\ Let(t, 0, 0)
    /\ UNCHANGED <<begin_sn, end_sn, ref, data, held, rd, wr, unexpected, turned>>

SlideReset(t) ==
    /\ pc[t] = "sl_ref"
    /\ ref[calc_idx(local[t][1])] = 0 /\ calc_idx(local[t][2]) = calc_idx(local[t][1])
    /\ Reset(calc_idx(local[t][1]))
    /\ Goto(t, "sl_bump")
    /\ UNCHANGED <<begin_sn, end_sn, ref, slot_lock, held, local, rd, wr, unexpected, turned>>

SlideBump(t) ==
    /\ pc[t] = "sl_bump"
    /\ unexpected' = (unexpected \/ end_sn # local[t][2])
    /\ end_sn' = IF end_sn = local[t][2] THEN end_sn + 1 ELSE end_sn
    /\ SlideUnlock(t)
    /\ Goto(t, "slide") /\ Let(t, 0, 0)
    /\ UNCHANGED <<begin_sn, ref, data, held, rd, wr, turned>>

-------------------------------------------------------------------------------
(* truncate                                                                *)

(* WLockGuard and the range check; an id past the end has no effect.       *)
Truncate(t, g) ==
    /\ pc[t] = "idle" /\ rd = {} /\ wr = NoOne
    /\ InRange(g)
    /\ wr' = t
    /\ Let(t, g, end_sn) /\ Goto(t, "trunc")
    /\ UNCHANGED <<begin_sn, end_sn, slotVars, held, rd, unexpected, turned>>

(* range_truncate_ waits for the references of each slot in turn.          *)
TruncateSlot(t) ==
    /\ pc[t] = "trunc" /\ local[t][1] < local[t][2]
    /\ ref[calc_idx(local[t][1])] = 0
    /\ Reset(calc_idx(local[t][1]))
    /\ Let(t, local[t][1] + 1, local[t][2])
    /\ UNCHANGED <<begin_sn, end_sn, ref, slot_lock, pc, held, rd, wr, unexpected, turned>>

TruncateDone(t) ==
    /\ pc[t] = "trunc" /\ local[t][1] = local[t][2]
    /\ wr' = NoOne
    /\ Goto(t, "idle") /\ Let(t, 0, 0)
    /\ UNCHANGED <<begin_sn, end_sn, slotVars, held, rd, unexpected, turned>>

(* truncate_and_reset_begin_sn.  The caller holds the write lock of the    *)
(* palf handle, so that nobody is in the window and no slot is pinned.     *)
ForwardTruncate(t, g) ==
    /\ \A u \in Thread : pc[u] = "idle"
    /\ begin_sn <= g /\ calc_idx(begin_sn) = calc_idx(end_sn)
    /\ data' = [i \in Slot |->
           IF \E x \in begin_sn .. end_sn - 1 : x < g /\ calc_idx(x) = i THEN Empty ELSE data[i]]
    /\ begin_sn' = g /\ end_sn' = g + Size
    /\ UNCHANGED <<ref, slot_lock, pc, held, local, rd, wr, unexpected, turned>>

-------------------------------------------------------------------------------
(* The step a thread is in, once it has called an operation.               *)
Proceed(t) ==
    \/ GetInc(t) \/ GetDone(t) \/ GetLate(t)
    \/ Unref(t) \/ RevertEnd(t) \/ RevertStop(t) \/ RevertNext(t) \/ RevertLock(t)
    \/ RevertLost(t) \/ RevertReset(t) \/ RevertBump(t)
    \/ SlideRead(t) \/ SlideLock(t) \/ SlideRetry(t) \/ SlideStop(t) \/ SlideNext(t)
    \/ SlideBegin(t) \/ SlideEnd(t) \/ SlideKeep(t) \/ SlideReset(t) \/ SlideBump(t)
    \/ TruncateSlot(t) \/ TruncateDone(t)

Call(t) ==
    \/ \E g \in Ids : GetCheck(t, g) \/ Truncate(t, g)
    \/ \E g \in FirstId .. MaxId : ForwardTruncate(t, g)
    \/ SlideCall(t) \/ Fill(t)

Next == \E t \in Thread : Proceed(t) \/ Revert(t) \/ Call(t)

Spec == Init /\ [][Next]_vars

-------------------------------------------------------------------------------
(* Properties                                                              *)

Holds(t) == held[t] # NoId /\ pc[t] \notin {"get_inc", "get_check", "revert"}

(* The state of the window, its threads and its locks.                     *)
TypeOK ==
    /\ begin_sn \in Ids /\ end_sn \in Nat
    /\ ref \in [Slot -> 0 .. Cardinality(Thread)]
    /\ slot_lock \in [Slot -> Thread \union {NoOne}]
    /\ data \in [Slot -> FirstId .. MaxId \union {Empty}]
    /\ held \in [Thread -> Ids \union {NoId}]
    /\ rd \subseteq Thread /\ wr \in Thread \union {NoOne}
    /\ unexpected \in BOOLEAN /\ turned \in BOOLEAN

(* The slot that revert_ is about to give to a new id is the one of a log  *)
(* that has slid out, as the comment at its head says.                     *)
ReclaimedHasSlid == \A t \in Thread : pc[t] = "rev_bump" => end_sn - Size < begin_sn

(* The window never spans more ids than it has slots, so that no two of    *)
(* its logs share one.                                                     *)
FixedLength == begin_sn <= end_sn /\ end_sn <= begin_sn + Size

(* Whatever get, revert, slide and truncate do to each other, the window   *)
(* keeps its length and no branch that reports "must be bug" is taken,     *)
(* before a revert_ that a full turn of the ring overtook reclaims a slot. *)
WindowIntact == turned \/ (FixedLength /\ ~unexpected)

(* Before that, what get(i) returned is the slot of log i for as long as   *)
(* it is held: empty or filled with log i, never with another log, however *)
(* long a get stalls between its checks and a holder keeps its reference.  *)
HeldSlotIsOwn ==
    turned \/ \A t \in Thread : Holds(t) => data[calc_idx(held[t])] \in {Empty, held[t]}

(* Before that, whenever no operation is under way, all slots that can be  *)
(* reclaimed are: end_sn_ stops short of a whole window only at a slot     *)
(* that a thread still pins.  A slot that slide and revert both leave to   *)
(* the other would shorten the window for ever.                            *)
NoSlotLost ==
    turned \/ ((\A t \in Thread : pc[t] \in {"idle", "hold"}) =>
        \/ end_sn = begin_sn + Size
        \/ \E t \in Thread : held[t] = end_sn - Size)

(* Before that, the slot locks, taken in pairs by slide and one by one by  *)
(* revert, and the references truncate waits for, never block everyone.    *)
SomeoneMoves ==
    \/ turned
    \/ \A t \in Thread : pc[t] = "idle"
    \/ \E t \in Thread : ENABLED (Proceed(t) \/ Revert(t))

===============================================================================
