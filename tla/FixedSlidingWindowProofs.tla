----------------------- MODULE FixedSlidingWindowProofs -----------------------
(***************************************************************************)
(* What FixedSlidingWindow guarantees for every number of threads, every   *)
(* size of the ring and every window of ids, up to the first step in which *)
(* revert_ reclaims a slot with an id that is more than a turn old         *)
(* (turned).  The code lets that step happen, and nothing holds after it:  *)
(* two readings of end_sn_ that differ by a turn name the same slot.  Any  *)
(* other delay, of a get between its checks or of a revert that finds the  *)
(* slot taken care of, is harmless, and that is what is proved here.       *)
(***************************************************************************)
EXTENDS FixedSlidingWindow, FiniteSetTheorems, TLAPS

-------------------------------------------------------------------------------
(* The inductive invariant                                                 *)

RevSteps == {"rev_end", "rev_loop", "rev_lock", "rev_check", "rev_bump"}
Loop == RevSteps \ {"rev_end"}
TwoLocks == {"sl_begin", "sl_end", "sl_ref", "sl_bump"}
OneLock == {"rev_check", "rev_bump", "sl_check"} \union TwoLocks
GetSteps == {"get_inc", "get_check", "revert"}

(* The types, and no branch that reports "must be bug" was taken.          *)
SoundType == TypeOK /\ ~unexpected

(* A thread has an id in its hands in the steps of get and revert up to    *)
(* its decrement, and may have one while it slides.                        *)
ThreadInv ==
    /\ pc \in [Thread -> {"idle", "hold", "trunc", "slide", "sl_lock"} \union GetSteps
                             \union RevSteps \union OneLock]
    /\ local \in [Thread -> Nat \X Nat]
    /\ \A t \in Thread :
          /\ pc[t] \in {"idle", "trunc"} \union RevSteps => held[t] = NoId
          /\ pc[t] \in {"hold"} \union GetSteps => held[t] # NoId

(* A thread counts as a reference of the slot of its id, once it has       *)
(* incremented ref_.                                                       *)
Pins(t, i) == held[t] # NoId /\ pc[t] # "get_inc" /\ calc_idx(held[t]) = i

(* ref_ is the number of threads that pin the slot.                        *)
RefInv == \A i \in Slot : ref[i] = Cardinality({t \in Thread : Pins(t, i)})

(* The locks a thread holds.                                               *)
LockInv ==
    \A t \in Thread :
        /\ pc[t] \in OneLock => slot_lock[calc_idx(local[t][1])] = t
        /\ pc[t] \in TwoLocks => slot_lock[calc_idx(local[t][1] + 1)] = t

(* What a thread in revert_ knows of the window.  Its id may be any number *)
(* of turns old; when it has reset the slot, it was exactly one.           *)
RevertInv ==
    \A t \in Thread :
        /\ pc[t] \in GetSteps => held[t] < end_sn
        /\ pc[t] = "rev_end" => local[t][1] < end_sn
        /\ pc[t] \in Loop => local[t][1] < local[t][2] /\ local[t][2] <= end_sn
        /\ pc[t] \in {"rev_lock", "rev_check", "rev_bump"} =>
              /\ calc_idx(local[t][1]) = calc_idx(local[t][2])
              /\ local[t][1] < begin_sn
        /\ pc[t] = "rev_bump" => local[t][2] = end_sn /\ local[t][1] = end_sn - Size

(* What a thread in slide knows of the window: nobody else moves begin_sn_ *)
(* while it has both locks, and nobody moves end_sn_ over its slot.        *)
SlideInv ==
    \A t \in Thread :
        /\ pc[t] \in {"sl_lock", "sl_check"} => local[t][2] <= end_sn
        /\ pc[t] = "sl_begin" => /\ local[t][1] = begin_sn /\ begin_sn <= MaxId
                                 /\ local[t][1] < local[t][2] /\ local[t][2] <= end_sn
        /\ pc[t] \in {"sl_end", "sl_ref", "sl_bump"} => begin_sn = local[t][1] + 1
        /\ pc[t] \in {"sl_ref", "sl_bump"} =>
              /\ local[t][1] < local[t][2] /\ local[t][2] <= local[t][1] + 1 + Size
              /\ calc_idx(local[t][1]) = calc_idx(local[t][2]) => local[t][2] = end_sn
        /\ pc[t] = "sl_bump" => calc_idx(local[t][1]) = calc_idx(local[t][2])

(* The ids that are held are ids whose slots have not been reclaimed.      *)
HeldInv ==
    \A t \in Thread : Holds(t) => end_sn - Size <= held[t] /\ held[t] < end_sn

(* Between the reset of a slot and the step of end_sn_ that gives it away, *)
(* the slot is empty and nobody holds it.                                  *)
ResetInv ==
    \A t \in Thread : pc[t] \in {"rev_bump", "sl_bump"} =>
        /\ data[calc_idx(local[t][1])] = Empty
        /\ \A u \in Thread : Holds(u) => calc_idx(held[u]) # calc_idx(local[t][1])

(* The logs in the slots are logs that have not been reclaimed.            *)
DataInv ==
    \A i \in Slot : data[i] # Empty =>
        calc_idx(data[i]) = i /\ end_sn - Size <= data[i] /\ data[i] < end_sn

(* t is going to reclaim the slot that end_sn_ names.                      *)
Reclaims(t) ==
    /\ calc_idx(local[t][1]) = calc_idx(end_sn)
    /\ pc[t] \in {"rev_end", "sl_end"} \/ (pc[t] \in Loop \union {"sl_ref", "sl_bump"}
                                            /\ local[t][2] = end_sn)

(* A slot that has slid out and is not reclaimed is pinned, or somebody is *)
(* going to reclaim it.                                                    *)
ClaimInv ==
    end_sn < begin_sn + Size =>
        \E t \in Thread : Pins(t, calc_idx(end_sn)) \/ Reclaims(t)

(* The window and its bounds.                                              *)
RangeInv == begin_sn <= MaxId + 1 /\ FirstId + Size <= end_sn /\ FixedLength

(* The inductive invariant.                                                *)
IInv ==
    /\ SoundType /\ ThreadInv /\ RefInv /\ LockInv /\ RangeInv /\ RevertInv /\ SlideInv
    /\ HeldInv /\ ResetInv /\ DataInv /\ ClaimInv

-------------------------------------------------------------------------------
(* The slot of an id                                                       *)

(* calc_idx of an id is a slot.                                            *)
LEMMA IdxRange ==
    ASSUME NEW g \in Int
    PROVE  calc_idx(g) \in Slot
    BY WindowAssumption, Z3 DEF calc_idx, Slot

(* An id is made of a number of turns and a slot.                          *)
LEMMA Turns ==
    ASSUME NEW g \in Int
    PROVE  /\ g \div Size \in Int /\ g % Size \in Int
           /\ g = (Size * (g \div Size)) + (g % Size)
    BY WindowAssumption, Z3

(* The only multiple of s between 0 and 2 s.                               *)
LEMMA OneTurn ==
    ASSUME NEW s \in Nat, s > 1, NEW k \in Int, 0 < s * k, s * k < 2 * s
    PROVE  k = 1
<1>1. k > 0
    BY Z3
<1>2. k < 2
    BY Z3
<1> QED
    BY <1>1, <1>2

(* Two ids less than two turns apart that share a slot are one turn apart. *)
LEMMA IdxTurn ==
    ASSUME NEW a \in Int, NEW b \in Int, calc_idx(a) = calc_idx(b), a < b, b < a + 2 * Size
    PROVE  b = a + Size
<1> USE WindowAssumption
<1>1. b - a = Size * ((b \div Size) - (a \div Size))
    <2>1. a = (Size * (a \div Size)) + (a % Size) /\ a \div Size \in Int /\ a % Size \in Int
        BY Turns
    <2>2. b = (Size * (b \div Size)) + (b % Size) /\ b \div Size \in Int /\ b % Size \in Int
        BY Turns
    <2> QED
        BY <2>1, <2>2, Z3 DEF calc_idx
<1>2. (b \div Size) - (a \div Size) \in Int
    BY Turns
<1>3. (b \div Size) - (a \div Size) = 1
    BY <1>1, <1>2, OneTurn
<1> QED
    BY <1>1, <1>3

(* The number of turns and the slot determine the remainder.               *)
LEMMA ModUnique ==
    ASSUME NEW a \in Int, NEW q \in Int, NEW r \in Slot, a = (Size * q) + r
    PROVE  a % Size = r
<1> USE WindowAssumption
<1>1. a = (Size * (a \div Size)) + (a % Size) /\ (a \div Size) \in Int
    BY Turns
<1>2. a % Size \in Int /\ 0 <= a % Size /\ a % Size < Size
    BY Z3
<1>3. PICK d \in Int : d = (a \div Size) - q
    BY <1>1
<1>4. Size * d = r - (a % Size)
    BY <1>1, <1>2, <1>3, Z3 DEF Slot
<1>5. Size * d < Size /\ Size * d > - Size
    BY <1>2, <1>4 DEF Slot
<1>6. d < 1
    BY <1>5, Z3
<1>7. d > -1
    BY <1>5, Z3
<1>8. d = 0
    BY <1>6, <1>7
<1>9. Size * d = 0
    BY <1>8
<1> QED
    BY <1>2, <1>4, <1>9 DEF Slot

(* An id a full turn later has the same slot, the next id another one.     *)
LEMMA IdxFull ==
    ASSUME NEW a \in Int
    PROVE  calc_idx(a + Size) = calc_idx(a)
<1> USE WindowAssumption
<1>1. a = (Size * (a \div Size)) + (a % Size) /\ (a \div Size) \in Int
    BY Turns
<1>2. a % Size \in Slot
    BY IdxRange DEF calc_idx
<1>3. PICK q \in Int : q = (a \div Size) + 1
    BY <1>1
<1>4. a + Size = (Size * q) + (a % Size)
    BY <1>1, <1>2, <1>3, Z3 DEF Slot
<1>5. PICK b \in Int : b = a + Size
    OBVIOUS
<1>6. b % Size = a % Size
    BY <1>2, <1>3, <1>4, <1>5, ModUnique
<1> QED
    BY <1>5, <1>6 DEF calc_idx

(* The next id has another slot.                                           *)
LEMMA IdxNext ==
    ASSUME NEW a \in Int
    PROVE  calc_idx(a + 1) # calc_idx(a)
<1>1. ~(a + 1 = a + Size) /\ a + 1 < a + 2 * Size
    BY WindowAssumption
<1> QED
    BY <1>1, IdxTurn


-------------------------------------------------------------------------------
(* What the invariant says about slots                                     *)

(* Whoever is about to move end_sn_ has reset the slot that end_sn_ names, *)
(* whose log has slid out, and has its lock.                               *)
LEMMA BumpSlot ==
    ASSUME IInv, NEW t \in Thread, pc[t] \in {"rev_bump", "sl_bump"}
    PROVE  /\ local[t][2] = end_sn /\ local[t][1] = end_sn - Size /\ local[t][1] < begin_sn
           /\ calc_idx(local[t][1]) = calc_idx(end_sn)
           /\ slot_lock[calc_idx(end_sn)] = t
<1> USE WindowAssumption
<1>1. /\ local[t][1] \in Nat /\ local[t][2] \in Nat /\ end_sn \in Nat /\ begin_sn \in Nat
      BY DEF IInv, SoundType, TypeOK, ThreadInv, Ids
<1>2. /\ local[t][2] = end_sn /\ local[t][1] < begin_sn
      /\ calc_idx(local[t][1]) = calc_idx(local[t][2])
      BY <1>1 DEF IInv, RevertInv, SlideInv
<1>3. local[t][2] = local[t][1] + Size
  <2>1. CASE pc[t] = "rev_bump"
        BY <1>1, <2>1 DEF IInv, RevertInv
  <2>2. CASE pc[t] = "sl_bump"
    <3>1. local[t][1] < local[t][2] /\ local[t][2] < local[t][1] + 2 * Size
          BY <1>1, <2>2 DEF IInv, SlideInv
    <3> QED
          BY <1>1, <1>2, <3>1, IdxTurn
  <2> QED
        BY <2>1, <2>2
<1>4. slot_lock[calc_idx(local[t][1])] = t
      BY DEF IInv, LockInv, OneLock, TwoLocks
<1> QED
      BY <1>1, <1>2, <1>3, <1>4

(* The threads that pin a slot are finitely many.                          *)
LEMMA PinSet ==
    ASSUME NEW i \in Slot
    PROVE  /\ IsFiniteSet({t \in Thread : Pins(t, i)})
           /\ Cardinality({t \in Thread : Pins(t, i)}) \in 0 .. Cardinality(Thread)
<1>1. {t \in Thread : Pins(t, i)} \subseteq Thread /\ IsFiniteSet(Thread)
      BY WindowAssumption
<1>2. /\ IsFiniteSet({t \in Thread : Pins(t, i)})
      /\ Cardinality({t \in Thread : Pins(t, i)}) <= Cardinality(Thread)
      BY <1>1, FS_Subset
<1>3. Cardinality({t \in Thread : Pins(t, i)}) \in Nat /\ Cardinality(Thread) \in Nat
      BY <1>1, <1>2, FS_CardinalityType
<1> QED
      BY <1>2, <1>3

(* A slot without references is pinned by nobody, and conversely.          *)
LEMMA PinnedByNobody ==
    ASSUME RefInv, NEW i \in Slot
    PROVE  ref[i] = 0 <=> \A t \in Thread : ~Pins(t, i)
<1>1. ref[i] = Cardinality({t \in Thread : Pins(t, i)})
      BY DEF RefInv
<1>2. Cardinality({t \in Thread : Pins(t, i)}) = 0 <=> {t \in Thread : Pins(t, i)} = {}
      BY PinSet, FS_EmptySet
<1> QED
      BY <1>1, <1>2

(* A thread that is not the last one to pin a slot leaves another one.     *)
LEMMA PinnedByAnother ==
    ASSUME RefInv, NEW i \in Slot, NEW t \in Thread, Pins(t, i), ref[i] # 1
    PROVE  \E u \in Thread : u # t /\ Pins(u, i)
<1>1. SUFFICES ASSUME \A u \in Thread : Pins(u, i) => u = t PROVE FALSE
      OBVIOUS
<1>2. {u \in Thread : Pins(u, i)} = {t}
      BY <1>1
<1>3. Cardinality({t}) = 1
      BY FS_Singleton
<1> QED
      BY <1>2, <1>3 DEF RefInv

(* Who holds the slot that end_sn_ names has the log that left it last.    *)
LEMMA HeldIsOldest ==
    ASSUME IInv, NEW t \in Thread, Holds(t), calc_idx(held[t]) = calc_idx(end_sn)
    PROVE  held[t] = end_sn - Size
<1> USE WindowAssumption
<1>1. held[t] \in Int /\ end_sn \in Int
      BY DEF IInv, SoundType, TypeOK, Ids, Holds, NoId
<1>2. held[t] < end_sn /\ end_sn < held[t] + 2 * Size
      BY <1>1 DEF IInv, HeldInv
<1>3. end_sn = held[t] + Size
      BY <1>1, <1>2, IdxTurn
<1> QED
      BY <1>1, <1>3

(* An id that shares its slot with end_sn_ is at least a turn older.       *)
LEMMA TurnOlder ==
    ASSUME NEW a \in Int, NEW b \in Int, calc_idx(a) = calc_idx(b), a < b
    PROVE  a <= b - Size
<1>1. CASE b < a + 2 * Size
      BY <1>1, IdxTurn, WindowAssumption
<1>2. CASE b >= a + 2 * Size
      BY <1>2, WindowAssumption
<1> QED
      BY <1>1, <1>2, WindowAssumption

(* revert does not refuse an id that a thread holds.                       *)
LEMMA NotRefused ==
    ASSUME IInv, NEW t \in Thread, Revert(t)
    PROVE  /\ pc[t] = "hold" /\ ~(held[t] < begin_sn - Size)
           /\ held[t] \in Nat /\ held[t] < end_sn /\ held' = held
           /\ pc' = [pc EXCEPT ![t] = "revert"]
           /\ UNCHANGED <<begin_sn, end_sn, ref, slot_lock, data, local, rd, wr, unexpected, turned>>
<1> USE WindowAssumption
<1>1. /\ pc[t] = "hold" /\ held[t] # NoId /\ held[t] \in Nat
      /\ begin_sn \in Nat /\ end_sn \in Nat /\ begin_sn <= end_sn
      BY DEF Revert, IInv, SoundType, TypeOK, ThreadInv, RangeInv, FixedLength, Ids, NoId
<1>2. end_sn - Size <= held[t] /\ held[t] < end_sn
      BY <1>1 DEF IInv, HeldInv, Holds
<1>3. ~(held[t] < begin_sn - Size)
      BY <1>1, <1>2
<1>4. unexpected = FALSE
      BY DEF IInv, SoundType, TypeOK
<1> QED
      BY <1>1, <1>2, <1>3, <1>4 DEF Revert, Goto, slotVars

-------------------------------------------------------------------------------
(* Each part of the invariant is preserved                                 *)

(* Threads keep to their steps.                                            *)
LEMMA ThreadStep ==
    ASSUME SoundType, ThreadInv, [Next]_vars
    PROVE  ThreadInv'
<1> USE WindowAssumption
        DEF SoundType, TypeOK, ThreadInv, RevSteps, Loop, TwoLocks, OneLock, GetSteps, Ids, NoId,
            NoLocal, vars, slotVars
<1>1. ASSUME NEW t \in Thread, NEW g \in Ids, GetCheck(t, g) PROVE ThreadInv'
    BY <1>1 DEF GetCheck, Goto, InRange
<1>2. ASSUME NEW t \in Thread, GetInc(t) PROVE ThreadInv'
    BY <1>2 DEF GetInc, Goto
<1>3. ASSUME NEW t \in Thread, GetDone(t) PROVE ThreadInv'
    BY <1>3 DEF GetDone, Goto, InRange
<1>4. ASSUME NEW t \in Thread, GetLate(t) PROVE ThreadInv'
    BY <1>4 DEF GetLate, Goto, InRange
<1>5. ASSUME NEW t \in Thread, Fill(t) PROVE ThreadInv'
    BY <1>5 DEF Fill
<1>6. ASSUME NEW t \in Thread, Revert(t) PROVE ThreadInv'
    BY <1>6 DEF Revert, Goto
<1>7. ASSUME NEW t \in Thread, Unref(t) PROVE ThreadInv'
    <2>1. held[t] \in Nat
        BY <1>7 DEF Unref
    <2>2. local' \in [Thread -> Nat \X Nat]
        BY <1>7, <2>1 DEF Unref, Let
    <2>3. /\ pc' \in [Thread -> {"idle", "hold", "trunc", "slide", "sl_lock"} \union GetSteps
                                   \union RevSteps \union OneLock]
          /\ pc'[t] \in {"idle", "rev_end"} /\ held'[t] = NoId
          /\ \A u \in Thread \ {t} : pc'[u] = pc[u] /\ held'[u] = held[u]
        BY <1>7 DEF Unref, Goto
    <2> QED
        BY <2>2, <2>3
<1>8. ASSUME NEW t \in Thread, RevertEnd(t) PROVE ThreadInv'
    BY <1>8 DEF RevertEnd, Goto, Let
<1>9. ASSUME NEW t \in Thread, RevertStop(t) PROVE ThreadInv'
    BY <1>9 DEF RevertStop, Goto, Let, RevertExit, CanReclaim
<1>10. ASSUME NEW t \in Thread, RevertNext(t) PROVE ThreadInv'
    BY <1>10 DEF RevertNext, Goto, CanReclaim
<1>11. ASSUME NEW t \in Thread, RevertLock(t) PROVE ThreadInv'
    BY <1>11 DEF RevertLock, Goto, Lock
<1>12. ASSUME NEW t \in Thread, RevertLost(t) PROVE ThreadInv'
    BY <1>12 DEF RevertLost, Goto, Let, Unlock, RevertExit, Unreferenced
<1>13. ASSUME NEW t \in Thread, RevertReset(t) PROVE ThreadInv'
    BY <1>13 DEF RevertReset, Goto, Reset, Unreferenced
<1>14. ASSUME NEW t \in Thread, RevertBump(t) PROVE ThreadInv'
    BY <1>14 DEF RevertBump, Goto, Let, Unlock
<1>15. ASSUME NEW t \in Thread, SlideCall(t) PROVE ThreadInv'
    BY <1>15 DEF SlideCall, Goto
<1>16. ASSUME NEW t \in Thread, SlideRead(t) PROVE ThreadInv'
    BY <1>16 DEF SlideRead, Goto, Let
<1>17. ASSUME NEW t \in Thread, SlideLock(t) PROVE ThreadInv'
    BY <1>17 DEF SlideLock, Goto, Lock
<1>18. ASSUME NEW t \in Thread, SlideRetry(t) PROVE ThreadInv'
    BY <1>18 DEF SlideRetry, Goto, Let, Unlock, Moved
<1>19. ASSUME NEW t \in Thread, SlideStop(t) PROVE ThreadInv'
    BY <1>19 DEF SlideStop, Goto, Let, Unlock, Moved, SlideExit, Return
<1>20. ASSUME NEW t \in Thread, SlideNext(t) PROVE ThreadInv'
    BY <1>20 DEF SlideNext, Goto, Lock, Moved
<1>21. ASSUME NEW t \in Thread, SlideBegin(t) PROVE ThreadInv'
    BY <1>21 DEF SlideBegin, Goto
<1>22. ASSUME NEW t \in Thread, SlideEnd(t) PROVE ThreadInv'
    BY <1>22 DEF SlideEnd, Goto, Let
<1>23. ASSUME NEW t \in Thread, SlideKeep(t) PROVE ThreadInv'
    BY <1>23 DEF SlideKeep, Goto, Let, SlideUnlock, Unlock
<1>24. ASSUME NEW t \in Thread, SlideReset(t) PROVE ThreadInv'
    BY <1>24 DEF SlideReset, Goto, Reset
<1>25. ASSUME NEW t \in Thread, SlideBump(t) PROVE ThreadInv'
    BY <1>25 DEF SlideBump, Goto, Let, SlideUnlock, Unlock
<1>26. ASSUME NEW t \in Thread, NEW g \in Ids, Truncate(t, g) PROVE ThreadInv'
    BY <1>26 DEF Truncate, Goto, Let, InRange
<1>27. ASSUME NEW t \in Thread, TruncateSlot(t) PROVE ThreadInv'
    BY <1>27 DEF TruncateSlot, Let, Reset
<1>28. ASSUME NEW t \in Thread, TruncateDone(t) PROVE ThreadInv'
    BY <1>28 DEF TruncateDone, Goto, Let
<1>29. ASSUME NEW t \in Thread, NEW g \in FirstId .. MaxId, ForwardTruncate(t, g)
      PROVE  ThreadInv'
    BY <1>29 DEF ForwardTruncate
<1>30. ASSUME UNCHANGED vars PROVE ThreadInv'
    BY <1>30
<1> QED
    BY <1>1, <1>2, <1>3, <1>4, <1>5, <1>6, <1>7, <1>8, <1>9, <1>10, <1>11, <1>12, <1>13,
           <1>14, <1>15, <1>16, <1>17, <1>18, <1>19, <1>20, <1>21, <1>22, <1>23, <1>24,
           <1>25, <1>26, <1>27, <1>28, <1>29, <1>30 DEF Next, Proceed, Call

(* A thread that leaves a slot releases its lock, and no other.            *)
LEMMA LockStep ==
    ASSUME SoundType, ThreadInv, LockInv, [Next]_vars
    PROVE  LockInv'
<1> USE IdxRange, IdxNext, WindowAssumption
        DEF SoundType, TypeOK, ThreadInv, LockInv, RevSteps, Loop, TwoLocks, OneLock, GetSteps, vars,
            slotVars
<1>1. ASSUME NEW t \in Thread, NEW g \in Ids, GetCheck(t, g) PROVE LockInv'
    BY <1>1 DEF GetCheck, Goto, InRange
<1>2. ASSUME NEW t \in Thread, GetInc(t) PROVE LockInv'
    BY <1>2 DEF GetInc, Goto
<1>3. ASSUME NEW t \in Thread, GetDone(t) PROVE LockInv'
    BY <1>3 DEF GetDone, Goto, InRange
<1>4. ASSUME NEW t \in Thread, GetLate(t) PROVE LockInv'
    BY <1>4 DEF GetLate, Goto, InRange
<1>5. ASSUME NEW t \in Thread, Fill(t) PROVE LockInv'
    BY <1>5 DEF Fill
<1>6. ASSUME NEW t \in Thread, Revert(t) PROVE LockInv'
    BY <1>6 DEF Revert, Goto
<1>7. ASSUME NEW t \in Thread, Unref(t) PROVE LockInv'
    BY <1>7 DEF Unref, Goto, Let
<1>8. ASSUME NEW t \in Thread, RevertEnd(t) PROVE LockInv'
    BY <1>8 DEF RevertEnd, Goto, Let
<1>9. ASSUME NEW t \in Thread, RevertStop(t) PROVE LockInv'
    BY <1>9 DEF RevertStop, Goto, Let, RevertExit, CanReclaim
<1>10. ASSUME NEW t \in Thread, RevertNext(t) PROVE LockInv'
    BY <1>10 DEF RevertNext, Goto, CanReclaim
<1>11. ASSUME NEW t \in Thread, RevertLock(t) PROVE LockInv'
    BY <1>11 DEF RevertLock, Goto, Lock
<1>12. ASSUME NEW t \in Thread, RevertLost(t) PROVE LockInv'
    BY <1>12 DEF RevertLost, Goto, Let, Unlock, RevertExit, Unreferenced
<1>13. ASSUME NEW t \in Thread, RevertReset(t) PROVE LockInv'
    BY <1>13 DEF RevertReset, Goto, Reset, Unreferenced
<1>14. ASSUME NEW t \in Thread, RevertBump(t) PROVE LockInv'
    BY <1>14 DEF RevertBump, Goto, Let, Unlock
<1>15. ASSUME NEW t \in Thread, SlideCall(t) PROVE LockInv'
    BY <1>15 DEF SlideCall, Goto
<1>16. ASSUME NEW t \in Thread, SlideRead(t) PROVE LockInv'
    BY <1>16 DEF SlideRead, Goto, Let
<1>17. ASSUME NEW t \in Thread, SlideLock(t) PROVE LockInv'
    BY <1>17 DEF SlideLock, Goto, Lock
<1>18. ASSUME NEW t \in Thread, SlideRetry(t) PROVE LockInv'
    BY <1>18 DEF SlideRetry, Goto, Let, Unlock, Moved
<1>19. ASSUME NEW t \in Thread, SlideStop(t) PROVE LockInv'
    BY <1>19 DEF SlideStop, Goto, Let, Unlock, Moved, SlideExit, Return
<1>20. ASSUME NEW t \in Thread, SlideNext(t) PROVE LockInv'
    BY <1>20 DEF SlideNext, Goto, Lock, Moved
<1>21. ASSUME NEW t \in Thread, SlideBegin(t) PROVE LockInv'
    BY <1>21 DEF SlideBegin, Goto
<1>22. ASSUME NEW t \in Thread, SlideEnd(t) PROVE LockInv'
    BY <1>22 DEF SlideEnd, Goto, Let
<1>23. ASSUME NEW t \in Thread, SlideKeep(t) PROVE LockInv'
    BY <1>23 DEF SlideKeep, Goto, Let, SlideUnlock, Unlock
<1>24. ASSUME NEW t \in Thread, SlideReset(t) PROVE LockInv'
    BY <1>24 DEF SlideReset, Goto, Reset
<1>25. ASSUME NEW t \in Thread, SlideBump(t) PROVE LockInv'
    BY <1>25 DEF SlideBump, Goto, Let, SlideUnlock, Unlock
<1>26. ASSUME NEW t \in Thread, NEW g \in Ids, Truncate(t, g) PROVE LockInv'
    BY <1>26 DEF Truncate, Goto, Let, InRange
<1>27. ASSUME NEW t \in Thread, TruncateSlot(t) PROVE LockInv'
    BY <1>27 DEF TruncateSlot, Let, Reset
<1>28. ASSUME NEW t \in Thread, TruncateDone(t) PROVE LockInv'
    BY <1>28 DEF TruncateDone, Goto, Let
<1>29. ASSUME NEW t \in Thread, NEW g \in FirstId .. MaxId, ForwardTruncate(t, g)
      PROVE  LockInv'
    BY <1>29 DEF ForwardTruncate
<1>30. ASSUME UNCHANGED vars PROVE LockInv'
    BY <1>30
<1> QED
    BY <1>1, <1>2, <1>3, <1>4, <1>5, <1>6, <1>7, <1>8, <1>9, <1>10, <1>11, <1>12, <1>13,
           <1>14, <1>15, <1>16, <1>17, <1>18, <1>19, <1>20, <1>21, <1>22, <1>23, <1>24,
           <1>25, <1>26, <1>27, <1>28, <1>29, <1>30 DEF Next, Proceed, Call

(* The window grows at its end over a slot that has slid out only.         *)
LEMMA RangeStep ==
    ASSUME IInv, [Next]_vars, ~turned'
    PROVE  RangeInv'
<1> USE WindowAssumption
        DEF IInv, SoundType, TypeOK, ThreadInv, RangeInv, FixedLength, SlideInv, vars, slotVars
<1>1. ASSUME NEW t \in Thread, NEW g \in Ids, GetCheck(t, g) PROVE RangeInv'
    BY <1>1 DEF GetCheck, Goto, InRange
<1>2. ASSUME NEW t \in Thread, GetInc(t) PROVE RangeInv'
    BY <1>2 DEF GetInc, Goto
<1>3. ASSUME NEW t \in Thread, GetDone(t) PROVE RangeInv'
    BY <1>3 DEF GetDone, Goto, InRange
<1>4. ASSUME NEW t \in Thread, GetLate(t) PROVE RangeInv'
    BY <1>4 DEF GetLate, Goto, InRange
<1>5. ASSUME NEW t \in Thread, Fill(t) PROVE RangeInv'
    BY <1>5 DEF Fill
<1>6. ASSUME NEW t \in Thread, Revert(t) PROVE RangeInv'
    BY <1>6 DEF Revert, Goto
<1>7. ASSUME NEW t \in Thread, Unref(t) PROVE RangeInv'
    BY <1>7 DEF Unref, Goto, Let
<1>8. ASSUME NEW t \in Thread, RevertEnd(t) PROVE RangeInv'
    BY <1>8 DEF RevertEnd, Goto, Let
<1>9. ASSUME NEW t \in Thread, RevertStop(t) PROVE RangeInv'
    BY <1>9 DEF RevertStop, Goto, Let, RevertExit, CanReclaim
<1>10. ASSUME NEW t \in Thread, RevertNext(t) PROVE RangeInv'
    BY <1>10 DEF RevertNext, Goto, CanReclaim
<1>11. ASSUME NEW t \in Thread, RevertLock(t) PROVE RangeInv'
    BY <1>11 DEF RevertLock, Goto, Lock
<1>12. ASSUME NEW t \in Thread, RevertLost(t) PROVE RangeInv'
    BY <1>12 DEF RevertLost, Goto, Let, Unlock, RevertExit, Unreferenced
<1>13. ASSUME NEW t \in Thread, RevertReset(t) PROVE RangeInv'
    BY <1>13 DEF RevertReset, Goto, Reset, Unreferenced
<1>14. ASSUME NEW t \in Thread, RevertBump(t) PROVE RangeInv'
    <2>1. /\ pc[t] = "rev_bump" /\ end_sn' = end_sn + 1 /\ begin_sn' = begin_sn
          /\ \A u \in Thread \ {t} : pc'[u] = pc[u] /\ local'[u] = local[u]
          /\ held' = held /\ data' = data /\ pc'[t] = "rev_loop"
          /\ local'[t] = <<local[t][1] + 1, local[t][2] + 1>>
        BY <1>14, BumpSlot DEF RevertBump, Goto, Let
    <2>2. /\ local[t][2] = end_sn /\ local[t][1] = end_sn - Size /\ local[t][1] < begin_sn
          /\ calc_idx(local[t][1]) = calc_idx(end_sn) /\ slot_lock[calc_idx(end_sn)] = t
        BY <2>1, BumpSlot
    <2>3. end_sn \in Nat /\ begin_sn \in Nat /\ \A u \in Thread : local[u] \in Nat \X Nat
        BY DEF Ids
    <2> QED
        BY <2>1, <2>2, <2>3
<1>15. ASSUME NEW t \in Thread, SlideCall(t) PROVE RangeInv'
    BY <1>15 DEF SlideCall, Goto
<1>16. ASSUME NEW t \in Thread, SlideRead(t) PROVE RangeInv'
    BY <1>16 DEF SlideRead, Goto, Let
<1>17. ASSUME NEW t \in Thread, SlideLock(t) PROVE RangeInv'
    BY <1>17 DEF SlideLock, Goto, Lock
<1>18. ASSUME NEW t \in Thread, SlideRetry(t) PROVE RangeInv'
    BY <1>18 DEF SlideRetry, Goto, Let, Unlock, Moved
<1>19. ASSUME NEW t \in Thread, SlideStop(t) PROVE RangeInv'
    BY <1>19 DEF SlideStop, Goto, Let, Unlock, Moved, SlideExit, Return
<1>20. ASSUME NEW t \in Thread, SlideNext(t) PROVE RangeInv'
    BY <1>20 DEF SlideNext, Goto, Lock, Moved
<1>21. ASSUME NEW t \in Thread, SlideBegin(t) PROVE RangeInv'
    BY <1>21 DEF SlideBegin, Goto
<1>22. ASSUME NEW t \in Thread, SlideEnd(t) PROVE RangeInv'
    BY <1>22 DEF SlideEnd, Goto, Let
<1>23. ASSUME NEW t \in Thread, SlideKeep(t) PROVE RangeInv'
    BY <1>23 DEF SlideKeep, Goto, Let, SlideUnlock, Unlock
<1>24. ASSUME NEW t \in Thread, SlideReset(t) PROVE RangeInv'
    BY <1>24 DEF SlideReset, Goto, Reset
<1>25. ASSUME NEW t \in Thread, SlideBump(t) PROVE RangeInv'
    <2>1. /\ pc[t] = "sl_bump" /\ end_sn' = end_sn + 1 /\ begin_sn' = begin_sn
          /\ \A u \in Thread \ {t} : pc'[u] = pc[u] /\ local'[u] = local[u]
          /\ held' = held /\ data' = data /\ pc'[t] = "slide"
          /\ local'[t] = <<0, 0>>
        BY <1>25, BumpSlot DEF SlideBump, Goto, Let
    <2>2. /\ local[t][2] = end_sn /\ local[t][1] = end_sn - Size /\ local[t][1] < begin_sn
          /\ calc_idx(local[t][1]) = calc_idx(end_sn) /\ slot_lock[calc_idx(end_sn)] = t
        BY <2>1, BumpSlot
    <2>3. end_sn \in Nat /\ begin_sn \in Nat /\ \A u \in Thread : local[u] \in Nat \X Nat
        BY DEF Ids
    <2> QED
        BY <2>1, <2>2, <2>3
<1>26. ASSUME NEW t \in Thread, NEW g \in Ids, Truncate(t, g) PROVE RangeInv'
    BY <1>26 DEF Truncate, Goto, Let, InRange
<1>27. ASSUME NEW t \in Thread, TruncateSlot(t) PROVE RangeInv'
    BY <1>27 DEF TruncateSlot, Let, Reset
<1>28. ASSUME NEW t \in Thread, TruncateDone(t) PROVE RangeInv'
    BY <1>28 DEF TruncateDone, Goto, Let
<1>29. ASSUME NEW t \in Thread, NEW g \in FirstId .. MaxId, ForwardTruncate(t, g)
      PROVE  RangeInv'
    BY <1>29 DEF ForwardTruncate
<1>30. ASSUME UNCHANGED vars PROVE RangeInv'
    BY <1>30
<1> QED
    BY <1>1, <1>2, <1>3, <1>4, <1>5, <1>6, <1>7, <1>8, <1>9, <1>10, <1>11, <1>12, <1>13,
           <1>14, <1>15, <1>16, <1>17, <1>18, <1>19, <1>20, <1>21, <1>22, <1>23, <1>24,
           <1>25, <1>26, <1>27, <1>28, <1>29, <1>30 DEF Next, Proceed, Call

(* revert_ goes on to give a slot away with an id one turn old only.       *)
LEMMA RevertStep ==
    ASSUME IInv, [Next]_vars, ~turned'
    PROVE  RevertInv'
<1> USE IdxRange, WindowAssumption
        DEF IInv, SoundType, TypeOK, ThreadInv, RangeInv, FixedLength, RevertInv, LockInv, SlideInv,
            HeldInv, Holds, RevSteps, Loop, TwoLocks, OneLock, GetSteps, vars, slotVars
<1>1. ASSUME NEW t \in Thread, NEW g \in Ids, GetCheck(t, g) PROVE RevertInv'
    <2>1. g < end_sn
        BY <1>1 DEF GetCheck, InRange, Ids
    <2>2. /\ pc'[t] = "get_inc" /\ held'[t] = g /\ UNCHANGED <<begin_sn, end_sn, local>>
          /\ \A u \in Thread \ {t} : pc'[u] = pc[u] /\ held'[u] = held[u]
        BY <1>1 DEF GetCheck, Goto
    <2> HIDE DEF SoundType, TypeOK, ThreadInv, LockInv, SlideInv, HeldInv, RangeInv
    <2> QED
        BY <2>1, <2>2
<1>2. ASSUME NEW t \in Thread, GetInc(t) PROVE RevertInv'
    BY <1>2 DEF GetInc, Goto
<1>3. ASSUME NEW t \in Thread, GetDone(t) PROVE RevertInv'
    BY <1>3 DEF GetDone, Goto, InRange
<1>4. ASSUME NEW t \in Thread, GetLate(t) PROVE RevertInv'
    BY <1>4 DEF GetLate, Goto, InRange
<1>5. ASSUME NEW t \in Thread, Fill(t) PROVE RevertInv'
    BY <1>5 DEF Fill
<1>6. ASSUME NEW t \in Thread, Revert(t) PROVE RevertInv'
    <2>1. /\ held[t] < end_sn /\ pc'[t] = "revert"
          /\ UNCHANGED <<begin_sn, end_sn, local, held>>
          /\ \A u \in Thread \ {t} : pc'[u] = pc[u]
        BY <1>6, NotRefused
    <2> HIDE DEF SoundType, TypeOK, ThreadInv, LockInv, SlideInv, HeldInv, RangeInv
    <2> QED
        BY <2>1
<1>7. ASSUME NEW t \in Thread, Unref(t) PROVE RevertInv'
    BY <1>7 DEF Unref, Goto, Let
<1>8. ASSUME NEW t \in Thread, RevertEnd(t) PROVE RevertInv'
    BY <1>8 DEF RevertEnd, Goto, Let
<1>9. ASSUME NEW t \in Thread, RevertStop(t) PROVE RevertInv'
    BY <1>9 DEF RevertStop, Goto, Let, RevertExit, CanReclaim
<1>10. ASSUME NEW t \in Thread, RevertNext(t) PROVE RevertInv'
    BY <1>10 DEF RevertNext, Goto, CanReclaim
<1>11. ASSUME NEW t \in Thread, RevertLock(t) PROVE RevertInv'
    BY <1>11 DEF RevertLock, Goto, Lock
<1>12. ASSUME NEW t \in Thread, RevertLost(t) PROVE RevertInv'
    BY <1>12 DEF RevertLost, Goto, Let, Unlock, RevertExit, Unreferenced
<1>13. ASSUME NEW t \in Thread, RevertReset(t) PROVE RevertInv'
    BY <1>13 DEF RevertReset, Goto, Reset, Unreferenced
<1>14. ASSUME NEW t \in Thread, RevertBump(t) PROVE RevertInv'
    <2>1. /\ pc[t] = "rev_bump" /\ end_sn' = end_sn + 1 /\ begin_sn' = begin_sn
          /\ \A u \in Thread \ {t} : pc'[u] = pc[u] /\ local'[u] = local[u]
          /\ held' = held /\ data' = data /\ pc'[t] = "rev_loop"
          /\ local'[t] = <<local[t][1] + 1, local[t][2] + 1>>
        BY <1>14, BumpSlot DEF RevertBump, Goto, Let
    <2>2. /\ local[t][2] = end_sn /\ local[t][1] = end_sn - Size /\ local[t][1] < begin_sn
          /\ calc_idx(local[t][1]) = calc_idx(end_sn) /\ slot_lock[calc_idx(end_sn)] = t
        BY <2>1, BumpSlot
    <2>3. end_sn \in Nat /\ begin_sn \in Nat /\ \A u \in Thread : local[u] \in Nat \X Nat
        BY DEF Ids
    <2>4. ASSUME NEW u \in Thread, u # t, pc[u] = "rev_bump" PROVE FALSE
        BY <2>2, <2>4, BumpSlot
    <2>5. \A u \in Thread : pc[u] \in GetSteps => held[u] \in Nat
        BY DEF Ids, NoId
    <2> HIDE IdxRange DEF SoundType, TypeOK, ThreadInv, LockInv, SlideInv, HeldInv, RangeInv
    <2> QED
        BY <2>1, <2>2, <2>3, <2>4, <2>5
<1>15. ASSUME NEW t \in Thread, SlideCall(t) PROVE RevertInv'
    BY <1>15 DEF SlideCall, Goto
<1>16. ASSUME NEW t \in Thread, SlideRead(t) PROVE RevertInv'
    BY <1>16 DEF SlideRead, Goto, Let
<1>17. ASSUME NEW t \in Thread, SlideLock(t) PROVE RevertInv'
    BY <1>17 DEF SlideLock, Goto, Lock
<1>18. ASSUME NEW t \in Thread, SlideRetry(t) PROVE RevertInv'
    BY <1>18 DEF SlideRetry, Goto, Let, Unlock, Moved
<1>19. ASSUME NEW t \in Thread, SlideStop(t) PROVE RevertInv'
    BY <1>19 DEF SlideStop, Goto, Let, Unlock, Moved, SlideExit, Return
<1>20. ASSUME NEW t \in Thread, SlideNext(t) PROVE RevertInv'
    BY <1>20 DEF SlideNext, Goto, Lock, Moved
<1>21. ASSUME NEW t \in Thread, SlideBegin(t) PROVE RevertInv'
    BY <1>21 DEF SlideBegin, Goto
<1>22. ASSUME NEW t \in Thread, SlideEnd(t) PROVE RevertInv'
    BY <1>22 DEF SlideEnd, Goto, Let
<1>23. ASSUME NEW t \in Thread, SlideKeep(t) PROVE RevertInv'
    BY <1>23 DEF SlideKeep, Goto, Let, SlideUnlock, Unlock
<1>24. ASSUME NEW t \in Thread, SlideReset(t) PROVE RevertInv'
    BY <1>24 DEF SlideReset, Goto, Reset
<1>25. ASSUME NEW t \in Thread, SlideBump(t) PROVE RevertInv'
    <2>1. /\ pc[t] = "sl_bump" /\ end_sn' = end_sn + 1 /\ begin_sn' = begin_sn
          /\ \A u \in Thread \ {t} : pc'[u] = pc[u] /\ local'[u] = local[u]
          /\ held' = held /\ data' = data /\ pc'[t] = "slide"
          /\ local'[t] = <<0, 0>>
        BY <1>25, BumpSlot DEF SlideBump, Goto, Let
    <2>2. /\ local[t][2] = end_sn /\ local[t][1] = end_sn - Size /\ local[t][1] < begin_sn
          /\ calc_idx(local[t][1]) = calc_idx(end_sn) /\ slot_lock[calc_idx(end_sn)] = t
        BY <2>1, BumpSlot
    <2>3. end_sn \in Nat /\ begin_sn \in Nat /\ \A u \in Thread : local[u] \in Nat \X Nat
        BY DEF Ids
    <2>4. ASSUME NEW u \in Thread, u # t, pc[u] = "rev_bump" PROVE FALSE
        BY <2>2, <2>4, BumpSlot
    <2>5. \A u \in Thread : pc[u] \in GetSteps => held[u] \in Nat
        BY DEF Ids, NoId
    <2> HIDE IdxRange DEF SoundType, TypeOK, ThreadInv, LockInv, SlideInv, HeldInv, RangeInv
    <2> QED
        BY <2>1, <2>2, <2>3, <2>4, <2>5
<1>26. ASSUME NEW t \in Thread, NEW g \in Ids, Truncate(t, g) PROVE RevertInv'
    BY <1>26 DEF Truncate, Goto, Let, InRange
<1>27. ASSUME NEW t \in Thread, TruncateSlot(t) PROVE RevertInv'
    BY <1>27 DEF TruncateSlot, Let, Reset
<1>28. ASSUME NEW t \in Thread, TruncateDone(t) PROVE RevertInv'
    BY <1>28 DEF TruncateDone, Goto, Let
<1>29. ASSUME NEW t \in Thread, NEW g \in FirstId .. MaxId, ForwardTruncate(t, g)
      PROVE  RevertInv'
    BY <1>29 DEF ForwardTruncate
<1>30. ASSUME UNCHANGED vars PROVE RevertInv'
    BY <1>30
<1> QED
    BY <1>1, <1>2, <1>3, <1>4, <1>5, <1>6, <1>7, <1>8, <1>9, <1>10, <1>11, <1>12, <1>13,
           <1>14, <1>15, <1>16, <1>17, <1>18, <1>19, <1>20, <1>21, <1>22, <1>23, <1>24,
           <1>25, <1>26, <1>27, <1>28, <1>29, <1>30 DEF Next, Proceed, Call

(* slide has the window to itself where it has the locks.                  *)
LEMMA SlideStep ==
    ASSUME IInv, [Next]_vars, ~turned'
    PROVE  SlideInv'
<1> USE IdxRange, WindowAssumption
        DEF IInv, SoundType, TypeOK, ThreadInv, RangeInv, FixedLength, RevertInv, LockInv, SlideInv,
            Loop, OneLock, TwoLocks, RevSteps, vars, slotVars
<1>1. ASSUME NEW t \in Thread, NEW g \in Ids, GetCheck(t, g) PROVE SlideInv'
    BY <1>1 DEF GetCheck, Goto, InRange
<1>2. ASSUME NEW t \in Thread, GetInc(t) PROVE SlideInv'
    BY <1>2 DEF GetInc, Goto
<1>3. ASSUME NEW t \in Thread, GetDone(t) PROVE SlideInv'
    BY <1>3 DEF GetDone, Goto, InRange
<1>4. ASSUME NEW t \in Thread, GetLate(t) PROVE SlideInv'
    BY <1>4 DEF GetLate, Goto, InRange
<1>5. ASSUME NEW t \in Thread, Fill(t) PROVE SlideInv'
    BY <1>5 DEF Fill
<1>6. ASSUME NEW t \in Thread, Revert(t) PROVE SlideInv'
    BY <1>6 DEF Revert, Goto
<1>7. ASSUME NEW t \in Thread, Unref(t) PROVE SlideInv'
    BY <1>7 DEF Unref, Goto, Let
<1>8. ASSUME NEW t \in Thread, RevertEnd(t) PROVE SlideInv'
    BY <1>8 DEF RevertEnd, Goto, Let
<1>9. ASSUME NEW t \in Thread, RevertStop(t) PROVE SlideInv'
    BY <1>9 DEF RevertStop, Goto, Let, RevertExit, CanReclaim
<1>10. ASSUME NEW t \in Thread, RevertNext(t) PROVE SlideInv'
    BY <1>10 DEF RevertNext, Goto, CanReclaim
<1>11. ASSUME NEW t \in Thread, RevertLock(t) PROVE SlideInv'
    BY <1>11 DEF RevertLock, Goto, Lock
<1>12. ASSUME NEW t \in Thread, RevertLost(t) PROVE SlideInv'
    BY <1>12 DEF RevertLost, Goto, Let, Unlock, RevertExit, Unreferenced
<1>13. ASSUME NEW t \in Thread, RevertReset(t) PROVE SlideInv'
    BY <1>13 DEF RevertReset, Goto, Reset, Unreferenced
<1>14. ASSUME NEW t \in Thread, RevertBump(t) PROVE SlideInv'
    BY <1>14 DEF RevertBump, Goto, Let, Unlock
<1>15. ASSUME NEW t \in Thread, SlideCall(t) PROVE SlideInv'
    BY <1>15 DEF SlideCall, Goto
<1>16. ASSUME NEW t \in Thread, SlideRead(t) PROVE SlideInv'
    BY <1>16 DEF SlideRead, Goto, Let
<1>17. ASSUME NEW t \in Thread, SlideLock(t) PROVE SlideInv'
    BY <1>17 DEF SlideLock, Goto, Lock
<1>18. ASSUME NEW t \in Thread, SlideRetry(t) PROVE SlideInv'
    BY <1>18 DEF SlideRetry, Goto, Let, Unlock, Moved
<1>19. ASSUME NEW t \in Thread, SlideStop(t) PROVE SlideInv'
    BY <1>19 DEF SlideStop, Goto, Let, Unlock, Moved, SlideExit, Return
<1>20. ASSUME NEW t \in Thread, SlideNext(t) PROVE SlideInv'
    <2>1. data[calc_idx(local[t][1])] = local[t][1] /\ local[t] \in Nat \X Nat
        BY <1>20 DEF SlideNext
    <2>2. calc_idx(local[t][1]) \in Slot
        BY <2>1
    <2>3. local[t][1] <= MaxId
        BY <2>1, <2>2 DEF Empty
    <2>4. /\ pc'[t] = "sl_begin" /\ UNCHANGED <<begin_sn, end_sn, local>>
          /\ local[t][1] = begin_sn /\ local[t][1] < local[t][2] /\ local[t][2] <= end_sn
          /\ \A u \in Thread \ {t} : pc'[u] = pc[u]
        BY <1>20 DEF SlideNext, Goto, Moved, Ids
    <2> HIDE DEF SoundType, TypeOK, ThreadInv, LockInv, RevertInv, RangeInv
    <2> QED
        BY <2>3, <2>4
<1>21. ASSUME NEW t \in Thread, SlideBegin(t) PROVE SlideInv'
    BY <1>21 DEF SlideBegin, Goto
<1>22. ASSUME NEW t \in Thread, SlideEnd(t) PROVE SlideInv'
    BY <1>22 DEF SlideEnd, Goto, Let
<1>23. ASSUME NEW t \in Thread, SlideKeep(t) PROVE SlideInv'
    BY <1>23 DEF SlideKeep, Goto, Let, SlideUnlock, Unlock
<1>24. ASSUME NEW t \in Thread, SlideReset(t) PROVE SlideInv'
    BY <1>24 DEF SlideReset, Goto, Reset
<1>25. ASSUME NEW t \in Thread, SlideBump(t) PROVE SlideInv'
    BY <1>25 DEF SlideBump, Goto, Let, SlideUnlock, Unlock
<1>26. ASSUME NEW t \in Thread, NEW g \in Ids, Truncate(t, g) PROVE SlideInv'
    BY <1>26 DEF Truncate, Goto, Let, InRange
<1>27. ASSUME NEW t \in Thread, TruncateSlot(t) PROVE SlideInv'
    BY <1>27 DEF TruncateSlot, Let, Reset
<1>28. ASSUME NEW t \in Thread, TruncateDone(t) PROVE SlideInv'
    BY <1>28 DEF TruncateDone, Goto, Let
<1>29. ASSUME NEW t \in Thread, NEW g \in FirstId .. MaxId, ForwardTruncate(t, g)
      PROVE  SlideInv'
    BY <1>29 DEF ForwardTruncate
<1>30. ASSUME UNCHANGED vars PROVE SlideInv'
    BY <1>30
<1> QED
    BY <1>1, <1>2, <1>3, <1>4, <1>5, <1>6, <1>7, <1>8, <1>9, <1>10, <1>11, <1>12, <1>13,
           <1>14, <1>15, <1>16, <1>17, <1>18, <1>19, <1>20, <1>21, <1>22, <1>23, <1>24,
           <1>25, <1>26, <1>27, <1>28, <1>29, <1>30 DEF Next, Proceed, Call

(* A slot that is held is not given away.                                  *)
LEMMA HeldStep ==
    ASSUME IInv, [Next]_vars, ~turned'
    PROVE  HeldInv'
<1> USE WindowAssumption
        DEF IInv, SoundType, TypeOK, ThreadInv, RangeInv, FixedLength, HeldInv, ResetInv, Holds,
            GetSteps, RevSteps, vars, slotVars
<1>1. ASSUME NEW t \in Thread, NEW g \in Ids, GetCheck(t, g) PROVE HeldInv'
    BY <1>1 DEF GetCheck, Goto, InRange
<1>2. ASSUME NEW t \in Thread, GetInc(t) PROVE HeldInv'
    BY <1>2 DEF GetInc, Goto
<1>3. ASSUME NEW t \in Thread, GetDone(t) PROVE HeldInv'
    <2>1. /\ end_sn - Size <= held[t] /\ held[t] < end_sn
        BY <1>3 DEF GetDone, InRange, Ids, NoId
    <2>2. /\ UNCHANGED <<begin_sn, end_sn, held>> /\ \A u \in Thread \ {t} : pc'[u] = pc[u]
        BY <1>3 DEF GetDone, Goto
    <2> HIDE DEF SoundType, TypeOK, ThreadInv, RangeInv, ResetInv
    <2> QED
        BY <2>1, <2>2
<1>4. ASSUME NEW t \in Thread, GetLate(t) PROVE HeldInv'
    BY <1>4 DEF GetLate, Goto, InRange
<1>5. ASSUME NEW t \in Thread, Fill(t) PROVE HeldInv'
    BY <1>5 DEF Fill
<1>6. ASSUME NEW t \in Thread, Revert(t) PROVE HeldInv'
    BY <1>6 DEF Revert, Goto
<1>7. ASSUME NEW t \in Thread, Unref(t) PROVE HeldInv'
    BY <1>7 DEF Unref, Goto, Let
<1>8. ASSUME NEW t \in Thread, RevertEnd(t) PROVE HeldInv'
    BY <1>8 DEF RevertEnd, Goto, Let
<1>9. ASSUME NEW t \in Thread, RevertStop(t) PROVE HeldInv'
    BY <1>9 DEF RevertStop, Goto, Let, RevertExit, CanReclaim
<1>10. ASSUME NEW t \in Thread, RevertNext(t) PROVE HeldInv'
    BY <1>10 DEF RevertNext, Goto, CanReclaim
<1>11. ASSUME NEW t \in Thread, RevertLock(t) PROVE HeldInv'
    BY <1>11 DEF RevertLock, Goto, Lock
<1>12. ASSUME NEW t \in Thread, RevertLost(t) PROVE HeldInv'
    BY <1>12 DEF RevertLost, Goto, Let, Unlock, RevertExit, Unreferenced
<1>13. ASSUME NEW t \in Thread, RevertReset(t) PROVE HeldInv'
    BY <1>13 DEF RevertReset, Goto, Reset, Unreferenced
<1>14. ASSUME NEW t \in Thread, RevertBump(t) PROVE HeldInv'
    <2>1. /\ pc[t] = "rev_bump" /\ end_sn' = end_sn + 1 /\ begin_sn' = begin_sn
          /\ \A u \in Thread \ {t} : pc'[u] = pc[u] /\ local'[u] = local[u]
          /\ held' = held /\ data' = data /\ pc'[t] = "rev_loop"
          /\ local'[t] = <<local[t][1] + 1, local[t][2] + 1>>
        BY <1>14, BumpSlot DEF RevertBump, Goto, Let
    <2>2. /\ local[t][2] = end_sn /\ local[t][1] = end_sn - Size /\ local[t][1] < begin_sn
          /\ calc_idx(local[t][1]) = calc_idx(end_sn) /\ slot_lock[calc_idx(end_sn)] = t
        BY <2>1, BumpSlot
    <2>3. end_sn \in Nat /\ begin_sn \in Nat /\ \A u \in Thread : local[u] \in Nat \X Nat
        BY DEF Ids
    <2>4. \A u \in Thread : Holds(u)' => Holds(u) /\ held[u] \in Nat
        BY <2>1 DEF Ids, NoId
    <2>5. \A u \in Thread : Holds(u) => calc_idx(held[u]) # calc_idx(local[t][1])
        BY <2>1
    <2> HIDE DEF SoundType, TypeOK, ThreadInv, RangeInv, ResetInv, Holds
    <2> QED
        BY <2>1, <2>2, <2>3, <2>4, <2>5
<1>15. ASSUME NEW t \in Thread, SlideCall(t) PROVE HeldInv'
    BY <1>15 DEF SlideCall, Goto
<1>16. ASSUME NEW t \in Thread, SlideRead(t) PROVE HeldInv'
    BY <1>16 DEF SlideRead, Goto, Let
<1>17. ASSUME NEW t \in Thread, SlideLock(t) PROVE HeldInv'
    BY <1>17 DEF SlideLock, Goto, Lock
<1>18. ASSUME NEW t \in Thread, SlideRetry(t) PROVE HeldInv'
    BY <1>18 DEF SlideRetry, Goto, Let, Unlock, Moved
<1>19. ASSUME NEW t \in Thread, SlideStop(t) PROVE HeldInv'
    BY <1>19 DEF SlideStop, Goto, Let, Unlock, Moved, SlideExit, Return
<1>20. ASSUME NEW t \in Thread, SlideNext(t) PROVE HeldInv'
    BY <1>20 DEF SlideNext, Goto, Lock, Moved
<1>21. ASSUME NEW t \in Thread, SlideBegin(t) PROVE HeldInv'
    BY <1>21 DEF SlideBegin, Goto
<1>22. ASSUME NEW t \in Thread, SlideEnd(t) PROVE HeldInv'
    BY <1>22 DEF SlideEnd, Goto, Let
<1>23. ASSUME NEW t \in Thread, SlideKeep(t) PROVE HeldInv'
    BY <1>23 DEF SlideKeep, Goto, Let, SlideUnlock, Unlock
<1>24. ASSUME NEW t \in Thread, SlideReset(t) PROVE HeldInv'
    BY <1>24 DEF SlideReset, Goto, Reset
<1>25. ASSUME NEW t \in Thread, SlideBump(t) PROVE HeldInv'
    <2>1. /\ pc[t] = "sl_bump" /\ end_sn' = end_sn + 1 /\ begin_sn' = begin_sn
          /\ \A u \in Thread \ {t} : pc'[u] = pc[u] /\ local'[u] = local[u]
          /\ held' = held /\ data' = data /\ pc'[t] = "slide"
          /\ local'[t] = <<0, 0>>
        BY <1>25, BumpSlot DEF SlideBump, Goto, Let
    <2>2. /\ local[t][2] = end_sn /\ local[t][1] = end_sn - Size /\ local[t][1] < begin_sn
          /\ calc_idx(local[t][1]) = calc_idx(end_sn) /\ slot_lock[calc_idx(end_sn)] = t
        BY <2>1, BumpSlot
    <2>3. end_sn \in Nat /\ begin_sn \in Nat /\ \A u \in Thread : local[u] \in Nat \X Nat
        BY DEF Ids
    <2>4. \A u \in Thread : Holds(u)' => Holds(u) /\ held[u] \in Nat
        BY <2>1 DEF Ids, NoId
    <2>5. \A u \in Thread : Holds(u) => calc_idx(held[u]) # calc_idx(local[t][1])
        BY <2>1
    <2> HIDE DEF SoundType, TypeOK, ThreadInv, RangeInv, ResetInv, Holds
    <2> QED
        BY <2>1, <2>2, <2>3, <2>4, <2>5
<1>26. ASSUME NEW t \in Thread, NEW g \in Ids, Truncate(t, g) PROVE HeldInv'
    BY <1>26 DEF Truncate, Goto, Let, InRange
<1>27. ASSUME NEW t \in Thread, TruncateSlot(t) PROVE HeldInv'
    BY <1>27 DEF TruncateSlot, Let, Reset
<1>28. ASSUME NEW t \in Thread, TruncateDone(t) PROVE HeldInv'
    BY <1>28 DEF TruncateDone, Goto, Let
<1>29. ASSUME NEW t \in Thread, NEW g \in FirstId .. MaxId, ForwardTruncate(t, g)
      PROVE  HeldInv'
    BY <1>29 DEF ForwardTruncate
<1>30. ASSUME UNCHANGED vars PROVE HeldInv'
    BY <1>30
<1> QED
    BY <1>1, <1>2, <1>3, <1>4, <1>5, <1>6, <1>7, <1>8, <1>9, <1>10, <1>11, <1>12, <1>13,
           <1>14, <1>15, <1>16, <1>17, <1>18, <1>19, <1>20, <1>21, <1>22, <1>23, <1>24,
           <1>25, <1>26, <1>27, <1>28, <1>29, <1>30 DEF Next, Proceed, Call

(* Nobody gets or fills a slot that is being reclaimed.                    *)
LEMMA ResetStep ==
    ASSUME IInv, [Next]_vars, ~turned'
    PROVE  ResetInv'
<1> USE IdxRange, WindowAssumption
        DEF IInv, SoundType, TypeOK, ThreadInv, RangeInv, FixedLength, RevertInv, SlideInv, LockInv,
            ResetInv, Holds, GetSteps, RevSteps, OneLock, TwoLocks, vars, slotVars
<1>1. ASSUME NEW t \in Thread, NEW g \in Ids, GetCheck(t, g) PROVE ResetInv'
    BY <1>1 DEF GetCheck, Goto, InRange
<1>2. ASSUME NEW t \in Thread, GetInc(t) PROVE ResetInv'
    BY <1>2 DEF GetInc, Goto
<1>3. ASSUME NEW t \in Thread, GetDone(t) PROVE ResetInv'
    <2>1. held[t] \in Nat /\ begin_sn <= held[t] /\ held[t] < end_sn /\ end_sn \in Nat
        BY <1>3 DEF GetDone, InRange, Ids, NoId
    <2>2. ASSUME NEW u \in Thread, pc[u] \in {"rev_bump", "sl_bump"}
          PROVE  calc_idx(held[t]) # calc_idx(local[u][1])
        <3>1. local[u][1] = end_sn - Size /\ local[u][1] < begin_sn /\ local[u][1] \in Nat
            BY <2>2, BumpSlot
        <3>2. begin_sn \in Nat
            BY DEF Ids
        <3> HIDE DEF SoundType, TypeOK, ThreadInv, RangeInv, RevertInv, SlideInv, LockInv
        <3> QED
            BY <2>1, <3>1, <3>2, IdxTurn
    <2>3. /\ UNCHANGED <<data, held, local>> /\ \A u \in Thread \ {t} : pc'[u] = pc[u]
          /\ pc'[t] = "hold"
        BY <1>3 DEF GetDone, Goto
    <2> HIDE DEF SoundType, TypeOK, ThreadInv, RangeInv, RevertInv, SlideInv, LockInv
    <2> QED
        BY <2>2, <2>3
<1>4. ASSUME NEW t \in Thread, GetLate(t) PROVE ResetInv'
    BY <1>4 DEF GetLate, Goto, InRange
<1>5. ASSUME NEW t \in Thread, Fill(t) PROVE ResetInv'
    BY <1>5 DEF Fill
<1>6. ASSUME NEW t \in Thread, Revert(t) PROVE ResetInv'
    BY <1>6 DEF Revert, Goto
<1>7. ASSUME NEW t \in Thread, Unref(t) PROVE ResetInv'
    BY <1>7 DEF Unref, Goto, Let
<1>8. ASSUME NEW t \in Thread, RevertEnd(t) PROVE ResetInv'
    BY <1>8 DEF RevertEnd, Goto, Let
<1>9. ASSUME NEW t \in Thread, RevertStop(t) PROVE ResetInv'
    BY <1>9 DEF RevertStop, Goto, Let, RevertExit, CanReclaim
<1>10. ASSUME NEW t \in Thread, RevertNext(t) PROVE ResetInv'
    BY <1>10 DEF RevertNext, Goto, CanReclaim
<1>11. ASSUME NEW t \in Thread, RevertLock(t) PROVE ResetInv'
    BY <1>11 DEF RevertLock, Goto, Lock
<1>12. ASSUME NEW t \in Thread, RevertLost(t) PROVE ResetInv'
    BY <1>12 DEF RevertLost, Goto, Let, Unlock, RevertExit, Unreferenced
<1>13. ASSUME NEW t \in Thread, RevertReset(t) PROVE ResetInv'
    <2>1. calc_idx(local[t][1]) \in Slot /\ ref[calc_idx(local[t][1])] = 0
        BY <1>13 DEF RevertReset, Unreferenced
    <2>2. \A u \in Thread : ~Pins(u, calc_idx(local[t][1]))
        BY <2>1, PinnedByNobody
    <2>3. \A u \in Thread : Holds(u) => calc_idx(held[u]) # calc_idx(local[t][1])
        BY <2>2 DEF Pins
    <2>4. /\ UNCHANGED <<held, local>> /\ \A u \in Thread \ {t} : pc'[u] = pc[u]
          /\ data' = [data EXCEPT ![calc_idx(local[t][1])] = Empty] /\ pc'[t] = "rev_bump"
        BY <1>13 DEF RevertReset, Goto, Reset
    <2>5. \A u \in Thread : calc_idx(local[u][1]) \in Slot
        OBVIOUS
    <2>6. \A u \in Thread : Holds(u)' => Holds(u)
        BY <1>13, <2>4 DEF RevertReset
    <2>7. data \in [Slot -> FirstId .. MaxId \union {Empty}]
        OBVIOUS
    <2> HIDE IdxRange DEF SoundType, TypeOK, ThreadInv, RangeInv, RevertInv, SlideInv, LockInv, Holds
    <2> QED
        BY <2>1, <2>3, <2>4, <2>5, <2>6, <2>7
<1>14. ASSUME NEW t \in Thread, RevertBump(t) PROVE ResetInv'
    BY <1>14 DEF RevertBump, Goto, Let, Unlock
<1>15. ASSUME NEW t \in Thread, SlideCall(t) PROVE ResetInv'
    BY <1>15 DEF SlideCall, Goto
<1>16. ASSUME NEW t \in Thread, SlideRead(t) PROVE ResetInv'
    BY <1>16 DEF SlideRead, Goto, Let
<1>17. ASSUME NEW t \in Thread, SlideLock(t) PROVE ResetInv'
    BY <1>17 DEF SlideLock, Goto, Lock
<1>18. ASSUME NEW t \in Thread, SlideRetry(t) PROVE ResetInv'
    BY <1>18 DEF SlideRetry, Goto, Let, Unlock, Moved
<1>19. ASSUME NEW t \in Thread, SlideStop(t) PROVE ResetInv'
    BY <1>19 DEF SlideStop, Goto, Let, Unlock, Moved, SlideExit, Return
<1>20. ASSUME NEW t \in Thread, SlideNext(t) PROVE ResetInv'
    BY <1>20 DEF SlideNext, Goto, Lock, Moved
<1>21. ASSUME NEW t \in Thread, SlideBegin(t) PROVE ResetInv'
    BY <1>21 DEF SlideBegin, Goto
<1>22. ASSUME NEW t \in Thread, SlideEnd(t) PROVE ResetInv'
    BY <1>22 DEF SlideEnd, Goto, Let
<1>23. ASSUME NEW t \in Thread, SlideKeep(t) PROVE ResetInv'
    BY <1>23 DEF SlideKeep, Goto, Let, SlideUnlock, Unlock
<1>24. ASSUME NEW t \in Thread, SlideReset(t) PROVE ResetInv'
    <2>1. calc_idx(local[t][1]) \in Slot /\ ref[calc_idx(local[t][1])] = 0
        BY <1>24 DEF SlideReset
    <2>2. \A u \in Thread : ~Pins(u, calc_idx(local[t][1]))
        BY <2>1, PinnedByNobody
    <2>3. \A u \in Thread : Holds(u) => calc_idx(held[u]) # calc_idx(local[t][1])
        BY <2>2 DEF Pins
    <2>4. /\ UNCHANGED <<held, local>> /\ \A u \in Thread \ {t} : pc'[u] = pc[u]
          /\ data' = [data EXCEPT ![calc_idx(local[t][1])] = Empty] /\ pc'[t] = "sl_bump"
        BY <1>24 DEF SlideReset, Goto, Reset
    <2>5. \A u \in Thread : calc_idx(local[u][1]) \in Slot
        OBVIOUS
    <2>6. \A u \in Thread : Holds(u)' => Holds(u)
        BY <1>24, <2>4 DEF SlideReset
    <2>7. data \in [Slot -> FirstId .. MaxId \union {Empty}]
        OBVIOUS
    <2> HIDE IdxRange DEF SoundType, TypeOK, ThreadInv, RangeInv, RevertInv, SlideInv, LockInv, Holds
    <2> QED
        BY <2>1, <2>3, <2>4, <2>5, <2>6, <2>7
<1>25. ASSUME NEW t \in Thread, SlideBump(t) PROVE ResetInv'
    BY <1>25 DEF SlideBump, Goto, Let, SlideUnlock, Unlock
<1>26. ASSUME NEW t \in Thread, NEW g \in Ids, Truncate(t, g) PROVE ResetInv'
    BY <1>26 DEF Truncate, Goto, Let, InRange
<1>27. ASSUME NEW t \in Thread, TruncateSlot(t) PROVE ResetInv'
    BY <1>27 DEF TruncateSlot, Let, Reset
<1>28. ASSUME NEW t \in Thread, TruncateDone(t) PROVE ResetInv'
    BY <1>28 DEF TruncateDone, Goto, Let
<1>29. ASSUME NEW t \in Thread, NEW g \in FirstId .. MaxId, ForwardTruncate(t, g)
      PROVE  ResetInv'
    BY <1>29 DEF ForwardTruncate
<1>30. ASSUME UNCHANGED vars PROVE ResetInv'
    BY <1>30
<1> QED
    BY <1>1, <1>2, <1>3, <1>4, <1>5, <1>6, <1>7, <1>8, <1>9, <1>10, <1>11, <1>12, <1>13,
           <1>14, <1>15, <1>16, <1>17, <1>18, <1>19, <1>20, <1>21, <1>22, <1>23, <1>24,
           <1>25, <1>26, <1>27, <1>28, <1>29, <1>30 DEF Next, Proceed, Call

(* A slot is given away empty.                                             *)
LEMMA DataStep ==
    ASSUME IInv, [Next]_vars, ~turned'
    PROVE  DataInv'
<1> USE IdxRange, WindowAssumption
        DEF IInv, SoundType, TypeOK, ThreadInv, RangeInv, FixedLength, HeldInv, ResetInv, DataInv,
            Holds, Empty, vars, slotVars
<1>1. ASSUME NEW t \in Thread, NEW g \in Ids, GetCheck(t, g) PROVE DataInv'
    BY <1>1 DEF GetCheck, Goto, InRange
<1>2. ASSUME NEW t \in Thread, GetInc(t) PROVE DataInv'
    BY <1>2 DEF GetInc, Goto
<1>3. ASSUME NEW t \in Thread, GetDone(t) PROVE DataInv'
    BY <1>3 DEF GetDone, Goto, InRange
<1>4. ASSUME NEW t \in Thread, GetLate(t) PROVE DataInv'
    BY <1>4 DEF GetLate, Goto, InRange
<1>5. ASSUME NEW t \in Thread, Fill(t) PROVE DataInv'
    BY <1>5 DEF Fill
<1>6. ASSUME NEW t \in Thread, Revert(t) PROVE DataInv'
    BY <1>6 DEF Revert, Goto
<1>7. ASSUME NEW t \in Thread, Unref(t) PROVE DataInv'
    BY <1>7 DEF Unref, Goto, Let
<1>8. ASSUME NEW t \in Thread, RevertEnd(t) PROVE DataInv'
    BY <1>8 DEF RevertEnd, Goto, Let
<1>9. ASSUME NEW t \in Thread, RevertStop(t) PROVE DataInv'
    BY <1>9 DEF RevertStop, Goto, Let, RevertExit, CanReclaim
<1>10. ASSUME NEW t \in Thread, RevertNext(t) PROVE DataInv'
    BY <1>10 DEF RevertNext, Goto, CanReclaim
<1>11. ASSUME NEW t \in Thread, RevertLock(t) PROVE DataInv'
    BY <1>11 DEF RevertLock, Goto, Lock
<1>12. ASSUME NEW t \in Thread, RevertLost(t) PROVE DataInv'
    BY <1>12 DEF RevertLost, Goto, Let, Unlock, RevertExit, Unreferenced
<1>13. ASSUME NEW t \in Thread, RevertReset(t) PROVE DataInv'
    BY <1>13 DEF RevertReset, Goto, Reset, Unreferenced
<1>14. ASSUME NEW t \in Thread, RevertBump(t) PROVE DataInv'
    <2>1. /\ pc[t] = "rev_bump" /\ end_sn' = end_sn + 1 /\ begin_sn' = begin_sn
          /\ \A u \in Thread \ {t} : pc'[u] = pc[u] /\ local'[u] = local[u]
          /\ held' = held /\ data' = data /\ pc'[t] = "rev_loop"
          /\ local'[t] = <<local[t][1] + 1, local[t][2] + 1>>
        BY <1>14, BumpSlot DEF RevertBump, Goto, Let
    <2>2. /\ local[t][2] = end_sn /\ local[t][1] = end_sn - Size /\ local[t][1] < begin_sn
          /\ calc_idx(local[t][1]) = calc_idx(end_sn) /\ slot_lock[calc_idx(end_sn)] = t
        BY <2>1, BumpSlot
    <2>3. end_sn \in Nat /\ begin_sn \in Nat /\ \A u \in Thread : local[u] \in Nat \X Nat
        BY DEF Ids
    <2>4. data[calc_idx(local[t][1])] = Empty
        BY <2>1
    <2>5. \A i \in Slot : data[i] # Empty => data[i] \in Nat
        OBVIOUS
    <2> HIDE DEF SoundType, TypeOK, ThreadInv, RangeInv, ResetInv, HeldInv
    <2> QED
        BY <2>1, <2>2, <2>3, <2>4, <2>5
<1>15. ASSUME NEW t \in Thread, SlideCall(t) PROVE DataInv'
    BY <1>15 DEF SlideCall, Goto
<1>16. ASSUME NEW t \in Thread, SlideRead(t) PROVE DataInv'
    BY <1>16 DEF SlideRead, Goto, Let
<1>17. ASSUME NEW t \in Thread, SlideLock(t) PROVE DataInv'
    BY <1>17 DEF SlideLock, Goto, Lock
<1>18. ASSUME NEW t \in Thread, SlideRetry(t) PROVE DataInv'
    BY <1>18 DEF SlideRetry, Goto, Let, Unlock, Moved
<1>19. ASSUME NEW t \in Thread, SlideStop(t) PROVE DataInv'
    BY <1>19 DEF SlideStop, Goto, Let, Unlock, Moved, SlideExit, Return
<1>20. ASSUME NEW t \in Thread, SlideNext(t) PROVE DataInv'
    BY <1>20 DEF SlideNext, Goto, Lock, Moved
<1>21. ASSUME NEW t \in Thread, SlideBegin(t) PROVE DataInv'
    BY <1>21 DEF SlideBegin, Goto
<1>22. ASSUME NEW t \in Thread, SlideEnd(t) PROVE DataInv'
    BY <1>22 DEF SlideEnd, Goto, Let
<1>23. ASSUME NEW t \in Thread, SlideKeep(t) PROVE DataInv'
    BY <1>23 DEF SlideKeep, Goto, Let, SlideUnlock, Unlock
<1>24. ASSUME NEW t \in Thread, SlideReset(t) PROVE DataInv'
    BY <1>24 DEF SlideReset, Goto, Reset
<1>25. ASSUME NEW t \in Thread, SlideBump(t) PROVE DataInv'
    <2>1. /\ pc[t] = "sl_bump" /\ end_sn' = end_sn + 1 /\ begin_sn' = begin_sn
          /\ \A u \in Thread \ {t} : pc'[u] = pc[u] /\ local'[u] = local[u]
          /\ held' = held /\ data' = data /\ pc'[t] = "slide"
          /\ local'[t] = <<0, 0>>
        BY <1>25, BumpSlot DEF SlideBump, Goto, Let
    <2>2. /\ local[t][2] = end_sn /\ local[t][1] = end_sn - Size /\ local[t][1] < begin_sn
          /\ calc_idx(local[t][1]) = calc_idx(end_sn) /\ slot_lock[calc_idx(end_sn)] = t
        BY <2>1, BumpSlot
    <2>3. end_sn \in Nat /\ begin_sn \in Nat /\ \A u \in Thread : local[u] \in Nat \X Nat
        BY DEF Ids
    <2>4. data[calc_idx(local[t][1])] = Empty
        BY <2>1
    <2>5. \A i \in Slot : data[i] # Empty => data[i] \in Nat
        OBVIOUS
    <2> HIDE DEF SoundType, TypeOK, ThreadInv, RangeInv, ResetInv, HeldInv
    <2> QED
        BY <2>1, <2>2, <2>3, <2>4, <2>5
<1>26. ASSUME NEW t \in Thread, NEW g \in Ids, Truncate(t, g) PROVE DataInv'
    BY <1>26 DEF Truncate, Goto, Let, InRange
<1>27. ASSUME NEW t \in Thread, TruncateSlot(t) PROVE DataInv'
    BY <1>27 DEF TruncateSlot, Let, Reset
<1>28. ASSUME NEW t \in Thread, TruncateDone(t) PROVE DataInv'
    BY <1>28 DEF TruncateDone, Goto, Let
<1>29. ASSUME NEW t \in Thread, NEW g \in FirstId .. MaxId, ForwardTruncate(t, g)
      PROVE  DataInv'
    <2>1. \A u \in Thread : pc[u] = "idle" /\ held[u] = NoId
        BY <1>29 DEF ForwardTruncate
    <2>2. end_sn = begin_sn + Size
        <3>1. ~(end_sn < begin_sn + Size)
            BY <2>1 DEF ClaimInv, Reclaims, Pins, Loop, RevSteps
        <3> QED
            BY <3>1 DEF Ids
    <2>3. /\ begin_sn \in Nat /\ end_sn \in Nat /\ g \in Nat /\ begin_sn <= g
          /\ data' = [i \in Slot |->
               IF \E x \in begin_sn .. end_sn - 1 : x < g /\ calc_idx(x) = i THEN Empty
               ELSE data[i]]
          /\ end_sn' = g + Size
        BY <1>29 DEF ForwardTruncate, Ids
    <2>4. ASSUME NEW i \in Slot, data'[i] # Empty
          PROVE  calc_idx(data'[i]) = i /\ end_sn' - Size <= data'[i] /\ data'[i] < end_sn'
        <3>1. /\ data'[i] = data[i] /\ data[i] \in Nat /\ calc_idx(data[i]) = i
              /\ end_sn - Size <= data[i] /\ data[i] < end_sn
            BY <2>3, <2>4
        <3>2. ~(data[i] < g)
            BY <2>2, <2>3, <2>4, <3>1
        <3> QED
            BY <2>2, <2>3, <3>1, <3>2
    <2> QED
        BY <2>4
<1>30. ASSUME UNCHANGED vars PROVE DataInv'
    BY <1>30
<1> QED
    BY <1>1, <1>2, <1>3, <1>4, <1>5, <1>6, <1>7, <1>8, <1>9, <1>10, <1>11, <1>12, <1>13,
           <1>14, <1>15, <1>16, <1>17, <1>18, <1>19, <1>20, <1>21, <1>22, <1>23, <1>24,
           <1>25, <1>26, <1>27, <1>28, <1>29, <1>30 DEF Next, Proceed, Call

(* ref_ counts the threads that pin a slot.                                *)
LEMMA RefStep ==
    ASSUME IInv, [Next]_vars
    PROVE  RefInv'
<1>0. SoundType /\ ThreadInv /\ RefInv
    BY DEF IInv
<1> USE <1>0, IdxRange, WindowAssumption
        DEF SoundType, TypeOK, ThreadInv, RefInv, Pins, GetSteps, RevSteps, vars, slotVars
<1>1. ASSUME NEW t \in Thread, NEW g \in Ids, GetCheck(t, g) PROVE RefInv'
    BY <1>1 DEF GetCheck, Goto, InRange
<1>2. ASSUME NEW t \in Thread, GetInc(t) PROVE RefInv'
    <2>1. held[t] \in Nat /\ pc[t] = "get_inc" /\ calc_idx(held[t]) \in Slot
        BY <1>2 DEF GetInc, Ids, NoId
    <2>2. ASSUME NEW i \in Slot PROVE ref'[i] = Cardinality({u \in Thread : Pins(u, i)'})
        <3>1. CASE i = calc_idx(held[t])
            <4>1. {u \in Thread : Pins(u, i)'} = {u \in Thread : Pins(u, i)} \union {t}
                BY <1>2, <2>1, <3>1 DEF GetInc, Goto, NoId
            <4>2. t \notin {u \in Thread : Pins(u, i)}
                BY <2>1
            <4>3. Cardinality({u \in Thread : Pins(u, i)} \union {t})
                     = Cardinality({u \in Thread : Pins(u, i)}) + 1
                <5> HIDE DEF Pins
                <5> QED
                    BY <4>2, PinSet, FS_AddElement
            <4>4. ref'[i] = ref[i] + 1
                BY <1>2, <2>1, <3>1 DEF GetInc
            <4> QED
                BY <4>1, <4>3, <4>4
        <3>2. CASE i # calc_idx(held[t])
            <4>1. {u \in Thread : Pins(u, i)'} = {u \in Thread : Pins(u, i)}
                BY <1>2, <2>1, <3>2 DEF GetInc, Goto
            <4>2. ref'[i] = ref[i]
                BY <1>2, <2>1, <3>2 DEF GetInc
            <4> QED
                BY <4>1, <4>2
        <3> QED
            BY <3>1, <3>2
    <2> QED
        BY <2>2
<1>3. ASSUME NEW t \in Thread, GetDone(t) PROVE RefInv'
    BY <1>3 DEF GetDone, Goto, InRange
<1>4. ASSUME NEW t \in Thread, GetLate(t) PROVE RefInv'
    BY <1>4 DEF GetLate, Goto, InRange
<1>5. ASSUME NEW t \in Thread, Fill(t) PROVE RefInv'
    BY <1>5 DEF Fill
<1>6. ASSUME NEW t \in Thread, Revert(t) PROVE RefInv'
    <2>1. /\ pc[t] = "hold" /\ pc'[t] = "revert" /\ UNCHANGED <<held, ref>>
          /\ \A u \in Thread \ {t} : pc'[u] = pc[u]
        BY <1>6, NotRefused
    <2>2. \A i \in Slot, u \in Thread : Pins(u, i)' <=> Pins(u, i)
        BY <2>1
    <2> HIDE DEF Pins
    <2> QED
        BY <2>1, <2>2
<1>7. ASSUME NEW t \in Thread, Unref(t) PROVE RefInv'
    <2>1. /\ held[t] \in Nat /\ pc[t] = "revert" /\ calc_idx(held[t]) \in Slot
          /\ held'[t] = NoId /\ \A u \in Thread \ {t} : pc'[u] = pc[u] /\ held'[u] = held[u]
        BY <1>7 DEF Unref, Goto, Ids, NoId
    <2>2. ASSUME NEW i \in Slot PROVE ref'[i] = Cardinality({u \in Thread : Pins(u, i)'})
        <3>1. CASE i = calc_idx(held[t])
            <4>1. {u \in Thread : Pins(u, i)'} = {u \in Thread : Pins(u, i)} \ {t}
                BY <2>1, <3>1
            <4>2. t \in {u \in Thread : Pins(u, i)}
                BY <2>1, <3>1 DEF NoId
            <4>3. Cardinality({u \in Thread : Pins(u, i)} \ {t})
                     = Cardinality({u \in Thread : Pins(u, i)}) - 1
                <5> HIDE DEF Pins
                <5> QED
                    BY <4>2, PinSet, FS_RemoveElement
            <4>4. ref'[i] = ref[i] - 1
                BY <1>7, <2>1, <3>1 DEF Unref
            <4> QED
                BY <4>1, <4>3, <4>4
        <3>2. CASE i # calc_idx(held[t])
            <4>1. {u \in Thread : Pins(u, i)'} = {u \in Thread : Pins(u, i)}
                BY <2>1, <3>2
            <4>2. ref'[i] = ref[i]
                BY <1>7, <2>1, <3>2 DEF Unref
            <4> QED
                BY <4>1, <4>2
        <3> QED
            BY <3>1, <3>2
    <2> QED
        BY <2>2
<1>8. ASSUME NEW t \in Thread, RevertEnd(t) PROVE RefInv'
    BY <1>8 DEF RevertEnd, Goto, Let
<1>9. ASSUME NEW t \in Thread, RevertStop(t) PROVE RefInv'
    BY <1>9 DEF RevertStop, Goto, Let, RevertExit, CanReclaim
<1>10. ASSUME NEW t \in Thread, RevertNext(t) PROVE RefInv'
    BY SMTT(30), <1>10 DEF RevertNext, Goto, CanReclaim
<1>11. ASSUME NEW t \in Thread, RevertLock(t) PROVE RefInv'
    BY <1>11 DEF RevertLock, Goto, Lock
<1>12. ASSUME NEW t \in Thread, RevertLost(t) PROVE RefInv'
    BY <1>12 DEF RevertLost, Goto, Let, Unlock, RevertExit, Unreferenced
<1>13. ASSUME NEW t \in Thread, RevertReset(t) PROVE RefInv'
    BY <1>13 DEF RevertReset, Goto, Reset, Unreferenced
<1>14. ASSUME NEW t \in Thread, RevertBump(t) PROVE RefInv'
    BY <1>14 DEF RevertBump, Goto, Let, Unlock
<1>15. ASSUME NEW t \in Thread, SlideCall(t) PROVE RefInv'
    BY <1>15 DEF SlideCall, Goto
<1>16. ASSUME NEW t \in Thread, SlideRead(t) PROVE RefInv'
    BY ZenonT(60), <1>16 DEF SlideRead, Goto, Let
<1>17. ASSUME NEW t \in Thread, SlideLock(t) PROVE RefInv'
    BY <1>17 DEF SlideLock, Goto, Lock
<1>18. ASSUME NEW t \in Thread, SlideRetry(t) PROVE RefInv'
    BY <1>18 DEF SlideRetry, Goto, Let, Unlock, Moved
<1>19. ASSUME NEW t \in Thread, SlideStop(t) PROVE RefInv'
    BY <1>19 DEF SlideStop, Goto, Let, Unlock, Moved, SlideExit, Return
<1>20. ASSUME NEW t \in Thread, SlideNext(t) PROVE RefInv'
    <2>1. /\ pc[t] = "sl_check" /\ pc'[t] = "sl_begin" /\ UNCHANGED <<held, ref>>
          /\ \A u \in Thread \ {t} : pc'[u] = pc[u]
        BY <1>20 DEF SlideNext, Goto
    <2>2. \A i \in Slot, u \in Thread : Pins(u, i)' <=> Pins(u, i)
        BY <2>1
    <2> HIDE DEF Pins
    <2> QED
        BY <2>1, <2>2
<1>21. ASSUME NEW t \in Thread, SlideBegin(t) PROVE RefInv'
    BY <1>21 DEF SlideBegin, Goto
<1>22. ASSUME NEW t \in Thread, SlideEnd(t) PROVE RefInv'
    BY <1>22 DEF SlideEnd, Goto, Let
<1>23. ASSUME NEW t \in Thread, SlideKeep(t) PROVE RefInv'
    BY <1>23 DEF SlideKeep, Goto, Let, SlideUnlock, Unlock
<1>24. ASSUME NEW t \in Thread, SlideReset(t) PROVE RefInv'
    BY <1>24 DEF SlideReset, Goto, Reset
<1>25. ASSUME NEW t \in Thread, SlideBump(t) PROVE RefInv'
    BY <1>25 DEF SlideBump, Goto, Let, SlideUnlock, Unlock
<1>26. ASSUME NEW t \in Thread, NEW g \in Ids, Truncate(t, g) PROVE RefInv'
    <2>1. \A u \in Thread : /\ held'[u] = held[u] /\ (u # t => pc'[u] = pc[u])
                            /\ (u = t => pc[u] = "idle" /\ pc'[u] = "trunc")
        BY <1>26 DEF Truncate, Goto
    <2>2. \A u \in Thread, i \in Slot : Pins(u, i)' <=> Pins(u, i)
        BY <2>1
    <2>3. ref' = ref
        BY <1>26 DEF Truncate
    <2> HIDE DEF Pins, SoundType, TypeOK, ThreadInv
    <2>4. \A i \in Slot : {u \in Thread : Pins(u, i)'} = {u \in Thread : Pins(u, i)}
        BY <2>2
    <2> QED
        BY <2>3, <2>4
<1>27. ASSUME NEW t \in Thread, TruncateSlot(t) PROVE RefInv'
    BY <1>27 DEF TruncateSlot, Let, Reset
<1>28. ASSUME NEW t \in Thread, TruncateDone(t) PROVE RefInv'
    BY <1>28 DEF TruncateDone, Goto, Let
<1>29. ASSUME NEW t \in Thread, NEW g \in FirstId .. MaxId, ForwardTruncate(t, g)
      PROVE  RefInv'
    BY <1>29 DEF ForwardTruncate
<1>30. ASSUME UNCHANGED vars PROVE RefInv'
    BY <1>30
<1> QED
    BY <1>1, <1>2, <1>3, <1>4, <1>5, <1>6, <1>7, <1>8, <1>9, <1>10, <1>11, <1>12, <1>13,
           <1>14, <1>15, <1>16, <1>17, <1>18, <1>19, <1>20, <1>21, <1>22, <1>23, <1>24,
           <1>25, <1>26, <1>27, <1>28, <1>29, <1>30 DEF Next, Proceed, Call

(* Nobody who is responsible for a slot leaves it to nobody.               *)
LEMMA ClaimStep ==
    ASSUME IInv, [Next]_vars, ~turned'
    PROVE  ClaimInv'
<1> USE WindowAssumption
        DEF IInv, SoundType, TypeOK, ThreadInv, RangeInv, FixedLength, RevertInv, SlideInv, ClaimInv,
            Reclaims, Pins, GetSteps, RevSteps, Loop, vars, slotVars
<1>1. ASSUME NEW t \in Thread, NEW g \in Ids, GetCheck(t, g) PROVE ClaimInv'
    <2>1. /\ pc[t] = "idle" /\ held[t] = NoId /\ UNCHANGED <<begin_sn, end_sn, local>>
          /\ \A u \in Thread \ {t} : pc'[u] = pc[u] /\ held'[u] = held[u]
        BY <1>1 DEF GetCheck, Goto
    <2> HIDE DEF SoundType, TypeOK, ThreadInv, RangeInv, RevertInv, SlideInv
    <2> QED
        BY <2>1
<1>2. ASSUME NEW t \in Thread, GetInc(t) PROVE ClaimInv'
    BY <1>2 DEF GetInc, Goto
<1>3. ASSUME NEW t \in Thread, GetDone(t) PROVE ClaimInv'
    BY <1>3 DEF GetDone, Goto, InRange
<1>4. ASSUME NEW t \in Thread, GetLate(t) PROVE ClaimInv'
    BY <1>4 DEF GetLate, Goto, InRange
<1>5. ASSUME NEW t \in Thread, Fill(t) PROVE ClaimInv'
    BY <1>5 DEF Fill
<1>6. ASSUME NEW t \in Thread, Revert(t) PROVE ClaimInv'
    <2>1. /\ pc[t] = "hold" /\ pc'[t] = "revert" /\ UNCHANGED <<begin_sn, end_sn, local, held>>
          /\ \A u \in Thread \ {t} : pc'[u] = pc[u]
        BY <1>6, NotRefused
    <2> HIDE DEF SoundType, TypeOK, ThreadInv, RangeInv, RevertInv, SlideInv
    <2> QED
        BY <2>1
<1>7. ASSUME NEW t \in Thread, Unref(t) PROVE ClaimInv'
    <2>1. /\ pc[t] = "revert" /\ held[t] # NoId /\ held[t] \in Nat /\ calc_idx(held[t]) \in Slot
          /\ UNCHANGED <<begin_sn, end_sn>>
          /\ \A u \in Thread \ {t} : pc'[u] = pc[u] /\ held'[u] = held[u] /\ local'[u] = local[u]
          /\ ref[calc_idx(held[t])] = 1 => pc'[t] = "rev_end" /\ local'[t] = <<held[t], 0>>
        BY <1>7, IdxRange DEF Unref, Goto, Let, Ids, NoId
    <2>2. CASE calc_idx(held[t]) = calc_idx(end_sn) /\ ref[calc_idx(held[t])] # 1
        <3>1. PICK w \in Thread : w # t /\ Pins(w, calc_idx(held[t]))
            BY <2>1, <2>2, PinnedByAnother DEF Pins
        <3>2. Pins(w, calc_idx(end_sn))'
            BY <2>1, <2>2, <3>1
        <3> QED
            BY <3>2
    <2>3. CASE calc_idx(held[t]) = calc_idx(end_sn) /\ ref[calc_idx(held[t])] = 1
        <3>1. Reclaims(t)'
            BY <2>1, <2>3
        <3> QED
            BY <3>1
    <2>4. CASE calc_idx(held[t]) # calc_idx(end_sn)
        <3> HIDE DEF SoundType, TypeOK, ThreadInv, RangeInv, RevertInv, SlideInv
        <3> QED
            BY <2>1, <2>4
    <2> QED
        BY <2>2, <2>3, <2>4
<1>8. ASSUME NEW t \in Thread, RevertEnd(t) PROVE ClaimInv'
    BY <1>8 DEF RevertEnd, Goto, Let
<1>9. ASSUME NEW t \in Thread, RevertStop(t) PROVE ClaimInv'
    <2>1. /\ pc[t] = "rev_loop" /\ held[t] = NoId /\ UNCHANGED <<begin_sn, end_sn, held>>
          /\ \A u \in Thread \ {t} : pc'[u] = pc[u] /\ local'[u] = local[u]
          /\ ~CanReclaim(t)
        BY <1>9 DEF RevertStop, RevertExit, Goto, Let
    <2>2. /\ local[t][1] \in Nat /\ local[t][2] \in Nat /\ end_sn \in Nat /\ begin_sn \in Nat
          /\ local[t][1] < local[t][2]
        BY <2>1 DEF Ids
    <2>3. end_sn < begin_sn + Size => ~Reclaims(t)
        BY <2>1, <2>2, TurnOlder DEF CanReclaim
    <2> HIDE DEF SoundType, TypeOK, ThreadInv, RangeInv, RevertInv, SlideInv
    <2> QED
        BY <2>1, <2>2, <2>3
<1>10. ASSUME NEW t \in Thread, RevertNext(t) PROVE ClaimInv'
    BY <1>10 DEF RevertNext, Goto, CanReclaim
<1>11. ASSUME NEW t \in Thread, RevertLock(t) PROVE ClaimInv'
    BY <1>11 DEF RevertLock, Goto, Lock
<1>12. ASSUME NEW t \in Thread, RevertLost(t) PROVE ClaimInv'
    <2>1. /\ pc[t] = "rev_check" /\ held[t] = NoId /\ UNCHANGED <<begin_sn, end_sn, held>>
          /\ \A u \in Thread \ {t} : pc'[u] = pc[u] /\ local'[u] = local[u]
          /\ ~Unreferenced(t)
        BY <1>12 DEF RevertLost, RevertExit, Goto, Let
    <2>2. calc_idx(end_sn) \in Slot
        BY IdxRange
    <2>3. CASE Reclaims(t)
        <3>1. ref[calc_idx(end_sn)] # 0
            BY <2>1, <2>2, <2>3 DEF Unreferenced
        <3>2. PICK w \in Thread : Pins(w, calc_idx(end_sn))
            BY <2>2, <3>1, PinnedByNobody
        <3>3. Pins(w, calc_idx(end_sn))'
            BY <2>1, <3>2
        <3> QED
            BY <3>3
    <2>4. CASE ~Reclaims(t)
        <3> HIDE DEF SoundType, TypeOK, ThreadInv, RangeInv, RevertInv, SlideInv
        <3> QED
            BY <2>1, <2>2, <2>4
    <2> QED
        BY <2>3, <2>4
<1>13. ASSUME NEW t \in Thread, RevertReset(t) PROVE ClaimInv'
    BY <1>13 DEF RevertReset, Goto, Reset, Unreferenced
<1>14. ASSUME NEW t \in Thread, RevertBump(t) PROVE ClaimInv'
    <2>1. /\ pc[t] = "rev_bump" /\ end_sn' = end_sn + 1 /\ begin_sn' = begin_sn
          /\ \A u \in Thread \ {t} : pc'[u] = pc[u] /\ local'[u] = local[u]
          /\ held' = held /\ data' = data /\ pc'[t] = "rev_loop"
          /\ local'[t] = <<local[t][1] + 1, local[t][2] + 1>>
        BY <1>14, BumpSlot DEF RevertBump, Goto, Let
    <2>2. /\ local[t][2] = end_sn /\ local[t][1] = end_sn - Size /\ local[t][1] < begin_sn
          /\ calc_idx(local[t][1]) = calc_idx(end_sn) /\ slot_lock[calc_idx(end_sn)] = t
        BY <2>1, BumpSlot
    <2>3. end_sn \in Nat /\ begin_sn \in Nat /\ \A u \in Thread : local[u] \in Nat \X Nat
        BY DEF Ids
    <2>4. (local[t][1] + 1) + Size = end_sn + 1
        BY <2>2, <2>3
    <2>5. calc_idx((local[t][1] + 1) + Size) = calc_idx(local[t][1] + 1)
        BY <2>3, IdxFull
    <2>6. Reclaims(t)'
        BY <2>1, <2>2, <2>4, <2>5
    <2> QED
        BY <2>6
<1>15. ASSUME NEW t \in Thread, SlideCall(t) PROVE ClaimInv'
    BY <1>15 DEF SlideCall, Goto
<1>16. ASSUME NEW t \in Thread, SlideRead(t) PROVE ClaimInv'
    BY <1>16 DEF SlideRead, Goto, Let
<1>17. ASSUME NEW t \in Thread, SlideLock(t) PROVE ClaimInv'
    BY <1>17 DEF SlideLock, Goto, Lock
<1>18. ASSUME NEW t \in Thread, SlideRetry(t) PROVE ClaimInv'
    BY <1>18 DEF SlideRetry, Goto, Let, Unlock, Moved
<1>19. ASSUME NEW t \in Thread, SlideStop(t) PROVE ClaimInv'
    BY <1>19 DEF SlideStop, Goto, Let, Unlock, Moved, SlideExit, Return
<1>20. ASSUME NEW t \in Thread, SlideNext(t) PROVE ClaimInv'
    BY <1>20 DEF SlideNext, Goto, Lock, Moved
<1>21. ASSUME NEW t \in Thread, SlideBegin(t) PROVE ClaimInv'
    <2>1. /\ pc[t] = "sl_begin" /\ pc'[t] = "sl_end" /\ UNCHANGED <<end_sn, held, local>>
          /\ begin_sn' = begin_sn + 1 /\ local[t][1] = begin_sn
          /\ \A u \in Thread \ {t} : pc'[u] = pc[u]
        BY <1>21 DEF SlideBegin, Goto
    <2>2. begin_sn \in Nat /\ end_sn \in Nat
        BY DEF Ids
    <2>3. CASE end_sn < begin_sn + Size
        <3>1. PICK w \in Thread : Pins(w, calc_idx(end_sn)) \/ Reclaims(w)
            BY <2>3
        <3> HIDE DEF SoundType, TypeOK, ThreadInv, RangeInv, RevertInv, SlideInv, ClaimInv
        <3>2. Pins(w, calc_idx(end_sn))' \/ Reclaims(w)'
            BY <2>1, <3>1
        <3> QED
            BY <2>1, <3>2 DEF ClaimInv
    <2>4. CASE end_sn = begin_sn + Size
        <3>1. Reclaims(t)'
            BY <2>1, <2>2, <2>4, IdxFull
        <3> QED
            BY <2>1, <3>1
    <2> QED
        BY <2>2, <2>3, <2>4
<1>22. ASSUME NEW t \in Thread, SlideEnd(t) PROVE ClaimInv'
    BY <1>22 DEF SlideEnd, Goto, Let
<1>23. ASSUME NEW t \in Thread, SlideKeep(t) PROVE ClaimInv'
    <2>1. /\ pc[t] = "sl_ref" /\ pc'[t] = "slide" /\ UNCHANGED <<begin_sn, end_sn, held>>
          /\ \A u \in Thread \ {t} : pc'[u] = pc[u] /\ local'[u] = local[u]
          /\ \/ ref[calc_idx(local[t][1])] # 0
             \/ calc_idx(local[t][2]) # calc_idx(local[t][1])
        BY <1>23 DEF SlideKeep, Goto, Let
    <2>2. calc_idx(end_sn) \in Slot
        BY IdxRange
    <2>3. CASE Reclaims(t)
        <3>1. ref[calc_idx(end_sn)] # 0
            BY <2>1, <2>2, <2>3
        <3>2. PICK w \in Thread : Pins(w, calc_idx(end_sn))
            BY <2>2, <3>1, PinnedByNobody
        <3>3. Pins(w, calc_idx(end_sn))'
            BY <2>1, <3>2
        <3> QED
            BY <3>3
    <2>4. CASE ~Reclaims(t)
        <3> HIDE DEF SoundType, TypeOK, ThreadInv, RangeInv, RevertInv, SlideInv
        <3> QED
            BY <2>1, <2>4
    <2> QED
        BY <2>3, <2>4
<1>24. ASSUME NEW t \in Thread, SlideReset(t) PROVE ClaimInv'
    BY <1>24 DEF SlideReset, Goto, Reset
<1>25. ASSUME NEW t \in Thread, SlideBump(t) PROVE ClaimInv'
    <2>1. /\ pc[t] = "sl_bump" /\ end_sn' = end_sn + 1 /\ begin_sn' = begin_sn
          /\ \A u \in Thread \ {t} : pc'[u] = pc[u] /\ local'[u] = local[u]
          /\ held' = held /\ data' = data /\ pc'[t] = "slide"
          /\ local'[t] = <<0, 0>>
        BY <1>25, BumpSlot DEF SlideBump, Goto, Let
    <2>2. /\ local[t][2] = end_sn /\ local[t][1] = end_sn - Size /\ local[t][1] < begin_sn
          /\ calc_idx(local[t][1]) = calc_idx(end_sn) /\ slot_lock[calc_idx(end_sn)] = t
        BY <2>1, BumpSlot
    <2>3. end_sn \in Nat /\ begin_sn \in Nat /\ \A u \in Thread : local[u] \in Nat \X Nat
        BY DEF Ids
    <2>4. begin_sn = local[t][1] + 1
        BY <2>1
    <2> QED
        BY <2>1, <2>2, <2>3, <2>4
<1>26. ASSUME NEW t \in Thread, NEW g \in Ids, Truncate(t, g) PROVE ClaimInv'
    BY <1>26 DEF Truncate, Goto, Let, InRange
<1>27. ASSUME NEW t \in Thread, TruncateSlot(t) PROVE ClaimInv'
    BY <1>27 DEF TruncateSlot, Let, Reset
<1>28. ASSUME NEW t \in Thread, TruncateDone(t) PROVE ClaimInv'
    BY <1>28 DEF TruncateDone, Goto, Let
<1>29. ASSUME NEW t \in Thread, NEW g \in FirstId .. MaxId, ForwardTruncate(t, g)
      PROVE  ClaimInv'
    BY <1>29 DEF ForwardTruncate
<1>30. ASSUME UNCHANGED vars PROVE ClaimInv'
    BY <1>30
<1> QED
    BY <1>1, <1>2, <1>3, <1>4, <1>5, <1>6, <1>7, <1>8, <1>9, <1>10, <1>11, <1>12, <1>13,
           <1>14, <1>15, <1>16, <1>17, <1>18, <1>19, <1>20, <1>21, <1>22, <1>23, <1>24,
           <1>25, <1>26, <1>27, <1>28, <1>29, <1>30 DEF Next, Proceed, Call

(* The types, and no branch that reports a bug.                            *)
LEMMA TypeStep ==
    ASSUME IInv, RefInv', [Next]_vars, ~turned'
    PROVE  SoundType'
<1> USE WindowAssumption
        DEF IInv, SoundType, TypeOK, ThreadInv, RangeInv, FixedLength, RevertInv, SlideInv, HeldInv,
            Holds, Ids, NoId, Empty, Slot, GetSteps, vars, slotVars
<1>R. ASSUME NEW i \in Slot PROVE ref'[i] \in 0 .. Cardinality(Thread)
    <2>1. {u \in Thread : Pins(u, i)'} \subseteq Thread /\ IsFiniteSet(Thread)
        OBVIOUS
    <2>2. /\ IsFiniteSet({u \in Thread : Pins(u, i)'})
          /\ Cardinality({u \in Thread : Pins(u, i)'}) <= Cardinality(Thread)
        BY <2>1, FS_Subset
    <2>3. /\ Cardinality({u \in Thread : Pins(u, i)'}) \in Nat
          /\ Cardinality(Thread) \in Nat
        BY <2>1, <2>2, FS_CardinalityType
    <2>4. ref'[i] = Cardinality({u \in Thread : Pins(u, i)'})
        BY Zenon DEF RefInv
    <2> QED
        BY <2>2, <2>3, <2>4
<1>1. ASSUME NEW t \in Thread, NEW g \in Ids, GetCheck(t, g) PROVE SoundType'
    BY <1>1 DEF GetCheck, Goto, InRange
<1>2. ASSUME NEW t \in Thread, GetInc(t) PROVE SoundType'
    <2>1. ref' \in [Slot -> 0 .. Cardinality(Thread)]
        BY <1>2, <1>R DEF GetInc
    <2>2. UNCHANGED <<begin_sn, end_sn, slot_lock, data, held, rd, wr, unexpected, turned>>
        BY <1>2 DEF GetInc
    <2> HIDE DEF ThreadInv, RangeInv, RevertInv, SlideInv, HeldInv
    <2> QED
        BY <2>1, <2>2
<1>3. ASSUME NEW t \in Thread, GetDone(t) PROVE SoundType'
    BY <1>3 DEF GetDone, Goto, InRange
<1>4. ASSUME NEW t \in Thread, GetLate(t) PROVE SoundType'
    BY <1>4 DEF GetLate, Goto, InRange
<1>5. ASSUME NEW t \in Thread, Fill(t) PROVE SoundType'
    <2>1. held[t] \in FirstId .. MaxId
        BY <1>5 DEF Fill
    <2>2. data' \in [Slot -> FirstId .. MaxId \union {Empty}]
        BY <1>5, <2>1 DEF Fill
    <2>3. UNCHANGED <<begin_sn, end_sn, ref, slot_lock, held, rd, wr, unexpected, turned>>
        BY <1>5 DEF Fill
    <2> HIDE DEF ThreadInv, RangeInv, RevertInv, SlideInv, HeldInv
    <2> QED
        BY <2>2, <2>3
<1>6. ASSUME NEW t \in Thread, Revert(t) PROVE SoundType'
    <2>1. UNCHANGED <<begin_sn, end_sn, slot_lock, ref, data, held, rd, wr, unexpected, turned>>
        BY <1>6, NotRefused
    <2> HIDE DEF ThreadInv, RangeInv, RevertInv, SlideInv, HeldInv
    <2> QED
        BY <2>1
<1>7. ASSUME NEW t \in Thread, Unref(t) PROVE SoundType'
    <2>1. /\ held[t] \in Nat /\ held[t] < end_sn /\ pc[t] = "revert"
          /\ end_sn \in Nat
        BY <1>7 DEF Unref
    <2>2. calc_idx(held[t]) \in Slot /\ Pins(t, calc_idx(held[t]))
        BY <2>1, IdxRange DEF Pins
    <2>3. ref[calc_idx(held[t])] # 0 /\ ref[calc_idx(held[t])] \in Nat
        BY <2>2, PinnedByNobody
    <2>4. ~(held[t] >= end_sn) /\ ~(ref[calc_idx(held[t])] < 1)
        <3> HIDE DEF IInv
        <3> QED
            BY <2>1, <2>3
    <2>5. unexpected' = FALSE
        BY <1>7, <2>4 DEF Unref
    <2>6. ref' \in [Slot -> 0 .. Cardinality(Thread)]
        BY <1>7, <1>R DEF Unref
    <2>7. UNCHANGED <<begin_sn, end_sn, slot_lock, data, wr, turned>> /\ rd' \subseteq Thread
        BY <1>7 DEF Unref
    <2>8. held' \in [Thread -> Ids \union {NoId}]
        BY <1>7 DEF Unref
    <2> HIDE DEF ThreadInv, RangeInv, RevertInv, SlideInv, HeldInv
    <2> QED
        BY <2>5, <2>6, <2>7, <2>8
<1>8. ASSUME NEW t \in Thread, RevertEnd(t) PROVE SoundType'
    BY <1>8 DEF RevertEnd, Goto, Let
<1>9. ASSUME NEW t \in Thread, RevertStop(t) PROVE SoundType'
    BY <1>9 DEF RevertStop, Goto, Let, RevertExit, CanReclaim
<1>10. ASSUME NEW t \in Thread, RevertNext(t) PROVE SoundType'
    BY <1>10 DEF RevertNext, Goto, CanReclaim
<1>11. ASSUME NEW t \in Thread, RevertLock(t) PROVE SoundType'
    BY <1>11 DEF RevertLock, Goto, Lock
<1>12. ASSUME NEW t \in Thread, RevertLost(t) PROVE SoundType'
    BY <1>12 DEF RevertLost, Goto, Let, Unlock, RevertExit, Unreferenced
<1>13. ASSUME NEW t \in Thread, RevertReset(t) PROVE SoundType'
    BY <1>13 DEF RevertReset, Goto, Reset, Unreferenced
<1>14. ASSUME NEW t \in Thread, RevertBump(t) PROVE SoundType'
    <2>1. /\ pc[t] = "rev_bump" /\ end_sn' = end_sn + 1 /\ begin_sn' = begin_sn
          /\ \A u \in Thread \ {t} : pc'[u] = pc[u] /\ local'[u] = local[u]
          /\ held' = held /\ data' = data /\ pc'[t] = "rev_loop"
          /\ local'[t] = <<local[t][1] + 1, local[t][2] + 1>>
        BY <1>14, BumpSlot DEF RevertBump, Goto, Let
    <2>2. /\ local[t][2] = end_sn /\ local[t][1] = end_sn - Size /\ local[t][1] < begin_sn
          /\ calc_idx(local[t][1]) = calc_idx(end_sn) /\ slot_lock[calc_idx(end_sn)] = t
        BY <2>1, BumpSlot
    <2>3. end_sn \in Nat /\ begin_sn \in Nat /\ \A u \in Thread : local[u] \in Nat \X Nat
        BY DEF Ids
    <2>4. unexpected' = FALSE
        BY <1>14, <2>1, <2>2 DEF RevertBump
    <2>5. end_sn' \in Nat
        BY <2>1, <2>2, <2>3
    <2>6. slot_lock' \in [Slot -> Thread \union {NoOne}]
        BY <1>14 DEF RevertBump, Unlock, SlideUnlock
    <2>7. UNCHANGED <<begin_sn, ref, data, held, wr, turned>> /\ rd' \subseteq Thread
        BY <1>14 DEF RevertBump
    <2> HIDE DEF ThreadInv, RangeInv, RevertInv, SlideInv, HeldInv
    <2> QED
        BY <2>4, <2>5, <2>6, <2>7
<1>15. ASSUME NEW t \in Thread, SlideCall(t) PROVE SoundType'
    BY <1>15 DEF SlideCall, Goto
<1>16. ASSUME NEW t \in Thread, SlideRead(t) PROVE SoundType'
    BY <1>16 DEF SlideRead, Goto, Let
<1>17. ASSUME NEW t \in Thread, SlideLock(t) PROVE SoundType'
    BY <1>17 DEF SlideLock, Goto, Lock
<1>18. ASSUME NEW t \in Thread, SlideRetry(t) PROVE SoundType'
    BY <1>18 DEF SlideRetry, Goto, Let, Unlock, Moved
<1>19. ASSUME NEW t \in Thread, SlideStop(t) PROVE SoundType'
    BY <1>19 DEF SlideStop, Goto, Let, Unlock, Moved, SlideExit, Return
<1>20. ASSUME NEW t \in Thread, SlideNext(t) PROVE SoundType'
    BY <1>20 DEF SlideNext, Goto, Lock, Moved
<1>21. ASSUME NEW t \in Thread, SlideBegin(t) PROVE SoundType'
    <2>1. begin_sn = local[t][1] /\ begin_sn <= MaxId
        BY <1>21 DEF SlideBegin
    <2>2. begin_sn' \in Ids
        <3>1. begin_sn' = begin_sn + 1 /\ begin_sn \in Nat /\ FirstId <= begin_sn
            BY <1>21, <2>1 DEF SlideBegin
        <3> HIDE DEF IInv
        <3> QED
            BY <2>1, <3>1
    <2>3. unexpected' = FALSE
        BY <1>21, <2>1 DEF SlideBegin
    <2>4. UNCHANGED <<end_sn, slot_lock, ref, data, held, rd, wr, turned>>
        BY <1>21 DEF SlideBegin
    <2> HIDE DEF ThreadInv, RangeInv, RevertInv, SlideInv, HeldInv
    <2> QED
        BY <2>2, <2>3, <2>4
<1>22. ASSUME NEW t \in Thread, SlideEnd(t) PROVE SoundType'
    BY <1>22 DEF SlideEnd, Goto, Let
<1>23. ASSUME NEW t \in Thread, SlideKeep(t) PROVE SoundType'
    BY <1>23 DEF SlideKeep, Goto, Let, SlideUnlock, Unlock
<1>24. ASSUME NEW t \in Thread, SlideReset(t) PROVE SoundType'
    BY <1>24 DEF SlideReset, Goto, Reset
<1>25. ASSUME NEW t \in Thread, SlideBump(t) PROVE SoundType'
    <2>1. /\ pc[t] = "sl_bump" /\ end_sn' = end_sn + 1 /\ begin_sn' = begin_sn
          /\ \A u \in Thread \ {t} : pc'[u] = pc[u] /\ local'[u] = local[u]
          /\ held' = held /\ data' = data /\ pc'[t] = "slide"
          /\ local'[t] = <<0, 0>>
        BY <1>25, BumpSlot DEF SlideBump, Goto, Let
    <2>2. /\ local[t][2] = end_sn /\ local[t][1] = end_sn - Size /\ local[t][1] < begin_sn
          /\ calc_idx(local[t][1]) = calc_idx(end_sn) /\ slot_lock[calc_idx(end_sn)] = t
        BY <2>1, BumpSlot
    <2>3. end_sn \in Nat /\ begin_sn \in Nat /\ \A u \in Thread : local[u] \in Nat \X Nat
        BY DEF Ids
    <2>4. unexpected' = FALSE
        BY <1>25, <2>1, <2>2 DEF SlideBump
    <2>5. end_sn' \in Nat
        BY <2>1, <2>2, <2>3
    <2>6. slot_lock' \in [Slot -> Thread \union {NoOne}]
        BY <1>25 DEF SlideBump, Unlock, SlideUnlock
    <2>7. UNCHANGED <<begin_sn, ref, data, held, wr, turned>> /\ rd' \subseteq Thread
        BY <1>25 DEF SlideBump
    <2> HIDE DEF ThreadInv, RangeInv, RevertInv, SlideInv, HeldInv
    <2> QED
        BY <2>4, <2>5, <2>6, <2>7
<1>26. ASSUME NEW t \in Thread, NEW g \in Ids, Truncate(t, g) PROVE SoundType'
    BY <1>26 DEF Truncate, Goto, Let, InRange
<1>27. ASSUME NEW t \in Thread, TruncateSlot(t) PROVE SoundType'
    BY <1>27 DEF TruncateSlot, Let, Reset
<1>28. ASSUME NEW t \in Thread, TruncateDone(t) PROVE SoundType'
    BY <1>28 DEF TruncateDone, Goto, Let
<1>29. ASSUME NEW t \in Thread, NEW g \in FirstId .. MaxId, ForwardTruncate(t, g)
      PROVE  SoundType'
    BY SMTT(30), <1>29 DEF ForwardTruncate
<1>30. ASSUME UNCHANGED vars PROVE SoundType'
    BY <1>30
<1> QED
    BY <1>1, <1>2, <1>3, <1>4, <1>5, <1>6, <1>7, <1>8, <1>9, <1>10, <1>11, <1>12, <1>13,
           <1>14, <1>15, <1>16, <1>17, <1>18, <1>19, <1>20, <1>21, <1>22, <1>23, <1>24,
           <1>25, <1>26, <1>27, <1>28, <1>29, <1>30 DEF Next, Proceed, Call

-------------------------------------------------------------------------------
(* What the window guarantees                                              *)

(* The invariant holds when init has built the ring.                       *)
LEMMA InitIInv == Init => IInv
<1> SUFFICES ASSUME Init PROVE IInv
    OBVIOUS
<1> USE WindowAssumption DEF Init
<1>1. /\ \A t \in Thread : pc[t] = "idle" /\ held[t] = NoId /\ local[t] = <<0, 0>>
      /\ local \in [Thread -> Nat \X Nat] /\ begin_sn = FirstId /\ end_sn = FirstId + Size
      /\ \A i \in Slot : ref[i] = 0 /\ data[i] = Empty
    BY DEF NoLocal
<1>2. Cardinality(Thread) \in Nat /\ Cardinality({}) = 0
    BY FS_CardinalityType, FS_EmptySet
<1>3. SoundType
    <2>1. begin_sn \in Ids /\ end_sn \in Nat
        BY DEF Ids
    <2>2. /\ ref \in [Slot -> 0 .. Cardinality(Thread)]
          /\ slot_lock \in [Slot -> Thread \union {NoOne}]
          /\ data \in [Slot -> FirstId .. MaxId \union {Empty}]
          /\ held \in [Thread -> Ids \union {NoId}]
        BY <1>2
    <2>3. /\ rd \subseteq Thread /\ wr \in Thread \union {NoOne}
          /\ unexpected \in BOOLEAN /\ turned \in BOOLEAN /\ ~unexpected
        OBVIOUS
    <2> QED
        BY <2>1, <2>2, <2>3 DEF SoundType, TypeOK
<1>4. ThreadInv /\ LockInv
    BY <1>1 DEF ThreadInv, LockInv, RevSteps, OneLock, TwoLocks, GetSteps
<1>5. RefInv
    <2>1. \A i \in Slot : {t \in Thread : Pins(t, i)} = {}
        BY <1>1 DEF Pins
    <2> QED
        BY <1>1, <1>2, <2>1 DEF RefInv
<1>6. RangeInv
    BY DEF RangeInv, FixedLength
<1>7. RevertInv /\ SlideInv /\ HeldInv
    BY <1>1 DEF RevertInv, SlideInv, HeldInv, GetSteps, Loop, RevSteps, Holds
<1>8. ResetInv /\ DataInv
    BY <1>1 DEF ResetInv, DataInv
<1>9. ClaimInv
    BY <1>1 DEF ClaimInv
<1> QED
    BY <1>3, <1>4, <1>5, <1>6, <1>7, <1>8, <1>9 DEF IInv

(* Every step preserves the invariant, unless a revert_ reclaims a slot    *)
(* with an id more than a turn old in it.                                  *)
LEMMA NextIInv ==
    ASSUME IInv, [Next]_vars, ~turned'
    PROVE  IInv'
<1>1. ThreadInv' /\ LockInv' /\ RefInv'
    BY ThreadStep, LockStep, RefStep DEF IInv
<1>2. RangeInv' /\ RevertInv' /\ SlideInv'
    BY RangeStep, RevertStep, SlideStep
<1>3. HeldInv' /\ ResetInv' /\ DataInv' /\ ClaimInv'
    BY HeldStep, ResetStep, DataStep, ClaimStep
<1>4. SoundType'
    BY <1>1, TypeStep
<1> QED
    BY <1>1, <1>2, <1>3, <1>4 DEF IInv

(* A turned reclaim stays on record.                                       *)
LEMMA TurnedStays ==
    ASSUME turned, [Next]_vars
    PROVE  turned'
    BY DEF Next, Proceed, Call, vars, GetCheck, GetInc, GetDone, GetLate, Fill, Revert, Unref,
           RevertEnd, RevertStop, RevertNext, RevertLock, RevertLost, RevertReset, RevertBump,
           SlideCall, SlideRead, SlideLock, SlideRetry, SlideStop, SlideNext, SlideBegin,
           SlideEnd, SlideKeep, SlideReset, SlideBump, Truncate, TruncateSlot, TruncateDone,
           ForwardTruncate

(* The invariant of the window holds up to the first reclaim by a revert_  *)
(* that a full turn of the ring has overtaken.  No assumption is made of   *)
(* how long a thread stays in any other step.                              *)
THEOREM Inductive == Spec => [](turned \/ IInv)
<1>1. Init => turned \/ IInv
    BY InitIInv
<1>2. (turned \/ IInv) /\ [Next]_vars => (turned \/ IInv)'
    BY NextIInv, TurnedStays
<1> QED
    BY <1>1, <1>2, PTL DEF Spec

(* Whoever reclaims, slide or the last revert, end_sn_ never runs more     *)
(* than size_ ahead of begin_sn_ and never falls behind it, and none of    *)
(* the branches of revert_ and slide that report "must be bug" is taken,   *)
(* before a turned reclaim.                                                *)
THEOREM WindowIntactAlways == Spec => []WindowIntact
<1>1. turned \/ IInv => WindowIntact
    BY DEF IInv, RangeInv, SoundType, WindowIntact
<1> QED
    BY <1>1, Inductive, PTL

(* get(i) gives the slot of log i, and that slot keeps nothing but log i   *)
(* until the thread reverts it, before a turned reclaim.                   *)
THEOREM HeldSlotIsOwnAlways == Spec => []HeldSlotIsOwn
<1>1. ASSUME IInv PROVE HeldSlotIsOwn
    <2>1. SUFFICES ASSUME NEW t \in Thread, Holds(t),
                          data[calc_idx(held[t])] # Empty
                   PROVE  data[calc_idx(held[t])] = held[t]
        BY DEF HeldSlotIsOwn
    <2>2. PICK i \in Slot : i = calc_idx(held[t])
        BY <1>1, <2>1, IdxRange, WindowAssumption
           DEF IInv, SoundType, TypeOK, Holds, Ids, NoId
    <2>3. /\ data[i] \in Int /\ held[t] \in Int /\ end_sn \in Int
          /\ calc_idx(data[i]) = calc_idx(held[t])
          /\ end_sn - Size <= data[i] /\ data[i] < end_sn
          /\ end_sn - Size <= held[t] /\ held[t] < end_sn
        BY <1>1, <2>1, <2>2, WindowAssumption
           DEF IInv, SoundType, TypeOK, DataInv, HeldInv, Holds, Ids, NoId, Empty
    <2>4. CASE data[i] < held[t]
        BY <2>3, <2>4, IdxTurn, WindowAssumption
    <2>5. CASE held[t] < data[i]
        BY <2>3, <2>5, IdxTurn, WindowAssumption
    <2> QED
        BY <2>2, <2>3, <2>4, <2>5
<1>2. turned => HeldSlotIsOwn
    BY DEF HeldSlotIsOwn
<1> QED
    BY <1>1, <1>2, Inductive, PTL

(* slide and revert never both leave a slot to the other: with nobody      *)
(* inside an operation, the window is whole or its oldest slot is held,    *)
(* before a turned reclaim.                                                *)
THEOREM NoSlotLostAlways == Spec => []NoSlotLost
<1>1. ASSUME IInv PROVE NoSlotLost
    <2>1. SUFFICES ASSUME \A t \in Thread : pc[t] \in {"idle", "hold"},
                          end_sn # begin_sn + Size
                   PROVE  \E t \in Thread : held[t] = end_sn - Size
        BY DEF NoSlotLost
    <2>2. end_sn < begin_sn + Size
        BY <1>1, <2>1, WindowAssumption
           DEF IInv, SoundType, TypeOK, RangeInv, FixedLength, Ids
    <2>3. PICK t \in Thread : Pins(t, calc_idx(end_sn))
        BY <1>1, <2>1, <2>2 DEF IInv, ClaimInv, Reclaims, Loop, RevSteps
    <2>4. Holds(t) /\ calc_idx(held[t]) = calc_idx(end_sn)
        BY <2>1, <2>3 DEF Pins, Holds
    <2> QED
        BY <1>1, <2>4, HeldIsOldest
<1>2. turned => NoSlotLost
    BY DEF NoSlotLost
<1> QED
    BY <1>1, <1>2, Inductive, PTL

(* revert_ gives away the slot of a log that has slid out, as its comment  *)
(* says, unless its id is more than a turn old: that is the one way in     *)
(* which the ring goes wrong.                                              *)
THEOREM OnlyTurnedOverruns == Spec => [](turned \/ ReclaimedHasSlid)
<1>1. ASSUME IInv PROVE ReclaimedHasSlid
    BY <1>1, BumpSlot DEF ReclaimedHasSlid
<1> QED
    BY <1>1, Inductive, PTL

===============================================================================
