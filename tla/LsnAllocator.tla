----------------------------- MODULE LsnAllocator -----------------------------
(***************************************************************************)
(* LSNAllocator of palf: the leader's threads take the place, the group    *)
(* log id and the scn of the next entry from one 128-bit word with a       *)
(* compare-and-swap under a read lock, and move the bases its bit fields   *)
(* are relative to under the write lock.                                   *)
(***************************************************************************)
EXTENDS Integers, FiniteSets

CONSTANTS
  Thread,            \* threads inside submit_log (palf's read lock)
  PALF_BLOCK_SIZE,
  LOG_CUT_TRIGGER,   \* groups are cut when they cross a multiple of it
  PADDING_TRIGGER,   \* CLOG_FILE_TAIL_PADDING_TRIGGER
  GROUP_HEADER,      \* LogGroupEntryHeader::HEADER_SER_SIZE
  MaxSize,           \* the largest entry with its header
  EntrySize,         \* valid_log_size of the entries submitted
  IdBits, TsBits,    \* LOG_ID_DELTA_BIT_CNT, LOG_TS_DELTA_BIT_CNT
  Slack,             \* the 1000 values kept free below 2^bits
  IdUpper, LsnUpper, \* log_id_upper_bound and lsn_upper_bound of the calls
  RefScn,            \* scns callers and other leaders use
  FollowLsn,         \* ends of logs written by other leaders
  NoAnswer

ASSUME SizeAssumption ==
  /\ {PALF_BLOCK_SIZE, LOG_CUT_TRIGGER, PADDING_TRIGGER, GROUP_HEADER, MaxSize} \subseteq Nat \ {0}
  /\ EntrySize \subseteq 1..MaxSize
  /\ GROUP_HEADER <= PADDING_TRIGGER
  /\ PADDING_TRIGGER < LOG_CUT_TRIGGER
  /\ MaxSize + GROUP_HEADER + PADDING_TRIGGER <= PALF_BLOCK_SIZE
ASSUME WidthAssumption ==
  /\ {IdBits, TsBits, Slack, IdUpper, LsnUpper} \subseteq Nat
  /\ {2^IdBits, 2^TsBits} \subseteq Nat
  /\ 2 + Slack < 2^IdBits /\ 2 + Slack < 2^TsBits
ASSUME ScnAssumption == RefScn \subseteq Nat /\ FollowLsn \subseteq 0..LsnUpper

Word == [cut : BOOLEAN, idDelta : 0..(2^IdBits - 1), scnDelta : 0..(2^TsBits - 1), lsn : Nat]
CallArg == [size : EntrySize, ref : RefScn]
Answer == [lsn : Nat, len : Nat, padding : Nat, id : Nat, paddingScn : Nat, scn : Nat, ref : Nat]

ASSUME NoAnswerAssumption == NoAnswer \notin Word \union CallArg \union Answer

VARIABLES
  lsn_ts_meta,           \* the word: [cut, idDelta, scnDelta, lsn]
  log_id_base, scn_base,
  pc, arg, last,         \* per thread: where it is, its call, the word it loaded
  out,                   \* the last answer given
  group,                 \* history: where the current group began and its entries
  frozen,                \* history: the last group log a freezer was told of
  unexpected             \* an OB_ERR_UNEXPECTED branch was taken

lock_free == <<log_id_base, scn_base>>
allocVars == <<lsn_ts_meta, log_id_base, scn_base, pc, arg, last, out, group, frozen, unexpected>>

LOG_ID_DELTA_UPPER_BOUND == 2^IdBits - Slack
LOG_TS_DELTA_UPPER_BOUND == 2^TsBits - Slack
LSNTsMeta(cut, id, scn, lsn) ==
  [cut |-> cut, idDelta |-> id % 2^IdBits, scnDelta |-> scn % 2^TsBits, lsn |-> lsn]

lsn_2_offset(lsn) == lsn % PALF_BLOCK_SIZE
CutOffset(lsn) == lsn_2_offset(lsn) % LOG_CUT_TRIGGER  \* offset & LOG_CUT_TRIGGER_MASK
Larger(a, b) == IF a > b THEN a ELSE b
NoGroup == [begin |-> 0, entries |-> 0]

get_max_log_id == log_id_base + lsn_ts_meta.idDelta
get_max_scn == scn_base + lsn_ts_meta.scnDelta

(* A block ends with its last log or has room for a padding log. *)
TailOk(lsn) == lsn_2_offset(lsn) = 0 \/ PALF_BLOCK_SIZE - lsn_2_offset(lsn) >= PADDING_TRIGGER
Idle == \A t \in Thread : pc[t] = "idle"
Readers == {t \in Thread : pc[t] = "cas"}

Init ==
  /\ log_id_base = 0 /\ scn_base = 0
  /\ lsn_ts_meta = LSNTsMeta(TRUE, 0, 0, 0)
  /\ pc = [t \in Thread |-> "idle"]
  /\ arg = [t \in Thread |-> NoAnswer] /\ last = [t \in Thread |-> NoAnswer]
  /\ out = NoAnswer /\ group = NoGroup /\ frozen = 0 /\ unexpected = FALSE
-----------------------------------------------------------------------------
(* Where the entry goes that follows the word `m`. *)
AtCutBoundary(m) == ~m.cut /\ lsn_2_offset(m.lsn) > 0 /\ CutOffset(m.lsn) = 0

(* Mutant: an entry joins the group whatever boundary it crosses.          *)
AggregatesAcross(m, size) == ~m.cut

Aggregates(m, size) ==
  /\ ~m.cut
  /\ lsn_2_offset(m.lsn) > 0 => CutOffset(m.lsn) + size <= LOG_CUT_TRIGGER

(* What is left of the block behind the entry. *)
Room(m, size) ==
  PALF_BLOCK_SIZE - lsn_2_offset(m.lsn) - size - (IF Aggregates(m, size) THEN 0 ELSE GROUP_HEADER)

(* Mutant: a short tail is left as it is.                                  *)
PadsWhenFull(m, size) == Room(m, size) < 0

Pads(m, size) == Room(m, size) # 0 /\ Room(m, size) < PADDING_TRIGGER
Padding(m, size) == IF Pads(m, size) THEN PALF_BLOCK_SIZE - lsn_2_offset(m.lsn) ELSE 0
Joins(m, size) == Aggregates(m, size) /\ ~Pads(m, size)
Length(m, size) == IF Joins(m, size) THEN size ELSE size + GROUP_HEADER
NewGroups(m, size) == IF Pads(m, size) THEN 2 ELSE IF Joins(m, size) THEN 0 ELSE 1
NextLsn(m, size) == m.lsn + Padding(m, size) + Length(m, size)

NextCut(m, size) ==
  Room(m, size) = 0 \/ CutOffset(m.lsn + Padding(m, size)) + Length(m, size) >= LOG_CUT_TRIGGER

NextScn(m, ref) == Larger(ref, scn_base + m.scnDelta + 1)

(* Mutant: the number of group logs since the last move is not looked at.  *)
NeedUpdateScnBase(m, ref) == NextScn(m, ref) + 1 - scn_base >= LOG_TS_DELTA_UPPER_BOUND

NeedUpdateBase(m, ref) ==
  \/ NextScn(m, ref) + 1 - scn_base >= LOG_TS_DELTA_UPPER_BOUND
  \/ m.idDelta + 2 >= LOG_ID_DELTA_UPPER_BOUND

ExceedsUpperBound(m, size) ==
  log_id_base + m.idDelta + NewGroups(m, size) > IdUpper \/ NextLsn(m, size) > LsnUpper

(* alloc_lsn_scn is called. *)
Call(t) ==
  /\ pc[t] = "idle"
  /\ \E size \in EntrySize, ref \in RefScn : arg' = [arg EXCEPT ![t] = [size |-> size, ref |-> ref]]
  /\ pc' = [pc EXCEPT ![t] = "load"]
  /\ UNCHANGED <<lsn_ts_meta, lock_free, last, out, group, frozen, unexpected>>

Returns(t) ==
  /\ pc' = [pc EXCEPT ![t] = "idle"]
  /\ arg' = [arg EXCEPT ![t] = NoAnswer] /\ last' = [last EXCEPT ![t] = NoAnswer]

(* What the thread does with the word it loads: move the bases first, give up, or try to swap. *)
(* At a cut boundary the code sets OB_ERR_UNEXPECTED and still goes on to the CAS, with the offset *)
(* zero.  The branch is dead (GroupStaysInWindow), so the call ends here.                           *)
AfterLoad(t, m) ==
  LET ref == arg[t].ref
      size == arg[t].size
  IN  \/ /\ NeedUpdateBase(m, ref)
         /\ pc' = [pc EXCEPT ![t] = "base"] /\ last' = [last EXCEPT ![t] = NoAnswer]
         /\ UNCHANGED <<arg, unexpected>>
      \/ /\ ~NeedUpdateBase(m, ref) /\ (AtCutBoundary(m) \/ ExceedsUpperBound(m, size))
         /\ Returns(t) /\ unexpected' = (unexpected \/ AtCutBoundary(m))
      \/ /\ ~NeedUpdateBase(m, ref) /\ ~AtCutBoundary(m) /\ ~ExceedsUpperBound(m, size)
         /\ pc' = [pc EXCEPT ![t] = "cas"] /\ last' = [last EXCEPT ![t] = m]
         /\ UNCHANGED <<arg, unexpected>>

(* LOAD128 under the read lock. *)
Load(t) ==
  /\ pc[t] = "load"
  /\ AfterLoad(t, lsn_ts_meta)
  /\ UNCHANGED <<lsn_ts_meta, lock_free, out, group, frozen>>

(* submit_log gives the padding log the scn and the entry the next one. *)
EntryScn(m, size, scn) == IF Pads(m, size) THEN scn + 1 ELSE scn

(* CAS128 succeeds. *)
Swap(t) ==
  LET m == last[t]
      size == arg[t].size
      scn == NextScn(m, arg[t].ref)
      entryScn == EntryScn(m, size, scn)
      begin == m.lsn + Padding(m, size)
  IN  /\ pc[t] = "cas" /\ m = lsn_ts_meta
      /\ lsn_ts_meta' = LSNTsMeta(NextCut(m, size), m.idDelta + NewGroups(m, size),
                                  entryScn - scn_base, NextLsn(m, size))
      /\ out' = [lsn |-> begin, len |-> Length(m, size), padding |-> Padding(m, size),
                 id |-> log_id_base + m.idDelta + NewGroups(m, size),
                 paddingScn |-> scn, scn |-> entryScn, ref |-> arg[t].ref]
      /\ group' = IF Joins(m, size) THEN [group EXCEPT !.entries = 2]
                                    ELSE [begin |-> begin, entries |-> 1]
      /\ Returns(t)
      /\ UNCHANGED <<lock_free, frozen, unexpected>>

(* CAS128 fails; the loop loads again without giving the read lock back. *)
SwapFails(t) ==
  /\ pc[t] = "cas" /\ last[t] # lsn_ts_meta
  /\ AfterLoad(t, lsn_ts_meta)
  /\ UNCHANGED <<lsn_ts_meta, lock_free, out, group, frozen>>

(* Mutant: a cut that was asked for is lost when the bases move.           *)
UpdateBaseUncut(t) ==
  /\ pc[t] = "base" /\ Readers = {}
  /\ log_id_base' = get_max_log_id
  /\ scn_base' = Larger(arg[t].ref, get_max_scn)
  /\ lsn_ts_meta' = LSNTsMeta(FALSE, 0, 0, lsn_ts_meta.lsn)
  /\ pc' = [pc EXCEPT ![t] = "load"]
  /\ UNCHANGED <<arg, last, out, group, frozen, unexpected>>

(* Mutant: the base moves to the last scn only, not to the caller's.       *)
UpdateBaseLastScn(t) ==
  /\ pc[t] = "base" /\ Readers = {}
  /\ log_id_base' = get_max_log_id /\ scn_base' = get_max_scn
  /\ lsn_ts_meta' = LSNTsMeta(lsn_ts_meta.cut, 0, 0, lsn_ts_meta.lsn)
  /\ pc' = [pc EXCEPT ![t] = "load"]
  /\ UNCHANGED <<arg, last, out, group, frozen, unexpected>>

(* The bases move up to the last id and scn under the write lock. *)
UpdateBase(t) ==
  /\ pc[t] = "base" /\ Readers = {}
  /\ log_id_base' = get_max_log_id
  /\ scn_base' = Larger(arg[t].ref, get_max_scn)
  /\ lsn_ts_meta' = LSNTsMeta(lsn_ts_meta.cut, 0, 0, lsn_ts_meta.lsn)
  /\ pc' = [pc EXCEPT ![t] = "load"]
  /\ UNCHANGED <<arg, last, out, group, frozen, unexpected>>

(* try_freeze, under the read lock: the last group takes no more entries. *)
TryFreeze ==
  /\ lsn_ts_meta' = [lsn_ts_meta EXCEPT !.cut = TRUE]
  /\ frozen' = get_max_log_id
  /\ UNCHANGED <<lock_free, pc, arg, last, out, group, unexpected>>
-----------------------------------------------------------------------------
(* What runs under palf's write lock, while no thread submits. *)
ForgetAnswers ==
  /\ out' = NoAnswer /\ group' = NoGroup /\ frozen' = 0
  /\ UNCHANGED <<pc, arg, last, unexpected>>

(* inc_update_last_log_info for a group log received or read from disk. *)
IncUpdateLastLogInfo(id, scn, lsn) ==
  LET rebase == id - log_id_base >= LOG_ID_DELTA_UPPER_BOUND
                \/ scn < scn_base \/ scn - scn_base >= LOG_TS_DELTA_UPPER_BOUND
  IN  /\ id >= get_max_log_id /\ lsn >= lsn_ts_meta.lsn
      /\ log_id_base' = IF rebase THEN id ELSE log_id_base
      /\ scn_base' = IF rebase THEN scn ELSE scn_base
      /\ lsn_ts_meta' = IF rebase THEN LSNTsMeta(TRUE, 0, 0, lsn)
                                  ELSE LSNTsMeta(TRUE, id - log_id_base, scn - scn_base, lsn)
      /\ ForgetAnswers

(* truncate: the log ends at an earlier log, or after a rebuild at a later one. *)
Truncate(id, scn, lsn) ==
  /\ log_id_base' = id /\ scn_base' = scn
  /\ lsn_ts_meta' = LSNTsMeta(TRUE, 0, 0, lsn)
  /\ ForgetAnswers

OtherLog ==
  /\ Idle
  /\ \E id \in 1..IdUpper, scn \in RefScn, lsn \in {l \in FollowLsn : TailOk(l)} :
       \/ (id > get_max_log_id <=> lsn > lsn_ts_meta.lsn) /\ IncUpdateLastLogInfo(id, scn, lsn)
       \/ Truncate(id, scn, lsn)

(* inc_update_scn_base when the leader becomes active or the access mode changes. *)
IncUpdateScnBase ==
  \E scn \in RefScn :
    /\ Idle
    /\ get_max_scn <= scn
    /\ scn_base' = scn
    /\ lsn_ts_meta' = LSNTsMeta(TRUE, lsn_ts_meta.idDelta, 0, lsn_ts_meta.lsn)
    /\ UNCHANGED <<log_id_base, pc, arg, last, out, group, frozen, unexpected>>

ThreadStep(t) == Call(t) \/ Load(t) \/ Swap(t) \/ SwapFails(t) \/ UpdateBase(t)

Next == (\E t \in Thread : ThreadStep(t)) \/ TryFreeze \/ OtherLog \/ IncUpdateScnBase

Spec == Init /\ [][Next]_allocVars

(* A thread inside alloc_lsn_scn keeps running. *)
CallStep(t) == Load(t) \/ Swap(t) \/ SwapFails(t) \/ UpdateBase(t)
FairSpec == Spec /\ \A t \in Thread : WF_allocVars(CallStep(t))
-----------------------------------------------------------------------------
(* The word, the bases and the threads have the values the code gives them. *)
TypeOK ==
  /\ lsn_ts_meta \in Word /\ log_id_base \in Nat /\ scn_base \in Nat
  /\ pc \in [Thread -> {"idle", "load", "cas", "base"}]
  /\ \A t \in Thread :
       /\ pc[t] = "idle" <=> arg[t] = NoAnswer
       /\ pc[t] # "idle" => arg[t].size \in EntrySize /\ arg[t].ref \in RefScn
       /\ IF pc[t] = "cas" THEN last[t] \in Word ELSE last[t] = NoAnswer
  /\ unexpected \in BOOLEAN

(* Whatever entries, freezes and other leaders' logs came before, the log never ends
   so close to the end of a block that the padding log that would be needed next has
   no room, and a padding log is never longer than the buffer it is built in
   (the range stated beside MAX_LOG_BUFFER_SIZE). *)
PaddingFits ==
  /\ TailOk(lsn_ts_meta.lsn)
  /\ (out # NoAnswer /\ out.padding > 0) =>
       /\ out.padding >= PADDING_TRIGGER
       /\ out.padding < MaxSize + GROUP_HEADER + PADDING_TRIGGER

(* A group that several threads put entries into ends where its cut window ends at the
   latest, and no group leaves its block, so a group never outgrows one entry or one
   window.  Where the log ends at a cut boundary the word asks for a new group:
   "last_block_offset is reach 2M boundary" is never reported. *)
GroupStaysInWindow ==
  /\ ~unexpected
  /\ CutOffset(lsn_ts_meta.lsn) = 0 => lsn_ts_meta.cut
  /\ group # NoGroup =>
       LET first == lsn_2_offset(group.begin)
           final == lsn_2_offset(lsn_ts_meta.lsn - 1)
       IN  /\ first <= final
           /\ group.entries > 1 => first \div LOG_CUT_TRIGGER = final \div LOG_CUT_TRIGGER

(* A group a freezer was told of gets no further entry, not even from a thread that had
   loaded the word before the freeze or after the bases were moved. *)
FrozenGetsNoEntry == [][(out' # out /\ out' # NoAnswer) => out'.id > frozen]_allocVars

(* The answers are those of the oracle: no bit field overflows, no move of the bases and
   no lost swap shows. *)
Oracle == INSTANCE LsnOracle WITH
  end <- lsn_ts_meta.lsn, maxId <- get_max_log_id, maxScn <- get_max_scn
ImplementsOracle == Oracle!Spec

(* Every call of alloc_lsn_scn returns, also the one that had to move the bases. *)
CallReturns == \A t \in Thread : (pc[t] # "idle") ~> (pc[t] = "idle")
=============================================================================
