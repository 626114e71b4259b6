-------------------------- MODULE LsnAllocatorProofs --------------------------
(***************************************************************************)
(* Proofs about the allocator, for every block size, bit width and number  *)
(* of threads: IInv is inductive, the safety properties follow from it,    *)
(* and the allocator implements the oracle.                                *)
(***************************************************************************)
EXTENDS LsnAllocator, TLAPS

-------------------------------------------------------------------------------
(* The inductive invariant                                                 *)

(* The block of a place, the cut window of an offset, the offset in it.    *)
Block(lsn) == lsn \div PALF_BLOCK_SIZE
Window(off) == off \div LOG_CUT_TRIGGER
InWindow(off) == off % LOG_CUT_TRIGGER

FinalOffset == lsn_2_offset(lsn_ts_meta.lsn - 1)

CallInv ==
  /\ arg \in [Thread -> CallArg \union {NoAnswer}]
  /\ last \in [Thread -> Word \union {NoAnswer}]

(* The word a thread is about to swap was looked at with the bases that    *)
(* are in force: they only move while no thread is in that place.          *)
LoadInv ==
  \A t \in Thread : pc[t] = "cas" =>
    /\ ~NeedUpdateBase(last[t], arg[t].ref)
    /\ ~AtCutBoundary(last[t])

(* Where the current group lies, and when it may still grow.               *)
GroupInv ==
  /\ group \in [begin : Nat, entries : Nat]
  /\ group = NoGroup => lsn_ts_meta.cut
  /\ group # NoGroup =>
       /\ lsn_2_offset(group.begin) <= FinalOffset
       /\ (group.entries > 1 \/ ~lsn_ts_meta.cut) =>
            Window(lsn_2_offset(group.begin)) = Window(FinalOffset)

(* A group that was frozen is closed, or no longer the last one.           *)
FrozenInv ==
  /\ frozen \in Nat /\ frozen <= get_max_log_id
  /\ ~lsn_ts_meta.cut => frozen < get_max_log_id

OutInv == out \in Answer \union {NoAnswer}

IInv ==
  /\ TypeOK /\ CallInv /\ PaddingFits /\ LoadInv /\ OutInv /\ GroupInv /\ FrozenInv
  /\ ~unexpected
  /\ CutOffset(lsn_ts_meta.lsn) = 0 => lsn_ts_meta.cut

-------------------------------------------------------------------------------
(* Remainders and quotients                                                *)

(* A remainder lies below its divisor.                                     *)
LEMMA ModRange ==
  ASSUME NEW n \in Nat \ {0}, NEW a \in Int
  PROVE  /\ a % n \in Nat /\ a % n < n
         /\ a \div n \in Int
  BY Z3

(* Going on without reaching the divisor changes the remainder only.       *)
LEMMA ModAdd ==
  ASSUME NEW n \in Nat \ {0}, NEW a \in Int, NEW b \in Int,
         0 <= (a % n) + b, (a % n) + b < n
  PROVE  (a + b) % n = (a % n) + b /\ (a + b) \div n = a \div n
  BY Z3

(* Filling up to the divisor gives the remainder zero.                     *)
LEMMA ModFull ==
  ASSUME NEW n \in Nat \ {0}, NEW a \in Int, NEW b \in Int, (a % n) + b = n
  PROVE  (a + b) % n = 0
<1>1. a = (n * (a \div n)) + (a % n) /\ (a \div n) \in Int /\ (a % n) \in Int
  BY Z3
<1>2. a + b = n * ((a \div n) + 1)
  BY <1>1, Z3
<1>3. ASSUME NEW q \in Int PROVE (n * q) % n = 0
  BY <1>3, Z3
<1> QED
  BY <1>1, <1>2, <1>3

(* The remainder of a number below the divisor is the number.              *)
LEMMA ModSmall ==
  ASSUME NEW n \in Nat \ {0}, NEW a \in Nat, a < n
  PROVE  a % n = a
  BY Z3

-------------------------------------------------------------------------------
(* Where the next entry goes                                               *)

(* Offsets in a block and in a cut window.                                 *)
LEMMA OffsetType ==
  ASSUME NEW a \in Int
  PROVE  /\ lsn_2_offset(a) \in Nat /\ lsn_2_offset(a) < PALF_BLOCK_SIZE
         /\ CutOffset(a) \in Nat /\ CutOffset(a) < LOG_CUT_TRIGGER
<1>1. lsn_2_offset(a) \in Nat /\ lsn_2_offset(a) < PALF_BLOCK_SIZE
  BY ModRange, SizeAssumption DEF lsn_2_offset
<1>2. CutOffset(a) \in Nat /\ CutOffset(a) < LOG_CUT_TRIGGER
  BY <1>1, ModRange, SizeAssumption DEF CutOffset
<1> QED
  BY <1>1, <1>2

(* The place c lies in the block of the place a, or is the end of it.      *)
LEMMA OffsetMove ==
  ASSUME NEW a \in Int, NEW c \in Int
  PROVE  /\ (0 <= lsn_2_offset(a) + (c - a) /\ lsn_2_offset(a) + (c - a) < PALF_BLOCK_SIZE) =>
              lsn_2_offset(c) = lsn_2_offset(a) + (c - a) /\ Block(c) = Block(a)
         /\ lsn_2_offset(a) + (c - a) = PALF_BLOCK_SIZE => lsn_2_offset(c) = 0
<1> DEFINE b == c - a
<1>1. b \in Int /\ c = a + b /\ PALF_BLOCK_SIZE \in Nat \ {0}
  BY SizeAssumption
<1> HIDE DEF b
<1>2. ASSUME 0 <= (a % PALF_BLOCK_SIZE) + b, (a % PALF_BLOCK_SIZE) + b < PALF_BLOCK_SIZE
      PROVE  /\ (a + b) % PALF_BLOCK_SIZE = (a % PALF_BLOCK_SIZE) + b
             /\ (a + b) \div PALF_BLOCK_SIZE = a \div PALF_BLOCK_SIZE
  BY <1>1, <1>2, ModAdd
<1>3. ASSUME (a % PALF_BLOCK_SIZE) + b = PALF_BLOCK_SIZE PROVE (a + b) % PALF_BLOCK_SIZE = 0
  BY <1>1, <1>3, ModFull
<1> QED
  BY <1>1, <1>2, <1>3 DEF lsn_2_offset, Block, b

(* The entry lies in the block where it begins, with its header if it      *)
(* opens a group; the padding before it, if any, fills a block whose tail  *)
(* had room for it.                                                        *)
LEMMA EntryPlace ==
  ASSUME NEW m \in Word, NEW size \in EntrySize, TailOk(m.lsn)
  PROVE  /\ Padding(m, size) \in Nat /\ Length(m, size) \in Nat \ {0}
         /\ NextLsn(m, size) \in Nat
         /\ lsn_2_offset(m.lsn + Padding(m, size))
              = (IF Pads(m, size) THEN 0 ELSE lsn_2_offset(m.lsn))
         /\ lsn_2_offset(m.lsn + Padding(m, size)) + Length(m, size) <= PALF_BLOCK_SIZE
         /\ Pads(m, size) => /\ Padding(m, size) >= PADDING_TRIGGER
                             /\ Padding(m, size) < MaxSize + GROUP_HEADER + PADDING_TRIGGER
         /\ ~Pads(m, size) => Padding(m, size) = 0
         /\ Room(m, size) = 0 =>
              lsn_2_offset(m.lsn + Padding(m, size)) + Length(m, size) = PALF_BLOCK_SIZE
         /\ TailOk(NextLsn(m, size))
<1> DEFINE off == lsn_2_offset(m.lsn)
           begin == m.lsn + Padding(m, size)
           len == Length(m, size)
           next == NextLsn(m, size)
<1>1. /\ m.lsn \in Nat /\ size \in Nat /\ size > 0 /\ size <= MaxSize
      /\ PALF_BLOCK_SIZE \in Nat \ {0} /\ GROUP_HEADER \in Nat /\ PADDING_TRIGGER \in Nat \ {0}
      /\ MaxSize \in Nat /\ MaxSize + GROUP_HEADER + PADDING_TRIGGER <= PALF_BLOCK_SIZE
  BY SizeAssumption DEF Word
<1>2. off \in Nat /\ off < PALF_BLOCK_SIZE
  BY <1>1, OffsetType
<1>3. CASE Pads(m, size)
  <2>1. /\ Padding(m, size) = PALF_BLOCK_SIZE - off /\ len = size + GROUP_HEADER
    BY <1>3 DEF Padding, Length, Joins
  <2>2. Room(m, size) # 0 /\ PALF_BLOCK_SIZE - off - size - GROUP_HEADER < PADDING_TRIGGER
    BY <1>1, <1>2, <1>3 DEF Pads, Room
  <2>3. lsn_2_offset(begin) = 0
    BY <1>1, <1>2, <2>1, OffsetMove
  <2>4. begin \in Int /\ next \in Int /\ next - begin = len /\ len = size + GROUP_HEADER
    BY <1>1, <1>2, <2>1 DEF NextLsn
  <2>5. TailOk(next)
    <3> HIDE DEF off, begin, len, next
    <3>1. lsn_2_offset(next) = len
      BY <1>1, <2>3, <2>4, OffsetMove
    <3> QED
      BY <1>1, <2>4, <3>1 DEF TailOk
  <2>6. off # 0 /\ PALF_BLOCK_SIZE - off >= PADDING_TRIGGER
    BY <1>1, <1>2, <2>2 DEF TailOk
  <2> HIDE DEF off, begin, len
  <2> QED
    BY <1>1, <1>2, <1>3, <2>1, <2>2, <2>3, <2>5, <2>6 DEF NextLsn, off, begin, len
<1>4. CASE ~Pads(m, size)
  <2>1. Padding(m, size) = 0 /\ begin = m.lsn
    BY <1>1, <1>4 DEF Padding
  <2>2. /\ len = (IF Aggregates(m, size) THEN size ELSE size + GROUP_HEADER)
        /\ Room(m, size) = PALF_BLOCK_SIZE - off - len
        /\ len \in Nat \ {0}
    BY <1>1, <1>2, <1>4 DEF Length, Joins, Room
  <2>3. Room(m, size) = 0 \/ Room(m, size) >= PADDING_TRIGGER
    BY <1>1, <1>2, <1>4, <2>2 DEF Pads
  <2>4. off + len <= PALF_BLOCK_SIZE
    BY <1>1, <1>2, <2>2, <2>3
  <2>5. TailOk(next)
    <3>1. begin \in Int /\ next \in Int /\ next - begin = len /\ lsn_2_offset(begin) = off
      BY <1>1, <2>1, <2>2 DEF NextLsn
    <3> HIDE DEF off, begin, len, next
    <3>2. off + len = PALF_BLOCK_SIZE \/ off + len <= PALF_BLOCK_SIZE - PADDING_TRIGGER
      BY <1>1, <1>2, <2>2, <2>3
    <3>3. CASE off + len = PALF_BLOCK_SIZE
      BY <3>1, <3>3, OffsetMove DEF TailOk
    <3>4. CASE off + len <= PALF_BLOCK_SIZE - PADDING_TRIGGER
      <4>1. lsn_2_offset(next) = off + len
        <5>1. 0 <= off + len /\ off + len < PALF_BLOCK_SIZE /\ off \in Int /\ len \in Int
          BY <1>1, <1>2, <2>2, <3>4
        <5> QED
          BY <3>1, <5>1, OffsetMove
      <4> QED
        BY <1>1, <1>2, <2>2, <3>4, <4>1 DEF TailOk
    <3> QED
      BY <3>2, <3>3, <3>4
  <2> HIDE DEF off, begin, len
  <2> QED
    BY <1>1, <1>2, <1>4, <2>1, <2>2, <2>3, <2>4, <2>5 DEF NextLsn, off, begin, len
<1> QED
  BY <1>3, <1>4

(* Two offsets less than a window apart lie in one cut window.             *)
LEMMA WindowMove ==
  ASSUME NEW a \in Int, NEW c \in Int,
         0 <= InWindow(a) + (c - a), InWindow(a) + (c - a) < LOG_CUT_TRIGGER
  PROVE  Window(c) = Window(a) /\ InWindow(c) = InWindow(a) + (c - a)
<1> DEFINE b == c - a
<1>1. b \in Int /\ c = a + b /\ LOG_CUT_TRIGGER \in Nat \ {0}
  BY SizeAssumption
<1> HIDE DEF b
<1>2. 0 <= (a % LOG_CUT_TRIGGER) + b /\ (a % LOG_CUT_TRIGGER) + b < LOG_CUT_TRIGGER
  BY DEF b, InWindow
<1>3. /\ (a + b) % LOG_CUT_TRIGGER = (a % LOG_CUT_TRIGGER) + b
      /\ (a + b) \div LOG_CUT_TRIGGER = a \div LOG_CUT_TRIGGER
  BY <1>1, <1>2, ModAdd
<1> QED
  BY <1>1, <1>3 DEF Window, InWindow, b

(* An entry ends in the block where it begins; where it does not end its   *)
(* group, it stays in its cut window; and an entry that joins a group      *)
(* stays in the window in which the group ended.                           *)
LEMMA EntryWindow ==
  ASSUME NEW m \in Word, NEW size \in EntrySize, TailOk(m.lsn),
         CutOffset(m.lsn) = 0 => m.cut
  PROVE  LET begin == lsn_2_offset(m.lsn + Padding(m, size))
             final == lsn_2_offset(NextLsn(m, size) - 1)
         IN  /\ final = begin + Length(m, size) - 1
             /\ Block(NextLsn(m, size) - 1) = Block(m.lsn + Padding(m, size))
             /\ CutOffset(NextLsn(m, size)) = 0 => NextCut(m, size)
             /\ ~NextCut(m, size) => Window(begin) = Window(final)
             /\ Joins(m, size) => Window(lsn_2_offset(m.lsn - 1)) = Window(final)
<1> DEFINE place == m.lsn + Padding(m, size)
           begin == lsn_2_offset(place)
           len == Length(m, size)
           next == NextLsn(m, size)
           last1 == next - 1
           final == lsn_2_offset(last1)
<1>1. /\ m.lsn \in Nat /\ m.cut \in BOOLEAN /\ size \in Nat /\ size > 0
      /\ PALF_BLOCK_SIZE \in Nat \ {0} /\ LOG_CUT_TRIGGER \in Nat \ {0}
  BY SizeAssumption DEF Word
<1>2. /\ place \in Int /\ len \in Nat \ {0} /\ next \in Int /\ last1 \in Int
      /\ last1 - place = len - 1 /\ next - place = len
      /\ begin + len <= PALF_BLOCK_SIZE
  BY <1>1, EntryPlace DEF NextLsn
<1>3. begin \in Nat /\ begin < PALF_BLOCK_SIZE
  BY <1>2, OffsetType
<1>4. final = begin + len - 1 /\ Block(last1) = Block(place)
  <2> HIDE DEF place, len, next, last1
  <2>1. 0 <= begin + (len - 1) /\ begin + (len - 1) < PALF_BLOCK_SIZE
    BY <1>1, <1>2, <1>3
  <2> QED
    BY <1>2, <1>3, <2>1, OffsetMove
<1>5. InWindow(begin) \in Nat /\ InWindow(begin) < LOG_CUT_TRIGGER /\ CutOffset(place) = InWindow(begin)
  BY <1>2, OffsetType DEF CutOffset, InWindow
<1>6. ASSUME ~NextCut(m, size)
      PROVE  /\ Window(begin) = Window(final)
             /\ CutOffset(next) # 0
  <2>1. Room(m, size) # 0 /\ InWindow(begin) + len < LOG_CUT_TRIGGER
    BY <1>1, <1>2, <1>5, <1>6 DEF NextCut
  <2>2. begin + len # PALF_BLOCK_SIZE
    <3>1. CASE Pads(m, size)
      <4>1. begin = 0 /\ len = size + GROUP_HEADER
        BY <3>1, EntryPlace DEF Length, Joins
      <4> QED
        BY <4>1, <1>1, SizeAssumption
    <3>2. CASE ~Pads(m, size)
      <4>1. begin = lsn_2_offset(m.lsn)
        BY <3>2, EntryPlace
      <4>2. len = (IF Aggregates(m, size) THEN size ELSE size + GROUP_HEADER)
        BY <3>2 DEF Length, Joins
      <4> HIDE DEF begin, len
      <4> QED
        BY <1>1, <1>2, <1>3, <2>1, <4>1, <4>2, SizeAssumption DEF Room
    <3> QED
      BY <3>1, <3>2
  <2> HIDE DEF place, len, next, last1, begin
  <2>3. lsn_2_offset(next) = begin + len
    <3>1. 0 <= begin + len /\ begin + len < PALF_BLOCK_SIZE
      BY <1>1, <1>2, <1>3, <2>2
    <3> QED
      BY <1>2, <1>3, <3>1, OffsetMove DEF begin
  <2>4. InWindow(begin + len) = InWindow(begin) + len
    <3>1. begin + len \in Int /\ begin \in Int /\ (begin + len) - begin = len
      BY <1>2, <1>3
    <3> DEFINE c == begin + len
    <3>2. c \in Int /\ c - begin = len
      BY <3>1
    <3> HIDE DEF c
    <3>3. InWindow(c) = InWindow(begin) + len
      BY <1>2, <1>5, <2>1, <3>1, <3>2, WindowMove
    <3> QED
      BY <3>3 DEF c
  <2>5. CutOffset(next) # 0
    BY <1>2, <1>5, <2>3, <2>4 DEF CutOffset, InWindow
  <2>6. Window(final) = Window(begin)
    <3>1. final \in Int /\ begin \in Int /\ final - begin = len - 1
      BY <1>2, <1>3, <1>4
    <3> HIDE DEF final
    <3>2. 0 <= InWindow(begin) + (len - 1) /\ InWindow(begin) + (len - 1) < LOG_CUT_TRIGGER
      BY <1>1, <1>2, <1>5, <2>1
    <3> QED
      BY <3>1, <3>2, WindowMove
  <2> QED
    BY <2>5, <2>6 DEF begin, next
<1>7. ASSUME Joins(m, size) PROVE Window(lsn_2_offset(m.lsn - 1)) = Window(final)
  <2> DEFINE off == lsn_2_offset(m.lsn)
             prev == lsn_2_offset(m.lsn - 1)
  <2>1. off \in Nat /\ ~m.cut /\ CutOffset(m.lsn) # 0 /\ CutOffset(m.lsn) = InWindow(off)
    BY <1>1, <1>7, OffsetType DEF Joins, Aggregates, CutOffset, InWindow
  <2>2. InWindow(off) \in Nat /\ InWindow(off) > 0
    BY <1>1, <2>1, OffsetType
  <2>3. off > 0
    <3>1. 0 % LOG_CUT_TRIGGER = 0
      BY <1>1, ModSmall
    <3> QED
      BY <2>1, <2>2, <3>1 DEF InWindow
  <2>4. InWindow(off) + size <= LOG_CUT_TRIGGER
    BY <1>7, <2>1, <2>3 DEF Joins, Aggregates
  <2>5. begin = off /\ len = size
    BY <1>7, EntryPlace DEF Joins, Length
  <2>6. prev = off - 1
    <3> DEFINE b == m.lsn
               c == m.lsn - 1
    <3>1. b \in Int /\ c \in Int /\ c - b = -1
      BY <1>1
    <3>2. off < PALF_BLOCK_SIZE /\ off = lsn_2_offset(b)
      BY <1>1, OffsetType
    <3> HIDE DEF b, c, off
    <3>3. lsn_2_offset(c) = off - 1
      BY <1>1, <2>1, <2>3, <3>1, <3>2, OffsetMove
    <3> QED
      BY <3>3 DEF c
  <2> HIDE DEF off, prev, begin, len, final
  <2>7. Window(prev) = Window(off)
    <3>1. prev \in Int /\ off \in Int /\ prev - off = -1
      BY <2>1, <2>6
    <3>2. 0 <= InWindow(off) + (prev - off) /\ InWindow(off) + (prev - off) < LOG_CUT_TRIGGER
      BY <1>1, <2>2, <2>4, <3>1
    <3> QED
      BY <3>1, <3>2, WindowMove
  <2>8. Window(final) = Window(off)
    <3>1. final \in Int /\ off \in Int /\ final - off = size - 1
      BY <1>1, <1>4, <2>1, <2>5
    <3> QED
      BY <1>1, <2>2, <2>4, <3>1, WindowMove
  <2> QED
    BY <2>7, <2>8 DEF prev
<1> QED
  BY <1>4, <1>6, <1>7

(* The bit fields                                                          *)

(* A word built from values that fit its fields holds them unchanged.      *)
LEMMA NewWord ==
  ASSUME NEW cut \in BOOLEAN, NEW id \in Nat, NEW scn \in Nat, NEW lsn \in Nat,
         id < 2^IdBits, scn < 2^TsBits
  PROVE  /\ LSNTsMeta(cut, id, scn, lsn) \in Word
         /\ LSNTsMeta(cut, id, scn, lsn)
              = [cut |-> cut, idDelta |-> id, scnDelta |-> scn, lsn |-> lsn]
<1>1. 2^IdBits \in Nat \ {0} /\ 2^TsBits \in Nat \ {0}
  BY WidthAssumption
<1>2. id % 2^IdBits = id
  BY <1>1, ModSmall
<1>3. scn % 2^TsBits = scn
  BY <1>1, ModSmall
<1> QED
  BY <1>1, <1>2, <1>3 DEF LSNTsMeta, Word

CutWord(id, scn, lsn) == LSNTsMeta(TRUE, id, scn, lsn)

(* The same for a word that asks for a new group.                          *)
LEMMA NewCutWord ==
  ASSUME NEW id \in Nat, NEW scn \in Nat, NEW lsn \in Nat, id < 2^IdBits, scn < 2^TsBits
  PROVE  LET w == CutWord(id, scn, lsn) IN
         w \in Word /\ w.cut /\ w.idDelta = id /\ w.scnDelta = scn /\ w.lsn = lsn
<1>1. 2^IdBits \in Nat \ {0} /\ 2^TsBits \in Nat \ {0}
  BY WidthAssumption
<1>2. id % 2^IdBits = id /\ scn % 2^TsBits = scn
  BY <1>1, ModSmall
<1>3. CutWord(id, scn, lsn) = [cut |-> TRUE, idDelta |-> id, scnDelta |-> scn, lsn |-> lsn]
  BY <1>2 DEF CutWord, LSNTsMeta
<1> QED
  BY <1>1, <1>3 DEF Word

(* While the bases need no move, the ids and the scn of the next entry fit *)
(* the fields of the word.                                                 *)
LEMMA NoOverflow ==
  ASSUME NEW m \in Word, NEW size \in EntrySize, NEW ref \in Nat, scn_base \in Nat,
         ~NeedUpdateBase(m, ref)
  PROVE  LET scn == NextScn(m, ref) IN
         /\ NewGroups(m, size) \in {0, 1, 2}
         /\ m.idDelta + NewGroups(m, size) \in Nat
         /\ m.idDelta + NewGroups(m, size) < 2^IdBits
         /\ scn \in Nat /\ scn >= ref /\ scn > scn_base + m.scnDelta
         /\ EntryScn(m, size, scn) \in {scn, scn + 1}
         /\ EntryScn(m, size, scn) - scn_base \in Nat
         /\ EntryScn(m, size, scn) - scn_base < 2^TsBits
<1>1. /\ 2^IdBits \in Nat \ {0} /\ 2^TsBits \in Nat \ {0} /\ Slack \in Nat
      /\ m.idDelta \in Nat /\ m.scnDelta \in Nat
  BY WidthAssumption DEF Word
<1>2. NewGroups(m, size) \in {0, 1, 2}
  BY DEF NewGroups
<1>3. m.idDelta + 2 < 2^IdBits - Slack
  BY <1>1 DEF NeedUpdateBase, LOG_ID_DELTA_UPPER_BOUND
<1>4. NextScn(m, ref) \in Nat /\ NextScn(m, ref) >= ref /\ NextScn(m, ref) > scn_base + m.scnDelta
  BY <1>1 DEF NextScn, Larger
<1>5. NextScn(m, ref) + 1 - scn_base < 2^TsBits - Slack
  BY <1>1, <1>4 DEF NeedUpdateBase, LOG_TS_DELTA_UPPER_BOUND
<1>6. EntryScn(m, size, NextScn(m, ref)) \in {NextScn(m, ref), NextScn(m, ref) + 1}
  BY DEF EntryScn
<1>7. m.idDelta + NewGroups(m, size) \in Nat /\ m.idDelta + NewGroups(m, size) < 2^IdBits
  BY <1>1, <1>2, <1>3
<1>8. /\ EntryScn(m, size, NextScn(m, ref)) - scn_base \in Nat
      /\ EntryScn(m, size, NextScn(m, ref)) - scn_base < 2^TsBits
  BY <1>1, <1>4, <1>5, <1>6
<1> QED
  BY <1>2, <1>4, <1>6, <1>7, <1>8

(* An entry that joins a group begins where the group ended, inside a cut  *)
(* window, and ends behind it.                                             *)
LEMMA JoinGoesOn ==
  ASSUME NEW m \in Word, NEW size \in EntrySize, TailOk(m.lsn),
         CutOffset(m.lsn) = 0 => m.cut, Joins(m, size)
  PROVE  /\ lsn_2_offset(m.lsn - 1) = lsn_2_offset(m.lsn) - 1
         /\ lsn_2_offset(m.lsn - 1) <= lsn_2_offset(NextLsn(m, size) - 1)
<1> DEFINE off == lsn_2_offset(m.lsn)
<1>1. m.lsn \in Nat /\ PALF_BLOCK_SIZE \in Nat \ {0} /\ LOG_CUT_TRIGGER \in Nat \ {0}
  BY SizeAssumption DEF Word
<1>2. off \in Nat /\ off < PALF_BLOCK_SIZE /\ CutOffset(m.lsn) # 0
  BY <1>1, OffsetType DEF Joins, Aggregates
<1>3. off > 0
  <2>1. 0 % LOG_CUT_TRIGGER = 0
    BY <1>1, ModSmall
  <2> QED
    BY <1>2, <2>1 DEF CutOffset
<1>4. lsn_2_offset(m.lsn - 1) = off - 1
  <2> DEFINE b == m.lsn
             c == m.lsn - 1
  <2>1. b \in Int /\ c \in Int /\ c - b = -1 /\ off = lsn_2_offset(b)
    BY <1>1
  <2> HIDE DEF b, c, off
  <2>2. lsn_2_offset(c) = off - 1
    BY <1>1, <1>2, <1>3, <2>1, OffsetMove
  <2> QED
    BY <2>2 DEF c
<1>5. lsn_2_offset(NextLsn(m, size) - 1) = off + Length(m, size) - 1 /\ Length(m, size) \in Nat
  BY EntryPlace, EntryWindow DEF Joins
<1> HIDE DEF off
<1> QED
  BY <1>2, <1>4, <1>5 DEF off

-------------------------------------------------------------------------------
(* IInv is inductive                                                       *)

(* A new allocator satisfies it: an empty log whose word asks for a group. *)
LEMMA InitIInv == ASSUME Init PROVE IInv
<1>1. /\ lsn_ts_meta \in Word /\ lsn_ts_meta.cut /\ lsn_ts_meta.idDelta = 0
      /\ lsn_ts_meta.scnDelta = 0 /\ lsn_ts_meta.lsn = 0
  <2>1. 0 < 2^IdBits /\ 0 < 2^TsBits
    BY WidthAssumption
  <2>2. /\ lsn_ts_meta = [cut |-> TRUE, idDelta |-> 0, scnDelta |-> 0, lsn |-> 0]
        /\ lsn_ts_meta \in Word
    BY <2>1, NewWord DEF Init
  <2> QED
    BY <2>2
<1>2. lsn_2_offset(0) = 0
  BY SizeAssumption, ModSmall DEF lsn_2_offset
<1>3. TypeOK /\ CallInv
  BY <1>1 DEF Init, TypeOK, CallInv
<1>4. PaddingFits
  BY <1>1, <1>2 DEF Init, PaddingFits, TailOk
<1>5. OutInv /\ LoadInv
  BY DEF Init, OutInv, LoadInv
<1>6. GroupInv
  BY <1>1 DEF Init, GroupInv, NoGroup
<1>7. FrozenInv
  <2>1. log_id_base = 0 /\ frozen = 0
    BY DEF Init
  <2> QED
    BY <1>1, <2>1 DEF FrozenInv, get_max_log_id
<1> QED
  BY <1>1, <1>3, <1>4, <1>5, <1>6, <1>7 DEF Init, IInv

(* What the thread does with a word it has loaded concerns only the        *)
(* thread; with IInv the branch that reports the boundary is not taken.    *)
LEMMA AfterLoadPreserves ==
  ASSUME IInv, NEW t \in Thread, pc[t] \in {"load", "cas"}, AfterLoad(t, lsn_ts_meta),
         UNCHANGED <<lsn_ts_meta, lock_free, out, group, frozen>>
  PROVE  IInv'
<1> USE DEF lock_free
<1>1. lsn_ts_meta \in Word /\ arg[t] \in CallArg /\ ~AtCutBoundary(lsn_ts_meta)
  BY DEF IInv, TypeOK, CallInv, CallArg, AtCutBoundary
<1>2. /\ pc' \in [Thread -> {"idle", "load", "cas", "base"}]
      /\ \A u \in Thread \ {t} : pc'[u] = pc[u] /\ arg'[u] = arg[u] /\ last'[u] = last[u]
      /\ CallInv'
      /\ unexpected' = unexpected
  BY <1>1, NoAnswerAssumption DEF IInv, TypeOK, CallInv, AfterLoad, Returns
<1>3. \/ pc'[t] = "base" /\ arg'[t] = arg[t] /\ last'[t] = NoAnswer
      \/ pc'[t] = "idle" /\ arg'[t] = NoAnswer /\ last'[t] = NoAnswer
      \/ /\ pc'[t] = "cas" /\ arg'[t] = arg[t] /\ last'[t] = lsn_ts_meta
         /\ ~NeedUpdateBase(lsn_ts_meta, arg[t].ref)
  BY <1>1 DEF IInv, TypeOK, CallInv, AfterLoad, Returns
<1>4. TypeOK'
  BY <1>1, <1>2, <1>3, NoAnswerAssumption DEF IInv, TypeOK, CallArg
<1>5. LoadInv'
  BY <1>1, <1>2, <1>3 DEF IInv, TypeOK, LoadInv, NeedUpdateBase, NextScn, Larger, AtCutBoundary
<1>6. (PaddingFits /\ OutInv /\ GroupInv /\ FrozenInv)'
  BY DEF IInv, PaddingFits, OutInv, GroupInv, FrozenInv, FinalOffset, get_max_log_id
<1> QED
  BY <1>2, <1>4, <1>5, <1>6 DEF IInv

(* A call begins: only the caller's place and arguments change.            *)
LEMMA CallPreserves == ASSUME IInv, NEW t \in Thread, Call(t) PROVE IInv'
<1>1. PICK a \in CallArg : arg' = [arg EXCEPT ![t] = a]
  BY DEF Call, CallArg
<1>2. TypeOK' /\ CallInv'
  BY <1>1, NoAnswerAssumption DEF Call, IInv, TypeOK, CallInv, CallArg, lock_free
<1>3. LoadInv'
  BY <1>1 DEF Call, IInv, TypeOK, CallInv, LoadInv, NeedUpdateBase, NextScn, Larger, AtCutBoundary,
              lock_free
<1>4. (PaddingFits /\ OutInv /\ GroupInv /\ FrozenInv)'
  BY DEF Call, IInv, PaddingFits, OutInv, GroupInv, FrozenInv, FinalOffset, get_max_log_id, lock_free
<1> QED
  BY <1>2, <1>3, <1>4 DEF IInv, Call, lock_free

(* The word moves on behind the new entry.  The word the thread had loaded *)
(* is the one it replaces, so what IInv says about the word holds of it.   *)
LEMMA SwapPreserves == ASSUME IInv, NEW t \in Thread, Swap(t) PROVE IInv'
<1> DEFINE m == lsn_ts_meta
           size == arg[t].size
           scn == NextScn(m, arg[t].ref)
           entryScn == EntryScn(m, size, scn)
           begin == m.lsn + Padding(m, size)
           groups == NewGroups(m, size)
<1>1. /\ m \in Word /\ arg[t] \in CallArg /\ size \in EntrySize /\ arg[t].ref \in Nat
      /\ last[t] = m /\ pc[t] = "cas" /\ log_id_base \in Nat /\ scn_base \in Nat
      /\ ~NeedUpdateBase(m, arg[t].ref)
      /\ TailOk(m.lsn) /\ (CutOffset(m.lsn) = 0 => m.cut)
  BY ScnAssumption DEF IInv, TypeOK, CallInv, CallArg, LoadInv, PaddingFits, Swap
<1>2. /\ groups \in {0, 1, 2} /\ m.idDelta + groups \in Nat /\ m.idDelta + groups < 2^IdBits
      /\ scn \in Nat /\ entryScn \in {scn, scn + 1} /\ entryScn - scn_base \in Nat
      /\ entryScn - scn_base < 2^TsBits
  BY <1>1, NoOverflow
<1>3. /\ Padding(m, size) \in Nat /\ Length(m, size) \in Nat \ {0} /\ NextLsn(m, size) \in Nat
      /\ m.lsn \in Nat /\ m.idDelta \in Nat /\ m.cut \in BOOLEAN
      /\ NextCut(m, size) \in BOOLEAN
  BY <1>1, EntryPlace DEF Word, NextCut
<1>4. /\ lsn_ts_meta' \in Word
      /\ lsn_ts_meta' = [cut |-> NextCut(m, size), idDelta |-> m.idDelta + groups,
                         scnDelta |-> entryScn - scn_base, lsn |-> NextLsn(m, size)]
  BY <1>1, <1>2, <1>3, NewWord DEF Swap
<1>5. /\ log_id_base' = log_id_base /\ scn_base' = scn_base /\ frozen' = frozen
      /\ unexpected' = unexpected
      /\ pc' = [pc EXCEPT ![t] = "idle"]
      /\ arg' = [arg EXCEPT ![t] = NoAnswer] /\ last' = [last EXCEPT ![t] = NoAnswer]
  BY DEF Swap, Returns, lock_free
<1>6. /\ out' = [lsn |-> begin, len |-> Length(m, size), padding |-> Padding(m, size),
                 id |-> log_id_base + m.idDelta + groups,
                 paddingScn |-> scn, scn |-> entryScn, ref |-> arg[t].ref]
      /\ group' = IF Joins(m, size) THEN [group EXCEPT !.entries = 2]
                                    ELSE [begin |-> begin, entries |-> 1]
  BY <1>1 DEF Swap
<1>7. /\ lsn_ts_meta'.cut = NextCut(m, size) /\ lsn_ts_meta'.lsn = NextLsn(m, size)
      /\ lsn_ts_meta'.idDelta = m.idDelta + groups
  BY <1>4
<1> HIDE DEF m, size, scn, entryScn, begin, groups
<1>8. TypeOK' /\ CallInv'
  BY <1>1, <1>4, <1>5, NoAnswerAssumption DEF IInv, TypeOK, CallInv
<1>9. LoadInv'
  BY <1>5 DEF IInv, TypeOK, CallInv, LoadInv, NeedUpdateBase, NextScn, Larger, AtCutBoundary
<1>10. OutInv'
  BY <1>1, <1>2, <1>3, <1>6 DEF OutInv, Answer, begin
<1>11. PaddingFits'
  <2>1. TailOk(NextLsn(m, size)) /\ out'.padding = Padding(m, size)
    BY <1>1, <1>6, EntryPlace
  <2>2. Padding(m, size) > 0 => /\ Padding(m, size) >= PADDING_TRIGGER
                                /\ Padding(m, size) < MaxSize + GROUP_HEADER + PADDING_TRIGGER
    BY <1>1, <1>3, EntryPlace
  <2> QED
    BY <1>7, <2>1, <2>2 DEF PaddingFits, TailOk
<1>12. CutOffset(lsn_ts_meta'.lsn) = 0 => lsn_ts_meta'.cut
  BY <1>1, <1>7, EntryWindow
<1>13. GroupInv'
  <2> DEFINE first == lsn_2_offset(begin)
             final == lsn_2_offset(NextLsn(m, size) - 1)
  <2>1. /\ final = first + Length(m, size) - 1
        /\ ~NextCut(m, size) => Window(first) = Window(final)
        /\ Joins(m, size) => Window(lsn_2_offset(m.lsn - 1)) = Window(final)
    BY <1>1, EntryWindow DEF begin
  <2>2. first \in Nat /\ begin \in Nat
    BY <1>3, OffsetType DEF begin
  <2>3. FinalOffset' = final
    BY <1>7 DEF FinalOffset
  <2>4. CASE ~Joins(m, size)
    <3>1. group' = [begin |-> begin, entries |-> 1]
      BY <1>6, <2>4
    <3>2. group'.begin = begin /\ group'.entries = 1 /\ group' # NoGroup
      BY <3>1 DEF NoGroup
    <3>3. first <= final
      BY <1>3, <2>1, <2>2
    <3> HIDE DEF first, final
    <3> QED
      BY <1>3, <1>7, <2>1, <2>2, <2>3, <3>1, <3>2, <3>3 DEF GroupInv, first
  <2>5. CASE Joins(m, size)
    <3>1. ~m.cut /\ Padding(m, size) = 0 /\ begin = m.lsn /\ group # NoGroup
      BY <1>1, <1>3, <2>5, EntryPlace DEF Joins, Aggregates, IInv, GroupInv, begin, m
    <3>2. /\ group' = [group EXCEPT !.entries = 2] /\ group \in [begin : Nat, entries : Nat]
      BY <1>6, <2>5 DEF IInv, GroupInv
    <3>3. group' \in [begin : Nat, entries : Nat] /\ group'.begin = group.begin /\ group' # NoGroup
      BY <3>2 DEF NoGroup
    <3>4. /\ lsn_2_offset(group.begin) <= FinalOffset
          /\ Window(lsn_2_offset(group.begin)) = Window(FinalOffset)
          /\ FinalOffset = lsn_2_offset(m.lsn - 1)
      BY <3>1 DEF IInv, GroupInv, FinalOffset, m
    <3>5. Window(lsn_2_offset(group.begin)) = Window(final)
      BY <2>1, <2>5, <3>4
    <3>6. lsn_2_offset(m.lsn - 1) <= final
      BY <1>1, <2>5, JoinGoesOn
    <3>7. lsn_2_offset(group.begin) <= final
      <4>1. /\ lsn_2_offset(group.begin) \in Nat /\ lsn_2_offset(m.lsn - 1) \in Nat /\ final \in Nat
        BY <1>3, <3>2, OffsetType
      <4> QED
        BY <3>4, <3>6, <4>1
    <3> HIDE DEF first, final
    <3> QED
      BY <2>3, <3>3, <3>5, <3>7 DEF GroupInv
  <2> QED
    BY <2>4, <2>5
<1>14. FrozenInv'
  <2>1. frozen \in Nat /\ frozen <= log_id_base + m.idDelta
        /\ (~m.cut => frozen < log_id_base + m.idDelta)
    BY DEF IInv, FrozenInv, get_max_log_id, m
  <2>2. groups = 0 => ~m.cut
    BY DEF groups, NewGroups, Joins, Aggregates
  <2> QED
    BY <1>1, <1>2, <1>3, <1>5, <1>7, <2>1, <2>2 DEF FrozenInv, get_max_log_id
<1> QED
  BY <1>5, <1>8, <1>9, <1>10, <1>11, <1>12, <1>13, <1>14 DEF IInv

(* A word with the same place in the log, no id and no scn below the old   *)
(* ones, and no cut taken back: what the writers of the word have in       *)
(* common.  Nobody is about to swap while the bases move.                  *)
LEMMA RebasePreserves ==
  ASSUME IInv, lsn_ts_meta' \in Word, log_id_base' \in Nat, scn_base' \in Nat,
         lsn_ts_meta'.lsn = lsn_ts_meta.lsn, lsn_ts_meta.cut => lsn_ts_meta'.cut,
         get_max_log_id' = get_max_log_id, Readers = {},
         pc' \in [Thread -> {"idle", "load", "base"}],
         \A t \in Thread : pc'[t] = "idle" <=> pc[t] = "idle",
         UNCHANGED <<arg, last, out, group, frozen, unexpected>>
  PROVE  IInv'
<1>1. \A t \in Thread : pc[t] # "cas" /\ pc'[t] # "cas"
  BY DEF Readers
<1>2. TypeOK' /\ CallInv'
  BY <1>1 DEF IInv, TypeOK, CallInv
<1>3. LoadInv' /\ OutInv'
  BY <1>1 DEF IInv, LoadInv, OutInv
<1>4. PaddingFits'
  BY DEF IInv, PaddingFits, TailOk
<1>5. GroupInv'
  <2>1. FinalOffset' = FinalOffset
    BY DEF FinalOffset
  <2>2. lsn_ts_meta.cut \in BOOLEAN /\ lsn_ts_meta'.cut \in BOOLEAN
    BY DEF IInv, TypeOK, Word
  <2> QED
    BY <2>1, <2>2 DEF IInv, GroupInv
<1>6. FrozenInv'
  <2>1. lsn_ts_meta.cut \in BOOLEAN /\ lsn_ts_meta'.cut \in BOOLEAN
    BY DEF IInv, TypeOK, Word
  <2>2. /\ frozen \in Nat /\ frozen <= get_max_log_id
        /\ ~lsn_ts_meta.cut => frozen < get_max_log_id
    BY DEF IInv, FrozenInv
  <2> QED
    BY <2>1, <2>2 DEF FrozenInv
<1>7. CutOffset(lsn_ts_meta'.lsn) = 0 => lsn_ts_meta'.cut
  BY DEF IInv, CutOffset, lsn_2_offset
<1> QED
  BY <1>2, <1>3, <1>4, <1>5, <1>6, <1>7 DEF IInv

(* The bases move up to the ids and scns given out.                        *)
LEMMA UpdateBaseStep ==
  ASSUME IInv, NEW t \in Thread, UpdateBase(t)
  PROVE  /\ IInv'
         /\ lsn_ts_meta'.lsn = lsn_ts_meta.lsn /\ get_max_log_id' = get_max_log_id
         /\ get_max_scn' = Larger(arg[t].ref, get_max_scn)
<1>1. /\ lsn_ts_meta \in Word /\ arg[t] \in CallArg /\ arg[t].ref \in Nat
      /\ log_id_base \in Nat /\ scn_base \in Nat
  BY ScnAssumption DEF IInv, TypeOK, CallInv, CallArg, UpdateBase
<1>2. /\ lsn_ts_meta.cut \in BOOLEAN /\ lsn_ts_meta.idDelta \in Nat
      /\ lsn_ts_meta.scnDelta \in Nat /\ lsn_ts_meta.lsn \in Nat
  BY <1>1 DEF Word
<1>3. /\ lsn_ts_meta' \in Word
      /\ lsn_ts_meta' = [cut |-> lsn_ts_meta.cut, idDelta |-> 0, scnDelta |-> 0,
                         lsn |-> lsn_ts_meta.lsn]
  <2>1. 0 < 2^IdBits /\ 0 < 2^TsBits
    BY WidthAssumption
  <2> QED
    BY <1>2, <2>1, NewWord DEF UpdateBase
<1>4. /\ lsn_ts_meta'.lsn = lsn_ts_meta.lsn /\ lsn_ts_meta'.cut = lsn_ts_meta.cut
      /\ lsn_ts_meta'.idDelta = 0 /\ lsn_ts_meta'.scnDelta = 0
  BY <1>3
<1>5. /\ log_id_base' = log_id_base + lsn_ts_meta.idDelta
      /\ scn_base' = Larger(arg[t].ref, get_max_scn)
  BY DEF UpdateBase, get_max_log_id
<1>6. get_max_scn \in Nat /\ scn_base' \in Nat /\ log_id_base' \in Nat
  BY <1>1, <1>2, <1>5 DEF get_max_scn, Larger
<1>7. get_max_log_id' = get_max_log_id /\ get_max_scn' = scn_base'
  BY <1>2, <1>4, <1>5, <1>6 DEF get_max_log_id, get_max_scn
<1>8. /\ pc' \in [Thread -> {"idle", "load", "base"}]
      /\ \A u \in Thread : pc'[u] = "idle" <=> pc[u] = "idle"
      /\ Readers = {} /\ UNCHANGED <<arg, last, out, group, frozen, unexpected>>
  BY DEF UpdateBase, Readers, IInv, TypeOK
<1>9. IInv'
  BY <1>3, <1>4, <1>6, <1>7, <1>8, RebasePreserves
<1> QED
  BY <1>4, <1>5, <1>7, <1>9

(* try_freeze closes the group and remembers it; threads that are about to *)
(* swap the word they loaded before will fail.                             *)
LEMMA TryFreezePreserves == ASSUME IInv, TryFreeze PROVE IInv'
<1> USE DEF lock_free
<1>1. lsn_ts_meta \in Word /\ lsn_ts_meta' = [lsn_ts_meta EXCEPT !.cut = TRUE]
  BY DEF IInv, TypeOK, TryFreeze
<1>2. /\ lsn_ts_meta' \in Word /\ lsn_ts_meta'.cut /\ lsn_ts_meta'.lsn = lsn_ts_meta.lsn
      /\ lsn_ts_meta'.idDelta = lsn_ts_meta.idDelta
  BY <1>1 DEF Word
<1>3. TypeOK' /\ CallInv'
  BY <1>2 DEF IInv, TypeOK, CallInv, TryFreeze
<1>4. LoadInv' /\ OutInv'
  BY DEF IInv, LoadInv, OutInv, NeedUpdateBase, NextScn, Larger, AtCutBoundary, TryFreeze
<1>5. PaddingFits'
  BY <1>2 DEF IInv, PaddingFits, TailOk, TryFreeze
<1>6. GroupInv'
  <2>1. FinalOffset' = FinalOffset
    BY <1>2 DEF FinalOffset
  <2> QED
    BY <1>2, <2>1 DEF IInv, GroupInv, TryFreeze
<1>7. FrozenInv'
  <2>1. frozen' = log_id_base + lsn_ts_meta.idDelta /\ log_id_base' = log_id_base
    BY DEF TryFreeze, get_max_log_id
  <2>2. log_id_base \in Nat /\ lsn_ts_meta.idDelta \in Nat
    BY <1>1 DEF IInv, TypeOK, Word
  <2> QED
    BY <1>2, <2>1, <2>2 DEF FrozenInv, get_max_log_id
<1> QED
  BY <1>2, <1>3, <1>4, <1>5, <1>6, <1>7 DEF IInv, TryFreeze

(* Another leader's log: the answers given before are forgotten, the word  *)
(* asks for a new group and describes the end of that log.                 *)
LEMMA FollowPreserves ==
  ASSUME IInv, Idle, ForgetAnswers, NEW lsn \in Nat, TailOk(lsn),
         lsn_ts_meta' \in Word, lsn_ts_meta'.cut, lsn_ts_meta'.lsn = lsn,
         log_id_base' \in Nat, scn_base' \in Nat
  PROVE  IInv'
<1>1. lsn_ts_meta' \in Word /\ lsn_ts_meta'.idDelta \in Nat
  BY DEF Word
<1>2. TypeOK' /\ CallInv'
  BY <1>1 DEF IInv, TypeOK, CallInv, ForgetAnswers
<1>3. LoadInv' /\ OutInv'
  BY DEF IInv, LoadInv, OutInv, Idle, ForgetAnswers
<1>4. PaddingFits'
  BY <1>1 DEF PaddingFits, TailOk, ForgetAnswers
<1>5. GroupInv'
  BY <1>1 DEF GroupInv, NoGroup, ForgetAnswers
<1>6. FrozenInv'
  <2>1. frozen' = 0
    BY DEF ForgetAnswers
  <2> QED
    BY <1>1, <2>1 DEF FrozenInv, get_max_log_id
<1> QED
  BY <1>1, <1>2, <1>3, <1>4, <1>5, <1>6 DEF IInv, ForgetAnswers

(* Logs of other leaders, received or read from disk, and truncation.      *)
LEMMA OtherLogPreserves == ASSUME IInv, OtherLog PROVE IInv' /\ lsn_ts_meta' \in Word
<1>1. PICK id \in 1..IdUpper, scn \in RefScn, lsn \in {l \in FollowLsn : TailOk(l)} :
         IncUpdateLastLogInfo(id, scn, lsn) \/ Truncate(id, scn, lsn)
  BY DEF OtherLog
<1>2. /\ id \in Nat /\ scn \in Nat /\ lsn \in Nat /\ TailOk(lsn) /\ Idle /\ ForgetAnswers
      /\ log_id_base \in Nat /\ scn_base \in Nat /\ lsn_ts_meta.idDelta \in Nat
  <2>1. id \in Nat /\ scn \in Nat /\ lsn \in Nat /\ TailOk(lsn)
    BY WidthAssumption, ScnAssumption
  <2>2. Idle /\ ForgetAnswers
    BY <1>1 DEF OtherLog, IncUpdateLastLogInfo, Truncate
  <2> QED
    BY <2>1, <2>2 DEF IInv, TypeOK, Word
<1>3. 2^IdBits \in Nat /\ 2^TsBits \in Nat /\ 0 < 2^IdBits /\ 0 < 2^TsBits /\ Slack \in Nat
  BY WidthAssumption
<1>4. PICK i \in Nat, s \in Nat :
         /\ i < 2^IdBits /\ s < 2^TsBits /\ lsn_ts_meta' = CutWord(i, s, lsn)
         /\ log_id_base' \in Nat /\ scn_base' \in Nat
  <2>1. CASE Truncate(id, scn, lsn)
    <3>1. lsn_ts_meta' = CutWord(0, 0, lsn) /\ log_id_base' = id /\ scn_base' = scn
      BY <2>1 DEF Truncate, CutWord
    <3> QED
      BY <1>2, <1>3, <3>1
  <2>2. CASE IncUpdateLastLogInfo(id, scn, lsn)
    <3> DEFINE rebase == \/ id - log_id_base >= LOG_ID_DELTA_UPPER_BOUND
                         \/ scn < scn_base \/ scn - scn_base >= LOG_TS_DELTA_UPPER_BOUND
    <3>1. CASE rebase
      <4>1. lsn_ts_meta' = CutWord(0, 0, lsn) /\ log_id_base' = id /\ scn_base' = scn
        BY <2>2, <3>1 DEF IncUpdateLastLogInfo, CutWord
      <4> QED
        BY <1>2, <1>3, <4>1
    <3>2. CASE ~rebase
      <4>1. /\ id - log_id_base \in Nat /\ id - log_id_base < 2^IdBits
            /\ scn - scn_base \in Nat /\ scn - scn_base < 2^TsBits
        BY <1>2, <1>3, <2>2, <3>2
           DEF IncUpdateLastLogInfo, get_max_log_id, LOG_ID_DELTA_UPPER_BOUND, LOG_TS_DELTA_UPPER_BOUND
      <4>2. /\ lsn_ts_meta' = CutWord(id - log_id_base, scn - scn_base, lsn)
            /\ log_id_base' = log_id_base /\ scn_base' = scn_base
        BY <2>2, <3>2 DEF IncUpdateLastLogInfo, CutWord
      <4> QED
        BY <1>2, <4>1, <4>2
    <3> QED
      BY <3>1, <3>2
  <2> QED
    BY <1>1, <2>1, <2>2
<1>5. lsn_ts_meta' \in Word /\ lsn_ts_meta'.cut /\ lsn_ts_meta'.lsn = lsn
  BY <1>2, <1>4, NewCutWord
<1> QED
  BY <1>2, <1>4, <1>5, FollowPreserves

(* inc_update_scn_base moves the base of the scns only.                    *)
LEMMA IncUpdateScnBaseStep ==
  ASSUME IInv, IncUpdateScnBase
  PROVE  /\ IInv'
         /\ lsn_ts_meta'.lsn = lsn_ts_meta.lsn /\ get_max_log_id' = get_max_log_id
         /\ \E scn \in RefScn : scn >= get_max_scn /\ get_max_scn' = scn
<1>1. PICK scn \in RefScn :
         /\ Idle /\ get_max_scn <= scn /\ scn_base' = scn
         /\ lsn_ts_meta' = LSNTsMeta(TRUE, lsn_ts_meta.idDelta, 0, lsn_ts_meta.lsn)
         /\ UNCHANGED <<log_id_base, pc, arg, last, out, group, frozen, unexpected>>
  BY DEF IncUpdateScnBase
<1>2. /\ lsn_ts_meta \in Word /\ log_id_base \in Nat /\ scn_base \in Nat /\ scn \in Nat
      /\ 0 < 2^TsBits /\ 2^IdBits \in Nat
  BY ScnAssumption, WidthAssumption DEF IInv, TypeOK
<1>3. /\ lsn_ts_meta.idDelta \in Nat /\ lsn_ts_meta.idDelta < 2^IdBits /\ lsn_ts_meta.lsn \in Nat
      /\ lsn_ts_meta.scnDelta \in Nat
  BY <1>2 DEF Word
<1>4. lsn_ts_meta' = CutWord(lsn_ts_meta.idDelta, 0, lsn_ts_meta.lsn)
  BY <1>1 DEF CutWord
<1>5. /\ lsn_ts_meta' \in Word
      /\ lsn_ts_meta'.lsn = lsn_ts_meta.lsn /\ lsn_ts_meta'.cut
      /\ lsn_ts_meta'.idDelta = lsn_ts_meta.idDelta /\ lsn_ts_meta'.scnDelta = 0
  BY <1>2, <1>3, <1>4, NewCutWord
<1>6. get_max_log_id' = get_max_log_id /\ get_max_scn' = scn
  <2>1. log_id_base' = log_id_base /\ scn_base' = scn
    BY <1>1
  <2> QED
    BY <1>2, <1>5, <2>1 DEF get_max_log_id, get_max_scn
<1>7. /\ pc' \in [Thread -> {"idle", "load", "base"}]
      /\ \A u \in Thread : pc'[u] = "idle" <=> pc[u] = "idle"
      /\ Readers = {}
  BY <1>1 DEF Idle, Readers, IInv, TypeOK
<1>8. IInv'
  BY <1>1, <1>2, <1>4, <1>5, <1>6, <1>7, RebasePreserves
<1>9. scn >= get_max_scn
  BY <1>1, <1>2, <1>3 DEF get_max_scn
<1> QED
  BY <1>5, <1>6, <1>8, <1>9

(* Every step keeps IInv.                                                  *)
LEMMA NextIInv == ASSUME IInv, [Next]_allocVars PROVE IInv'
<1>1. ASSUME NEW t \in Thread, ThreadStep(t) PROVE IInv'
  <2>1. CASE Call(t)
    BY <2>1, CallPreserves
  <2>2. CASE Load(t)
    BY <2>2, AfterLoadPreserves DEF Load
  <2>3. CASE Swap(t)
    BY <2>3, SwapPreserves
  <2>4. CASE SwapFails(t)
    BY <2>4, AfterLoadPreserves DEF SwapFails
  <2>5. CASE UpdateBase(t)
    BY <2>5, UpdateBaseStep
  <2> QED
    BY <1>1, <2>1, <2>2, <2>3, <2>4, <2>5 DEF ThreadStep
<1>2. CASE TryFreeze
  BY <1>2, TryFreezePreserves
<1>3. CASE OtherLog
  BY <1>3, OtherLogPreserves
<1>4. CASE IncUpdateScnBase
  BY <1>4, IncUpdateScnBaseStep
<1>5. CASE UNCHANGED allocVars
  <2>1. TypeOK' /\ CallInv' /\ OutInv' /\ GroupInv'
    BY <1>5 DEF allocVars, IInv, TypeOK, CallInv, OutInv, GroupInv, FinalOffset
  <2>2. LoadInv' /\ PaddingFits' /\ FrozenInv'
    BY <1>5 DEF allocVars, IInv, LoadInv, PaddingFits, FrozenInv, TailOk, NeedUpdateBase, NextScn,
                Larger, AtCutBoundary, get_max_log_id
  <2> QED
    BY <1>5, <2>1, <2>2 DEF allocVars, IInv
<1> QED
  BY <1>1, <1>2, <1>3, <1>4, <1>5 DEF Next

-------------------------------------------------------------------------------
(* What the allocator guarantees                                           *)

(* IInv holds in every reachable state.                                    *)
THEOREM Inductive == Spec => []IInv
<1>1. Init => IInv
  BY InitIInv
<1>2. IInv /\ [Next]_allocVars => IInv'
  BY NextIInv
<1> QED
  BY <1>1, <1>2, PTL DEF Spec

(* The word, the bases and the threads keep their types: no bit field of   *)
(* lsn_ts_meta_ holds a value its width does not admit.                    *)
THEOREM TypeCorrect == Spec => []TypeOK
<1>1. IInv => TypeOK
  BY DEF IInv
<1> QED
  BY <1>1, Inductive, PTL

(* alloc_lsn_scn always leaves room for the padding log that may come      *)
(* next, and never asks for a padding log longer than its buffer.          *)
THEOREM PaddingFitsAlways == Spec => []PaddingFits
<1>1. IInv => PaddingFits
  BY DEF IInv
<1> QED
  BY <1>1, Inductive, PTL

(* The groups that alloc_lsn_scn forms stay in their block and, when       *)
(* several entries share one, in their cut window; "last_block_offset is   *)
(* reach 2M boundary" is never reported.                                   *)
THEOREM GroupStaysInWindowAlways == Spec => []GroupStaysInWindow
<1>1. IInv => GroupStaysInWindow
  BY DEF IInv, GroupInv, GroupStaysInWindow, FinalOffset, Window
<1> QED
  BY <1>1, Inductive, PTL

(* Only a swap gives an answer.                                            *)
LEMMA OnlySwapAnswers ==
  ASSUME [Next]_allocVars, out' # out, out' # NoAnswer
  PROVE  \E t \in Thread : Swap(t)
  BY DEF Next, ThreadStep, Call, Load, SwapFails, UpdateBase, TryFreeze, OtherLog, IncUpdateScnBase,
         IncUpdateLastLogInfo, Truncate, ForgetAnswers, allocVars

(* try_freeze closes the group for good: no thread adds an entry to it,    *)
(* whatever it had loaded before.                                          *)
THEOREM FrozenGetsNoEntryAlways == Spec => FrozenGetsNoEntry
<1>1. IInv /\ [Next]_allocVars => [(out' # out /\ out' # NoAnswer) => out'.id > frozen]_allocVars
  <2> SUFFICES ASSUME IInv, [Next]_allocVars, out' # out, out' # NoAnswer
               PROVE  out'.id > frozen
    OBVIOUS
  <2>1. PICK t \in Thread : Swap(t)
    BY OnlySwapAnswers
  <2> DEFINE m == lsn_ts_meta
             groups == NewGroups(m, arg[t].size)
  <2>2. out'.id = log_id_base + m.idDelta + groups
    BY <2>1 DEF Swap
  <2>3. /\ log_id_base \in Nat /\ m.idDelta \in Nat /\ groups \in {0, 1, 2}
        /\ groups = 0 => ~m.cut
    BY DEF IInv, TypeOK, Word, NewGroups, Joins, Aggregates
  <2>4. /\ frozen \in Nat /\ frozen <= log_id_base + m.idDelta
        /\ ~m.cut => frozen < log_id_base + m.idDelta
    BY DEF IInv, FrozenInv, get_max_log_id
  <2> QED
    BY <2>2, <2>3, <2>4
<1> QED
  BY <1>1, Inductive, PTL DEF Spec, FrozenGetsNoEntry

-------------------------------------------------------------------------------
(* The allocator implements the oracle                                     *)

(* A swap is an allocation: it continues the log where it ended.           *)
LEMMA SwapAllocates == ASSUME IInv, NEW t \in Thread, Swap(t) PROVE Oracle!Allocate
<1> DEFINE m == lsn_ts_meta
           size == arg[t].size
           scn == NextScn(m, arg[t].ref)
           entryScn == EntryScn(m, size, scn)
           begin == m.lsn + Padding(m, size)
           groups == NewGroups(m, size)
<1>1. /\ m \in Word /\ size \in EntrySize /\ arg[t].ref \in Nat /\ last[t] = m
      /\ log_id_base \in Nat /\ scn_base \in Nat /\ m.idDelta \in Nat /\ m.lsn \in Nat
      /\ m.scnDelta \in Nat
      /\ ~NeedUpdateBase(m, arg[t].ref)
      /\ TailOk(m.lsn) /\ (CutOffset(m.lsn) = 0 => m.cut)
  BY ScnAssumption DEF IInv, TypeOK, Word, CallInv, CallArg, LoadInv, PaddingFits, Swap
<1>2. /\ groups \in {0, 1, 2} /\ m.idDelta + groups \in Nat /\ m.idDelta + groups < 2^IdBits
      /\ scn \in Nat /\ scn >= arg[t].ref /\ scn > scn_base + m.scnDelta
      /\ entryScn \in {scn, scn + 1} /\ entryScn - scn_base \in Nat
      /\ entryScn - scn_base < 2^TsBits
  BY <1>1, NoOverflow
<1>3. /\ Padding(m, size) \in Nat /\ Length(m, size) \in Nat \ {0} /\ NextLsn(m, size) \in Nat
      /\ NextCut(m, size) \in BOOLEAN
  BY <1>1, EntryPlace DEF NextCut
<1>4. lsn_ts_meta' = [cut |-> NextCut(m, size), idDelta |-> m.idDelta + groups,
                      scnDelta |-> entryScn - scn_base, lsn |-> NextLsn(m, size)]
  BY <1>1, <1>2, <1>3, NewWord DEF Swap
<1>5. /\ lsn_ts_meta'.lsn = NextLsn(m, size) /\ lsn_ts_meta'.idDelta = m.idDelta + groups
      /\ lsn_ts_meta'.scnDelta = entryScn - scn_base
      /\ log_id_base' = log_id_base /\ scn_base' = scn_base
  BY <1>4 DEF Swap, lock_free
<1>6. out' = [lsn |-> begin, len |-> Length(m, size), padding |-> Padding(m, size),
              id |-> log_id_base + m.idDelta + groups,
              paddingScn |-> scn, scn |-> entryScn, ref |-> arg[t].ref]
  BY <1>1 DEF Swap
<1>7. /\ out'.lsn = begin /\ out'.len = Length(m, size) /\ out'.padding = Padding(m, size)
      /\ out'.id = log_id_base + m.idDelta + groups /\ out'.scn = entryScn
      /\ out'.ref = arg[t].ref
  BY <1>6
<1> HIDE DEF m, size, scn, entryScn, begin, groups
<1>8. out' # NoAnswer
  BY <1>1, <1>2, <1>3, <1>6, NoAnswerAssumption DEF Answer, begin
<1>9. /\ lsn_ts_meta'.lsn = out'.lsn + out'.len /\ out'.lsn = lsn_ts_meta.lsn + out'.padding
  BY <1>1, <1>3, <1>5, <1>7 DEF NextLsn, begin, m
<1>10. out'.lsn \div PALF_BLOCK_SIZE = (lsn_ts_meta'.lsn - 1) \div PALF_BLOCK_SIZE
  <2>1. Block(NextLsn(m, size) - 1) = Block(begin)
    BY <1>1, EntryWindow DEF begin
  <2> QED
    BY <1>5, <1>7, <2>1 DEF Block
<1>11. out'.padding > 0 => Pads(m, size) /\ out'.lsn % PALF_BLOCK_SIZE = 0
  <2>1. ~Pads(m, size) => Padding(m, size) = 0
    BY <1>1, EntryPlace
  <2>2. Pads(m, size) => lsn_2_offset(begin) = 0
    BY <1>1, EntryPlace DEF begin
  <2> QED
    BY <1>7, <2>1, <2>2 DEF lsn_2_offset
<1>12. out'.id \in (IF out'.padding > 0 THEN {get_max_log_id + 2} ELSE {get_max_log_id, get_max_log_id + 1})
  <2>1. get_max_log_id = log_id_base + m.idDelta
    BY DEF get_max_log_id, m
  <2>2. out'.padding > 0 => groups = 2
    BY <1>11 DEF groups, NewGroups
  <2>3. ~(out'.padding > 0) => groups \in {0, 1}
    <3>1. Pads(m, size) => Padding(m, size) > 0
      <4>1. Pads(m, size) => Padding(m, size) >= PADDING_TRIGGER
        BY <1>1, EntryPlace
      <4> QED
        BY <1>3, <4>1, SizeAssumption
    <3> QED
      BY <1>7, <3>1 DEF groups, NewGroups
  <2> QED
    BY <1>1, <1>7, <2>1, <2>2, <2>3
<1>13. get_max_log_id' = out'.id
  BY <1>1, <1>2, <1>5, <1>7 DEF get_max_log_id
<1>14. out'.scn > get_max_scn /\ out'.scn >= out'.ref /\ get_max_scn' = out'.scn
  <2>1. get_max_scn = scn_base + m.scnDelta
    BY DEF get_max_scn, m
  <2>2. get_max_scn' = scn_base + (entryScn - scn_base)
    BY <1>5 DEF get_max_scn
  <2> QED
    BY <1>1, <1>2, <1>7, <2>1, <2>2
<1> QED
  BY <1>8, <1>9, <1>10, <1>11, <1>12, <1>13, <1>14 DEF Oracle!Allocate

(* Every step of the allocator is a step of the oracle or none.            *)
LEMMA StepOfOracle ==
  ASSUME IInv, IInv', [Next]_allocVars
  PROVE  [Oracle!Allocate \/ Oracle!Follow \/ Oracle!Raise]_(Oracle!oracleVars)
<1> USE DEF lock_free
<1>1. ASSUME UNCHANGED <<lsn_ts_meta, log_id_base, scn_base, out>>
      PROVE  UNCHANGED Oracle!oracleVars
  BY <1>1 DEF Oracle!oracleVars, get_max_log_id, get_max_scn
<1>2. ASSUME NEW t \in Thread, ThreadStep(t)
      PROVE  [Oracle!Allocate \/ Oracle!Follow \/ Oracle!Raise]_(Oracle!oracleVars)
  <2>1. CASE Call(t) \/ Load(t) \/ SwapFails(t)
    BY <1>1, <2>1 DEF Call, Load, SwapFails
  <2>2. CASE Swap(t)
    BY <2>2, SwapAllocates
  <2>3. CASE UpdateBase(t)
    <3>1. /\ lsn_ts_meta'.lsn = lsn_ts_meta.lsn /\ get_max_log_id' = get_max_log_id /\ out' = out
          /\ get_max_scn' = Larger(arg[t].ref, get_max_scn)
      BY <2>3, UpdateBaseStep DEF UpdateBase
    <3>2. arg[t].ref \in RefScn /\ arg[t].ref \in Nat /\ get_max_scn \in Nat
      <4>1. arg[t].ref \in RefScn /\ lsn_ts_meta \in Word /\ scn_base \in Nat
        BY <2>3 DEF UpdateBase, IInv, TypeOK
      <4>2. lsn_ts_meta.scnDelta \in Nat
        BY <4>1 DEF Word
      <4>3. get_max_scn \in Nat
        BY <4>1, <4>2 DEF get_max_scn
      <4>4. RefScn \subseteq Nat
        BY ScnAssumption
      <4> QED
        BY <4>1, <4>3, <4>4
    <3>3. CASE arg[t].ref >= get_max_scn
      <4>1. get_max_scn' = arg[t].ref
        BY <3>1, <3>2, <3>3 DEF Larger
      <4> QED
        BY <3>1, <3>2, <3>3, <4>1 DEF Oracle!Raise
    <3>4. CASE ~(arg[t].ref >= get_max_scn)
      <4>1. get_max_scn' = get_max_scn
        BY <3>1, <3>2, <3>4 DEF Larger
      <4> QED
        BY <3>1, <4>1 DEF Oracle!oracleVars
    <3> QED
      BY <3>3, <3>4
  <2> QED
    BY <1>2, <2>1, <2>2, <2>3 DEF ThreadStep
<1>3. CASE TryFreeze
  <2>1. lsn_ts_meta \in Word /\ lsn_ts_meta' = [lsn_ts_meta EXCEPT !.cut = TRUE]
        /\ UNCHANGED <<log_id_base, scn_base, out>>
    BY <1>3 DEF TryFreeze, IInv, TypeOK
  <2>2. /\ lsn_ts_meta'.lsn = lsn_ts_meta.lsn /\ lsn_ts_meta'.idDelta = lsn_ts_meta.idDelta
        /\ lsn_ts_meta'.scnDelta = lsn_ts_meta.scnDelta
    BY <2>1 DEF Word
  <2> QED
    BY <2>1, <2>2 DEF Oracle!oracleVars, get_max_log_id, get_max_scn
<1>4. CASE OtherLog
  <2>1. out' = NoAnswer
    BY <1>4 DEF OtherLog, IncUpdateLastLogInfo, Truncate, ForgetAnswers
  <2>2. lsn_ts_meta'.lsn \in Nat /\ get_max_log_id' \in Nat /\ get_max_scn' \in Nat
    BY DEF IInv, TypeOK, Word, get_max_log_id, get_max_scn
  <2> QED
    BY <2>1, <2>2 DEF Oracle!Follow
<1>5. CASE IncUpdateScnBase
  <2>1. out' = out
    BY <1>5 DEF IncUpdateScnBase
  <2> QED
    BY <1>5, <2>1, IncUpdateScnBaseStep DEF Oracle!Raise
<1>6. CASE UNCHANGED allocVars
  BY <1>1, <1>6 DEF allocVars
<1> QED
  BY <1>2, <1>3, <1>4, <1>5, <1>6 DEF Next

(* alloc_lsn_scn answers as the oracle does: entry after entry without a   *)
(* gap, group ids without a gap, scns that only grow, none of it disturbed *)
(* by lost swaps, by the moves of the bases or by the widths of the bit    *)
(* fields.                                                                 *)
THEOREM AllocatorImplementsOracle == Spec => ImplementsOracle
<1>1. Init => Oracle!Init
  <2> SUFFICES ASSUME Init PROVE Oracle!Init
    OBVIOUS
  <2>1. lsn_ts_meta.lsn \in Nat /\ get_max_log_id \in Nat /\ get_max_scn \in Nat
    BY InitIInv DEF IInv, TypeOK, Word, get_max_log_id, get_max_scn
  <2> QED
    BY <2>1 DEF Init, Oracle!Init
<1>2. IInv /\ IInv' /\ [Next]_allocVars
        => [Oracle!Allocate \/ Oracle!Follow \/ Oracle!Raise]_(Oracle!oracleVars)
  BY StepOfOracle
<1> QED
  BY <1>1, <1>2, Inductive, PTL DEF Spec, ImplementsOracle, Oracle!Spec

===============================================================================
