------------------------------ MODULE LsnOracle ------------------------------
(***************************************************************************)
(* What LSNAllocator promises the leader that submits logs, without its    *)
(* bases, deltas, bit fields, freezes and threads: every answer continues  *)
(* the log where the previous answer ended, in the same group or in the    *)
(* next one, with a larger scn, and an entry that does not fit the block   *)
(* comes after a padding log that fills the block.                         *)
(***************************************************************************)
EXTENDS Integers

CONSTANTS PALF_BLOCK_SIZE, RefScn, NoAnswer

VARIABLES end,     \* where the log ends
          maxId,   \* the id of its last group log
          maxScn,  \* the largest scn given out
          out      \* the last answer

oracleVars == <<end, maxId, maxScn, out>>

Init == end \in Nat /\ maxId \in Nat /\ maxScn \in Nat /\ out = NoAnswer

(* The entry `out` gets its place; `ref` is the lower bound of its scn. *)
Allocate ==
  /\ out' # NoAnswer
  /\ end' = out'.lsn + out'.len
  /\ out'.lsn = end + out'.padding
  /\ out'.lsn \div PALF_BLOCK_SIZE = (end' - 1) \div PALF_BLOCK_SIZE
  /\ out'.padding > 0 => out'.lsn % PALF_BLOCK_SIZE = 0
  /\ out'.id \in (IF out'.padding > 0 THEN {maxId + 2} ELSE {maxId, maxId + 1})
  /\ maxId' = out'.id
  /\ out'.scn > maxScn /\ out'.scn >= out'.ref
  /\ maxScn' = out'.scn

(* Another leader's log replaces or extends this one. *)
Follow == out' = NoAnswer /\ end' \in Nat /\ maxId' \in Nat /\ maxScn' \in Nat

(* The next answers get scns above `s`. *)
Raise == \E s \in RefScn : s >= maxScn /\ maxScn' = s /\ UNCHANGED <<end, maxId, out>>

Spec == Init /\ [][Allocate \/ Follow \/ Raise]_oracleVars
=============================================================================
