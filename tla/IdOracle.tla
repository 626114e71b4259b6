------------------------------- MODULE IdOracle -------------------------------
(***************************************************************************)
(* What an id service promises its callers: ranges of ids that never       *)
(* overlap, and that follow real time: a call that begins after another    *)
(* has returned gets larger ids.  Crashes abort calls and change nothing   *)
(* else.                                                                   *)
(***************************************************************************)
EXTENDS Integers

CONSTANT Caller

VARIABLES
    issued,   \* the ranges handed out: <<start, end>>, end excluded
    floor     \* per caller: 0 when idle, else a bound all ids returned
              \* before the call began lie below

vars == <<issued, floor>>

Init == issued = {} /\ floor = [c \in Caller |-> 0]

Begin(c) ==
    /\ floor[c] = 0 /\ floor'[c] > 0
    /\ \A r \in issued : r[2] <= floor'[c]
    /\ floor' = [floor EXCEPT ![c] = floor'[c]]
    /\ UNCHANGED issued

Issue(c) ==
    /\ floor[c] > 0
    /\ \E r \in issued' :
          /\ r[1] < r[2] /\ floor[c] <= r[1]
          /\ \A s \in issued : s[2] <= r[1] \/ r[2] <= s[1]
          /\ issued' = issued \union {r}
    /\ floor' = [floor EXCEPT ![c] = 0]

Fail(c) ==
    /\ floor' = [floor EXCEPT ![c] = 0]
    /\ UNCHANGED issued

Crash == floor' = [c \in Caller |-> 0] /\ UNCHANGED issued

Next ==
    \/ \E c \in Caller : Begin(c) \/ Issue(c) \/ Fail(c)
    \/ Crash

Spec == Init /\ [][Next]_vars

===============================================================================
