----------------------------- MODULE ReplayOrder -----------------------------
(***************************************************************************)
(* What the replay service promises to the data above it, without queues,  *)
(* leases, barriers' counters or roles: a log takes effect (it is          *)
(* replayed, or its callback is run when this replica wrote it) never      *)
(* before a log that must precede it.                                      *)
(***************************************************************************)
EXTENDS Naturals, Sequences

CONSTANTS Entries   \* the kinds of log entries

VARIABLES log,      \* the committed logs; the LSN and the SCN are the index
          done      \* the logs that have taken effect

orderVars == <<log, done>>

(* A padding log fills a block and has no effect.                          *)
Quiet(i) == i \in done \/ log[i].pad

(* Log j must take effect before log i: both have the same replay hint     *)
(* (queue), i is a pre-barrier log, or j is a post-barrier log.            *)
Precedes(j, i) ==
    j < i /\ (log[j].q = log[i].q \/ log[i].pre \/ log[j].post)

Init == log = << >> /\ done = {}

Write == \E e \in Entries : log' = Append(log, e) /\ UNCHANGED done

TakeEffect(i) ==
    /\ ~Quiet(i)
    /\ \A j \in 1 .. Len(log) : Precedes(j, i) => Quiet(j)
    /\ done' = done \union {i}
    /\ UNCHANGED log

(* The data is dropped down to a checkpoint that holds the logs before b.  *)
Restart(b) ==
    /\ \A j \in 1 .. b - 1 : Quiet(j)
    /\ done' = 1 .. b - 1
    /\ UNCHANGED log

Next ==
    \/ Write
    \/ \E i \in 1 .. Len(log) : TakeEffect(i)
    \/ \E b \in 1 .. Len(log) + 1 : Restart(b)

Spec == Init /\ [][Next]_orderVars
=============================================================================
