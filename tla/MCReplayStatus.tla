---------------------------- MODULE MCReplayStatus ----------------------------
(* A small instance of ReplayStatus for TLC.                               *)
EXTENDS ReplayStatus

Plain(q) == [q |-> q, pre |-> FALSE, post |-> FALSE, pad |-> FALSE]
Strict(q) == [Plain(q) EXCEPT !.pre = TRUE, !.post = TRUE]
MixedEntries == {Plain(1), Strict(2)}

(* What can disturb the replay: a term of this replica, a restart from a   *)
(* checkpoint, blocked submits, a fatal error, a reader of the position.   *)
Disturbance ==
    [led    |-> rc # "follower" \/ mine > 0,
     down   |-> disabling \/ (~enabled /\ log # << >>),
     halted |-> unblocking \/ (enabled /\ blocked /\ ~disabling),
     fatal  |-> fatal,
     asked  |-> scan.pc # "idle" /\ ~scan.done]

Disturbances == Cardinality({d \in DOMAIN Disturbance : Disturbance[d]})

(* Two logs when nothing disturbs them, one log with one disturbance at a  *)
(* time; a stream that restarts later than at its first log does not lead, *)
(* and PALF has told of its logs when replay is disabled.  No step that is *)
(* fair leads out.                                                         *)
Apart ==
    /\ Disturbances <= 1
    /\ Len(log) > 1 => Disturbances = 0
    /\ base > 1 => mine = 0
    /\ disabling => ~fs_check

===============================================================================
