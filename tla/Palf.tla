--------------------------------- MODULE Palf ---------------------------------
(***************************************************************************)
(* What PALF shows the layers above it on one replica: a log, a prefix of  *)
(* it that has slid out of the window (is committed), and a role with a    *)
(* proposal id.  An LSN and an SCN are the position in the log; a log has  *)
(* an id of its own because a position may be written again after a        *)
(* truncation.  Elections, and the leaders on other replicas, are the      *)
(* environment: the election of this code base never revokes its one       *)
(* replica, so the steps below are more than it can do.                    *)
(***************************************************************************)
EXTENDS Naturals, Sequences, FiniteSets

CONSTANTS
    MaxLog,     \* bound on the logs written in all
    MaxTerm     \* bound on proposal ids

ASSUME PalfAssumption == MaxLog \in Nat /\ MaxTerm \in Nat

VARIABLES
    plog,         \* the log: [id, pid] of each entry
    slid,         \* last_slide_end_lsn
    next_id,      \* number of the next log to be written
    palf_role,
    palf_pid,     \* proposal id this replica has promised
    own_pid,      \* the last proposal id this replica has led
    pending_end   \* pending_end_lsn_

palfVars == <<plog, slid, next_id, palf_role, palf_pid, own_pid, pending_end>>

LogType == [id : Nat, pid : Nat]

PalfRoles == {"leader", "pending", "follower"}

(* LogStateMgr::can_append *)
can_append(pid) == palf_role = "leader" /\ pid = palf_pid

WriteLog ==
    /\ next_id <= MaxLog
    /\ plog' = Append(plog, [id |-> next_id, pid |-> palf_pid])
    /\ next_id' = next_id + 1
    /\ UNCHANGED <<slid, palf_role, palf_pid, own_pid, pending_end>>

palf_append(pid) == can_append(pid) /\ WriteLog

leader_active_to_follower_pending_ ==
    /\ palf_role = "leader"
    /\ palf_role' = "pending"
    /\ pending_end' = Len(plog)
    /\ UNCHANGED <<plog, slid, next_id, palf_pid, own_pid>>

pending_to_follower_active_ ==
    /\ palf_role = "pending" /\ slid >= pending_end
    /\ palf_role' = "follower"
    /\ UNCHANGED <<plog, slid, next_id, palf_pid, own_pid, pending_end>>

(* Another replica is elected and asks for a promise.                      *)
handle_prepare_request ==
    /\ palf_role # "leader" /\ palf_pid < MaxTerm
    /\ palf_pid' = palf_pid + 1
    /\ UNCHANGED <<plog, slid, next_id, palf_role, own_pid, pending_end>>

OtherLeads == palf_role # "leader" /\ palf_pid > own_pid

(* The other leader writes a log, or cuts a tail it does not have after    *)
(* what is committed.                                                      *)
receive_log == OtherLeads /\ WriteLog

truncate(committed) ==
    /\ OtherLeads
    /\ \E n \in committed .. Len(plog) - 1 :
          /\ plog[n + 1].pid < palf_pid
          /\ plog' = SubSeq(plog, 1, n)
          /\ pending_end' = IF n < pending_end THEN n ELSE pending_end
    /\ UNCHANGED <<slid, next_id, palf_role, palf_pid, own_pid>>

(* This replica is elected, with or without having finished its pending    *)
(* logs: reconfirm leaves no log in the window.                            *)
reconfirm_to_leader_active_ ==
    /\ palf_role # "leader" /\ slid = Len(plog) /\ palf_pid < MaxTerm
    /\ palf_role' = "leader"
    /\ palf_pid' = palf_pid + 1 /\ own_pid' = palf_pid + 1
    /\ UNCHANGED <<plog, slid, next_id, pending_end>>

PalfInit ==
    /\ plog = <<>> /\ slid = 0 /\ next_id = 1
    /\ palf_role = "follower" /\ palf_pid = 0 /\ own_pid = 0 /\ pending_end = 0

===============================================================================
