--------------------------------- MODULE Clog ---------------------------------
(***************************************************************************)
(* The clog of one log stream as its upper layers see it: the log handler, *)
(* the apply service that runs append callbacks and the replay service,    *)
(* over PALF.  Only the id service's entries are kept as entries; all      *)
(* other logs are the advance of max_scn.                                  *)
(*                                                                         *)
(* Roles:  "leader"     PALF and ObLogHandler are LEADER                   *)
(*         "revoking"   PALF has lost leadership, logs in flight may still *)
(*                      commit                                             *)
(*         "draining"   the apply service is FOLLOWER, runs on_failure     *)
(*         "follower"   role change done, the replay service runs          *)
(*         "restarting" the same, after a restart                          *)
(*         "lost"       a restart found the start of replay recycled: the  *)
(*                      log stream cannot come online                      *)
(***************************************************************************)
EXTENDS LsMeta

CONSTANTS
    MaxScn,      \* bound on the SCNs of the logs in the model
    SCN_MAX,     \* SCN::max_scn(), above every log's SCN
    MaxCrash,    \* bound on restarts
    MaxRevoke    \* bound on losses of leadership

ASSUME ClogAssumption ==
    /\ MaxScn \in Nat /\ MaxCrash \in Nat /\ MaxRevoke \in Nat
    /\ SCN_MAX \in Nat /\ SCN_MAX > MaxScn

VARIABLES
    clog,           \* id log entries not truncated and not recycled
    max_scn,        \* PALF's max SCN
    committed_scn,  \* committed end SCN as the apply / replay service know it
    flying,         \* append callbacks not yet finished
    role,
    replay_next,    \* replay starts with the entries of this SCN
    recycled,       \* PALF's base: entries below are gone
    crashes, revokes

clogVars == <<clog, max_scn, committed_scn, flying, role, replay_next,
              recycled, crashes, revokes>>

Roles == {"leader", "revoking", "draining", "follower", "restarting", "lost"}

EntryType == [scn : Nat, last : Nat, limit : Nat]

(* A flying callback: queued, or running on_success / on_failure with the  *)
(* arguments it has read from the callback object.                         *)
CbType == [scn : Nat, phase : {"queued", "success", "failure"},
           limit : Nat, ts : Nat]

QueuedCb(scn) == [scn |-> scn, phase |-> "queued", limit |-> 0, ts |-> 0]

Committed(e) == e.scn <= committed_scn

Replaying == role \in {"follower", "restarting"}

(* ObLogHandler::append_: only a leader appends; the SCN is above every    *)
(* earlier one and not below the reference SCN.                            *)
NextScn(ref_scn) == Greater(max_scn + 1, ref_scn)

CanAppend(ref_scn) == role = "leader" /\ NextScn(ref_scn) <= MaxScn

append_(ref_scn, last_id, limited_id) ==
    /\ clog' = clog \union {[scn |-> NextScn(ref_scn), last |-> last_id,
                             limit |-> limited_id]}
    /\ max_scn' = NextScn(ref_scn)
    /\ flying' = flying \union {QueuedCb(NextScn(ref_scn))}
    /\ UNCHANGED <<committed_scn, role, replay_next, recycled, crashes, revokes>>

(* Mutant: committed logs count as decided before their callback has run.  *)
DecidedIgnoresCallbacks(d) ==
    /\ role # "lost"
    /\ d <= committed_scn
    /\ Replaying => \A e \in clog : e.scn >= replay_next => d < e.scn

(* A value ObLogHandler::get_max_decided_scn may return: every entry up to *)
(* it has been called back (apply service) or replayed (replay service).   *)
get_max_decided_scn(d) ==
    /\ role # "lost"
    /\ d <= committed_scn
    /\ \A f \in flying : d < f.scn
    /\ Replaying => \A e \in clog : e.scn >= replay_next => d < e.scn

(* Some other module appends a log.                                        *)
AppendOther ==
    /\ role = "leader"
    /\ \E scn \in (max_scn + 1) .. MaxScn : max_scn' = scn
    /\ UNCHANGED <<clog, committed_scn, flying, role, replay_next, recycled,
                   crashes, revokes>>

(* PALF commits more of the log.  Once it is FOLLOWER the apply service no *)
(* longer follows PALF's committed end.                                    *)
CommitLog ==
    /\ role \notin {"draining", "lost"}
    /\ \E scn \in (committed_scn + 1) .. max_scn : committed_scn' = scn
    /\ UNCHANGED <<clog, max_scn, flying, role, replay_next, recycled,
                   crashes, revokes>>

(* What is not committed may or may not survive a revoke or a restart.     *)
TruncateTo(cut) ==
    /\ cut \in committed_scn .. max_scn
    /\ max_scn' = cut
    /\ clog' = {e \in clog : e.scn <= cut}

RevokeLeader ==
    /\ role = "leader" /\ revokes < MaxRevoke
    /\ role' = "revoking"
    /\ revokes' = revokes + 1
    /\ \E cut \in committed_scn .. max_scn : TruncateTo(cut)
    /\ UNCHANGED <<committed_scn, flying, replay_next, recycled, crashes>>

(* ObApplyStatus::switch_to_follower, the first step of the role change,   *)
(* which waits until PALF is not pending: what was not truncated has slid. *)
apply_switch_to_follower ==
    /\ role = "revoking" /\ committed_scn = max_scn
    /\ role' = "draining"
    /\ UNCHANGED <<clog, max_scn, committed_scn, flying, replay_next, recycled,
                   crashes, revokes>>

(* ObRoleChangeService::switch_leader_to_follower_forcedly_: every         *)
(* callback has run, and replay takes over at the apply service's end.     *)
switch_role_to_follower ==
    /\ role = "draining" /\ flying = {}
    /\ role' = "follower"
    /\ replay_next' = committed_scn + 1
    /\ UNCHANGED <<clog, max_scn, committed_scn, flying, recycled, crashes, revokes>>

(* switch_follower_to_leader_: the log is replayed up to PALF's end.       *)
switch_role_to_leader ==
    /\ Replaying
    /\ \A e \in clog : Committed(e) => e.scn < replay_next
    /\ role' = "leader"
    /\ UNCHANGED <<clog, max_scn, committed_scn, flying, replay_next, recycled,
                   crashes, revokes>>

(* ObLS::online: replay reads from the persisted base, which must still   *)
(* be there, and skips what lies below the persisted checkpoint.           *)
enable_replay ==
    /\ role' = IF recycled <= slog.base THEN "restarting" ELSE "lost"
    /\ replay_next' = slog.ckpt

(* The process stops; PalfHandleImpl::load finds a prefix of the log on    *)
(* its disk, at least what was committed, and takes the end of its last    *)
(* entry as the committed end.                                             *)
restart_clog ==
    /\ crashes < MaxCrash
    /\ crashes' = crashes + 1
    /\ \E cut \in committed_scn .. max_scn : TruncateTo(cut) /\ committed_scn' = cut
    /\ flying' = {}
    /\ enable_replay
    /\ UNCHANGED <<recycled, revokes>>

(* ObLogHandler::advance_base_lsn: PALF may reuse the blocks below.        *)
advance_base_lsn(lsn) ==
    /\ recycled' = Greater(recycled, lsn)
    /\ clog' = {e \in clog : e.scn >= lsn}
    /\ UNCHANGED <<max_scn, committed_scn, flying, role, replay_next, crashes,
                   revokes>>

===============================================================================
