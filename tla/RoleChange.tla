------------------------------ MODULE RoleChange ------------------------------
(***************************************************************************)
(* One log stream of the log service: appenders go through ObLogHandler    *)
(* to PALF and leave a callback with the apply service; the one thread of  *)
(* ObRoleChangeService makes the log handler, the apply service and the    *)
(* replay service follow PALF's role.                                      *)
(***************************************************************************)
EXTENDS ApplyStatus

VARIABLES
    lh_role, lh_pid,   \* ObLogHandler's role_ and proposal_id_
    app,               \* the appending threads
    rp_role, rp_end,   \* ObReplayStatus: role_ and next_to_submit_lsn_
    replayed,          \* ids of the logs replayed
    rc_set,            \* TRUE: a role change event is queued
    rc                 \* the role change thread

lhVars == <<lh_role, lh_pid>>
rpVars == <<rp_role, rp_end, replayed>>
rcVars == <<rc_set, rc>>

vars == <<palfVars, applyVars, lhVars, app, rpVars, rcVars>>

Roles == {"LEADER", "FOLLOWER"}

AppType == [pc : {"idle", "append", "count", "push", "wake"}, pid : Nat,
            cb : CbType, q : Queue \union {NoTask}]

IdleApp == [pc |-> "idle", pid |-> 0, cb |-> NoCb, q |-> NoTask]

RcType == [pc : {"idle", "sync", "apply_follower", "apply_done", "follower",
                 "replay_follower", "end_lsn", "replay_done", "apply_leader",
                 "replay_leader", "leader"},
           curr : Nat, pid : Nat, to_leader : BOOLEAN, end : Nat,
           wait : SUBSET Appender]

IdleRc == [pc |-> "idle", curr |-> 0, pid |-> 0, to_leader |-> FALSE, end |-> 0,
           wait |-> {}]

-------------------------------------------------------------------------------
(* ObLogHandler::append_ by thread a                                       *)

(* Appenders between CriticalGuard and its end, holding the read lock.     *)
Critical == {a \in Appender : app[a].pc \in {"count", "push", "wake"}}

appendFrame == <<lhVars, rpVars, rc_set>>

(* The proposal id is read before the lock is taken.                       *)
AppendStart(a) ==
    /\ app[a].pc = "idle" /\ next_id <= MaxLog
    /\ app' = [app EXCEPT ![a].pc = "append", ![a].pid = lh_pid]
    /\ UNCHANGED <<palfVars, applyVars, appendFrame, rc>>

(* Not the leader, another proposal id, or PALF has no room.               *)
AppendRefused(a) ==
    /\ app[a].pc = "append"
    /\ app' = [app EXCEPT ![a] = IdleApp]
    /\ UNCHANGED <<palfVars, applyVars, appendFrame, rc>>

(* Mutant: need_check_proposal_id is off.                                  *)
AppendAnyProposal(a) ==
    /\ app[a].pc = "append" /\ lh_role = "LEADER" /\ palf_role = "leader"
    /\ WriteLog
    /\ app' = [app EXCEPT ![a].pc = "count",
                          ![a].cb = [lsn |-> Len(plog) + 1, id |-> next_id]]
    /\ UNCHANGED <<applyVars, appendFrame, rc>>

AppendToPalf(a) ==
    /\ app[a].pc = "append" /\ lh_role = "LEADER"
    /\ palf_append(app[a].pid)
    /\ app' = [app EXCEPT ![a].pc = "count",
                          ![a].cb = [lsn |-> Len(plog) + 1, id |-> next_id]]
    /\ UNCHANGED <<applyVars, appendFrame, rc>>

(* push_append_cb: the SCN, a timestamp, picks the queue.  Count ...       *)
CountSubmit(a, q) ==
    /\ app[a].pc = "count"
    /\ total_submit' = [total_submit EXCEPT ![q] = @ + 1]
    /\ app' = [app EXCEPT ![a].pc = "push", ![a].q = q]
    /\ UNCHANGED <<palfVars, ap_role, ap_pid, ap_end, queue, total_apply, leaseVars,
                   hd, fs, scnVars, ok, failed, unexpected, appendFrame, rc>>

(* ... push ...                                                            *)
PushCb(a) ==
    /\ app[a].pc = "push"
    /\ queue' = [queue EXCEPT ![app[a].q] = Append(@, app[a].cb)]
    /\ app' = [app EXCEPT ![a].pc = "wake"]
    /\ UNCHANGED <<palfVars, ap_role, ap_pid, ap_end, total_submit, total_apply,
                   leaseVars, hd, fs, scnVars, ok, failed, unexpected, appendFrame,
                   rc>>

(* ... and submit the queue if the log has slid meanwhile.  Leaving the    *)
(* critical section lets those who wait for it go on.                      *)
LeaveCritical(a) ==
    /\ app' = [app EXCEPT ![a] = IdleApp]
    /\ gm' = [gm EXCEPT !.wait = @ \ {a}]
    /\ rc' = [rc EXCEPT !.wait = @ \ {a}]

(* Mutant: the callback is left to the next log that slides.               *)
PushWithoutWake(a) ==
    /\ app[a].pc = "wake"
    /\ UNCHANGED leaseVars
    /\ LeaveCritical(a)
    /\ UNCHANGED <<palfVars, ap_role, ap_pid, ap_end, queueVars, hd, fs,
                   last_check_scn, max_applied_scn, last_check_cnt, ok, failed,
                   unexpected, appendFrame>>

WakeQueue(a) ==
    /\ app[a].pc = "wake"
    /\ IF Succeeds(app[a].cb)
       THEN submit_task_to_apply_service_(app[a].q)
       ELSE UNCHANGED leaseVars
    /\ LeaveCritical(a)
    /\ UNCHANGED <<palfVars, ap_role, ap_pid, ap_end, queueVars, hd, fs,
                   last_check_scn, max_applied_scn, last_check_cnt, ok, failed,
                   unexpected, appendFrame>>

-------------------------------------------------------------------------------
(* The replay service replays what has slid while its role is FOLLOWER.    *)
Replay ==
    /\ rp_role = "FOLLOWER" /\ rp_end < slid
    /\ rp_end' = rp_end + 1
    /\ replayed' = replayed \union {plog[rp_end + 1].id}
    /\ UNCHANGED <<palfVars, applyVars, lhVars, app, rp_role, rcVars>>

-------------------------------------------------------------------------------
(* ObRoleChangeService                                                     *)

PalfRole == IF palf_role = "leader" THEN "LEADER" ELSE "FOLLOWER"

need_execute_role_change ==
    palf_role # "pending" /\ (lh_pid # palf_pid \/ lh_role # PalfRole)

(* handle_role_change_cb_event_for_log_handler_ sees PALF's role and picks *)
(* what to do: rc.pid is the proposal id seen, rc.curr the one that        *)
(* switch_leader_to_follower_forcedly_ gives the log handler.              *)
RcEvent ==
    /\ rc.pc = "idle" /\ rc_set
    /\ rc_set' = FALSE
    /\ rc' = IF ~need_execute_role_change THEN IdleRc
             ELSE [pc |-> IF lh_role = "LEADER" THEN "sync"
                          ELSE IF PalfRole = "LEADER" THEN "end_lsn" ELSE "follower",
                   curr |-> IF PalfRole = "LEADER" THEN lh_pid ELSE palf_pid,
                   pid |-> palf_pid, to_leader |-> PalfRole = "LEADER", end |-> 0,
                   wait |-> Critical]
    /\ UNCHANGED <<palfVars, applyVars, lhVars, app, rpVars>>

RcGoto(pc) == rc' = [rc EXCEPT !.pc = pc]

(* switch_leader_to_follower_forcedly_ *)

(* Mutant: the appends under way are not waited for.                       *)
RcNoAppendSync ==
    /\ rc.pc = "sync"
    /\ RcGoto("apply_follower")
    /\ UNCHANGED <<palfVars, applyVars, lhVars, app, rpVars, rc_set>>

RcAppendSync ==
    /\ rc.pc = "sync" /\ rc.wait = {}
    /\ RcGoto("apply_follower")
    /\ UNCHANGED <<palfVars, applyVars, lhVars, app, rpVars, rc_set>>

RcApplyFollower ==
    /\ rc.pc = "apply_follower"
    /\ apply_switch_to_follower
    /\ RcGoto("apply_done")
    /\ UNCHANGED <<palfVars, lhVars, app, rpVars, rc_set>>

RcApplyDone ==
    /\ rc.pc = "apply_done" /\ is_apply_done
    /\ rc' = [rc EXCEPT !.pc = "follower", !.end = ap_end]
    /\ UNCHANGED <<palfVars, applyVars, lhVars, app, rpVars, rc_set>>

(* Also all that switch_follower_to_follower_ does.                        *)
RcFollower ==
    /\ rc.pc = "follower" /\ Critical = {}
    /\ lh_role' = "FOLLOWER" /\ lh_pid' = rc.curr
    /\ rc' = IF lh_role = "FOLLOWER" THEN IdleRc
             ELSE [rc EXCEPT !.pc = "replay_follower"]
    /\ UNCHANGED <<palfVars, applyVars, app, rpVars, rc_set>>

(* Mutant: the iterator is set to the end that was applied.                *)
ReplayFromApplied ==
    /\ rc.pc = "replay_follower"
    /\ rp_role' = "FOLLOWER" /\ rp_end' = rc.end
    /\ rc' = IF rc.to_leader THEN [rc EXCEPT !.pc = "end_lsn"] ELSE IdleRc
    /\ UNCHANGED <<palfVars, applyVars, lhVars, app, replayed, rc_set>>

(* replay_service_->switch_to_follower; reset_iterator never goes back.    *)
RcReplayFollower ==
    /\ rc.pc = "replay_follower"
    /\ rp_role' = "FOLLOWER"
    /\ rp_end' = IF rc.end > rp_end THEN rc.end ELSE rp_end
    /\ rc' = IF rc.to_leader THEN [rc EXCEPT !.pc = "end_lsn"] ELSE IdleRc
    /\ UNCHANGED <<palfVars, applyVars, lhVars, app, replayed, rc_set>>

(* switch_follower_to_leader_; PALF's end may be ahead of what has slid,   *)
(* which makes the wait for replay longer.                                 *)
RcEndLsn ==
    /\ rc.pc = "end_lsn"
    /\ rc' = [rc EXCEPT !.pc = "replay_done", !.end = slid]
    /\ UNCHANGED <<palfVars, applyVars, lhVars, app, rpVars, rc_set>>

(* Mutant: the logs not replayed yet are not waited for.                   *)
RcSkipReplayDone ==
    /\ rc.pc = "replay_done"
    /\ RcGoto("apply_leader")
    /\ UNCHANGED <<palfVars, applyVars, lhVars, app, rpVars, rc_set>>

RcReplayDone ==
    /\ rc.pc = "replay_done" /\ rp_end >= rc.end
    /\ RcGoto("apply_leader")
    /\ UNCHANGED <<palfVars, applyVars, lhVars, app, rpVars, rc_set>>

(* Mutant: the event is not submitted again.                               *)
RcReplayGivesUp ==
    /\ rc.pc = "replay_done" /\ rp_end < rc.end
    /\ rc' = IdleRc
    /\ UNCHANGED <<palfVars, applyVars, lhVars, app, rpVars, rc_set>>

RcReplayTimeout ==
    /\ rc.pc = "replay_done" /\ rp_end < rc.end
    /\ rc_set' = TRUE
    /\ rc' = IdleRc
    /\ UNCHANGED <<palfVars, applyVars, lhVars, app, rpVars>>

RcApplyLeader ==
    /\ rc.pc = "apply_leader"
    /\ apply_switch_to_leader(rc.pid)
    /\ RcGoto("replay_leader")
    /\ UNCHANGED <<palfVars, lhVars, app, rpVars, rc_set>>

RcReplayLeader ==
    /\ rc.pc = "replay_leader"
    /\ rp_role' = "LEADER"
    /\ RcGoto("leader")
    /\ UNCHANGED <<palfVars, applyVars, lhVars, app, rp_end, replayed, rc_set>>

RcLeader ==
    /\ rc.pc = "leader" /\ Critical = {}
    /\ lh_role' = "LEADER" /\ lh_pid' = rc.pid
    /\ rc' = IdleRc
    /\ UNCHANGED <<palfVars, applyVars, app, rpVars, rc_set>>

-------------------------------------------------------------------------------
(* PALF calls on_role_change when it has become follower or leader.        *)
palfFrame == <<applyVars, lhVars, app, rpVars, rc>>

PalfBecomesFollower ==
    /\ pending_to_follower_active_
    /\ rc_set' = TRUE
    /\ UNCHANGED palfFrame

PalfBecomesLeader ==
    /\ reconfirm_to_leader_active_
    /\ rc_set' = TRUE
    /\ UNCHANGED palfFrame

PalfMoves ==
    /\ \/ leader_active_to_follower_pending_
       \/ handle_prepare_request
       \/ receive_log
       \/ truncate(CommittedEnd)
    /\ UNCHANGED <<palfFrame, rc_set>>

above == <<lhVars, app, rpVars, rcVars>>

Slide == (UpdateEnd \/ SubmitAfterUpdateEnd \/ SkipUpdateEnd) /\ UNCHANGED above

HandlerStep(h) ==
    /\ \/ \E t \in Task : TakeTask(h, t)
       \/ \E q \in Queue : SubmitQueue(h, q)
       \/ PopCb(h) \/ RunCb(h) \/ FinishTask(h) \/ revoke_lease(h)
    /\ UNCHANGED <<palfVars, above>>

GetMaxAppliedScn ==
    /\ \/ MaxAppliedOfFollower \/ ReadMaxScn \/ ReadPalfRole(Critical)
       \/ TakeSnapshot
    /\ UNCHANGED above

AppendStep(a) ==
    \/ AppendRefused(a) \/ AppendToPalf(a) \/ PushCb(a) \/ WakeQueue(a)
    \/ \E q \in Queue : CountSubmit(a, q)

RcStep ==
    \/ RcEvent \/ RcAppendSync \/ RcApplyFollower \/ RcApplyDone \/ RcFollower
    \/ RcReplayFollower \/ RcEndLsn \/ RcReplayDone \/ RcReplayTimeout
    \/ RcApplyLeader \/ RcReplayLeader \/ RcLeader

Init ==
    /\ PalfInit /\ ApplyInit
    /\ lh_role = "FOLLOWER" /\ lh_pid = 0
    /\ app = [a \in Appender |-> IdleApp]
    /\ rp_role = "FOLLOWER" /\ rp_end = 0 /\ replayed = {}
    /\ rc_set = FALSE /\ rc = IdleRc

Next ==
    \/ PalfBecomesFollower \/ PalfBecomesLeader \/ PalfMoves \/ Slide
    \/ \E h \in Handler : HandlerStep(h)
    \/ GetMaxAppliedScn
    \/ \E a \in Appender : AppendStart(a) \/ AppendStep(a)
    \/ Replay
    \/ RcStep

Spec == Init /\ [][Next]_vars

-------------------------------------------------------------------------------
(* Properties                                                              *)

(* The state of every part of the log stream has its type, and none of the *)
(* branches that the code reports as unexpected has been taken.            *)
TypeOK ==
    /\ plog \in Seq(LogType) /\ slid \in 0 .. Len(plog) /\ next_id \in Nat
    /\ palf_role \in PalfRoles /\ palf_pid \in Nat /\ own_pid \in Nat
    /\ pending_end \in Nat
    /\ ap_role \in Roles /\ ap_pid \in Nat /\ ap_end \in Nat
    /\ queue \in [Queue -> Seq(CbType)]
    /\ total_submit \in [Queue -> Nat] /\ total_apply \in [Queue -> Nat]
    /\ last_check_cnt \in [Queue -> Nat]
    /\ lease \in [Task -> {"idle", "handling", "ready"}] /\ pool \in SUBSET Task
    /\ hd \in [Handler -> HandlerType]
    /\ fs \in BOOLEAN /\ ~unexpected
    /\ last_check_scn \in Nat /\ max_applied_scn \in Nat
    /\ gm \in [pc : {"idle", "role", "sync"}, scn : Nat, wait : SUBSET Appender]
    /\ ok \in SUBSET Nat /\ failed \in SUBSET Nat
    /\ lh_role \in Roles /\ lh_pid \in Nat
    /\ app \in [Appender -> AppType]
    /\ rp_role \in Roles /\ rp_end \in Nat /\ replayed \in SUBSET Nat
    /\ rc_set \in BOOLEAN /\ rc \in RcType

(* The logs that have slid, and the logs whose callback is on its way.     *)
SlidIds == {plog[i].id : i \in 1 .. slid}

Outstanding ==
    {app[a].cb.id : a \in {b \in Critical : app[b].pc # "wake"}}
    \union (UNION {{queue[q][i].id : i \in 1 .. Len(queue[q])} : q \in Queue})
    \union {hd[h].cb.id : h \in {g \in Handler : hd[g].pc = "cb"}}

Answered == ok \union failed

(* A log of the prefix that get_max_applied_scn reports is applied: its    *)
(* callback has succeeded or it has been replayed.  The checkpoint may     *)
(* recycle such logs.                                                      *)
MaxAppliedSound ==
    /\ max_applied_scn <= CommittedEnd
    /\ \A i \in 1 .. max_applied_scn : plog[i].id \in ok \union replayed

(* on_success means that the log has slid, on_failure that it never will.  *)
AnswerMatchesLog ==
    /\ failed \intersect ok = {}
    /\ \A id \in ok : \E i \in 1 .. CommittedEnd : plog[i].id = id
    /\ \A i \in 1 .. Len(plog) : plog[i].id \notin failed

(* A log takes effect once, by its callback or by replay: what the replay  *)
(* service has left to do has not been done (the case that the comment of  *)
(* reset_iterator describes included).                                     *)
EffectOnce ==
    /\ ok \intersect replayed = {}
    /\ rp_role = "FOLLOWER" =>
          \A i \in rp_end + 1 .. slid : plog[i].id \notin ok \union replayed
    /\ Outstanding \intersect (Answered \union replayed) = {}

(* While this replica can append, nothing that has slid is forgotten: it   *)
(* is replayed, answered, or its callback is outstanding.                  *)
LeaderHasAll ==
    lh_role = "LEADER" /\ can_append(lh_pid) =>
        SlidIds \subseteq replayed \union ok \union Outstanding

(* "if the callback be executed after 'switch_to_follower', will cause     *)
(* abort": as long as the log handler is FOLLOWER, no callback is under    *)
(* way.                                                                    *)
FollowerQuiet ==
    lh_role = "FOLLOWER" \/ rc.pc = "follower" => Outstanding = {}

(* The lease keeps a task with one thread, or with the pool.               *)
TaskHasOneOwner ==
    \A t \in Task :
        LET owners == {h \in Handler : hd[h].task = t} IN
        /\ Cardinality(owners) + (IF t \in pool THEN 1 ELSE 0) <= 1
        /\ lease[t] = "idle" => owners = {} /\ t \notin pool

(* Threads run, PALF slides the logs it has, and a writer that waits for a *)
(* lock or retries (WLockGuardWithRetryInterval) gets it between readers.  *)
Fairness ==
    /\ WF_vars(Slide) /\ WF_vars(PalfBecomesFollower)
    /\ \A h \in Handler : WF_vars(HandlerStep(h))
    /\ WF_vars(GetMaxAppliedScn)
    /\ \A a \in Appender : WF_vars(AppendStep(a))
    /\ WF_vars(Replay)
    /\ WF_vars(RcStep) /\ SF_vars(RcApplyFollower) /\ SF_vars(RcApplyLeader)
    /\ SF_vars(RcFollower) /\ SF_vars(RcLeader)

FairSpec == Spec /\ Fairness

(* Every callback is answered.                                             *)
CallbackAnswered ==
    \A id \in 1 .. MaxLog : id \in Outstanding ~> id \in Answered

(* When PALF stays leader, the log handler takes over.                     *)
TakesOver ==
    palf_role = "leader" ~>
        \/ palf_role # "leader"
        \/ lh_role = "LEADER" /\ lh_pid = palf_pid

===============================================================================
