---------------------------- MODULE RoleChangeProofs --------------------------
(***************************************************************************)
(* Proofs about the log stream's role change, for any number of appenders, *)
(* queues, handler threads, logs and terms: IInv is an inductive invariant *)
(* of Spec, and the safety properties follow.                              *)
(***************************************************************************)
EXTENDS RoleChange, FiniteSetTheorems, TLAPS

-------------------------------------------------------------------------------
(* The inductive invariant                                                 *)

(* TypeOK by component.                                                    *)
PalfTypes ==
    /\ plog \in Seq(LogType) /\ slid \in Nat /\ slid <= Len(plog) /\ next_id \in Nat
    /\ palf_role \in PalfRoles /\ palf_pid \in Nat /\ own_pid \in Nat
    /\ pending_end \in Nat

ApplyTypes ==
    /\ ap_role \in Roles /\ ap_pid \in Nat /\ ap_end \in Nat /\ fs \in BOOLEAN
    /\ ok \in SUBSET Nat /\ failed \in SUBSET Nat

QueueTypes ==
    /\ queue \in [Queue -> Seq(CbType)]
    /\ total_submit \in [Queue -> Nat] /\ total_apply \in [Queue -> Nat]

TaskTypes ==
    /\ lease \in [Task -> {"idle", "handling", "ready"}] /\ pool \in SUBSET Task
    /\ hd \in [Handler -> HandlerType]

CheckTypes ==
    /\ last_check_scn \in Nat /\ max_applied_scn \in Nat
    /\ last_check_cnt \in [Queue -> Nat]
    /\ gm \in [pc : {"idle", "role", "sync"}, scn : Nat, wait : SUBSET Appender]

AppTypes == app \in [Appender -> AppType] /\ lh_role \in Roles /\ lh_pid \in Nat

ReplayTypes == rp_role \in Roles /\ rp_end \in Nat /\ replayed \in SUBSET Nat

RcTypes == rc_set \in BOOLEAN /\ rc \in RcType

(* The callbacks on their way, in the places they pass through: the        *)
(* appender, a queue, the thread that runs them.                           *)
Submitting(a) == app[a].pc \in {"count", "push"}
Running(h) == hd[h].pc = "cb"

Submitted == {app[a].cb : a \in {b \in Appender : Submitting(b)}}
Queued == UNION {{queue[q][i] : i \in 1 .. Len(queue[q])} : q \in Queue}
InHand == {hd[h].cb : h \in {g \in Handler : Running(g)}}

OutCb == Submitted \union Queued \union InHand

(* The log: numbered in order, proposal ids never go back, and nothing of  *)
(* an earlier term is left in the window once a term is led.               *)
PalfInv ==
    /\ next_id > 0 /\ CommittedEnd <= Len(plog)
    /\ \A i \in 1 .. Len(plog) : plog[i].id < next_id /\ plog[i].pid <= palf_pid
    /\ \A i, j \in 1 .. Len(plog) :
          i < j => plog[i].id < plog[j].id /\ plog[i].pid <= plog[j].pid
    /\ own_pid <= palf_pid
    /\ palf_role = "leader" => own_pid = palf_pid
    /\ \A i \in slid + 1 .. Len(plog) :
          /\ plog[i].pid >= own_pid
          /\ palf_role = "pending" /\ i > pending_end => plog[i].pid > own_pid
          /\ palf_role = "follower" => plog[i].pid > own_pid

(* The roles of the log handler, the apply service and the replay service, *)
(* by where the role change thread stands.                                 *)
RolesAt(lh, ap, rp) == lh_role = lh /\ ap_role = ap /\ rp_role = rp

RoleInv ==
    /\ rc.pc = "idle" => \E r \in Roles : RolesAt(r, r, r)
    /\ rc.pc \in {"sync", "apply_follower"} => RolesAt("LEADER", "LEADER", "LEADER")
    /\ rc.pc = "apply_done" => RolesAt("LEADER", "FOLLOWER", "LEADER")
    /\ rc.pc = "follower" => \E r \in Roles : RolesAt(r, "FOLLOWER", r)
    /\ rc.pc = "replay_follower" => RolesAt("FOLLOWER", "FOLLOWER", "LEADER")
    /\ rc.pc \in {"end_lsn", "replay_done", "apply_leader"} =>
          RolesAt("FOLLOWER", "FOLLOWER", "FOLLOWER")
    /\ rc.pc = "replay_leader" => RolesAt("FOLLOWER", "LEADER", "FOLLOWER")
    /\ rc.pc = "leader" => RolesAt("FOLLOWER", "LEADER", "LEADER")
    /\ fs \/ gm.pc # "idle" => ap_role = "LEADER"
    /\ Critical # {} => lh_role = "LEADER" /\ rc.pc \in {"idle", "sync"}
    /\ rc.pc = "sync" => Critical \subseteq rc.wait

(* The proposal ids they go by.                                            *)
ToLead == {"end_lsn", "replay_done", "apply_leader", "replay_leader", "leader"}

Over == ap_role = "FOLLOWER" \/ rc.pc \in {"sync", "apply_follower"}

PidInv ==
    /\ lh_pid <= palf_pid /\ ap_pid <= own_pid
    /\ lh_role = "LEADER" => lh_pid = ap_pid
    /\ \A a \in Appender : app[a].pid <= lh_pid
    /\ rc.pc # "idle" => lh_pid <= rc.curr /\ rc.curr <= rc.pid /\ rc.pid <= palf_pid
    /\ rc.pc # "idle" /\ rc.to_leader => rc.pid <= own_pid
    /\ rc.pc \in ToLead => rc.to_leader
    /\ rc.pc \in {"replay_leader", "leader"} => ap_pid = rc.pid
    /\ rc.pc \notin {"idle", "replay_leader", "leader"} /\ rc.to_leader => ap_pid < rc.pid

(* Which logs the terms leave where.                                       *)
TermInv ==
    /\ Over => /\ palf_role = "leader" => palf_pid > ap_pid
               /\ \A i \in slid + 1 .. Len(plog) : plog[i].pid > ap_pid
    /\ \A i \in 1 .. Len(plog) :
          /\ plog[i].pid = own_pid => ap_pid = own_pid
          /\ rc.pc # "idle" /\ rc.to_leader => plog[i].pid # rc.pid

(* How far the apply service and the replay service have come.             *)
EndInv ==
    /\ fs => ap_end = slid + 1 /\ plog[slid + 1].pid = ap_pid
    /\ ~fs => ap_end <= slid
    /\ \A i \in 1 .. slid : plog[i].pid = ap_pid => i <= ap_end
    /\ \A i \in 1 .. ap_end : plog[i].pid <= ap_pid
    /\ rp_end <= slid
    /\ rp_role = "FOLLOWER" => ap_end <= rp_end
    /\ rc.pc = "replay_follower" \/ (rc.pc = "follower" /\ lh_role = "LEADER") =>
          rc.end = ap_end
    /\ rc.pc \in {"replay_done", "apply_leader"} =>
          /\ rc.end <= slid
          /\ \A i \in 1 .. Len(plog) : plog[i].pid < rc.pid => i <= rc.end
    /\ rc.pc = "apply_leader" => rc.end <= rp_end

(* What has taken effect.                                                  *)
LogDone(i) ==
    /\ plog[i].pid < ap_pid => i <= slid /\ plog[i].id \in ok \union replayed
    /\ plog[i].pid = ap_pid => plog[i].id \in ok \/ \E c \in OutCb : c.id = plog[i].id

EffectInv ==
    /\ \A i \in 1 .. Len(plog) : LogDone(i)
    /\ \A i \in 1 .. rp_end : plog[i].id \in ok \union replayed
    /\ \A id \in ok : \E i \in 1 .. ap_end : plog[i].id = id
    /\ \A id \in replayed : \E i \in 1 .. rp_end : plog[i].id = id
    /\ \A id \in failed : id < next_id /\ \A i \in 1 .. Len(plog) : plog[i].id # id
    /\ ok \intersect replayed = {}

(* A callback on its way belongs to a log of the term the apply service    *)
(* follows, or to one that has been cut off and will not come back.        *)
InLog(c) == c.lsn \in 1 .. Len(plog) /\ plog[c.lsn].id = c.id /\ plog[c.lsn].pid = ap_pid

CutOff(c) ==
    /\ \A i \in 1 .. Len(plog) : plog[i].id # c.id
    /\ c.lsn > ap_end /\ palf_pid > ap_pid
    /\ \A i \in 1 .. Len(plog) : c.lsn <= i => plog[i].pid > ap_pid

CbSound(c) ==
    /\ c.id < next_id /\ c.id \notin ok /\ c.id \notin failed /\ c.id \notin replayed
    /\ InLog(c) \/ CutOff(c)

RunSound(h) ==
    Running(h) => /\ hd[h].ok <=> hd[h].cb.lsn <= ap_end
                  /\ hd[h].ok \/ ap_role = "FOLLOWER"

CbInv ==
    /\ \A c \in OutCb : CbSound(c)
    /\ \A h \in Handler : RunSound(h)
    /\ lh_role = "FOLLOWER" \/ rc.pc = "follower" => OutCb = {}

(* No callback is in two places.                                           *)
PlaceInv ==
    /\ \A a \in Appender : Submitting(a) =>
          /\ \A b \in Appender : Submitting(b) /\ app[a].cb.id = app[b].cb.id => a = b
          /\ \A q \in Queue : \A i \in 1 .. Len(queue[q]) : app[a].cb.id # queue[q][i].id
          /\ \A h \in Handler : Running(h) => app[a].cb.id # hd[h].cb.id
    /\ \A q \in Queue : \A i \in 1 .. Len(queue[q]) :
          /\ \A r \in Queue : \A j \in 1 .. Len(queue[r]) :
                queue[q][i].id = queue[r][j].id => q = r /\ i = j
          /\ \A h \in Handler : Running(h) => queue[q][i].id # hd[h].cb.id
    /\ \A h, g \in Handler : Running(h) /\ Running(g) /\ hd[h].cb.id = hd[g].cb.id => h = g

(* A task is with one thread, with the pool, or idle.                      *)
TaskInv ==
    /\ \A h \in Handler :
          /\ hd[h].pc = "idle" <=> hd[h].task = NoTask
          /\ hd[h].pc = "submit" => hd[h].task = SubmitTask
          /\ hd[h].pc \in {"queue", "cb"} => hd[h].task \in Queue
          /\ hd[h].task # NoTask => hd[h].task \notin pool /\ lease[hd[h].task] # "idle"
    /\ \A h, g \in Handler : hd[h].task = hd[g].task /\ hd[h].task # NoTask => h = g
    /\ \A t \in pool : lease[t] # "idle"
    /\ \A a \in Appender : app[a].pc \in {"push", "wake"} => app[a].q \in Queue

(* The counters of a queue count the callbacks in it.                      *)
Pushers(q) == {a \in Appender : app[a].pc = "push" /\ app[a].q = q}
Busy(q) == \E h \in Handler : Running(h) /\ hd[h].task = q
Popped(q) == total_apply[q] + (IF Busy(q) THEN 1 ELSE 0)

Counted(q) == total_submit[q] = Popped(q) + Len(queue[q]) + Cardinality(Pushers(q))

CountInv == \A q \in Queue : Counted(q)

(* The snapshot get_max_applied_scn waits for: the logs up to scn are      *)
(* still there, or one that was cut off has its callback outstanding.      *)
Covers(scn) ==
    \/ scn <= Len(plog) /\ \A i \in 1 .. scn : plog[i].pid <= ap_pid
    \/ \E c \in OutCb : c.lsn <= scn /\ \A i \in 1 .. Len(plog) : plog[i].id # c.id

(* The callbacks of the logs up to scn are counted in last_check_cnt.      *)
CountedUpTo(scn) ==
    /\ \A a \in Appender : Submitting(a) => app[a].cb.lsn > scn
    /\ \A q \in Queue : \A i \in 1 .. Len(queue[q]) :
          queue[q][i].lsn <= scn => Popped(q) + i <= last_check_cnt[q]
    /\ \A h \in Handler : Running(h) /\ hd[h].cb.lsn <= scn =>
          total_apply[hd[h].task] < last_check_cnt[hd[h].task]

(* The SCN of the snapshot being taken, and of the one waited for.         *)
Snapped(scn) == \/ gm.pc = "sync" /\ scn = gm.scn
                \/ last_check_scn # 0 /\ scn = last_check_scn

SnapOrder ==
    /\ ap_role = "FOLLOWER" => last_check_scn = 0
    /\ last_check_scn = 0 \/ max_applied_scn <= last_check_scn
    /\ gm.pc # "idle" => max_applied_scn <= gm.scn
    /\ gm.pc = "role" /\ palf_pid = ap_pid => gm.scn <= Len(plog)

SnapWait ==
    gm.pc = "sync" =>
        \A a \in Appender : Submitting(a) /\ app[a].cb.lsn <= gm.scn => a \in gm.wait

SnapInv ==
    /\ SnapOrder /\ SnapWait
    /\ \A scn \in Nat : Snapped(scn) => Covers(scn)
    /\ \A scn \in Nat : last_check_scn # 0 /\ scn = last_check_scn => CountedUpTo(scn)

IInv == /\ TypeOK /\ PalfInv /\ RoleInv /\ PidInv /\ TermInv /\ EndInv /\ EffectInv
        /\ CbInv /\ PlaceInv /\ TaskInv /\ CountInv /\ SnapInv /\ MaxAppliedSound

-------------------------------------------------------------------------------
(* What the groups of actions leave alone                                  *)

USE DEF vars, palfVars, applyVars, queueVars, leaseVars, scnVars, lhVars, rpVars,
    rcVars, appendFrame, palfFrame, above, checkFrame

LEMMA PalfFrame ==
  ASSUME PalfBecomesFollower \/ PalfBecomesLeader \/ PalfMoves
  PROVE  UNCHANGED <<applyVars, lhVars, app, rpVars, rc>>
  BY DEF PalfBecomesFollower, PalfBecomesLeader, PalfMoves

LEMMA SlideFrame ==
  ASSUME Slide
  PROVE  UNCHANGED <<plog, next_id, palf_role, palf_pid, own_pid, pending_end, ap_role,
                     ap_pid, queueVars, hd, scnVars, ok, failed, above>>
  BY DEF Slide, UpdateEnd, SubmitAfterUpdateEnd, SkipUpdateEnd, SlideLog

LEMMA HandlerFrame ==
  ASSUME NEW h \in Handler, HandlerStep(h)
  PROVE  UNCHANGED <<palfVars, above, ap_role, ap_pid, ap_end, total_submit, fs, scnVars,
                     unexpected>>
  BY DEF HandlerStep, TakeTask, SubmitQueue, PopCb, RunCb, FinishTask, revoke_lease

LEMMA CheckFrame ==
  ASSUME GetMaxAppliedScn
  PROVE  UNCHANGED <<palfVars, checkFrame, above>>
  BY DEF GetMaxAppliedScn, MaxAppliedOfFollower, ReadMaxScn, ReadPalfRole, TakeSnapshot

LEMMA AppendFrame ==
  ASSUME NEW a \in Appender, AppendStart(a) \/ AppendStep(a)
  PROVE  UNCHANGED <<slid, palf_role, palf_pid, own_pid, pending_end, ap_role, ap_pid,
                     ap_end, total_apply, last_check_scn, max_applied_scn, last_check_cnt,
                     hd, fs, ok, failed, unexpected, lhVars, rpVars, rc_set>>
  BY DEF AppendStart, AppendStep, AppendRefused, AppendToPalf, palf_append, WriteLog,
     CountSubmit, PushCb, WakeQueue, LeaveCritical

LEMMA ReplayFrame ==
  ASSUME Replay PROVE UNCHANGED <<palfVars, applyVars, lhVars, app, rp_role, rcVars>>
  BY DEF Replay

LEMMA RcFrame ==
  ASSUME RcStep
  PROVE  UNCHANGED <<palfVars, app, ap_end, queueVars, hd, fs, max_applied_scn,
                     last_check_cnt, gm, ok, failed, replayed>>
  BY DEF RcStep, RcEvent, RcAppendSync, RcApplyFollower, RcApplyDone, RcFollower,
     RcReplayFollower, RcEndLsn, RcReplayDone, RcReplayTimeout, RcApplyLeader,
     RcReplayLeader, RcLeader, apply_switch_to_follower, apply_switch_to_leader

-------------------------------------------------------------------------------
(* Sequences                                                               *)

(* A log appended by this replica or by another leader.                    *)
LEMMA WriteLogGrows ==
  ASSUME plog \in Seq(LogType), next_id \in Nat, palf_pid \in Nat, WriteLog
  PROVE  /\ plog' \in Seq(LogType) /\ Len(plog') = Len(plog) + 1 /\ next_id' = next_id + 1
         /\ plog'[Len(plog) + 1].id = next_id /\ plog'[Len(plog) + 1].pid = palf_pid
         /\ \A i \in 1 .. Len(plog) : plog'[i] = plog[i]
  BY DEF WriteLog, LogType

(* The tail that another leader cuts off.                                  *)
LEMMA TruncateCuts ==
  ASSUME plog \in Seq(LogType), slid \in Nat, truncate(CommittedEnd)
  PROVE  \E n \in Nat : /\ CommittedEnd <= n /\ n < Len(plog)
                        /\ plog' \in Seq(LogType) /\ Len(plog') = n
                        /\ \A i \in 1 .. n : plog'[i] = plog[i]
                        /\ pending_end' = IF n < pending_end THEN n ELSE pending_end
<1>1. PICK n \in CommittedEnd .. Len(plog) - 1 :
        /\ plog' = SubSeq(plog, 1, n)
        /\ pending_end' = IF n < pending_end THEN n ELSE pending_end
  BY DEF truncate
<1>2. CommittedEnd \in Nat /\ n \in Nat /\ CommittedEnd <= n /\ n < Len(plog)
  BY DEF CommittedEnd
<1>3. plog' \in Seq(LogType) /\ Len(plog') = n /\ \A i \in 1 .. n : plog'[i] = plog[i]
  BY <1>1, <1>2
<1> QED
  BY <1>1, <1>2, <1>3

(* The entries of the log are typed.                                       *)
LEMMA LogTyped ==
  ASSUME PalfTypes
  PROVE  /\ Len(plog) \in Nat
         /\ \A i \in 1 .. Len(plog) : plog[i].id \in Nat /\ plog[i].pid \in Nat
<1>1. \A i \in 1 .. Len(plog) : plog[i] \in LogType
  BY DEF PalfTypes
<1> QED
  BY <1>1 DEF PalfTypes, LogType

LEMMA QueuePush ==
  ASSUME NEW s \in Seq(CbType), NEW c \in CbType
  PROVE  /\ Append(s, c) \in Seq(CbType) /\ Len(Append(s, c)) = Len(s) + 1
         /\ Append(s, c)[Len(s) + 1] = c
         /\ \A i \in 1 .. Len(s) : Append(s, c)[i] = s[i]
  OBVIOUS

LEMMA QueuePop ==
  ASSUME NEW s \in Seq(CbType), s # <<>>
  PROVE  /\ Tail(s) \in Seq(CbType) /\ Len(s) > 0 /\ Len(Tail(s)) = Len(s) - 1
         /\ Head(s) = s[1] /\ s[1] \in CbType
         /\ \A i \in 1 .. Len(s) - 1 : Tail(s)[i] = s[i + 1]
  OBVIOUS

-------------------------------------------------------------------------------
(* Types                                                                   *)

LEMMA TypeParts ==
  TypeOK <=> /\ PalfTypes /\ ApplyTypes /\ QueueTypes /\ TaskTypes /\ CheckTypes
             /\ AppTypes /\ ReplayTypes /\ RcTypes /\ ~unexpected
<1>1. ASSUME plog \in Seq(LogType)
      PROVE  slid \in 0 .. Len(plog) <=> slid \in Nat /\ slid <= Len(plog)
  BY <1>1
<1> QED
  BY <1>1, Zenon DEF TypeOK, PalfTypes, ApplyTypes, QueueTypes, TaskTypes, CheckTypes,
     AppTypes, ReplayTypes, RcTypes

LEMMA PoppedHandler ==
  ASSUME hd \in [Handler -> HandlerType], NEW h \in Handler, NEW c \in CbType,
         NEW b \in BOOLEAN
  PROVE  [hd EXCEPT ![h].pc = "cb", ![h].cb = c, ![h].ok = b] \in [Handler -> HandlerType]
  BY ZenonT(60) DEF HandlerType

(* What a thread does when a callback returns.                             *)
LEMMA RunCbMoves ==
  ASSUME hd \in [Handler -> HandlerType], NEW h \in Handler, RunCb(h)
  PROVE  /\ hd[h].pc = "cb" /\ \A g \in Handler \ {h} : hd'[g] = hd[g]
         /\ \/ hd'[h].pc = "queue" /\ hd'[h].task = hd[h].task /\ pool' = pool
            \/ hd'[h].pc = "idle" /\ hd'[h].task = NoTask /\ pool' = pool \union {hd[h].task}
         /\ UNCHANGED <<lease, queue, total_submit>>
         /\ total_apply' = [total_apply EXCEPT ![hd[h].task] = @ + 1]
<1>1. /\ hd[h].pc = "cb"
      /\ \/ /\ hd' = [hd EXCEPT ![h] = [IdleHandler EXCEPT !.pc = "queue", !.task = hd[h].task]]
            /\ UNCHANGED pool
         \/ hd' = [hd EXCEPT ![h] = IdleHandler] /\ pool' = pool \union {hd[h].task}
      /\ UNCHANGED <<lease, queue, total_submit>>
      /\ total_apply' = [total_apply EXCEPT ![hd[h].task] = @ + 1]
  BY Zenon DEF RunCb
<1>2. \A g \in Handler \ {h} : hd'[g] = hd[g]
  BY <1>1
<1>3. CASE /\ hd' = [hd EXCEPT ![h] = [IdleHandler EXCEPT !.pc = "queue", !.task = hd[h].task]]
           /\ UNCHANGED pool
  <2>1. hd'[h].pc = "queue" /\ hd'[h].task = hd[h].task
    BY <1>3 DEF IdleHandler
  <2> QED
    BY <1>1, <1>2, <1>3, <2>1
<1>4. CASE hd' = [hd EXCEPT ![h] = IdleHandler] /\ pool' = pool \union {hd[h].task}
  <2>1. hd'[h].pc = "idle" /\ hd'[h].task = NoTask
    BY <1>4 DEF IdleHandler
  <2> QED
    BY <1>1, <1>2, <1>4, <2>1
<1> QED
  BY <1>1, <1>3, <1>4

(* Every step keeps the types, component by component.                     *)
LEMMA PalfTypesStep ==
  ASSUME PalfTypes, PalfInv, [Next]_vars
  PROVE  PalfTypes'
<1> USE DEF PalfTypes, PalfInv, CommittedEnd, PalfRoles
<1>1. CASE PalfBecomesFollower
  BY <1>1 DEF PalfBecomesFollower, pending_to_follower_active_
<1>2. CASE PalfBecomesLeader
  BY <1>2 DEF PalfBecomesLeader, reconfirm_to_leader_active_
<1>3. ASSUME leader_active_to_follower_pending_, UNCHANGED <<palfFrame, rc_set>>
      PROVE PalfTypes'
  BY <1>3 DEF leader_active_to_follower_pending_
<1>4. ASSUME handle_prepare_request, UNCHANGED <<palfFrame, rc_set>> PROVE PalfTypes'
  BY <1>4 DEF handle_prepare_request
<1>5. ASSUME receive_log, UNCHANGED <<palfFrame, rc_set>> PROVE PalfTypes'
  BY <1>5, WriteLogGrows DEF receive_log, WriteLog
<1>6. ASSUME truncate(CommittedEnd), UNCHANGED <<palfFrame, rc_set>> PROVE PalfTypes'
  <2>1. PICK n \in Nat : /\ CommittedEnd <= n /\ n < Len(plog)
                         /\ plog' \in Seq(LogType) /\ Len(plog') = n
                         /\ pending_end' = IF n < pending_end THEN n ELSE pending_end
    BY <1>6, TruncateCuts
  <2> QED
    BY <1>6, <2>1 DEF truncate
<1>7. ASSUME UpdateEnd, UNCHANGED above PROVE PalfTypes'
  BY <1>7 DEF UpdateEnd, SlideLog, SlidingLog, Unexpected
<1>8. ASSUME SubmitAfterUpdateEnd, UNCHANGED above PROVE PalfTypes'
  BY <1>8 DEF SubmitAfterUpdateEnd, SlideLog, submit_task_to_apply_service_, acquire_lease
<1>9. ASSUME SkipUpdateEnd, UNCHANGED above PROVE PalfTypes'
  BY <1>9 DEF SkipUpdateEnd, SlideLog, SlidingLog, Unexpected
<1>10. ASSUME NEW h \in Handler, HandlerStep(h) PROVE PalfTypes'
  BY <1>10, HandlerFrame
<1>11. CASE GetMaxAppliedScn
  BY <1>11, CheckFrame
<1>12. ASSUME NEW a \in Appender, AppendStart(a) PROVE PalfTypes'
  BY <1>12 DEF AppendStart
<1>13. ASSUME NEW a \in Appender, AppendRefused(a) PROVE PalfTypes'
  BY <1>13 DEF AppendRefused, IdleApp
<1>14. ASSUME NEW a \in Appender, AppendToPalf(a) PROVE PalfTypes'
  BY <1>14, WriteLogGrows DEF AppendToPalf, palf_append, WriteLog
<1>15. ASSUME NEW a \in Appender, NEW q \in Queue, CountSubmit(a, q) PROVE PalfTypes'
  BY <1>15 DEF CountSubmit
<1>16. ASSUME NEW a \in Appender, PushCb(a) PROVE PalfTypes'
  BY <1>16 DEF PushCb
<1>17. ASSUME NEW a \in Appender, WakeQueue(a) PROVE PalfTypes'
  BY <1>17
     DEF WakeQueue, LeaveCritical, IdleApp, submit_task_to_apply_service_, acquire_lease
<1>18. CASE Replay
  BY <1>18, ReplayFrame
<1>19. CASE RcStep
  BY <1>19, RcFrame
<1>20. CASE UNCHANGED vars
  BY <1>20
<1> QED
  BY <1>1, <1>2, <1>3, <1>4, <1>5, <1>6, <1>7, <1>8, <1>9, <1>10, <1>11, <1>12, <1>13,
     <1>14, <1>15, <1>16, <1>17, <1>18, <1>19, <1>20 DEF Next, PalfMoves, Slide, AppendStep

LEMMA ApplyTypesStep ==
  ASSUME ApplyTypes, PalfTypes, TaskTypes, RcTypes, [Next]_vars
  PROVE  ApplyTypes'
<1> USE DEF ApplyTypes, Roles
<1>1. CASE PalfBecomesFollower \/ PalfBecomesLeader \/ PalfMoves
  BY <1>1, PalfFrame
<1>2. ASSUME UpdateEnd, UNCHANGED above PROVE ApplyTypes'
  <2>1. CASE ap_end >= slid + 1
    BY <1>2, <2>1 DEF UpdateEnd
  <2>2. CASE ~(ap_end >= slid + 1)
    BY <1>2, <2>2 DEF UpdateEnd, PalfTypes
  <2> QED
    BY <2>1, <2>2
<1>3. ASSUME SubmitAfterUpdateEnd, UNCHANGED above PROVE ApplyTypes'
  BY <1>3 DEF SubmitAfterUpdateEnd, SlideLog, submit_task_to_apply_service_, acquire_lease
<1>4. ASSUME SkipUpdateEnd, UNCHANGED above PROVE ApplyTypes'
  BY <1>4 DEF SkipUpdateEnd, SlideLog, SlidingLog, Unexpected
<1>5. ASSUME NEW h \in Handler, NEW t \in Task, TakeTask(h, t), UNCHANGED <<palfVars, above>>
      PROVE ApplyTypes'
  BY <1>5 DEF TakeTask, IdleHandler
<1>6. ASSUME NEW h \in Handler, NEW q \in Queue, SubmitQueue(h, q), UNCHANGED <<palfVars, above>>
      PROVE ApplyTypes'
  BY <1>6 DEF SubmitQueue, submit_task_to_apply_service_, acquire_lease
<1>7. ASSUME NEW h \in Handler, PopCb(h), UNCHANGED <<palfVars, above>> PROVE ApplyTypes'
  BY <1>7 DEF PopCb, Succeeds
<1>8. ASSUME NEW h \in Handler, RunCb(h), UNCHANGED <<palfVars, above>> PROVE ApplyTypes'
  BY <1>8 DEF RunCb, TaskTypes, HandlerType, CbType
<1>9. ASSUME NEW h \in Handler, FinishTask(h), UNCHANGED <<palfVars, above>>
      PROVE ApplyTypes'
  BY <1>9 DEF FinishTask, Succeeds
<1>10. ASSUME NEW h \in Handler, revoke_lease(h), UNCHANGED <<palfVars, above>>
      PROVE ApplyTypes'
  BY <1>10 DEF revoke_lease, IdleHandler
<1>11. CASE GetMaxAppliedScn
  BY <1>11, CheckFrame
<1>12. ASSUME NEW a \in Appender, AppendStart(a) \/ AppendStep(a) PROVE ApplyTypes'
  BY <1>12, AppendFrame
<1>13. CASE Replay
  BY <1>13, ReplayFrame
<1>14. CASE RcEvent
  BY <1>14 DEF RcEvent, need_execute_role_change, PalfRole, IdleRc
<1>15. CASE RcAppendSync
  BY <1>15 DEF RcAppendSync, RcGoto
<1>16. CASE RcApplyFollower
  BY <1>16
     DEF RcApplyFollower, RcGoto, apply_switch_to_follower,
       submit_task_to_apply_service_, acquire_lease
<1>17. CASE RcApplyDone
  BY <1>17 DEF RcApplyDone
<1>18. CASE RcFollower
  BY <1>18 DEF RcFollower, IdleRc
<1>19. CASE RcReplayFollower
  BY <1>19 DEF RcReplayFollower, IdleRc
<1>20. CASE RcEndLsn
  BY <1>20 DEF RcEndLsn
<1>21. CASE RcReplayDone
  BY <1>21 DEF RcReplayDone, RcGoto
<1>22. CASE RcReplayTimeout
  BY <1>22 DEF RcReplayTimeout, IdleRc
<1>23. CASE RcApplyLeader
  BY <1>23 DEF RcApplyLeader, RcTypes, RcType, apply_switch_to_leader
<1>24. CASE RcReplayLeader
  BY <1>24 DEF RcReplayLeader, RcGoto
<1>25. CASE RcLeader
  BY <1>25 DEF RcLeader, IdleRc
<1>26. CASE UNCHANGED vars
  BY <1>26
<1> QED
  BY <1>1, <1>2, <1>3, <1>4, <1>5, <1>6, <1>7, <1>8, <1>9, <1>10, <1>11, <1>12, <1>13,
     <1>14, <1>15, <1>16, <1>17, <1>18, <1>19, <1>20, <1>21, <1>22, <1>23, <1>24, <1>25,
     <1>26 DEF Next, Slide, HandlerStep, RcStep

LEMMA QueueTypesStep ==
  ASSUME QueueTypes, TaskTypes, AppTypes, TaskInv, [Next]_vars
  PROVE  QueueTypes'
<1> USE DEF QueueTypes
<1>1. CASE PalfBecomesFollower \/ PalfBecomesLeader \/ PalfMoves
  BY <1>1, PalfFrame
<1>2. CASE Slide
  BY <1>2, SlideFrame
<1>3. ASSUME NEW h \in Handler, NEW t \in Task, TakeTask(h, t), UNCHANGED <<palfVars, above>>
      PROVE QueueTypes'
  BY <1>3 DEF TakeTask, IdleHandler
<1>4. ASSUME NEW h \in Handler, NEW q \in Queue, SubmitQueue(h, q), UNCHANGED <<palfVars, above>>
      PROVE QueueTypes'
  BY <1>4 DEF SubmitQueue, submit_task_to_apply_service_, acquire_lease
<1>5. ASSUME NEW h \in Handler, PopCb(h), UNCHANGED <<palfVars, above>> PROVE QueueTypes'
  <2>1. hd[h].task \in Queue /\ queue[hd[h].task] # <<>>
    BY <1>5 DEF PopCb, TaskInv
  <2>2. Tail(queue[hd[h].task]) \in Seq(CbType)
    BY <2>1, QueuePop
  <2> QED
    BY <1>5, <2>1, <2>2 DEF PopCb
<1>6. ASSUME NEW h \in Handler, RunCb(h), UNCHANGED <<palfVars, above>> PROVE QueueTypes'
  BY <1>6 DEF RunCb, TaskInv
<1>7. ASSUME NEW h \in Handler, FinishTask(h), UNCHANGED <<palfVars, above>>
      PROVE QueueTypes'
  BY <1>7 DEF FinishTask, Succeeds
<1>8. ASSUME NEW h \in Handler, revoke_lease(h), UNCHANGED <<palfVars, above>>
      PROVE QueueTypes'
  BY <1>8 DEF revoke_lease, IdleHandler
<1>9. CASE GetMaxAppliedScn
  BY <1>9, CheckFrame
<1>10. ASSUME NEW a \in Appender, AppendStart(a) PROVE QueueTypes'
  BY <1>10 DEF AppendStart
<1>11. ASSUME NEW a \in Appender, AppendRefused(a) PROVE QueueTypes'
  BY <1>11 DEF AppendRefused, IdleApp
<1>12. ASSUME NEW a \in Appender, AppendToPalf(a) PROVE QueueTypes'
  BY <1>12 DEF AppendToPalf, palf_append, can_append, WriteLog
<1>13. ASSUME NEW a \in Appender, NEW q \in Queue, CountSubmit(a, q) PROVE QueueTypes'
  BY <1>13 DEF CountSubmit
<1>14. ASSUME NEW a \in Appender, PushCb(a) PROVE QueueTypes'
  <2>1. app[a].cb \in CbType /\ app[a].q \in Queue
    BY <1>14 DEF PushCb, TaskInv, AppTypes, AppType
  <2>2. Append(queue[app[a].q], app[a].cb) \in Seq(CbType)
    BY <2>1, QueuePush
  <2> QED
    BY <1>14, <2>1, <2>2 DEF PushCb
<1>15. ASSUME NEW a \in Appender, WakeQueue(a) PROVE QueueTypes'
  BY <1>15
     DEF WakeQueue, LeaveCritical, IdleApp, submit_task_to_apply_service_, acquire_lease
<1>16. CASE Replay
  BY <1>16, ReplayFrame
<1>17. CASE RcStep
  BY <1>17, RcFrame
<1>18. CASE UNCHANGED vars
  BY <1>18
<1> QED
  BY <1>1, <1>2, <1>3, <1>4, <1>5, <1>6, <1>7, <1>8, <1>9, <1>10, <1>11, <1>12, <1>13,
     <1>14, <1>15, <1>16, <1>17, <1>18 DEF Next, HandlerStep, AppendStep

LEMMA TaskTypesStep ==
  ASSUME TaskTypes, QueueTypes, AppTypes, TaskInv, [Next]_vars
  PROVE  TaskTypes'
<1> USE DEF TaskTypes, HandlerType, Task, NoCb, CbType
<1>1. CASE PalfBecomesFollower \/ PalfBecomesLeader \/ PalfMoves
  BY <1>1, PalfFrame
<1>2. ASSUME UpdateEnd, UNCHANGED above PROVE TaskTypes'
  BY <1>2 DEF UpdateEnd, SlideLog, SlidingLog, Unexpected
<1>3. ASSUME SubmitAfterUpdateEnd, UNCHANGED above PROVE TaskTypes'
  BY <1>3 DEF SubmitAfterUpdateEnd, SlideLog, submit_task_to_apply_service_, acquire_lease
<1>4. ASSUME SkipUpdateEnd, UNCHANGED above PROVE TaskTypes'
  BY <1>4 DEF SkipUpdateEnd, SlideLog, SlidingLog, Unexpected
<1>5. ASSUME NEW h \in Handler, NEW t \in Task, TakeTask(h, t), UNCHANGED <<palfVars, above>>
      PROVE TaskTypes'
  <2>1. IdleHandler \in HandlerType
    BY DEF IdleHandler
  <2>2. ASSUME NEW p \in {"submit", "queue"}, NEW T \in SUBSET Queue
        PROVE  [IdleHandler EXCEPT !.pc = p, !.task = t, !.todo = T] \in HandlerType
    BY <2>1
  <2> QED
    BY <1>5, <2>2 DEF TakeTask
<1>6. ASSUME NEW h \in Handler, NEW q \in Queue, SubmitQueue(h, q), UNCHANGED <<palfVars, above>>
      PROVE TaskTypes'
  BY <1>6 DEF SubmitQueue, submit_task_to_apply_service_, acquire_lease
<1>7. ASSUME NEW h \in Handler, PopCb(h), UNCHANGED <<palfVars, above>> PROVE TaskTypes'
  <2>1. hd[h].task \in Queue /\ queue[hd[h].task] \in Seq(CbType) /\ queue[hd[h].task] # <<>>
    BY <1>7 DEF PopCb, TaskInv, QueueTypes
  <2>2. Head(queue[hd[h].task]) \in CbType
    BY <2>1, QueuePop
  <2>3. Succeeds(Head(queue[hd[h].task])) \in BOOLEAN
    BY DEF Succeeds
  <2>4. hd' \in [Handler -> HandlerType]
    BY <1>7, <2>2, <2>3, PoppedHandler, Zenon DEF PopCb
  <2> QED
    BY <1>7, <2>4 DEF PopCb
<1>8. ASSUME NEW h \in Handler, RunCb(h), UNCHANGED <<palfVars, above>> PROVE TaskTypes'
  <2>1. IdleHandler \in HandlerType
    BY DEF IdleHandler
  <2>2. [IdleHandler EXCEPT !.pc = "queue", !.task = hd[h].task] \in HandlerType
    BY <2>1
  <2>3. pool' \in SUBSET Task
    BY <1>8 DEF RunCb, TaskInv
  <2>4. /\ \/ hd' = [hd EXCEPT ![h] = [IdleHandler EXCEPT !.pc = "queue", !.task = hd[h].task]]
           \/ hd' = [hd EXCEPT ![h] = IdleHandler]
        /\ UNCHANGED lease
    BY <1>8, Zenon DEF RunCb
  <2> HIDE DEF HandlerType, Task
  <2> QED
    BY <2>1, <2>2, <2>3, <2>4
<1>9. ASSUME NEW h \in Handler, FinishTask(h), UNCHANGED <<palfVars, above>>
      PROVE TaskTypes'
  BY ZenonT(60), <1>9 DEF FinishTask, Succeeds
<1>10. ASSUME NEW h \in Handler, revoke_lease(h), UNCHANGED <<palfVars, above>>
      PROVE TaskTypes'
  <2>1. IdleHandler \in HandlerType
    BY DEF IdleHandler
  <2>2. hd[h].task \in Task
    BY <1>10 DEF revoke_lease, TaskInv
  <2> QED
    BY <1>10, <2>1, <2>2 DEF revoke_lease
<1>11. CASE GetMaxAppliedScn
  BY <1>11, CheckFrame
<1>12. ASSUME NEW a \in Appender, AppendStart(a) PROVE TaskTypes'
  BY <1>12 DEF AppendStart
<1>13. ASSUME NEW a \in Appender, AppendRefused(a) PROVE TaskTypes'
  BY <1>13 DEF AppendRefused, IdleApp
<1>14. ASSUME NEW a \in Appender, AppendToPalf(a) PROVE TaskTypes'
  BY <1>14 DEF AppendToPalf, palf_append, can_append, WriteLog
<1>15. ASSUME NEW a \in Appender, NEW q \in Queue, CountSubmit(a, q) PROVE TaskTypes'
  BY <1>15 DEF CountSubmit
<1>16. ASSUME NEW a \in Appender, PushCb(a) PROVE TaskTypes'
  BY <1>16 DEF PushCb
<1>17. ASSUME NEW a \in Appender, WakeQueue(a) PROVE TaskTypes'
  BY <1>17 DEF WakeQueue, LeaveCritical, AppTypes, TaskInv, submit_task_to_apply_service_,
     acquire_lease
<1>18. CASE Replay
  BY <1>18, ReplayFrame
<1>19. CASE RcEvent
  BY <1>19 DEF RcEvent, need_execute_role_change, PalfRole, IdleRc
<1>20. CASE RcAppendSync
  BY <1>20 DEF RcAppendSync, RcGoto
<1>21. CASE RcApplyFollower
  BY <1>21
     DEF RcApplyFollower, RcGoto, apply_switch_to_follower,
       submit_task_to_apply_service_, acquire_lease
<1>22. CASE RcApplyDone
  BY <1>22 DEF RcApplyDone
<1>23. CASE RcFollower
  BY <1>23 DEF RcFollower, IdleRc
<1>24. CASE RcReplayFollower
  BY <1>24 DEF RcReplayFollower, IdleRc
<1>25. CASE RcEndLsn
  BY <1>25 DEF RcEndLsn
<1>26. CASE RcReplayDone
  BY <1>26 DEF RcReplayDone, RcGoto
<1>27. CASE RcReplayTimeout
  BY <1>27 DEF RcReplayTimeout, IdleRc
<1>28. CASE RcApplyLeader
  BY <1>28 DEF RcApplyLeader, RcGoto, apply_switch_to_leader, Unexpected
<1>29. CASE RcReplayLeader
  BY <1>29 DEF RcReplayLeader, RcGoto
<1>30. CASE RcLeader
  BY <1>30 DEF RcLeader, IdleRc
<1>31. CASE UNCHANGED vars
  BY <1>31
<1> QED
  BY <1>1, <1>2, <1>3, <1>4, <1>5, <1>6, <1>7, <1>8, <1>9, <1>10, <1>11, <1>12, <1>13,
     <1>14, <1>15, <1>16, <1>17, <1>18, <1>19, <1>20, <1>21, <1>22, <1>23, <1>24, <1>25,
     <1>26, <1>27, <1>28, <1>29, <1>30, <1>31
     DEF Next, Slide, HandlerStep, AppendStep, RcStep

LEMMA CheckTypesStep ==
  ASSUME CheckTypes, PalfTypes, QueueTypes, ApplyTypes, [Next]_vars
  PROVE  CheckTypes'
<1> USE DEF CheckTypes, Critical
<1>1. CASE PalfBecomesFollower \/ PalfBecomesLeader \/ PalfMoves
  BY <1>1, PalfFrame
<1>2. CASE Slide
  BY <1>2, SlideFrame
<1>3. ASSUME NEW h \in Handler, HandlerStep(h) PROVE CheckTypes'
  BY <1>3, HandlerFrame
<1>4. ASSUME MaxAppliedOfFollower, UNCHANGED above PROVE CheckTypes'
  BY <1>4 DEF MaxAppliedOfFollower, ApplyTypes
<1>5. ASSUME ReadMaxScn, UNCHANGED above PROVE CheckTypes'
  <2>1. Len(plog) \in Nat
    BY DEF PalfTypes
  <2>2. [gm EXCEPT !.pc = "role", !.scn = Len(plog)]
          \in [pc : {"idle", "role", "sync"}, scn : Nat, wait : SUBSET Appender]
    BY <2>1
  <2>3. max_applied_scn' \in Nat /\ UNCHANGED <<last_check_scn, last_check_cnt>>
    BY <1>5 DEF ReadMaxScn
  <2>4. gm' = gm \/ gm' = [gm EXCEPT !.pc = "role", !.scn = Len(plog)]
    BY <1>5 DEF ReadMaxScn
  <2> QED
    BY <2>2, <2>3, <2>4
<1>6. ASSUME ReadPalfRole(Critical), UNCHANGED above PROVE CheckTypes'
  <2>1. [gm EXCEPT !.pc = "sync", !.wait = Critical]
          \in [pc : {"idle", "role", "sync"}, scn : Nat, wait : SUBSET Appender]
    OBVIOUS
  <2>2. UNCHANGED <<last_check_scn, max_applied_scn, last_check_cnt>>
    BY <1>6 DEF ReadPalfRole
  <2>3. gm' = IdleCheck \/ gm' = [gm EXCEPT !.pc = "sync", !.wait = Critical]
    BY <1>6 DEF ReadPalfRole
  <2>4. IdleCheck \in [pc : {"idle", "role", "sync"}, scn : Nat, wait : SUBSET Appender]
    BY DEF IdleCheck
  <2> QED
    BY <2>1, <2>2, <2>3, <2>4
<1>7. ASSUME TakeSnapshot, UNCHANGED above PROVE CheckTypes'
  BY <1>7 DEF TakeSnapshot, IdleCheck, QueueTypes
<1>8. ASSUME NEW a \in Appender, AppendStart(a) PROVE CheckTypes'
  BY <1>8 DEF AppendStart
<1>9. ASSUME NEW a \in Appender, AppendRefused(a) PROVE CheckTypes'
  BY <1>9 DEF AppendRefused, IdleApp
<1>10. ASSUME NEW a \in Appender, AppendToPalf(a) PROVE CheckTypes'
  BY <1>10 DEF AppendToPalf, palf_append, can_append, WriteLog
<1>11. ASSUME NEW a \in Appender, NEW q \in Queue, CountSubmit(a, q) PROVE CheckTypes'
  BY <1>11 DEF CountSubmit
<1>12. ASSUME NEW a \in Appender, PushCb(a) PROVE CheckTypes'
  BY <1>12 DEF PushCb
<1>13. ASSUME NEW a \in Appender, WakeQueue(a) PROVE CheckTypes'
  BY <1>13
     DEF WakeQueue, LeaveCritical, IdleApp, submit_task_to_apply_service_, acquire_lease
<1>14. CASE Replay
  BY <1>14, ReplayFrame
<1>15. CASE RcEvent
  BY <1>15 DEF RcEvent, need_execute_role_change, PalfRole, IdleRc
<1>16. CASE RcAppendSync
  BY <1>16 DEF RcAppendSync, RcGoto
<1>17. CASE RcApplyFollower
  BY <1>17
     DEF RcApplyFollower, RcGoto, apply_switch_to_follower,
       submit_task_to_apply_service_, acquire_lease
<1>18. CASE RcApplyDone
  BY <1>18 DEF RcApplyDone
<1>19. CASE RcFollower
  BY <1>19 DEF RcFollower, IdleRc
<1>20. CASE RcReplayFollower
  BY <1>20 DEF RcReplayFollower, IdleRc
<1>21. CASE RcEndLsn
  BY <1>21 DEF RcEndLsn
<1>22. CASE RcReplayDone
  BY <1>22 DEF RcReplayDone, RcGoto
<1>23. CASE RcReplayTimeout
  BY <1>23 DEF RcReplayTimeout, IdleRc
<1>24. CASE RcApplyLeader
  BY <1>24 DEF RcApplyLeader, RcGoto, apply_switch_to_leader, Unexpected
<1>25. CASE RcReplayLeader
  BY <1>25 DEF RcReplayLeader, RcGoto
<1>26. CASE RcLeader
  BY <1>26 DEF RcLeader, IdleRc
<1>27. CASE UNCHANGED vars
  BY <1>27
<1> QED
  BY <1>1, <1>2, <1>3, <1>4, <1>5, <1>6, <1>7, <1>8, <1>9, <1>10, <1>11, <1>12, <1>13,
     <1>14, <1>15, <1>16, <1>17, <1>18, <1>19, <1>20, <1>21, <1>22, <1>23, <1>24, <1>25,
     <1>26, <1>27 DEF Next, GetMaxAppliedScn, AppendStep, RcStep

LEMMA AppTypesStep ==
  ASSUME AppTypes, PalfTypes, RcTypes, [Next]_vars
  PROVE  AppTypes'
<1> USE DEF AppTypes, AppType
<1>1. CASE PalfBecomesFollower \/ PalfBecomesLeader \/ PalfMoves
  BY <1>1, PalfFrame
<1>2. CASE Slide
  BY <1>2, SlideFrame
<1>3. ASSUME NEW h \in Handler, HandlerStep(h) PROVE AppTypes'
  BY <1>3, HandlerFrame
<1>4. CASE GetMaxAppliedScn
  BY <1>4, CheckFrame
<1>5. ASSUME NEW a \in Appender, AppendStart(a) PROVE AppTypes'
  BY <1>5 DEF AppendStart
<1>6. ASSUME NEW a \in Appender, AppendRefused(a) PROVE AppTypes'
  BY <1>6 DEF AppendRefused, IdleApp, NoCb, CbType
<1>7. ASSUME NEW a \in Appender, AppendToPalf(a) PROVE AppTypes'
  <2>1. [lsn |-> Len(plog) + 1, id |-> next_id] \in CbType
    BY DEF PalfTypes, CbType
  <2>2. UNCHANGED lhVars
    BY <1>7 DEF AppendToPalf
  <2> QED
    BY <1>7, <2>1, <2>2 DEF AppendToPalf
<1>8. ASSUME NEW a \in Appender, NEW q \in Queue, CountSubmit(a, q) PROVE AppTypes'
  BY <1>8 DEF CountSubmit
<1>9. ASSUME NEW a \in Appender, PushCb(a) PROVE AppTypes'
  BY <1>9 DEF PushCb
<1>10. ASSUME NEW a \in Appender, WakeQueue(a) PROVE AppTypes'
  BY <1>10 DEF WakeQueue, LeaveCritical, IdleApp, NoCb, CbType
<1>11. CASE Replay
  BY <1>11, ReplayFrame
<1>12. CASE RcEvent
  BY <1>12
     DEF RcEvent, need_execute_role_change, PalfRole, IdleRc, PalfTypes, RcTypes,
       RcType, Roles
<1>13. CASE RcAppendSync
  BY <1>13 DEF RcAppendSync, RcGoto, PalfTypes, RcTypes, RcType, Roles
<1>14. CASE RcApplyFollower
  BY <1>14
     DEF RcApplyFollower, RcGoto, apply_switch_to_follower,
       submit_task_to_apply_service_, acquire_lease, PalfTypes, RcTypes, RcType, Roles
<1>15. CASE RcApplyDone
  BY <1>15 DEF RcApplyDone, PalfTypes, RcTypes, RcType, Roles
<1>16. CASE RcFollower
  BY <1>16 DEF RcFollower, IdleRc, PalfTypes, RcTypes, RcType, Roles
<1>17. CASE RcReplayFollower
  BY <1>17 DEF RcReplayFollower, IdleRc, PalfTypes, RcTypes, RcType, Roles
<1>18. CASE RcEndLsn
  BY <1>18 DEF RcEndLsn, PalfTypes, RcTypes, RcType, Roles
<1>19. CASE RcReplayDone
  BY <1>19 DEF RcReplayDone, RcGoto, PalfTypes, RcTypes, RcType, Roles
<1>20. CASE RcReplayTimeout
  BY <1>20 DEF RcReplayTimeout, IdleRc, PalfTypes, RcTypes, RcType, Roles
<1>21. CASE RcApplyLeader
  BY <1>21
     DEF RcApplyLeader, RcGoto, apply_switch_to_leader, Unexpected, PalfTypes, RcTypes,
       RcType, Roles
<1>22. CASE RcReplayLeader
  BY <1>22 DEF RcReplayLeader, RcGoto, PalfTypes, RcTypes, RcType, Roles
<1>23. CASE RcLeader
  BY <1>23 DEF RcLeader, IdleRc, PalfTypes, RcTypes, RcType, Roles
<1>24. CASE UNCHANGED vars
  BY <1>24
<1> QED
  BY <1>1, <1>2, <1>3, <1>4, <1>5, <1>6, <1>7, <1>8, <1>9, <1>10, <1>11, <1>12, <1>13,
     <1>14, <1>15, <1>16, <1>17, <1>18, <1>19, <1>20, <1>21, <1>22, <1>23, <1>24
     DEF Next, AppendStep, RcStep

LEMMA ReplayTypesStep ==
  ASSUME ReplayTypes, PalfTypes, RcTypes, [Next]_vars
  PROVE  ReplayTypes'
<1> USE DEF ReplayTypes, Roles
<1>1. CASE PalfBecomesFollower \/ PalfBecomesLeader \/ PalfMoves
  BY <1>1, PalfFrame
<1>2. CASE Slide
  BY <1>2, SlideFrame
<1>3. ASSUME NEW h \in Handler, HandlerStep(h) PROVE ReplayTypes'
  BY <1>3, HandlerFrame
<1>4. CASE GetMaxAppliedScn
  BY <1>4, CheckFrame
<1>5. ASSUME NEW a \in Appender, AppendStart(a) \/ AppendStep(a) PROVE ReplayTypes'
  BY <1>5, AppendFrame
<1>6. CASE Replay
  <2>1. rp_end + 1 \in 1 .. Len(plog)
    BY <1>6 DEF Replay, PalfTypes
  <2>2. plog[rp_end + 1] \in LogType
    BY <2>1 DEF PalfTypes
  <2>3. replayed' = replayed \union {plog[rp_end + 1].id} /\ rp_end' = rp_end + 1
        /\ UNCHANGED rp_role
    BY <1>6 DEF Replay
  <2>4. plog[rp_end + 1].id \in Nat
    BY <2>2 DEF LogType
  <2>5. replayed' \in SUBSET Nat
    BY <2>3, <2>4
  <2> QED
    BY <2>3, <2>5
<1>7. CASE RcEvent
  BY <1>7
     DEF RcEvent, need_execute_role_change, PalfRole, IdleRc, PalfTypes, LogType,
       RcTypes, RcType
<1>8. CASE RcAppendSync
  BY <1>8 DEF RcAppendSync, RcGoto, PalfTypes, LogType, RcTypes, RcType
<1>9. CASE RcApplyFollower
  BY <1>9
     DEF RcApplyFollower, RcGoto, apply_switch_to_follower,
       submit_task_to_apply_service_, acquire_lease, PalfTypes, LogType, RcTypes, RcType
<1>10. CASE RcApplyDone
  BY <1>10 DEF RcApplyDone, PalfTypes, LogType, RcTypes, RcType
<1>11. CASE RcFollower
  BY <1>11 DEF RcFollower, IdleRc, PalfTypes, LogType, RcTypes, RcType
<1>12. CASE RcReplayFollower
  BY <1>12 DEF RcReplayFollower, IdleRc, PalfTypes, LogType, RcTypes, RcType
<1>13. CASE RcEndLsn
  BY <1>13 DEF RcEndLsn, PalfTypes, LogType, RcTypes, RcType
<1>14. CASE RcReplayDone
  BY <1>14 DEF RcReplayDone, RcGoto, PalfTypes, LogType, RcTypes, RcType
<1>15. CASE RcReplayTimeout
  BY <1>15 DEF RcReplayTimeout, IdleRc, PalfTypes, LogType, RcTypes, RcType
<1>16. CASE RcApplyLeader
  BY <1>16
     DEF RcApplyLeader, RcGoto, apply_switch_to_leader, Unexpected, PalfTypes, LogType,
       RcTypes, RcType
<1>17. CASE RcReplayLeader
  BY <1>17 DEF RcReplayLeader, RcGoto, PalfTypes, LogType, RcTypes, RcType
<1>18. CASE RcLeader
  BY <1>18 DEF RcLeader, IdleRc, PalfTypes, LogType, RcTypes, RcType
<1>19. CASE UNCHANGED vars
  BY <1>19
<1> QED
  BY <1>1, <1>2, <1>3, <1>4, <1>5, <1>6, <1>7, <1>8, <1>9, <1>10, <1>11, <1>12, <1>13,
     <1>14, <1>15, <1>16, <1>17, <1>18, <1>19 DEF Next, RcStep

LEMMA RcTypesStep ==
  ASSUME RcTypes, PalfTypes, ApplyTypes, AppTypes, [Next]_vars
  PROVE  RcTypes'
<1> USE DEF RcTypes, RcType
<1>1. CASE PalfBecomesFollower
  BY <1>1
     DEF PalfBecomesFollower, pending_to_follower_active_, PalfTypes, ApplyTypes,
       AppTypes, Critical, IdleRc
<1>2. CASE PalfBecomesLeader
  BY <1>2
     DEF PalfBecomesLeader, reconfirm_to_leader_active_, PalfTypes, ApplyTypes,
       AppTypes, Critical, IdleRc
<1>3. ASSUME leader_active_to_follower_pending_, UNCHANGED <<palfFrame, rc_set>>
      PROVE RcTypes'
  BY <1>3 DEF leader_active_to_follower_pending_, PalfTypes, ApplyTypes, AppTypes, Critical,
     IdleRc
<1>4. ASSUME handle_prepare_request, UNCHANGED <<palfFrame, rc_set>> PROVE RcTypes'
  BY <1>4 DEF handle_prepare_request, PalfTypes, ApplyTypes, AppTypes, Critical, IdleRc
<1>5. ASSUME receive_log, UNCHANGED <<palfFrame, rc_set>> PROVE RcTypes'
  BY <1>5 DEF receive_log, OtherLeads, WriteLog, PalfTypes, ApplyTypes, AppTypes, Critical,
     IdleRc
<1>6. ASSUME truncate(CommittedEnd), UNCHANGED <<palfFrame, rc_set>> PROVE RcTypes'
  BY <1>6 DEF truncate, OtherLeads, PalfTypes, ApplyTypes, AppTypes, Critical, IdleRc
<1>7. CASE Slide
  BY <1>7, SlideFrame
<1>8. ASSUME NEW h \in Handler, HandlerStep(h) PROVE RcTypes'
  BY <1>8, HandlerFrame
<1>9. CASE GetMaxAppliedScn
  BY <1>9, CheckFrame
<1>10. ASSUME NEW a \in Appender, AppendStart(a) PROVE RcTypes'
  BY <1>10 DEF AppendStart, PalfTypes, ApplyTypes, AppTypes, Critical, IdleRc
<1>11. ASSUME NEW a \in Appender, AppendRefused(a) PROVE RcTypes'
  BY <1>11 DEF AppendRefused, IdleApp, PalfTypes, ApplyTypes, AppTypes, Critical, IdleRc
<1>12. ASSUME NEW a \in Appender, AppendToPalf(a) PROVE RcTypes'
  BY <1>12
     DEF AppendToPalf, palf_append, can_append, WriteLog, PalfTypes, ApplyTypes,
       AppTypes, Critical, IdleRc
<1>13. ASSUME NEW a \in Appender, NEW q \in Queue, CountSubmit(a, q) PROVE RcTypes'
  BY <1>13 DEF CountSubmit, PalfTypes, ApplyTypes, AppTypes, Critical, IdleRc
<1>14. ASSUME NEW a \in Appender, PushCb(a) PROVE RcTypes'
  BY <1>14 DEF PushCb, PalfTypes, ApplyTypes, AppTypes, Critical, IdleRc
<1>15. ASSUME NEW a \in Appender, WakeQueue(a) PROVE RcTypes'
  BY <1>15
     DEF WakeQueue, LeaveCritical, IdleApp, submit_task_to_apply_service_,
       acquire_lease, PalfTypes, ApplyTypes, AppTypes, Critical, IdleRc
<1>16. CASE Replay
  BY <1>16, ReplayFrame
<1>17. CASE RcEvent
  BY <1>17 DEF RcEvent, need_execute_role_change, PalfRole, IdleRc, PalfTypes, ApplyTypes,
     AppTypes, Critical, IdleRc
<1>18. CASE RcAppendSync
  BY <1>18 DEF RcAppendSync, RcGoto, PalfTypes, ApplyTypes, AppTypes, Critical, IdleRc
<1>19. CASE RcApplyFollower
  BY <1>19
     DEF RcApplyFollower, RcGoto, apply_switch_to_follower,
       submit_task_to_apply_service_, acquire_lease, PalfTypes, ApplyTypes, AppTypes,
       Critical, IdleRc
<1>20. CASE RcApplyDone
  BY <1>20 DEF RcApplyDone, PalfTypes, ApplyTypes, AppTypes, Critical, IdleRc
<1>21. CASE RcFollower
  BY <1>21 DEF RcFollower, IdleRc, PalfTypes, ApplyTypes, AppTypes, Critical, IdleRc
<1>22. CASE RcReplayFollower
  BY <1>22 DEF RcReplayFollower, IdleRc, PalfTypes, ApplyTypes, AppTypes, Critical, IdleRc
<1>23. CASE RcEndLsn
  BY <1>23 DEF RcEndLsn, PalfTypes, ApplyTypes, AppTypes, Critical, IdleRc
<1>24. CASE RcReplayDone
  BY <1>24 DEF RcReplayDone, RcGoto, PalfTypes, ApplyTypes, AppTypes, Critical, IdleRc
<1>25. CASE RcReplayTimeout
  BY <1>25 DEF RcReplayTimeout, IdleRc, PalfTypes, ApplyTypes, AppTypes, Critical, IdleRc
<1>26. CASE RcApplyLeader
  BY <1>26
     DEF RcApplyLeader, RcGoto, apply_switch_to_leader, Unexpected, PalfTypes,
       ApplyTypes, AppTypes, Critical, IdleRc
<1>27. CASE RcReplayLeader
  BY <1>27 DEF RcReplayLeader, RcGoto, PalfTypes, ApplyTypes, AppTypes, Critical, IdleRc
<1>28. CASE RcLeader
  BY <1>28 DEF RcLeader, IdleRc, PalfTypes, ApplyTypes, AppTypes, Critical, IdleRc
<1>29. CASE UNCHANGED vars
  BY <1>29
<1> QED
  BY <1>1, <1>2, <1>3, <1>4, <1>5, <1>6, <1>7, <1>8, <1>9, <1>10, <1>11, <1>12, <1>13,
     <1>14, <1>15, <1>16, <1>17, <1>18, <1>19, <1>20, <1>21, <1>22, <1>23, <1>24, <1>25,
     <1>26, <1>27, <1>28, <1>29 DEF Next, PalfMoves, AppendStep, RcStep

-------------------------------------------------------------------------------
(* The log and the terms                                                   *)

LEMMA WriteKeepsPalfInv ==
  ASSUME PalfTypes, ApplyTypes, PalfInv, WriteLog, UNCHANGED fs,
         palf_role = "leader" \/ palf_pid > own_pid
  PROVE  PalfInv'
<1>1. /\ plog' \in Seq(LogType) /\ Len(plog') = Len(plog) + 1 /\ next_id' = next_id + 1
      /\ plog'[Len(plog) + 1].id = next_id /\ plog'[Len(plog) + 1].pid = palf_pid
      /\ \A i \in 1 .. Len(plog) : plog'[i] = plog[i]
  BY WriteLogGrows DEF PalfTypes
<1>2. UNCHANGED <<slid, palf_role, palf_pid, own_pid, pending_end>>
  BY DEF WriteLog
<1>3. /\ Len(plog) \in Nat /\ slid \in Nat /\ next_id \in Nat /\ palf_pid \in Nat
      /\ own_pid \in Nat /\ pending_end \in Nat /\ CommittedEnd' = CommittedEnd
      /\ CommittedEnd \in Nat
  BY <1>2, LogTyped DEF PalfTypes, CommittedEnd
<1>4. \A i \in 1 .. Len(plog) : plog[i].id \in Nat /\ plog[i].pid \in Nat
  BY LogTyped
<1>5. next_id' > 0 /\ CommittedEnd' <= Len(plog') /\ own_pid' <= palf_pid'
      /\ (palf_role' = "leader" => own_pid' = palf_pid')
  BY <1>1, <1>2, <1>3 DEF PalfInv
<1>6. \A i \in 1 .. Len(plog') : plog'[i].id < next_id' /\ plog'[i].pid <= palf_pid'
  BY <1>1, <1>2, <1>3, <1>4 DEF PalfInv
<1>7. \A i, j \in 1 .. Len(plog') :
          i < j => plog'[i].id < plog'[j].id /\ plog'[i].pid <= plog'[j].pid
  <2> SUFFICES ASSUME NEW i \in 1 .. Len(plog'), NEW j \in 1 .. Len(plog'), i < j
               PROVE  plog'[i].id < plog'[j].id /\ plog'[i].pid <= plog'[j].pid
    OBVIOUS
  <2>1. CASE j \in 1 .. Len(plog)
    BY SMTT(30), <1>1, <1>3, <2>1 DEF PalfInv
  <2>2. CASE j = Len(plog) + 1
    BY <1>1, <1>3, <2>2 DEF PalfInv
  <2> QED
    BY <1>1, <1>3, <2>1, <2>2
<1>8. \A i \in slid' + 1 .. Len(plog') :
          /\ plog'[i].pid >= own_pid'
          /\ palf_role' = "pending" /\ i > pending_end' => plog'[i].pid > own_pid'
          /\ palf_role' = "follower" => plog'[i].pid > own_pid'
  <2> SUFFICES ASSUME NEW i \in slid + 1 .. Len(plog) + 1
               PROVE  /\ plog'[i].pid >= own_pid
                      /\ palf_role = "pending" /\ i > pending_end => plog'[i].pid > own_pid
                      /\ palf_role = "follower" => plog'[i].pid > own_pid
    BY <1>1, <1>2
  <2>1. CASE i \in slid + 1 .. Len(plog)
    <3>1. plog'[i] = plog[i]
      BY <1>1, <1>3, <2>1
    <3> QED
      BY <1>3, <2>1, <3>1 DEF PalfInv
  <2>2. CASE i = Len(plog) + 1
    BY <1>1, <1>3, <2>2 DEF PalfInv
  <2> QED
    BY <1>3, <2>1, <2>2
<1> QED
  BY <1>5, <1>6, <1>7, <1>8 DEF PalfInv

(* The log stays in order, and a term starts with an empty window.         *)
LEMMA PalfStep ==
  ASSUME PalfTypes, ApplyTypes, PalfInv, [Next]_vars
  PROVE  PalfInv'
<1> USE DEF PalfTypes, PalfInv, CommittedEnd
<1>0. /\ Len(plog) \in Nat
      /\ \A i \in 1 .. Len(plog) : plog[i].id \in Nat /\ plog[i].pid \in Nat
  BY LogTyped
<1>1. CASE PalfBecomesFollower
  BY <1>1, <1>0 DEF PalfBecomesFollower, pending_to_follower_active_
<1>2. CASE PalfBecomesLeader
  BY <1>2, <1>0 DEF PalfBecomesLeader, reconfirm_to_leader_active_
<1>3. ASSUME leader_active_to_follower_pending_, UNCHANGED <<palfFrame, rc_set>>
      PROVE PalfInv'
  BY <1>3, <1>0 DEF leader_active_to_follower_pending_
<1>4. ASSUME handle_prepare_request, UNCHANGED <<palfFrame, rc_set>> PROVE PalfInv'
  BY <1>4, <1>0 DEF handle_prepare_request
<1>5. ASSUME receive_log, UNCHANGED <<palfFrame, rc_set>> PROVE PalfInv'
  BY <1>5, WriteKeepsPalfInv DEF receive_log, OtherLeads
<1>6. ASSUME truncate(CommittedEnd), UNCHANGED <<palfFrame, rc_set>> PROVE PalfInv'
  <2>1. PICK n \in Nat : /\ CommittedEnd <= n /\ n < Len(plog)
                         /\ plog' \in Seq(LogType) /\ Len(plog') = n
                         /\ \A i \in 1 .. n : plog'[i] = plog[i]
                         /\ pending_end' = IF n < pending_end THEN n ELSE pending_end
    BY <1>6, TruncateCuts
  <2>2. UNCHANGED <<slid, fs, next_id, palf_role, palf_pid, own_pid>>
    BY <1>6 DEF truncate
  <2>3. CommittedEnd' = CommittedEnd /\ CommittedEnd \in Nat /\ slid <= CommittedEnd
    BY <2>2
  <2>4. \A i \in slid + 1 .. n :
          palf_role = "pending" /\ i > pending_end' => plog[i].pid > own_pid
    BY <2>1
  <2>5. next_id' > 0 /\ CommittedEnd' <= Len(plog') /\ own_pid' <= palf_pid'
        /\ (palf_role' = "leader" => own_pid' = palf_pid')
    BY <2>1, <2>2, <2>3
  <2>6. \A i \in 1 .. Len(plog') : plog'[i] = plog[i] /\ i \in 1 .. Len(plog)
    <3> HIDE DEF PalfInv, PalfTypes
    <3> QED
      BY <1>0, <2>1
  <2>7. \A i \in slid' + 1 .. Len(plog') :
          /\ i \in slid + 1 .. Len(plog) /\ plog'[i] = plog[i]
          /\ palf_role' = "pending" /\ i > pending_end' => plog[i].pid > own_pid
    BY <1>0, <2>1, <2>2, <2>4
  <2> HIDE DEF CommittedEnd, PalfTypes
  <2> QED
    BY <2>2, <2>5, <2>6, <2>7
<1>7. ASSUME UpdateEnd, UNCHANGED above PROVE PalfInv'
  BY SMTT(30), <1>7, <1>0 DEF UpdateEnd, SlideLog, SlidingLog, Unexpected
<1>8. ASSUME SubmitAfterUpdateEnd, UNCHANGED above PROVE PalfInv'
  BY <1>8, <1>0
     DEF SubmitAfterUpdateEnd, SlideLog, submit_task_to_apply_service_, acquire_lease
<1>9. ASSUME SkipUpdateEnd, UNCHANGED above PROVE PalfInv'
  BY <1>9, <1>0 DEF SkipUpdateEnd, SlideLog, SlidingLog, Unexpected
<1>10. ASSUME NEW h \in Handler, HandlerStep(h) PROVE PalfInv'
  BY <1>10, HandlerFrame
<1>11. CASE GetMaxAppliedScn
  BY <1>11, CheckFrame
<1>12. ASSUME NEW a \in Appender, AppendStart(a) PROVE PalfInv'
  BY <1>12, <1>0 DEF AppendStart
<1>13. ASSUME NEW a \in Appender, AppendRefused(a) PROVE PalfInv'
  BY <1>13, <1>0 DEF AppendRefused, IdleApp
<1>14. ASSUME NEW a \in Appender, AppendToPalf(a) PROVE PalfInv'
  BY <1>14, WriteKeepsPalfInv DEF AppendToPalf, palf_append, can_append
<1>15. ASSUME NEW a \in Appender, NEW q \in Queue, CountSubmit(a, q) PROVE PalfInv'
  BY <1>15, <1>0 DEF CountSubmit
<1>16. ASSUME NEW a \in Appender, PushCb(a) PROVE PalfInv'
  BY <1>16, <1>0 DEF PushCb
<1>17. ASSUME NEW a \in Appender, WakeQueue(a) PROVE PalfInv'
  BY <1>17, <1>0
     DEF WakeQueue, LeaveCritical, IdleApp, submit_task_to_apply_service_, acquire_lease
<1>18. CASE Replay
  BY <1>18, ReplayFrame
<1>19. CASE RcStep
  BY <1>19, RcFrame
<1>20. CASE UNCHANGED vars
  BY <1>20
<1> QED
  BY <1>1, <1>2, <1>3, <1>4, <1>5, <1>6, <1>7, <1>8, <1>9, <1>10, <1>11, <1>12, <1>13,
     <1>14, <1>15, <1>16, <1>17, <1>18, <1>19, <1>20 DEF Next, PalfMoves, Slide, AppendStep

(* The lease hands a task from one owner to the next.                      *)
LEMMA TaskStep ==
  ASSUME TaskTypes, AppTypes, TaskInv, [Next]_vars
  PROVE  TaskInv'
<1> USE ApplyAssumption DEF TaskInv, TaskTypes, HandlerType, Task
<1>1. CASE PalfBecomesFollower \/ PalfBecomesLeader \/ PalfMoves
  BY <1>1, PalfFrame
<1>2. ASSUME UpdateEnd, UNCHANGED above PROVE TaskInv'
  BY <1>2 DEF UpdateEnd, SlideLog, SlidingLog, Unexpected
<1>3. ASSUME SubmitAfterUpdateEnd, UNCHANGED above PROVE TaskInv'
  BY <1>3 DEF SubmitAfterUpdateEnd, SlideLog, submit_task_to_apply_service_, acquire_lease
<1>4. ASSUME SkipUpdateEnd, UNCHANGED above PROVE TaskInv'
  BY <1>4 DEF SkipUpdateEnd, SlideLog, SlidingLog, Unexpected
<1>5. ASSUME NEW h \in Handler, NEW t \in Task, TakeTask(h, t), UNCHANGED <<palfVars, above>>
      PROVE TaskInv'
  BY <1>5 DEF TakeTask, IdleHandler
<1>6. ASSUME NEW h \in Handler, NEW q \in Queue, SubmitQueue(h, q), UNCHANGED <<palfVars, above>>
      PROVE TaskInv'
  BY <1>6 DEF SubmitQueue, submit_task_to_apply_service_, acquire_lease
<1>7. ASSUME NEW h \in Handler, PopCb(h), UNCHANGED <<palfVars, above>> PROVE TaskInv'
  <2>1. /\ hd'[h].pc = "cb" /\ hd'[h].task = hd[h].task /\ hd[h].pc = "queue"
        /\ \A g \in Handler \ {h} : hd'[g] = hd[g]
    BY <1>7 DEF PopCb
  <2>2. UNCHANGED <<lease, pool, app>>
    BY <1>7 DEF PopCb
  <2> QED
    BY <2>1, <2>2
<1>8. ASSUME NEW h \in Handler, RunCb(h), UNCHANGED <<palfVars, above>> PROVE TaskInv'
  <2>1. /\ hd[h].pc = "cb" /\ \A g \in Handler \ {h} : hd'[g] = hd[g]
        /\ \/ hd'[h].pc = "queue" /\ hd'[h].task = hd[h].task /\ pool' = pool
           \/ hd'[h].pc = "idle" /\ hd'[h].task = NoTask /\ pool' = pool \union {hd[h].task}
        /\ UNCHANGED <<lease, app>>
    BY <1>8, RunCbMoves
  <2>2. hd[h].task \in Queue /\ hd[h].task # NoTask
    BY <2>1
  <2> QED
    BY <2>1, <2>2
<1>9. ASSUME NEW h \in Handler, FinishTask(h), UNCHANGED <<palfVars, above>>
      PROVE TaskInv'
  BY <1>9 DEF FinishTask, Succeeds
<1>10. ASSUME NEW h \in Handler, revoke_lease(h), UNCHANGED <<palfVars, above>>
      PROVE TaskInv'
  BY <1>10 DEF revoke_lease, IdleHandler
<1>11. CASE GetMaxAppliedScn
  BY <1>11, CheckFrame
<1>12. ASSUME NEW a \in Appender, AppendStart(a) PROVE TaskInv'
  BY <1>12 DEF AppendStart, AppTypes, AppType
<1>13. ASSUME NEW a \in Appender, AppendRefused(a) PROVE TaskInv'
  BY <1>13 DEF AppendRefused, IdleApp
<1>14. ASSUME NEW a \in Appender, AppendToPalf(a) PROVE TaskInv'
  BY <1>14 DEF AppendToPalf, AppTypes, AppType
<1>15. ASSUME NEW a \in Appender, NEW q \in Queue, CountSubmit(a, q) PROVE TaskInv'
  BY <1>15 DEF CountSubmit, AppTypes, AppType
<1>16. ASSUME NEW a \in Appender, PushCb(a) PROVE TaskInv'
  BY <1>16 DEF PushCb
<1>17. ASSUME NEW a \in Appender, WakeQueue(a) PROVE TaskInv'
  BY <1>17
     DEF WakeQueue, LeaveCritical, IdleApp, submit_task_to_apply_service_, acquire_lease
<1>18. CASE Replay
  BY <1>18, ReplayFrame
<1>19. CASE RcEvent
  BY <1>19 DEF RcEvent, need_execute_role_change, PalfRole, IdleRc
<1>20. CASE RcAppendSync
  BY <1>20 DEF RcAppendSync, RcGoto
<1>21. CASE RcApplyFollower
  BY <1>21
     DEF RcApplyFollower, RcGoto, apply_switch_to_follower,
       submit_task_to_apply_service_, acquire_lease
<1>22. CASE RcApplyDone
  BY <1>22 DEF RcApplyDone
<1>23. CASE RcFollower
  BY <1>23 DEF RcFollower, IdleRc
<1>24. CASE RcReplayFollower
  BY <1>24 DEF RcReplayFollower, IdleRc
<1>25. CASE RcEndLsn
  BY <1>25 DEF RcEndLsn
<1>26. CASE RcReplayDone
  BY <1>26 DEF RcReplayDone, RcGoto
<1>27. CASE RcReplayTimeout
  BY <1>27 DEF RcReplayTimeout, IdleRc
<1>28. CASE RcApplyLeader
  BY <1>28 DEF RcApplyLeader, RcGoto, apply_switch_to_leader, Unexpected
<1>29. CASE RcReplayLeader
  BY <1>29 DEF RcReplayLeader, RcGoto
<1>30. CASE RcLeader
  BY <1>30 DEF RcLeader, IdleRc
<1>31. CASE UNCHANGED vars
  BY <1>31
<1> QED
  BY <1>1, <1>2, <1>3, <1>4, <1>5, <1>6, <1>7, <1>8, <1>9, <1>10, <1>11, <1>12, <1>13,
     <1>14, <1>15, <1>16, <1>17, <1>18, <1>19, <1>20, <1>21, <1>22, <1>23, <1>24, <1>25,
     <1>26, <1>27, <1>28, <1>29, <1>30, <1>31
     DEF Next, Slide, HandlerStep, AppendStep, RcStep

(* A log is appended only in the term that every part of the log stream    *)
(* follows, and while no role change is under way.                         *)
LEMMA AppendIsCurrent ==
  ASSUME PalfTypes, ApplyTypes, AppTypes, RcTypes, PalfInv, RoleInv, PidInv, TermInv,
         NEW a \in Appender, AppendToPalf(a)
  PROVE  /\ palf_role = "leader" /\ lh_role = "LEADER" /\ ap_role = "LEADER"
         /\ rc.pc = "idle" /\ lh_pid = palf_pid /\ own_pid = palf_pid /\ ap_pid = palf_pid
<1>1. palf_role = "leader" /\ lh_role = "LEADER" /\ app[a].pid = palf_pid
  BY DEF AppendToPalf, palf_append, can_append
<1>2. own_pid = palf_pid /\ app[a].pid <= lh_pid /\ lh_pid <= palf_pid /\ lh_pid = ap_pid
  BY <1>1 DEF PalfInv, PidInv
<1>3. lh_pid \in Nat /\ palf_pid \in Nat
  BY DEF AppTypes, PalfTypes
<1>4. lh_pid = palf_pid
  BY <1>1, <1>2, <1>3
<1>5. ~Over
  BY <1>1, <1>2, <1>3, <1>4 DEF TermInv
<1> QED
  BY <1>1, <1>2, <1>4, <1>5 DEF Over, RoleInv, RolesAt, Roles, RcTypes, RcType,
     ApplyTypes

(* What the role change thread makes of an event: it starts a change only  *)
(* when PALF's term is not the one the log handler follows, and then the   *)
(* term it goes to lead is newer than the one the apply service knows.     *)
LEMMA EventDecides ==
  ASSUME PalfTypes, ApplyTypes, AppTypes, RcTypes, PalfInv, RoleInv, PidInv, TermInv, RcEvent
  PROVE  /\ rc.pc = "idle" /\ UNCHANGED <<palfVars, applyVars, lhVars, app, rpVars>>
         /\ \/ rc'.pc = "idle"
            \/ /\ palf_role # "pending" /\ rc'.pid = palf_pid
               /\ rc'.pc = IF lh_role = "LEADER" THEN "sync"
                           ELSE IF palf_role = "leader" THEN "end_lsn" ELSE "follower"
               /\ rc'.curr = IF palf_role = "leader" THEN lh_pid ELSE palf_pid
               /\ (rc'.to_leader <=> palf_role = "leader")
               /\ palf_role = "leader" => palf_pid = own_pid /\ ap_pid < palf_pid
<1>1. CASE ~need_execute_role_change
  BY <1>1 DEF RcEvent, IdleRc
<1>2. CASE need_execute_role_change
  <2>1. /\ rc.pc = "idle" /\ rc'.pid = palf_pid
        /\ UNCHANGED <<palfVars, applyVars, lhVars, app, rpVars>>
        /\ rc'.pc = IF lh_role = "LEADER" THEN "sync"
                    ELSE IF palf_role = "leader" THEN "end_lsn" ELSE "follower"
        /\ rc'.curr = IF palf_role = "leader" THEN lh_pid ELSE palf_pid
        /\ (rc'.to_leader <=> palf_role = "leader")
    BY <1>2 DEF RcEvent, PalfRole
  <2>2. lh_role \in Roles /\ lh_pid \in Nat /\ palf_pid \in Nat /\ ap_pid \in Nat
    BY DEF AppTypes, PalfTypes, ApplyTypes
  <2>3. palf_role = "leader" => palf_pid = own_pid /\ ap_pid < palf_pid
    <3>1. CASE lh_role = "LEADER"
      BY <1>2, <2>2, <3>1 DEF need_execute_role_change, PalfRole, PalfInv, PidInv
    <3>2. CASE lh_role = "FOLLOWER"
      BY <2>1, <2>2, <3>2 DEF RoleInv, RolesAt, TermInv, Over, PalfInv
    <3> QED
      BY <2>2, <3>1, <3>2 DEF Roles
  <2> QED
    BY <1>2, <2>1, <2>3 DEF need_execute_role_change
<1> QED
  BY <1>1, <1>2

(* The roles follow the role change thread, and an append does not outlive *)
(* the term it began in.                                                   *)
LEMMA RoleStep ==
  ASSUME PalfTypes, ApplyTypes, CheckTypes, AppTypes, ReplayTypes, RcTypes, PalfInv,
         RoleInv, PidInv, TermInv, [Next]_vars
  PROVE  RoleInv'
<1> USE DEF RoleInv, RolesAt, Roles, Critical
<1>1. CASE PalfBecomesFollower \/ PalfBecomesLeader \/ PalfMoves
  BY <1>1, PalfFrame
<1>2. ASSUME UpdateEnd, UNCHANGED above PROVE RoleInv'
  BY <1>2 DEF UpdateEnd, SlideLog, SlidingLog, Unexpected, ApplyTypes, CheckTypes, AppTypes,
     AppType, ReplayTypes, RcTypes, RcType, Readers
<1>3. ASSUME SubmitAfterUpdateEnd, UNCHANGED above PROVE RoleInv'
  BY <1>3 DEF SubmitAfterUpdateEnd, SlideLog, submit_task_to_apply_service_, acquire_lease,
     ApplyTypes, CheckTypes, AppTypes, AppType, ReplayTypes, RcTypes, RcType, Readers
<1>4. ASSUME SkipUpdateEnd, UNCHANGED above PROVE RoleInv'
  BY <1>4
     DEF SkipUpdateEnd, SlideLog, SlidingLog, Unexpected, ApplyTypes, CheckTypes,
       AppTypes, AppType, ReplayTypes, RcTypes, RcType, Readers
<1>5. ASSUME NEW h \in Handler, HandlerStep(h) PROVE RoleInv'
  BY <1>5, HandlerFrame
<1>6. ASSUME MaxAppliedOfFollower, UNCHANGED above PROVE RoleInv'
  BY <1>6 DEF MaxAppliedOfFollower, ApplyTypes, CheckTypes, AppTypes, AppType, ReplayTypes,
     RcTypes, RcType, Readers
<1>7. ASSUME ReadMaxScn, UNCHANGED above PROVE RoleInv'
  BY <1>7
     DEF ReadMaxScn, Unexpected, ApplyTypes, CheckTypes, AppTypes, AppType, ReplayTypes,
       RcTypes, RcType, Readers
<1>8. ASSUME ReadPalfRole(Critical), UNCHANGED above PROVE RoleInv'
  BY <1>8
     DEF ReadPalfRole, IdleCheck, Unexpected, ApplyTypes, CheckTypes, AppTypes, AppType,
       ReplayTypes, RcTypes, RcType, Readers
<1>9. ASSUME TakeSnapshot, UNCHANGED above PROVE RoleInv'
  BY <1>9
     DEF TakeSnapshot, IdleCheck, ApplyTypes, CheckTypes, AppTypes, AppType,
       ReplayTypes, RcTypes, RcType, Readers
<1>10. ASSUME NEW a \in Appender, AppendStart(a) PROVE RoleInv'
  BY <1>10 DEF AppendStart, ApplyTypes, CheckTypes, AppTypes, AppType, ReplayTypes, RcTypes,
     RcType, Readers
<1>11. ASSUME NEW a \in Appender, AppendRefused(a) PROVE RoleInv'
  BY <1>11
     DEF AppendRefused, IdleApp, ApplyTypes, CheckTypes, AppTypes, AppType, ReplayTypes,
       RcTypes, RcType, Readers
<1>12. ASSUME NEW a \in Appender, AppendToPalf(a) PROVE RoleInv'
  BY <1>12, AppendIsCurrent
     DEF AppendToPalf, palf_append, can_append, WriteLog, ApplyTypes, CheckTypes,
       AppTypes, AppType, ReplayTypes, RcTypes, RcType, Readers
<1>13. ASSUME NEW a \in Appender, NEW q \in Queue, CountSubmit(a, q) PROVE RoleInv'
  BY <1>13 DEF CountSubmit, ApplyTypes, CheckTypes, AppTypes, AppType, ReplayTypes, RcTypes,
     RcType, Readers
<1>14. ASSUME NEW a \in Appender, PushCb(a) PROVE RoleInv'
  BY <1>14
     DEF PushCb, ApplyTypes, CheckTypes, AppTypes, AppType, ReplayTypes, RcTypes,
       RcType, Readers
<1>15. ASSUME NEW a \in Appender, WakeQueue(a) PROVE RoleInv'
  BY <1>15
     DEF WakeQueue, LeaveCritical, IdleApp, submit_task_to_apply_service_,
       acquire_lease, ApplyTypes, CheckTypes, AppTypes, AppType, ReplayTypes, RcTypes,
       RcType, Readers
<1>16. CASE Replay
  BY <1>16, ReplayFrame
<1>17. CASE RcEvent
  BY <1>17 DEF RcEvent, need_execute_role_change, PalfRole, IdleRc, ApplyTypes, CheckTypes,
     AppTypes, AppType, ReplayTypes, RcTypes, RcType, Readers
<1>18. CASE RcAppendSync
  BY <1>18 DEF RcAppendSync, RcGoto, ApplyTypes, CheckTypes, AppTypes, AppType, ReplayTypes,
     RcTypes, RcType, Readers
<1>19. CASE RcApplyFollower
  BY <1>19
     DEF RcApplyFollower, RcGoto, apply_switch_to_follower,
       submit_task_to_apply_service_, acquire_lease, ApplyTypes, CheckTypes, AppTypes,
       AppType, ReplayTypes, RcTypes, RcType, Readers
<1>20. CASE RcApplyDone
  BY <1>20 DEF RcApplyDone, ApplyTypes, CheckTypes, AppTypes, AppType, ReplayTypes, RcTypes,
     RcType, Readers
<1>21. CASE RcFollower
  BY <1>21 DEF RcFollower, IdleRc, ApplyTypes, CheckTypes, AppTypes, AppType, ReplayTypes,
     RcTypes, RcType, Readers
<1>22. CASE RcReplayFollower
  BY <1>22
     DEF RcReplayFollower, IdleRc, ApplyTypes, CheckTypes, AppTypes, AppType,
       ReplayTypes, RcTypes, RcType, Readers
<1>23. CASE RcEndLsn
  BY <1>23
     DEF RcEndLsn, ApplyTypes, CheckTypes, AppTypes, AppType, ReplayTypes, RcTypes,
       RcType, Readers
<1>24. CASE RcReplayDone
  BY <1>24 DEF RcReplayDone, RcGoto, ApplyTypes, CheckTypes, AppTypes, AppType, ReplayTypes,
     RcTypes, RcType, Readers
<1>25. CASE RcReplayTimeout
  BY <1>25
     DEF RcReplayTimeout, IdleRc, ApplyTypes, CheckTypes, AppTypes, AppType,
       ReplayTypes, RcTypes, RcType, Readers
<1>26. CASE RcApplyLeader
  <2>1. rc.pc = "apply_leader" /\ ap_pid < rc.pid /\ ap_role = "FOLLOWER"
    BY <1>26 DEF RcApplyLeader, PidInv, ToLead
  <2>2. ap_role' = "LEADER" /\ UNCHANGED <<fs, gm, app, lhVars, rpVars>>
    BY <1>26, <2>1 DEF RcApplyLeader, apply_switch_to_leader, ApplyTypes, RcTypes, RcType
  <2>3. rc'.pc = "replay_leader"
    BY <1>26 DEF RcApplyLeader, RcGoto, RcTypes, RcType
  <2> QED
    BY <2>1, <2>2, <2>3
<1>27. CASE RcReplayLeader
  BY <1>27
     DEF RcReplayLeader, RcGoto, ApplyTypes, CheckTypes, AppTypes, AppType, ReplayTypes,
       RcTypes, RcType, Readers
<1>28. CASE RcLeader
  BY <1>28
     DEF RcLeader, IdleRc, ApplyTypes, CheckTypes, AppTypes, AppType, ReplayTypes,
       RcTypes, RcType, Readers
<1>29. CASE UNCHANGED vars
  BY <1>29
<1> QED
  BY <1>1, <1>2, <1>3, <1>4, <1>5, <1>6, <1>7, <1>8, <1>9, <1>10, <1>11, <1>12, <1>13,
     <1>14, <1>15, <1>16, <1>17, <1>18, <1>19, <1>20, <1>21, <1>22, <1>23, <1>24, <1>25,
     <1>26, <1>27, <1>28, <1>29 DEF Next, Slide, GetMaxAppliedScn, AppendStep, RcStep

(* Proposal ids only grow.                                                 *)
LEMMA PidStep ==
  ASSUME PalfTypes, ApplyTypes, CheckTypes, AppTypes, ReplayTypes, RcTypes, PalfInv,
         RoleInv, PidInv, TermInv, [Next]_vars
  PROVE  PidInv'
<1> USE DEF PidInv, ToLead
<1>1. CASE PalfBecomesFollower
  BY <1>1
     DEF PalfBecomesFollower, pending_to_follower_active_, PalfTypes, ApplyTypes,
       AppTypes, AppType, RcTypes, RcType, PalfInv, RoleInv, RolesAt, Roles
<1>2. CASE PalfBecomesLeader
  BY <1>2
     DEF PalfBecomesLeader, reconfirm_to_leader_active_, PalfTypes, ApplyTypes,
       AppTypes, AppType, RcTypes, RcType, PalfInv, RoleInv, RolesAt, Roles
<1>3. ASSUME leader_active_to_follower_pending_, UNCHANGED <<palfFrame, rc_set>>
      PROVE PidInv'
  BY <1>3 DEF leader_active_to_follower_pending_, PalfTypes, ApplyTypes, AppTypes, AppType,
     RcTypes, RcType, PalfInv, RoleInv, RolesAt, Roles
<1>4. ASSUME handle_prepare_request, UNCHANGED <<palfFrame, rc_set>> PROVE PidInv'
  BY <1>4
     DEF handle_prepare_request, PalfTypes, ApplyTypes, AppTypes, AppType, RcTypes,
       RcType, PalfInv, RoleInv, RolesAt, Roles
<1>5. ASSUME receive_log, UNCHANGED <<palfFrame, rc_set>> PROVE PidInv'
  BY <1>5 DEF receive_log, OtherLeads, WriteLog, PalfTypes, ApplyTypes, AppTypes, AppType,
     RcTypes, RcType, PalfInv, RoleInv, RolesAt, Roles
<1>6. ASSUME truncate(CommittedEnd), UNCHANGED <<palfFrame, rc_set>> PROVE PidInv'
  BY <1>6
     DEF truncate, OtherLeads, PalfTypes, ApplyTypes, AppTypes, AppType, RcTypes,
       RcType, PalfInv, RoleInv, RolesAt, Roles
<1>7. CASE Slide
  BY <1>7, SlideFrame
<1>8. ASSUME NEW h \in Handler, HandlerStep(h) PROVE PidInv'
  BY <1>8, HandlerFrame
<1>9. CASE GetMaxAppliedScn
  BY <1>9, CheckFrame
<1>10. ASSUME NEW a \in Appender, AppendStart(a) PROVE PidInv'
  BY <1>10
     DEF AppendStart, PalfTypes, ApplyTypes, AppTypes, AppType, RcTypes, RcType,
       PalfInv, RoleInv, RolesAt, Roles
<1>11. ASSUME NEW a \in Appender, AppendRefused(a) PROVE PidInv'
  BY <1>11
     DEF AppendRefused, IdleApp, PalfTypes, ApplyTypes, AppTypes, AppType, RcTypes,
       RcType, PalfInv, RoleInv, RolesAt, Roles
<1>12. ASSUME NEW a \in Appender, AppendToPalf(a) PROVE PidInv'
  BY <1>12
     DEF AppendToPalf, palf_append, can_append, WriteLog, PalfTypes, ApplyTypes,
       AppTypes, AppType, RcTypes, RcType, PalfInv, RoleInv, RolesAt, Roles
<1>13. ASSUME NEW a \in Appender, NEW q \in Queue, CountSubmit(a, q) PROVE PidInv'
  BY <1>13
     DEF CountSubmit, PalfTypes, ApplyTypes, AppTypes, AppType, RcTypes, RcType,
       PalfInv, RoleInv, RolesAt, Roles
<1>14. ASSUME NEW a \in Appender, PushCb(a) PROVE PidInv'
  BY <1>14 DEF PushCb, PalfTypes, ApplyTypes, AppTypes, AppType, RcTypes, RcType, PalfInv,
     RoleInv, RolesAt, Roles
<1>15. ASSUME NEW a \in Appender, WakeQueue(a) PROVE PidInv'
  BY <1>15
     DEF WakeQueue, LeaveCritical, IdleApp, submit_task_to_apply_service_,
       acquire_lease, PalfTypes, ApplyTypes, AppTypes, AppType, RcTypes, RcType,
       PalfInv, RoleInv, RolesAt, Roles
<1>16. CASE Replay
  BY <1>16, ReplayFrame
<1>17. CASE RcEvent
  <2>1. lh_pid \in Nat /\ palf_pid \in Nat /\ ap_pid \in Nat
    BY DEF AppTypes, PalfTypes, ApplyTypes
  <2> QED
    BY <1>17, <2>1, EventDecides
<1>18. CASE RcAppendSync
  BY <1>18
     DEF RcAppendSync, RcGoto, PalfTypes, ApplyTypes, AppTypes, AppType, RcTypes,
       RcType, PalfInv, RoleInv, RolesAt, Roles
<1>19. CASE RcApplyFollower
  BY <1>19
     DEF RcApplyFollower, RcGoto, apply_switch_to_follower,
       submit_task_to_apply_service_, acquire_lease, PalfTypes, ApplyTypes, AppTypes,
       AppType, RcTypes, RcType, PalfInv, RoleInv, RolesAt, Roles
<1>20. CASE RcApplyDone
  BY <1>20
     DEF RcApplyDone, PalfTypes, ApplyTypes, AppTypes, AppType, RcTypes, RcType,
       PalfInv, RoleInv, RolesAt, Roles
<1>21. CASE RcFollower
  BY <1>21
     DEF RcFollower, IdleRc, PalfTypes, ApplyTypes, AppTypes, AppType, RcTypes, RcType,
       PalfInv, RoleInv, RolesAt, Roles
<1>22. CASE RcReplayFollower
  BY <1>22 DEF RcReplayFollower, IdleRc, PalfTypes, ApplyTypes, AppTypes, AppType, RcTypes,
     RcType, PalfInv, RoleInv, RolesAt, Roles
<1>23. CASE RcEndLsn
  BY <1>23 DEF RcEndLsn, PalfTypes, ApplyTypes, AppTypes, AppType, RcTypes, RcType, PalfInv,
     RoleInv, RolesAt, Roles
<1>24. CASE RcReplayDone
  BY <1>24
     DEF RcReplayDone, RcGoto, PalfTypes, ApplyTypes, AppTypes, AppType, RcTypes,
       RcType, PalfInv, RoleInv, RolesAt, Roles
<1>25. CASE RcReplayTimeout
  BY <1>25
     DEF RcReplayTimeout, IdleRc, PalfTypes, ApplyTypes, AppTypes, AppType, RcTypes,
       RcType, PalfInv, RoleInv, RolesAt, Roles
<1>26. CASE RcApplyLeader
  BY <1>26
     DEF RcApplyLeader, RcGoto, apply_switch_to_leader, Unexpected, PalfTypes,
       ApplyTypes, AppTypes, AppType, RcTypes, RcType, PalfInv, RoleInv, RolesAt, Roles
<1>27. CASE RcReplayLeader
  BY <1>27
     DEF RcReplayLeader, RcGoto, PalfTypes, ApplyTypes, AppTypes, AppType, RcTypes,
       RcType, PalfInv, RoleInv, RolesAt, Roles
<1>28. CASE RcLeader
  BY <1>28 DEF RcLeader, IdleRc, PalfTypes, ApplyTypes, AppTypes, AppType, RcTypes, RcType,
     PalfInv, RoleInv, RolesAt, Roles
<1>29. CASE UNCHANGED vars
  BY <1>29
<1> QED
  BY <1>1, <1>2, <1>3, <1>4, <1>5, <1>6, <1>7, <1>8, <1>9, <1>10, <1>11, <1>12, <1>13,
     <1>14, <1>15, <1>16, <1>17, <1>18, <1>19, <1>20, <1>21, <1>22, <1>23, <1>24, <1>25,
     <1>26, <1>27, <1>28, <1>29 DEF Next, PalfMoves, AppendStep, RcStep

(* No log of a term that is over, or not yet led, is left or comes.        *)
LEMMA TermStep ==
  ASSUME PalfTypes, ApplyTypes, CheckTypes, AppTypes, ReplayTypes, RcTypes, PalfInv,
         RoleInv, PidInv, TermInv, [Next]_vars
  PROVE  TermInv'
<1> USE DEF TermInv, Over
<1>0. /\ Len(plog) \in Nat
      /\ \A i \in 1 .. Len(plog) : plog[i].id \in Nat /\ plog[i].pid \in Nat
  BY LogTyped
<1>1. CASE PalfBecomesFollower
  BY <1>1, <1>0
     DEF PalfBecomesFollower, pending_to_follower_active_, PalfTypes, ApplyTypes,
       RcTypes, RcType, PalfInv, RoleInv, RolesAt, Roles, PidInv, ToLead
<1>2. CASE PalfBecomesLeader
  BY <1>2, <1>0
     DEF PalfBecomesLeader, reconfirm_to_leader_active_, PalfTypes, ApplyTypes, RcTypes,
       RcType, PalfInv, RoleInv, RolesAt, Roles, PidInv, ToLead
<1>3. ASSUME leader_active_to_follower_pending_, UNCHANGED <<palfFrame, rc_set>>
      PROVE TermInv'
  BY <1>3, <1>0
     DEF leader_active_to_follower_pending_, PalfTypes, ApplyTypes, RcTypes, RcType,
       PalfInv, RoleInv, RolesAt, Roles, PidInv, ToLead
<1>4. ASSUME handle_prepare_request, UNCHANGED <<palfFrame, rc_set>> PROVE TermInv'
  BY <1>4, <1>0
     DEF handle_prepare_request, PalfTypes, ApplyTypes, RcTypes, RcType, PalfInv,
       RoleInv, RolesAt, Roles, PidInv, ToLead
<1>5. ASSUME receive_log, UNCHANGED <<palfFrame, rc_set>> PROVE TermInv'
  <2>1. UNCHANGED <<slid, palf_role, palf_pid, own_pid, ap_role, ap_pid, rc>>
    BY <1>5 DEF receive_log, WriteLog
  <2>2. /\ Len(plog') = Len(plog) + 1
        /\ \A i \in 1 .. Len(plog) : plog'[i] = plog[i]
        /\ plog'[Len(plog) + 1].pid = palf_pid
    BY <1>5 DEF receive_log, WriteLog, PalfTypes
  <2>3. /\ palf_role # "leader" /\ palf_pid > own_pid /\ ap_pid <= own_pid
        /\ rc.pc # "idle" /\ rc.to_leader => rc.pid <= own_pid
    BY <1>5 DEF receive_log, OtherLeads, PidInv
  <2>4. /\ palf_pid \in Nat /\ own_pid \in Nat /\ ap_pid \in Nat /\ rc.pid \in Nat
        /\ slid \in Nat
    BY DEF PalfTypes, ApplyTypes, RcTypes, RcType
  <2>5. ASSUME Over', NEW i \in slid' + 1 .. Len(plog') PROVE plog'[i].pid > ap_pid'
    <3>1. Over /\ i \in slid + 1 .. Len(plog) + 1
      BY <2>1, <2>2, <2>5
    <3>2. CASE i = Len(plog) + 1
      BY <2>1, <2>2, <2>3, <2>4, <3>2
    <3>3. CASE i # Len(plog) + 1
      <4>1. i \in slid + 1 .. Len(plog) /\ i \in 1 .. Len(plog)
        BY <1>0, <2>4, <3>1, <3>3
      <4> QED
        BY <2>1, <2>2, <3>1, <4>1
    <3> QED
      BY <3>2, <3>3
  <2>6. ASSUME NEW i \in 1 .. Len(plog')
        PROVE  /\ plog'[i].pid = own_pid' => ap_pid' = own_pid'
               /\ rc'.pc # "idle" /\ rc'.to_leader => plog'[i].pid # rc'.pid
    <3>1. CASE i = Len(plog) + 1
      BY <2>1, <2>2, <2>3, <2>4, <3>1
    <3>2. CASE i # Len(plog) + 1
      <4>1. i \in 1 .. Len(plog)
        BY <1>0, <2>2, <3>2
      <4> QED
        BY <2>1, <2>2, <4>1
    <3> QED
      BY <3>1, <3>2
  <2> QED
    BY <2>1, <2>3, <2>5, <2>6
<1>6. ASSUME truncate(CommittedEnd), UNCHANGED <<palfFrame, rc_set>> PROVE TermInv'
  <2>1. UNCHANGED <<slid, palf_role, palf_pid, own_pid, ap_role, ap_pid, rc>>
    BY <1>6 DEF truncate
  <2>2. CommittedEnd \in Nat
    BY DEF CommittedEnd, PalfTypes
  <2>3. /\ Len(plog') \in Nat /\ Len(plog') <= Len(plog)
        /\ \A i \in 1 .. Len(plog') : plog'[i] = plog[i]
    BY <1>0, <1>6, <2>2 DEF truncate, PalfTypes
  <2>4. slid \in Nat
    BY DEF PalfTypes
  <2>5. ASSUME Over', NEW i \in slid' + 1 .. Len(plog') PROVE plog'[i].pid > ap_pid'
    <3>1. Over /\ i \in slid + 1 .. Len(plog) /\ i \in 1 .. Len(plog')
      BY <1>0, <2>1, <2>3, <2>4, <2>5
    <3> QED
      BY <2>1, <2>3, <3>1
  <2>6. ASSUME NEW i \in 1 .. Len(plog')
        PROVE  /\ plog'[i].pid = own_pid' => ap_pid' = own_pid'
               /\ rc'.pc # "idle" /\ rc'.to_leader => plog'[i].pid # rc'.pid
    <3>1. i \in 1 .. Len(plog)
      BY <1>0, <2>3
    <3> QED
      BY <2>1, <2>3, <3>1
  <2>7. palf_role' # "leader"
    BY <1>6, <2>1 DEF truncate, OtherLeads
  <2> QED
    BY <2>5, <2>6, <2>7
<1>7. ASSUME UpdateEnd, UNCHANGED above PROVE TermInv'
  BY SMTT(30), <1>7, <1>0
     DEF UpdateEnd, SlideLog, SlidingLog, Unexpected, PalfTypes, ApplyTypes, RcTypes,
       RcType, PalfInv, RoleInv, RolesAt, Roles, PidInv, ToLead
<1>8. ASSUME SubmitAfterUpdateEnd, UNCHANGED above PROVE TermInv'
  BY <1>8, <1>0
     DEF SubmitAfterUpdateEnd, SlideLog, submit_task_to_apply_service_, acquire_lease,
       PalfTypes, ApplyTypes, RcTypes, RcType, PalfInv, RoleInv, RolesAt, Roles, PidInv,
       ToLead
<1>9. ASSUME SkipUpdateEnd, UNCHANGED above PROVE TermInv'
  BY <1>9, <1>0
     DEF SkipUpdateEnd, SlideLog, SlidingLog, Unexpected, PalfTypes, ApplyTypes,
       RcTypes, RcType, PalfInv, RoleInv, RolesAt, Roles, PidInv, ToLead
<1>10. ASSUME NEW h \in Handler, HandlerStep(h) PROVE TermInv'
  BY <1>10, HandlerFrame
<1>11. CASE GetMaxAppliedScn
  BY <1>11, CheckFrame
<1>12. ASSUME NEW a \in Appender, AppendStart(a) PROVE TermInv'
  BY <1>12, <1>0
     DEF AppendStart, PalfTypes, ApplyTypes, RcTypes, RcType, PalfInv, RoleInv, RolesAt,
       Roles, PidInv, ToLead
<1>13. ASSUME NEW a \in Appender, AppendRefused(a) PROVE TermInv'
  BY <1>13, <1>0
     DEF AppendRefused, IdleApp, PalfTypes, ApplyTypes, RcTypes, RcType, PalfInv,
       RoleInv, RolesAt, Roles, PidInv, ToLead
<1>14. ASSUME NEW a \in Appender, AppendToPalf(a) PROVE TermInv'
  BY <1>14, <1>0
     DEF AppendToPalf, palf_append, can_append, WriteLog, PalfTypes, ApplyTypes,
       RcTypes, RcType, PalfInv, RoleInv, RolesAt, Roles, PidInv, ToLead
<1>15. ASSUME NEW a \in Appender, NEW q \in Queue, CountSubmit(a, q) PROVE TermInv'
  BY <1>15, <1>0
     DEF CountSubmit, PalfTypes, ApplyTypes, RcTypes, RcType, PalfInv, RoleInv, RolesAt,
       Roles, PidInv, ToLead
<1>16. ASSUME NEW a \in Appender, PushCb(a) PROVE TermInv'
  BY <1>16, <1>0
     DEF PushCb, PalfTypes, ApplyTypes, RcTypes, RcType, PalfInv, RoleInv, RolesAt,
       Roles, PidInv, ToLead
<1>17. ASSUME NEW a \in Appender, WakeQueue(a) PROVE TermInv'
  BY <1>17, <1>0
     DEF WakeQueue, LeaveCritical, IdleApp, submit_task_to_apply_service_,
       acquire_lease, PalfTypes, ApplyTypes, RcTypes, RcType, PalfInv, RoleInv, RolesAt,
       Roles, PidInv, ToLead
<1>18. CASE Replay
  BY <1>18, ReplayFrame
<1>19. CASE RcEvent
  <2>1. palf_pid \in Nat /\ own_pid \in Nat /\ ap_pid \in Nat /\ slid \in Nat
        /\ palf_role \in PalfRoles /\ lh_role \in Roles
    BY DEF AppTypes, PalfTypes, ApplyTypes
  <2>2. rc.pc = "idle" /\ UNCHANGED <<palfVars, applyVars, lhVars, app, rpVars>>
    BY <1>19, EventDecides
  <2>3. CASE rc'.pc = "idle"
    BY <2>2, <2>3
  <2>4. CASE rc'.pc # "idle"
    <3>1. /\ palf_role # "pending" /\ rc'.pid = palf_pid
          /\ (rc'.to_leader <=> palf_role = "leader")
          /\ palf_role = "leader" => palf_pid = own_pid /\ ap_pid < palf_pid
      BY <1>19, <2>4, EventDecides
    <3>2. \A i \in slid + 1 .. Len(plog) : plog[i].pid > ap_pid
      BY <1>0, <2>1, <3>1 DEF PalfInv, PidInv, PalfRoles
    <3>3. \A i \in 1 .. Len(plog) : rc'.to_leader => plog[i].pid # rc'.pid
      BY <1>0, <2>1, <3>1
    <3> QED
      BY <2>1, <2>2, <3>1, <3>2, <3>3
  <2> QED
    BY <2>3, <2>4
<1>20. CASE RcAppendSync
  BY <1>20, <1>0
     DEF RcAppendSync, RcGoto, PalfTypes, ApplyTypes, RcTypes, RcType, PalfInv, RoleInv,
       RolesAt, Roles, PidInv, ToLead
<1>21. CASE RcApplyFollower
  BY <1>21, <1>0
     DEF RcApplyFollower, RcGoto, apply_switch_to_follower,
       submit_task_to_apply_service_, acquire_lease, PalfTypes, ApplyTypes, RcTypes,
       RcType, PalfInv, RoleInv, RolesAt, Roles, PidInv, ToLead
<1>22. CASE RcApplyDone
  BY <1>22, <1>0
     DEF RcApplyDone, PalfTypes, ApplyTypes, RcTypes, RcType, PalfInv, RoleInv, RolesAt,
       Roles, PidInv, ToLead
<1>23. CASE RcFollower
  BY <1>23, <1>0
     DEF RcFollower, IdleRc, PalfTypes, ApplyTypes, RcTypes, RcType, PalfInv, RoleInv,
       RolesAt, Roles, PidInv, ToLead
<1>24. CASE RcReplayFollower
  BY <1>24, <1>0
     DEF RcReplayFollower, IdleRc, PalfTypes, ApplyTypes, RcTypes, RcType, PalfInv,
       RoleInv, RolesAt, Roles, PidInv, ToLead
<1>25. CASE RcEndLsn
  BY <1>25, <1>0
     DEF RcEndLsn, PalfTypes, ApplyTypes, RcTypes, RcType, PalfInv, RoleInv, RolesAt,
       Roles, PidInv, ToLead
<1>26. CASE RcReplayDone
  BY <1>26, <1>0
     DEF RcReplayDone, RcGoto, PalfTypes, ApplyTypes, RcTypes, RcType, PalfInv, RoleInv,
       RolesAt, Roles, PidInv, ToLead
<1>27. CASE RcReplayTimeout
  BY <1>27, <1>0
     DEF RcReplayTimeout, IdleRc, PalfTypes, ApplyTypes, RcTypes, RcType, PalfInv,
       RoleInv, RolesAt, Roles, PidInv, ToLead
<1>28. CASE RcApplyLeader
  BY <1>28, <1>0
     DEF RcApplyLeader, RcGoto, apply_switch_to_leader, Unexpected, PalfTypes,
       ApplyTypes, RcTypes, RcType, PalfInv, RoleInv, RolesAt, Roles, PidInv, ToLead
<1>29. CASE RcReplayLeader
  BY <1>29, <1>0
     DEF RcReplayLeader, RcGoto, PalfTypes, ApplyTypes, RcTypes, RcType, PalfInv,
       RoleInv, RolesAt, Roles, PidInv, ToLead
<1>30. CASE RcLeader
  BY <1>30, <1>0
     DEF RcLeader, IdleRc, PalfTypes, ApplyTypes, RcTypes, RcType, PalfInv, RoleInv,
       RolesAt, Roles, PidInv, ToLead
<1>31. CASE UNCHANGED vars
  BY <1>31
<1> QED
  BY <1>1, <1>2, <1>3, <1>4, <1>5, <1>6, <1>7, <1>8, <1>9, <1>10, <1>11, <1>12, <1>13,
     <1>14, <1>15, <1>16, <1>17, <1>18, <1>19, <1>20, <1>21, <1>22, <1>23, <1>24, <1>25,
     <1>26, <1>27, <1>28, <1>29, <1>30, <1>31 DEF Next, PalfMoves, Slide, AppendStep, RcStep

(* What the apply service and the replay service have reached.             *)
LEMMA EndStep ==
  ASSUME PalfTypes, ApplyTypes, CheckTypes, AppTypes, ReplayTypes, RcTypes, PalfInv,
         RoleInv, PidInv, TermInv, EndInv, [Next]_vars
  PROVE  EndInv'
<1> USE DEF EndInv
<1>0. /\ Len(plog) \in Nat
      /\ \A i \in 1 .. Len(plog) : plog[i].id \in Nat /\ plog[i].pid \in Nat
  BY LogTyped
<1>1. CASE PalfBecomesFollower
  BY <1>1, <1>0 DEF PalfBecomesFollower, pending_to_follower_active_, PalfTypes, ApplyTypes,
     ReplayTypes, RcTypes, RcType, PalfInv, CommittedEnd, RoleInv, RolesAt, Roles,
     PidInv, ToLead, TermInv, Over
<1>2. CASE PalfBecomesLeader
  BY <1>2, <1>0
     DEF PalfBecomesLeader, reconfirm_to_leader_active_, PalfTypes, ApplyTypes,
       ReplayTypes, RcTypes, RcType, PalfInv, CommittedEnd, RoleInv, RolesAt, Roles,
       PidInv, ToLead, TermInv, Over
<1>3. ASSUME leader_active_to_follower_pending_, UNCHANGED <<palfFrame, rc_set>>
      PROVE EndInv'
  BY <1>3, <1>0
     DEF leader_active_to_follower_pending_, PalfTypes, ApplyTypes, ReplayTypes,
       RcTypes, RcType, PalfInv, CommittedEnd, RoleInv, RolesAt, Roles, PidInv, ToLead,
       TermInv, Over
<1>4. ASSUME handle_prepare_request, UNCHANGED <<palfFrame, rc_set>> PROVE EndInv'
  BY <1>4, <1>0
     DEF handle_prepare_request, PalfTypes, ApplyTypes, ReplayTypes, RcTypes, RcType,
       PalfInv, CommittedEnd, RoleInv, RolesAt, Roles, PidInv, ToLead, TermInv, Over
<1>5. ASSUME receive_log, UNCHANGED <<palfFrame, rc_set>> PROVE EndInv'
  BY <1>5, <1>0
     DEF receive_log, OtherLeads, WriteLog, PalfTypes, ApplyTypes, ReplayTypes, RcTypes,
       RcType, PalfInv, CommittedEnd, RoleInv, RolesAt, Roles, PidInv, ToLead, TermInv,
       Over
<1>6. ASSUME truncate(CommittedEnd), UNCHANGED <<palfFrame, rc_set>> PROVE EndInv'
  BY SMTT(30), <1>6, <1>0
     DEF truncate, OtherLeads, PalfTypes, ApplyTypes, ReplayTypes, RcTypes, RcType,
       PalfInv, CommittedEnd, RoleInv, RolesAt, Roles, PidInv, ToLead, TermInv, Over
<1>7. ASSUME UpdateEnd, UNCHANGED above PROVE EndInv'
  BY SMTT(30), <1>7, <1>0
     DEF UpdateEnd, SlideLog, SlidingLog, Unexpected, PalfTypes, ApplyTypes,
       ReplayTypes, RcTypes, RcType, PalfInv, CommittedEnd, RoleInv, RolesAt, Roles,
       PidInv, ToLead, TermInv, Over
<1>8. ASSUME SubmitAfterUpdateEnd, UNCHANGED above PROVE EndInv'
  BY <1>8, <1>0
     DEF SubmitAfterUpdateEnd, SlideLog, submit_task_to_apply_service_, acquire_lease,
       PalfTypes, ApplyTypes, ReplayTypes, RcTypes, RcType, PalfInv, CommittedEnd,
       RoleInv, RolesAt, Roles, PidInv, ToLead, TermInv, Over
<1>9. ASSUME SkipUpdateEnd, UNCHANGED above PROVE EndInv'
  BY <1>9, <1>0 DEF SkipUpdateEnd, SlideLog, SlidingLog, Unexpected, PalfTypes, ApplyTypes,
     ReplayTypes, RcTypes, RcType, PalfInv, CommittedEnd, RoleInv, RolesAt, Roles,
     PidInv, ToLead, TermInv, Over
<1>10. ASSUME NEW h \in Handler, HandlerStep(h) PROVE EndInv'
  BY <1>10, HandlerFrame
<1>11. CASE GetMaxAppliedScn
  BY <1>11, CheckFrame
<1>12. ASSUME NEW a \in Appender, AppendStart(a) PROVE EndInv'
  BY <1>12, <1>0
     DEF AppendStart, PalfTypes, ApplyTypes, ReplayTypes, RcTypes, RcType, PalfInv,
       CommittedEnd, RoleInv, RolesAt, Roles, PidInv, ToLead, TermInv, Over
<1>13. ASSUME NEW a \in Appender, AppendRefused(a) PROVE EndInv'
  BY <1>13, <1>0
     DEF AppendRefused, IdleApp, PalfTypes, ApplyTypes, ReplayTypes, RcTypes, RcType,
       PalfInv, CommittedEnd, RoleInv, RolesAt, Roles, PidInv, ToLead, TermInv, Over
<1>14. ASSUME NEW a \in Appender, AppendToPalf(a) PROVE EndInv'
  BY SMTT(30), <1>14, <1>0 DEF AppendToPalf, palf_append, can_append, WriteLog, PalfTypes, ApplyTypes,
     ReplayTypes, RcTypes, RcType, PalfInv, CommittedEnd, RoleInv, RolesAt, Roles,
     PidInv, ToLead, TermInv, Over
<1>15. ASSUME NEW a \in Appender, NEW q \in Queue, CountSubmit(a, q) PROVE EndInv'
  BY <1>15, <1>0
     DEF CountSubmit, PalfTypes, ApplyTypes, ReplayTypes, RcTypes, RcType, PalfInv,
       CommittedEnd, RoleInv, RolesAt, Roles, PidInv, ToLead, TermInv, Over
<1>16. ASSUME NEW a \in Appender, PushCb(a) PROVE EndInv'
  BY <1>16, <1>0
     DEF PushCb, PalfTypes, ApplyTypes, ReplayTypes, RcTypes, RcType, PalfInv,
       CommittedEnd, RoleInv, RolesAt, Roles, PidInv, ToLead, TermInv, Over
<1>17. ASSUME NEW a \in Appender, WakeQueue(a) PROVE EndInv'
  BY <1>17, <1>0
     DEF WakeQueue, LeaveCritical, IdleApp, submit_task_to_apply_service_,
       acquire_lease, PalfTypes, ApplyTypes, ReplayTypes, RcTypes, RcType, PalfInv,
       CommittedEnd, RoleInv, RolesAt, Roles, PidInv, ToLead, TermInv, Over
<1>18. CASE Replay
  BY SMTT(30), <1>18, <1>0
     DEF Replay, PalfTypes, ApplyTypes, ReplayTypes, RcTypes, RcType, PalfInv,
       CommittedEnd, RoleInv, RolesAt, Roles, PidInv, ToLead, TermInv, Over
<1>19. CASE RcEvent
  BY <1>19, <1>0
     DEF RcEvent, need_execute_role_change, PalfRole, IdleRc, PalfTypes, ApplyTypes,
       ReplayTypes, RcTypes, RcType, PalfInv, CommittedEnd, RoleInv, RolesAt, Roles,
       PidInv, ToLead, TermInv, Over
<1>20. CASE RcAppendSync
  BY <1>20, <1>0
     DEF RcAppendSync, RcGoto, PalfTypes, ApplyTypes, ReplayTypes, RcTypes, RcType,
       PalfInv, CommittedEnd, RoleInv, RolesAt, Roles, PidInv, ToLead, TermInv, Over
<1>21. CASE RcApplyFollower
  BY <1>21, <1>0
     DEF RcApplyFollower, RcGoto, apply_switch_to_follower,
       submit_task_to_apply_service_, acquire_lease, PalfTypes, ApplyTypes, ReplayTypes,
       RcTypes, RcType, PalfInv, CommittedEnd, RoleInv, RolesAt, Roles, PidInv, ToLead,
       TermInv, Over
<1>22. CASE RcApplyDone
  BY <1>22, <1>0
     DEF RcApplyDone, PalfTypes, ApplyTypes, ReplayTypes, RcTypes, RcType, PalfInv,
       CommittedEnd, RoleInv, RolesAt, Roles, PidInv, ToLead, TermInv, Over
<1>23. CASE RcFollower
  BY <1>23, <1>0
     DEF RcFollower, IdleRc, PalfTypes, ApplyTypes, ReplayTypes, RcTypes, RcType,
       PalfInv, CommittedEnd, RoleInv, RolesAt, Roles, PidInv, ToLead, TermInv, Over
<1>24. CASE RcReplayFollower
  BY <1>24, <1>0
     DEF RcReplayFollower, IdleRc, PalfTypes, ApplyTypes, ReplayTypes, RcTypes, RcType,
       PalfInv, CommittedEnd, RoleInv, RolesAt, Roles, PidInv, ToLead, TermInv, Over
<1>25. CASE RcEndLsn
  BY SMTT(30), <1>25, <1>0 DEF RcEndLsn, PalfTypes, ApplyTypes, ReplayTypes, RcTypes, RcType, PalfInv,
     CommittedEnd, RoleInv, RolesAt, Roles, PidInv, ToLead, TermInv, Over
<1>26. CASE RcReplayDone
  BY <1>26, <1>0
     DEF RcReplayDone, RcGoto, PalfTypes, ApplyTypes, ReplayTypes, RcTypes, RcType,
       PalfInv, CommittedEnd, RoleInv, RolesAt, Roles, PidInv, ToLead, TermInv, Over
<1>27. CASE RcReplayTimeout
  BY <1>27, <1>0
     DEF RcReplayTimeout, IdleRc, PalfTypes, ApplyTypes, ReplayTypes, RcTypes, RcType,
       PalfInv, CommittedEnd, RoleInv, RolesAt, Roles, PidInv, ToLead, TermInv, Over
<1>28. CASE RcApplyLeader
  BY SMTT(30), <1>28, <1>0
     DEF RcApplyLeader, RcGoto, apply_switch_to_leader, Unexpected, PalfTypes,
       ApplyTypes, ReplayTypes, RcTypes, RcType, PalfInv, CommittedEnd, RoleInv,
       RolesAt, Roles, PidInv, ToLead, TermInv, Over
<1>29. CASE RcReplayLeader
  BY <1>29, <1>0
     DEF RcReplayLeader, RcGoto, PalfTypes, ApplyTypes, ReplayTypes, RcTypes, RcType,
       PalfInv, CommittedEnd, RoleInv, RolesAt, Roles, PidInv, ToLead, TermInv, Over
<1>30. CASE RcLeader
  BY <1>30, <1>0
     DEF RcLeader, IdleRc, PalfTypes, ApplyTypes, ReplayTypes, RcTypes, RcType, PalfInv,
       CommittedEnd, RoleInv, RolesAt, Roles, PidInv, ToLead, TermInv, Over
<1>31. CASE UNCHANGED vars
  BY <1>31
<1> QED
  BY <1>1, <1>2, <1>3, <1>4, <1>5, <1>6, <1>7, <1>8, <1>9, <1>10, <1>11, <1>12, <1>13,
     <1>14, <1>15, <1>16, <1>17, <1>18, <1>19, <1>20, <1>21, <1>22, <1>23, <1>24, <1>25,
     <1>26, <1>27, <1>28, <1>29, <1>30, <1>31 DEF Next, PalfMoves, Slide, AppendStep, RcStep

-------------------------------------------------------------------------------
(* The callbacks on their way                                              *)

LEMMA InOut ==
  ASSUME NEW c
  PROVE  c \in OutCb <=>
            \/ \E a \in Appender : Submitting(a) /\ c = app[a].cb
            \/ \E q \in Queue : \E i \in 1 .. Len(queue[q]) : c = queue[q][i]
            \/ \E h \in Handler : Running(h) /\ c = hd[h].cb
<1>1. c \in Submitted <=> \E a \in Appender : Submitting(a) /\ c = app[a].cb
  BY DEF Submitted
<1>2. c \in Queued <=> \E q \in Queue : \E i \in 1 .. Len(queue[q]) : c = queue[q][i]
  <2>1. \A q \in Queue : c \in {queue[q][i] : i \in 1 .. Len(queue[q])}
                          <=> \E i \in 1 .. Len(queue[q]) : c = queue[q][i]
    OBVIOUS
  <2> QED
    BY <2>1 DEF Queued
<1>3. c \in InHand <=> \E h \in Handler : Running(h) /\ c = hd[h].cb
  BY DEF InHand
<1> QED
  BY <1>1, <1>2, <1>3 DEF OutCb

(* The push of an appender, seen from its queue.                           *)
LEMMA PushMoves ==
  ASSUME QueueTypes, TaskTypes, AppTypes, TaskInv, NEW a \in Appender, PushCb(a)
  PROVE  /\ app[a].q \in Queue /\ app[a].pc = "push" /\ app'[a].pc = "wake"
         /\ \A b \in Appender \ {a} : app'[b] = app[b]
         /\ \A r \in Queue \ {app[a].q} : queue'[r] = queue[r]
         /\ Len(queue'[app[a].q]) = Len(queue[app[a].q]) + 1
         /\ Len(queue[app[a].q]) \in Nat
         /\ queue'[app[a].q][Len(queue[app[a].q]) + 1] = app[a].cb
         /\ \A i \in 1 .. Len(queue[app[a].q]) : queue'[app[a].q][i] = queue[app[a].q][i]
<1>1. app[a].q \in Queue /\ app[a].cb \in CbType /\ queue[app[a].q] \in Seq(CbType)
  BY DEF PushCb, TaskInv, AppTypes, AppType, QueueTypes
<1>2. queue'[app[a].q] = Append(queue[app[a].q], app[a].cb)
  BY <1>1 DEF PushCb, QueueTypes
<1>3. \A r \in Queue \ {app[a].q} : queue'[r] = queue[r]
  BY <1>1 DEF PushCb, QueueTypes
<1>4. /\ app[a].pc = "push" /\ app'[a].pc = "wake"
      /\ \A b \in Appender \ {a} : app'[b] = app[b]
  BY DEF PushCb, AppTypes, AppType
<1>5. Len(queue[app[a].q]) \in Nat
  BY <1>1
<1> QED
  BY <1>1, <1>2, <1>3, <1>4, <1>5, QueuePush

(* A thread takes the first callback of its queue.                         *)
LEMMA PopMoves ==
  ASSUME QueueTypes, TaskTypes, TaskInv, NEW h \in Handler, PopCb(h)
  PROVE  /\ hd[h].task \in Queue /\ hd[h].pc = "queue" /\ hd'[h].pc = "cb"
         /\ hd'[h].task = hd[h].task /\ hd'[h].cb = queue[hd[h].task][1]
         /\ \A g \in Handler \ {h} : hd'[g] = hd[g]
         /\ \A r \in Queue \ {hd[h].task} : queue'[r] = queue[r]
         /\ Len(queue[hd[h].task]) \in Nat /\ Len(queue[hd[h].task]) > 0
         /\ Len(queue'[hd[h].task]) = Len(queue[hd[h].task]) - 1
         /\ \A i \in 1 .. Len(queue[hd[h].task]) - 1 :
               queue'[hd[h].task][i] = queue[hd[h].task][i + 1]
         /\ UNCHANGED <<total_submit, total_apply, lease, pool>>
<1>1. hd[h].task \in Queue /\ hd[h].pc = "queue" /\ queue[hd[h].task] # <<>>
  BY DEF PopCb, TaskInv
<1>2. queue[hd[h].task] \in Seq(CbType)
  BY <1>1 DEF QueueTypes
<1>3. queue'[hd[h].task] = Tail(queue[hd[h].task])
  BY <1>1 DEF PopCb, QueueTypes
<1>4. \A r \in Queue \ {hd[h].task} : queue'[r] = queue[r]
  BY <1>1 DEF PopCb, QueueTypes
<1>5. /\ hd'[h].pc = "cb" /\ hd'[h].task = hd[h].task
      /\ hd'[h].cb = Head(queue[hd[h].task])
  BY DEF PopCb, TaskTypes, HandlerType
<1>6. \A g \in Handler \ {h} : hd'[g] = hd[g]
  BY DEF PopCb, TaskTypes
<1>7. UNCHANGED <<total_submit, total_apply, lease, pool>>
  BY DEF PopCb
<1>8. Len(queue[hd[h].task]) \in Nat
  BY <1>2
<1> QED
  BY <1>1, <1>2, <1>3, <1>4, <1>5, <1>6, <1>7, <1>8, QueuePop

(* The same in the next state.                                             *)
LEMMA InOutNext ==
  ASSUME NEW c
  PROVE  c \in OutCb' <=>
            \/ \E a \in Appender : Submitting(a)' /\ c = app'[a].cb
            \/ \E q \in Queue : \E i \in 1 .. Len(queue'[q]) : c = queue'[q][i]
            \/ \E h \in Handler : Running(h)' /\ c = hd'[h].cb
<1>1. c \in Submitted' <=> \E a \in Appender : Submitting(a)' /\ c = app'[a].cb
  BY DEF Submitted
<1>2. c \in Queued' <=> \E q \in Queue : \E i \in 1 .. Len(queue'[q]) : c = queue'[q][i]
  <2>1. \A q \in Queue : c \in {queue'[q][i] : i \in 1 .. Len(queue'[q])}
                          <=> \E i \in 1 .. Len(queue'[q]) : c = queue'[q][i]
    OBVIOUS
  <2> QED
    BY <2>1 DEF Queued
<1>3. c \in InHand' <=> \E h \in Handler : Running(h)' /\ c = hd'[h].cb
  BY DEF InHand
<1> QED
  BY <1>1, <1>2, <1>3 DEF OutCb

(* Steps that move no callback.                                            *)
LEMMA OutFrame ==
  ASSUME UNCHANGED queue,
         \A a \in Appender : Submitting(a)' = Submitting(a),
         \A a \in Appender : Submitting(a) => app'[a].cb = app[a].cb,
         \A h \in Handler : Running(h)' = Running(h),
         \A h \in Handler : Running(h) => hd'[h].cb = hd[h].cb
  PROVE  OutCb' = OutCb
<1>1. ASSUME NEW c PROVE c \in OutCb' <=> c \in OutCb
  BY InOut, InOutNext
<1> QED
  BY <1>1

(* A push and a pop move a callback on.                                    *)
LEMMA OutPush ==
  ASSUME QueueTypes, TaskTypes, AppTypes, TaskInv, NEW a \in Appender, PushCb(a), UNCHANGED hd
  PROVE  OutCb' = OutCb
<1> DEFINE q == app[a].q
<1>1. /\ q \in Queue /\ Submitting(a) /\ ~Submitting(a)'
      /\ \A b \in Appender \ {a} : app'[b] = app[b] /\ Submitting(b)' = Submitting(b)
      /\ \A r \in Queue \ {q} : queue'[r] = queue[r]
      /\ Len(queue'[q]) = Len(queue[q]) + 1 /\ Len(queue[q]) \in Nat
      /\ queue'[q][Len(queue[q]) + 1] = app[a].cb
      /\ \A i \in 1 .. Len(queue[q]) : queue'[q][i] = queue[q][i]
  BY PushMoves DEF Submitting
<1>2. \A h \in Handler : Running(h)' = Running(h) /\ hd'[h] = hd[h]
  BY DEF Running
<1> HIDE DEF q
<1>3. \A r \in Queue : \A i \in 1 .. Len(queue[r]) :
          i \in 1 .. Len(queue'[r]) /\ queue'[r][i] = queue[r][i]
  BY <1>1
<1>4. \A r \in Queue : \A i \in 1 .. Len(queue'[r]) :
          \/ i \in 1 .. Len(queue[r]) /\ queue'[r][i] = queue[r][i]
          \/ queue'[r][i] = app[a].cb
  BY <1>1
<1>5. app[a].cb \in OutCb'
  <2>1. Len(queue[q]) + 1 \in 1 .. Len(queue'[q])
    BY <1>1
  <2> QED
    BY <1>1, <2>1, InOutNext
<1>6. ASSUME NEW c \in OutCb PROVE c \in OutCb'
  BY <1>1, <1>2, <1>3, <1>5, InOut, InOutNext
<1>7. ASSUME NEW c \in OutCb' PROVE c \in OutCb
  BY <1>1, <1>2, <1>4, InOut, InOutNext
<1> QED
  BY <1>6, <1>7

LEMMA OutPop ==
  ASSUME QueueTypes, TaskTypes, TaskInv, NEW h \in Handler, PopCb(h), UNCHANGED app
  PROVE  OutCb' = OutCb
<1> DEFINE q == hd[h].task
<1>1. /\ q \in Queue /\ ~Running(h) /\ Running(h)' /\ hd'[h].cb = queue[q][1]
      /\ \A g \in Handler \ {h} : hd'[g] = hd[g] /\ Running(g)' = Running(g)
      /\ \A r \in Queue \ {q} : queue'[r] = queue[r]
      /\ Len(queue[q]) \in Nat /\ Len(queue[q]) > 0
      /\ Len(queue'[q]) = Len(queue[q]) - 1
      /\ \A i \in 1 .. Len(queue[q]) - 1 : queue'[q][i] = queue[q][i + 1]
  BY PopMoves DEF Running
<1>2. \A a \in Appender : Submitting(a)' = Submitting(a) /\ app'[a] = app[a]
  BY DEF Submitting
<1> HIDE DEF q
<1>3. \A r \in Queue : \A i \in 1 .. Len(queue[r]) :
          \/ queue[r][i] = hd'[h].cb
          \/ \E j \in 1 .. Len(queue'[r]) : queue'[r][j] = queue[r][i]
  <2> SUFFICES ASSUME NEW r \in Queue, NEW i \in 1 .. Len(queue[r]), queue[r][i] # hd'[h].cb
               PROVE  \E j \in 1 .. Len(queue'[r]) : queue'[r][j] = queue[r][i]
    OBVIOUS
  <2>1. CASE r = q
    <3>1. i - 1 \in 1 .. Len(queue'[q]) /\ queue'[q][i - 1] = queue[q][i]
      BY <1>1, <2>1
    <3> QED
      BY <2>1, <3>1
  <2>2. CASE r # q
    BY <1>1, <2>2
  <2> QED
    BY <2>1, <2>2
<1>4. \A r \in Queue : \A i \in 1 .. Len(queue'[r]) :
          \E j \in 1 .. Len(queue[r]) : queue[r][j] = queue'[r][i]
  <2> SUFFICES ASSUME NEW r \in Queue, NEW i \in 1 .. Len(queue'[r])
               PROVE  \E j \in 1 .. Len(queue[r]) : queue[r][j] = queue'[r][i]
    OBVIOUS
  <2>1. CASE r = q
    <3>1. i + 1 \in 1 .. Len(queue[q]) /\ queue'[q][i] = queue[q][i + 1]
      BY <1>1, <2>1
    <3> QED
      BY <2>1, <3>1
  <2>2. CASE r # q
    BY <1>1, <2>2
  <2> QED
    BY <2>1, <2>2
<1>5. hd'[h].cb \in OutCb /\ hd'[h].cb \in OutCb'
  <2>1. 1 \in 1 .. Len(queue[q])
    BY <1>1
  <2> QED
    BY <1>1, <2>1, InOut, InOutNext
<1>6. ASSUME NEW c \in OutCb PROVE c \in OutCb'
  <2>1. CASE \E a \in Appender : Submitting(a) /\ c = app[a].cb
    BY <1>2, <2>1, InOutNext
  <2>2. CASE \E r \in Queue : \E i \in 1 .. Len(queue[r]) : c = queue[r][i]
    BY <1>3, <1>5, <2>2, InOutNext
  <2>3. CASE \E g \in Handler : Running(g) /\ c = hd[g].cb
    BY <1>1, <2>3, InOutNext
  <2> QED
    BY <2>1, <2>2, <2>3, InOut
<1>7. ASSUME NEW c \in OutCb' PROVE c \in OutCb
  <2>1. CASE \E a \in Appender : Submitting(a)' /\ c = app'[a].cb
    BY <1>2, <2>1, InOut
  <2>2. CASE \E r \in Queue : \E i \in 1 .. Len(queue'[r]) : c = queue'[r][i]
    BY <1>4, <2>2, InOut
  <2>3. CASE \E g \in Handler : Running(g)' /\ c = hd'[g].cb
    BY <1>1, <1>5, <2>3, InOut
  <2> QED
    BY <2>1, <2>2, <2>3, InOutNext
<1> QED
  BY <1>6, <1>7

(* A callback that has run is gone: it was in no other place.              *)
LEMMA OutRun ==
  ASSUME TaskTypes, PlaceInv, NEW h \in Handler, RunCb(h), UNCHANGED app
  PROVE  /\ hd[h].cb \in OutCb /\ OutCb' = OutCb \ {hd[h].cb}
         /\ \A c \in OutCb' : c.id # hd[h].cb.id
<1>1. /\ hd[h].pc = "cb" /\ hd'[h].pc # "cb" /\ UNCHANGED queue
      /\ \A g \in Handler \ {h} : hd'[g] = hd[g]
  BY RunCbMoves DEF TaskTypes
<1>2. /\ Running(h) /\ ~Running(h)'
      /\ \A g \in Handler \ {h} : Running(g)' = Running(g) /\ hd'[g] = hd[g]
      /\ \A a \in Appender : Submitting(a)' = Submitting(a) /\ app'[a] = app[a]
  BY <1>1 DEF Running, Submitting
<1>3. hd[h].cb \in OutCb
  BY <1>2, InOut
<1>4. ASSUME NEW c \in OutCb' PROVE c \in OutCb /\ c.id # hd[h].cb.id
  <2>1. CASE \E a \in Appender : Submitting(a)' /\ c = app'[a].cb
    BY <1>2, <2>1, InOut DEF PlaceInv
  <2>2. CASE \E q \in Queue : \E i \in 1 .. Len(queue'[q]) : c = queue'[q][i]
    BY <1>1, <1>2, <2>2, InOut DEF PlaceInv
  <2>3. CASE \E g \in Handler : Running(g)' /\ c = hd'[g].cb
    BY <1>2, <2>3, InOut DEF PlaceInv
  <2> QED
    BY <2>1, <2>2, <2>3, InOutNext
<1>5. ASSUME NEW c \in OutCb, c # hd[h].cb PROVE c \in OutCb'
  BY <1>1, <1>2, <1>5, InOut, InOutNext
<1> QED
  BY <1>3, <1>4, <1>5

(* A new log brings a new callback.                                        *)
LEMMA OutAppend ==
  ASSUME AppTypes, NEW a \in Appender, AppendToPalf(a)
  PROVE  OutCb' = OutCb \union {[lsn |-> Len(plog) + 1, id |-> next_id]}
<1>1. /\ ~Submitting(a) /\ Submitting(a)'
      /\ app'[a].cb = [lsn |-> Len(plog) + 1, id |-> next_id]
      /\ \A b \in Appender \ {a} : app'[b] = app[b] /\ Submitting(b)' = Submitting(b)
  BY DEF AppendToPalf, AppTypes, AppType, Submitting
<1>2. UNCHANGED queue /\ \A h \in Handler : Running(h)' = Running(h) /\ hd'[h] = hd[h]
  BY DEF AppendToPalf, Running
<1>3. PICK new : new = [lsn |-> Len(plog) + 1, id |-> next_id]
  OBVIOUS
<1>4. ASSUME NEW c \in OutCb' PROVE c \in OutCb \union {new}
  BY <1>1, <1>2, <1>3, InOut, InOutNext
<1>5. ASSUME NEW c \in OutCb \union {new} PROVE c \in OutCb'
  BY <1>1, <1>2, <1>3, InOut, InOutNext
<1> QED
  BY <1>3, <1>4, <1>5

(* Every other step leaves the set of callbacks on their way as it is.      *)
LEMMA OutSame ==
  ASSUME QueueTypes, TaskTypes, AppTypes, TaskInv, \A h \in Handler : ~RunCb(h),
         \A a \in Appender : ~AppendToPalf(a), [Next]_vars
  PROVE  OutCb' = OutCb
<1>1. CASE PalfBecomesFollower \/ PalfBecomesLeader \/ PalfMoves
  BY <1>1, PalfFrame, OutFrame DEF Submitting, Running
<1>2. CASE Slide
  BY <1>2, SlideFrame, OutFrame DEF Submitting, Running
<1>3. ASSUME NEW h \in Handler, NEW t \in Task, TakeTask(h, t), UNCHANGED <<palfVars, above>>
      PROVE OutCb' = OutCb
  BY <1>3, OutFrame
     DEF TakeTask, IdleHandler, TaskTypes, HandlerType, AppTypes, AppType, Submitting,
       Running
<1>4. ASSUME NEW h \in Handler, NEW q \in Queue, SubmitQueue(h, q), UNCHANGED <<palfVars, above>>
      PROVE OutCb' = OutCb
  BY <1>4, OutFrame
     DEF SubmitQueue, submit_task_to_apply_service_, acquire_lease, TaskTypes,
       HandlerType, AppTypes, AppType, Submitting, Running
<1>5. ASSUME NEW h \in Handler, PopCb(h), UNCHANGED <<palfVars, above>>
      PROVE OutCb' = OutCb
  BY <1>5, OutPop
<1>6. ASSUME NEW h \in Handler, RunCb(h), UNCHANGED <<palfVars, above>>
      PROVE OutCb' = OutCb
  BY <1>6
<1>7. ASSUME NEW h \in Handler, FinishTask(h), UNCHANGED <<palfVars, above>>
      PROVE OutCb' = OutCb
  BY <1>7, OutFrame
     DEF FinishTask, Succeeds, TaskTypes, HandlerType, AppTypes, AppType, Submitting,
       Running
<1>8. ASSUME NEW h \in Handler, revoke_lease(h), UNCHANGED <<palfVars, above>>
      PROVE OutCb' = OutCb
  BY <1>8, OutFrame
     DEF revoke_lease, IdleHandler, TaskTypes, HandlerType, AppTypes, AppType,
       Submitting, Running
<1>9. CASE GetMaxAppliedScn
  BY <1>9, CheckFrame, OutFrame DEF Submitting, Running
<1>10. ASSUME NEW a \in Appender, AppendStart(a) PROVE OutCb' = OutCb
  BY <1>10, OutFrame
     DEF AppendStart, TaskTypes, HandlerType, AppTypes, AppType, Submitting, Running
<1>11. ASSUME NEW a \in Appender, AppendRefused(a) PROVE OutCb' = OutCb
  BY <1>11, OutFrame
     DEF AppendRefused, IdleApp, TaskTypes, HandlerType, AppTypes, AppType, Submitting,
       Running
<1>12. ASSUME NEW a \in Appender, AppendToPalf(a) PROVE OutCb' = OutCb
  BY <1>12
<1>13. ASSUME NEW a \in Appender, NEW q \in Queue, CountSubmit(a, q) PROVE OutCb' = OutCb
  BY <1>13, OutFrame
     DEF CountSubmit, TaskTypes, HandlerType, AppTypes, AppType, Submitting, Running
<1>14. ASSUME NEW a \in Appender, PushCb(a) PROVE OutCb' = OutCb
  BY <1>14, OutPush DEF PushCb
<1>15. ASSUME NEW a \in Appender, WakeQueue(a) PROVE OutCb' = OutCb
  BY <1>15, OutFrame
     DEF WakeQueue, LeaveCritical, IdleApp, submit_task_to_apply_service_,
       acquire_lease, TaskTypes, HandlerType, AppTypes, AppType, Submitting, Running
<1>16. CASE Replay
  BY <1>16, ReplayFrame, OutFrame DEF Submitting, Running
<1>17. CASE RcStep
  BY <1>17, RcFrame, OutFrame DEF Submitting, Running
<1>18. CASE UNCHANGED vars
  BY <1>18, OutFrame DEF Submitting, Running
<1> QED
  BY <1>1, <1>2, <1>3, <1>4, <1>5, <1>6, <1>7, <1>8, <1>9, <1>10, <1>11, <1>12, <1>13,
     <1>14, <1>15, <1>16, <1>17, <1>18 DEF Next, HandlerStep, AppendStep

(* The callbacks in the queues are all different.                          *)
LEMMA QueuePlaces ==
  ASSUME PlaceInv, NEW q \in Queue, NEW k \in 1 .. Len(queue[q]), NEW n \in Queue,
         NEW l \in 1 .. Len(queue[n]), queue[q][k].id = queue[n][l].id
  PROVE  q = n /\ k = l
<1>1. \A r \in Queue : \A i \in 1 .. Len(queue[r]) :
        \A s \in Queue : \A j \in 1 .. Len(queue[s]) :
           queue[r][i].id = queue[s][j].id => r = s /\ i = j
  BY DEF PlaceInv
<1> QED
  BY <1>1

(* A callback is in one place at a time.                                   *)
LEMMA PlaceStep ==
  ASSUME PalfTypes, QueueTypes, TaskTypes, AppTypes, TaskInv, CbInv, PlaceInv,
         [Next]_vars
  PROVE  PlaceInv'
<1>1. CASE PalfBecomesFollower \/ PalfBecomesLeader \/ PalfMoves
  BY <1>1, PalfFrame DEF PlaceInv, Submitting, Running
<1>2. CASE Slide
  BY <1>2, SlideFrame DEF PlaceInv, Submitting, Running
<1>3. ASSUME NEW h \in Handler, NEW t \in Task, TakeTask(h, t), UNCHANGED <<palfVars, above>>
      PROVE PlaceInv'
  BY <1>3 DEF TakeTask, IdleHandler, TaskTypes, HandlerType, AppTypes, AppType, PlaceInv,
     Submitting, Running
<1>4. ASSUME NEW h \in Handler, NEW q \in Queue, SubmitQueue(h, q), UNCHANGED <<palfVars, above>>
      PROVE PlaceInv'
  BY <1>4
     DEF SubmitQueue, submit_task_to_apply_service_, acquire_lease, TaskTypes,
       HandlerType, AppTypes, AppType, PlaceInv, Submitting, Running
<1>5. ASSUME NEW h \in Handler, PopCb(h), UNCHANGED <<palfVars, above>> PROVE PlaceInv'
  <2>1. /\ ~Running(h) /\ Running(h)' /\ hd'[h].cb = queue[hd[h].task][1]
        /\ hd[h].task \in Queue
        /\ \A g \in Handler \ {h} : hd'[g] = hd[g] /\ Running(g)' = Running(g)
        /\ \A r \in Queue \ {hd[h].task} : queue'[r] = queue[r]
        /\ Len(queue[hd[h].task]) \in Nat /\ Len(queue[hd[h].task]) > 0
        /\ Len(queue'[hd[h].task]) = Len(queue[hd[h].task]) - 1
        /\ \A i \in 1 .. Len(queue[hd[h].task]) - 1 :
              queue'[hd[h].task][i] = queue[hd[h].task][i + 1]
    BY <1>5, PopMoves DEF Running
  <2>2. \A a \in Appender : Submitting(a)' = Submitting(a) /\ app'[a] = app[a]
    BY <1>5 DEF Submitting
  <2>3. PICK s : s = [r \in Queue |-> IF r = hd[h].task THEN 1 ELSE 0]
    OBVIOUS
  <2>4. ASSUME NEW r \in Queue, NEW i \in 1 .. Len(queue'[r])
        PROVE  \E k \in 1 .. Len(queue[r]) :
                  /\ k = i + s[r] /\ s[r] \in Nat /\ queue'[r][i] = queue[r][k]
                  /\ ~(r = hd[h].task /\ k = 1)
    <3>1. /\ i + s[r] \in 1 .. Len(queue[r]) /\ queue'[r][i] = queue[r][i + s[r]]
          /\ s[r] \in Nat /\ ~(r = hd[h].task /\ i + s[r] = 1)
      BY <2>1, <2>3
    <3> QED
      BY <3>1
  <2>5. 1 \in 1 .. Len(queue[hd[h].task])
    BY <2>1
  <2>6. \A q \in Queue : \A i \in 1 .. Len(queue'[q]) :
          \A r \in Queue : \A j \in 1 .. Len(queue'[r]) :
             queue'[q][i].id = queue'[r][j].id => q = r /\ i = j
    <3> SUFFICES ASSUME NEW q \in Queue, NEW i \in 1 .. Len(queue'[q]), NEW r \in Queue,
                        NEW j \in 1 .. Len(queue'[r]), queue'[q][i].id = queue'[r][j].id
                 PROVE  q = r /\ i = j
      OBVIOUS
    <3>1. PICK k \in 1 .. Len(queue[q]) :
            k = i + s[q] /\ s[q] \in Nat /\ queue'[q][i] = queue[q][k]
      BY <2>4
    <3>2. PICK m \in 1 .. Len(queue[r]) : m = j + s[r] /\ queue'[r][j] = queue[r][m]
      BY <2>4
    <3>3. queue[q][k].id = queue[r][m].id
      BY <3>1, <3>2
    <3>4. ASSUME NEW n \in Queue, NEW l \in 1 .. Len(queue[n]), queue[q][k].id = queue[n][l].id
          PROVE  q = n /\ k = l
      BY <3>4, QueuePlaces
    <3>5. q = r /\ k = m
      BY <3>2, <3>3, <3>4
    <3> QED
      BY <3>1, <3>2, <3>5
  <2>7. \A q \in Queue : \A i \in 1 .. Len(queue'[q]) :
          \A g \in Handler : Running(g)' => queue'[q][i].id # hd'[g].cb.id
    <3> SUFFICES ASSUME NEW q \in Queue, NEW i \in 1 .. Len(queue'[q]), NEW g \in Handler,
                        Running(g)'
                 PROVE  queue'[q][i].id # hd'[g].cb.id
      OBVIOUS
    <3>1. PICK k \in 1 .. Len(queue[q]) :
            queue'[q][i] = queue[q][k] /\ ~(q = hd[h].task /\ k = 1)
      BY <2>4
    <3>2. CASE g = h
      BY <2>1, <2>5, <3>1, <3>2 DEF PlaceInv
    <3>3. CASE g # h
      BY <2>1, <3>1, <3>3 DEF PlaceInv
    <3> QED
      BY <3>2, <3>3
  <2>8. \A g, k \in Handler : Running(g)' /\ Running(k)' /\ hd'[g].cb.id = hd'[k].cb.id => g = k
    BY <2>1, <2>5 DEF PlaceInv
  <2>9. \A a \in Appender : Submitting(a)' =>
          /\ \A b \in Appender : Submitting(b)' /\ app'[a].cb.id = app'[b].cb.id => a = b
          /\ \A q \in Queue : \A i \in 1 .. Len(queue'[q]) : app'[a].cb.id # queue'[q][i].id
          /\ \A g \in Handler : Running(g)' => app'[a].cb.id # hd'[g].cb.id
    <3>1. \A q \in Queue : \A i \in 1 .. Len(queue'[q]) :
            \E k \in 1 .. Len(queue[q]) : queue'[q][i] = queue[q][k]
      BY <2>4
    <3>2. ASSUME NEW a \in Appender, Submitting(a)
          PROVE  /\ \A b \in Appender : Submitting(b) /\ app[a].cb.id = app[b].cb.id => a = b
                 /\ \A q \in Queue : \A i \in 1 .. Len(queue[q]) : app[a].cb.id # queue[q][i].id
                 /\ \A g \in Handler : Running(g) => app[a].cb.id # hd[g].cb.id
      BY <3>2 DEF PlaceInv
    <3>3. ASSUME NEW a \in Appender, Submitting(a), NEW g \in Handler, Running(g)'
          PROVE  app[a].cb.id # hd'[g].cb.id
      BY <2>1, <2>5, <3>2, <3>3
    <3>4. ASSUME NEW a \in Appender, Submitting(a), NEW q \in Queue,
                 NEW i \in 1 .. Len(queue'[q])
          PROVE  app[a].cb.id # queue'[q][i].id
      BY <3>1, <3>2, <3>4
    <3> QED
      BY <2>2, <3>2, <3>3, <3>4
  <2> QED
    BY <2>6, <2>7, <2>8, <2>9 DEF PlaceInv
<1>6. ASSUME NEW h \in Handler, RunCb(h), UNCHANGED <<palfVars, above>> PROVE PlaceInv'
  <2>1. /\ hd[h].pc = "cb" /\ hd'[h].pc # "cb" /\ UNCHANGED <<queue, app>>
        /\ \A g \in Handler \ {h} : hd'[g] = hd[g]
    BY <1>6, RunCbMoves DEF TaskTypes
  <2> QED
    BY <2>1 DEF PlaceInv, Submitting, Running
<1>7. ASSUME NEW h \in Handler, FinishTask(h), UNCHANGED <<palfVars, above>>
      PROVE PlaceInv'
  BY <1>7 DEF FinishTask, Succeeds, TaskTypes, HandlerType, AppTypes, AppType, PlaceInv,
     Submitting, Running
<1>8. ASSUME NEW h \in Handler, revoke_lease(h), UNCHANGED <<palfVars, above>>
      PROVE PlaceInv'
  BY <1>8
     DEF revoke_lease, IdleHandler, TaskTypes, HandlerType, AppTypes, AppType, PlaceInv,
       Submitting, Running
<1>9. CASE GetMaxAppliedScn
  BY <1>9, CheckFrame DEF PlaceInv, Submitting, Running
<1>10. ASSUME NEW a \in Appender, AppendStart(a) PROVE PlaceInv'
  BY <1>10 DEF AppendStart, TaskTypes, HandlerType, AppTypes, AppType, PlaceInv, Submitting,
     Running
<1>11. ASSUME NEW a \in Appender, AppendRefused(a) PROVE PlaceInv'
  BY <1>11 DEF AppendRefused, IdleApp, TaskTypes, HandlerType, AppTypes, AppType, PlaceInv,
     Submitting, Running
<1>12. ASSUME NEW a \in Appender, AppendToPalf(a) PROVE PlaceInv'
  <2>1. /\ \A b \in Appender : Submitting(b) => app[b].cb.id # next_id
        /\ \A q \in Queue : \A i \in 1 .. Len(queue[q]) : queue[q][i].id # next_id
        /\ \A h \in Handler : Running(h) => hd[h].cb.id # next_id
    BY InOut DEF CbInv, CbSound, PalfTypes
  <2>2. /\ app'[a].cb.id = next_id /\ UNCHANGED <<queue, hd>>
        /\ \A b \in Appender \ {a} : app'[b] = app[b] /\ Submitting(b)' = Submitting(b)
    BY <1>12 DEF AppendToPalf, AppTypes, AppType, Submitting
  <2>3. \A h \in Handler : Running(h)' = Running(h)
    BY <2>2 DEF Running
  <2> QED
    BY <2>1, <2>2, <2>3 DEF PlaceInv
<1>13. ASSUME NEW a \in Appender, NEW q \in Queue, CountSubmit(a, q) PROVE PlaceInv'
  BY <1>13 DEF CountSubmit, TaskTypes, HandlerType, AppTypes, AppType, PlaceInv, Submitting,
     Running
<1>14. ASSUME NEW a \in Appender, PushCb(a) PROVE PlaceInv'
  BY SMTT(30), <1>14
     DEF PushCb, TaskTypes, HandlerType, AppTypes, AppType, PlaceInv, Submitting,
       Running
<1>15. ASSUME NEW a \in Appender, WakeQueue(a) PROVE PlaceInv'
  BY <1>15
     DEF WakeQueue, LeaveCritical, IdleApp, submit_task_to_apply_service_,
       acquire_lease, TaskTypes, HandlerType, AppTypes, AppType, PlaceInv, Submitting,
       Running
<1>16. CASE Replay
  BY <1>16, ReplayFrame DEF PlaceInv, Submitting, Running
<1>17. CASE RcStep
  BY <1>17, RcFrame DEF PlaceInv, Submitting, Running
<1>18. CASE UNCHANGED vars
  BY <1>18 DEF PlaceInv, Submitting, Running
<1> QED
  BY <1>1, <1>2, <1>3, <1>4, <1>5, <1>6, <1>7, <1>8, <1>9, <1>10, <1>11, <1>12, <1>13,
     <1>14, <1>15, <1>16, <1>17, <1>18 DEF Next, HandlerStep, AppendStep

-------------------------------------------------------------------------------
(* The counters                                                            *)

LEMMA PushersFinite ==
  ASSUME NEW q
  PROVE  IsFiniteSet(Pushers(q)) /\ Cardinality(Pushers(q)) \in Nat
<1>1. Pushers(q) \in SUBSET Appender
  BY DEF Pushers
<1>2. IsFiniteSet(Appender)
  BY ApplyAssumption
<1>3. IsFiniteSet(Pushers(q))
  BY <1>1, <1>2, FS_Subset
<1> QED
  BY <1>3, FS_CardinalityType

LEMMA PoppedTyped ==
  ASSUME QueueTypes, NEW q \in Queue
  PROVE  /\ Popped(q) \in Nat /\ Len(queue[q]) \in Nat
         /\ total_submit[q] \in Nat /\ total_apply[q] \in Nat
<1>1. total_submit[q] \in Nat /\ total_apply[q] \in Nat /\ queue[q] \in Seq(CbType)
  BY DEF QueueTypes
<1> QED
  BY <1>1 DEF Popped

(* A queue is handled by one thread at a time.                             *)
LEMMA BusyOne ==
  ASSUME TaskInv, NEW h \in Handler, hd[h].task \in Queue, NEW q \in Queue
  PROVE  Busy(q) => hd[h].task # q \/ Running(h)
<1>1. \A g \in Handler : hd[g].task = hd[h].task /\ hd[g].task # NoTask => g = h
  BY DEF TaskInv
<1>2. hd[h].task # NoTask
  BY ApplyAssumption
<1> QED
  BY <1>1, <1>2 DEF Busy

LEMMA CountFrame ==
  ASSUME CountInv, UNCHANGED <<queue, total_submit, total_apply>>,
         \A a \in Appender : app'[a].pc = "push" <=> app[a].pc = "push",
         \A a \in Appender : app[a].pc = "push" => app'[a].q = app[a].q,
         \A h \in Handler : Running(h)' = Running(h),
         \A h \in Handler : Running(h) => hd'[h].task = hd[h].task
  PROVE  CountInv' /\ \A q \in Queue : Popped(q)' = Popped(q)
<1>1. ASSUME NEW q \in Queue PROVE Pushers(q)' = Pushers(q)
  BY DEF Pushers
<1>2. ASSUME NEW q \in Queue PROVE Busy(q)' = Busy(q)
  BY DEF Busy
<1>3. ASSUME NEW q \in Queue PROVE Popped(q)' = Popped(q)
  BY <1>2 DEF Popped
<1> QED
  BY <1>1, <1>3 DEF CountInv, Counted

LEMMA CountPop ==
  ASSUME QueueTypes, TaskTypes, TaskInv, CountInv, NEW h \in Handler, PopCb(h), UNCHANGED app
  PROVE  /\ CountInv'
         /\ \A q \in Queue :
               Popped(q)' = IF q = hd[h].task THEN Popped(q) + 1 ELSE Popped(q)
<1>1. PICK t : t = hd[h].task
  OBVIOUS
<1>2. /\ t \in Queue /\ ~Running(h) /\ Running(h)' /\ hd'[h].task = t
      /\ \A g \in Handler \ {h} : hd'[g] = hd[g] /\ Running(g)' = Running(g)
      /\ \A r \in Queue \ {t} : queue'[r] = queue[r]
      /\ Len(queue[t]) \in Nat /\ Len(queue[t]) > 0 /\ Len(queue'[t]) = Len(queue[t]) - 1
      /\ UNCHANGED <<total_submit, total_apply>>
  BY <1>1, PopMoves DEF Running
<1>3. ~Busy(t) /\ Busy(t)'
  <2>1. ~Busy(t)
    BY <1>1, <1>2, BusyOne
  <2> QED
    BY <1>2, <2>1 DEF Busy
<1>4. ASSUME NEW r \in Queue \ {t} PROVE Busy(r)' = Busy(r)
  BY <1>1, <1>2 DEF Busy
<1>5. total_apply[t] \in Nat
  BY <1>2 DEF QueueTypes
<1>6. Popped(t)' = Popped(t) + 1
  BY <1>2, <1>3, <1>5 DEF Popped
<1>7. \A r \in Queue \ {t} : Popped(r)' = Popped(r)
  BY <1>2, <1>4 DEF Popped
<1>8. ASSUME NEW r \in Queue PROVE Pushers(r)' = Pushers(r)
  BY DEF Pushers
<1>9. Counted(t)'
  <2>1. total_submit[t] = Popped(t) + Len(queue[t]) + Cardinality(Pushers(t))
    BY <1>2 DEF CountInv, Counted
  <2>2. Popped(t) \in Nat /\ Cardinality(Pushers(t)) \in Nat
    BY <1>2, PoppedTyped, PushersFinite
  <2> QED
    BY <1>2, <1>6, <1>8, <2>1, <2>2 DEF Counted
<1>10. ASSUME NEW r \in Queue \ {t} PROVE Counted(r)'
  BY <1>2, <1>7, <1>8 DEF CountInv, Counted
<1> QED
  BY <1>1, <1>6, <1>7, <1>9, <1>10 DEF CountInv

LEMMA CountRun ==
  ASSUME QueueTypes, TaskTypes, TaskInv, CountInv, NEW h \in Handler, RunCb(h), UNCHANGED app
  PROVE  /\ CountInv' /\ \A q \in Queue : Popped(q)' = Popped(q)
         /\ hd[h].task \in Queue /\ total_apply'[hd[h].task] = total_apply[hd[h].task] + 1
         /\ \A q \in Queue \ {hd[h].task} : total_apply'[q] = total_apply[q]
<1>1. PICK t : t = hd[h].task
  OBVIOUS
<1>2. /\ t \in Queue /\ Running(h) /\ ~Running(h)'
      /\ \A g \in Handler \ {h} : hd'[g] = hd[g] /\ Running(g)' = Running(g)
      /\ UNCHANGED <<queue, total_submit>>
      /\ total_apply' = [total_apply EXCEPT ![t] = @ + 1]
  BY <1>1, RunCbMoves DEF TaskTypes, Running, TaskInv
<1>3. /\ total_apply[t] \in Nat /\ total_apply'[t] = total_apply[t] + 1
      /\ \A r \in Queue \ {t} : total_apply'[r] = total_apply[r]
  BY <1>2 DEF QueueTypes
<1>4. Busy(t) /\ ~Busy(t)'
  <2>1. \A g \in Handler : hd[g].task = t /\ hd[g].task # NoTask => g = h
    BY <1>1 DEF TaskInv
  <2>2. t # NoTask
    BY <1>2, ApplyAssumption
  <2> QED
    BY <1>1, <1>2, <2>1, <2>2 DEF Busy
<1>5. ASSUME NEW r \in Queue \ {t} PROVE Busy(r)' = Busy(r)
  BY <1>1, <1>2 DEF Busy
<1>6. ASSUME NEW r \in Queue PROVE Popped(r)' = Popped(r)
  <2>1. CASE r = t
    BY <1>3, <1>4, <2>1 DEF Popped
  <2>2. CASE r # t
    BY <1>3, <1>5, <2>2 DEF Popped
  <2> QED
    BY <2>1, <2>2
<1>7. ASSUME NEW r \in Queue PROVE Pushers(r)' = Pushers(r)
  BY DEF Pushers
<1>8. CountInv'
  BY <1>2, <1>6, <1>7 DEF CountInv, Counted
<1> QED
  BY <1>1, <1>2, <1>3, <1>6, <1>8

LEMMA CountCount ==
  ASSUME QueueTypes, AppTypes, CountInv, NEW a \in Appender, NEW q \in Queue, CountSubmit(a, q)
  PROVE  CountInv' /\ \A r \in Queue : Popped(r)' = Popped(r)
<1>1. /\ app[a].pc = "count" /\ app'[a].pc = "push" /\ app'[a].q = q
      /\ \A b \in Appender \ {a} : app'[b] = app[b]
  BY DEF CountSubmit, AppTypes, AppType
<1>2. /\ total_submit'[q] = total_submit[q] + 1 /\ UNCHANGED <<queue, total_apply, hd>>
      /\ \A r \in Queue \ {q} : total_submit'[r] = total_submit[r]
  BY DEF CountSubmit, QueueTypes
<1>3. Pushers(q)' = Pushers(q) \union {a} /\ a \notin Pushers(q)
  BY <1>1 DEF Pushers
<1>4. PICK n \in Nat : n = Cardinality(Pushers(q))
  BY PushersFinite
<1>5. Cardinality(Pushers(q))' = n + 1
  BY <1>3, <1>4, PushersFinite, FS_AddElement
<1>6. \A r \in Queue \ {q} : Pushers(r)' = Pushers(r)
  BY <1>1 DEF Pushers
<1>7. \A r \in Queue : Popped(r)' = Popped(r)
  BY <1>2 DEF Popped, Busy, Running
<1>8. Counted(q)'
  <2>1. total_submit[q] = Popped(q) + Len(queue[q]) + n
    BY <1>4 DEF CountInv, Counted
  <2>2. Popped(q) \in Nat /\ Len(queue[q]) \in Nat
    BY PoppedTyped
  <2> QED
    BY <1>2, <1>7, <1>5, <2>1, <2>2 DEF Counted
<1>9. ASSUME NEW r \in Queue \ {q} PROVE Counted(r)'
  BY <1>2, <1>6, <1>7 DEF CountInv, Counted
<1> QED
  BY <1>7, <1>8, <1>9 DEF CountInv

LEMMA CountPush ==
  ASSUME QueueTypes, TaskTypes, AppTypes, TaskInv, CountInv, NEW a \in Appender, PushCb(a)
  PROVE  /\ CountInv' /\ \A r \in Queue : Popped(r)' = Popped(r)
         /\ Popped(app[a].q) + Len(queue[app[a].q]) + 1 <= total_submit[app[a].q]
<1>1. PICK q : q = app[a].q
  OBVIOUS
<1>2. /\ q \in Queue /\ app[a].pc = "push" /\ app'[a].pc = "wake"
      /\ \A b \in Appender \ {a} : app'[b] = app[b]
      /\ \A r \in Queue \ {q} : queue'[r] = queue[r]
      /\ Len(queue'[q]) = Len(queue[q]) + 1 /\ Len(queue[q]) \in Nat
      /\ UNCHANGED <<total_submit, total_apply, hd>>
  BY <1>1, PushMoves DEF PushCb
<1>3. Pushers(q)' = Pushers(q) \ {a} /\ a \in Pushers(q)
  BY <1>1, <1>2 DEF Pushers
<1>4. PICK n \in Nat : n = Cardinality(Pushers(q))'
  <2>1. IsFiniteSet(Pushers(q)')
    BY <1>3, PushersFinite, FS_RemoveElement
  <2> QED
    BY <2>1, FS_CardinalityType
<1>5. Cardinality(Pushers(q)) = n + 1
  <2>1. Cardinality(Pushers(q)) \in Nat /\ n = Cardinality(Pushers(q)) - 1
    BY <1>3, <1>4, PushersFinite, FS_RemoveElement
  <2> QED
    BY <2>1
<1>6. \A r \in Queue \ {q} : Pushers(r)' = Pushers(r)
  BY <1>1, <1>2 DEF Pushers
<1>7. \A r \in Queue : Popped(r)' = Popped(r)
  BY <1>2 DEF Popped, Busy, Running
<1>8. total_submit[q] = Popped(q) + Len(queue[q]) + n + 1 /\ Popped(q) \in Nat
  <2>1. total_submit[q] = Popped(q) + Len(queue[q]) + Cardinality(Pushers(q))
    BY <1>2 DEF CountInv, Counted
  <2>2. Popped(q) \in Nat
    BY <1>2, PoppedTyped
  <2> QED
    BY <1>2, <1>4, <1>5, <2>1, <2>2
<1>9. Counted(q)'
  BY <1>2, <1>4, <1>7, <1>8 DEF Counted
<1>10. ASSUME NEW r \in Queue \ {q} PROVE Counted(r)'
  BY <1>2, <1>6, <1>7 DEF CountInv, Counted
<1>11. Popped(q) + Len(queue[q]) + 1 <= total_submit[q]
  BY <1>2, <1>8
<1> QED
  BY <1>1, <1>7, <1>9, <1>10, <1>11 DEF CountInv

(* The counters keep counting.                                            *)
LEMMA CountStep ==
  ASSUME QueueTypes, TaskTypes, AppTypes, TaskInv, CountInv, [Next]_vars
  PROVE  CountInv'
<1>1. CASE PalfBecomesFollower \/ PalfBecomesLeader \/ PalfMoves
  BY <1>1, PalfFrame, CountFrame DEF Running
<1>2. CASE Slide
  BY <1>2, SlideFrame, CountFrame DEF Running
<1>3. ASSUME NEW h \in Handler, NEW t \in Task, TakeTask(h, t), UNCHANGED <<palfVars, above>>
      PROVE CountInv'
  BY <1>3, CountFrame
     DEF TakeTask, IdleHandler, TaskTypes, HandlerType, AppTypes, AppType, Running
<1>4. ASSUME NEW h \in Handler, NEW q \in Queue, SubmitQueue(h, q), UNCHANGED <<palfVars, above>>
      PROVE CountInv'
  BY <1>4, CountFrame
     DEF SubmitQueue, submit_task_to_apply_service_, acquire_lease, TaskTypes,
       HandlerType, AppTypes, AppType, Running
<1>5. ASSUME NEW h \in Handler, PopCb(h), UNCHANGED <<palfVars, above>> PROVE CountInv'
  BY <1>5, CountPop
<1>6. ASSUME NEW h \in Handler, RunCb(h), UNCHANGED <<palfVars, above>> PROVE CountInv'
  BY <1>6, CountRun
<1>7. ASSUME NEW h \in Handler, FinishTask(h), UNCHANGED <<palfVars, above>>
      PROVE CountInv'
  BY <1>7, CountFrame
     DEF FinishTask, Succeeds, TaskTypes, HandlerType, AppTypes, AppType, Running
<1>8. ASSUME NEW h \in Handler, revoke_lease(h), UNCHANGED <<palfVars, above>>
      PROVE CountInv'
  BY <1>8, CountFrame
     DEF revoke_lease, IdleHandler, TaskTypes, HandlerType, AppTypes, AppType, Running
<1>9. CASE GetMaxAppliedScn
  BY <1>9, CheckFrame, CountFrame DEF Running
<1>10. ASSUME NEW a \in Appender, AppendStart(a) PROVE CountInv'
  BY <1>10, CountFrame DEF AppendStart, TaskTypes, HandlerType, AppTypes, AppType, Running
<1>11. ASSUME NEW a \in Appender, AppendRefused(a) PROVE CountInv'
  BY <1>11, CountFrame
     DEF AppendRefused, IdleApp, TaskTypes, HandlerType, AppTypes, AppType, Running
<1>12. ASSUME NEW a \in Appender, AppendToPalf(a) PROVE CountInv'
  BY <1>12, CountFrame
     DEF AppendToPalf, palf_append, can_append, WriteLog, TaskTypes, HandlerType,
       AppTypes, AppType, Running
<1>13. ASSUME NEW a \in Appender, NEW q \in Queue, CountSubmit(a, q) PROVE CountInv'
  BY <1>13, CountCount
<1>14. ASSUME NEW a \in Appender, PushCb(a) PROVE CountInv'
  BY <1>14, CountPush
<1>15. ASSUME NEW a \in Appender, WakeQueue(a) PROVE CountInv'
  BY <1>15, CountFrame
     DEF WakeQueue, LeaveCritical, IdleApp, submit_task_to_apply_service_,
       acquire_lease, TaskTypes, HandlerType, AppTypes, AppType, Running
<1>16. CASE Replay
  BY <1>16, ReplayFrame, CountFrame DEF Running
<1>17. CASE RcStep
  BY <1>17, RcFrame, CountFrame DEF Running
<1>18. CASE UNCHANGED vars
  BY <1>18, CountFrame DEF Running
<1> QED
  BY <1>1, <1>2, <1>3, <1>4, <1>5, <1>6, <1>7, <1>8, <1>9, <1>10, <1>11, <1>12, <1>13,
     <1>14, <1>15, <1>16, <1>17, <1>18 DEF Next, HandlerStep, AppendStep

-------------------------------------------------------------------------------
(* The callbacks and what has taken effect                                 *)

LEMMA OutTyped ==
  ASSUME QueueTypes, TaskTypes, AppTypes, NEW c \in OutCb
  PROVE  c.lsn \in Nat /\ c.id \in Nat
<1>1. ASSUME NEW a \in Appender PROVE app[a].cb \in CbType
  BY DEF AppTypes, AppType
<1>2. ASSUME NEW q \in Queue, NEW i \in 1 .. Len(queue[q]) PROVE queue[q][i] \in CbType
  <2>1. queue[q] \in Seq(CbType)
    BY DEF QueueTypes
  <2> QED
    BY <2>1
<1>3. ASSUME NEW h \in Handler PROVE hd[h].cb \in CbType
  BY DEF TaskTypes, HandlerType
<1>4. c \in CbType
  BY <1>1, <1>2, <1>3, InOut
<1> QED
  BY <1>4 DEF CbType

(* How the ends lie.                                                       *)
LEMMA EndBounds ==
  ASSUME PalfTypes, ApplyTypes, ReplayTypes, PalfInv, EndInv
  PROVE  /\ CommittedEnd \in Nat /\ slid <= CommittedEnd /\ ap_end <= CommittedEnd
         /\ CommittedEnd <= Len(plog) /\ ap_end <= Len(plog) /\ rp_end <= slid
         /\ rp_end <= Len(plog) /\ Len(plog) \in Nat /\ ap_end \in Nat /\ rp_end \in Nat
  BY LogTyped DEF PalfTypes, ApplyTypes, ReplayTypes, PalfInv, EndInv, CommittedEnd

(* A log is known by its id.                                               *)
LEMMA IdUnique ==
  ASSUME PalfTypes, PalfInv, NEW i \in 1 .. Len(plog), NEW j \in 1 .. Len(plog),
         plog[i].id = plog[j].id
  PROVE  i = j
<1>1. plog[i].id \in Nat /\ Len(plog) \in Nat
  BY LogTyped
<1>2. i < j => plog[i].id < plog[j].id
  BY DEF PalfInv
<1>3. j < i => plog[j].id < plog[i].id
  BY DEF PalfInv
<1> QED
  BY <1>1, <1>2, <1>3

(* What has taken effect has an id that has been given out.                *)
LEMMA KnownIds ==
  ASSUME PalfTypes, ApplyTypes, ReplayTypes, PalfInv, EndInv, EffectInv
  PROVE  next_id \notin ok /\ next_id \notin failed /\ next_id \notin replayed
<1>1. \A i \in 1 .. Len(plog) : plog[i].id # next_id
  BY LogTyped DEF PalfInv, PalfTypes
<1>2. next_id \notin ok
  BY <1>1, EndBounds DEF EffectInv
<1>3. next_id \notin replayed
  BY <1>1, EndBounds DEF EffectInv
<1>4. next_id \notin failed
  BY DEF EffectInv, PalfTypes
<1> QED
  BY <1>2, <1>3, <1>4

(* While the replay service replays, no callback is on its way.            *)
LEMMA ReplayerAlone ==
  ASSUME RcTypes, ReplayTypes, RoleInv, CbInv, rp_role = "FOLLOWER"
  PROVE  lh_role = "FOLLOWER" /\ OutCb = {}
<1>1. lh_role = "FOLLOWER"
  BY DEF RoleInv, RolesAt, RcTypes, RcType, Roles
<1> QED
  BY <1>1 DEF CbInv

(* Once every callback counted has run and nobody appends, none is left.   *)
LEMMA AllDone ==
  ASSUME QueueTypes, TaskTypes, AppTypes, RcTypes, TaskInv, CountInv, RoleInv,
         ap_role = "FOLLOWER", is_apply_done
  PROVE  OutCb = {}
<1>1. Critical = {}
  BY DEF RoleInv, RolesAt
<1>2. \A a \in Appender : ~Submitting(a)
  BY <1>1 DEF Critical, Submitting
<1>3. ASSUME NEW q \in Queue PROVE Len(queue[q]) = 0 /\ ~Busy(q)
  <2>1. total_submit[q] = Popped(q) + Len(queue[q]) + Cardinality(Pushers(q))
    BY DEF CountInv, Counted
  <2>2. total_apply[q] = total_submit[q]
    BY DEF is_apply_done
  <2>3. Len(queue[q]) \in Nat /\ total_apply[q] \in Nat /\ Cardinality(Pushers(q)) \in Nat
    BY PoppedTyped, PushersFinite
  <2>4. CASE Busy(q)
    BY <2>1, <2>2, <2>3, <2>4 DEF Popped
  <2>5. CASE ~Busy(q)
    BY <2>1, <2>2, <2>3, <2>5 DEF Popped
  <2> QED
    BY <2>4, <2>5
<1>4. \A h \in Handler : ~Running(h)
  <2> SUFFICES ASSUME NEW h \in Handler, Running(h) PROVE FALSE
    OBVIOUS
  <2>1. hd[h].task \in Queue
    BY DEF TaskInv, Running
  <2> QED
    BY <1>3, <2>1 DEF Busy
<1>5. ASSUME NEW c \in OutCb PROVE FALSE
  <2>1. \A q \in Queue : \A i \in 1 .. Len(queue[q]) : FALSE
    BY <1>3
  <2> QED
    BY <1>2, <1>4, <2>1, InOut
<1> QED
  BY <1>5

(* A callback stays sound when PALF's log does not change, ...             *)
LEMMA CbSoundFrame ==
  ASSUME NEW c, CbSound(c), UNCHANGED <<plog, next_id, ap_pid, ap_end, ok, failed, replayed>>,
         palf_pid \in Nat, palf_pid' \in Nat, ap_pid \in Nat, palf_pid' >= palf_pid
  PROVE  CbSound(c)'
<1>1. CASE InLog(c)
  BY <1>1 DEF CbSound, InLog
<1>2. CASE CutOff(c)
  BY <1>2 DEF CbSound, CutOff
<1> QED
  BY <1>1, <1>2 DEF CbSound

(* ... when it is written by another leader or its callback's term, ...    *)
LEMMA CbSoundWrite ==
  ASSUME PalfTypes, ApplyTypes, NEW c, c.lsn \in Nat, c.id \in Nat, CbSound(c), WriteLog,
         UNCHANGED <<ap_pid, ap_end, ok, failed, replayed>>
  PROVE  CbSound(c)'
<1>1. /\ Len(plog) \in Nat /\ Len(plog') = Len(plog) + 1 /\ next_id' = next_id + 1
      /\ plog'[Len(plog) + 1].id = next_id /\ plog'[Len(plog) + 1].pid = palf_pid
      /\ \A i \in 1 .. Len(plog) : plog'[i] = plog[i]
  BY WriteLogGrows, LogTyped DEF PalfTypes
<1>2. UNCHANGED palf_pid /\ next_id \in Nat /\ palf_pid \in Nat /\ ap_pid \in Nat
  BY DEF WriteLog, PalfTypes, ApplyTypes
<1>3. \A i \in 1 .. Len(plog') : i \in 1 .. Len(plog) \/ i = Len(plog) + 1
  BY <1>1
<1>4. InLog(c) => InLog(c)'
  BY <1>1 DEF InLog
<1>5. CutOff(c) => CutOff(c)'
  BY <1>1, <1>2, <1>3 DEF CutOff, CbSound
<1> QED
  BY <1>1, <1>2, <1>4, <1>5 DEF CbSound

(* ... and when another leader cuts the log, which may take its log away.  *)
LEMMA CbSoundTruncate ==
  ASSUME PalfTypes, ApplyTypes, ReplayTypes, PalfInv, PidInv, EndInv, NEW c, c.lsn \in Nat,
         c.id \in Nat, CbSound(c), truncate(CommittedEnd),
         UNCHANGED <<ap_pid, ap_end, ok, failed, replayed>>
  PROVE  CbSound(c)'
<1>1. PICK n \in Nat : /\ CommittedEnd <= n /\ n < Len(plog) /\ Len(plog') = n
                       /\ \A i \in 1 .. n : plog'[i] = plog[i]
  BY TruncateCuts DEF PalfTypes
<1>2. /\ UNCHANGED <<palf_pid, next_id>> /\ palf_pid > own_pid /\ palf_pid \in Nat
      /\ own_pid \in Nat /\ ap_pid \in Nat /\ ap_pid <= own_pid
  BY DEF truncate, OtherLeads, PalfTypes, ApplyTypes, PidInv
<1>3. ap_end <= n /\ Len(plog) \in Nat /\ ap_end \in Nat
  BY <1>1, EndBounds
<1>4. \A i \in 1 .. Len(plog') : i \in 1 .. Len(plog) /\ i <= n /\ plog'[i] = plog[i]
  BY <1>1, <1>3
<1>5. ASSUME InLog(c), c.lsn <= n PROVE InLog(c)'
  BY <1>1, <1>5 DEF InLog
<1>6. ASSUME InLog(c), c.lsn > n PROVE CutOff(c)'
  <2>1. \A i \in 1 .. Len(plog') : plog'[i].id # c.id /\ ~(c.lsn <= i)
    BY <1>3, <1>4, <1>6, IdUnique DEF InLog
  <2>2. c.lsn > ap_end /\ palf_pid > ap_pid
    BY <1>2, <1>3, <1>6
  <2> QED
    BY <1>2, <2>1, <2>2 DEF CutOff
<1>7. CutOff(c) => CutOff(c)'
  BY <1>2, <1>4 DEF CutOff
<1> QED
  BY <1>2, <1>5, <1>6, <1>7 DEF CbSound

(* Every callback on its way stays sound.                                  *)
LEMMA CbSoundStep ==
  ASSUME PalfTypes, ApplyTypes, QueueTypes, TaskTypes, AppTypes, ReplayTypes, RcTypes,
         PalfInv, RoleInv, PidInv, TermInv, EndInv, EffectInv, CbInv, PlaceInv, TaskInv,
         [Next]_vars
  PROVE  \A c \in OutCb' : CbSound(c)'
<1>0. /\ palf_pid \in Nat /\ ap_pid \in Nat /\ ap_end \in Nat
      /\ \A c \in OutCb : CbSound(c) /\ c.lsn \in Nat /\ c.id \in Nat
  BY OutTyped DEF CbInv, PalfTypes, ApplyTypes
<1>1. CASE PalfBecomesFollower
  BY <1>1, <1>0, OutFrame, CbSoundFrame
     DEF PalfBecomesFollower, pending_to_follower_active_, Submitting, Running
<1>2. CASE PalfBecomesLeader
  BY <1>2, <1>0, OutFrame, CbSoundFrame
     DEF PalfBecomesLeader, reconfirm_to_leader_active_, Submitting, Running
<1>3. ASSUME leader_active_to_follower_pending_, UNCHANGED <<palfFrame, rc_set>>
      PROVE \A c \in OutCb' : CbSound(c)'
  BY <1>3, <1>0, OutFrame, CbSoundFrame
     DEF leader_active_to_follower_pending_, Submitting, Running
<1>4. ASSUME handle_prepare_request, UNCHANGED <<palfFrame, rc_set>>
      PROVE \A c \in OutCb' : CbSound(c)'
  BY <1>4, <1>0, OutFrame, CbSoundFrame DEF handle_prepare_request, Submitting, Running
<1>5. ASSUME receive_log, UNCHANGED <<palfFrame, rc_set>>
      PROVE \A c \in OutCb' : CbSound(c)'
  <2>1. OutCb' = OutCb
    BY <1>5, OutFrame DEF Submitting, Running
  <2> QED
    BY <1>0, <1>5, <2>1, CbSoundWrite DEF receive_log
<1>6. ASSUME truncate(CommittedEnd), UNCHANGED <<palfFrame, rc_set>>
      PROVE \A c \in OutCb' : CbSound(c)'
  <2>1. OutCb' = OutCb
    BY <1>6, OutFrame DEF Submitting, Running
  <2> QED
    BY <1>0, <1>6, <2>1, CbSoundTruncate
<1>7. ASSUME UpdateEnd, UNCHANGED above PROVE \A c \in OutCb' : CbSound(c)'
  <2>1. OutCb' = OutCb
    BY <1>7, OutFrame DEF UpdateEnd, Submitting, Running
  <2>2. CASE UNCHANGED ap_end
    BY <1>0, <1>7, <2>1, <2>2, CbSoundFrame DEF UpdateEnd, SlideLog
  <2>3. CASE ap_end' # ap_end
    <3>1. /\ ap_end' = slid + 1 /\ slid + 1 \in 1 .. Len(plog) /\ plog[slid + 1].pid = ap_pid
          /\ UNCHANGED <<plog, next_id, ap_pid, palf_pid, ok, failed, replayed>>
      BY <1>7, <2>3, LogTyped DEF UpdateEnd, SlidingLog, PalfTypes
    <3>2. ASSUME NEW c \in OutCb, CutOff(c) PROVE CutOff(c)'
      <4>1. c.lsn > slid + 1
        BY <1>0, <3>1, <3>2 DEF CutOff, PalfTypes
      <4> QED
        BY <3>1, <3>2, <4>1 DEF CutOff
    <3>3. ASSUME NEW c \in OutCb, InLog(c) PROVE InLog(c)'
      BY <3>1, <3>3 DEF InLog
    <3> QED
      BY <1>0, <2>1, <3>1, <3>2, <3>3 DEF CbSound
  <2> QED
    BY <2>2, <2>3
<1>8. ASSUME SubmitAfterUpdateEnd, UNCHANGED above PROVE \A c \in OutCb' : CbSound(c)'
  BY <1>8, <1>0, OutFrame, CbSoundFrame
     DEF SubmitAfterUpdateEnd, SlideLog, submit_task_to_apply_service_, acquire_lease,
       Submitting, Running
<1>9. ASSUME SkipUpdateEnd, UNCHANGED above PROVE \A c \in OutCb' : CbSound(c)'
  BY <1>9, <1>0, OutFrame, CbSoundFrame
     DEF SkipUpdateEnd, SlideLog, SlidingLog, Unexpected, Submitting, Running
<1>10. ASSUME NEW h \in Handler, NEW t \in Task, TakeTask(h, t), UNCHANGED <<palfVars, above>>
      PROVE \A c \in OutCb' : CbSound(c)'
  BY <1>10, <1>0, OutFrame, CbSoundFrame DEF TakeTask, IdleHandler, Submitting, Running
<1>11. ASSUME NEW h \in Handler, NEW q \in Queue, SubmitQueue(h, q), UNCHANGED <<palfVars, above>>
      PROVE \A c \in OutCb' : CbSound(c)'
  BY <1>11, <1>0, OutFrame, CbSoundFrame
     DEF SubmitQueue, submit_task_to_apply_service_, acquire_lease, Submitting, Running
<1>12. ASSUME NEW h \in Handler, PopCb(h), UNCHANGED <<palfVars, above>>
      PROVE \A c \in OutCb' : CbSound(c)'
  <2>1. OutCb' = OutCb
    BY <1>12, OutPop
  <2> QED
    BY <1>0, <1>12, <2>1, CbSoundFrame DEF PopCb
<1>13. ASSUME NEW h \in Handler, RunCb(h), UNCHANGED <<palfVars, above>>
      PROVE \A c \in OutCb' : CbSound(c)'
  <2>1. OutCb' \subseteq OutCb /\ \A c \in OutCb' : c.id # hd[h].cb.id
    BY <1>13, OutRun
  <2>2. /\ UNCHANGED <<plog, next_id, ap_pid, ap_end, palf_pid, replayed>>
        /\ ok' \subseteq ok \union {hd[h].cb.id} /\ failed' \subseteq failed \union {hd[h].cb.id}
    BY <1>13 DEF RunCb
  <2>3. ASSUME NEW c \in OutCb' PROVE CbSound(c)'
    <3>1. CbSound(c) /\ c.id # hd[h].cb.id
      BY <1>0, <2>1
    <3>2. (InLog(c) => InLog(c)') /\ (CutOff(c) => CutOff(c)')
      BY <2>2 DEF InLog, CutOff
    <3> QED
      BY <2>2, <3>1, <3>2 DEF CbSound
  <2> QED
    BY <2>3
<1>14. ASSUME NEW h \in Handler, FinishTask(h), UNCHANGED <<palfVars, above>>
      PROVE \A c \in OutCb' : CbSound(c)'
  BY <1>14, <1>0, OutFrame, CbSoundFrame DEF FinishTask, Succeeds, Submitting, Running
<1>15. ASSUME NEW h \in Handler, revoke_lease(h), UNCHANGED <<palfVars, above>>
      PROVE \A c \in OutCb' : CbSound(c)'
  BY <1>15, <1>0, OutFrame, CbSoundFrame DEF revoke_lease, IdleHandler, Submitting, Running
<1>16. CASE GetMaxAppliedScn
  BY <1>16, CheckFrame, <1>0, OutFrame, CbSoundFrame DEF Submitting, Running
<1>17. ASSUME NEW a \in Appender, AppendStart(a) PROVE \A c \in OutCb' : CbSound(c)'
  BY <1>17, <1>0, OutFrame, CbSoundFrame
     DEF AppendStart, AppTypes, AppType, Submitting, Running
<1>18. ASSUME NEW a \in Appender, AppendRefused(a) PROVE \A c \in OutCb' : CbSound(c)'
  BY <1>18, <1>0, OutFrame, CbSoundFrame DEF AppendRefused, IdleApp, Submitting, Running
<1>19. ASSUME NEW a \in Appender, AppendToPalf(a) PROVE \A c \in OutCb' : CbSound(c)'
  <2>1. WriteLog /\ UNCHANGED <<ap_pid, ap_end, ok, failed, replayed>>
    BY <1>19 DEF AppendToPalf, palf_append
  <2>2. PICK new : new = [lsn |-> Len(plog) + 1, id |-> next_id]
    OBVIOUS
  <2>3. OutCb' = OutCb \union {new}
    BY <1>19, <2>2, OutAppend
  <2>4. CbSound(new)'
    <3>1. /\ Len(plog) \in Nat /\ Len(plog') = Len(plog) + 1 /\ next_id' = next_id + 1
          /\ plog'[Len(plog) + 1].id = next_id /\ plog'[Len(plog) + 1].pid = palf_pid
          /\ next_id \in Nat
      BY <2>1, WriteLogGrows, LogTyped DEF PalfTypes
    <3>2. ap_pid' = palf_pid
      BY <1>19, <2>1, AppendIsCurrent
    <3>3. InLog(new)'
      BY <2>2, <3>1, <3>2 DEF InLog
    <3> QED
      BY <2>1, <2>2, <3>1, <3>3, KnownIds DEF CbSound
  <2>5. \A c \in OutCb : CbSound(c)'
    BY <1>0, <2>1, CbSoundWrite
  <2> QED
    BY <2>3, <2>4, <2>5
<1>20. ASSUME NEW a \in Appender, NEW q \in Queue, CountSubmit(a, q)
      PROVE \A c \in OutCb' : CbSound(c)'
  BY <1>20, <1>0, OutFrame, CbSoundFrame
     DEF CountSubmit, AppTypes, AppType, Submitting, Running
<1>21. ASSUME NEW a \in Appender, PushCb(a) PROVE \A c \in OutCb' : CbSound(c)'
  <2>1. OutCb' = OutCb
    BY <1>21, OutPush DEF PushCb
  <2> QED
    BY <1>0, <1>21, <2>1, CbSoundFrame DEF PushCb
<1>22. ASSUME NEW a \in Appender, WakeQueue(a) PROVE \A c \in OutCb' : CbSound(c)'
  BY <1>22, <1>0, OutFrame, CbSoundFrame
     DEF WakeQueue, LeaveCritical, IdleApp, submit_task_to_apply_service_,
       acquire_lease, Submitting, Running
<1>23. CASE Replay
  <2>1. OutCb = {}
    BY <1>23, ReplayerAlone DEF Replay
  <2>2. OutCb' = OutCb
    BY <1>23, OutFrame DEF Replay, Submitting, Running
  <2> QED
    BY <2>1, <2>2
<1>24. CASE RcEvent
  BY <1>24, <1>0, OutFrame, CbSoundFrame
     DEF RcEvent, need_execute_role_change, PalfRole, IdleRc, Submitting, Running
<1>25. CASE RcAppendSync
  BY <1>25, <1>0, OutFrame, CbSoundFrame DEF RcAppendSync, RcGoto, Submitting, Running
<1>26. CASE RcApplyFollower
  BY <1>26, <1>0, OutFrame, CbSoundFrame
     DEF RcApplyFollower, RcGoto, apply_switch_to_follower,
       submit_task_to_apply_service_, acquire_lease, Submitting, Running
<1>27. CASE RcApplyDone
  BY <1>27, <1>0, OutFrame, CbSoundFrame DEF RcApplyDone, Submitting, Running
<1>28. CASE RcFollower
  BY <1>28, <1>0, OutFrame, CbSoundFrame DEF RcFollower, IdleRc, Submitting, Running
<1>29. CASE RcReplayFollower
  BY <1>29, <1>0, OutFrame, CbSoundFrame DEF RcReplayFollower, IdleRc, Submitting, Running
<1>30. CASE RcEndLsn
  BY <1>30, <1>0, OutFrame, CbSoundFrame DEF RcEndLsn, Submitting, Running
<1>31. CASE RcReplayDone
  BY <1>31, <1>0, OutFrame, CbSoundFrame DEF RcReplayDone, RcGoto, Submitting, Running
<1>32. CASE RcReplayTimeout
  BY <1>32, <1>0, OutFrame, CbSoundFrame DEF RcReplayTimeout, IdleRc, Submitting, Running
<1>33. CASE RcApplyLeader
  <2>1. OutCb = {}
    BY <1>33 DEF RcApplyLeader, CbInv, RoleInv, RolesAt
  <2>2. OutCb' = OutCb
    BY <1>33, OutFrame DEF RcApplyLeader, apply_switch_to_leader, Submitting, Running
  <2> QED
    BY <2>1, <2>2
<1>34. CASE RcReplayLeader
  BY <1>34, <1>0, OutFrame, CbSoundFrame DEF RcReplayLeader, RcGoto, Submitting, Running
<1>35. CASE RcLeader
  BY <1>35, <1>0, OutFrame, CbSoundFrame DEF RcLeader, IdleRc, Submitting, Running
<1>36. CASE UNCHANGED vars
  BY <1>36, <1>0, OutFrame, CbSoundFrame DEF Submitting, Running
<1> QED
  BY <1>1, <1>2, <1>3, <1>4, <1>5, <1>6, <1>7, <1>8, <1>9, <1>10, <1>11, <1>12, <1>13,
     <1>14, <1>15, <1>16, <1>17, <1>18, <1>19, <1>20, <1>21, <1>22, <1>23, <1>24, <1>25,
     <1>26, <1>27, <1>28, <1>29, <1>30, <1>31, <1>32, <1>33, <1>34, <1>35, <1>36
     DEF Next, PalfMoves, Slide, HandlerStep, AppendStep, RcStep

(* What a thread has decided about its callback stays true.                *)
LEMMA RunSoundStep ==
  ASSUME PalfTypes, ApplyTypes, QueueTypes, TaskTypes, EndInv, TaskInv, CbInv,
         [Next]_vars
  PROVE  \A h \in Handler : RunSound(h)'
<1>0. \A h \in Handler : RunSound(h)
  BY DEF CbInv
<1>1. CASE PalfBecomesFollower \/ PalfBecomesLeader \/ PalfMoves
  BY <1>1, PalfFrame, <1>0 DEF RunSound, Running
<1>2. ASSUME UpdateEnd, UNCHANGED above PROVE \A h \in Handler : RunSound(h)'
  <2>1. /\ ap_role = "LEADER" /\ UNCHANGED <<ap_role, hd>>
        /\ ap_end' = ap_end \/ ap_end' = slid + 1
        /\ slid \in Nat /\ ap_end \in Nat /\ ap_end <= slid
    BY <1>2 DEF UpdateEnd, PalfTypes, ApplyTypes, EndInv
  <2>2. ASSUME NEW h \in Handler, Running(h)
        PROVE  hd[h].ok /\ hd[h].cb.lsn <= ap_end /\ hd[h].cb.lsn \in Nat
    <3>1. hd[h].ok /\ hd[h].cb.lsn <= ap_end
      BY <1>0, <2>1, <2>2 DEF RunSound
    <3>2. hd[h].cb \in CbType
      BY DEF TaskTypes, HandlerType
    <3> QED
      BY <3>1, <3>2 DEF CbType
  <2>3. ASSUME NEW h \in Handler, Running(h) PROVE hd[h].ok /\ hd[h].cb.lsn <= ap_end'
    BY <2>1, <2>2, <2>3
  <2> QED
    BY <2>1, <2>3 DEF RunSound, Running
<1>3. ASSUME SubmitAfterUpdateEnd, UNCHANGED above PROVE \A g \in Handler : RunSound(g)'
  BY <1>3, <1>0
     DEF SubmitAfterUpdateEnd, SlideLog, submit_task_to_apply_service_, acquire_lease,
       RunSound, Running
<1>4. ASSUME SkipUpdateEnd, UNCHANGED above PROVE \A g \in Handler : RunSound(g)'
  BY <1>4, <1>0 DEF SkipUpdateEnd, SlideLog, SlidingLog, Unexpected, RunSound, Running
<1>5. ASSUME NEW h \in Handler, NEW t \in Task, TakeTask(h, t), UNCHANGED <<palfVars, above>>
      PROVE \A g \in Handler : RunSound(g)'
  <2>1. /\ ~Running(h)' /\ \A g \in Handler \ {h} : hd'[g] = hd[g]
        /\ UNCHANGED <<ap_end, ap_role>>
    BY <1>5 DEF TakeTask, IdleHandler, TaskTypes, Running
  <2> QED
    BY <1>0, <2>1 DEF RunSound, Running
<1>6. ASSUME NEW h \in Handler, NEW q \in Queue, SubmitQueue(h, q), UNCHANGED <<palfVars, above>>
      PROVE \A g \in Handler : RunSound(g)'
  <2>1. /\ ~Running(h)' /\ \A g \in Handler \ {h} : hd'[g] = hd[g]
        /\ UNCHANGED <<ap_end, ap_role>>
    BY <1>6 DEF SubmitQueue, TaskTypes, HandlerType, Running
  <2> QED
    BY <1>0, <2>1 DEF RunSound, Running
<1>7. ASSUME NEW h \in Handler, PopCb(h), UNCHANGED <<palfVars, above>>
      PROVE \A g \in Handler : RunSound(g)'
  <2>1. /\ hd'[h].cb = Head(queue[hd[h].task])
        /\ hd'[h].ok = Succeeds(Head(queue[hd[h].task]))
        /\ Succeeds(Head(queue[hd[h].task])) \/ ap_role = "FOLLOWER"
        /\ \A g \in Handler \ {h} : hd'[g] = hd[g]
        /\ UNCHANGED <<ap_end, ap_role>>
    BY <1>7, Zenon DEF PopCb, TaskTypes, HandlerType
  <2>2. RunSound(h)'
    BY <2>1 DEF RunSound, Succeeds
  <2> QED
    BY <1>0, <2>1, <2>2 DEF RunSound, Running
<1>8. ASSUME NEW h \in Handler, RunCb(h), UNCHANGED <<palfVars, above>>
      PROVE \A g \in Handler : RunSound(g)'
  <2>1. ~Running(h)' /\ \A g \in Handler \ {h} : hd'[g] = hd[g]
    BY <1>8, RunCbMoves DEF TaskTypes, Running
  <2>2. UNCHANGED <<ap_end, ap_role>>
    BY <1>8 DEF RunCb
  <2> QED
    BY <1>0, <2>1, <2>2 DEF RunSound, Running
<1>9. ASSUME NEW h \in Handler, FinishTask(h), UNCHANGED <<palfVars, above>>
      PROVE \A g \in Handler : RunSound(g)'
  <2>1. /\ ~Running(h)' /\ \A g \in Handler \ {h} : hd'[g] = hd[g]
        /\ UNCHANGED <<ap_end, ap_role>>
    BY <1>9 DEF FinishTask, TaskTypes, HandlerType, Running
  <2> QED
    BY <1>0, <2>1 DEF RunSound, Running
<1>10. ASSUME NEW h \in Handler, revoke_lease(h), UNCHANGED <<palfVars, above>>
      PROVE \A g \in Handler : RunSound(g)'
  <2>1. /\ ~Running(h)' /\ \A g \in Handler \ {h} : hd'[g] = hd[g]
        /\ UNCHANGED <<ap_end, ap_role>>
    BY <1>10 DEF revoke_lease, IdleHandler, TaskTypes, Running
  <2> QED
    BY <1>0, <2>1 DEF RunSound, Running
<1>11. CASE GetMaxAppliedScn
  BY <1>11, CheckFrame, <1>0 DEF RunSound, Running
<1>12. ASSUME NEW a \in Appender, AppendStart(a) \/ AppendStep(a)
       PROVE  \A g \in Handler : RunSound(g)'
  BY <1>12, AppendFrame, <1>0 DEF RunSound, Running
<1>13. CASE Replay
  BY <1>13, ReplayFrame, <1>0 DEF RunSound, Running
<1>14. CASE RcEvent
  BY <1>14, <1>0 DEF RcEvent, need_execute_role_change, PalfRole, IdleRc, RunSound, Running
<1>15. CASE RcAppendSync
  BY <1>15, <1>0 DEF RcAppendSync, RcGoto, RunSound, Running
<1>16. CASE RcApplyFollower
  <2>1. ap_role' = "FOLLOWER" /\ UNCHANGED <<ap_end, hd>>
    BY <1>16 DEF RcApplyFollower, apply_switch_to_follower
  <2> QED
    BY <1>0, <2>1 DEF RunSound, Running
<1>17. CASE RcApplyDone
  BY <1>17, <1>0 DEF RcApplyDone, RunSound, Running
<1>18. CASE RcFollower
  BY <1>18, <1>0 DEF RcFollower, IdleRc, RunSound, Running
<1>19. CASE RcReplayFollower
  BY <1>19, <1>0 DEF RcReplayFollower, IdleRc, RunSound, Running
<1>20. CASE RcEndLsn
  BY <1>20, <1>0 DEF RcEndLsn, RunSound, Running
<1>21. CASE RcReplayDone
  BY <1>21, <1>0 DEF RcReplayDone, RcGoto, RunSound, Running
<1>22. CASE RcReplayTimeout
  BY <1>22, <1>0 DEF RcReplayTimeout, IdleRc, RunSound, Running
<1>23. CASE RcApplyLeader
  <2>1. \A h \in Handler : ~Running(h)'
    BY <1>23 DEF RcApplyLeader, apply_switch_to_leader, Readers, Running
  <2> QED
    BY <2>1 DEF RunSound
<1>24. CASE RcReplayLeader
  BY <1>24, <1>0 DEF RcReplayLeader, RcGoto, RunSound, Running
<1>25. CASE RcLeader
  BY <1>25, <1>0 DEF RcLeader, IdleRc, RunSound, Running
<1>26. CASE UNCHANGED vars
  BY <1>26, <1>0 DEF RunSound, Running
<1> QED
  BY <1>1, <1>2, <1>3, <1>4, <1>5, <1>6, <1>7, <1>8, <1>9, <1>10, <1>11, <1>12, <1>13,
     <1>14, <1>15, <1>16, <1>17, <1>18, <1>19, <1>20, <1>21, <1>22, <1>23, <1>24, <1>25,
     <1>26 DEF Next, Slide, HandlerStep, RcStep

(* The callbacks end before the log handler is a follower.                 *)
LEMMA QuietStep ==
  ASSUME QueueTypes, TaskTypes, AppTypes, RcTypes, ReplayTypes, RoleInv, CbInv,
         PlaceInv, TaskInv, CountInv, PalfTypes, ApplyTypes, PalfInv, PidInv, TermInv,
         [Next]_vars
  PROVE  lh_role' = "FOLLOWER" \/ rc'.pc = "follower" => OutCb' = {}
<1>1. CASE PalfBecomesFollower \/ PalfBecomesLeader \/ PalfMoves
  BY <1>1, PalfFrame, OutFrame DEF CbInv, Submitting, Running
<1>2. CASE Slide
  BY <1>2, SlideFrame, OutFrame DEF CbInv, Submitting, Running
<1>3. ASSUME NEW h \in Handler, NEW t \in Task, TakeTask(h, t), UNCHANGED <<palfVars, above>>
      PROVE lh_role' = "FOLLOWER" \/ rc'.pc = "follower" => OutCb' = {}
  BY <1>3, OutFrame DEF TakeTask, IdleHandler, CbInv, Submitting, Running
<1>4. ASSUME NEW h \in Handler, NEW q \in Queue, SubmitQueue(h, q), UNCHANGED <<palfVars, above>>
      PROVE lh_role' = "FOLLOWER" \/ rc'.pc = "follower" => OutCb' = {}
  BY <1>4, OutFrame
     DEF SubmitQueue, submit_task_to_apply_service_, acquire_lease, CbInv, Submitting,
       Running
<1>5. ASSUME NEW h \in Handler, PopCb(h), UNCHANGED <<palfVars, above>>
      PROVE lh_role' = "FOLLOWER" \/ rc'.pc = "follower" => OutCb' = {}
  BY <1>5, OutPop DEF CbInv
<1>6. ASSUME NEW h \in Handler, RunCb(h), UNCHANGED <<palfVars, above>>
      PROVE lh_role' = "FOLLOWER" \/ rc'.pc = "follower" => OutCb' = {}
  BY <1>6, OutRun DEF CbInv
<1>7. ASSUME NEW h \in Handler, FinishTask(h), UNCHANGED <<palfVars, above>>
      PROVE lh_role' = "FOLLOWER" \/ rc'.pc = "follower" => OutCb' = {}
  BY <1>7, OutFrame DEF FinishTask, Succeeds, CbInv, Submitting, Running
<1>8. ASSUME NEW h \in Handler, revoke_lease(h), UNCHANGED <<palfVars, above>>
      PROVE lh_role' = "FOLLOWER" \/ rc'.pc = "follower" => OutCb' = {}
  BY <1>8, OutFrame DEF revoke_lease, IdleHandler, CbInv, Submitting, Running
<1>9. CASE GetMaxAppliedScn
  BY <1>9, CheckFrame, OutFrame DEF CbInv, Submitting, Running
<1>10. ASSUME NEW a \in Appender, AppendStart(a)
      PROVE lh_role' = "FOLLOWER" \/ rc'.pc = "follower" => OutCb' = {}
  BY <1>10, OutFrame DEF AppendStart, CbInv, AppTypes, AppType, Submitting, Running
<1>11. ASSUME NEW a \in Appender, AppendRefused(a)
      PROVE lh_role' = "FOLLOWER" \/ rc'.pc = "follower" => OutCb' = {}
  BY <1>11, OutFrame DEF AppendRefused, IdleApp, CbInv, Submitting, Running
<1>12. ASSUME NEW a \in Appender, AppendToPalf(a)
      PROVE lh_role' = "FOLLOWER" \/ rc'.pc = "follower" => OutCb' = {}
  <2>1. lh_role' = "LEADER" /\ rc'.pc = "idle"
    BY <1>12, AppendIsCurrent DEF AppendToPalf
  <2> QED
    BY <2>1
<1>13. ASSUME NEW a \in Appender, NEW q \in Queue, CountSubmit(a, q)
      PROVE lh_role' = "FOLLOWER" \/ rc'.pc = "follower" => OutCb' = {}
  BY <1>13, OutFrame DEF CountSubmit, CbInv, AppTypes, AppType, Submitting, Running
<1>14. ASSUME NEW a \in Appender, PushCb(a)
      PROVE lh_role' = "FOLLOWER" \/ rc'.pc = "follower" => OutCb' = {}
  BY <1>14, OutPush DEF CbInv, PushCb
<1>15. ASSUME NEW a \in Appender, WakeQueue(a)
      PROVE lh_role' = "FOLLOWER" \/ rc'.pc = "follower" => OutCb' = {}
  <2>1. /\ UNCHANGED <<queue, hd, lh_role>> /\ rc'.pc = rc.pc
        /\ \A b \in Appender : Submitting(b)' => Submitting(b) /\ app'[b] = app[b]
    BY <1>15 DEF WakeQueue, LeaveCritical, IdleApp, AppTypes, Submitting, RcTypes, RcType
  <2>2. \A c \in OutCb' : c \in OutCb
    BY <2>1, InOut, InOutNext DEF Running
  <2> QED
    BY <2>1, <2>2 DEF CbInv
<1>16. CASE Replay
  BY <1>16, ReplayFrame, OutFrame DEF CbInv, Submitting, Running
<1>17. CASE RcEvent
  <2>1. rc'.pc = "follower" => lh_role = "FOLLOWER"
    BY <1>17, EventDecides DEF AppTypes, Roles
  <2>2. OutCb' = OutCb /\ UNCHANGED lh_role
    BY <1>17, OutFrame DEF RcEvent, Submitting, Running
  <2> QED
    BY <2>1, <2>2 DEF CbInv
<1>18. CASE RcAppendSync
  BY <1>18, OutFrame DEF RcAppendSync, RcGoto, CbInv, Submitting, Running
<1>19. CASE RcApplyFollower
  BY <1>19, OutFrame
     DEF RcApplyFollower, RcGoto, apply_switch_to_follower,
       submit_task_to_apply_service_, acquire_lease, CbInv, Submitting, Running
<1>20. CASE RcApplyDone
  <2>1. OutCb = {}
    BY <1>20, AllDone DEF RcApplyDone, RoleInv, RolesAt
  <2>2. OutCb' = OutCb
    BY <1>20, OutFrame DEF RcApplyDone, Submitting, Running
  <2> QED
    BY <2>1, <2>2
<1>21. CASE RcFollower
  BY <1>21, OutFrame DEF RcFollower, IdleRc, CbInv, Submitting, Running
<1>22. CASE RcReplayFollower
  BY <1>22, OutFrame DEF RcReplayFollower, IdleRc, CbInv, Submitting, Running
<1>23. CASE RcEndLsn
  BY <1>23, OutFrame DEF RcEndLsn, CbInv, Submitting, Running
<1>24. CASE RcReplayDone
  BY <1>24, OutFrame DEF RcReplayDone, RcGoto, CbInv, Submitting, Running
<1>25. CASE RcReplayTimeout
  BY <1>25, OutFrame DEF RcReplayTimeout, IdleRc, CbInv, Submitting, Running
<1>26. CASE RcApplyLeader
  BY <1>26, OutFrame
     DEF RcApplyLeader, RcGoto, apply_switch_to_leader, Unexpected, CbInv, Submitting,
       Running
<1>27. CASE RcReplayLeader
  BY <1>27, OutFrame DEF RcReplayLeader, RcGoto, CbInv, Submitting, Running
<1>28. CASE RcLeader
  BY <1>28, OutFrame DEF RcLeader, IdleRc, CbInv, Submitting, Running
<1>29. CASE UNCHANGED vars
  BY <1>29, OutFrame DEF CbInv, Submitting, Running
<1> QED
  BY <1>1, <1>2, <1>3, <1>4, <1>5, <1>6, <1>7, <1>8, <1>9, <1>10, <1>11, <1>12, <1>13,
     <1>14, <1>15, <1>16, <1>17, <1>18, <1>19, <1>20, <1>21, <1>22, <1>23, <1>24, <1>25,
     <1>26, <1>27, <1>28, <1>29 DEF Next, HandlerStep, AppendStep, RcStep

LEMMA CbStep ==
  ASSUME PalfTypes, ApplyTypes, QueueTypes, TaskTypes, AppTypes, ReplayTypes, RcTypes, PalfInv,
         RoleInv, PidInv, TermInv, EndInv, EffectInv, CbInv, PlaceInv, TaskInv, CountInv,
         [Next]_vars
  PROVE  CbInv'
  BY CbSoundStep, RunSoundStep, QuietStep DEF CbInv

(* What has taken effect stays so when the apply service's term, the log   *)
(* and the ends do not go back and no callback is lost.                    *)
LEMMA EffectFrame ==
  ASSUME EffectInv, UNCHANGED <<plog, next_id, ap_pid, rp_end, ok, failed, replayed>>,
         OutCb \subseteq OutCb', slid \in Nat, slid' \in Nat, slid <= slid',
         ap_end \in Nat, ap_end' \in Nat, ap_end <= ap_end', plog \in Seq(LogType)
  PROVE  EffectInv'
<1>1. ASSUME NEW i \in 1 .. Len(plog), LogDone(i) PROVE LogDone(i)'
  BY <1>1 DEF LogDone
<1>2. \A id \in ok : \E i \in 1 .. ap_end' : plog[i].id = id
  BY DEF EffectInv
<1> QED
  BY <1>1, <1>2 DEF EffectInv

(* The log grows by a log of a later term, or by one whose callback is on  *)
(* its way.                                                                *)
LEMMA EffectWrite ==
  ASSUME PalfTypes, ApplyTypes, ReplayTypes, PalfInv, EndInv, EffectInv, WriteLog,
         UNCHANGED <<ap_pid, ap_end, rp_end, ok, failed, replayed>>, OutCb \subseteq OutCb',
         palf_pid >= ap_pid,
         palf_pid = ap_pid => \E c \in OutCb' : c.id = next_id
  PROVE  EffectInv'
<1>1. /\ Len(plog) \in Nat /\ Len(plog') = Len(plog) + 1 /\ next_id' = next_id + 1
      /\ plog'[Len(plog) + 1].id = next_id /\ plog'[Len(plog) + 1].pid = palf_pid
      /\ \A i \in 1 .. Len(plog) : plog'[i] = plog[i]
  BY WriteLogGrows, LogTyped DEF PalfTypes
<1>2. UNCHANGED slid /\ next_id \in Nat /\ palf_pid \in Nat /\ ap_pid \in Nat
  BY DEF WriteLog, PalfTypes, ApplyTypes
<1>3. /\ \A i \in 1 .. ap_end : i \in 1 .. Len(plog) /\ plog'[i] = plog[i]
      /\ \A i \in 1 .. rp_end : i \in 1 .. Len(plog) /\ plog'[i] = plog[i]
  BY <1>1, EndBounds
<1>4. ASSUME NEW i \in 1 .. Len(plog') PROVE LogDone(i)'
  <2>1. CASE i \in 1 .. Len(plog)
    <3>1. LogDone(i) /\ plog'[i] = plog[i]
      BY <1>1, <2>1 DEF EffectInv
    <3> QED
      BY <1>2, <3>1 DEF LogDone
  <2>2. CASE i = Len(plog) + 1
    BY <1>1, <1>2, <2>2 DEF LogDone
  <2> QED
    BY <1>1, <2>1, <2>2
<1>5. \A id \in failed : id < next_id' /\ \A i \in 1 .. Len(plog') : plog'[i].id # id
  <2> SUFFICES ASSUME NEW id \in failed, NEW i \in 1 .. Len(plog')
               PROVE  id < next_id' /\ plog'[i].id # id
    BY <1>1, <1>2 DEF EffectInv, ApplyTypes
  <2>1. id \in Nat /\ id < next_id /\ \A j \in 1 .. Len(plog) : plog[j].id # id
    BY DEF EffectInv, ApplyTypes
  <2>2. CASE i \in 1 .. Len(plog)
    BY <1>1, <1>2, <2>1, <2>2
  <2>3. CASE i = Len(plog) + 1
    BY <1>1, <1>2, <2>1, <2>3
  <2> QED
    BY <1>1, <2>2, <2>3
<1> QED
  BY <1>3, <1>4, <1>5 DEF EffectInv

(* Nothing that has taken effect is cut off.                               *)
LEMMA EffectTruncate ==
  ASSUME PalfTypes, ApplyTypes, ReplayTypes, PalfInv, EndInv, EffectInv, truncate(CommittedEnd),
         UNCHANGED <<ap_pid, ap_end, rp_end, ok, failed, replayed>>, OutCb' = OutCb
  PROVE  EffectInv'
<1>1. PICK n \in Nat : /\ CommittedEnd <= n /\ n < Len(plog) /\ Len(plog') = n
                       /\ \A i \in 1 .. n : plog'[i] = plog[i]
  BY TruncateCuts DEF PalfTypes
<1>2. UNCHANGED <<next_id, slid>>
  BY DEF truncate
<1>3. ap_end <= n /\ rp_end <= n /\ Len(plog) \in Nat /\ ap_end \in Nat /\ rp_end \in Nat
  BY <1>1, EndBounds DEF PalfTypes
<1>4. \A i \in 1 .. Len(plog') : i \in 1 .. Len(plog) /\ plog'[i] = plog[i]
  BY <1>1, <1>3
<1>5. /\ \A i \in 1 .. ap_end : plog'[i] = plog[i]
      /\ \A i \in 1 .. rp_end : plog'[i] = plog[i]
  BY <1>1, <1>3
<1>6. ASSUME NEW i \in 1 .. Len(plog') PROVE LogDone(i)'
  <2>1. LogDone(i) /\ plog'[i] = plog[i]
    BY <1>4 DEF EffectInv
  <2> QED
    BY <1>2, <2>1 DEF LogDone
<1> QED
  BY <1>2, <1>4, <1>5, <1>6 DEF EffectInv

(* on_success is for a log that has slid, ...                              *)
LEMMA SuccessIsSlid ==
  ASSUME ApplyTypes, TaskTypes, CbInv, NEW h \in Handler, Running(h), hd[h].ok
  PROVE  /\ InLog(hd[h].cb) /\ hd[h].cb.lsn <= ap_end
         /\ hd[h].cb.lsn \in Nat /\ CbSound(hd[h].cb)
<1>1. RunSound(h) /\ CbSound(hd[h].cb)
  BY InOut DEF CbInv
<1>2. hd[h].cb.lsn <= ap_end
  BY <1>1 DEF RunSound
<1>3. hd[h].cb \in CbType
  BY DEF TaskTypes, HandlerType
<1>4. ~CutOff(hd[h].cb) /\ hd[h].cb.lsn \in Nat
  BY <1>2, <1>3 DEF CutOff, CbType, ApplyTypes
<1> QED
  BY <1>1, <1>2, <1>4 DEF CbSound

(* ... and on_failure for one that has been cut off: what is left of the   *)
(* term has slid, and the apply service has seen it.                       *)
LEMMA FailureIsCutOff ==
  ASSUME PalfTypes, ApplyTypes, TaskTypes, TermInv, EndInv, CbInv, NEW h \in Handler,
         Running(h), ~hd[h].ok
  PROVE  CutOff(hd[h].cb) /\ ap_role = "FOLLOWER" /\ CbSound(hd[h].cb)
<1>1. RunSound(h) /\ CbSound(hd[h].cb)
  BY InOut DEF CbInv
<1>2. ~(hd[h].cb.lsn <= ap_end) /\ ap_role = "FOLLOWER"
  BY <1>1 DEF RunSound
<1>3. hd[h].cb.lsn \in Nat /\ slid \in Nat /\ ap_pid \in Nat /\ Len(plog) \in Nat
  <2>1. hd[h].cb \in CbType
    BY DEF TaskTypes, HandlerType
  <2> QED
    BY <2>1, LogTyped DEF CbType, PalfTypes, ApplyTypes
<1>4. ~InLog(hd[h].cb)
  <2> SUFFICES ASSUME InLog(hd[h].cb) PROVE FALSE
    OBVIOUS
  <2>1. hd[h].cb.lsn \in 1 .. Len(plog) /\ plog[hd[h].cb.lsn].pid = ap_pid
    BY DEF InLog
  <2>2. ~(hd[h].cb.lsn \in slid + 1 .. Len(plog))
    BY <1>2, <1>3, <2>1 DEF TermInv, Over
  <2>3. hd[h].cb.lsn \in 1 .. slid
    BY <1>3, <2>1, <2>2
  <2> QED
    BY <1>2, <2>1, <2>3 DEF EndInv
<1> QED
  BY <1>1, <1>2, <1>4 DEF CbSound

LEMMA EffectRun ==
  ASSUME PalfTypes, ApplyTypes, TaskTypes, ReplayTypes, PalfInv, TermInv, EndInv, EffectInv,
         CbInv, PlaceInv, NEW h \in Handler, RunCb(h), UNCHANGED <<palfVars, app, rpVars>>
  PROVE  EffectInv'
<1>1. PICK cb : cb = hd[h].cb
  OBVIOUS
<1>2. Running(h) /\ UNCHANGED <<ap_pid, ap_end>>
  BY DEF RunCb, Running
<1>3. OutCb' = OutCb \ {cb}
  BY <1>1, OutRun
<1>4. CASE hd[h].ok
  <2>1. ok' = ok \union {cb.id} /\ failed' = failed
    BY <1>1, <1>4 DEF RunCb
  <2>2. /\ cb.lsn \in 1 .. Len(plog) /\ plog[cb.lsn].id = cb.id /\ cb.lsn <= ap_end
        /\ cb.lsn \in Nat /\ cb.id \notin replayed
    BY <1>1, <1>2, <1>4, SuccessIsSlid DEF InLog, CbSound
  <2>3. ASSUME NEW i \in 1 .. Len(plog) PROVE LogDone(i)'
    <3>1. LogDone(i)
      BY DEF EffectInv
    <3> QED
      BY <1>2, <1>3, <2>1, <3>1 DEF LogDone
  <2>4. \A id \in ok' : \E i \in 1 .. ap_end : plog[i].id = id
    <3>1. cb.lsn \in 1 .. ap_end
      BY <2>2 DEF ApplyTypes
    <3> QED
      BY <2>1, <2>2, <3>1 DEF EffectInv
  <2>5. ok' \intersect replayed = {}
    BY <2>1, <2>2 DEF EffectInv
  <2> QED
    BY <1>2, <2>1, <2>3, <2>4, <2>5 DEF EffectInv
<1>5. CASE ~hd[h].ok
  <2>1. ok' = ok /\ failed' = failed \union {cb.id}
    BY <1>1, <1>5 DEF RunCb
  <2>2. cb.id < next_id /\ \A i \in 1 .. Len(plog) : plog[i].id # cb.id
    BY <1>1, <1>2, <1>5, FailureIsCutOff DEF CutOff, CbSound
  <2>3. ASSUME NEW i \in 1 .. Len(plog) PROVE LogDone(i)'
    <3>1. LogDone(i) /\ plog[i].id # cb.id
      BY <2>2 DEF EffectInv
    <3> QED
      BY <1>2, <1>3, <2>1, <3>1 DEF LogDone
  <2>4. \A id \in failed' : id < next_id /\ \A i \in 1 .. Len(plog) : plog[i].id # id
    BY <2>1, <2>2 DEF EffectInv
  <2> QED
    BY <1>2, <2>1, <2>3, <2>4 DEF EffectInv
<1> QED
  BY <1>4, <1>5

(* Replay does what no callback has done: it goes on behind all of them.   *)
LEMMA EffectReplay ==
  ASSUME PalfTypes, ApplyTypes, QueueTypes, TaskTypes, AppTypes, ReplayTypes, RcTypes, PalfInv,
         RoleInv, EndInv, EffectInv, CbInv, Replay
  PROVE  EffectInv'
<1>1. /\ rp_end' = rp_end + 1 /\ replayed' = replayed \union {plog[rp_end + 1].id}
      /\ rp_end < slid /\ rp_role = "FOLLOWER"
      /\ UNCHANGED <<palfVars, ap_pid, ap_end, ok, failed>>
  BY DEF Replay
<1>2. OutCb' = OutCb
  BY OutFrame DEF Replay, Submitting, Running
<1>3. ap_end <= rp_end /\ rp_end + 1 \in 1 .. Len(plog) /\ ap_end \in Nat /\ rp_end \in Nat
  BY <1>1, LogTyped DEF EndInv, PalfTypes, ApplyTypes, ReplayTypes
<1>4. plog[rp_end + 1].id \notin ok
  <2> SUFFICES ASSUME plog[rp_end + 1].id \in ok PROVE FALSE
    OBVIOUS
  <2>1. PICK i \in 1 .. ap_end : plog[i].id = plog[rp_end + 1].id
    BY DEF EffectInv
  <2>2. i \in 1 .. Len(plog)
    BY EndBounds
  <2>3. i = rp_end + 1
    BY <1>3, <2>1, <2>2, IdUnique
  <2> QED
    BY <1>3, <2>3
<1>5. ASSUME NEW i \in 1 .. Len(plog) PROVE LogDone(i)'
  <2>1. LogDone(i)
    BY DEF EffectInv
  <2> QED
    BY <1>1, <1>2, <2>1 DEF LogDone
<1>6. \A i \in 1 .. rp_end' : i \in 1 .. rp_end \/ i = rp_end + 1
  BY <1>1, <1>3
<1>7. \A i \in 1 .. rp_end' : plog[i].id \in ok \union replayed'
  BY <1>1, <1>6 DEF EffectInv
<1>8. \A id \in replayed' : \E i \in 1 .. rp_end' : plog[i].id = id
  <2>1. rp_end + 1 \in 1 .. rp_end' /\ \A i \in 1 .. rp_end : i \in 1 .. rp_end'
    BY <1>1, <1>3
  <2> QED
    BY <1>1, <2>1 DEF EffectInv
<1>9. ok \intersect replayed' = {}
  BY <1>1, <1>4 DEF EffectInv
<1> QED
  BY <1>1, <1>5, <1>7, <1>8, <1>9 DEF EffectInv

(* The replay service takes over behind what the callbacks have done.      *)
LEMMA EffectHandOver ==
  ASSUME PalfTypes, ApplyTypes, QueueTypes, TaskTypes, AppTypes, ReplayTypes, RcTypes, PalfInv,
         RoleInv, EndInv, EffectInv, CbInv, RcReplayFollower
  PROVE  EffectInv'
<1>1. /\ rc.pc = "replay_follower" /\ rp_end' = (IF rc.end > rp_end THEN rc.end ELSE rp_end)
      /\ UNCHANGED <<palfVars, ap_pid, ap_end, ok, failed, replayed>>
  BY DEF RcReplayFollower
<1>2. OutCb' = OutCb /\ OutCb = {}
  BY <1>1, OutFrame DEF RcReplayFollower, Submitting, Running, RoleInv, RolesAt, CbInv
<1>3. rc.end = ap_end /\ ap_end \in Nat /\ rp_end \in Nat
  BY <1>1 DEF EndInv, ApplyTypes, ReplayTypes
<1>4. ASSUME NEW i \in 1 .. Len(plog) PROVE LogDone(i)'
  <2>1. LogDone(i)
    BY DEF EffectInv
  <2> QED
    BY <1>1, <1>2, <2>1 DEF LogDone
<1>5. ASSUME NEW i \in 1 .. ap_end PROVE plog[i].id \in ok \union replayed
  <2>1. i \in 1 .. Len(plog) /\ plog[i].pid <= ap_pid
    BY EndBounds DEF EndInv
  <2>2. LogDone(i) /\ plog[i].pid \in Nat /\ ap_pid \in Nat
    BY <2>1, LogTyped DEF EffectInv, ApplyTypes
  <2>3. plog[i].pid < ap_pid \/ plog[i].pid = ap_pid
    BY <2>1, <2>2
  <2> QED
    BY <1>2, <2>2, <2>3 DEF LogDone
<1>6. \A i \in 1 .. rp_end' : plog[i].id \in ok \union replayed
  BY <1>1, <1>3, <1>5 DEF EffectInv
<1>7. \A id \in replayed : \E i \in 1 .. rp_end' : plog[i].id = id
  <2>1. \A i \in 1 .. rp_end : i \in 1 .. rp_end'
    BY <1>1, <1>3
  <2> QED
    BY <2>1 DEF EffectInv
<1> QED
  BY <1>1, <1>4, <1>6, <1>7 DEF EffectInv

(* A term starts when everything before it has been replayed.              *)
LEMMA EffectNewTerm ==
  ASSUME PalfTypes, ApplyTypes, QueueTypes, TaskTypes, AppTypes, ReplayTypes, RcTypes, PalfInv,
         RoleInv, PidInv, TermInv, EndInv, EffectInv, RcApplyLeader
  PROVE  EffectInv'
<1>1. /\ rc.pc = "apply_leader" /\ UNCHANGED <<palfVars, ap_end, rp_end, ok, failed, replayed>>
      /\ ap_pid' = rc.pid
  <2>1. rc.pc = "apply_leader" /\ ap_role = "FOLLOWER"
    BY DEF RcApplyLeader, RoleInv, RolesAt
  <2>2. ap_pid < rc.pid /\ ap_pid \in Nat /\ rc.pid \in Nat
    BY <2>1 DEF PidInv, ToLead, ApplyTypes, RcTypes, RcType
  <2> QED
    BY <2>1, <2>2 DEF RcApplyLeader, apply_switch_to_leader
<1>2. /\ rc.end <= slid /\ rc.end <= rp_end /\ rc.end \in Nat /\ slid \in Nat /\ rp_end \in Nat
      /\ \A i \in 1 .. Len(plog) : plog[i].pid < rc.pid => i <= rc.end
      /\ \A i \in 1 .. Len(plog) : plog[i].pid # rc.pid
  BY <1>1 DEF EndInv, TermInv, PidInv, ToLead, RcTypes, RcType, PalfTypes, ReplayTypes
<1>3. ASSUME NEW i \in 1 .. Len(plog), plog[i].pid < rc.pid
      PROVE  i <= slid /\ plog[i].id \in ok \union replayed
  <2>1. i <= rc.end
    BY <1>2, <1>3
  <2>2. i <= slid /\ i \in 1 .. rp_end
    BY <1>2, <2>1
  <2> QED
    BY <2>2 DEF EffectInv
<1>4. ASSUME NEW i \in 1 .. Len(plog) PROVE LogDone(i)'
  BY <1>1, <1>2, <1>3 DEF LogDone
<1> QED
  BY <1>1, <1>4 DEF EffectInv

(* What has taken effect stays accounted for.                              *)
LEMMA EffectStep ==
  ASSUME PalfTypes, ApplyTypes, QueueTypes, TaskTypes, AppTypes, ReplayTypes, RcTypes,
         PalfInv, RoleInv, PidInv, TermInv, EndInv, EffectInv, CbInv, PlaceInv, TaskInv,
         [Next]_vars
  PROVE  EffectInv'
<1>0. slid \in Nat /\ ap_end \in Nat /\ plog \in Seq(LogType)
  BY DEF PalfTypes, ApplyTypes
<1>1. CASE PalfBecomesFollower
  BY <1>1, <1>0, OutFrame, EffectFrame
     DEF PalfBecomesFollower, pending_to_follower_active_, Submitting, Running
<1>2. CASE PalfBecomesLeader
  BY <1>2, <1>0, OutFrame, EffectFrame
     DEF PalfBecomesLeader, reconfirm_to_leader_active_, Submitting, Running
<1>3. ASSUME leader_active_to_follower_pending_, UNCHANGED <<palfFrame, rc_set>>
      PROVE EffectInv'
  BY <1>3, <1>0, OutFrame, EffectFrame
     DEF leader_active_to_follower_pending_, Submitting, Running
<1>4. ASSUME handle_prepare_request, UNCHANGED <<palfFrame, rc_set>> PROVE EffectInv'
  BY <1>4, <1>0, OutFrame, EffectFrame DEF handle_prepare_request, Submitting, Running
<1>5. ASSUME receive_log, UNCHANGED <<palfFrame, rc_set>> PROVE EffectInv'
  <2>1. OutCb' = OutCb
    BY <1>5, OutFrame DEF Submitting, Running
  <2>2. WriteLog /\ palf_pid > ap_pid /\ palf_pid >= ap_pid /\ palf_pid # ap_pid
    BY <1>5 DEF receive_log, OtherLeads, PidInv, PalfTypes, ApplyTypes
  <2> QED
    BY <1>5, <2>1, <2>2, EffectWrite
<1>6. ASSUME truncate(CommittedEnd), UNCHANGED <<palfFrame, rc_set>> PROVE EffectInv'
  <2>1. OutCb' = OutCb
    BY <1>6, OutFrame DEF Submitting, Running
  <2> QED
    BY <1>6, <2>1, EffectTruncate
<1>7. ASSUME UpdateEnd, UNCHANGED above PROVE EffectInv'
  <2>1. OutCb' = OutCb
    BY <1>7, OutFrame DEF UpdateEnd, Submitting, Running
  <2>2. /\ ap_end' \in Nat /\ ap_end <= ap_end' /\ slid' \in Nat /\ slid <= slid'
        /\ UNCHANGED <<plog, next_id, ap_pid, ok, failed>>
    BY <1>0, <1>7 DEF UpdateEnd, SlideLog
  <2> QED
    BY <1>0, <1>7, <2>1, <2>2, EffectFrame
<1>8. ASSUME SubmitAfterUpdateEnd, UNCHANGED above PROVE EffectInv'
  BY <1>8, <1>0, OutFrame, EffectFrame
     DEF SubmitAfterUpdateEnd, SlideLog, submit_task_to_apply_service_, acquire_lease,
       Submitting, Running
<1>9. ASSUME SkipUpdateEnd, UNCHANGED above PROVE EffectInv'
  BY <1>9, <1>0, OutFrame, EffectFrame
     DEF SkipUpdateEnd, SlideLog, SlidingLog, Unexpected, Submitting, Running
<1>10. ASSUME NEW h \in Handler, NEW t \in Task, TakeTask(h, t), UNCHANGED <<palfVars, above>>
      PROVE EffectInv'
  BY <1>10, <1>0, OutFrame, EffectFrame DEF TakeTask, IdleHandler, Submitting, Running
<1>11. ASSUME NEW h \in Handler, NEW q \in Queue, SubmitQueue(h, q), UNCHANGED <<palfVars, above>>
      PROVE EffectInv'
  BY <1>11, <1>0, OutFrame, EffectFrame
     DEF SubmitQueue, submit_task_to_apply_service_, acquire_lease, Submitting, Running
<1>12. ASSUME NEW h \in Handler, PopCb(h), UNCHANGED <<palfVars, above>> PROVE EffectInv'
  <2>1. OutCb' = OutCb
    BY <1>12, OutPop
  <2> QED
    BY <1>0, <1>12, <2>1, EffectFrame DEF PopCb
<1>13. ASSUME NEW h \in Handler, RunCb(h), UNCHANGED <<palfVars, above>> PROVE EffectInv'
  BY <1>13, EffectRun
<1>14. ASSUME NEW h \in Handler, FinishTask(h), UNCHANGED <<palfVars, above>>
      PROVE EffectInv'
  BY <1>14, <1>0, OutFrame, EffectFrame DEF FinishTask, Succeeds, Submitting, Running
<1>15. ASSUME NEW h \in Handler, revoke_lease(h), UNCHANGED <<palfVars, above>>
      PROVE EffectInv'
  BY <1>15, <1>0, OutFrame, EffectFrame DEF revoke_lease, IdleHandler, Submitting, Running
<1>16. CASE GetMaxAppliedScn
  BY <1>16, CheckFrame, <1>0, OutFrame, EffectFrame DEF Submitting, Running
<1>17. ASSUME NEW a \in Appender, AppendStart(a) PROVE EffectInv'
  BY <1>17, <1>0, OutFrame, EffectFrame
     DEF AppendStart, AppTypes, AppType, Submitting, Running
<1>18. ASSUME NEW a \in Appender, AppendRefused(a) PROVE EffectInv'
  BY <1>18, <1>0, OutFrame, EffectFrame DEF AppendRefused, IdleApp, Submitting, Running
<1>19. ASSUME NEW a \in Appender, AppendToPalf(a) PROVE EffectInv'
  <2>1. PICK new : new = [lsn |-> Len(plog) + 1, id |-> next_id]
    OBVIOUS
  <2>2. OutCb' = OutCb \union {new} /\ new.id = next_id
    BY <1>19, <2>1, OutAppend
  <2>3. WriteLog /\ UNCHANGED <<ap_pid, ap_end, rp_end, ok, failed, replayed>>
    BY <1>19 DEF AppendToPalf, palf_append
  <2>4. palf_pid >= ap_pid
    BY <1>19, AppendIsCurrent DEF PalfTypes
  <2> QED
    BY <2>2, <2>3, <2>4, EffectWrite
<1>20. ASSUME NEW a \in Appender, NEW q \in Queue, CountSubmit(a, q) PROVE EffectInv'
  BY <1>20, <1>0, OutFrame, EffectFrame
     DEF CountSubmit, AppTypes, AppType, Submitting, Running
<1>21. ASSUME NEW a \in Appender, PushCb(a) PROVE EffectInv'
  <2>1. OutCb' = OutCb
    BY <1>21, OutPush DEF PushCb
  <2> QED
    BY <1>0, <1>21, <2>1, EffectFrame DEF PushCb
<1>22. ASSUME NEW a \in Appender, WakeQueue(a) PROVE EffectInv'
  BY <1>22, <1>0, OutFrame, EffectFrame
     DEF WakeQueue, LeaveCritical, IdleApp, submit_task_to_apply_service_,
       acquire_lease, Submitting, Running
<1>23. CASE Replay
  BY <1>23, ReplayFrame, EffectReplay
<1>24. CASE RcEvent
  BY <1>24, <1>0, OutFrame, EffectFrame
     DEF RcEvent, need_execute_role_change, PalfRole, IdleRc, Submitting, Running
<1>25. CASE RcAppendSync
  BY <1>25, <1>0, OutFrame, EffectFrame DEF RcAppendSync, RcGoto, Submitting, Running
<1>26. CASE RcApplyFollower
  BY <1>26, <1>0, OutFrame, EffectFrame
     DEF RcApplyFollower, RcGoto, apply_switch_to_follower,
       submit_task_to_apply_service_, acquire_lease, Submitting, Running
<1>27. CASE RcApplyDone
  BY <1>27, <1>0, OutFrame, EffectFrame DEF RcApplyDone, Submitting, Running
<1>28. CASE RcFollower
  BY <1>28, <1>0, OutFrame, EffectFrame DEF RcFollower, IdleRc, Submitting, Running
<1>29. CASE RcReplayFollower
  BY <1>29, EffectHandOver
<1>30. CASE RcEndLsn
  BY <1>30, <1>0, OutFrame, EffectFrame DEF RcEndLsn, Submitting, Running
<1>31. CASE RcReplayDone
  BY <1>31, <1>0, OutFrame, EffectFrame DEF RcReplayDone, RcGoto, Submitting, Running
<1>32. CASE RcReplayTimeout
  BY <1>32, <1>0, OutFrame, EffectFrame DEF RcReplayTimeout, IdleRc, Submitting, Running
<1>33. CASE RcApplyLeader
  <2>1. EffectInv'
    BY <1>33, EffectNewTerm
  <2> QED
    BY <2>1
<1>34. CASE RcReplayLeader
  BY <1>34, <1>0, OutFrame, EffectFrame DEF RcReplayLeader, RcGoto, Submitting, Running
<1>35. CASE RcLeader
  BY <1>35, <1>0, OutFrame, EffectFrame DEF RcLeader, IdleRc, Submitting, Running
<1>36. CASE UNCHANGED vars
  BY <1>36, <1>0, OutFrame, EffectFrame DEF Submitting, Running
<1> QED
  BY <1>1, <1>2, <1>3, <1>4, <1>5, <1>6, <1>7, <1>8, <1>9, <1>10, <1>11, <1>12, <1>13,
     <1>14, <1>15, <1>16, <1>17, <1>18, <1>19, <1>20, <1>21, <1>22, <1>23, <1>24, <1>25,
     <1>26, <1>27, <1>28, <1>29, <1>30, <1>31, <1>32, <1>33, <1>34, <1>35, <1>36
     DEF Next, PalfMoves, Slide, HandlerStep, AppendStep, RcStep

-------------------------------------------------------------------------------
(* get_max_applied_scn                                                     *)

LEMMA CoversFrame ==
  ASSUME NEW scn, Covers(scn), UNCHANGED <<plog, ap_pid>>, OutCb \subseteq OutCb'
  PROVE  Covers(scn)'
  BY DEF Covers

LEMMA CoversWrite ==
  ASSUME PalfTypes, QueueTypes, TaskTypes, AppTypes, CbInv, NEW scn \in Nat, Covers(scn),
         WriteLog, UNCHANGED ap_pid, OutCb \subseteq OutCb'
  PROVE  Covers(scn)'
<1>1. /\ Len(plog) \in Nat /\ Len(plog') = Len(plog) + 1 /\ next_id \in Nat
      /\ plog'[Len(plog) + 1].id = next_id /\ \A i \in 1 .. Len(plog) : plog'[i] = plog[i]
  BY WriteLogGrows, LogTyped DEF PalfTypes
<1>2. CASE scn <= Len(plog) /\ \A i \in 1 .. scn : plog[i].pid <= ap_pid
  <2>1. scn <= Len(plog') /\ \A i \in 1 .. scn : plog'[i].pid <= ap_pid
    BY <1>1, <1>2
  <2> QED
    BY <2>1 DEF Covers
<1>3. ASSUME NEW c \in OutCb, c.lsn <= scn, \A i \in 1 .. Len(plog) : plog[i].id # c.id
      PROVE  Covers(scn)'
  <2>1. c.id < next_id /\ c.id \in Nat
    BY OutTyped DEF CbInv, CbSound
  <2>2. \A i \in 1 .. Len(plog') : plog'[i].id # c.id
    <3> SUFFICES ASSUME NEW i \in 1 .. Len(plog') PROVE plog'[i].id # c.id
      OBVIOUS
    <3>1. CASE i \in 1 .. Len(plog)
      BY <1>1, <1>3, <3>1
    <3>2. CASE i = Len(plog) + 1
      BY <1>1, <2>1, <3>2
    <3> QED
      BY <1>1, <3>1, <3>2
  <2> QED
    BY <1>3, <2>2 DEF Covers
<1> QED
  BY <1>2, <1>3 DEF Covers

(* A log that was to be applied is cut off: its callback is on its way.    *)
LEMMA CoversTruncate ==
  ASSUME PalfTypes, ApplyTypes, QueueTypes, TaskTypes, AppTypes, ReplayTypes, PalfInv, EndInv,
         EffectInv, CbInv, NEW scn \in Nat, Covers(scn), truncate(CommittedEnd),
         UNCHANGED ap_pid, OutCb' = OutCb
  PROVE  Covers(scn)'
<1>1. PICK n \in Nat : /\ CommittedEnd <= n /\ n < Len(plog) /\ Len(plog') = n
                       /\ \A i \in 1 .. n : plog'[i] = plog[i]
  BY TruncateCuts DEF PalfTypes
<1>2. ap_end <= n /\ slid <= n /\ Len(plog) \in Nat /\ ap_end \in Nat /\ slid \in Nat
      /\ ap_pid \in Nat
  BY <1>1, EndBounds DEF PalfTypes, ApplyTypes
<1>3. \A i \in 1 .. Len(plog') : i \in 1 .. Len(plog) /\ i <= n /\ plog'[i] = plog[i]
  BY <1>1, <1>2
<1>4. ASSUME NEW c \in OutCb, c.lsn <= scn, \A i \in 1 .. Len(plog) : plog[i].id # c.id
      PROVE  Covers(scn)'
  BY <1>3, <1>4 DEF Covers
<1>5. CASE scn <= n /\ \A i \in 1 .. scn : plog[i].pid <= ap_pid
  <2>1. scn <= Len(plog') /\ \A i \in 1 .. scn : plog'[i].pid <= ap_pid
    BY <1>1, <1>2, <1>5
  <2> QED
    BY <2>1 DEF Covers
<1>6. CASE scn > n /\ scn <= Len(plog) /\ \A i \in 1 .. scn : plog[i].pid <= ap_pid
  <2>1. scn \in 1 .. Len(plog) /\ plog[scn].pid <= ap_pid
    BY <1>1, <1>2, <1>6
  <2>2. LogDone(scn) /\ plog[scn].pid \in Nat
    BY <2>1, LogTyped DEF EffectInv
  <2>3. plog[scn].pid = ap_pid
    BY <1>2, <1>6, <2>1, <2>2 DEF LogDone
  <2>4. plog[scn].id \notin ok
    <3> SUFFICES ASSUME plog[scn].id \in ok PROVE FALSE
      OBVIOUS
    <3>1. PICK i \in 1 .. ap_end : plog[i].id = plog[scn].id
      BY DEF EffectInv
    <3>2. i \in 1 .. Len(plog)
      BY <1>1, <1>2
    <3>3. i = scn
      BY <2>1, <3>1, <3>2, IdUnique
    <3> QED
      BY <1>2, <1>6, <3>3
  <2>5. PICK c \in OutCb : c.id = plog[scn].id
    BY <2>2, <2>3, <2>4 DEF LogDone
  <2>6. InLog(c) /\ c.lsn \in Nat
    BY <2>1, <2>5, OutTyped DEF CbInv, CbSound, CutOff
  <2>7. c.lsn = scn
    BY <2>1, <2>5, <2>6, IdUnique DEF InLog
  <2>8. \A i \in 1 .. Len(plog') : plog'[i].id # c.id
    BY <1>3, <1>6, <2>1, <2>5, IdUnique
  <2> QED
    BY <2>7, <2>8 DEF Covers
<1> QED
  BY <1>1, <1>2, <1>4, <1>5, <1>6 DEF Covers

(* That callback cannot be answered while the apply service leads.         *)
LEMMA CoversRun ==
  ASSUME PalfTypes, ApplyTypes, TaskTypes, TermInv, EndInv, CbInv, PlaceInv, NEW scn,
         Covers(scn), ap_role = "LEADER", NEW h \in Handler, RunCb(h),
         UNCHANGED <<palfVars, app>>
  PROVE  Covers(scn)'
<1>1. Running(h) /\ UNCHANGED ap_pid
  BY DEF RunCb, Running
<1>2. hd[h].ok /\ OutCb' = OutCb \ {hd[h].cb}
  BY <1>1, FailureIsCutOff, OutRun
<1>3. InLog(hd[h].cb)
  BY <1>1, <1>2, SuccessIsSlid
<1>4. ASSUME NEW c \in OutCb, \A i \in 1 .. Len(plog) : plog[i].id # c.id
      PROVE  c \in OutCb'
  BY <1>2, <1>3, <1>4 DEF InLog
<1> QED
  BY <1>1, <1>4 DEF Covers

(* In the term of the snapshot the logs it covers are all there.           *)
LEMMA CoversCurrent ==
  ASSUME PalfTypes, ApplyTypes, CbInv, NEW scn, Covers(scn), palf_pid = ap_pid
  PROVE  scn <= Len(plog)
<1>1. ~\E c \in OutCb : \A i \in 1 .. Len(plog) : plog[i].id # c.id
  <2> SUFFICES ASSUME NEW c \in OutCb, \A i \in 1 .. Len(plog) : plog[i].id # c.id PROVE FALSE
    OBVIOUS
  <2>1. CbSound(c)
    BY DEF CbInv
  <2> QED
    BY <2>1 DEF CbSound, InLog, CutOff, PalfTypes
<1> QED
  BY <1>1 DEF Covers

(* A snapshot stays covered as long as the apply service leads.            *)
LEMMA CoversStep ==
  ASSUME PalfTypes, ApplyTypes, QueueTypes, TaskTypes, AppTypes, ReplayTypes, RcTypes,
         PalfInv, RoleInv, PidInv, TermInv, EndInv, EffectInv, CbInv, PlaceInv, TaskInv,
         NEW scn \in Nat, Covers(scn), ap_role = "LEADER", [Next]_vars
  PROVE  Covers(scn)'
<1>1. CASE PalfBecomesFollower
  BY <1>1, OutFrame, CoversFrame
     DEF PalfBecomesFollower, pending_to_follower_active_, Submitting, Running
<1>2. CASE PalfBecomesLeader
  BY <1>2, OutFrame, CoversFrame
     DEF PalfBecomesLeader, reconfirm_to_leader_active_, Submitting, Running
<1>3. ASSUME leader_active_to_follower_pending_, UNCHANGED <<palfFrame, rc_set>>
      PROVE Covers(scn)'
  BY <1>3, OutFrame, CoversFrame DEF leader_active_to_follower_pending_, Submitting, Running
<1>4. ASSUME handle_prepare_request, UNCHANGED <<palfFrame, rc_set>> PROVE Covers(scn)'
  BY <1>4, OutFrame, CoversFrame DEF handle_prepare_request, Submitting, Running
<1>5. ASSUME receive_log, UNCHANGED <<palfFrame, rc_set>> PROVE Covers(scn)'
  <2>1. OutCb' = OutCb
    BY <1>5, OutFrame DEF Submitting, Running
  <2> QED
    BY <1>5, <2>1, CoversWrite DEF receive_log
<1>6. ASSUME truncate(CommittedEnd), UNCHANGED <<palfFrame, rc_set>> PROVE Covers(scn)'
  <2>1. OutCb' = OutCb
    BY <1>6, OutFrame DEF Submitting, Running
  <2> QED
    BY <1>6, <2>1, CoversTruncate
<1>7. CASE Slide
  BY <1>7, SlideFrame, OutFrame, CoversFrame DEF Submitting, Running
<1>8. ASSUME NEW h \in Handler, NEW t \in Task, TakeTask(h, t), UNCHANGED <<palfVars, above>>
      PROVE Covers(scn)'
  BY <1>8, OutFrame, CoversFrame DEF TakeTask, IdleHandler, Submitting, Running
<1>9. ASSUME NEW h \in Handler, NEW q \in Queue, SubmitQueue(h, q), UNCHANGED <<palfVars, above>>
      PROVE Covers(scn)'
  BY <1>9, OutFrame, CoversFrame
     DEF SubmitQueue, submit_task_to_apply_service_, acquire_lease, Submitting, Running
<1>10. ASSUME NEW h \in Handler, PopCb(h), UNCHANGED <<palfVars, above>>
      PROVE Covers(scn)'
  <2>1. OutCb' = OutCb
    BY <1>10, OutPop
  <2> QED
    BY <1>10, <2>1, CoversFrame DEF PopCb
<1>11. ASSUME NEW h \in Handler, RunCb(h), UNCHANGED <<palfVars, above>>
      PROVE Covers(scn)'
  BY <1>11, CoversRun
<1>12. ASSUME NEW h \in Handler, FinishTask(h), UNCHANGED <<palfVars, above>>
      PROVE Covers(scn)'
  BY <1>12, OutFrame, CoversFrame DEF FinishTask, Succeeds, Submitting, Running
<1>13. ASSUME NEW h \in Handler, revoke_lease(h), UNCHANGED <<palfVars, above>>
      PROVE Covers(scn)'
  BY <1>13, OutFrame, CoversFrame DEF revoke_lease, IdleHandler, Submitting, Running
<1>14. CASE GetMaxAppliedScn
  BY <1>14, CheckFrame, OutFrame, CoversFrame DEF Submitting, Running
<1>15. ASSUME NEW a \in Appender, AppendStart(a) PROVE Covers(scn)'
  BY <1>15, OutFrame, CoversFrame DEF AppendStart, AppTypes, AppType, Submitting, Running
<1>16. ASSUME NEW a \in Appender, AppendRefused(a) PROVE Covers(scn)'
  BY <1>16, OutFrame, CoversFrame DEF AppendRefused, IdleApp, Submitting, Running
<1>17. ASSUME NEW a \in Appender, AppendToPalf(a) PROVE Covers(scn)'
  <2>1. OutCb \subseteq OutCb'
    BY <1>17, OutAppend
  <2> QED
    BY <1>17, <2>1, CoversWrite DEF AppendToPalf, palf_append
<1>18. ASSUME NEW a \in Appender, NEW q \in Queue, CountSubmit(a, q) PROVE Covers(scn)'
  BY <1>18, OutFrame, CoversFrame DEF CountSubmit, AppTypes, AppType, Submitting, Running
<1>19. ASSUME NEW a \in Appender, PushCb(a) PROVE Covers(scn)'
  <2>1. OutCb' = OutCb
    BY <1>19, OutPush DEF PushCb
  <2> QED
    BY <1>19, <2>1, CoversFrame DEF PushCb
<1>20. ASSUME NEW a \in Appender, WakeQueue(a) PROVE Covers(scn)'
  BY <1>20, OutFrame, CoversFrame
     DEF WakeQueue, LeaveCritical, IdleApp, submit_task_to_apply_service_,
       acquire_lease, Submitting, Running
<1>21. CASE Replay
  BY <1>21, ReplayFrame, OutFrame, CoversFrame DEF Submitting, Running
<1>22. CASE RcEvent
  BY <1>22, OutFrame, CoversFrame
     DEF RcEvent, need_execute_role_change, PalfRole, IdleRc, Submitting, Running
<1>23. CASE RcAppendSync
  BY <1>23, OutFrame, CoversFrame DEF RcAppendSync, RcGoto, Submitting, Running
<1>24. CASE RcApplyFollower
  BY <1>24, OutFrame, CoversFrame
     DEF RcApplyFollower, RcGoto, apply_switch_to_follower,
       submit_task_to_apply_service_, acquire_lease, Submitting, Running
<1>25. CASE RcApplyDone
  BY <1>25, OutFrame, CoversFrame DEF RcApplyDone, Submitting, Running
<1>26. CASE RcFollower
  BY <1>26, OutFrame, CoversFrame DEF RcFollower, IdleRc, Submitting, Running
<1>27. CASE RcReplayFollower
  BY <1>27, OutFrame, CoversFrame DEF RcReplayFollower, IdleRc, Submitting, Running
<1>28. CASE RcEndLsn
  BY <1>28, OutFrame, CoversFrame DEF RcEndLsn, Submitting, Running
<1>29. CASE RcReplayDone
  BY <1>29, OutFrame, CoversFrame DEF RcReplayDone, RcGoto, Submitting, Running
<1>30. CASE RcReplayTimeout
  BY <1>30, OutFrame, CoversFrame DEF RcReplayTimeout, IdleRc, Submitting, Running
<1>31. CASE RcApplyLeader
  BY <1>31 DEF RcApplyLeader, RoleInv, RolesAt
<1>32. CASE RcReplayLeader
  BY <1>32, OutFrame, CoversFrame DEF RcReplayLeader, RcGoto, Submitting, Running
<1>33. CASE RcLeader
  BY <1>33, OutFrame, CoversFrame DEF RcLeader, IdleRc, Submitting, Running
<1>34. CASE UNCHANGED vars
  BY <1>34, OutFrame, CoversFrame DEF Submitting, Running
<1> QED
  BY <1>1, <1>2, <1>3, <1>4, <1>5, <1>6, <1>7, <1>8, <1>9, <1>10, <1>11, <1>12, <1>13,
     <1>14, <1>15, <1>16, <1>17, <1>18, <1>19, <1>20, <1>21, <1>22, <1>23, <1>24, <1>25,
     <1>26, <1>27, <1>28, <1>29, <1>30, <1>31, <1>32, <1>33, <1>34
     DEF Next, PalfMoves, HandlerStep, AppendStep, RcStep

LEMMA CountedFrame ==
  ASSUME NEW scn, CountedUpTo(scn), UNCHANGED <<queue, total_apply, last_check_cnt>>,
         \A a \in Appender : Submitting(a)' => Submitting(a),
         \A a \in Appender : Submitting(a)' => app'[a].cb = app[a].cb,
         \A h \in Handler : Running(h)' = Running(h),
         \A h \in Handler : Running(h) => hd'[h].cb = hd[h].cb /\ hd'[h].task = hd[h].task
  PROVE  CountedUpTo(scn)'
<1>1. ASSUME NEW q \in Queue PROVE Popped(q)' = Popped(q)
  <2>1. Busy(q)' = Busy(q)
    BY DEF Busy
  <2> QED
    BY <2>1 DEF Popped
<1> QED
  BY <1>1 DEF CountedUpTo

LEMMA CountedPush ==
  ASSUME QueueTypes, TaskTypes, AppTypes, TaskInv, CountInv, NEW scn \in Nat, CountedUpTo(scn),
         NEW a \in Appender, PushCb(a)
  PROVE  CountedUpTo(scn)'
<1>1. PICK q : q = app[a].q
  OBVIOUS
<1>2. /\ q \in Queue /\ Submitting(a) /\ ~Submitting(a)'
      /\ \A b \in Appender \ {a} : app'[b] = app[b] /\ Submitting(b)' = Submitting(b)
      /\ \A r \in Queue \ {q} : queue'[r] = queue[r]
      /\ Len(queue'[q]) = Len(queue[q]) + 1 /\ Len(queue[q]) \in Nat
      /\ queue'[q][Len(queue[q]) + 1] = app[a].cb
      /\ \A i \in 1 .. Len(queue[q]) : queue'[q][i] = queue[q][i]
  BY <1>1, PushMoves DEF Submitting
<1>3. UNCHANGED <<hd, total_apply, last_check_cnt>>
  BY DEF PushCb
<1>4. \A r \in Queue : Popped(r)' = Popped(r)
  BY CountPush
<1>5. app[a].cb.lsn > scn /\ app[a].cb.lsn \in Nat
  <2>1. app[a].cb \in CbType
    BY DEF AppTypes, AppType
  <2> QED
    BY <1>2, <2>1 DEF CountedUpTo, CbType
<1>6. ASSUME NEW r \in Queue, NEW i \in 1 .. Len(queue'[r]), queue'[r][i].lsn <= scn
      PROVE  Popped(r)' + i <= last_check_cnt[r]
  <2>1. i \in 1 .. Len(queue[r]) /\ queue'[r][i] = queue[r][i]
    <3>1. CASE r # q
      BY <1>2, <3>1
    <3>2. CASE r = q /\ i = Len(queue[q]) + 1
      BY <1>2, <1>5, <1>6, <3>2
    <3>3. CASE r = q /\ i # Len(queue[q]) + 1
      BY <1>2, <3>3
    <3> QED
      BY <3>1, <3>2, <3>3
  <2> QED
    BY <1>4, <1>6, <2>1 DEF CountedUpTo
<1>7. \A b \in Appender : Submitting(b)' => app'[b].cb.lsn > scn
  BY <1>2 DEF CountedUpTo
<1>8. \A h \in Handler : Running(h)' /\ hd'[h].cb.lsn <= scn =>
          total_apply'[hd'[h].task] < last_check_cnt'[hd'[h].task]
  BY <1>3 DEF CountedUpTo, Running
<1> QED
  BY <1>3, <1>6, <1>7, <1>8 DEF CountedUpTo

LEMMA CountedPop ==
  ASSUME QueueTypes, TaskTypes, CheckTypes, AppTypes, TaskInv, CountInv, NEW scn \in Nat,
         CountedUpTo(scn), NEW h \in Handler, PopCb(h), UNCHANGED app
  PROVE  CountedUpTo(scn)'
<1>1. PICK t : t = hd[h].task
  OBVIOUS
<1>2. /\ t \in Queue /\ ~Running(h) /\ Running(h)' /\ hd'[h].task = t /\ hd'[h].cb = queue[t][1]
      /\ \A g \in Handler \ {h} : hd'[g] = hd[g] /\ Running(g)' = Running(g)
      /\ \A r \in Queue \ {t} : queue'[r] = queue[r]
      /\ Len(queue[t]) \in Nat /\ Len(queue[t]) > 0 /\ Len(queue'[t]) = Len(queue[t]) - 1
      /\ \A i \in 1 .. Len(queue[t]) - 1 : queue'[t][i] = queue[t][i + 1]
      /\ UNCHANGED total_apply
  BY <1>1, PopMoves DEF Running
<1>3. UNCHANGED last_check_cnt
  BY DEF PopCb
<1>4. \A q \in Queue : Popped(q)' = IF q = t THEN Popped(q) + 1 ELSE Popped(q)
  BY <1>1, CountPop
<1>5. ~Busy(t)
  BY <1>1, <1>2, BusyOne
<1>6. total_apply[t] \in Nat /\ last_check_cnt[t] \in Nat /\ Popped(t) = total_apply[t]
  BY <1>2, <1>5 DEF QueueTypes, CheckTypes, Popped
<1>7. ASSUME NEW r \in Queue, NEW i \in 1 .. Len(queue'[r]), queue'[r][i].lsn <= scn
      PROVE  Popped(r)' + i <= last_check_cnt[r]
  <2>1. CASE r # t
    BY <1>2, <1>4, <1>7, <2>1 DEF CountedUpTo
  <2>2. CASE r = t
    <3>1. i + 1 \in 1 .. Len(queue[t]) /\ queue'[t][i] = queue[t][i + 1]
      BY <1>2, <2>2
    <3>2. Popped(t) + (i + 1) <= last_check_cnt[t]
      BY <1>2, <1>7, <2>2, <3>1 DEF CountedUpTo
    <3> QED
      BY <1>2, <1>4, <1>6, <2>2, <3>1, <3>2
  <2> QED
    BY <2>1, <2>2
<1>8. ASSUME NEW g \in Handler, Running(g)', hd'[g].cb.lsn <= scn
      PROVE  total_apply[hd'[g].task] < last_check_cnt[hd'[g].task]
  <2>1. CASE g = h
    <3>1. 1 \in 1 .. Len(queue[t]) /\ queue[t][1].lsn <= scn
      BY <1>2, <1>8, <2>1
    <3>2. Popped(t) + 1 <= last_check_cnt[t]
      BY <1>2, <3>1 DEF CountedUpTo
    <3> QED
      BY <1>2, <1>6, <2>1, <3>2
  <2>2. CASE g # h
    BY <1>2, <1>8, <2>2 DEF CountedUpTo
  <2> QED
    BY <2>1, <2>2
<1>9. \A a \in Appender : Submitting(a)' => app'[a].cb.lsn > scn
  BY DEF CountedUpTo, Submitting
<1> QED
  BY <1>2, <1>3, <1>7, <1>8, <1>9 DEF CountedUpTo

LEMMA CountedRun ==
  ASSUME QueueTypes, TaskTypes, TaskInv, CountInv, NEW scn \in Nat, CountedUpTo(scn),
         NEW h \in Handler, RunCb(h), UNCHANGED <<app, last_check_cnt>>
  PROVE  CountedUpTo(scn)'
<1>1. /\ ~Running(h)' /\ UNCHANGED queue
      /\ \A g \in Handler \ {h} : hd'[g] = hd[g] /\ Running(g)' = Running(g)
  BY RunCbMoves DEF TaskTypes, Running
<1>2. /\ \A q \in Queue : Popped(q)' = Popped(q)
      /\ \A q \in Queue \ {hd[h].task} : total_apply'[q] = total_apply[q]
      /\ hd[h].task \in Queue
  BY CountRun
<1>3. ASSUME NEW g \in Handler, Running(g)', hd'[g].cb.lsn <= scn
      PROVE  total_apply'[hd'[g].task] < last_check_cnt[hd'[g].task]
  <2>1. g # h /\ Running(g) /\ hd'[g] = hd[g]
    BY <1>1, <1>3
  <2>2. hd[g].task \in Queue \ {hd[h].task}
    BY <1>2, <2>1, ApplyAssumption DEF TaskInv, Running
  <2> QED
    BY <1>2, <1>3, <2>1, <2>2 DEF CountedUpTo
<1>4. \A a \in Appender : Submitting(a)' => app'[a].cb.lsn > scn
  BY DEF CountedUpTo, Submitting
<1>5. \A q \in Queue : \A i \in 1 .. Len(queue'[q]) :
          queue'[q][i].lsn <= scn => Popped(q)' + i <= last_check_cnt[q]
  BY <1>1, <1>2 DEF CountedUpTo
<1> QED
  BY <1>3, <1>4, <1>5 DEF CountedUpTo

(* The callbacks of a snapshot stay counted.                               *)
LEMMA CountedStep ==
  ASSUME CheckTypes, PalfTypes, ApplyTypes, QueueTypes, TaskTypes, AppTypes,
         ReplayTypes, RcTypes, PalfInv, RoleInv, PidInv, TermInv, EndInv, EffectInv,
         CbInv, PlaceInv, TaskInv, CountInv, NEW scn \in Nat, Covers(scn),
         CountedUpTo(scn), UNCHANGED last_check_cnt, [Next]_vars
  PROVE  CountedUpTo(scn)'
<1>1. CASE PalfBecomesFollower \/ PalfBecomesLeader \/ PalfMoves
  BY <1>1, PalfFrame, CountedFrame DEF Submitting, Running
<1>2. CASE Slide
  BY <1>2, SlideFrame, CountedFrame DEF Submitting, Running
<1>3. ASSUME NEW h \in Handler, NEW t \in Task, TakeTask(h, t), UNCHANGED <<palfVars, above>>
      PROVE CountedUpTo(scn)'
  BY <1>3, CountedFrame
     DEF TakeTask, IdleHandler, AppTypes, AppType, TaskTypes, HandlerType, Submitting,
       Running
<1>4. ASSUME NEW h \in Handler, NEW q \in Queue, SubmitQueue(h, q), UNCHANGED <<palfVars, above>>
      PROVE CountedUpTo(scn)'
  BY <1>4, CountedFrame
     DEF SubmitQueue, submit_task_to_apply_service_, acquire_lease, AppTypes, AppType,
       TaskTypes, HandlerType, Submitting, Running
<1>5. ASSUME NEW h \in Handler, PopCb(h), UNCHANGED <<palfVars, above>>
      PROVE CountedUpTo(scn)'
  BY <1>5, CountedPop
<1>6. ASSUME NEW h \in Handler, RunCb(h), UNCHANGED <<palfVars, above>>
      PROVE CountedUpTo(scn)'
  BY <1>6, CountedRun
<1>7. ASSUME NEW h \in Handler, FinishTask(h), UNCHANGED <<palfVars, above>>
      PROVE CountedUpTo(scn)'
  BY <1>7, CountedFrame
     DEF FinishTask, Succeeds, AppTypes, AppType, TaskTypes, HandlerType, Submitting,
       Running
<1>8. ASSUME NEW h \in Handler, revoke_lease(h), UNCHANGED <<palfVars, above>>
      PROVE CountedUpTo(scn)'
  BY <1>8, CountedFrame
     DEF revoke_lease, IdleHandler, AppTypes, AppType, TaskTypes, HandlerType,
       Submitting, Running
<1>9. CASE GetMaxAppliedScn
  BY <1>9, CheckFrame, CountedFrame DEF Submitting, Running
<1>10. ASSUME NEW a \in Appender, AppendStart(a) PROVE CountedUpTo(scn)'
  BY <1>10, CountedFrame
     DEF AppendStart, AppTypes, AppType, TaskTypes, HandlerType, Submitting, Running
<1>11. ASSUME NEW a \in Appender, AppendRefused(a) PROVE CountedUpTo(scn)'
  BY <1>11, CountedFrame
     DEF AppendRefused, IdleApp, AppTypes, AppType, TaskTypes, HandlerType, Submitting,
       Running
<1>12. ASSUME NEW a \in Appender, AppendToPalf(a) PROVE CountedUpTo(scn)'
  <2>1. scn <= Len(plog) /\ Len(plog) \in Nat
    BY <1>12, AppendIsCurrent, CoversCurrent, LogTyped
  <2>2. /\ app'[a].cb.lsn = Len(plog) + 1 /\ UNCHANGED <<queue, total_apply, hd>>
        /\ \A b \in Appender \ {a} : app'[b] = app[b] /\ Submitting(b)' = Submitting(b)
    BY <1>12 DEF AppendToPalf, AppTypes, AppType, Submitting
  <2>3. \A b \in Appender : Submitting(b)' => app'[b].cb.lsn > scn
    BY <2>1, <2>2 DEF CountedUpTo
  <2>4. \A q \in Queue : Popped(q)' = Popped(q)
    BY <2>2 DEF Popped, Busy, Running
  <2> QED
    BY <2>2, <2>3, <2>4 DEF CountedUpTo, Running
<1>13. ASSUME NEW a \in Appender, NEW q \in Queue, CountSubmit(a, q)
      PROVE CountedUpTo(scn)'
  BY <1>13, CountedFrame
     DEF CountSubmit, AppTypes, AppType, TaskTypes, HandlerType, Submitting, Running
<1>14. ASSUME NEW a \in Appender, PushCb(a) PROVE CountedUpTo(scn)'
  BY <1>14, CountedPush
<1>15. ASSUME NEW a \in Appender, WakeQueue(a) PROVE CountedUpTo(scn)'
  BY <1>15, CountedFrame
     DEF WakeQueue, LeaveCritical, IdleApp, submit_task_to_apply_service_,
       acquire_lease, AppTypes, AppType, TaskTypes, HandlerType, Submitting, Running
<1>16. CASE Replay
  BY <1>16, ReplayFrame, CountedFrame DEF Submitting, Running
<1>17. CASE RcStep
  BY <1>17, RcFrame, CountedFrame DEF Submitting, Running
<1>18. CASE UNCHANGED vars
  BY <1>18, CountedFrame DEF Submitting, Running
<1> QED
  BY <1>1, <1>2, <1>3, <1>4, <1>5, <1>6, <1>7, <1>8, <1>9, <1>10, <1>11, <1>12, <1>13,
     <1>14, <1>15, <1>16, <1>17, <1>18 DEF Next, HandlerStep, AppendStep

(* When every callback counted has run, none of the logs is left waiting.  *)
LEMMA SnapshotDone ==
  ASSUME QueueTypes, TaskTypes, CheckTypes, AppTypes, TaskInv, NEW scn \in Nat, CountedUpTo(scn),
         SnapshotApplied, NEW c \in OutCb
  PROVE  c.lsn > scn
<1>1. c.lsn \in Nat
  BY OutTyped
<1>2. ASSUME NEW q \in Queue, NEW i \in 1 .. Len(queue[q]), c = queue[q][i], c.lsn <= scn
      PROVE  FALSE
  <2>1. Popped(q) + i <= last_check_cnt[q] /\ total_apply[q] >= last_check_cnt[q]
    BY <1>2 DEF CountedUpTo, SnapshotApplied
  <2>2. total_apply[q] \in Nat /\ last_check_cnt[q] \in Nat /\ Popped(q) >= total_apply[q]
        /\ Popped(q) \in Nat
    <3>1. total_apply[q] \in Nat /\ last_check_cnt[q] \in Nat
      BY DEF QueueTypes, CheckTypes
    <3> QED
      BY <3>1 DEF Popped
  <2> QED
    BY <2>1, <2>2
<1>3. ASSUME NEW h \in Handler, Running(h), c = hd[h].cb, c.lsn <= scn PROVE FALSE
  <2>1. hd[h].task \in Queue
    BY <1>3 DEF TaskInv, Running
  <2>2. total_apply[hd[h].task] < last_check_cnt[hd[h].task]
        /\ total_apply[hd[h].task] >= last_check_cnt[hd[h].task]
    BY <1>3, <2>1 DEF CountedUpTo, SnapshotApplied
  <2>3. total_apply[hd[h].task] \in Nat /\ last_check_cnt[hd[h].task] \in Nat
    BY <2>1 DEF QueueTypes, CheckTypes
  <2> QED
    BY <2>2, <2>3
<1>4. ASSUME NEW a \in Appender, Submitting(a), c = app[a].cb PROVE c.lsn > scn
  BY <1>4 DEF CountedUpTo
<1>5. c.lsn > scn \/ c.lsn <= scn
  BY <1>1
<1> QED
  BY <1>2, <1>3, <1>4, <1>5, InOut

(* All logs up to the SCN of such a snapshot have slid and are applied.    *)
LEMMA SnapshotSound ==
  ASSUME PalfTypes, ApplyTypes, QueueTypes, TaskTypes, CheckTypes, AppTypes, ReplayTypes,
         PalfInv, EndInv, EffectInv, CbInv, TaskInv, NEW scn \in Nat, Covers(scn),
         CountedUpTo(scn), SnapshotApplied
  PROVE  scn <= CommittedEnd /\ \A i \in 1 .. scn : plog[i].id \in ok \union replayed
<1>1. \A c \in OutCb : ~(c.lsn <= scn) /\ c.lsn \in Nat
  <2> SUFFICES ASSUME NEW c \in OutCb PROVE ~(c.lsn <= scn) /\ c.lsn \in Nat
    OBVIOUS
  <2>1. c.lsn > scn /\ c.lsn \in Nat
    BY SnapshotDone, OutTyped
  <2> QED
    BY <2>1
<1>2. scn <= Len(plog) /\ \A i \in 1 .. scn : plog[i].pid <= ap_pid
  BY <1>1 DEF Covers
<1>3. /\ Len(plog) \in Nat /\ ap_pid \in Nat /\ CommittedEnd \in Nat /\ slid <= CommittedEnd
      /\ ap_end <= CommittedEnd /\ slid \in Nat /\ ap_end \in Nat /\ ap_end <= Len(plog)
  BY EndBounds DEF ApplyTypes, PalfTypes
<1>4. ASSUME NEW i \in 1 .. scn
      PROVE  plog[i].id \in ok \union replayed /\ (i <= slid \/ plog[i].id \in ok)
  <2>1. i \in 1 .. Len(plog) /\ plog[i].pid <= ap_pid
    BY <1>2, <1>3
  <2>2. LogDone(i) /\ plog[i].pid \in Nat
    BY <2>1, LogTyped DEF EffectInv
  <2>3. CASE plog[i].pid < ap_pid
    BY <2>2, <2>3 DEF LogDone
  <2>4. CASE plog[i].pid = ap_pid
    <3>1. ASSUME NEW c \in OutCb, c.id = plog[i].id PROVE FALSE
      <4>1. InLog(c)
        BY <2>1, <3>1 DEF CbInv, CbSound, CutOff
      <4>2. c.lsn = i
        BY <2>1, <3>1, <4>1, IdUnique DEF InLog
      <4> QED
        BY <1>1, <4>2
    <3> QED
      BY <2>2, <2>4, <3>1 DEF LogDone
  <2> QED
    BY <1>3, <2>1, <2>2, <2>3, <2>4
<1>5. scn <= CommittedEnd
  <2>1. CASE scn = 0
    BY <1>3, <2>1
  <2>2. CASE scn > 0 /\ scn <= slid
    BY <1>3, <2>2
  <2>3. CASE scn > 0 /\ ~(scn <= slid)
    <3>1. plog[scn].id \in ok /\ scn \in 1 .. Len(plog)
      BY <1>2, <1>3, <1>4, <2>3
    <3>2. PICK i \in 1 .. ap_end : plog[i].id = plog[scn].id
      BY <3>1 DEF EffectInv
    <3>3. i \in 1 .. Len(plog)
      BY <1>3
    <3>4. i = scn
      BY <3>1, <3>2, <3>3, IdUnique
    <3> QED
      BY <1>3, <3>4
  <2> QED
    BY <1>3, <2>1, <2>2, <2>3
<1> QED
  BY <1>4, <1>5

(* What a caller of get_max_applied_scn gets.                              *)
LEMMA NewMax ==
  ASSUME PalfTypes, ApplyTypes, QueueTypes, TaskTypes, CheckTypes, AppTypes, ReplayTypes,
         PalfInv, EndInv, EffectInv, CbInv, TaskInv, SnapInv, MaxAppliedSound, ReadMaxScn
  PROVE  /\ max_applied_scn' \in Nat /\ max_applied_scn' <= CommittedEnd
         /\ \A i \in 1 .. max_applied_scn' : plog[i].id \in ok \union replayed
         /\ last_check_scn = 0 \/ max_applied_scn' = last_check_scn
         /\ gm'.pc = "role" /\ gm'.scn = Len(plog) /\ UNCHANGED unexpected
<1>1. last_check_scn \in Nat /\ max_applied_scn \in Nat
  BY DEF CheckTypes
<1>2. /\ last_check_scn > max_applied_scn => SnapshotApplied
      /\ max_applied_scn' = IF last_check_scn = 0 THEN max_applied_scn ELSE last_check_scn
      /\ gm'.pc = "role" /\ gm'.scn = Len(plog) /\ UNCHANGED unexpected
  <2>1. ~(last_check_scn # 0 /\ last_check_scn < max_applied_scn)
    BY <1>1 DEF SnapInv, SnapOrder
  <2>2. /\ last_check_scn > max_applied_scn => SnapshotApplied
        /\ max_applied_scn' = IF last_check_scn = 0 THEN max_applied_scn ELSE last_check_scn
        /\ gm' = [gm EXCEPT !.pc = "role", !.scn = Len(plog)] /\ UNCHANGED unexpected
    BY <2>1, Zenon DEF ReadMaxScn
  <2> QED
    BY <2>2 DEF CheckTypes
<1>3. CASE last_check_scn = 0 \/ last_check_scn = max_applied_scn
  BY <1>1, <1>2, <1>3 DEF MaxAppliedSound
<1>4. CASE last_check_scn # 0 /\ last_check_scn # max_applied_scn
  <2>1. last_check_scn > max_applied_scn
    BY <1>1, <1>4 DEF SnapInv, SnapOrder
  <2>2. PICK scn \in Nat : scn = last_check_scn
    BY <1>1
  <2>3. Covers(scn) /\ CountedUpTo(scn)
    BY <1>4, <2>2 DEF SnapInv, Snapped
  <2>4. scn <= CommittedEnd /\ \A i \in 1 .. scn : plog[i].id \in ok \union replayed
    BY <1>2, <2>1, <2>3, SnapshotSound
  <2> QED
    BY <1>2, <1>4, <2>2, <2>4
<1> QED
  BY <1>3, <1>4

LEMMA MaxFrame ==
  ASSUME MaxAppliedSound, max_applied_scn \in Nat, CommittedEnd \in Nat, CommittedEnd' \in Nat,
         UNCHANGED max_applied_scn, CommittedEnd <= CommittedEnd',
         ok \subseteq ok', replayed \subseteq replayed',
         \A i \in 1 .. CommittedEnd : plog'[i] = plog[i]
  PROVE  MaxAppliedSound'
<1>1. max_applied_scn <= CommittedEnd'
  BY DEF MaxAppliedSound
<1>2. \A i \in 1 .. max_applied_scn : plog'[i].id \in ok' \union replayed'
  <2>1. \A i \in 1 .. max_applied_scn : i \in 1 .. CommittedEnd
    BY DEF MaxAppliedSound
  <2> QED
    BY <2>1 DEF MaxAppliedSound
<1> QED
  BY <1>1, <1>2 DEF MaxAppliedSound

(* What get_max_applied_scn has answered stays true, and so is the next.    *)
LEMMA MaxAppliedStep ==
  ASSUME CheckTypes, PalfTypes, ApplyTypes, QueueTypes, TaskTypes, AppTypes,
         ReplayTypes, RcTypes, PalfInv, RoleInv, PidInv, TermInv, EndInv, EffectInv,
         CbInv, PlaceInv, TaskInv, CountInv, SnapInv, MaxAppliedSound, [Next]_vars
  PROVE  MaxAppliedSound'
<1>0. /\ CommittedEnd \in Nat /\ max_applied_scn \in Nat /\ slid \in Nat /\ Len(plog) \in Nat
      /\ CommittedEnd <= Len(plog) /\ ap_end <= CommittedEnd
  BY EndBounds DEF CheckTypes, PalfTypes
<1>1. CASE PalfBecomesFollower
  BY <1>1, <1>0, MaxFrame DEF PalfBecomesFollower, pending_to_follower_active_, CommittedEnd
<1>2. CASE PalfBecomesLeader
  BY <1>2, <1>0, MaxFrame DEF PalfBecomesLeader, reconfirm_to_leader_active_, CommittedEnd
<1>3. ASSUME leader_active_to_follower_pending_, UNCHANGED <<palfFrame, rc_set>>
      PROVE MaxAppliedSound'
  BY <1>3, <1>0, MaxFrame DEF leader_active_to_follower_pending_, CommittedEnd
<1>4. ASSUME handle_prepare_request, UNCHANGED <<palfFrame, rc_set>>
      PROVE MaxAppliedSound'
  BY <1>4, <1>0, MaxFrame DEF handle_prepare_request, CommittedEnd
<1>5. ASSUME receive_log, UNCHANGED <<palfFrame, rc_set>> PROVE MaxAppliedSound'
  <2>1. \A i \in 1 .. Len(plog) : plog'[i] = plog[i]
    BY <1>5, WriteLogGrows DEF receive_log, PalfTypes
  <2>2. CommittedEnd' = CommittedEnd
    BY <1>5 DEF receive_log, WriteLog, CommittedEnd
  <2> QED
    BY <1>0, <1>5, <2>1, <2>2, MaxFrame
<1>6. ASSUME truncate(CommittedEnd), UNCHANGED <<palfFrame, rc_set>>
      PROVE MaxAppliedSound'
  <2>1. PICK n \in Nat : CommittedEnd <= n /\ \A i \in 1 .. n : plog'[i] = plog[i]
    BY <1>6, TruncateCuts DEF PalfTypes
  <2>2. CommittedEnd' = CommittedEnd
    BY <1>6 DEF truncate, CommittedEnd
  <2> QED
    BY <1>0, <1>6, <2>1, <2>2, MaxFrame
<1>7. ASSUME UpdateEnd, UNCHANGED above PROVE MaxAppliedSound'
  BY <1>7, <1>0, MaxFrame DEF UpdateEnd, SlideLog, SlidingLog, Unexpected, CommittedEnd
<1>8. ASSUME SubmitAfterUpdateEnd, UNCHANGED above PROVE MaxAppliedSound'
  BY <1>8, <1>0, MaxFrame
     DEF SubmitAfterUpdateEnd, SlideLog, submit_task_to_apply_service_, acquire_lease,
       CommittedEnd
<1>9. ASSUME SkipUpdateEnd, UNCHANGED above PROVE MaxAppliedSound'
  BY <1>9, <1>0, MaxFrame DEF SkipUpdateEnd, SlideLog, SlidingLog, Unexpected, CommittedEnd
<1>10. ASSUME NEW h \in Handler, NEW t \in Task, TakeTask(h, t), UNCHANGED <<palfVars, above>>
      PROVE MaxAppliedSound'
  BY <1>10, <1>0, MaxFrame DEF TakeTask, IdleHandler, CommittedEnd
<1>11. ASSUME NEW h \in Handler, NEW q \in Queue, SubmitQueue(h, q), UNCHANGED <<palfVars, above>>
      PROVE MaxAppliedSound'
  BY <1>11, <1>0, MaxFrame
     DEF SubmitQueue, submit_task_to_apply_service_, acquire_lease, CommittedEnd
<1>12. ASSUME NEW h \in Handler, PopCb(h), UNCHANGED <<palfVars, above>>
      PROVE MaxAppliedSound'
  BY <1>12, <1>0, MaxFrame DEF PopCb, Succeeds, CommittedEnd
<1>13. ASSUME NEW h \in Handler, RunCb(h), UNCHANGED <<palfVars, above>>
      PROVE MaxAppliedSound'
  <2>1. ok \subseteq ok' /\ UNCHANGED <<fs, max_applied_scn>>
    BY <1>13 DEF RunCb
  <2>2. CommittedEnd' = CommittedEnd
    BY <1>13, <2>1 DEF CommittedEnd
  <2> QED
    BY <1>0, <1>13, <2>1, <2>2, MaxFrame
<1>14. ASSUME NEW h \in Handler, FinishTask(h), UNCHANGED <<palfVars, above>>
      PROVE MaxAppliedSound'
  BY <1>14, <1>0, MaxFrame DEF FinishTask, Succeeds, CommittedEnd
<1>15. ASSUME NEW h \in Handler, revoke_lease(h), UNCHANGED <<palfVars, above>>
      PROVE MaxAppliedSound'
  BY <1>15, <1>0, MaxFrame DEF revoke_lease, IdleHandler, CommittedEnd
<1>16. ASSUME MaxAppliedOfFollower, UNCHANGED above PROVE MaxAppliedSound'
  <2>1. OutCb = {}
    BY <1>16, AllDone DEF MaxAppliedOfFollower
  <2>2. /\ max_applied_scn' = ap_end /\ UNCHANGED <<plog, ok, replayed>>
        /\ CommittedEnd' = CommittedEnd
    BY <1>16 DEF MaxAppliedOfFollower, CommittedEnd
  <2>3. ASSUME NEW i \in 1 .. ap_end PROVE plog[i].id \in ok \union replayed
    <3>1. i \in 1 .. Len(plog) /\ plog[i].pid <= ap_pid
      BY EndBounds DEF EndInv
    <3>2. LogDone(i) /\ plog[i].pid \in Nat /\ ap_pid \in Nat
      BY <3>1, LogTyped DEF EffectInv, ApplyTypes
    <3>3. plog[i].pid < ap_pid \/ plog[i].pid = ap_pid
      BY <3>1, <3>2
    <3> QED
      BY <2>1, <3>2, <3>3 DEF LogDone
  <2> QED
    BY <1>0, <2>2, <2>3 DEF MaxAppliedSound
<1>17. ASSUME ReadMaxScn, UNCHANGED above PROVE MaxAppliedSound'
  <2>1. UNCHANGED <<plog, ok, replayed>> /\ CommittedEnd' = CommittedEnd
    BY <1>17 DEF ReadMaxScn, CommittedEnd
  <2> QED
    BY <1>17, <2>1, NewMax DEF MaxAppliedSound
<1>18. ASSUME ReadPalfRole(Critical), UNCHANGED above PROVE MaxAppliedSound'
  BY <1>18, <1>0, MaxFrame DEF ReadPalfRole, IdleCheck, Unexpected, CommittedEnd
<1>19. ASSUME TakeSnapshot, UNCHANGED above PROVE MaxAppliedSound'
  BY <1>19, <1>0, MaxFrame DEF TakeSnapshot, IdleCheck, CommittedEnd
<1>20. ASSUME NEW a \in Appender, AppendStart(a) PROVE MaxAppliedSound'
  BY <1>20, <1>0, MaxFrame DEF AppendStart, CommittedEnd
<1>21. ASSUME NEW a \in Appender, AppendRefused(a) PROVE MaxAppliedSound'
  BY <1>21, <1>0, MaxFrame DEF AppendRefused, IdleApp, CommittedEnd
<1>22. ASSUME NEW a \in Appender, AppendToPalf(a) PROVE MaxAppliedSound'
  <2>1. \A i \in 1 .. Len(plog) : plog'[i] = plog[i]
    BY <1>22, WriteLogGrows DEF AppendToPalf, palf_append, PalfTypes
  <2>2. CommittedEnd' = CommittedEnd
    BY <1>22 DEF AppendToPalf, palf_append, WriteLog, CommittedEnd
  <2> QED
    BY <1>0, <1>22, <2>1, <2>2, MaxFrame DEF AppendToPalf
<1>23. ASSUME NEW a \in Appender, NEW q \in Queue, CountSubmit(a, q)
      PROVE MaxAppliedSound'
  BY <1>23, <1>0, MaxFrame DEF CountSubmit, CommittedEnd
<1>24. ASSUME NEW a \in Appender, PushCb(a) PROVE MaxAppliedSound'
  BY <1>24, <1>0, MaxFrame DEF PushCb, CommittedEnd
<1>25. ASSUME NEW a \in Appender, WakeQueue(a) PROVE MaxAppliedSound'
  BY <1>25, <1>0, MaxFrame
     DEF WakeQueue, LeaveCritical, IdleApp, submit_task_to_apply_service_,
       acquire_lease, CommittedEnd
<1>26. CASE Replay
  BY <1>26, ReplayFrame, <1>0, MaxFrame DEF CommittedEnd, Replay
<1>27. CASE RcStep
  BY <1>27, RcFrame, <1>0, MaxFrame DEF CommittedEnd
<1>28. CASE UNCHANGED vars
  BY <1>28, <1>0, MaxFrame DEF CommittedEnd
<1> QED
  BY <1>1, <1>2, <1>3, <1>4, <1>5, <1>6, <1>7, <1>8, <1>9, <1>10, <1>11, <1>12, <1>13,
     <1>14, <1>15, <1>16, <1>17, <1>18, <1>19, <1>20, <1>21, <1>22, <1>23, <1>24, <1>25,
     <1>26, <1>27, <1>28
     DEF Next, PalfMoves, Slide, HandlerStep, GetMaxAppliedScn, AppendStep

LEMMA RoleRead ==
  ASSUME CheckTypes, ReadPalfRole(Critical)
  PROVE  /\ gm.pc = "role" /\ UNCHANGED <<palfVars, checkFrame, last_check_scn>>
         /\ \/ gm'.pc = "idle"
            \/ /\ gm'.pc = "sync" /\ gm'.scn = gm.scn /\ gm'.wait = Critical
               /\ can_append(ap_pid)
<1>1. /\ gm.pc = "role" /\ UNCHANGED <<palfVars, checkFrame, last_check_scn>>
      /\ \/ gm' = IdleCheck
         \/ gm' = [gm EXCEPT !.pc = "sync", !.wait = Critical] /\ can_append(ap_pid)
  BY Zenon DEF ReadPalfRole
<1>2. CASE gm' = IdleCheck
  BY <1>1, <1>2 DEF IdleCheck
<1>3. CASE gm' = [gm EXCEPT !.pc = "sync", !.wait = Critical] /\ can_append(ap_pid)
  BY <1>1, <1>3 DEF CheckTypes
<1> QED
  BY <1>1, <1>2, <1>3

(* The SCNs that get_max_applied_scn compares stay in order.               *)
LEMMA SnapOrderStep ==
  ASSUME CheckTypes, PalfTypes, ApplyTypes, QueueTypes, TaskTypes, AppTypes,
         ReplayTypes, RcTypes, PalfInv, RoleInv, PidInv, TermInv, EndInv, EffectInv,
         CbInv, PlaceInv, TaskInv, CountInv, SnapInv, MaxAppliedSound, [Next]_vars
  PROVE  SnapOrder'
<1>0. /\ SnapOrder /\ last_check_scn \in Nat /\ max_applied_scn \in Nat /\ palf_pid \in Nat
      /\ ap_pid \in Nat /\ ap_pid <= own_pid /\ own_pid <= palf_pid /\ own_pid \in Nat
      /\ Len(plog) \in Nat /\ gm.scn \in Nat
  BY LogTyped DEF SnapInv, SnapOrder, CheckTypes, PalfTypes, ApplyTypes, PidInv, PalfInv
<1>1. CASE PalfBecomesFollower
  BY <1>1, <1>0 DEF PalfBecomesFollower, pending_to_follower_active_, SnapOrder
<1>2. CASE PalfBecomesLeader
  BY <1>2, <1>0 DEF PalfBecomesLeader, reconfirm_to_leader_active_, SnapOrder
<1>3. ASSUME leader_active_to_follower_pending_, UNCHANGED <<palfFrame, rc_set>>
      PROVE SnapOrder'
  BY <1>3, <1>0 DEF leader_active_to_follower_pending_, SnapOrder
<1>4. ASSUME handle_prepare_request, UNCHANGED <<palfFrame, rc_set>> PROVE SnapOrder'
  BY <1>4, <1>0 DEF handle_prepare_request, SnapOrder
<1>5. ASSUME receive_log, UNCHANGED <<palfFrame, rc_set>> PROVE SnapOrder'
  <2>1. Len(plog') = Len(plog) + 1 /\ UNCHANGED palf_pid
    BY <1>5, WriteLogGrows DEF receive_log, WriteLog, PalfTypes
  <2> QED
    BY <1>0, <1>5, <2>1 DEF SnapOrder
<1>6. ASSUME truncate(CommittedEnd), UNCHANGED <<palfFrame, rc_set>> PROVE SnapOrder'
  <2>1. palf_pid > own_pid /\ UNCHANGED palf_pid
    BY <1>6 DEF truncate, OtherLeads
  <2> QED
    BY <1>0, <1>6, <2>1 DEF SnapOrder
<1>7. CASE Slide
  BY <1>7, SlideFrame, <1>0 DEF SnapOrder
<1>8. ASSUME NEW h \in Handler, HandlerStep(h) PROVE SnapOrder'
  BY <1>8, HandlerFrame, <1>0 DEF SnapOrder
<1>9. ASSUME MaxAppliedOfFollower, UNCHANGED above PROVE SnapOrder'
  BY <1>0, <1>9 DEF MaxAppliedOfFollower, SnapOrder
<1>10. ASSUME ReadMaxScn, UNCHANGED above PROVE SnapOrder'
  <2>1. /\ max_applied_scn' \in Nat /\ max_applied_scn' <= CommittedEnd /\ gm'.scn = Len(plog)
        /\ last_check_scn = 0 \/ max_applied_scn' = last_check_scn
    BY <1>10, NewMax
  <2>2. UNCHANGED <<plog, palf_pid, ap_role, ap_pid, last_check_scn>>
    BY <1>10 DEF ReadMaxScn
  <2>3. CommittedEnd <= Len(plog) /\ CommittedEnd \in Nat
    BY EndBounds
  <2> QED
    BY <1>0, <2>1, <2>2, <2>3 DEF SnapOrder
<1>11. ASSUME ReadPalfRole(Critical), UNCHANGED above PROVE SnapOrder'
  <2>1. gm.pc = "role" /\ (gm'.pc = "idle" \/ (gm'.pc = "sync" /\ gm'.scn = gm.scn))
    BY <1>11, RoleRead
  <2> QED
    BY <1>0, <1>11, <2>1 DEF ReadPalfRole, SnapOrder
<1>12. ASSUME TakeSnapshot, UNCHANGED above PROVE SnapOrder'
  <2>1. ap_role = "LEADER" /\ gm.pc = "sync"
    BY <1>12 DEF TakeSnapshot, RoleInv
  <2> QED
    BY <1>0, <1>12, <2>1 DEF TakeSnapshot, IdleCheck, SnapOrder
<1>13. ASSUME NEW a \in Appender, AppendStart(a) PROVE SnapOrder'
  BY <1>13, <1>0 DEF AppendStart, SnapOrder
<1>14. ASSUME NEW a \in Appender, AppendRefused(a) PROVE SnapOrder'
  BY <1>14, <1>0 DEF AppendRefused, IdleApp, SnapOrder
<1>15. ASSUME NEW a \in Appender, AppendToPalf(a) PROVE SnapOrder'
  <2>1. /\ Len(plog') = Len(plog) + 1 /\ UNCHANGED palf_pid
        /\ UNCHANGED <<ap_role, ap_pid, last_check_scn, max_applied_scn, gm>>
    BY <1>15, WriteLogGrows DEF AppendToPalf, palf_append, WriteLog, PalfTypes
  <2> QED
    BY <1>0, <2>1 DEF SnapOrder
<1>16. ASSUME NEW a \in Appender, NEW q \in Queue, CountSubmit(a, q) PROVE SnapOrder'
  BY <1>16, <1>0 DEF CountSubmit, SnapOrder
<1>17. ASSUME NEW a \in Appender, PushCb(a) PROVE SnapOrder'
  BY <1>17, <1>0 DEF PushCb, SnapOrder
<1>18. ASSUME NEW a \in Appender, WakeQueue(a) PROVE SnapOrder'
  <2>1. /\ gm'.pc = gm.pc /\ gm'.scn = gm.scn
        /\ UNCHANGED <<plog, palf_pid, ap_role, ap_pid, last_check_scn, max_applied_scn>>
    BY <1>18 DEF WakeQueue, LeaveCritical, CheckTypes
  <2> QED
    BY <1>0, <2>1 DEF SnapOrder
<1>19. CASE Replay
  BY <1>19, ReplayFrame, <1>0 DEF SnapOrder
<1>20. CASE RcEvent
  BY <1>20, <1>0 DEF RcEvent, need_execute_role_change, PalfRole, IdleRc, SnapOrder
<1>21. CASE RcAppendSync
  BY <1>21, <1>0 DEF RcAppendSync, RcGoto, SnapOrder
<1>22. CASE RcApplyFollower
  BY <1>22, <1>0
     DEF RcApplyFollower, RcGoto, apply_switch_to_follower,
       submit_task_to_apply_service_, acquire_lease, SnapOrder
<1>23. CASE RcApplyDone
  BY <1>23, <1>0 DEF RcApplyDone, SnapOrder
<1>24. CASE RcFollower
  BY <1>24, <1>0 DEF RcFollower, IdleRc, SnapOrder
<1>25. CASE RcReplayFollower
  BY <1>25, <1>0 DEF RcReplayFollower, IdleRc, SnapOrder
<1>26. CASE RcEndLsn
  BY <1>26, <1>0 DEF RcEndLsn, SnapOrder
<1>27. CASE RcReplayDone
  BY <1>27, <1>0 DEF RcReplayDone, RcGoto, SnapOrder
<1>28. CASE RcReplayTimeout
  BY <1>28, <1>0 DEF RcReplayTimeout, IdleRc, SnapOrder
<1>29. CASE RcApplyLeader
  <2>1. gm.pc = "idle" /\ UNCHANGED <<last_check_scn, max_applied_scn, gm>>
    BY <1>29 DEF RcApplyLeader, apply_switch_to_leader, Readers
  <2>2. ap_role = "FOLLOWER"
    BY <1>29 DEF RcApplyLeader, RoleInv, RolesAt
  <2> QED
    BY <1>0, <2>1, <2>2 DEF SnapOrder
<1>30. CASE RcReplayLeader
  BY <1>30, <1>0 DEF RcReplayLeader, RcGoto, SnapOrder
<1>31. CASE RcLeader
  BY <1>31, <1>0 DEF RcLeader, IdleRc, SnapOrder
<1>32. CASE UNCHANGED vars
  BY <1>32, <1>0 DEF SnapOrder
<1> QED
  BY <1>1, <1>2, <1>3, <1>4, <1>5, <1>6, <1>7, <1>8, <1>9, <1>10, <1>11, <1>12, <1>13,
     <1>14, <1>15, <1>16, <1>17, <1>18, <1>19, <1>20, <1>21, <1>22, <1>23, <1>24, <1>25,
     <1>26, <1>27, <1>28, <1>29, <1>30, <1>31, <1>32
     DEF Next, PalfMoves, GetMaxAppliedScn, AppendStep, RcStep

(* A snapshot waits for the appenders it does not count.                   *)
LEMMA SnapWaitStep ==
  ASSUME CheckTypes, PalfTypes, ApplyTypes, QueueTypes, TaskTypes, AppTypes,
         ReplayTypes, RcTypes, PalfInv, RoleInv, PidInv, TermInv, EndInv, EffectInv,
         CbInv, PlaceInv, TaskInv, CountInv, SnapInv, MaxAppliedSound, [Next]_vars
  PROVE  SnapWait'
<1>0. SnapWait
  BY DEF SnapInv
<1>1. CASE PalfBecomesFollower \/ PalfBecomesLeader \/ PalfMoves
  BY <1>1, PalfFrame, <1>0 DEF SnapWait, Submitting
<1>2. CASE Slide
  BY <1>2, SlideFrame, <1>0 DEF SnapWait, Submitting
<1>3. ASSUME NEW h \in Handler, HandlerStep(h) PROVE SnapWait'
  BY <1>3, HandlerFrame, <1>0 DEF SnapWait, Submitting
<1>4. ASSUME MaxAppliedOfFollower, UNCHANGED above PROVE SnapWait'
  BY <1>0, <1>4 DEF MaxAppliedOfFollower, SnapWait, Submitting
<1>5. ASSUME ReadMaxScn, UNCHANGED above PROVE SnapWait'
  <2>1. gm'.pc = "role"
    BY <1>5, NewMax
  <2> QED
    BY <2>1 DEF SnapWait
<1>6. ASSUME ReadPalfRole(Critical), UNCHANGED above PROVE SnapWait'
  <2>1. gm'.pc = "idle" \/ (gm'.pc = "sync" /\ gm'.wait = Critical)
    BY <1>6, RoleRead
  <2>2. \A a \in Appender : Submitting(a)' => a \in Critical
    BY <1>6 DEF Submitting, Critical
  <2> QED
    BY <2>1, <2>2 DEF SnapWait
<1>7. ASSUME TakeSnapshot, UNCHANGED above PROVE SnapWait'
  BY <1>7 DEF TakeSnapshot, IdleCheck, SnapWait
<1>8. ASSUME NEW a \in Appender, AppendStart(a) PROVE SnapWait'
  BY <1>8, <1>0 DEF AppendStart, SnapWait, Submitting, AppTypes, AppType
<1>9. ASSUME NEW a \in Appender, AppendRefused(a) PROVE SnapWait'
  BY <1>9, <1>0 DEF AppendRefused, IdleApp, SnapWait, Submitting, AppTypes, AppType
<1>10. ASSUME NEW a \in Appender, AppendToPalf(a) PROVE SnapWait'
  <2> SUFFICES ASSUME gm.pc = "sync", NEW b \in Appender, Submitting(b)', app'[b].cb.lsn <= gm.scn
               PROVE  b \in gm.wait
    BY <1>10 DEF AppendToPalf, SnapWait
  <2>1. PICK scn \in Nat : scn = gm.scn
    BY DEF CheckTypes
  <2>2. Covers(scn)
    BY <2>1 DEF SnapInv, Snapped
  <2>3. scn <= Len(plog) /\ Len(plog) \in Nat
    BY <1>10, <2>2, AppendIsCurrent, CoversCurrent, LogTyped
  <2>4. /\ app'[a].cb.lsn = Len(plog) + 1
        /\ \A d \in Appender \ {a} : app'[d] = app[d] /\ Submitting(d)' = Submitting(d)
    BY <1>10 DEF AppendToPalf, AppTypes, AppType, Submitting
  <2>5. b # a
    BY <2>1, <2>3, <2>4
  <2> QED
    BY <1>0, <2>4, <2>5 DEF SnapWait
<1>11. ASSUME NEW a \in Appender, NEW q \in Queue, CountSubmit(a, q) PROVE SnapWait'
  BY <1>11, <1>0 DEF CountSubmit, SnapWait, Submitting, AppTypes, AppType
<1>12. ASSUME NEW a \in Appender, PushCb(a) PROVE SnapWait'
  BY <1>12, <1>0 DEF PushCb, SnapWait, Submitting, AppTypes, AppType
<1>13. ASSUME NEW a \in Appender, WakeQueue(a) PROVE SnapWait'
  <2>1. /\ gm'.pc = gm.pc /\ gm'.scn = gm.scn /\ gm'.wait = gm.wait \ {a}
    BY <1>13 DEF WakeQueue, LeaveCritical, CheckTypes
  <2>2. ~Submitting(a)' /\ \A b \in Appender \ {a} : app'[b] = app[b]
    BY <1>13 DEF WakeQueue, LeaveCritical, IdleApp, AppTypes, Submitting
  <2> QED
    BY <1>0, <2>1, <2>2 DEF SnapWait, Submitting
<1>14. CASE Replay
  BY <1>14, ReplayFrame, <1>0 DEF SnapWait, Submitting
<1>15. CASE RcStep
  BY <1>15, RcFrame, <1>0 DEF SnapWait, Submitting
<1>16. CASE UNCHANGED vars
  BY <1>16, <1>0 DEF SnapWait, Submitting
<1> QED
  BY <1>1, <1>2, <1>3, <1>4, <1>5, <1>6, <1>7, <1>8, <1>9, <1>10, <1>11, <1>12, <1>13,
     <1>14, <1>15, <1>16 DEF Next, GetMaxAppliedScn, AppendStep

(* Only get_max_applied_scn itself moves its snapshot; a role change may   *)
(* drop it.                                                                *)
SnapKept == /\ gm'.pc = gm.pc /\ gm'.scn = gm.scn /\ UNCHANGED last_check_cnt
            /\ last_check_scn' \in {last_check_scn, 0}

LEMMA SnapMoves ==
  ASSUME CheckTypes, ~GetMaxAppliedScn, [Next]_vars
  PROVE  SnapKept
<1> USE DEF SnapKept
<1>1. CASE PalfBecomesFollower \/ PalfBecomesLeader \/ PalfMoves
  BY <1>1, PalfFrame
<1>2. CASE Slide
  BY <1>2, SlideFrame
<1>3. ASSUME NEW h \in Handler, HandlerStep(h) PROVE SnapKept
  BY <1>3, HandlerFrame
<1>4. CASE GetMaxAppliedScn
  BY <1>4
<1>5. ASSUME NEW a \in Appender, AppendStart(a) PROVE SnapKept
  BY <1>5 DEF AppendStart, CheckTypes
<1>6. ASSUME NEW a \in Appender, AppendRefused(a) PROVE SnapKept
  BY <1>6 DEF AppendRefused, IdleApp, CheckTypes
<1>7. ASSUME NEW a \in Appender, AppendToPalf(a) PROVE SnapKept
  BY <1>7 DEF AppendToPalf, palf_append, can_append, WriteLog, CheckTypes
<1>8. ASSUME NEW a \in Appender, NEW q \in Queue, CountSubmit(a, q) PROVE SnapKept
  BY <1>8 DEF CountSubmit, CheckTypes
<1>9. ASSUME NEW a \in Appender, PushCb(a) PROVE SnapKept
  BY <1>9 DEF PushCb, CheckTypes
<1>10. ASSUME NEW a \in Appender, WakeQueue(a) PROVE SnapKept
  BY <1>10
     DEF WakeQueue, LeaveCritical, IdleApp, submit_task_to_apply_service_,
       acquire_lease, CheckTypes
<1>11. CASE Replay
  BY <1>11, ReplayFrame
<1>12. CASE RcEvent
  BY <1>12 DEF RcEvent, need_execute_role_change, PalfRole, IdleRc, CheckTypes
<1>13. CASE RcAppendSync
  BY <1>13 DEF RcAppendSync, RcGoto, CheckTypes
<1>14. CASE RcApplyFollower
  BY <1>14
     DEF RcApplyFollower, RcGoto, apply_switch_to_follower,
       submit_task_to_apply_service_, acquire_lease, CheckTypes
<1>15. CASE RcApplyDone
  BY <1>15 DEF RcApplyDone, CheckTypes
<1>16. CASE RcFollower
  BY <1>16 DEF RcFollower, IdleRc, CheckTypes
<1>17. CASE RcReplayFollower
  BY <1>17 DEF RcReplayFollower, IdleRc, CheckTypes
<1>18. CASE RcEndLsn
  BY <1>18 DEF RcEndLsn, CheckTypes
<1>19. CASE RcReplayDone
  BY <1>19 DEF RcReplayDone, RcGoto, CheckTypes
<1>20. CASE RcReplayTimeout
  BY <1>20 DEF RcReplayTimeout, IdleRc, CheckTypes
<1>21. CASE RcApplyLeader
  BY <1>21 DEF RcApplyLeader, RcGoto, apply_switch_to_leader, Unexpected, CheckTypes
<1>22. CASE RcReplayLeader
  BY <1>22 DEF RcReplayLeader, RcGoto, CheckTypes
<1>23. CASE RcLeader
  BY <1>23 DEF RcLeader, IdleRc, CheckTypes
<1>24. CASE UNCHANGED vars
  BY <1>24
<1> QED
  BY <1>1, <1>2, <1>3, <1>4, <1>5, <1>6, <1>7, <1>8, <1>9, <1>10, <1>11, <1>12, <1>13,
     <1>14, <1>15, <1>16, <1>17, <1>18, <1>19, <1>20, <1>21, <1>22, <1>23, <1>24
     DEF Next, AppendStep, RcStep

LEMMA SnapStep ==
  ASSUME PalfTypes, ApplyTypes, QueueTypes, TaskTypes, CheckTypes, AppTypes, ReplayTypes,
         RcTypes, PalfInv, RoleInv, PidInv, TermInv, EndInv, EffectInv, CbInv, PlaceInv,
         TaskInv, CountInv, SnapInv, MaxAppliedSound, CheckTypes', [Next]_vars
  PROVE  SnapInv'
<1>1. \A scn \in Nat : Snapped(scn)' => Covers(scn)'
  <2> SUFFICES ASSUME NEW scn \in Nat, Snapped(scn)' PROVE Covers(scn)'
    OBVIOUS
  <2>1. CASE Snapped(scn)
    <3>1. Covers(scn) /\ ap_role = "LEADER"
      BY <2>1 DEF SnapInv, SnapOrder, Snapped, RoleInv, ApplyTypes, Roles
    <3> QED
      BY <3>1, CoversStep
  <2>2. CASE ~Snapped(scn)
    <3>1. GetMaxAppliedScn
      BY <2>2, SnapMoves DEF Snapped, SnapKept
    <3>2. /\ gm.pc = "role" /\ gm'.scn = gm.scn /\ can_append(ap_pid) /\ scn = gm.scn
          /\ UNCHANGED <<plog, ap_pid>>
      <4>1. CASE MaxAppliedOfFollower
        BY <2>2, <4>1 DEF MaxAppliedOfFollower, Snapped
      <4>2. CASE ReadMaxScn
        <5>1. gm'.pc = "role" /\ UNCHANGED last_check_scn
          BY <4>2, NewMax DEF ReadMaxScn
        <5> QED
          BY <2>2, <5>1 DEF Snapped
      <4>3. CASE ReadPalfRole(Critical)
        BY <2>2, <4>3, RoleRead DEF Snapped
      <4>4. CASE TakeSnapshot
        BY <2>2, <4>4 DEF TakeSnapshot, IdleCheck, Snapped
      <4> QED
        BY <3>1, <4>1, <4>2, <4>3, <4>4 DEF GetMaxAppliedScn
    <3>3. scn <= Len(plog) /\ palf_pid = ap_pid
      BY <3>2 DEF can_append, SnapInv, SnapOrder
    <3>4. \A i \in 1 .. scn : plog[i].pid <= ap_pid
      BY <3>3, LogTyped DEF PalfInv
    <3> QED
      BY <3>2, <3>3, <3>4 DEF Covers
  <2> QED
    BY <2>1, <2>2
<1>2. \A scn \in Nat : last_check_scn' # 0 /\ scn = last_check_scn' => CountedUpTo(scn)'
  <2> SUFFICES ASSUME NEW scn \in Nat, last_check_scn' # 0, scn = last_check_scn'
               PROVE  CountedUpTo(scn)'
    OBVIOUS
  <2>1. CASE UNCHANGED <<last_check_scn, last_check_cnt>>
    <3>1. Covers(scn) /\ CountedUpTo(scn)
      BY <2>1 DEF SnapInv, Snapped
    <3> QED
      BY <2>1, <3>1, CountedStep
  <2>2. CASE TakeSnapshot /\ UNCHANGED above
    <3>1. /\ gm.pc = "sync" /\ gm.wait = {} /\ scn = gm.scn /\ last_check_cnt' = total_submit
          /\ UNCHANGED <<queue, hd, app, total_apply>>
      BY <2>2 DEF TakeSnapshot
    <3>2. \A a \in Appender : Submitting(a) => app[a].cb.lsn > scn
      <4> SUFFICES ASSUME NEW a \in Appender, Submitting(a) PROVE app[a].cb.lsn > scn
        OBVIOUS
      <4>1. app[a].cb \in CbType
        BY DEF AppTypes, AppType
      <4>2. ~(app[a].cb.lsn <= scn)
        BY <3>1 DEF SnapInv, SnapWait
      <4> QED
        BY <4>1, <4>2 DEF CbType
    <3>3. ASSUME NEW q \in Queue, NEW i \in 1 .. Len(queue[q])
          PROVE  Popped(q) + i <= total_submit[q]
      <4>1. total_submit[q] = Popped(q) + Len(queue[q]) + Cardinality(Pushers(q))
        BY DEF CountInv, Counted
      <4>2. Popped(q) \in Nat /\ Len(queue[q]) \in Nat /\ Cardinality(Pushers(q)) \in Nat
        BY PoppedTyped, PushersFinite
      <4> QED
        BY <4>1, <4>2
    <3>4. ASSUME NEW h \in Handler, Running(h)
          PROVE  total_apply[hd[h].task] < total_submit[hd[h].task]
      <4>1. PICK q \in Queue : q = hd[h].task
        BY <3>4 DEF TaskInv, Running
      <4>2. Popped(q) = total_apply[q] + 1
        BY <3>4, <4>1 DEF Popped, Busy
      <4>3. total_submit[q] = Popped(q) + Len(queue[q]) + Cardinality(Pushers(q))
        BY DEF CountInv, Counted
      <4>4. total_apply[q] \in Nat /\ Len(queue[q]) \in Nat /\ Cardinality(Pushers(q)) \in Nat
        BY PoppedTyped, PushersFinite
      <4>5. total_apply[q] < total_submit[q]
        BY <4>2, <4>3, <4>4
      <4> QED
        BY <4>1, <4>5
    <3>5. \A q \in Queue : Popped(q)' = Popped(q)
      BY <3>1 DEF Popped, Busy, Running
    <3> QED
      BY <3>1, <3>2, <3>3, <3>4, <3>5 DEF CountedUpTo, Submitting, Running
  <2>3. UNCHANGED <<last_check_scn, last_check_cnt>> \/ (TakeSnapshot /\ UNCHANGED above)
    <3>1. CASE GetMaxAppliedScn
      BY <3>1 DEF GetMaxAppliedScn, MaxAppliedOfFollower, ReadMaxScn, ReadPalfRole
    <3>2. CASE ~GetMaxAppliedScn
      BY <3>2, SnapMoves DEF SnapKept
    <3> QED
      BY <3>1, <3>2
  <2> QED
    BY <2>1, <2>2, <2>3
<1>3. SnapOrder'
  BY SnapOrderStep
<1>4. SnapWait'
  BY SnapWaitStep
<1> QED
  BY <1>1, <1>2, <1>3, <1>4 DEF SnapInv

(* None of the branches reported as unexpected is taken.                   *)
LEMMA ExpectedStep ==
  ASSUME CheckTypes, PalfTypes, ApplyTypes, QueueTypes, TaskTypes, AppTypes,
         ReplayTypes, RcTypes, PalfInv, RoleInv, PidInv, TermInv, EndInv, EffectInv,
         CbInv, PlaceInv, TaskInv, SnapInv, MaxAppliedSound, ~unexpected, [Next]_vars
  PROVE  ~unexpected'
<1>1. CASE PalfBecomesFollower \/ PalfBecomesLeader \/ PalfMoves
  BY <1>1, PalfFrame
<1>2. ASSUME UpdateEnd, UNCHANGED above PROVE ~unexpected'
  <2>1. ~(ap_end >= slid + 1)
    BY <1>2 DEF UpdateEnd, EndInv, PalfTypes, ApplyTypes
  <2> QED
    BY <1>2, <2>1 DEF UpdateEnd
<1>3. ASSUME SubmitAfterUpdateEnd, UNCHANGED above PROVE ~unexpected'
  BY <1>3 DEF SubmitAfterUpdateEnd, SlideLog, submit_task_to_apply_service_, acquire_lease
<1>4. ASSUME SkipUpdateEnd, UNCHANGED above PROVE ~unexpected'
  <2>1. /\ slid + 1 \in 1 .. Len(plog) /\ slid + 1 \in slid + 1 .. Len(plog) /\ slid \in Nat
        /\ ap_pid \in Nat /\ plog[slid + 1].pid \in Nat
    BY <1>4, LogTyped DEF SkipUpdateEnd, PalfTypes, ApplyTypes
  <2>2. plog[slid + 1].pid > ap_pid
    <3>1. CASE ap_role = "FOLLOWER"
      BY <2>1, <3>1 DEF TermInv, Over
    <3>2. CASE ap_role = "LEADER"
      <4>1. plog[slid + 1].pid # ap_pid
        BY <1>4, <3>2 DEF SkipUpdateEnd, SlidingLog
      <4>2. LogDone(slid + 1)
        BY <2>1 DEF EffectInv
      <4>3. ~(plog[slid + 1].pid < ap_pid)
        BY <2>1, <4>2 DEF LogDone
      <4> QED
        BY <2>1, <4>1, <4>3
    <3> QED
      BY <3>1, <3>2 DEF ApplyTypes, Roles
  <2> QED
    BY <1>4, <2>1, <2>2 DEF SkipUpdateEnd, SlidingLog
<1>5. ASSUME NEW h \in Handler, HandlerStep(h) PROVE ~unexpected'
  BY <1>5, HandlerFrame
<1>6. ASSUME MaxAppliedOfFollower, UNCHANGED above PROVE ~unexpected'
  BY <1>6 DEF MaxAppliedOfFollower
<1>7. ASSUME ReadMaxScn, UNCHANGED above PROVE ~unexpected'
  BY <1>7, NewMax
<1>8. ASSUME ReadPalfRole(Critical), UNCHANGED above PROVE ~unexpected'
  <2>1. ~(gm.scn < max_applied_scn) /\ ~(palf_pid < ap_pid)
    <3>1. gm.pc = "role" /\ gm.scn \in Nat /\ max_applied_scn \in Nat
      BY <1>8 DEF ReadPalfRole, CheckTypes
    <3>2. ap_pid <= own_pid /\ own_pid <= palf_pid
      BY DEF PidInv, PalfInv
    <3> QED
      BY <3>1, <3>2 DEF SnapInv, SnapOrder, PalfTypes, ApplyTypes
  <2> QED
    BY <1>8, <2>1 DEF ReadPalfRole
<1>9. ASSUME TakeSnapshot, UNCHANGED above PROVE ~unexpected'
  BY <1>9 DEF TakeSnapshot, IdleCheck
<1>10. ASSUME NEW a \in Appender, AppendStart(a) PROVE ~unexpected'
  BY <1>10 DEF AppendStart
<1>11. ASSUME NEW a \in Appender, AppendRefused(a) PROVE ~unexpected'
  BY <1>11 DEF AppendRefused, IdleApp
<1>12. ASSUME NEW a \in Appender, AppendToPalf(a) PROVE ~unexpected'
  BY <1>12 DEF AppendToPalf, palf_append, can_append, WriteLog
<1>13. ASSUME NEW a \in Appender, NEW q \in Queue, CountSubmit(a, q) PROVE ~unexpected'
  BY <1>13 DEF CountSubmit
<1>14. ASSUME NEW a \in Appender, PushCb(a) PROVE ~unexpected'
  BY <1>14 DEF PushCb
<1>15. ASSUME NEW a \in Appender, WakeQueue(a) PROVE ~unexpected'
  BY <1>15
     DEF WakeQueue, LeaveCritical, IdleApp, submit_task_to_apply_service_, acquire_lease
<1>16. CASE Replay
  BY <1>16, ReplayFrame
<1>17. CASE RcEvent
  BY <1>17 DEF RcEvent, need_execute_role_change, PalfRole, IdleRc
<1>18. CASE RcAppendSync
  BY <1>18 DEF RcAppendSync, RcGoto
<1>19. CASE RcApplyFollower
  BY <1>19
     DEF RcApplyFollower, RcGoto, apply_switch_to_follower,
       submit_task_to_apply_service_, acquire_lease
<1>20. CASE RcApplyDone
  BY <1>20 DEF RcApplyDone
<1>21. CASE RcFollower
  BY <1>21 DEF RcFollower, IdleRc
<1>22. CASE RcReplayFollower
  BY <1>22 DEF RcReplayFollower, IdleRc
<1>23. CASE RcEndLsn
  BY <1>23 DEF RcEndLsn
<1>24. CASE RcReplayDone
  BY <1>24 DEF RcReplayDone, RcGoto
<1>25. CASE RcReplayTimeout
  BY <1>25 DEF RcReplayTimeout, IdleRc
<1>26. CASE RcApplyLeader
  <2>1. rc.pc = "apply_leader" /\ ap_role = "FOLLOWER"
    BY <1>26 DEF RcApplyLeader, RoleInv, RolesAt
  <2>2. ~(rc.pid < ap_pid)
    BY <2>1 DEF PidInv, ToLead, ApplyTypes, RcTypes, RcType
  <2> QED
    BY <1>26, <2>1, <2>2 DEF RcApplyLeader, apply_switch_to_leader
<1>27. CASE RcReplayLeader
  BY <1>27 DEF RcReplayLeader, RcGoto
<1>28. CASE RcLeader
  BY <1>28 DEF RcLeader, IdleRc
<1>29. CASE UNCHANGED vars
  BY <1>29
<1> QED
  BY <1>1, <1>2, <1>3, <1>4, <1>5, <1>6, <1>7, <1>8, <1>9, <1>10, <1>11, <1>12, <1>13,
     <1>14, <1>15, <1>16, <1>17, <1>18, <1>19, <1>20, <1>21, <1>22, <1>23, <1>24, <1>25,
     <1>26, <1>27, <1>28, <1>29 DEF Next, Slide, GetMaxAppliedScn, AppendStep, RcStep

-------------------------------------------------------------------------------
(* The theorems                                                            *)

LEMMA InitIInv == Init => IInv
<1> SUFFICES ASSUME Init PROVE IInv
  OBVIOUS
<1>1. /\ plog = <<>> /\ Len(plog) = 0 /\ slid = 0 /\ next_id = 1 /\ palf_role = "follower"
      /\ palf_pid = 0 /\ own_pid = 0 /\ pending_end = 0 /\ 1 .. Len(plog) = {}
      /\ slid + 1 .. Len(plog) = {} /\ 1 .. slid = {}
  BY DEF Init, PalfInit
<1>2. /\ ap_role = "FOLLOWER" /\ ap_pid = 0 /\ ap_end = 0 /\ fs = FALSE /\ ok = {} /\ failed = {}
      /\ unexpected = FALSE /\ last_check_scn = 0 /\ max_applied_scn = 0 /\ gm.pc = "idle"
      /\ 1 .. ap_end = {} /\ 1 .. max_applied_scn = {}
  BY DEF Init, ApplyInit, IdleCheck
<1>3. /\ lh_role = "FOLLOWER" /\ lh_pid = 0 /\ rp_role = "FOLLOWER" /\ rp_end = 0 /\ replayed = {}
      /\ rc.pc = "idle" /\ 1 .. rp_end = {}
  BY DEF Init, IdleRc
<1>4. \A h \in Handler : hd[h].pc = "idle" /\ hd[h].task = NoTask /\ ~Running(h)
  BY DEF Init, ApplyInit, IdleHandler, Running
<1>5. \A a \in Appender : app[a].pc = "idle" /\ app[a].pid = 0 /\ ~Submitting(a)
  BY DEF Init, IdleApp, Submitting
<1>6. \A q \in Queue : /\ queue[q] = <<>> /\ Len(queue[q]) = 0 /\ 1 .. Len(queue[q]) = {}
                       /\ total_submit[q] = 0 /\ total_apply[q] = 0
  BY DEF Init, ApplyInit
<1>7. OutCb = {}
  <2>1. ASSUME NEW c \in OutCb PROVE FALSE
    BY <1>4, <1>5, <1>6, InOut
  <2> QED
    BY <2>1
<1>8. TypeOK
  <2>1. PalfTypes /\ ReplayTypes /\ AppTypes /\ RcTypes
    <3>1. PalfTypes /\ ReplayTypes
      BY <1>1, <1>3 DEF PalfTypes, ReplayTypes, PalfRoles, Roles
    <3>2. AppTypes
      BY DEF Init, AppTypes, AppType, IdleApp, NoCb, CbType, Roles
    <3>3. RcTypes
      BY DEF Init, RcTypes, RcType, IdleRc
    <3> QED
      BY <3>1, <3>2, <3>3
  <2>2. ApplyTypes /\ CheckTypes
    <3>1. ApplyTypes
      BY <1>2 DEF ApplyTypes, Roles
    <3>2. CheckTypes
      BY DEF Init, ApplyInit, CheckTypes, IdleCheck
    <3> QED
      BY <3>1, <3>2
  <2>3. QueueTypes /\ TaskTypes
    <3>1. QueueTypes
      BY DEF Init, ApplyInit, QueueTypes
    <3>2. IdleHandler \in HandlerType
      BY DEF IdleHandler, HandlerType, NoCb, CbType
    <3>3. TaskTypes
      BY <3>2 DEF Init, ApplyInit, TaskTypes
    <3> QED
      BY <3>1, <3>3
  <2> QED
    BY <1>2, <2>1, <2>2, <2>3, TypeParts
<1>9. PalfInv
  BY <1>1, <1>2 DEF PalfInv, CommittedEnd
<1>10. RoleInv
  BY <1>2, <1>3, <1>5 DEF RoleInv, RolesAt, Critical, Roles
<1>11. PidInv
  BY <1>1, <1>2, <1>3, <1>5 DEF PidInv, ToLead
<1>12. TermInv
  BY <1>1, <1>2, <1>3 DEF TermInv, Over
<1>13. EndInv
  BY <1>1, <1>2, <1>3 DEF EndInv
<1>14. EffectInv
  BY <1>1, <1>2, <1>3 DEF EffectInv
<1>15. CbInv
  BY <1>4, <1>7 DEF CbInv, RunSound
<1>16. PlaceInv
  BY <1>4, <1>5, <1>6 DEF PlaceInv
<1>17. TaskInv
  BY <1>4, <1>5 DEF TaskInv, Init, ApplyInit
<1>18. CountInv
  <2> SUFFICES ASSUME NEW q \in Queue PROVE Counted(q)
    BY DEF CountInv
  <2>1. Pushers(q) = {} /\ ~Busy(q)
    BY <1>4, <1>5 DEF Pushers, Busy
  <2>2. Cardinality(Pushers(q)) = 0
    BY <2>1, FS_EmptySet
  <2> QED
    BY <1>6, <2>1, <2>2 DEF Counted, Popped
<1>19. SnapInv
  BY <1>2 DEF SnapInv, SnapOrder, SnapWait, Snapped
<1>20. MaxAppliedSound
  BY <1>1, <1>2 DEF MaxAppliedSound, CommittedEnd
<1> QED
  BY <1>8, <1>9, <1>10, <1>11, <1>12, <1>13, <1>14, <1>15, <1>16, <1>17, <1>18, <1>19,
     <1>20 DEF IInv

LEMMA NextIInv == IInv /\ [Next]_vars => IInv'
<1> SUFFICES ASSUME IInv, [Next]_vars PROVE IInv'
  OBVIOUS
<1>1. /\ PalfTypes /\ ApplyTypes /\ QueueTypes /\ TaskTypes /\ CheckTypes /\ AppTypes
      /\ ReplayTypes /\ RcTypes /\ ~unexpected
  BY TypeParts DEF IInv
<1>2. /\ PalfInv /\ RoleInv /\ PidInv /\ TermInv /\ EndInv /\ EffectInv /\ CbInv /\ PlaceInv
      /\ TaskInv /\ CountInv /\ SnapInv /\ MaxAppliedSound
  BY DEF IInv
<1>3. /\ PalfTypes' /\ ApplyTypes' /\ QueueTypes' /\ TaskTypes' /\ CheckTypes' /\ AppTypes'
      /\ ReplayTypes' /\ RcTypes'
  BY <1>1, <1>2, PalfTypesStep, ApplyTypesStep, QueueTypesStep, TaskTypesStep, CheckTypesStep,
     AppTypesStep, ReplayTypesStep, RcTypesStep
<1>4. ~unexpected'
  BY <1>1, <1>2, ExpectedStep
<1>5. TypeOK'
  <2>1. slid' \in 0 .. Len(plog')
    BY <1>3 DEF PalfTypes
  <2> QED
    BY <1>3, <1>4, <2>1, Zenon DEF TypeOK, PalfTypes, ApplyTypes, QueueTypes, TaskTypes,
       CheckTypes, AppTypes, ReplayTypes, RcTypes
<1>6. PalfInv' /\ RoleInv' /\ PidInv' /\ TermInv' /\ EndInv'
  BY <1>1, <1>2, PalfStep, RoleStep, PidStep, TermStep, EndStep
<1>7. EffectInv' /\ CbInv'
  BY <1>1, <1>2, EffectStep, CbStep
<1>8. PlaceInv' /\ TaskInv' /\ CountInv'
  BY <1>1, <1>2, PlaceStep, TaskStep, CountStep
<1>9. SnapInv' /\ MaxAppliedSound'
  BY <1>1, <1>2, <1>3, SnapStep, MaxAppliedStep
<1> QED
  BY <1>5, <1>6, <1>7, <1>8, <1>9 DEF IInv

(* The log stream's invariant holds in every reachable state, for any      *)
(* number of appenders, queues, threads, logs and terms.                   *)
THEOREM Inductive == Spec => []IInv
<1>1. Init => IInv
  BY InitIInv
<1>2. IInv /\ [Next]_vars => IInv'
  BY NextIInv
<1> QED
  BY <1>1, <1>2, PTL DEF Spec

LEMMA OutstandingIsOut == Outstanding = {c.id : c \in OutCb}
<1>1. ASSUME NEW x PROVE x \in Outstanding <=>
          \/ \E a \in Appender : Submitting(a) /\ x = app[a].cb.id
          \/ \E q \in Queue : \E i \in 1 .. Len(queue[q]) : x = queue[q][i].id
          \/ \E h \in Handler : Running(h) /\ x = hd[h].cb.id
  <2>1. x \in {app[a].cb.id : a \in {b \in Critical : app[b].pc # "wake"}}
          <=> \E a \in Appender : Submitting(a) /\ x = app[a].cb.id
    BY DEF Critical, Submitting
  <2>2. x \in UNION {{queue[q][i].id : i \in 1 .. Len(queue[q])} : q \in Queue}
          <=> \E q \in Queue : \E i \in 1 .. Len(queue[q]) : x = queue[q][i].id
    <3>1. \A q \in Queue : x \in {queue[q][i].id : i \in 1 .. Len(queue[q])}
                            <=> \E i \in 1 .. Len(queue[q]) : x = queue[q][i].id
      OBVIOUS
    <3> QED
      BY <3>1
  <2>3. x \in {hd[h].cb.id : h \in {g \in Handler : hd[g].pc = "cb"}}
          <=> \E h \in Handler : Running(h) /\ x = hd[h].cb.id
    BY DEF Running
  <2> QED
    BY <2>1, <2>2, <2>3 DEF Outstanding
<1>2. ASSUME NEW x PROVE x \in Outstanding <=> \E c \in OutCb : x = c.id
  BY <1>1, InOut
<1> QED
  BY <1>2

(* Every part of the log stream keeps its type, and no branch that the     *)
(* apply service or its caller reports as unexpected is ever taken.        *)
THEOREM TypeCorrect == Spec => []TypeOK
<1>1. IInv => TypeOK
  BY DEF IInv
<1> QED
  BY <1>1, Inductive, PTL

(* get_max_applied_scn never answers an SCN with a log below it that is    *)
(* neither answered by on_success nor replayed.                            *)
THEOREM MaxAppliedSoundAlways == Spec => []MaxAppliedSound
<1>1. IInv => MaxAppliedSound
  BY DEF IInv
<1> QED
  BY <1>1, Inductive, PTL

(* on_success is called only for logs that have slid, on_failure only for  *)
(* logs that are no longer in the log and will not come back.              *)
THEOREM AnswerMatchesLogAlways == Spec => []AnswerMatchesLog
<1>1. ASSUME IInv PROVE AnswerMatchesLog
  <2>1. PalfTypes /\ ApplyTypes /\ ReplayTypes /\ PalfInv /\ EndInv /\ EffectInv
    BY <1>1, TypeParts DEF IInv
  <2>2. /\ CommittedEnd \in Nat /\ ap_end <= CommittedEnd /\ CommittedEnd <= Len(plog)
        /\ ap_end \in Nat /\ Len(plog) \in Nat
    BY <2>1, EndBounds
  <2>3. \A i \in 1 .. ap_end : i \in 1 .. CommittedEnd /\ i \in 1 .. Len(plog)
    BY <2>2
  <2>4. \A id \in ok : \E i \in 1 .. ap_end : plog[i].id = id
    BY <2>1 DEF EffectInv
  <2>5. \A id \in failed : \A i \in 1 .. Len(plog) : plog[i].id # id
    BY <2>1 DEF EffectInv
  <2> QED
    BY <2>3, <2>4, <2>5 DEF AnswerMatchesLog
<1> QED
  BY <1>1, Inductive, PTL

(* A log takes effect once: no log is both answered and replayed, what is  *)
(* left to replay has not been done, and no callback is called twice.      *)
THEOREM EffectOnceAlways == Spec => []EffectOnce
<1>1. ASSUME IInv PROVE EffectOnce
  <2>1. /\ PalfTypes /\ ApplyTypes /\ ReplayTypes /\ PalfInv /\ EndInv /\ EffectInv /\ CbInv
    BY <1>1, TypeParts DEF IInv
  <2>2. ok \intersect replayed = {}
    BY <2>1 DEF EffectInv
  <2>3. ASSUME rp_role = "FOLLOWER", NEW i \in rp_end + 1 .. slid
        PROVE  plog[i].id \notin ok \union replayed
    <3>1. ap_end <= rp_end
      BY <2>1, <2>3 DEF EndInv
    <3>2. /\ ap_end \in Nat /\ rp_end \in Nat /\ Len(plog) \in Nat /\ i \in 1 .. Len(plog)
          /\ ap_end <= Len(plog) /\ rp_end <= Len(plog)
      BY <2>1, EndBounds DEF PalfTypes
    <3>3. ASSUME NEW j \in 1 .. rp_end PROVE plog[j].id # plog[i].id
      <4>1. j \in 1 .. Len(plog) /\ j # i
        BY <3>2
      <4> QED
        BY <2>1, <3>2, <4>1, IdUnique
    <3>4. \A j \in 1 .. ap_end : j \in 1 .. rp_end
      BY <3>1, <3>2
    <3> QED
      BY <2>1, <3>3, <3>4 DEF EffectInv
  <2>4. Outstanding \intersect (Answered \union replayed) = {}
    <3>1. \A c \in OutCb : c.id \notin ok /\ c.id \notin failed /\ c.id \notin replayed
      BY <2>1 DEF CbInv, CbSound
    <3> QED
      BY <3>1, OutstandingIsOut DEF Answered
  <2> QED
    BY <2>2, <2>3, <2>4 DEF EffectOnce
<1> QED
  BY <1>1, Inductive, PTL

(* A replica that can append has lost track of no log that has slid.       *)
THEOREM LeaderHasAllAlways == Spec => []LeaderHasAll
<1>1. ASSUME IInv PROVE LeaderHasAll
  <2>1. PalfTypes /\ ApplyTypes /\ PalfInv /\ PidInv /\ EffectInv
    BY <1>1, TypeParts DEF IInv
  <2> SUFFICES ASSUME lh_role = "LEADER", can_append(lh_pid), NEW i \in 1 .. slid
               PROVE  plog[i].id \in replayed \union ok \union Outstanding
    BY DEF LeaderHasAll, SlidIds
  <2>2. ap_pid = palf_pid
    BY <2>1 DEF can_append, PidInv
  <2>3. i \in 1 .. Len(plog) /\ plog[i].pid \in Nat /\ palf_pid \in Nat
    BY <2>1, LogTyped DEF PalfTypes
  <2>4. plog[i].pid <= palf_pid /\ LogDone(i)
    BY <2>1, <2>3 DEF PalfInv, EffectInv
  <2>5. plog[i].pid < ap_pid \/ plog[i].pid = ap_pid
    BY <2>2, <2>3, <2>4
  <2> QED
    BY <2>4, <2>5, OutstandingIsOut DEF LogDone
<1> QED
  BY <1>1, Inductive, PTL

(* No callback runs once the log handler is a follower.                    *)
THEOREM FollowerQuietAlways == Spec => []FollowerQuiet
<1>1. IInv => FollowerQuiet
  BY OutstandingIsOut DEF IInv, CbInv, FollowerQuiet
<1> QED
  BY <1>1, Inductive, PTL

(* The lease keeps a task with one thread or with the pool.                *)
THEOREM TaskHasOneOwnerAlways == Spec => []TaskHasOneOwner
<1>1. ASSUME IInv PROVE TaskHasOneOwner
  <2>1. TaskInv
    BY <1>1 DEF IInv
  <2> SUFFICES ASSUME NEW t \in Task
               PROVE  LET owners == {h \in Handler : hd[h].task = t} IN
                      /\ Cardinality(owners) + (IF t \in pool THEN 1 ELSE 0) <= 1
                      /\ lease[t] = "idle" => owners = {} /\ t \notin pool
    BY DEF TaskHasOneOwner
  <2>2. PICK owners : owners = {h \in Handler : hd[h].task = t}
    OBVIOUS
  <2>3. t # NoTask
    BY ApplyAssumption DEF Task
  <2>4. CASE owners = {}
    <3>1. Cardinality(owners) = 0
      BY <2>4, FS_EmptySet
    <3> QED
      BY <2>1, <2>2, <2>4, <3>1 DEF TaskInv
  <2>5. ASSUME NEW h \in owners PROVE /\ t \notin pool /\ lease[t] # "idle" /\ owners = {h}
    BY <2>1, <2>2, <2>3, <2>5 DEF TaskInv
  <2>6. CASE owners # {}
    <3>1. PICK h \in owners : TRUE
      BY <2>6
    <3>2. t \notin pool /\ lease[t] # "idle" /\ owners = {h}
      BY <2>5
    <3>3. Cardinality(owners) = 1
      BY <3>2, FS_Singleton
    <3> QED
      BY <2>2, <3>2, <3>3
  <2> QED
    BY <2>4, <2>6
<1> QED
  BY <1>1, Inductive, PTL

===============================================================================
