------------------------------ MODULE LogStream -------------------------------
(***************************************************************************)
(* The id service, the LS meta, the clog and the checkpoint executor of    *)
(* one log stream put together, with loss of leadership and restarts.      *)
(***************************************************************************)
EXTENDS CheckpointExecutor

vars == <<metaVars, clogVars, idVars, callVars, ckptVars>>

TypeOK ==
    /\ meta \in MetaType /\ slog \in MetaType /\ slog_fails \in Nat
    /\ clog \subseteq EntryType /\ flying \subseteq CbType
    /\ max_scn \in Nat /\ committed_scn \in Nat /\ replay_next \in Nat
    /\ recycled \in Nat /\ crashes \in Nat /\ revokes \in Nat
    /\ role \in Roles
    /\ last_id \in Nat /\ limited_id \in Nat /\ tmp_last_id \in Nat
    /\ is_logging \in BOOLEAN
    /\ rec_log_ts \in Nat /\ latest_log_ts \in Nat
    /\ cb \in [limit : Nat, ts : Nat]
    /\ rwlock \in Worker \union {NoWorker}
    /\ th \in [Worker -> ThreadType]
    /\ grants \subseteq GrantType /\ grant_cnt \in Nat /\ max_end \in Nat
    /\ ckpt_pc \in CkptPCs /\ ckpt_scn \in Nat

(* A log stream that has just been created, before it has a leader.        *)
Init ==
    /\ meta = EmptyMeta /\ slog = EmptyMeta /\ slog_fails = 0
    /\ clog = {} /\ flying = {}
    /\ max_scn = 0 /\ committed_scn = 0 /\ replay_next = 0 /\ recycled = 0
    /\ crashes = 0 /\ revokes = 0
    /\ role = "restarting"
    /\ last_id = MIN_LAST_ID /\ limited_id = MIN_LAST_ID /\ tmp_last_id = 0
    /\ is_logging = FALSE
    /\ rec_log_ts = SCN_MAX /\ latest_log_ts = 0
    /\ cb = ResetCb
    /\ rwlock = NoWorker
    /\ th = [t \in Worker |-> Idle]
    /\ grants = {} /\ grant_cnt = 0 /\ max_end = MIN_LAST_ID
    /\ ckpt_pc = "idle" /\ ckpt_scn = 0

-------------------------------------------------------------------------------
(* Steps that involve several components                                   *)

SwitchToFollower ==
    /\ switch_role_to_follower
    /\ UNCHANGED <<metaVars, idVars, callVars, ckptVars>>

(* One step for timestamps too: ObTimestampAccess answers OB_NOT_MASTER    *)
(* until the switch_to_leader of the timestamp service has finished.       *)
SwitchToLeader ==
    /\ switch_role_to_leader
    /\ switch_id_service_to_leader
    /\ UNCHANGED <<metaVars, callVars, ckptVars, limited_id, is_logging,
                   rec_log_ts, latest_log_ts, cb, rwlock>>

(* The process stops and starts again: the LS meta is loaded from the slog *)
(* and handed to the id service by ObLS::set_ls_meta.                      *)
Restart ==
    /\ restart_clog
    /\ restart_id_service
    /\ meta' = slog
    /\ ckpt_pc' = "idle" /\ ckpt_scn' = 0
    /\ UNCHANGED <<slog, slog_fails, grants, grant_cnt, max_end>>

ClogStep ==
    /\ AppendOther \/ CommitLog \/ RevokeLeader \/ apply_switch_to_follower
    /\ UNCHANGED <<metaVars, idVars, callVars, ckptVars>>

CallStep(t) ==
    /\ \/ LoadLast(t) \/ LoadLimit(t) \/ SwapLast(t) \/ SwapFailed(t)
       \/ CheckLimit(t) \/ PreAllocate(t)
       \/ SubmitLog(t) \/ SubmitLogSkip(t) \/ FillCb(t)
    /\ UNCHANGED ckptVars

NewCall(t) ==
    /\ \E r \in Ranges, b \in Bases : GetNumber(t, r, b)
    /\ UNCHANGED ckptVars

CbStep ==
    /\ \E f \in flying : \/ OnSuccess(f) \/ OnFailure(f)
                         \/ HandleSuccess(f) \/ HandleFailure(f)
    /\ UNCHANGED ckptVars

ReplayStep ==
    /\ \E e \in clog : Replay(e)
    /\ UNCHANGED ckptVars

CheckpointStep ==
    \/ \E d \in 0 .. MaxScn : ReadDecidedScn(d)
    \/ ReadRecScn
    \/ CheckpointNoChange
    \/ \E lsn \in 0 .. MaxScn, ok \in BOOLEAN : SetClogCheckpoint(lsn, ok)
    \/ AdvanceBaseLsn
    \/ FinishWithoutRecycle
    \/ \E s \in (0 .. MaxScn) \union {SCN_MAX} : AdvanceCheckpointByFlush(s)

Next ==
    \/ ClogStep
    \/ \E t \in Worker : NewCall(t) \/ CallStep(t)
    \/ CbStep \/ ReplayStep
    \/ CheckpointStep
    \/ SwitchToFollower \/ SwitchToLeader
    \/ Restart

Spec == Init /\ [][Next]_vars

(* Threads run, PALF commits, the apply and replay services and the role   *)
(* change service do their work, callers retry after OB_EAGAIN, and an     *)
(* append that can succeed does not fail for ever.                         *)
Fairness ==
    /\ \A t \in Worker : /\ WF_vars(NewCall(t)) /\ WF_vars(CallStep(t))
                         /\ SF_vars(SubmitLog(t) /\ UNCHANGED ckptVars)
    /\ WF_vars(/\ CommitLog \/ apply_switch_to_follower
               /\ UNCHANGED <<metaVars, idVars, callVars, ckptVars>>)
    /\ WF_vars(CbStep) /\ WF_vars(ReplayStep)
    /\ WF_vars(SwitchToFollower) /\ WF_vars(SwitchToLeader)

FairSpec == Spec /\ Fairness

-------------------------------------------------------------------------------
(* Properties                                                              *)

Oracle == INSTANCE IdOracle WITH
    Caller <- Worker,
    issued <- {<<g.start, g.end>> : g \in grants},
    floor  <- [t \in Worker |-> th[t].seen]

(* The log stream's id service is an id oracle: ranges never overlap and a *)
(* call that begins after another one returned gets larger ids, whatever   *)
(* the order of the lock-free steps of get_number, of log callbacks,       *)
(* replays, role changes and restarts.                                     *)
ImplementsOracle == Oracle!Spec

(* No id is handed out twice, by no two calls of get_number, in whatever   *)
(* order their steps, log callbacks, replays and restarts come.            *)
GrantsDisjoint ==
    \A g, h \in grants : g.n # h.n => g.end <= h.start \/ h.end <= g.start

(* Every id handed out stays below a limit that a restart will find, in    *)
(* the persisted LS meta or in a committed log entry that replay will      *)
(* apply: handle_submit_callback raises the limit only after the commit,   *)
(* and the log is not recycled up to an entry whose effect is not          *)
(* persisted, although rec_log_ts_ holds the SCN of the last log, not of   *)
(* the first unflushed one, and although slog writes may fail.             *)
Durable(id) ==
    \/ id <= slog.limit
    \/ \E e \in clog : Committed(e) /\ e.scn >= slog.ckpt /\ e.limit >= id

GrantsDurable == \A g \in grants : Durable(g.end)

(* A committed limit is never lost: unless its callback is still to come   *)
(* or it is still to be replayed, the service works with a limit at least  *)
(* as high (on_success must not read cb_ before the submitter filled it).  *)
Pending(e) ==
    \/ \E f \in flying : f.scn = e.scn
    \/ Replaying /\ e.scn >= replay_next
    \/ role = "lost"

CommittedLimitApplied ==
    \A e \in clog : Committed(e) => Pending(e) \/ e.limit <= limited_id

(* There is one callback object per service: a callback that runs must     *)
(* find in it the limit and SCN of its own log (is_logging_ and test_lock  *)
(* guard its reuse).                                                       *)
CallbackOwnsCb ==
    \A f \in flying : f.phase = "success" =>
        \E e \in clog : e.scn = f.scn /\ f.ts = f.scn /\ f.limit = e.limit

(* clog_checkpoint_scn_ never passes the dump point of the id service:     *)
(* the checkpoint reads the decided SCN before the rec SCNs, and a         *)
(* callback may run between the two reads.                                 *)
CheckpointBelowDumpPoint == meta.ckpt <= rec_log_ts

(* After a restart the log is still there from the persisted base on.      *)
ReplayStartAvailable == role # "lost"

(* The same as long as no slog write has failed: recycling follows the     *)
(* base in memory, replay starts at the base on disk, and the two agree    *)
(* whenever the log is recycled.                                           *)
ReplayStartUnlessWriteFailed == slog_fails = 0 => ReplayStartAvailable

(* After a restart a timestamp service becomes leader with last_id_ at or  *)
(* above the SCN of every log, so that no snapshot taken from now on is    *)
(* below data committed before the restart.                                *)
RestartCoversLog ==
    [][IsTimestamp /\ role = "restarting" /\ role' = "leader"
        => last_id' >= max_scn]_vars

(* A leader that has run out of ids gets new ones as long as it stays      *)
(* leader (within the bounds on logs and calls).                           *)
OutOfIds == last_id >= limited_id

LimitRecovers ==
    (role = "leader" /\ OutOfIds)
        ~> (~OutOfIds \/ role # "leader" \/ max_scn >= MaxScn \/ grant_cnt >= MaxGrants)

===============================================================================
