-------------------------------- MODULE TxCtx ---------------------------------
(***************************************************************************)
(* The participant context of a one-phase transaction (ObPartTransCtx) on  *)
(* the replica that leads its log stream, together with what drives it:    *)
(* the log and its callbacks, GTS, the context's timer, the scheduler's    *)
(* commit and abort requests, and the role changes of the log stream       *)
(* (ObLSTxCtxMgr, ObTxLSStateMgr).  The replica may lose the leadership    *)
(* and, with it, the end of the log, and is then elected again.            *)
(*                                                                         *)
(* The functions of the context run under its lock.  Each is an operator   *)
(* on a world w: the log, the context, the answers sent to the scheduler,  *)
(* the error branches taken, and the return code of the last call.  What   *)
(* the environment decides during a call is the set o:                     *)
(*    "gts"     the cached GTS is fresh enough, no need to wait for one;   *)
(*    "behind"  GTS is still below the commit version;                     *)
(*    "split"   the commit log does not fit in the block of its redo.      *)
(***************************************************************************)
EXTENDS Naturals, Sequences, FiniteSets

CONSTANTS
    Write,        \* the rows the transaction may write
    LogCbs,       \* log callbacks a context ever gets, the freeze callback apart
    MaxSwl        \* bound: how many start working logs are submitted

ASSUME TxCtxAssumption ==
    IsFiniteSet(Write) /\ LogCbs \in Nat \ {0} /\ MaxSwl \in Nat

VARIABLES
    \* the log of the log stream
    log,          \* the entries that survive
    synced,       \* the last position whose callback has succeeded
    role,         \* leader, graceful (handing over), revoked by PALF, down
                  \* (the callbacks left fail), follower
    swl,          \* position of the start working log in flight, 0: none
    applying,     \* max_applying_start_working_ts_
    swls,         \* start working logs submitted so far
    mode,         \* TxLSState
    \* the transaction
    ctx,          \* the participant context
    local,        \* the scheduler is on this server
    written,      \* rows written by its statements
    sched,        \* ObTxDesc::State at the scheduler
    ans,          \* answers sent to the scheduler: any may be lost, late or repeated
    expired,      \* the transaction's timeout has passed
    bad           \* error branches taken that the code calls unexpected

lsVars == <<synced, role, swl, applying, swls, mode>>
txVars == <<local, written, sched, expired>>
vars == <<log, lsVars, ctx, txVars, ans, bad>>

Outcomes == SUBSET {"gts", "split"}

(* SUCCESS stands for OB_TRANS_COMMITED too; ABORTED is the notice that a  *)
(* participant has gone.                                                   *)
Final == {"SUCCESS", "KILLED", "ABORTED"}

Fresh ==
    [state |-> "INIT",         \* exec_info_.state_
     up |-> FALSE,             \* upstream_state_ is ABORT
     action |-> "START",       \* part_trans_action_
     lead |-> TRUE,            \* role_state_
     info |-> FALSE,           \* info_log_submitted
     submitting |-> FALSE,     \* state_log_submitting
     submitted |-> FALSE,      \* state_log_submitted
     force |-> FALSE,          \* force_abort
     gts |-> "no",             \* gts_waiting, and for which callback
     ver |-> FALSE,            \* ctx_tx_data_ has a commit version
     prep |-> FALSE,           \* mt_ctx_ has a trans version (is_prepared)
     cb |-> "off",             \* commit_cb_: off, on (enabled), used
     complete |-> FALSE,       \* data_complete_
     swl |-> 0,                \* start_working_log_ts_
     persisted |-> FALSE,      \* has_persisted_log_
     unlog |-> {},             \* writes whose redo is not submitted
     busy |-> <<>>,            \* busy_cbs_
     leaked |-> 0,             \* callbacks out of free_cbs_ that nobody uses
     exit |-> FALSE]           \* is_exiting_

Init ==
    /\ log = <<>> /\ synced = 0 /\ role = "leader"
    /\ swl = 0 /\ applying = 0 /\ swls = 0 /\ mode = "L_WORKING"
    /\ ctx = Fresh /\ local \in BOOLEAN
    /\ written = {} /\ sched = "ACTIVE" /\ ans = {}
    /\ expired = FALSE /\ bad = {}

-------------------------------------------------------------------------------
(* Worlds                                                                  *)

World == [log |-> log, ctx |-> ctx, ans |-> ans, bad |-> bad, ret |-> "OK"]

Become(w) == log' = w.log /\ ctx' = w.ctx /\ ans' = w.ans /\ bad' = w.bad

Ok(w) == [w EXCEPT !.ret = "OK"]
Fail(w, r) == [w EXCEPT !.ret = r]
Bad(w, what) == [w EXCEPT !.bad = @ \union {what}]

Committing(c) == c.state # "INIT" \/ c.action # "START"

NeedForceAbort(c) == c.force /\ ~c.submitted

ForceAbortLogging(c) == c.force /\ c.submitting

Aborting(c) == NeedForceAbort(c) \/ ForceAbortLogging(c) \/ c.state = "ABORT"

NeedCallbackScheduler(c) == local /\ c.action = "COMMIT" /\ c.cb = "on"

(* The answer goes to commit_cb_ once, when the scheduler is local, and by *)
(* RPC otherwise.  A hint to retry (NOT_MASTER, SWITCHING) or a timeout    *)
(* tells the scheduler nothing about the outcome.                          *)
PostTxCommitResp(w, status) ==
    [w EXCEPT !.ans = @ \union ({status} \intersect Final),
              !.ctx.cb = IF local /\ @ = "on" THEN "used" ELSE @]

-------------------------------------------------------------------------------
(* Submitting logs                                                         *)

IsStateLog(has) == has \intersect {"commit", "abort"} # {}

FreezeCbBusy(c) == \E k \in DOMAIN c.busy : IsStateLog(c.busy[k].has)

(* free_cbs_ is not empty.  A final log has the freeze callback, any other *)
(* log one of the others.                                                  *)
HasFreeCb(c) ==
    Cardinality({k \in DOMAIN c.busy : ~IsStateLog(c.busy[k].has)}) + c.leaked < LogCbs

(* Mutant: a final log makes do with another callback.                     *)
HasAnyLogCb(c, final) == Len(c.busy) < (IF final THEN LogCbs + 1 ELSE LogCbs)

(* get_log_cb_: a final log goes out with the freeze callback or not at    *)
(* all, for the return code set when that callback is busy stays.          *)
HasLogCb(c, final) == IF final THEN ~FreezeCbBusy(c) ELSE HasFreeCb(c)

(* A final log without the freeze callback still takes a free one, which   *)
(* is neither used nor returned.                                           *)
NoLogCb(w, final) ==
    Fail([w EXCEPT !.ctx.leaked = IF final /\ HasFreeCb(w.ctx) THEN @ + 1 ELSE @], "NOLOGCB")

AfterSubmit(w, has, data) ==
    [w EXCEPT !.ret = "OK",
              !.log = Append(@, [has |-> has, data |-> data]),
              !.ctx.busy = Append(@, [pos |-> Len(w.log) + 1, has |-> has]),
              !.ctx.unlog = @ \ data,
              !.ctx.info = @ \/ "info" \in has,
              !.ctx.submitting = @ \/ IsStateLog(has),
              !.ctx.submitted = @ \/ IsStateLog(has),
              !.ctx.ver = @ \/ "commit" \in has]

SubmitOut(w, has, data) ==
    IF ~HasLogCb(w.ctx, IsStateLog(has)) THEN NoLogCb(w, IsStateLog(has))
    ELSE IF "abort" \notin has /\ (ForceAbortLogging(w.ctx) \/ w.ctx.state = "ABORT")
    THEN Fail(w, "KILLED")
    ELSE IF role # "leader" THEN Fail(w, "NOT_MASTER")
    ELSE AfterSubmit(w, has, data)

(* EAGAIN: the GTS callback will go on.                                    *)
GenerateCommitVersion(w, o) ==
    IF w.ctx.ver THEN Ok(w)
    ELSE IF w.ctx.gts # "no" THEN Fail(w, "EAGAIN")
    ELSE IF "gts" \in o THEN Ok([w EXCEPT !.ctx.prep = TRUE, !.ctx.ver = TRUE])
    ELSE Fail([w EXCEPT !.ctx.gts = "get"], "EAGAIN")

RedoAndInfo(c) == {"info"} \union (IF c.unlog = {} THEN {} ELSE {"redo"})

SubmitCommitLog(w, o) ==
    LET c == w.ctx
        first == SubmitOut(w, RedoAndInfo(c), c.unlog)
    IN  IF Aborting(c) THEN Fail(w, "KILLED")
        ELSE IF c.info THEN SubmitOut(w, {"commit"}, {})
        ELSE IF "split" \notin o
        THEN SubmitOut(w, RedoAndInfo(c) \union {"commit"}, c.unlog)
        ELSE IF first.ret # "OK" THEN first
        ELSE SubmitOut(first, {"commit"}, {})

(* "need submit log in log sync callback"                                  *)
IgnoreNoLogCb(w) == IF w.ret = "NOLOGCB" THEN Ok(w) ELSE w

(* submit_log_impl_(TX_COMMIT_LOG)                                         *)
SubmitCommit(w, o) ==
    LET g == IF w.ctx.prep THEN Ok(w) ELSE GenerateCommitVersion(w, o)
    IN  IgnoreNoLogCb(IF g.ret = "OK" /\ g.ctx.prep THEN SubmitCommitLog(g, o) ELSE g)

(* submit_log_impl_(TX_COMMIT_INFO_LOG)                                    *)
SubmitCommitInfo(w) ==
    IF Aborting(w.ctx) THEN Fail(w, "KILLED")
    ELSE IF w.ctx.info THEN Ok(w)
    ELSE IgnoreNoLogCb(SubmitOut(w, RedoAndInfo(w.ctx), w.ctx.unlog))

(* submit_log_impl_(TX_ACTIVE_INFO_LOG)                                    *)
SubmitActiveInfo(w) ==
    LET redo == IF w.ctx.unlog = {} THEN Ok(w) ELSE SubmitOut(w, {"redo"}, w.ctx.unlog)
    IN  IF redo.ret = "OK" THEN SubmitOut(redo, {"active"}, {}) ELSE redo

(* compensate_abort_log_, with submit_log_impl_(TX_ABORT_LOG)              *)
CompensateAbortLog(w) ==
    IF ForceAbortLogging(w.ctx) THEN Ok(w)
    ELSE SubmitOut([w EXCEPT !.ctx.force = TRUE, !.ctx.up = TRUE], {"abort"}, {})

(* Only a leader's context that is neither deciding nor waiting for GTS    *)
(* submits.  The return code is ignored.                                   *)
TrySubmitNextLog(w, o) ==
    LET c == w.ctx
    IN  IF /\ c.action = "COMMIT" /\ ~NeedForceAbort(c)
           /\ ~c.submitted /\ ~c.submitting /\ c.gts = "no"
           /\ c.state \in {"INIT", "REDO_COMPLETE"}
           /\ c.lead
        THEN SubmitCommit(w, o) ELSE w

-------------------------------------------------------------------------------
(* The end of the transaction                                              *)

OnLocalAbortTx(w) ==
    LET a == [w EXCEPT !.ctx.state = "ABORT", !.ctx.exit = TRUE]
    IN  Ok(IF w.ctx.action = "COMMIT" THEN PostTxCommitResp(a, "KILLED") ELSE a)

AfterLocalCommitSucc(w) ==
    LET p == PostTxCommitResp(w, "SUCCESS") IN Ok([p EXCEPT !.ctx.exit = TRUE])

OnLocalCommitTx(w, o) ==
    IF w.ctx.gts # "no" THEN Bad(w, "unexpected gts waiting flag")
    ELSE IF ~w.ctx.ver THEN Bad(w, "invalid commit version")
    ELSE IF "behind" \in o THEN [w EXCEPT !.ctx.state = "COMMIT", !.ctx.gts = "elapse"]
    ELSE AfterLocalCommitSucc([w EXCEPT !.ctx.state = "COMMIT"])

DoLocalAbortTx(w) ==
    IF w.ctx.persisted \/ w.ctx.busy # <<>> THEN CompensateAbortLog(w)
    ELSE OnLocalAbortTx([w EXCEPT !.ctx.force = TRUE])

(* do_local_tx_end_(ABORT_TX)                                              *)
AbortTx(w) ==
    LET a == DoLocalAbortTx(w)
    IN  IF a.ret = "OK" /\ a.ctx.action # "COMMIT"
        THEN [a EXCEPT !.ctx.action = "ABORT"] ELSE a

(* do_local_tx_end_(DELAY_ABORT_TX)                                        *)
DelayAbortTx(w) == Ok([w EXCEPT !.ctx.force = TRUE, !.ctx.unlog = {}])

(* do_local_tx_end_(COMMIT_TX): a log that cannot be submitted now is      *)
(* submitted by handle_timeout.                                            *)
OnePhaseCommit(w, o) ==
    LET a == CompensateAbortLog(w)
        g == GenerateCommitVersion(w, o)
    IN  IF w.ctx.force THEN (IF a.ret = "OK" THEN Fail(a, "KILLED") ELSE a)
        ELSE IF g.ret = "OK" THEN Ok(SubmitCommit(g, o)) ELSE Ok(g)

AbortSelf(w) == [AbortTx(w) EXCEPT !.ctx.action = "ABORT"]

Commit(w, o) ==
    LET c == w.ctx
        r == IF c.state = "INIT" \/ (c.state = "REDO_COMPLETE" /\ c.action = "START")
             THEN OnePhaseCommit(w, o)
             ELSE CASE c.state = "ABORT" -> Fail(w, "KILLED")
                    [] c.state = "COMMIT" -> Fail(w, "SUCCESS")
                    [] OTHER -> Ok(w)
    IN  IF ~c.lead /\ ~c.exit THEN Fail(w, "NOT_MASTER")
        ELSE IF r.ret # "OK" THEN r
        ELSE [r EXCEPT !.ctx.action = "COMMIT",
                       !.ctx.cb = IF @ = "off" THEN "on" ELSE @]

-------------------------------------------------------------------------------
(* Callbacks of the log                                                    *)

OnSuccessOps(w, e, o) ==
    LET c == w.ctx
        synced1 == [w EXCEPT
            !.ctx.persisted = TRUE,
            !.ctx.complete = @ \/ ("active" \in e.has /\ e.pos > c.swl),
            !.ctx.state = IF "info" \in e.has THEN "REDO_COMPLETE" ELSE @,
            !.ctx.submitting = @ /\ ~IsStateLog(e.has)]
    IN  IF "commit" \in e.has THEN OnLocalCommitTx(synced1, o)
        ELSE IF "abort" \in e.has THEN OnLocalAbortTx(synced1)
        ELSE synced1

OnSuccess(w, o) ==
    LET e == Head(w.ctx.busy)
        popped(v) == [v EXCEPT !.ctx.busy = Tail(@)]
        done == popped(OnSuccessOps(w, e, o))
    IN  IF w.ctx.exit /\ w.ctx.force THEN popped(w)
        ELSE IF w.ctx.exit
        THEN Bad(popped(w), "callback was missed when tx ctx exiting")
        ELSE IF ~IsStateLog(e.has) /\ Committing(done.ctx)
        THEN TrySubmitNextLog(done, o) ELSE done

OnFailure(w) ==
    LET e == Head(w.ctx.busy)
        last == Len(w.ctx.busy) = 1
        c == [w EXCEPT
            !.ctx.busy = Tail(@),
            !.ctx.submitting = @ /\ ~IsStateLog(e.has),
            !.ctx.prep = @ /\ "commit" \notin e.has,
            !.ctx.info = @ /\ ~("info" \in e.has /\ ~IsStateLog(e.has)),
            !.ctx.submitted = @ /\ ~(last /\ w.ctx.state \in {"INIT", "REDO_COMPLETE"})]
    IN  IF last /\ ~w.ctx.persisted THEN AbortTx(c) ELSE c

-------------------------------------------------------------------------------
(* Role changes of the context                                             *)

(* Mutant: an active info log is trusted without its data_complete_ check. *)
SwitchToLeaderTrusting(w, p, o) ==
    LET c == w.ctx
        t == [w EXCEPT !.ctx.lead = TRUE, !.ctx.complete = FALSE, !.ctx.swl = p]
    IN  IF c.exit THEN Ok(w)
        ELSE IF c.lead THEN Fail(w, "STATE_NOT_MATCH")
        ELSE Ok(TrySubmitNextLog(t, o))

(* Mutant: a context that has passed its commit info log is aborted too.   *)
SwitchToLeaderAborting(w, p, o) ==
    LET c == w.ctx
        t == [w EXCEPT !.ctx.lead = TRUE]
        r == IF c.complete THEN Ok(t) ELSE AbortTx(t)
    IN  IF c.exit THEN Ok(w)
        ELSE IF c.lead THEN Fail(w, "STATE_NOT_MATCH")
        ELSE IF r.ret # "OK" THEN [r EXCEPT !.ctx.lead = FALSE]
        ELSE Ok(TrySubmitNextLog([r EXCEPT !.ctx.complete = FALSE, !.ctx.swl = p], o))

(* The data of a transaction that has not reached its commit info log may  *)
(* be incomplete on the new leader, unless the last leader's active info   *)
(* log came after its start working log.                                   *)
SwitchToLeader(w, p, o) ==
    LET c == w.ctx
        t == [w EXCEPT !.ctx.lead = TRUE]
        r == IF c.state # "INIT" \/ c.complete THEN Ok(t)
             ELSE IF ~c.persisted THEN Bad(Ok(t), "unexpected trx which has not persisted log")
             ELSE IF c.action = "COMMIT" \/ c.up THEN AbortTx(t)
             ELSE [DelayAbortTx(t) EXCEPT !.ans = @ \union {"ABORTED"}]
    IN  IF c.exit THEN Ok(w)
        ELSE IF c.lead THEN Fail(w, "STATE_NOT_MATCH")
        ELSE IF r.ret # "OK" THEN [r EXCEPT !.ctx.lead = FALSE]
        ELSE Ok(TrySubmitNextLog([r EXCEPT !.ctx.complete = FALSE, !.ctx.swl = p], o))

ResumeLeader(w, p, o) ==
    TrySubmitNextLog(
        IF w.ctx.exit \/ w.ctx.lead THEN w
        ELSE [w EXCEPT !.ctx.lead = TRUE, !.ctx.complete = FALSE, !.ctx.swl = p], o)

(* Mutant: stepping down is taken for the end of the transaction.          *)
ForcedAnswerKilled(c) == "KILLED"

(* "no CommitInfoLog has been submitted, txn must abort"; otherwise the    *)
(* scheduler is told to retry.                                             *)
ForcedAnswer(c) == IF c.state = "INIT" /\ ~c.info THEN "KILLED" ELSE "NOT_MASTER"

SwitchToFollowerForcedly(w) ==
    LET c == w.ctx
        call == NeedCallbackScheduler(c)
        f == [w EXCEPT !.ctx.lead = FALSE]
        a == AbortTx(f)
        idle == c.busy = <<>> /\ ~c.submitted
        k == [f EXCEPT !.ctx.unlog = {}, !.ctx.prep = @ /\ ~idle, !.ctx.ver = @ /\ ~idle]
    IN  IF c.exit \/ ~c.lead THEN w
        ELSE IF ~c.persisted /\ c.busy = <<>>
        THEN IF call THEN a ELSE [a EXCEPT !.ans = @ \union {"ABORTED"}]
        ELSE IF call THEN PostTxCommitResp(k, ForcedAnswer(c)) ELSE k

SwitchToFollowerGracefully(w) ==
    LET c == w.ctx
        f == [w EXCEPT !.ctx.lead = FALSE]
        told == IF NeedCallbackScheduler(c) THEN PostTxCommitResp(f, "SWITCHING") ELSE f
        r == IF ~Committing(c)
             THEN IF NeedForceAbort(c) THEN Ok(f) ELSE SubmitActiveInfo(f)
             ELSE IF c.action # "COMMIT" THEN Ok(f)
             ELSE IF c.state = "INIT" /\ ~c.info /\ ~NeedForceAbort(c)
             THEN SubmitCommitInfo(told) ELSE Ok(told)
    IN  IF c.exit \/ ForceAbortLogging(c) \/ ~c.lead THEN Ok(w)
        ELSE IF r.ret = "OK" THEN r ELSE [r EXCEPT !.ctx.lead = TRUE]

-------------------------------------------------------------------------------
(* Actions: the statements and requests of the scheduler                   *)

(* A statement, from start_access to end_access.                           *)
WriteRow(d) ==
    /\ sched = "ACTIVE" /\ mode = "L_WORKING"
    /\ ctx.lead /\ ~ctx.exit /\ ~ctx.force /\ ~Committing(ctx)
    /\ d \notin written
    /\ written' = written \union {d}
    /\ ctx' = [ctx EXCEPT !.unlog = @ \union {d}]
    /\ UNCHANGED <<log, lsVars, local, sched, expired, ans, bad>>

(* What a commit request leaves behind.  The scheduler ignores SUCCESS and *)
(* NOT_MASTER in reply to a message, and codes it does not know.           *)
Reply(r) == [r EXCEPT !.ans = @ \union ({r.ret} \intersect Final)]

(* commit request of a scheduler, by a call or a message.  Another replica *)
(* or a log stream that is not working answers NOT_MASTER.                 *)
CommitRequest ==
    /\ sched = "IN_TERMINATE" /\ mode = "L_WORKING"
    /\ \E o \in Outcomes : Become(Reply(Commit(World, o)))
    /\ UNCHANGED <<lsVars, txVars>>

(* submit_commit_tx: the requests follow.  A transaction that timed out or *)
(* is known to have lost its participant is rolled back instead.           *)
SubmitCommitTx ==
    /\ sched = "ACTIVE" /\ written # {}
    /\ \/ ~expired /\ sched' = "IN_TERMINATE"
       \/ (expired \/ "ABORTED" \in ans) /\ sched' = "ABORTED"
    /\ UNCHANGED <<log, lsVars, ctx, local, written, expired, ans, bad>>

RollbackTx ==
    /\ sched = "ACTIVE" /\ sched' = "ABORTED"
    /\ UNCHANGED <<log, lsVars, ctx, local, written, expired, ans, bad>>

AbortRequest ==
    /\ sched = "ABORTED" /\ mode = "L_WORKING"
    /\ ctx.lead /\ ~Committing(ctx)
    /\ Become(AbortSelf(World))
    /\ UNCHANGED <<lsVars, txVars>>

(* handle_tx_commit_result, for any result but one to retry on, and        *)
(* handle_tx_commit_timeout: no more requests follow.                      *)
HandleTxCommitResult ==
    /\ sched = "IN_TERMINATE"
    /\ ans \intersect {"SUCCESS", "KILLED"} # {} \/ expired
    /\ sched' = "TERMINATED"
    /\ UNCHANGED <<log, lsVars, ctx, local, written, expired, ans, bad>>

Expire ==
    /\ ~expired /\ expired' = TRUE
    /\ UNCHANGED <<log, lsVars, ctx, local, written, sched, ans, bad>>

-------------------------------------------------------------------------------
(* Actions: what drives the context                                        *)

SubmitRedo ==
    /\ ctx.unlog # {} /\ ctx.state = "INIT" /\ ~ctx.submitting /\ ~ctx.submitted
    /\ LET r == SubmitOut(World, {"redo"}, ctx.unlog) IN r.ret = "OK" /\ Become(r)
    /\ UNCHANGED <<lsVars, txVars>>

LogSuccess ==
    /\ ctx.busy # <<>> /\ Head(ctx.busy).pos <= Len(log)
    /\ synced' = IF Head(ctx.busy).pos > synced THEN Head(ctx.busy).pos ELSE synced
    /\ \E o \in (IF IsStateLog(Head(ctx.busy).has) THEN {{}, {"behind"}} ELSE Outcomes) :
         Become(OnSuccess(World, o))
    /\ UNCHANGED <<role, swl, applying, swls, mode, txVars>>

LogFailure ==
    /\ role = "down" /\ ctx.busy # <<>> /\ Head(ctx.busy).pos > Len(log)
    /\ Become(OnFailure(World))
    /\ UNCHANGED <<lsVars, txVars>>

GetGtsCallback ==
    /\ ctx.gts = "get"
    /\ LET off == [World EXCEPT !.ctx.gts = "no"]
           on == [off EXCEPT !.ctx.ver = TRUE, !.ctx.prep = TRUE]
       IN  \E o \in Outcomes :
             Become(IF ctx.exit \/ ~ctx.lead THEN off
                    ELSE IF ctx.action # "COMMIT" \/ ctx.submitted THEN on
                    ELSE SubmitCommit(on, o))
    /\ UNCHANGED <<lsVars, txVars>>

GtsElapseCallback ==
    /\ ctx.gts = "elapse"
    /\ Become(AfterLocalCommitSucc([World EXCEPT !.ctx.gts = "no"]))
    /\ UNCHANGED <<lsVars, txVars>>

(* handle_timeout, one operator per paragraph                              *)
AnswerTimeout(w) ==
    IF w.ctx.action = "COMMIT" /\ expired THEN PostTxCommitResp(w, "TIMEOUT") ELSE w

GoOnFromRedoComplete(w, o) ==
    LET r == OnePhaseCommit(w, o)
    IN  IF w.ctx.state # "REDO_COMPLETE" \/ w.ctx.busy # <<>> THEN w
        ELSE IF r.ret = "OK" THEN [r EXCEPT !.ctx.action = "COMMIT"] ELSE r

RetryCommitting(w, o) == IF Committing(w.ctx) THEN TrySubmitNextLog(w, o) ELSE w

RetryAbortLog(w) ==
    IF w.ctx.up /\ w.ctx.state # "ABORT" THEN CompensateAbortLog(w) ELSE w

AbortExpired(w) == IF ~Committing(w.ctx) /\ expired THEN AbortSelf(w) ELSE w

(* The rest of the timer's work, once AnswerTimeout has run.               *)
TimerWork(w, o) ==
    AbortExpired(RetryAbortLog(RetryCommitting(GoOnFromRedoComplete(w, o), o)))

HandleTimeout ==
    /\ ctx.lead /\ ~ctx.exit /\ ctx.state # "COMMIT"
    /\ \E o \in Outcomes : Become(TimerWork(AnswerTimeout(World), o))
    /\ UNCHANGED <<lsVars, txVars>>

-------------------------------------------------------------------------------
(* Actions: role changes of the log stream                                 *)

SwlEntry == [has |-> {"swl"}, data |-> {}]

(* submit_start_working_log_ in the world w, once the transactions are     *)
(* done.                                                                   *)
SubmitSwl(w) ==
    /\ Become([w EXCEPT !.log = Append(@, SwlEntry)])
    /\ swl' = Len(w.log) + 1 /\ swls' = swls + 1

(* PALF loses the leadership; what was not agreed on may be lost.          *)
Revoke ==
    /\ role \in {"leader", "graceful"} /\ role' = "revoked"
    /\ \E k \in synced .. Len(log) : log' = SubSeq(log, 1, k)
    /\ UNCHANGED <<synced, swl, applying, swls, mode, ctx, txVars, ans, bad>>

(* The role change service turns the apply service into a follower: the    *)
(* callbacks of lost logs fail.                                            *)
ApplyToFollower ==
    /\ role = "revoked" /\ role' = "down"
    /\ UNCHANGED <<log, synced, swl, applying, swls, mode, ctx, txVars, ans, bad>>

(* It goes on once the callbacks are through.                              *)
SwitchForcedly ==
    /\ role = "down" /\ ctx.busy = <<>> /\ swl = 0
    /\ role' = "follower"
    /\ \/ /\ mode \in {"F_WORKING", "F_SWL_PENDING"}
          /\ UNCHANGED <<mode, log, ctx, ans, bad>>
       \/ /\ mode \in {"L_WORKING", "T_SYNC_FAILED", "R_SYNC_FAILED"}
          /\ mode' = "F_WORKING" /\ Become(SwitchToFollowerForcedly(World))
       \/ /\ mode \in {"T_APPLY_PENDING", "R_APPLY_PENDING"}
          /\ mode' = "F_SWL_PENDING" /\ Become(SwitchToFollowerForcedly(World))
    /\ UNCHANGED <<synced, swl, applying, swls, txVars>>

(* ObLSTxCtxMgr::switch_to_follower_gracefully walks over the contexts and *)
(* stops at the first that fails, this one or another, before or after it; *)
(* then the leader is resumed.                                             *)
SwitchGracefully ==
    /\ role \in {"leader", "revoked"}
    /\ mode \in {"L_WORKING", "T_SYNC_FAILED", "R_SYNC_FAILED"}
    /\ \E w \in {World, SwitchToFollowerGracefully(World)}, other \in BOOLEAN :
         /\ w = World => other \/ w = SwitchToFollowerGracefully(World)
         /\ \/ /\ w.ret = "OK" /\ ~other
               /\ mode' = "F_WORKING" /\ Become(w)
               /\ role' = IF role = "leader" THEN "graceful" ELSE role
               /\ UNCHANGED <<swl, swls>>
            \/ /\ w.ret # "OK" \/ other
               /\ role = "leader" /\ swl = 0 /\ swls < MaxSwl
               /\ mode' = "R_SYNC_PENDING" /\ SubmitSwl(w) /\ UNCHANGED role
            \/ /\ w.ret # "OK" \/ other
               /\ role = "revoked"
               /\ mode' = "R_SYNC_FAILED" /\ Become(w) /\ UNCHANGED <<role, swl, swls>>
    /\ UNCHANGED <<synced, applying, txVars>>

(* The callbacks are through and the leadership is handed over.            *)
FinishGraceful ==
    /\ role = "graceful" /\ ctx.busy = <<>> /\ role' = "follower"
    /\ UNCHANGED <<log, synced, swl, applying, swls, mode, ctx, txVars, ans, bad>>

(* Waiting for the callbacks took too long.                                *)
ResumeToLeader ==
    /\ role = "graceful" /\ swls < MaxSwl
    /\ role' = "leader" /\ mode' = "R_SYNC_PENDING" /\ SubmitSwl(World)
    /\ UNCHANGED <<synced, applying, txVars>>

(* switch_to_leader first gives up a start working log left by the last    *)
(* term.                                                                   *)
Elect ==
    /\ role = "follower" /\ swls < MaxSwl
    /\ mode \in {"F_WORKING", "F_SWL_PENDING"}
    /\ role' = "leader" /\ mode' = "T_SYNC_PENDING" /\ SubmitSwl(World)
    /\ UNCHANGED <<synced, applying, txVars>>

(* on_start_working_log_cb_succ, and its retry by the loop worker          *)
ApplySwl(p, m, o) ==
    LET t == SwitchToLeader(World, p, o)
    IN  \/ /\ m = "T_APPLY_PENDING" /\ Become(t)
           /\ mode' = IF t.ret = "OK" THEN "L_WORKING" ELSE m
        \/ /\ m = "R_APPLY_PENDING" /\ Become(ResumeLeader(World, p, o))
           /\ mode' = "L_WORKING"
        \/ /\ m = "F_SWL_PENDING" /\ UNCHANGED <<log, ctx, ans, bad>>
           /\ mode' = "F_WORKING"

SwlSuccess ==
    /\ swl # 0 /\ swl <= Len(log)
    /\ swl' = 0 /\ applying' = swl /\ synced' = IF swl > synced THEN swl ELSE synced
    /\ \E o \in Outcomes :
         ApplySwl(swl, IF mode = "T_SYNC_PENDING" THEN "T_APPLY_PENDING"
                       ELSE "R_APPLY_PENDING", o)
    /\ UNCHANGED <<role, swls, txVars>>

SwlFailure ==
    /\ role = "down" /\ swl > Len(log) /\ swl' = 0
    /\ mode' = IF mode = "T_SYNC_PENDING" THEN "T_SYNC_FAILED" ELSE "R_SYNC_FAILED"
    /\ UNCHANGED <<log, synced, role, applying, swls, ctx, txVars, ans, bad>>

RetryApplySwl ==
    /\ mode \in {"T_APPLY_PENDING", "R_APPLY_PENDING", "F_SWL_PENDING"}
    /\ \E o \in Outcomes : ApplySwl(applying, mode, o)
    /\ UNCHANGED <<synced, role, swl, applying, swls, txVars>>

-------------------------------------------------------------------------------
Step ==
    \/ \E d \in Write : WriteRow(d)
    \/ SubmitCommitTx \/ RollbackTx \/ CommitRequest \/ AbortRequest
    \/ HandleTxCommitResult \/ Expire
    \/ SubmitRedo \/ LogSuccess \/ LogFailure
    \/ GetGtsCallback \/ GtsElapseCallback \/ HandleTimeout
    \/ Revoke \/ ApplyToFollower \/ SwitchForcedly \/ SwitchGracefully
    \/ FinishGraceful \/ ResumeToLeader \/ Elect
    \/ SwlSuccess \/ SwlFailure \/ RetryApplySwl

(* The error branches abort the process.                                   *)
Next == bad = {} /\ Step

Spec == Init /\ [][Next]_vars

-------------------------------------------------------------------------------
(* Properties                                                              *)

(* What the scheduler is told is what happened: it hears SUCCESS only when *)
(* a commit log is agreed on, and KILLED (post_tx_commit_resp_, the reply  *)
(* of commit, the answer of switch_to_follower_forcedly) only when no      *)
(* commit log is or will be in the log, whatever leaders come and go.      *)
AnswerMatchesOutcome ==
    LET commits == {i \in 1 .. Len(log) : "commit" \in log[i].has}
    IN  /\ "SUCCESS" \in ans => \E i \in commits : i <= synced
        /\ "KILLED" \in ans => commits = {}

(* The log never holds both a commit and an abort log of the transaction:  *)
(* compensate_abort_log_ and submit_commit_log_ exclude each other across  *)
(* retries, role changes and failed callbacks.                             *)
OneDecision ==
    \A i, j \in 1 .. Len(log) : "commit" \in log[i].has => "abort" \notin log[j].has

(* A commit log follows the redo of every row the transaction wrote: data  *)
(* whose redo was lost with the leadership (switch_to_leader, with         *)
(* data_complete_ and start_working_log_ts_) is never committed in part.   *)
CommitHasAllData ==
    \A i \in 1 .. Len(log) :
        "commit" \in log[i].has => written \subseteq UNION {log[j].data : j \in 1 .. i}

(* on_success and switch_to_leader take none of their branches that log    *)
(* "callback was missed when tx ctx exiting", "unexpected gts waiting      *)
(* flag", "invalid commit version" or "unexpected trx which has not        *)
(* persisted log".                                                         *)
NothingUnexpected == bad = {}

===============================================================================
