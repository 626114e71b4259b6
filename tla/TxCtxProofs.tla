----------------------------- MODULE TxCtxProofs ------------------------------
(***************************************************************************)
(* Proofs about the participant context of a one-phase transaction, for    *)
(* any set of rows, any number of log callbacks and any number of role     *)
(* changes: the log decides once, a commit log follows all the data, the   *)
(* scheduler hears what happened, and none of the error branches is taken. *)
(***************************************************************************)
EXTENDS TxCtx, Integers, FiniteSetTheorems, TLAPS

-------------------------------------------------------------------------------
(* Types                                                                   *)

Parts == {"redo", "info", "commit", "abort", "active", "swl"}

EntryType == [has : SUBSET Parts, data : SUBSET Write]

CbType == [pos : Nat, has : SUBSET Parts]

CtxType ==
    [state : {"INIT", "REDO_COMPLETE", "COMMIT", "ABORT"}, up : BOOLEAN,
     action : {"START", "COMMIT", "ABORT"}, lead : BOOLEAN, info : BOOLEAN,
     submitting : BOOLEAN, submitted : BOOLEAN, force : BOOLEAN,
     gts : {"no", "get", "elapse"}, ver : BOOLEAN, prep : BOOLEAN,
     cb : {"off", "on", "used"}, complete : BOOLEAN, swl : Nat, persisted : BOOLEAN,
     unlog : SUBSET Write, busy : Seq(CbType), leaked : Nat, exit : BOOLEAN]

Errors == {"unexpected gts waiting flag", "invalid commit version",
           "callback was missed when tx ctx exiting",
           "unexpected trx which has not persisted log"}

Codes == {"OK", "NOLOGCB", "KILLED", "NOT_MASTER", "EAGAIN", "STATE_NOT_MATCH", "SUCCESS"}

WorldType ==
    [log : Seq(EntryType), ctx : CtxType, ans : SUBSET Final, bad : SUBSET Errors, ret : Codes]

Roles == {"leader", "graceful", "revoked", "down", "follower"}

Broken == {"revoked", "down"}

TModes == {"T_SYNC_PENDING", "T_APPLY_PENDING"}
FModes == {"F_WORKING", "F_SWL_PENDING"}
FailedModes == {"T_SYNC_FAILED", "R_SYNC_FAILED"}

Modes == TModes \union FModes \union FailedModes
            \union {"L_WORKING", "R_SYNC_PENDING", "R_APPLY_PENDING"}

TypeOK ==
    /\ log \in Seq(EntryType) /\ synced \in Nat /\ role \in Roles
    /\ swl \in Nat /\ applying \in Nat /\ swls \in Nat /\ mode \in Modes
    /\ ctx \in CtxType /\ local \in BOOLEAN /\ written \in SUBSET Write
    /\ sched \in {"ACTIVE", "IN_TERMINATE", "ABORTED", "TERMINATED"}
    /\ ans \in SUBSET Final /\ expired \in BOOLEAN /\ bad \in SUBSET Errors

-------------------------------------------------------------------------------
(* The inductive invariant, of a log l, a context c and the answers a in   *)
(* an environment e: what a call of the context's functions finds and      *)
(* leaves alone.                                                           *)

EnvType == [role : Roles, mode : Modes, synced : Nat, written : SUBSET Write, swl : Nat]

Env == [role |-> role, mode |-> mode, synced |-> synced, written |-> written, swl |-> swl]

(* A part occurs in the log, or among the callbacks.                       *)
Has(s, p) == \E i \in 1 .. Len(s) : p \in s[i].has

(* The redo of the rows W is in the first n entries.                       *)
HasData(l, n, W) == \A x \in W : \E j \in 1 .. n : x \in l[j].data

(* The callbacks come in the order of the log, and belong to entries of    *)
(* the log or to entries that were cut off with the leadership.            *)
BusyInv(l, c, e) ==
    /\ \A k, i \in 1 .. Len(c.busy) : k < i => c.busy[k].pos < c.busy[i].pos
    /\ \A k \in 1 .. Len(c.busy) :
          /\ c.busy[k].pos > 0
          /\ c.busy[k].pos <= Len(l) => l[c.busy[k].pos].has = c.busy[k].has
          /\ e.role \notin Broken => c.busy[k].pos <= Len(l)
    /\ e.role = "follower" => c.busy = <<>>

(* A part is in one of the first n entries of the log.                     *)
Agreed(l, n, p) == \E i \in 1 .. n : i <= Len(l) /\ p \in l[i].has

(* A commit log is agreed on exactly when the context is in COMMIT, and    *)
(* nothing follows it.                                                     *)
CommitInv(l, c, e) ==
    /\ \A i \in 1 .. Len(l) : "commit" \in l[i].has =>
          c.state = "COMMIT" \/ \E k \in 1 .. Len(c.busy) : c.busy[k].pos = i
    /\ c.state = "COMMIT" => Agreed(l, e.synced, "commit") /\ c.submitted /\ c.busy = <<>>
    /\ \A k, i \in 1 .. Len(c.busy) : k < i => "commit" \notin c.busy[k].has

(* force_abort excludes a commit log for good.                             *)
ForceInv(l, c) ==
    /\ c.force => ~Has(l, "commit") /\ ~Has(c.busy, "commit")
    /\ Has(l, "abort") \/ Has(c.busy, "abort") => c.force
    /\ c.up => c.force
    /\ c.state = "ABORT" => c.force /\ c.exit
    /\ c.exit => c.state \in {"COMMIT", "ABORT"}
    /\ c.gts = "elapse" => c.state = "COMMIT"
    /\ c.state \in {"COMMIT", "REDO_COMPLETE"} => c.persisted

(* The flags of the state log say what is in flight, until the leadership  *)
(* is lost.                                                                *)
SubmitInv(c, e) ==
    /\ c.submitted => \/ c.state \in {"COMMIT", "ABORT"}
                      \/ c.busy # <<>> /\ IsStateLog(c.busy[Len(c.busy)].has)
    /\ \A k \in 1 .. Len(c.busy) : IsStateLog(c.busy[k].has) =>
          /\ c.submitted
          /\ e.role \notin Broken /\ c.state \notin {"COMMIT", "ABORT"} => c.submitting
          /\ e.role \notin Broken /\ "commit" \in c.busy[k].has => c.info
    /\ Has(c.busy, "commit") => c.ver

(* A prepared context has a version, one that waits for GTS has none.      *)
VersionInv(c) == (c.prep => c.ver) /\ (c.gts = "get" => ~c.ver)

(* A context that matters to others, or has lost a callback, has a log, in *)
(* flight or persisted.                                                    *)
PersistInv(c) ==
    c.force \/ c.info \/ ~c.lead \/ c.leaked # 0 => c.busy # <<>> \/ c.persisted \/ c.exit

(* What a context may do while its log stream is a follower, or on the way *)
(* to lead again.                                                          *)
PhaseInv(c, e) ==
    /\ e.mode \in TModes \union FModes => ~c.lead \/ c.exit \/ c.force
    /\ e.mode \in TModes =>
          /\ c.persisted \/ c.exit
          /\ ~Has(c.busy, "active") /\ ~Has(c.busy, "info") /\ ~Has(c.busy, "commit")
    /\ e.swl # 0 => \A k \in 1 .. Len(c.busy) : "active" \in c.busy[k].has => c.busy[k].pos < e.swl

(* A context that switch_to_leader is going to abort, for its data may be  *)
(* incomplete.                                                             *)
Lost(c, e) ==
    /\ c.state = "INIT" /\ ~c.lead /\ ~c.complete
    /\ e.mode \in TModes \union FModes /\ e.role # "graceful"

(* No commit log without a commit info log, no commit info log without the *)
(* data.  A context that can submit them has lost no data, unless it is    *)
(* bound to abort.                                                         *)
DataInv(l, c, e) ==
    /\ \A i \in 1 .. Len(l) : "commit" \in l[i].has => \E j \in 1 .. i : "info" \in l[j].has
    /\ \A i \in 1 .. Len(l) : "info" \in l[i].has => HasData(l, i, e.written)
    /\ e.role \notin Broken =>
          HasData(l, Len(l), e.written \ c.unlog) \/ c.force \/ Lost(c, e)
    /\ e.role \notin Broken /\ c.info => Has(l, "info") \/ c.force \/ Lost(c, e)
    /\ c.state = "REDO_COMPLETE" => Agreed(l, e.synced, "info")

(* data_complete_, and the active info log that is going to set it, can be *)
(* trusted.                                                                *)
Sets(c, k) == "active" \in c.busy[k].has /\ c.busy[k].pos > c.swl

ActiveInv(l, c, e) ==
    /\ c.complete => ~c.lead /\ ~c.info /\ HasData(l, e.synced, e.written)
    /\ \A k \in 1 .. Len(c.busy) : Sets(c, k) =>
          /\ ~c.lead /\ ~c.info
          /\ c.busy[k].pos <= Len(l) => HasData(l, c.busy[k].pos, e.written)

(* A context whose scheduler has been told that it is killed, and which    *)
(* switch_to_leader is going to abort.                                     *)
Doomed(c, e) ==
    /\ c.state = "INIT" /\ ~c.lead /\ ~c.complete /\ c.busy = <<>> /\ c.unlog = {}
    /\ e.mode \in TModes \union FModes \union FailedModes /\ e.role # "graceful"

AnsInv(l, c, a, e) ==
    /\ "KILLED" \in a => c.force \/ Doomed(c, e)
    /\ "SUCCESS" \in a => Agreed(l, e.synced, "commit")

(* All but PersistInv, which a context leaves for a moment when it steps   *)
(* down, until its active info or commit info log is submitted.            *)
CoreInv(l, c, a, e) ==
    /\ e.synced <= Len(l)
    /\ BusyInv(l, c, e) /\ CommitInv(l, c, e) /\ ForceInv(l, c) /\ SubmitInv(c, e)
    /\ VersionInv(c) /\ PhaseInv(c, e) /\ DataInv(l, c, e) /\ ActiveInv(l, c, e) /\ AnsInv(l, c, a, e)

CtxInv(l, c, a, e) == CoreInv(l, c, a, e) /\ PersistInv(c)

(* The action of the context, which a commit request sets last.            *)
ActInv(l, c) ==
    /\ c.info => c.action = "COMMIT"
    /\ c.action = "ABORT" => c.force
    /\ \A p \in {"info", "commit"} : Has(l, p) \/ Has(c.busy, p) => c.action = "COMMIT"

(* Where the role change of the log stream stands.                         *)
ModeInv ==
    /\ swl # 0 <=> mode \in {"T_SYNC_PENDING", "R_SYNC_PENDING"}
    /\ mode # "R_APPLY_PENDING"
    /\ role = "leader" => mode \in {"L_WORKING", "R_SYNC_PENDING"} \union TModes
    /\ role = "graceful" => mode = "F_WORKING"
    /\ role = "follower" => mode \in FModes
    /\ mode \in FailedModes => role \in Broken

IInv ==
    /\ TypeOK /\ NothingUnexpected
    /\ ModeInv /\ ActInv(log, ctx) /\ CtxInv(log, ctx, ans, Env)
    /\ AnswerMatchesOutcome /\ OneDecision /\ CommitHasAllData

-------------------------------------------------------------------------------
(* Submitting a log                                                        *)

(* A context is what its fields are, and so is a world.                    *)
Typed(c) ==
    /\ c.state \in {"INIT", "REDO_COMPLETE", "COMMIT", "ABORT"}
    /\ c.action \in {"START", "COMMIT", "ABORT"} /\ c.gts \in {"no", "get", "elapse"}
    /\ c.cb \in {"off", "on", "used"} /\ c.swl \in Nat
    /\ c.up \in BOOLEAN /\ c.lead \in BOOLEAN /\ c.info \in BOOLEAN
    /\ c.submitting \in BOOLEAN /\ c.submitted \in BOOLEAN /\ c.force \in BOOLEAN
    /\ c.ver \in BOOLEAN /\ c.prep \in BOOLEAN /\ c.complete \in BOOLEAN
    /\ c.persisted \in BOOLEAN /\ c.exit \in BOOLEAN
    /\ c.unlog \in SUBSET Write /\ c.busy \in Seq(CbType) /\ c.leaked \in Nat

CtxShaped(c) ==
    c = [state |-> c.state, up |-> c.up, action |-> c.action, lead |-> c.lead,
         info |-> c.info, submitting |-> c.submitting, submitted |-> c.submitted,
         force |-> c.force, gts |-> c.gts, ver |-> c.ver, prep |-> c.prep, cb |-> c.cb,
         complete |-> c.complete, swl |-> c.swl, persisted |-> c.persisted,
         unlog |-> c.unlog, busy |-> c.busy, leaked |-> c.leaked, exit |-> c.exit]

(* A context is well typed when each of its fields is.                     *)
LEMMA CtxIs ==
    ASSUME NEW c
    PROVE  /\ c \in CtxType => Typed(c) /\ CtxShaped(c)
           /\ Typed(c) /\ CtxShaped(c) => c \in CtxType
<1>1. c \in CtxType => Typed(c)
    BY DEF CtxType, Typed
<1>2. c \in CtxType => CtxShaped(c)
    BY DEF CtxType, CtxShaped
<1>3. Typed(c) /\ CtxShaped(c) => c \in CtxType
    BY DEF CtxType, CtxShaped, Typed
<1> QED
    BY <1>1, <1>2, <1>3

Shaped(v) == v = [log |-> v.log, ctx |-> v.ctx, ans |-> v.ans, bad |-> v.bad, ret |-> v.ret]

(* A world is well typed when each of its fields is.                       *)
LEMMA WorldIs ==
    ASSUME NEW v, Shaped(v), v.log \in Seq(EntryType), v.ctx \in CtxType,
           v.ans \in SUBSET Final, v.bad \in SUBSET Errors, v.ret \in Codes
    PROVE  v \in WorldType
    BY DEF WorldType, Shaped

(* What all the changes of a context in flight leave alone.                *)
Kept(c, d) ==
    /\ d.state = c.state /\ d.up = c.up /\ d.action = c.action /\ d.lead = c.lead
    /\ d.force = c.force /\ d.cb = c.cb /\ d.complete = c.complete /\ d.swl = c.swl
    /\ d.persisted = c.persisted /\ d.exit = c.exit

Added(s, t, x) ==
    /\ Len(t) = Len(s) + 1 /\ t[Len(s) + 1] = x
    /\ \A i \in 1 .. Len(s) : t[i] = s[i]

(* AfterSubmit, field by field.                                            *)
Submits(l, c, m, d, has, data) ==
    /\ Added(l, m, [has |-> has, data |-> data])
    /\ Added(c.busy, d.busy, [pos |-> Len(l) + 1, has |-> has])
    /\ d.unlog = c.unlog \ data
    /\ d.info <=> c.info \/ "info" \in has
    /\ d.submitting <=> c.submitting \/ IsStateLog(has)
    /\ d.submitted <=> c.submitted \/ IsStateLog(has)
    /\ d.ver <=> c.ver \/ "commit" \in has
    /\ d.gts = c.gts /\ d.prep = c.prep /\ d.leaked = c.leaked
    /\ Kept(c, d)

(* Append adds one element at the end.                                     *)
LEMMA AppendAdds ==
    ASSUME NEW S, NEW s \in Seq(S), NEW x \in S
    PROVE  Append(s, x) \in Seq(S) /\ Added(s, Append(s, x), x)
    BY DEF Added

SubmitCtx(c, n, has, data) ==
    [c EXCEPT !.busy = Append(@, [pos |-> n + 1, has |-> has]),
              !.unlog = @ \ data,
              !.info = @ \/ "info" \in has,
              !.submitting = @ \/ IsStateLog(has),
              !.submitted = @ \/ IsStateLog(has),
              !.ver = @ \/ "commit" \in has]

(* What AfterSubmit changes.                                               *)
LEMMA AfterSubmitFields ==
    ASSUME NEW w \in WorldType, NEW has \in SUBSET Parts, NEW data \in SUBSET Write,
           NEW v, v = AfterSubmit(w, has, data)
    PROVE  /\ v \in WorldType /\ v.ret = "OK" /\ v.ans = w.ans /\ v.bad = w.bad
           /\ Submits(w.log, w.ctx, v.log, v.ctx, has, data)
<1> DEFINE x == [has |-> has, data |-> data]
           y == [pos |-> Len(w.log) + 1, has |-> has]
<1>1. w.log \in Seq(EntryType) /\ w.ctx \in CtxType /\ w.ctx.busy \in Seq(CbType)
    BY DEF WorldType, CtxType
<1>2. x \in EntryType /\ y \in CbType
    BY <1>1 DEF EntryType, CbType
<1>3. v.log = Append(w.log, x) /\ v.ans = w.ans /\ v.bad = w.bad /\ v.ret = "OK"
    BY DEF AfterSubmit, WorldType
<1>4. v.ctx = SubmitCtx(w.ctx, Len(w.log), has, data)
    BY DEF AfterSubmit, WorldType, CtxType, SubmitCtx
<1>5. /\ v.ctx.busy = Append(w.ctx.busy, y)
      /\ v.ctx.unlog = w.ctx.unlog \ data
      /\ v.ctx.info = (w.ctx.info \/ "info" \in has)
      /\ v.ctx.submitting = (w.ctx.submitting \/ IsStateLog(has))
      /\ v.ctx.submitted = (w.ctx.submitted \/ IsStateLog(has))
      /\ v.ctx.ver = (w.ctx.ver \/ "commit" \in has)
    BY <1>1, <1>4 DEF SubmitCtx, CtxType
<1>6. /\ Kept(w.ctx, v.ctx) /\ v.ctx.gts = w.ctx.gts /\ v.ctx.prep = w.ctx.prep
      /\ v.ctx.leaked = w.ctx.leaked
    BY <1>1, <1>4 DEF SubmitCtx, CtxType, Kept
<1>7. /\ Append(w.log, x) \in Seq(EntryType) /\ Added(w.log, Append(w.log, x), x)
      /\ Append(w.ctx.busy, y) \in Seq(CbType) /\ Added(w.ctx.busy, Append(w.ctx.busy, y), y)
    BY <1>1, <1>2, AppendAdds
<1>8. v.ctx \in CtxType
    <2>1. CtxShaped(v.ctx)
        BY <1>1, <1>4 DEF SubmitCtx, CtxType, CtxShaped
    <2>2. v.ctx.busy \in Seq(CbType)
        BY <1>5, <1>7
    <2>3. Typed(v.ctx)
        BY <1>1, <1>5, <1>6, <2>2, CtxIs DEF Typed, Kept
    <2> QED
        BY <2>1, <2>3, CtxIs
<1>9. v \in WorldType
    <2>1. Shaped(v)
        BY DEF AfterSubmit, WorldType, Shaped
    <2>2. v.ans \in SUBSET Final /\ v.bad \in SUBSET Errors /\ v.ret \in Codes
        BY <1>3 DEF WorldType, Codes
    <2>3. v.log \in Seq(EntryType)
        BY <1>3, <1>7
    <2> QED
        BY <1>8, <2>1, <2>2, <2>3, WorldIs, Zenon
<1> QED
    BY <1>3, <1>5, <1>6, <1>7, <1>9 DEF Submits

(* When a log may be submitted.                                            *)
NoActive(c) == ~c.complete /\ \A k \in 1 .. Len(c.busy) : ~Sets(c, k)

Allowed(l, c, e, has, data) ==
    /\ e.role = "leader" /\ c.state \in {"INIT", "REDO_COMPLETE"}
    /\ c.force \/ ~Doomed(c, e)
    /\ ~IsStateLog(has) => ~c.submitted
    /\ "abort" \in has => has = {"abort"} /\ c.force
    /\ "commit" \in has => /\ ~c.force /\ c.ver
                           /\ c.info => has = {"commit"} /\ Has(l, "info")
                           /\ ~c.info => "info" \in has
    /\ "info" \in has => /\ NoActive(c) /\ data = c.unlog
                         /\ HasData(l, Len(l), e.written \ c.unlog)
    /\ "active" \in has => /\ has = {"active"} /\ ~c.lead /\ ~c.info /\ e.swl = 0
                           /\ HasData(l, Len(l), e.written)
    /\ e.mode \in TModes => {"active", "info", "commit"} \intersect has = {}

(* The callback of a final log is free.                                    *)
CbFree(c, has) ==
    IsStateLog(has) => \A k \in 1 .. Len(c.busy) : ~IsStateLog(c.busy[k].has)

(* The parts of a log after one more entry.                                *)
LEMMA HasAdded ==
    ASSUME NEW s, NEW t, NEW x, Added(s, t, x), Len(s) \in Nat, NEW p
    PROVE  Has(t, p) <=> Has(s, p) \/ p \in x.has
    BY DEF Has, Added

(* The data of a log after one more entry.                                 *)
LEMMA DataAdded ==
    ASSUME NEW l, NEW m, NEW x, Added(l, m, x), Len(l) \in Nat, NEW W
    PROVE  /\ \A n \in 0 .. Len(l) : HasData(m, n, W) <=> HasData(l, n, W)
           /\ \A V : HasData(l, Len(l), W) /\ V \subseteq W \union x.data => HasData(m, Len(m), V)
<1>1. ASSUME NEW n \in 0 .. Len(l) PROVE HasData(m, n, W) <=> HasData(l, n, W)
    <2>1. \A j \in 1 .. n : m[j] = l[j]
        BY DEF Added
    <2> QED
        BY <2>1 DEF HasData
<1>2. ASSUME NEW V, HasData(l, Len(l), W), V \subseteq W \union x.data PROVE HasData(m, Len(m), V)
    <2> SUFFICES ASSUME NEW y \in V PROVE \E j \in 1 .. Len(m) : y \in m[j].data
        BY DEF HasData
    <2>1. CASE y \in W
        BY <2>1, <1>2 DEF HasData, Added
    <2>2. CASE y \in x.data
        BY <2>2 DEF Added
    <2> QED
        BY <1>2, <2>1, <2>2
<1> QED
    BY <1>1, <1>2

(* What is agreed on stays so when the log grows.                          *)
LEMMA AgreedAdded ==
    ASSUME NEW l, NEW m, NEW x, Added(l, m, x), Len(l) \in Nat, NEW n \in Nat, NEW p,
           Agreed(l, n, p)
    PROVE  Agreed(m, n, p)
    BY DEF Agreed, Added

(* A log that may be submitted keeps the invariant.                        *)
LEMMA SubmitKeeps ==
    ASSUME NEW l \in Seq(EntryType), NEW c \in CtxType, NEW m \in Seq(EntryType), NEW d \in CtxType,
           NEW a, NEW e \in EnvType, NEW has \in SUBSET Parts, NEW data \in SUBSET Write,
           CoreInv(l, c, a, e), Submits(l, c, m, d, has, data), Allowed(l, c, e, has, data),
           CbFree(c, has)
    PROVE  CtxInv(m, d, a, e)
<1> DEFINE x == [has |-> has, data |-> data]
           y == [pos |-> Len(l) + 1, has |-> has]
           n == Len(c.busy)
<1>1. /\ Len(l) \in Nat /\ n \in Nat /\ Len(m) = Len(l) + 1 /\ Len(d.busy) = n + 1
      /\ x.has = has /\ x.data = data /\ y.has = has /\ y.pos = Len(l) + 1
      /\ Added(l, m, x) /\ Added(c.busy, d.busy, y)
      /\ e.synced \in Nat /\ e.synced <= Len(l) /\ e.role = "leader" /\ e.role \notin Broken
    <2>1. Len(l) \in Nat /\ n \in Nat
        BY DEF CtxType
    <2>2. x.has = has /\ x.data = data /\ y.has = has /\ y.pos = Len(l) + 1
        OBVIOUS
    <2>3. Added(l, m, x) /\ Added(c.busy, d.busy, y)
        BY DEF Submits
    <2>4. e.synced \in Nat /\ e.synced <= Len(l) /\ e.role = "leader" /\ e.role \notin Broken
        BY DEF EnvType, CoreInv, Allowed, Broken
    <2>5. Len(m) = Len(l) + 1 /\ Len(d.busy) = n + 1
        BY <2>3 DEF Added
    <2> QED
        BY <2>1, <2>2, <2>3, <2>4, <2>5
<1>2. /\ \A p : Has(m, p) <=> Has(l, p) \/ p \in has
      /\ \A p : Has(d.busy, p) <=> Has(c.busy, p) \/ p \in has
    BY <1>1, HasAdded
<1>3. /\ m[Len(l) + 1] = x /\ \A i \in 1 .. Len(l) : m[i] = l[i]
      /\ d.busy[n + 1] = y /\ \A k \in 1 .. n : d.busy[k] = c.busy[k]
    BY <1>1 DEF Added
<1>4. Kept(c, d) /\ d.gts = c.gts /\ d.prep = c.prep /\ d.unlog = c.unlog \ data
    BY DEF Submits
<1>5. /\ d.info <=> c.info \/ "info" \in has
      /\ d.submitting <=> c.submitting \/ IsStateLog(has)
      /\ d.submitted <=> c.submitted \/ IsStateLog(has)
      /\ d.ver <=> c.ver \/ "commit" \in has
    BY DEF Submits
<1>6. BusyInv(l, c, e) /\ CommitInv(l, c, e) /\ ForceInv(l, c) /\ SubmitInv(c, e)
    BY DEF CoreInv
<1>7. PhaseInv(c, e) /\ DataInv(l, c, e) /\ ActiveInv(l, c, e) /\ AnsInv(l, c, a, e)
    BY DEF CoreInv
<1>8. d.state = c.state /\ d.state # "COMMIT" /\ d.state # "ABORT"
    BY <1>4 DEF Kept, Allowed
<1>9. \A k \in 1 .. n + 1 : k \in 1 .. n \/ k = n + 1
    BY <1>1
<1>10. d.busy # <<>>
    BY <1>1
<1>11. BusyInv(m, d, e)
    <2>1. \A k \in 1 .. n : c.busy[k].pos \in Nat /\ c.busy[k].pos > 0 /\ c.busy[k].pos <= Len(l)
        <3>1. \A k \in 1 .. n : c.busy[k] \in CbType
            BY DEF CtxType
        <3> QED
            BY <3>1, <1>1, <1>6 DEF BusyInv, CbType
    <2>2. \A k \in 1 .. n + 1 : /\ d.busy[k].pos > 0 /\ d.busy[k].pos <= Len(m)
                                /\ m[d.busy[k].pos].has = d.busy[k].has
        <3>1. ASSUME NEW k \in 1 .. n
              PROVE  /\ d.busy[k].pos > 0 /\ d.busy[k].pos <= Len(m)
                     /\ m[d.busy[k].pos].has = d.busy[k].has
            <4>1. d.busy[k] = c.busy[k] /\ c.busy[k].pos \in 1 .. Len(l)
                BY <1>3, <2>1, <1>1
            <4>2. m[c.busy[k].pos] = l[c.busy[k].pos]
                BY <1>3, <4>1
            <4>3. l[c.busy[k].pos].has = c.busy[k].has
                BY <1>6, <4>1, <1>1 DEF BusyInv
            <4> QED
                BY SMTT(30), <4>1, <4>2, <4>3, <1>1
        <3>2. /\ d.busy[n + 1].pos > 0 /\ d.busy[n + 1].pos <= Len(m)
              /\ m[d.busy[n + 1].pos].has = d.busy[n + 1].has
            BY <1>1, <1>3
        <3> QED
            BY <3>1, <3>2, <1>9
    <2>3. ASSUME NEW k \in 1 .. n + 1, NEW i \in 1 .. n + 1, k < i
          PROVE  d.busy[k].pos < d.busy[i].pos
        <3>1. k \in 1 .. n /\ d.busy[k] = c.busy[k]
            BY <2>3, <1>1, <1>3
        <3>2. CASE i = n + 1
            BY <3>1, <3>2, <2>1, <1>1, <1>3
        <3>3. CASE i \in 1 .. n
            BY <2>3, <3>1, <3>3, <1>3, <1>6 DEF BusyInv
        <3> QED
            BY <3>2, <3>3, <1>9
    <2> QED
        BY <1>1, <2>2, <2>3 DEF BusyInv
<1>12. ~Has(c.busy, "commit")
    <2>1. SUFFICES ASSUME NEW k \in 1 .. n, "commit" \in c.busy[k].has PROVE FALSE
        BY DEF Has
    <2>2. c.submitted /\ IsStateLog(c.busy[k].has)
        BY <1>6, <2>1 DEF SubmitInv, IsStateLog
    <2>3. IsStateLog(has)
        BY <2>2 DEF Allowed
    <2> QED
        BY <2>2, <2>3 DEF CbFree
<1>13. CommitInv(m, d, e)
    <2>1. ASSUME NEW i \in 1 .. Len(m), "commit" \in m[i].has
          PROVE  \E k \in 1 .. Len(d.busy) : d.busy[k].pos = i
        <3>1. CASE i = Len(l) + 1
            BY SMTT(30), <3>1, <1>1, <1>3
        <3>2. CASE i \in 1 .. Len(l)
            <4>1. "commit" \in l[i].has
                BY <3>2, <2>1, <1>3
            <4>2. PICK k \in 1 .. n : c.busy[k].pos = i
                BY <3>2, <4>1, <1>6, <1>8 DEF CommitInv
            <4>3. k \in 1 .. Len(d.busy) /\ d.busy[k].pos = i
                BY <4>2, <1>1, <1>3
            <4> QED
                BY <4>3
        <3> QED
            BY <3>1, <3>2, <1>1
    <2>2. ASSUME NEW k \in 1 .. Len(d.busy), NEW i \in 1 .. Len(d.busy), k < i
          PROVE  "commit" \notin d.busy[k].has
        <3>1. k \in 1 .. n
            BY <2>2, <1>1, <1>9
        <3>2. d.busy[k] = c.busy[k]
            BY <3>1, <1>3
        <3> QED
            BY <3>1, <3>2, <1>12 DEF Has
    <2> QED
        BY <1>8, <2>1, <2>2 DEF CommitInv
<1>14. ForceInv(m, d)
    BY <1>2, <1>4, <1>6 DEF ForceInv, Kept, Allowed
<1>15. SubmitInv(d, e)
    <2>1. d.submitted => IsStateLog(d.busy[Len(d.busy)].has)
        BY <1>1, <1>3, <1>5 DEF Allowed
    <2>2. ASSUME NEW k \in 1 .. Len(d.busy), IsStateLog(d.busy[k].has)
          PROVE  d.submitted /\ d.submitting /\ ("commit" \in d.busy[k].has => d.info)
        <3>1. CASE k = n + 1
            BY <2>2, <3>1, <1>1, <1>3, <1>5 DEF Allowed
        <3>2. CASE k \in 1 .. n
            BY <2>2, <3>2, <1>1, <1>3, <1>5, <1>6, <1>8 DEF SubmitInv
        <3> QED
            BY <3>1, <3>2, <1>1, <1>9
    <2>3. Has(d.busy, "commit") => d.ver
        BY <1>2, <1>5, <1>6 DEF SubmitInv
    <2> QED
        BY <1>10, <2>1, <2>2, <2>3 DEF SubmitInv
<1>16. PersistInv(d)
    BY <1>10 DEF PersistInv
<1>17. PhaseInv(d, e)
    <2>1. ASSUME e.swl # 0, NEW k \in 1 .. Len(d.busy), "active" \in d.busy[k].has
          PROVE  d.busy[k].pos < e.swl
        <3>1. CASE k = n + 1
            BY <2>1, <3>1, <1>1, <1>3 DEF Allowed
        <3>2. CASE k \in 1 .. n
            BY <2>1, <3>2, <1>1, <1>3, <1>7 DEF PhaseInv
        <3> QED
            BY <3>1, <3>2, <1>1, <1>9
    <2>2. e.mode \in TModes => ~Has(d.busy, "active") /\ ~Has(d.busy, "info") /\ ~Has(d.busy, "commit")
        BY <1>2, <1>7 DEF PhaseInv, Allowed
    <2> QED
        BY <1>4, <1>7, <2>1, <2>2 DEF PhaseInv, Kept
<1>18. Lost(d, e) <=> Lost(c, e)
    BY <1>4 DEF Lost, Kept
<1>19. DataInv(m, d, e)
    <2>1. ASSUME NEW i \in 1 .. Len(m), "commit" \in m[i].has
          PROVE  \E j \in 1 .. i : "info" \in m[j].has
        <3>1. CASE i = Len(l) + 1
            <4>1. "info" \in has \/ Has(l, "info")
                BY <2>1, <3>1, <1>1, <1>3 DEF Allowed
            <4> QED
                BY <3>1, <4>1, <1>1, <1>3 DEF Has
        <3>2. CASE i \in 1 .. Len(l)
            <4>1. PICK j \in 1 .. i : "info" \in l[j].has
                BY <2>1, <3>2, <1>1, <1>3, <1>7 DEF DataInv
            <4>2. j \in 1 .. Len(l)
                BY <3>2, <4>1, <1>1
            <4> QED
                BY <4>1, <4>2, <1>3
        <3> QED
            BY <3>1, <3>2, <1>1
    <2>2. ASSUME NEW i \in 1 .. Len(m), "info" \in m[i].has PROVE HasData(m, i, e.written)
        <3>1. CASE i = Len(l) + 1
            BY <2>2, <3>1, <1>1, <1>3, DataAdded DEF Allowed
        <3>2. CASE i \in 1 .. Len(l)
            <4>1. HasData(l, i, e.written)
                BY <2>2, <3>2, <1>3, <1>7 DEF DataInv
            <4>2. i \in 0 .. Len(l)
                BY <3>2
            <4> QED
                BY <4>1, <4>2, <1>1, DataAdded
        <3> QED
            BY <3>1, <3>2, <1>1
    <2>3. HasData(l, Len(l), e.written \ c.unlog) => HasData(m, Len(m), e.written \ d.unlog)
        <3>1. e.written \ d.unlog \subseteq (e.written \ c.unlog) \union x.data
            BY <1>1, <1>4
        <3> QED
            BY <3>1, <1>1, DataAdded
    <2>4. d.info => Has(m, "info") \/ d.force \/ Lost(d, e)
        BY <1>1, <1>2, <1>4, <1>5, <1>7, <1>18 DEF DataInv, Kept
    <2>5. d.state = "REDO_COMPLETE" => Agreed(m, e.synced, "info")
        BY <1>1, <1>7, <1>8, AgreedAdded DEF DataInv
    <2>6. HasData(m, Len(m), e.written \ d.unlog) \/ d.force \/ Lost(d, e)
        BY <1>1, <1>4, <1>7, <1>18, <2>3 DEF DataInv, Kept
    <2> QED
        BY <2>1, <2>2, <2>4, <2>5, <2>6 DEF DataInv
<1>20. ActiveInv(m, d, e)
    <2>1. d.complete => ~d.lead /\ ~d.info /\ HasData(m, e.synced, e.written)
        <3>1. e.synced \in 0 .. Len(l)
            BY <1>1
        <3> QED
            BY ZenonT(60), <3>1, <1>1, <1>4, <1>5, <1>7, DataAdded DEF ActiveInv, Kept, Allowed, NoActive
    <2>2. ASSUME NEW k \in 1 .. Len(d.busy), Sets(d, k)
          PROVE  /\ ~d.lead /\ ~d.info
                 /\ d.busy[k].pos <= Len(m) => HasData(m, d.busy[k].pos, e.written)
        <3>1. CASE k = n + 1
            <4>1. "active" \in has
                BY <2>2, <3>1, <1>1, <1>3 DEF Sets
            <4>2. has = {"active"} /\ ~c.lead /\ ~c.info /\ HasData(l, Len(l), e.written)
                BY <4>1 DEF Allowed
            <4>3. HasData(m, Len(m), e.written)
                BY <4>2, <1>1, DataAdded
            <4> QED
                BY <3>1, <4>2, <4>3, <1>1, <1>3, <1>4, <1>5 DEF Kept
        <3>2. CASE k \in 1 .. n
            <4>1. Sets(c, k) /\ c.busy[k].pos \in 0 .. Len(l)
                <5>1. d.busy[k] = c.busy[k] /\ d.swl = c.swl
                    BY <3>2, <1>3, <1>4 DEF Kept
                <5>2. Sets(c, k)
                    BY <2>2, <5>1 DEF Sets
                <5>3. c.busy[k] \in CbType
                    BY <3>2 DEF CtxType
                <5>4. c.busy[k].pos <= Len(l)
                    BY <3>2, <1>1, <1>6 DEF BusyInv
                <5> QED
                    BY <5>2, <5>3, <5>4, <1>1 DEF CbType
            <4>2. "info" \notin has
                BY <3>2, <4>1 DEF Allowed, NoActive
            <4>3. ~c.lead /\ ~c.info /\ HasData(l, c.busy[k].pos, e.written)
                BY <3>2, <4>1, <1>1, <1>7 DEF ActiveInv
            <4>4. HasData(m, c.busy[k].pos, e.written)
                BY <4>1, <4>3, <1>1, DataAdded
            <4> QED
                BY <3>2, <4>2, <4>3, <4>4, <1>3, <1>4, <1>5 DEF Kept
        <3> QED
            BY <3>1, <3>2, <1>1, <1>9
    <2> QED
        BY <2>1, <2>2 DEF ActiveInv
<1>21. AnsInv(m, d, a, e)
    BY <1>1, <1>4, <1>7, AgreedAdded DEF AnsInv, Kept, Allowed
<1>22. e.synced <= Len(m)
    BY <1>1
<1>23. VersionInv(d)
    BY <1>4, <1>5 DEF CoreInv, VersionInv, Allowed
<1> QED
    BY <1>23, <1>11, <1>13, <1>14, <1>15, <1>16, <1>17, <1>19, <1>20, <1>21, <1>22 DEF CtxInv, CoreInv

-------------------------------------------------------------------------------
(* The functions that submit                                               *)

WInv(w, e) == w \in WorldType /\ CtxInv(w.log, w.ctx, w.ans, e)

(* d differs from c in nothing that CtxInv is about.                       *)
Alike(c, d) ==
    /\ d.state = c.state /\ d.up = c.up /\ d.lead = c.lead /\ d.force = c.force
    /\ d.complete = c.complete /\ d.swl = c.swl /\ d.persisted = c.persisted
    /\ d.exit = c.exit /\ d.busy = c.busy /\ d.unlog = c.unlog /\ d.info = c.info
    /\ d.submitting = c.submitting /\ d.submitted = c.submitted
    /\ c.ver => d.ver
    /\ d.gts = "elapse" => c.gts = "elapse"
    /\ VersionInv(c) => VersionInv(d)
    /\ d.leaked # 0 => c.leaked # 0 \/ c.busy # <<>>

(* The invariant does not look at the other fields.                        *)
LEMMA AlikeCore ==
    ASSUME NEW l, NEW c, NEW d, NEW a, NEW e, Alike(c, d), CoreInv(l, c, a, e)
    PROVE  CoreInv(l, d, a, e)
<1>1. BusyInv(l, d, e) /\ CommitInv(l, d, e) /\ VersionInv(d)
    BY DEF Alike, CoreInv, BusyInv, CommitInv
<1>2. ForceInv(l, d) /\ SubmitInv(d, e) /\ PhaseInv(d, e)
    BY DEF Alike, CoreInv, ForceInv, SubmitInv, PhaseInv
<1>3. DataInv(l, d, e) /\ AnsInv(l, d, a, e)
    BY DEF Alike, CoreInv, DataInv, AnsInv, Lost, Doomed
<1>4. ActiveInv(l, d, e)
    BY DEF Alike, CoreInv, ActiveInv, Sets
<1> QED
    BY <1>1, <1>2, <1>3, <1>4 DEF CoreInv

(* The same in a context that is not stepping down.                        *)
LEMMA AlikeKeeps ==
    ASSUME NEW l, NEW c, NEW d, NEW a, NEW e, Alike(c, d), CtxInv(l, c, a, e)
    PROVE  CtxInv(l, d, a, e)
<1>1. CoreInv(l, d, a, e)
    BY AlikeCore DEF CtxInv
<1>2. PersistInv(d)
    BY DEF Alike, CtxInv, PersistInv
<1> QED
    BY <1>1, <1>2 DEF CtxInv

(* d is c, but for the callbacks lost while others were in flight.         *)
Same(c, d) ==
    /\ Kept(c, d) /\ d.info = c.info /\ d.submitting = c.submitting
    /\ d.submitted = c.submitted /\ d.gts = c.gts /\ d.ver = c.ver /\ d.prep = c.prep
    /\ d.unlog = c.unlog /\ d.busy = c.busy
    /\ d.leaked # 0 => c.leaked # 0 \/ c.busy # <<>>

(* A lost callback does not matter to the rest of the invariant.           *)
LEMMA SameIsAlike ==
    ASSUME NEW c, NEW d, Same(c, d)
    PROVE  Alike(c, d) /\ \A l : ActInv(l, c) => ActInv(l, d)
<1>1. Alike(c, d)
    BY DEF Same, Kept, Alike, VersionInv
<1>2. \A l : ActInv(l, c) => ActInv(l, d)
    BY DEF Same, Kept, ActInv
<1> QED
    BY <1>1, <1>2

(* A world with another return code, or another context.                   *)
LEMMA RetFields ==
    ASSUME NEW w \in WorldType, NEW r \in Codes, NEW v, v = [w EXCEPT !.ret = r]
    PROVE  /\ v \in WorldType /\ v.log = w.log /\ v.ctx = w.ctx /\ v.ans = w.ans
           /\ v.bad = w.bad /\ v.ret = r
<1>1. v.log = w.log /\ v.ctx = w.ctx /\ v.ans = w.ans /\ v.bad = w.bad /\ v.ret = r
    BY DEF WorldType
<1>2. v \in WorldType
    BY DEF WorldType
<1> QED
    BY <1>1, <1>2

(* A world with another context.                                           *)
LEMMA CtxUpdate ==
    ASSUME NEW w \in WorldType, NEW d \in CtxType, NEW v, v = [w EXCEPT !.ctx = d]
    PROVE  /\ v \in WorldType /\ v.log = w.log /\ v.ctx = d /\ v.ans = w.ans
           /\ v.bad = w.bad /\ v.ret = w.ret
<1>1. v.log = w.log /\ v.ctx = d /\ v.ans = w.ans /\ v.bad = w.bad /\ v.ret = w.ret
    BY DEF WorldType
<1>2. v \in WorldType
    BY DEF WorldType
<1> QED
    BY <1>1, <1>2

(* What submitting leaves alone.                                           *)
Moved(w, v) ==
    /\ v \in WorldType /\ Kept(w.ctx, v.ctx) /\ v.ans = w.ans /\ v.bad = w.bad
    /\ w.ctx.busy # <<>> => v.ctx.busy # <<>>
    /\ v.ctx.leaked # 0 => w.ctx.leaked # 0 \/ v.ctx.busy # <<>>

(* Two submissions, one after the other.                                   *)
LEMMA MovedOn ==
    ASSUME NEW u, NEW v, NEW w, Moved(u, v), Moved(v, w)
    PROVE  Moved(u, w)
    BY DEF Moved, Kept

(* Without a callback in flight or lost, there is one for any log.         *)
LEMMA CbLeft ==
    ASSUME NEW c \in CtxType, NEW final \in BOOLEAN, ~HasLogCb(c, final)
    PROVE  c.busy # <<>> \/ c.leaked # 0
<1> SUFFICES ASSUME c.busy = <<>>, c.leaked = 0 PROVE FALSE
    OBVIOUS
<1>1. DOMAIN c.busy = {}
    OBVIOUS
<1>2. ~FreezeCbBusy(c)
    BY <1>1 DEF FreezeCbBusy
<1>3. {k \in DOMAIN c.busy : ~IsStateLog(c.busy[k].has)} = {}
    BY <1>1
<1>4. Cardinality({k \in DOMAIN c.busy : ~IsStateLog(c.busy[k].has)}) = 0
    BY <1>3, FS_EmptySet, Zenon
<1>5. HasFreeCb(c)
    BY <1>4, TxCtxAssumption DEF HasFreeCb
<1> QED
    BY <1>2, <1>5 DEF HasLogCb

(* What a log without a callback does.                                     *)
LEMMA NoLogCbFields ==
    ASSUME NEW w \in WorldType, NEW final \in BOOLEAN, ~HasLogCb(w.ctx, final),
           NEW v, v = NoLogCb(w, final)
    PROVE  /\ v \in WorldType /\ v.ret = "NOLOGCB" /\ v.log = w.log /\ v.ans = w.ans
           /\ v.bad = w.bad /\ Same(w.ctx, v.ctx)
<1>0. w.ctx \in CtxType
    BY DEF WorldType
<1>1. PICK d : d = [w.ctx EXCEPT !.leaked = IF final /\ HasFreeCb(w.ctx) THEN @ + 1 ELSE @]
    OBVIOUS
<1>2. d \in CtxType
    <2>1. CtxShaped(d) /\ d.leaked \in Nat
        BY <1>0, <1>1 DEF CtxType, CtxShaped
    <2>2. Typed(d)
        BY <1>0, <1>1, <2>1 DEF CtxType, Typed
    <2> QED
        BY <2>1, <2>2, CtxIs
<1>3. Same(w.ctx, d)
    <2>1. w.ctx.busy # <<>> \/ w.ctx.leaked # 0
        BY <1>0, CbLeft
    <2> QED
        BY <1>0, <1>1, <2>1 DEF CtxType, Same, Kept
<1>4. PICK u : u = [w EXCEPT !.ctx = d]
    OBVIOUS
<1>5. u \in WorldType /\ u.log = w.log /\ u.ctx = d /\ u.ans = w.ans /\ u.bad = w.bad
    BY <1>2, <1>4, CtxUpdate
<1>6. v = [u EXCEPT !.ret = "NOLOGCB"]
    BY <1>0, <1>1, <1>4 DEF NoLogCb, Fail, WorldType, CtxType
<1> QED
    BY <1>3, <1>5, <1>6, RetFields DEF Codes

(* submit_log_block_out_ either fails and changes nothing, but perhaps for *)
(* a lost callback, or submits.                                            *)
LEMMA SubmitOutCases ==
    ASSUME NEW w \in WorldType, NEW has \in SUBSET Parts, NEW data \in SUBSET Write,
           NEW v, v = SubmitOut(w, has, data)
    PROVE  \/ /\ v \in WorldType /\ v.ret \in {"NOLOGCB", "KILLED", "NOT_MASTER"}
              /\ v.log = w.log /\ Same(w.ctx, v.ctx) /\ v.ans = w.ans /\ v.bad = w.bad
              /\ v.ret = "NOLOGCB" => w.ctx.busy # <<>> \/ w.ctx.leaked # 0
           \/ /\ role = "leader" /\ v = AfterSubmit(w, has, data) /\ CbFree(w.ctx, has)
              /\ "abort" \in has \/ (~ForceAbortLogging(w.ctx) /\ w.ctx.state # "ABORT")
<1>0. w.ctx \in CtxType /\ Same(w.ctx, w.ctx) /\ IsStateLog(has) \in BOOLEAN
    BY DEF WorldType, Same, Kept, IsStateLog
<1>1. CASE ~HasLogCb(w.ctx, IsStateLog(has))
    <2>1. v = NoLogCb(w, IsStateLog(has))
        BY <1>1 DEF SubmitOut
    <2>2. w.ctx.busy # <<>> \/ w.ctx.leaked # 0
        BY <1>0, <1>1, CbLeft
    <2> QED
        BY <1>0, <1>1, <2>1, <2>2, NoLogCbFields
<1>2. CASE HasLogCb(w.ctx, IsStateLog(has))
    <2>1. CASE "abort" \notin has /\ (ForceAbortLogging(w.ctx) \/ w.ctx.state = "ABORT")
        <3>1. v = Fail(w, "KILLED")
            BY <1>2, <2>1 DEF SubmitOut
        <3> QED
            BY <1>0, <3>1, RetFields DEF Fail, Codes
    <2>2. CASE ~("abort" \notin has /\ (ForceAbortLogging(w.ctx) \/ w.ctx.state = "ABORT"))
        <3>1. CASE role # "leader"
            <4>1. v = Fail(w, "NOT_MASTER")
                BY <1>2, <2>2, <3>1 DEF SubmitOut
            <4> QED
                BY <1>0, <4>1, RetFields DEF Fail, Codes
        <3>2. CASE role = "leader"
            <4>1. v = AfterSubmit(w, has, data)
                BY <1>2, <2>2, <3>2 DEF SubmitOut
            <4>2. CbFree(w.ctx, has)
                <5>1. DOMAIN w.ctx.busy = 1 .. Len(w.ctx.busy)
                    BY <1>0 DEF CtxType
                <5> QED
                    BY <1>2, <5>1 DEF HasLogCb, FreezeCbBusy, CbFree
            <4> QED
                BY <2>2, <3>2, <4>1, <4>2
        <3> QED
            BY <3>1, <3>2
    <2> QED
        BY <2>1, <2>2
<1> QED
    BY <1>1, <1>2

(* A world whose context may be stepping down.                             *)
WCore(w, e) == w \in WorldType /\ CoreInv(w.log, w.ctx, w.ans, e)

(* When SubmitOut submits, it may.                                         *)
Admitted(w, e, has, data) ==
    role = "leader" /\ ("abort" \in has \/ (~ForceAbortLogging(w.ctx) /\ w.ctx.state # "ABORT"))
        => Allowed(w.log, w.ctx, e, has, data)

(* submit_log_block_out_ keeps the invariant, when what it submits is      *)
(* allowed, even in a context that is stepping down.                       *)
LEMMA SubmitOutDoes ==
    ASSUME NEW w, NEW e \in EnvType, WCore(w, e), e.role = role,
           NEW has \in SUBSET Parts, NEW data \in SUBSET Write, Admitted(w, e, has, data),
           NEW v, v = SubmitOut(w, has, data)
    PROVE  /\ WCore(v, e) /\ Moved(w, v)
           /\ v.ret \in {"OK", "NOLOGCB", "KILLED", "NOT_MASTER"}
           /\ v.ret = "OK" => /\ role = "leader" /\ v.ctx.busy # <<>> /\ WInv(v, e)
                              /\ Submits(w.log, w.ctx, v.log, v.ctx, has, data)
           /\ v.ret # "OK" => v.log = w.log /\ Same(w.ctx, v.ctx)
           /\ v.ret = "NOLOGCB" => w.ctx.busy # <<>> \/ w.ctx.leaked # 0
<1>1. w \in WorldType /\ w.log \in Seq(EntryType) /\ w.ctx \in CtxType /\ CoreInv(w.log, w.ctx, w.ans, e)
    BY DEF WCore, WorldType
<1>2. CASE /\ v \in WorldType /\ v.ret \in {"NOLOGCB", "KILLED", "NOT_MASTER"}
           /\ v.log = w.log /\ Same(w.ctx, v.ctx) /\ v.ans = w.ans /\ v.bad = w.bad
           /\ v.ret = "NOLOGCB" => w.ctx.busy # <<>> \/ w.ctx.leaked # 0
    <2>1. CoreInv(v.log, v.ctx, v.ans, e)
        BY <1>1, <1>2, SameIsAlike, AlikeCore
    <2>2. Moved(w, v)
        BY <1>2 DEF Moved, Same
    <2> QED
        BY <1>1, <1>2, <2>1, <2>2 DEF WCore
<1>3. CASE /\ role = "leader" /\ v = AfterSubmit(w, has, data) /\ CbFree(w.ctx, has)
           /\ "abort" \in has \/ (~ForceAbortLogging(w.ctx) /\ w.ctx.state # "ABORT")
    <2>1. Allowed(w.log, w.ctx, e, has, data)
        BY <1>3 DEF Admitted
    <2>2. /\ v \in WorldType /\ v.ret = "OK" /\ v.ans = w.ans /\ v.bad = w.bad
          /\ Submits(w.log, w.ctx, v.log, v.ctx, has, data)
        BY <1>1, <1>3, AfterSubmitFields
    <2>3. v.log \in Seq(EntryType) /\ v.ctx \in CtxType
        BY <2>2 DEF WorldType
    <2>4. CtxInv(v.log, v.ctx, v.ans, e)
        BY <1>1, <1>3, <2>1, <2>2, <2>3, SubmitKeeps
    <2>5. v.ctx.busy # <<>>
        <3>1. Len(v.ctx.busy) = Len(w.ctx.busy) + 1 /\ Len(w.ctx.busy) \in Nat
            BY <1>1, <2>2 DEF Submits, Added, CtxType
        <3> QED
            BY <3>1
    <2>6. Kept(w.ctx, v.ctx) /\ v.ctx.leaked = w.ctx.leaked
        BY <2>2 DEF Submits
    <2>7. WInv(v, e) /\ WCore(v, e)
        BY <2>2, <2>4 DEF WInv, WCore, CtxInv
    <2> QED
        BY <1>3, <2>2, <2>5, <2>6, <2>7 DEF Moved
<1> QED
    BY <1>1, <1>2, <1>3, SubmitOutCases

(* The same in a context that is not stepping down.                        *)
LEMMA SubmitOutKeeps ==
    ASSUME NEW w, NEW e \in EnvType, WInv(w, e), e.role = role,
           NEW has \in SUBSET Parts, NEW data \in SUBSET Write,
           /\ role = "leader" /\ ("abort" \in has \/ (~ForceAbortLogging(w.ctx) /\ w.ctx.state # "ABORT"))
              => Allowed(w.log, w.ctx, e, has, data),
           NEW v, v = SubmitOut(w, has, data)
    PROVE  /\ WInv(v, e) /\ Moved(w, v)
           /\ v.ret \in {"OK", "NOLOGCB", "KILLED", "NOT_MASTER"}
           /\ v.ret = "OK" => /\ role = "leader" /\ v.ctx.busy # <<>>
                              /\ Submits(w.log, w.ctx, v.log, v.ctx, has, data)
           /\ v.ret # "OK" => v.log = w.log /\ Same(w.ctx, v.ctx)
<1>1. WCore(w, e) /\ PersistInv(w.ctx) /\ Admitted(w, e, has, data)
    BY DEF WInv, WCore, CtxInv, Admitted
<1>2. /\ WCore(v, e) /\ Moved(w, v)
      /\ v.ret \in {"OK", "NOLOGCB", "KILLED", "NOT_MASTER"}
      /\ v.ret = "OK" => /\ role = "leader" /\ v.ctx.busy # <<>> /\ WInv(v, e)
                         /\ Submits(w.log, w.ctx, v.log, v.ctx, has, data)
      /\ v.ret # "OK" => v.log = w.log /\ Same(w.ctx, v.ctx)
    BY <1>1, SubmitOutDoes
<1>3. v.ret # "OK" => WInv(v, e)
    <2>1. v.ret # "OK" => PersistInv(v.ctx)
        BY <1>1, <1>2 DEF PersistInv, Same, Kept
    <2> QED
        BY <1>2, <2>1 DEF WInv, WCore, CtxInv
<1> QED
    BY <1>2, <1>3

(* A return code does not matter to the invariant.                         *)
LEMMA RetKeeps ==
    ASSUME NEW w, NEW e, WInv(w, e), NEW r \in Codes, NEW v, v = [w EXCEPT !.ret = r]
    PROVE  /\ WInv(v, e) /\ Moved(w, v) /\ v.ret = r
           /\ v.log = w.log /\ v.ctx = w.ctx /\ v.ans = w.ans /\ v.bad = w.bad
<1>1. /\ v \in WorldType /\ v.log = w.log /\ v.ctx = w.ctx /\ v.ans = w.ans
      /\ v.bad = w.bad /\ v.ret = r
    BY RetFields DEF WInv
<1> QED
    BY <1>1 DEF WInv, Moved, Kept

(* What the flags say on a leader, before the decision is taken.           *)
Open(c) == c.state \in {"INIT", "REDO_COMPLETE"}

(* On a leader the flags of the state log can be trusted.                  *)
LEMMA Ready ==
    ASSUME NEW l, NEW c \in CtxType, NEW a, NEW e, CtxInv(l, c, a, e), e.role = "leader", Open(c)
    PROVE  /\ c.submitted => c.submitting /\ (c.info \/ c.force)
           /\ ~NeedForceAbort(c) /\ ~ForceAbortLogging(c) => ~c.force
           /\ ~c.exit
<1>1. SubmitInv(c, e) /\ ForceInv(l, c) /\ e.role \notin Broken
    BY DEF CtxInv, CoreInv, Broken
<1>2. ASSUME c.submitted PROVE c.submitting /\ (c.info \/ c.force)
    <2>1. c.busy # <<>> /\ IsStateLog(c.busy[Len(c.busy)].has)
        BY <1>1, <1>2 DEF SubmitInv, Open
    <2>2. Len(c.busy) \in 1 .. Len(c.busy)
        BY <2>1 DEF CtxType
    <2>3. c.submitting /\ ("commit" \in c.busy[Len(c.busy)].has => c.info)
        BY <1>1, <2>1, <2>2 DEF SubmitInv, Open
    <2>4. "abort" \in c.busy[Len(c.busy)].has => c.force
        BY <1>1, <2>2 DEF ForceInv, Has
    <2> QED
        BY <2>1, <2>3, <2>4 DEF IsStateLog
<1> QED
    BY <1>1, <1>2 DEF NeedForceAbort, ForceAbortLogging, ForceInv, Open

(* A context that leads and is not bound to abort has lost nothing.        *)
LEMMA HasAll ==
    ASSUME NEW l, NEW c \in CtxType, NEW a, NEW e, CtxInv(l, c, a, e), e.role = "leader", Open(c),
           ~c.force, ~Lost(c, e)
    PROVE  /\ HasData(l, Len(l), e.written \ c.unlog)
           /\ c.info => Has(l, "info")
    BY DEF CtxInv, CoreInv, DataInv, Broken

(* A context that leads waits for no active info log.                      *)
LEMMA LeadsAlone ==
    ASSUME NEW l, NEW c \in CtxType, NEW a, NEW e, CtxInv(l, c, a, e), c.lead
    PROVE  /\ NoActive(c) /\ ~Lost(c, e) /\ ~Doomed(c, e)
           /\ Open(c) /\ ~c.force => e.mode \notin TModes \union FModes
<1>1. NoActive(c)
    BY DEF CtxInv, CoreInv, ActiveInv, NoActive
<1>2. ~Lost(c, e) /\ ~Doomed(c, e)
    BY DEF Lost, Doomed
<1>3. Open(c) /\ ~c.force => e.mode \notin TModes \union FModes
    BY DEF CtxInv, CoreInv, PhaseInv, ForceInv, Open
<1> QED
    BY <1>1, <1>2, <1>3

(* generate_commit_version_ changes the version and the GTS flag only.     *)
LEMMA GenerateKeeps ==
    ASSUME NEW w, NEW e, WInv(w, e), NEW o, NEW v, v = GenerateCommitVersion(w, o)
    PROVE  WInv(v, e) /\ Moved(w, v) /\ Alike(w.ctx, v.ctx) /\ v.ret \in {"OK", "EAGAIN"} /\ v.log = w.log
<1>0. w \in WorldType /\ w.ctx \in CtxType
    BY DEF WInv, WorldType
<1>1. CASE v = Ok(w) \/ v = Fail(w, "EAGAIN")
    BY <1>0, <1>1, RetFields DEF Ok, Fail, Codes, WInv, Moved, Kept, Alike
<1>2. CASE w.ctx.gts = "no" /\ v = Ok([w EXCEPT !.ctx.prep = TRUE, !.ctx.ver = TRUE])
    <2>1. PICK d : d = [w.ctx EXCEPT !.prep = TRUE, !.ver = TRUE]
        OBVIOUS
    <2>2. [w.ctx EXCEPT !.prep = TRUE, !.ver = TRUE] \in CtxType
        BY <1>0 DEF CtxType
    <2>3. Kept(w.ctx, d) /\ Alike(w.ctx, d) /\ d.busy = w.ctx.busy /\ d.leaked = w.ctx.leaked
        BY <1>0, <1>2, <2>1 DEF CtxType, Kept, Alike, VersionInv
    <2>4. PICK u : u = [w EXCEPT !.ctx = d]
        OBVIOUS
    <2>5. v = Ok(u)
        BY <1>0, <1>2, <2>1, <2>4 DEF WorldType, CtxType
    <2>6. u \in WorldType /\ u.log = w.log /\ u.ctx = d /\ u.ans = w.ans /\ u.bad = w.bad
        BY <1>0, <2>1, <2>2, <2>4, CtxUpdate
    <2>7. v \in WorldType /\ v.log = w.log /\ v.ctx = d /\ v.ans = w.ans /\ v.bad = w.bad /\ v.ret = "OK"
        BY <2>5, <2>6, RetFields DEF Ok, Codes
    <2> QED
        BY <2>3, <2>7, AlikeKeeps DEF WInv, Moved
<1>3. CASE ~w.ctx.ver /\ v = Fail([w EXCEPT !.ctx.gts = "get"], "EAGAIN")
    <2>1. PICK d : d = [w.ctx EXCEPT !.gts = "get"]
        OBVIOUS
    <2>2. [w.ctx EXCEPT !.gts = "get"] \in CtxType
        BY <1>0 DEF CtxType
    <2>3. Kept(w.ctx, d) /\ Alike(w.ctx, d) /\ d.busy = w.ctx.busy /\ d.leaked = w.ctx.leaked
        BY <1>0, <1>3, <2>1 DEF CtxType, Kept, Alike, VersionInv
    <2>4. PICK u : u = [w EXCEPT !.ctx = d]
        OBVIOUS
    <2>5. v = Fail(u, "EAGAIN")
        BY <1>0, <1>3, <2>1, <2>4 DEF WorldType, CtxType
    <2>6. u \in WorldType /\ u.log = w.log /\ u.ctx = d /\ u.ans = w.ans /\ u.bad = w.bad
        BY <1>0, <2>1, <2>2, <2>4, CtxUpdate
    <2>7. v \in WorldType /\ v.log = w.log /\ v.ctx = d /\ v.ans = w.ans /\ v.bad = w.bad /\ v.ret = "EAGAIN"
        BY <2>5, <2>6, RetFields DEF Fail, Codes
    <2> QED
        BY <2>3, <2>7, AlikeKeeps DEF WInv, Moved
<1> QED
    BY <1>1, <1>2, <1>3 DEF GenerateCommitVersion

(* A part of a transaction's log with redo and commit info.                *)
LEMMA RedoAndInfoParts ==
    ASSUME NEW c
    PROVE  /\ RedoAndInfo(c) \in SUBSET Parts /\ "info" \in RedoAndInfo(c)
           /\ RedoAndInfo(c) \intersect {"commit", "abort", "active", "swl"} = {}
    BY DEF RedoAndInfo, Parts

(* submit_commit_log_, whether the log is split or not.                    *)
LEMMA SubmitCommitLogKeeps ==
    ASSUME NEW w, NEW e \in EnvType, WInv(w, e), e.role = role, w.ctx.lead, Open(w.ctx),
           w.ctx.prep, NEW o, NEW v, v = SubmitCommitLog(w, o)
    PROVE  WInv(v, e) /\ Moved(w, v)
<1> DEFINE c == w.ctx
           R == RedoAndInfo(c)
<1>0. /\ w \in WorldType /\ c \in CtxType /\ w.log \in Seq(EntryType) /\ c.unlog \in SUBSET Write
      /\ CtxInv(w.log, c, w.ans, e) /\ c.ver
    BY DEF WInv, WorldType, CtxType, CtxInv, CoreInv, VersionInv
<1>1. CASE Aborting(c)
    <2>1. v = Fail(w, "KILLED")
        BY <1>1 DEF SubmitCommitLog
    <2> QED
        BY <2>1, RetKeeps DEF Fail, Codes
<1>2. ASSUME ~Aborting(c), role = "leader"
      PROVE  /\ ~c.force /\ NoActive(c) /\ ~Doomed(c, e) /\ e.mode \notin TModes
             /\ HasData(w.log, Len(w.log), e.written \ c.unlog)
             /\ c.info => Has(w.log, "info")
             /\ c.submitted => c.info
    <2>1. ~c.force /\ (c.submitted => c.info)
        BY <1>0, <1>2, Ready DEF Aborting
    <2>2. NoActive(c) /\ ~Lost(c, e) /\ ~Doomed(c, e) /\ e.mode \notin TModes
        BY <1>0, <2>1, LeadsAlone
    <2> QED
        BY <1>0, <1>2, <2>1, <2>2, HasAll
<1>3. CASE ~Aborting(c) /\ c.info
    <2>1. v = SubmitOut(w, {"commit"}, {})
        BY <1>3 DEF SubmitCommitLog
    <2>2. role = "leader" => Allowed(w.log, c, e, {"commit"}, {})
        BY <1>0, <1>2, <1>3 DEF Allowed, IsStateLog, Open
    <2> QED
        BY ZenonT(60), <2>1, <2>2, SubmitOutKeeps DEF Parts
<1>4. CASE ~Aborting(c) /\ ~c.info /\ "split" \notin o
    <2>1. v = SubmitOut(w, R \union {"commit"}, c.unlog)
        BY <1>4 DEF SubmitCommitLog
    <2>2. role = "leader" => Allowed(w.log, c, e, R \union {"commit"}, c.unlog)
        <3>1. PICK has : has = R \union {"commit"}
            OBVIOUS
        <3>2. "abort" \notin has /\ "active" \notin has /\ "info" \in has /\ "commit" \in has
            BY <3>1, RedoAndInfoParts
        <3>3. role = "leader" => Allowed(w.log, c, e, has, c.unlog)
            BY <1>0, <1>2, <1>4, <3>2 DEF Allowed, IsStateLog, Open
        <3> QED
            BY <3>1, <3>3
    <2>3. R \union {"commit"} \in SUBSET Parts
        BY RedoAndInfoParts DEF Parts
    <2> QED
        BY <1>0, <2>1, <2>2, <2>3, SubmitOutKeeps
<1>5. CASE ~Aborting(c) /\ ~c.info /\ "split" \in o
    <2>1. PICK first : first = SubmitOut(w, R, c.unlog)
        OBVIOUS
    <2>2. PICK has : has = R
        OBVIOUS
    <2>3. "abort" \notin has /\ "active" \notin has /\ "info" \in has /\ "commit" \notin has
          /\ has \in SUBSET Parts
        BY <2>2, RedoAndInfoParts
    <2>4. role = "leader" => Allowed(w.log, c, e, has, c.unlog)
        BY <1>2, <1>5, <2>3 DEF Allowed, IsStateLog, Open
    <2>5. /\ WInv(first, e) /\ Moved(w, first)
          /\ first.ret = "OK" => /\ role = "leader"
                                 /\ Submits(w.log, w.ctx, first.log, first.ctx, has, c.unlog)
        BY <1>0, <2>1, <2>2, <2>3, <2>4, SubmitOutKeeps
    <2>6. CASE first.ret # "OK"
        <3>1. v = first
            BY <1>5, <2>1, <2>6 DEF SubmitCommitLog
        <3> QED
            BY <2>5, <3>1
    <2>7. CASE first.ret = "OK"
        <3>1. v = SubmitOut(first, {"commit"}, {})
            BY <1>5, <2>1, <2>7 DEF SubmitCommitLog
        <3>2. /\ first.ctx \in CtxType /\ CtxInv(first.log, first.ctx, first.ans, e) /\ first.ctx.info
              /\ first.ctx.ver
            BY <1>0, <2>3, <2>5, <2>7 DEF WInv, WorldType, Submits
        <3>3. Kept(c, first.ctx)
            BY <2>5 DEF Moved
        <3>4. Has(first.log, "info")
            <4>1. Has(first.log, "info") <=> Has(w.log, "info") \/ "info" \in [has |-> has, data |-> c.unlog].has
                BY <1>0, <2>5, <2>7, HasAdded DEF Submits
            <4> QED
                BY <2>3, <4>1
        <3>5. role = "leader" => Allowed(first.log, first.ctx, e, {"commit"}, {})
            BY <1>2, <1>5, <3>2, <3>3, <3>4, LeadsAlone DEF Allowed, IsStateLog, Kept, Open
        <3>6. WInv(v, e) /\ Moved(first, v)
            BY ZenonT(60), <2>5, <3>1, <3>5, SubmitOutKeeps DEF Parts
        <3> QED
            BY <2>5, <3>6, MovedOn
    <2> QED
        BY <2>6, <2>7
<1> QED
    BY <1>1, <1>3, <1>4, <1>5

(* submit_log_impl_ for a commit log, with its wait for GTS.               *)
LEMMA SubmitCommitKeeps ==
    ASSUME NEW w, NEW e \in EnvType, WInv(w, e), e.role = role, w.ctx.lead, Open(w.ctx), NEW o,
           NEW v, v = SubmitCommit(w, o)
    PROVE  WInv(v, e) /\ Moved(w, v)
<1>1. PICK g : g = IF w.ctx.prep THEN Ok(w) ELSE GenerateCommitVersion(w, o)
    OBVIOUS
<1>2. WInv(g, e) /\ Moved(w, g)
    <2>1. CASE w.ctx.prep
        BY <1>1, <2>1, RetKeeps DEF Ok, Codes
    <2>2. CASE ~w.ctx.prep
        BY <1>1, <2>2, GenerateKeeps
    <2> QED
        BY <2>1, <2>2
<1>3. PICK u : u = IF g.ret = "OK" /\ g.ctx.prep THEN SubmitCommitLog(g, o) ELSE g
    OBVIOUS
<1>4. WInv(u, e) /\ Moved(g, u)
    <2>1. CASE g.ret = "OK" /\ g.ctx.prep
        <3>1. g.ctx.lead /\ Open(g.ctx)
            BY <1>2 DEF Moved, Kept, Open
        <3>2. u = SubmitCommitLog(g, o)
            BY <1>3, <2>1
        <3> QED
            BY <1>2, <2>1, <3>1, <3>2, SubmitCommitLogKeeps
    <2>2. CASE ~(g.ret = "OK" /\ g.ctx.prep)
        BY <1>2, <1>3, <2>2 DEF Moved, Kept
    <2> QED
        BY <2>1, <2>2
<1>5. v = IgnoreNoLogCb(u)
    BY <1>1, <1>3 DEF SubmitCommit
<1>6. WInv(v, e) /\ Moved(u, v)
    <2>1. CASE u.ret = "NOLOGCB"
        BY <1>4, <1>5, <2>1, RetKeeps DEF IgnoreNoLogCb, Ok, Codes
    <2>2. CASE u.ret # "NOLOGCB"
        BY <1>4, <1>5, <2>2 DEF IgnoreNoLogCb, Moved, Kept
    <2> QED
        BY <2>1, <2>2
<1> QED
    BY <1>2, <1>4, <1>6, MovedOn

(* try_submit_next_log_ takes a decision that it may take, or none.        *)
LEMMA TrySubmitKeeps ==
    ASSUME NEW w, NEW e \in EnvType, WInv(w, e), e.role = role, ActInv(w.log, w.ctx), NEW o,
           NEW v, v = TrySubmitNextLog(w, o)
    PROVE  WInv(v, e) /\ Moved(w, v) /\ ActInv(v.log, v.ctx)
<1>1. CASE v = w
    BY <1>1 DEF WInv, Moved, Kept
<1>2. CASE /\ v = SubmitCommit(w, o) /\ w.ctx.action = "COMMIT" /\ w.ctx.lead
           /\ w.ctx.state \in {"INIT", "REDO_COMPLETE"}
    <2>1. WInv(v, e) /\ Moved(w, v)
        BY <1>2, SubmitCommitKeeps DEF Open
    <2>2. ActInv(v.log, v.ctx)
        BY <1>2, <2>1 DEF ActInv, Moved, Kept
    <2> QED
        BY <2>1, <2>2
<1> QED
    BY <1>1, <1>2 DEF TrySubmitNextLog

-------------------------------------------------------------------------------
(* Aborting                                                                *)

(* force_abort is set, and perhaps the upstream state; the writes may be   *)
(* dropped.                                                                *)
Forced(c, d) ==
    /\ d.force /\ d.state = c.state /\ d.lead = c.lead
    /\ d.complete = c.complete /\ d.swl = c.swl /\ d.persisted = c.persisted
    /\ d.exit = c.exit /\ d.busy = c.busy /\ d.info = c.info /\ d.gts = c.gts
    /\ d.submitting = c.submitting /\ d.submitted = c.submitted
    /\ d.ver = c.ver /\ d.prep = c.prep /\ d.action = c.action

(* A context that can take no commit decision.                             *)
Undecided(l, c) == ~Has(l, "commit") /\ ~Has(c.busy, "commit")

(* A context without a commit log can be bound to abort.                   *)
LEMMA ForcedKeeps ==
    ASSUME NEW l, NEW c, NEW d, NEW a, NEW e, CtxInv(l, c, a, e), Forced(c, d), Undecided(l, c),
           c.busy # <<>> \/ c.persisted \/ c.exit
    PROVE  CtxInv(l, d, a, e)
<1>1. BusyInv(l, d, e) /\ CommitInv(l, d, e)
    BY DEF Forced, CtxInv, CoreInv, BusyInv, CommitInv
<1>2. ForceInv(l, d) /\ SubmitInv(d, e) /\ PersistInv(d) /\ PhaseInv(d, e)
    BY DEF Forced, CtxInv, CoreInv, ForceInv, SubmitInv, PersistInv, PhaseInv, Undecided
<1>3. DataInv(l, d, e) /\ AnsInv(l, d, a, e) /\ VersionInv(d)
    BY DEF Forced, CtxInv, CoreInv, DataInv, AnsInv, VersionInv
<1>4. ActiveInv(l, d, e)
    BY DEF Forced, CtxInv, CoreInv, ActiveInv, Sets
<1> QED
    BY <1>1, <1>2, <1>3, <1>4 DEF CtxInv, CoreInv

(* The context is aborted, and the scheduler may be told.                  *)
Aborted(c, d) ==
    /\ d.force /\ d.state = "ABORT" /\ d.exit /\ (d.lead => c.lead)
    /\ d.complete = c.complete /\ d.swl = c.swl /\ d.persisted = c.persisted
    /\ d.busy = c.busy /\ d.info = c.info /\ d.gts = c.gts
    /\ d.submitting = c.submitting /\ d.submitted = c.submitted /\ d.ver = c.ver
    /\ d.prep = c.prep

(* A context without a commit log can end in ABORT.                        *)
LEMMA AbortedKeeps ==
    ASSUME NEW l, NEW c, NEW d, NEW a, NEW b, NEW e, CoreInv(l, c, a, e), Aborted(c, d),
           Undecided(l, c), "SUCCESS" \in b => "SUCCESS" \in a
    PROVE  CtxInv(l, d, b, e)
<1>1. BusyInv(l, d, e)
    BY DEF Aborted, CoreInv, BusyInv
<1>2. CommitInv(l, d, e)
    BY DEF Aborted, CoreInv, CommitInv, Undecided, Has
<1>3. c.state # "COMMIT"
    BY DEF CoreInv, CommitInv, Agreed, Undecided, Has
<1>4. ForceInv(l, d)
    BY <1>3 DEF Aborted, CoreInv, ForceInv, Undecided
<1>5. SubmitInv(d, e)
    BY DEF Aborted, CoreInv, SubmitInv, Undecided, Has
<1>6. PersistInv(d) /\ PhaseInv(d, e)
    BY DEF Aborted, CoreInv, PersistInv, PhaseInv
<1>7. DataInv(l, d, e) /\ AnsInv(l, d, b, e) /\ VersionInv(d)
    BY DEF Aborted, CoreInv, DataInv, AnsInv, VersionInv
<1>8. ActiveInv(l, d, e)
    BY DEF Aborted, CoreInv, ActiveInv, Sets
<1> QED
    BY <1>1, <1>2, <1>4, <1>5, <1>6, <1>7, <1>8 DEF CtxInv, CoreInv

(* What an abort log leaves alone.                                         *)
Stays(w, v) ==
    /\ v.ctx.state = w.ctx.state /\ v.ctx.action = w.ctx.action /\ v.ctx.lead = w.ctx.lead
    /\ v.ctx.complete = w.ctx.complete /\ v.ctx.swl = w.ctx.swl
    /\ v.ctx.persisted = w.ctx.persisted /\ v.ctx.exit = w.ctx.exit
    /\ v.ans = w.ans /\ v.bad = w.bad

(* The context can be bound to abort.                                      *)
MayForce(w, e) ==
    \A d \in CtxType : Forced(w.ctx, d) => CtxInv(w.log, d, w.ans, e)

(* The same for the context of a world.                                    *)
LEMMA Forceable ==
    ASSUME NEW w, NEW e, WInv(w, e), Undecided(w.log, w.ctx),
           w.ctx.busy # <<>> \/ w.ctx.persisted \/ w.ctx.exit
    PROVE  MayForce(w, e)
    BY ForcedKeeps DEF WInv, MayForce

(* A context that is bound to abort has no commit log.                     *)
LEMMA ForceIsUndecided ==
    ASSUME NEW l, NEW c, NEW a, NEW e, CtxInv(l, c, a, e), c.force
    PROVE  Undecided(l, c) /\ (c.busy # <<>> \/ c.persisted \/ c.exit)
    BY DEF CtxInv, CoreInv, ForceInv, PersistInv, Undecided

(* Logs without a commit or commit info part do not matter to ActInv.      *)
LEMMA OtherPartsAct ==
    ASSUME NEW l \in Seq(EntryType), NEW c \in CtxType, NEW m, NEW d \in CtxType, NEW has, NEW data,
           Submits(l, c, m, d, has, data), has \intersect {"info", "commit"} = {}, ActInv(l, c)
    PROVE  ActInv(m, d)
<1>1. Len(l) \in Nat /\ Len(c.busy) \in Nat
    BY DEF CtxType
<1>2. d.info = c.info /\ d.action = c.action /\ d.force = c.force
    BY DEF Submits, Kept, CtxType
<1>3. ASSUME NEW p \in {"info", "commit"}
      PROVE  (Has(m, p) <=> Has(l, p)) /\ (Has(d.busy, p) <=> Has(c.busy, p))
    <2>1. Added(l, m, [has |-> has, data |-> data]) /\ Added(c.busy, d.busy, [pos |-> Len(l) + 1, has |-> has])
        BY DEF Submits
    <2>2. /\ Has(m, p) <=> Has(l, p) \/ p \in [has |-> has, data |-> data].has
          /\ Has(d.busy, p) <=> Has(c.busy, p) \/ p \in [pos |-> Len(l) + 1, has |-> has].has
        BY <1>1, <2>1, HasAdded
    <2> QED
        BY <2>2, <1>3
<1> QED
    BY <1>2, <1>3 DEF ActInv

(* compensate_abort_log_, submitted or not.                                *)
LEMMA CompensateKeeps ==
    ASSUME NEW w \in WorldType, NEW e \in EnvType, e.role = role, Open(w.ctx), MayForce(w, e),
           NEW v, v = CompensateAbortLog(w)
    PROVE  /\ WInv(v, e) /\ Stays(w, v) /\ v.ctx.force
           /\ v.ret \in {"OK", "NOLOGCB", "KILLED", "NOT_MASTER"}
           /\ ActInv(w.log, w.ctx) => ActInv(v.log, v.ctx)
<1>0. w.ctx \in CtxType /\ w.log \in Seq(EntryType)
    BY DEF WorldType
<1>1. CASE ForceAbortLogging(w.ctx)
    <2>1. v = [w EXCEPT !.ret = "OK"]
        BY <1>1 DEF CompensateAbortLog, Ok
    <2>2. Forced(w.ctx, w.ctx)
        BY <1>1 DEF ForceAbortLogging, Forced
    <2>3. WInv(w, e) /\ w.ctx.force
        BY <1>0, <2>2 DEF WInv, MayForce, Forced
    <2>4. /\ WInv(v, e) /\ v.ret = "OK"
          /\ v.log = w.log /\ v.ctx = w.ctx /\ v.ans = w.ans /\ v.bad = w.bad
        BY <2>1, <2>3, RetKeeps DEF Codes
    <2> QED
        BY <2>3, <2>4 DEF Stays
<1>2. CASE ~ForceAbortLogging(w.ctx)
    <2>1. PICK d : d = [w.ctx EXCEPT !.force = TRUE, !.up = TRUE]
        OBVIOUS
    <2>2. [w.ctx EXCEPT !.force = TRUE, !.up = TRUE] \in CtxType
        BY <1>0 DEF CtxType
    <2>3. d \in CtxType /\ Forced(w.ctx, d) /\ d.unlog = w.ctx.unlog
        BY <1>0, <2>1, <2>2 DEF CtxType, Forced
    <2>4. PICK u : u = [w EXCEPT !.ctx = d]
        OBVIOUS
    <2>5. u \in WorldType /\ u.log = w.log /\ u.ctx = d /\ u.ans = w.ans /\ u.bad = w.bad
        BY <2>3, <2>4, CtxUpdate
    <2>6. v = SubmitOut(u, {"abort"}, {})
        <3>1. [w EXCEPT !.ctx.force = TRUE, !.ctx.up = TRUE] = u
            BY <1>0, <2>1, <2>4 DEF WorldType, CtxType
        <3> QED
            BY <1>2, <3>1 DEF CompensateAbortLog
    <2>7. WInv(u, e)
        BY <2>3, <2>5 DEF WInv, MayForce
    <2>8. role = "leader" => Allowed(u.log, u.ctx, e, {"abort"}, {})
        BY <2>3, <2>5 DEF Allowed, IsStateLog, Open, Forced
    <2>9. /\ WInv(v, e) /\ Moved(u, v)
          /\ v.ret \in {"OK", "NOLOGCB", "KILLED", "NOT_MASTER"}
          /\ v.ret = "OK" => Submits(u.log, u.ctx, v.log, v.ctx, {"abort"}, {})
          /\ v.ret # "OK" => v.log = u.log /\ Same(u.ctx, v.ctx)
        <3>1. {"abort"} \in SUBSET Parts /\ {} \in SUBSET Write
            BY DEF Parts
        <3> QED
            BY <2>6, <2>7, <2>8, <3>1, SubmitOutKeeps
    <2>10. Stays(w, v) /\ v.ctx.force
        BY <2>3, <2>5, <2>9 DEF Stays, Moved, Kept, Forced
    <2>11. ASSUME ActInv(w.log, w.ctx) PROVE ActInv(v.log, v.ctx)
        <3>1. ActInv(u.log, u.ctx)
            BY <2>3, <2>5, <2>11 DEF ActInv, Forced
        <3>2. v.ret = "OK" => ActInv(v.log, v.ctx)
            BY <1>0, <2>3, <2>5, <2>9, <3>1, OtherPartsAct DEF WInv, WorldType
        <3>3. v.ret # "OK" => ActInv(v.log, v.ctx)
            BY <2>9, <3>1, SameIsAlike
        <3> QED
            BY <3>2, <3>3
    <2> QED
        BY <2>9, <2>10, <2>11
<1> QED
    BY <1>1, <1>2

(* What post_tx_commit_resp_ changes.                                      *)
LEMMA RespFields ==
    ASSUME NEW w \in WorldType, NEW status, NEW v, v = PostTxCommitResp(w, status)
    PROVE  /\ v \in WorldType /\ v.log = w.log /\ v.bad = w.bad /\ v.ret = w.ret
           /\ v.ans = w.ans \union ({status} \intersect Final)
           /\ Alike(w.ctx, v.ctx) /\ v.ctx.action = w.ctx.action /\ v.ctx.gts = w.ctx.gts
           /\ v.ctx.ver = w.ctx.ver /\ v.ctx.prep = w.ctx.prep /\ v.ctx.leaked = w.ctx.leaked
<1>0. w.ctx \in CtxType /\ w.ans \in SUBSET Final
    BY DEF WorldType
<1>1. PICK d : d = [w.ctx EXCEPT !.cb = IF local /\ @ = "on" THEN "used" ELSE @]
    OBVIOUS
<1>2. d.cb \in {"off", "on", "used"} /\ Alike(w.ctx, d) /\ d.action = w.ctx.action /\ d.gts = w.ctx.gts
      /\ d.prep = w.ctx.prep /\ d.ver = w.ctx.ver /\ d.leaked = w.ctx.leaked /\ CtxShaped(d)
    BY <1>0, <1>1 DEF CtxType, Alike, CtxShaped, VersionInv
<1>3. d \in CtxType
    <2>1. Typed(d)
        BY <1>0, <1>2, CtxIs DEF Typed, Alike
    <2> QED
        BY <1>2, <2>1, CtxIs
<1>4. /\ v.log = w.log /\ v.bad = w.bad /\ v.ret = w.ret /\ Shaped(v)
      /\ v.ans = w.ans \union ({status} \intersect Final) /\ v.ctx = d
    BY <1>0, <1>1 DEF WorldType, CtxType, PostTxCommitResp, Shaped
<1>5. v.ans \in SUBSET Final
    BY <1>0, <1>4
<1>6. v \in WorldType
    BY <1>3, <1>4, <1>5, WorldIs DEF WorldType
<1> QED
    BY <1>2, <1>4, <1>6

(* The context c when force_abort is set and it may have stepped down.     *)
Bound(c, d) ==
    /\ d.force /\ (d.lead => c.lead)
    /\ d.complete = c.complete /\ d.swl = c.swl /\ d.persisted = c.persisted
    /\ d.busy = c.busy /\ d.info = c.info /\ d.gts = c.gts
    /\ d.submitting = c.submitting /\ d.submitted = c.submitted /\ d.ver = c.ver
    /\ d.prep = c.prep

(* What on_local_abort_tx_ changes.                                        *)
LEMMA OnLocalAbortFields ==
    ASSUME NEW w \in WorldType, w.ctx.force, NEW v, v = OnLocalAbortTx(w)
    PROVE  /\ v \in WorldType /\ v.ret = "OK" /\ v.log = w.log /\ v.bad = w.bad
           /\ "SUCCESS" \in v.ans => "SUCCESS" \in w.ans
           /\ v.ctx.state = "ABORT" /\ v.ctx.exit /\ Bound(w.ctx, v.ctx)
           /\ v.ctx.action = w.ctx.action /\ v.ctx.lead = w.ctx.lead
           /\ v.ctx.up = w.ctx.up /\ v.ctx.unlog = w.ctx.unlog
<1>0. w.ctx \in CtxType /\ w.ans \in SUBSET Final
    BY DEF WorldType
<1>1. PICK d : d = [w.ctx EXCEPT !.state = "ABORT", !.exit = TRUE]
    OBVIOUS
<1>2. [w.ctx EXCEPT !.state = "ABORT", !.exit = TRUE] \in CtxType
    BY <1>0 DEF CtxType
<1>3. /\ Bound(w.ctx, d) /\ d.state = "ABORT" /\ d.exit /\ d.action = w.ctx.action
      /\ d.lead = w.ctx.lead /\ d.up = w.ctx.up /\ d.unlog = w.ctx.unlog
    BY <1>0, <1>1 DEF CtxType, Bound
<1>4. PICK b : b = [w EXCEPT !.ctx = d]
    OBVIOUS
<1>5. b \in WorldType /\ b.log = w.log /\ b.ctx = d /\ b.ans = w.ans /\ b.bad = w.bad
    <2>1. d \in CtxType
        BY <1>1, <1>2
    <2> QED
        BY ONLY w \in WorldType, <1>4, <2>1, CtxUpdate
<1>6. b = [w EXCEPT !.ctx.state = "ABORT", !.ctx.exit = TRUE]
    BY <1>0, <1>1, <1>4 DEF WorldType, CtxType
<1>7. PICK u : u = IF w.ctx.action = "COMMIT" THEN PostTxCommitResp(b, "KILLED") ELSE b
    OBVIOUS
<1>8. v = [u EXCEPT !.ret = "OK"]
    BY <1>6, <1>7 DEF OnLocalAbortTx, Ok
<1>9. /\ u \in WorldType /\ u.log = w.log /\ u.bad = w.bad /\ ("SUCCESS" \in u.ans => "SUCCESS" \in w.ans)
      /\ Alike(d, u.ctx) /\ u.ctx.action = w.ctx.action /\ u.ctx.gts = d.gts /\ u.ctx.ver = d.ver
      /\ u.ctx.prep = d.prep
    <2>1. CASE w.ctx.action = "COMMIT"
        <3>1. u = PostTxCommitResp(b, "KILLED")
            BY <1>7, <2>1
        <3> QED
            BY <1>3, <1>5, <3>1, RespFields
    <2>2. CASE w.ctx.action # "COMMIT"
        BY <1>3, <1>5, <1>7, <2>2 DEF Alike
    <2> QED
        BY <2>1, <2>2
<1>10. u.ctx.state = "ABORT" /\ u.ctx.exit /\ Bound(w.ctx, u.ctx)
    BY <1>3, <1>9 DEF Bound, Alike
<1>11. u.ctx.lead = w.ctx.lead /\ u.ctx.up = w.ctx.up /\ u.ctx.unlog = w.ctx.unlog
    BY <1>3, <1>9 DEF Alike
<1>12. /\ v \in WorldType /\ v.log = u.log /\ v.ctx = u.ctx /\ v.ans = u.ans /\ v.bad = u.bad /\ v.ret = "OK"
    BY <1>8, <1>9, RetFields DEF Codes
<1> QED
    BY <1>9, <1>10, <1>11, <1>12

(* on_local_abort_tx_ ends a context that is bound to abort.               *)
LEMMA OnLocalAbortKeeps ==
    ASSUME NEW w \in WorldType, NEW c, NEW e, CoreInv(w.log, c, w.ans, e), Undecided(w.log, c),
           Bound(c, w.ctx), NEW v, v = OnLocalAbortTx(w)
    PROVE  /\ WInv(v, e) /\ v.ret = "OK" /\ v.log = w.log /\ v.bad = w.bad
           /\ v.ctx.action = w.ctx.action /\ v.ctx.lead = w.ctx.lead /\ Bound(w.ctx, v.ctx)
<1>1. /\ v \in WorldType /\ v.ret = "OK" /\ v.log = w.log /\ v.bad = w.bad
      /\ "SUCCESS" \in v.ans => "SUCCESS" \in w.ans
      /\ v.ctx.state = "ABORT" /\ v.ctx.exit /\ Bound(w.ctx, v.ctx)
      /\ v.ctx.action = w.ctx.action /\ v.ctx.lead = w.ctx.lead
    <2>1. w.ctx.force
        BY DEF Bound
    <2> QED
        BY <2>1, OnLocalAbortFields
<1>2. Aborted(c, v.ctx)
    BY <1>1 DEF Aborted, Bound
<1>3. CtxInv(w.log, v.ctx, v.ans, e)
    BY <1>1, <1>2, AbortedKeeps
<1> QED
    BY <1>1, <1>3 DEF WInv

(* A function that aborts, in the environment e.                           *)
Aborts(w, v, e) ==
    /\ WInv(v, e) /\ v.bad = w.bad /\ v.ctx.force /\ v.ctx.lead = w.ctx.lead
    /\ v.ctx.persisted = w.ctx.persisted
    /\ v.ctx.complete = w.ctx.complete /\ v.ctx.swl = w.ctx.swl
    /\ v.ret \in {"OK", "NOLOGCB", "KILLED", "NOT_MASTER"}
    /\ ActInv(w.log, w.ctx) => ActInv(v.log, v.ctx)
    /\ v.ctx.action = "COMMIT" => w.ctx.action = "COMMIT"

(* do_local_abort_tx_, with an abort log or without.                       *)
LEMMA DoLocalAbortKeeps ==
    ASSUME NEW w \in WorldType, NEW e \in EnvType, e.role = role,
           w.ctx.persisted \/ w.ctx.busy # <<>> => Open(w.ctx) /\ MayForce(w, e),
           ~(w.ctx.persisted \/ w.ctx.busy # <<>>) =>
               \E c : CoreInv(w.log, c, w.ans, e) /\ Undecided(w.log, c) /\ Bound(c, [w.ctx EXCEPT !.force = TRUE]),
           NEW v, v = DoLocalAbortTx(w)
    PROVE  Aborts(w, v, e) /\ v.ctx.action = w.ctx.action
<1>0. w.ctx \in CtxType
    BY DEF WorldType
<1>1. CASE w.ctx.persisted \/ w.ctx.busy # <<>>
    <2>1. v = CompensateAbortLog(w)
        BY <1>1 DEF DoLocalAbortTx
    <2>2. /\ WInv(v, e) /\ Stays(w, v) /\ v.ctx.force
          /\ v.ret \in {"OK", "NOLOGCB", "KILLED", "NOT_MASTER"}
          /\ ActInv(w.log, w.ctx) => ActInv(v.log, v.ctx)
        BY <1>1, <2>1, CompensateKeeps
    <2> QED
        BY <2>2 DEF Aborts, Stays
<1>2. CASE ~(w.ctx.persisted \/ w.ctx.busy # <<>>)
    <2>1. PICK d : d = [w.ctx EXCEPT !.force = TRUE]
        OBVIOUS
    <2>2. [w.ctx EXCEPT !.force = TRUE] \in CtxType
        BY <1>0 DEF CtxType
    <2>3. /\ d \in CtxType /\ d.lead = w.ctx.lead /\ d.action = w.ctx.action /\ d.info = w.ctx.info
          /\ d.persisted = w.ctx.persisted /\ d.force
          /\ d.busy = w.ctx.busy /\ d.complete = w.ctx.complete /\ d.swl = w.ctx.swl
        <3>1. d \in CtxType
            BY <2>1, <2>2
        <3>2. d.lead = w.ctx.lead /\ d.action = w.ctx.action /\ d.info = w.ctx.info
            BY <1>0, <2>1 DEF CtxType
        <3>3. d.persisted = w.ctx.persisted /\ d.force /\ d.busy = w.ctx.busy
            BY <1>0, <2>1 DEF CtxType
        <3>4. d.complete = w.ctx.complete /\ d.swl = w.ctx.swl
            BY <1>0, <2>1 DEF CtxType
        <3> QED
            BY <3>1, <3>2, <3>3, <3>4
    <2>4. PICK u : u = [w EXCEPT !.ctx = d]
        OBVIOUS
    <2>5. u \in WorldType /\ u.log = w.log /\ u.ctx = d /\ u.ans = w.ans /\ u.bad = w.bad
        BY <2>3, <2>4, CtxUpdate
    <2>6. v = OnLocalAbortTx(u)
        <3>1. [w EXCEPT !.ctx.force = TRUE] = u
            BY <1>0, <2>1, <2>4 DEF WorldType, CtxType
        <3> QED
            BY <1>2, <3>1 DEF DoLocalAbortTx
    <2>7. PICK c : CoreInv(w.log, c, w.ans, e) /\ Undecided(w.log, c) /\ Bound(c, d)
        BY <1>2, <2>1
    <2>8. /\ WInv(v, e) /\ v.ret = "OK" /\ v.log = u.log /\ v.bad = u.bad
          /\ v.ctx.action = d.action /\ v.ctx.lead = d.lead /\ Bound(d, v.ctx)
        BY <2>5, <2>6, <2>7, OnLocalAbortKeeps
    <2>9. ActInv(w.log, w.ctx) => ActInv(v.log, v.ctx)
        BY <2>3, <2>5, <2>8 DEF ActInv, Bound
    <2> QED
        BY <2>3, <2>5, <2>8, <2>9 DEF Aborts, Bound
<1> QED
    BY <1>1, <1>2

(* The action ABORT, of a context that is bound to abort.                  *)
LEMMA ActionKeeps ==
    ASSUME NEW w, NEW e, WInv(w, e), NEW x \in {"START", "COMMIT", "ABORT"},
           NEW v, v = [w EXCEPT !.ctx.action = x]
    PROVE  /\ WInv(v, e) /\ v.log = w.log /\ v.ans = w.ans /\ v.bad = w.bad /\ v.ret = w.ret
           /\ Alike(w.ctx, v.ctx) /\ v.ctx.action = x
<1>0. w \in WorldType /\ w.ctx \in CtxType
    BY DEF WInv, WorldType
<1>1. PICK d : d = [w.ctx EXCEPT !.action = x]
    OBVIOUS
<1>2. [w.ctx EXCEPT !.action = x] \in CtxType
    BY <1>0 DEF CtxType
<1>3. Alike(w.ctx, d) /\ d.action = x
    BY <1>0, <1>1 DEF CtxType, Alike, VersionInv
<1>4. v = [w EXCEPT !.ctx = d]
    BY <1>0, <1>1 DEF WorldType, CtxType
<1>5. /\ v \in WorldType /\ v.log = w.log /\ v.ctx = d /\ v.ans = w.ans
      /\ v.bad = w.bad /\ v.ret = w.ret
    BY <1>0, <1>1, <1>2, <1>4, CtxUpdate
<1>6. WInv(v, e)
    BY <1>3, <1>5, AlikeKeeps DEF WInv
<1> QED
    BY <1>3, <1>5, <1>6

(* do_local_tx_end_ for an abort.                                          *)
LEMMA AbortTxKeeps ==
    ASSUME NEW w \in WorldType, NEW e \in EnvType, e.role = role,
           w.ctx.persisted \/ w.ctx.busy # <<>> => Open(w.ctx) /\ MayForce(w, e),
           ~(w.ctx.persisted \/ w.ctx.busy # <<>>) =>
               \E c : CoreInv(w.log, c, w.ans, e) /\ Undecided(w.log, c) /\ Bound(c, [w.ctx EXCEPT !.force = TRUE]),
           NEW v, v = AbortTx(w)
    PROVE  Aborts(w, v, e)
<1>1. PICK a : a = DoLocalAbortTx(w)
    OBVIOUS
<1>2. Aborts(w, a, e) /\ a.ctx.action = w.ctx.action
    BY <1>1, DoLocalAbortKeeps
<1>3. CASE a.ret = "OK" /\ a.ctx.action # "COMMIT"
    <2>1. v = [a EXCEPT !.ctx.action = "ABORT"]
        BY <1>1, <1>3 DEF AbortTx
    <2>2. WInv(a, e)
        BY <1>2 DEF Aborts
    <2>3. /\ WInv(v, e) /\ v.log = a.log /\ v.ans = a.ans /\ v.bad = a.bad /\ v.ret = a.ret
          /\ Alike(a.ctx, v.ctx) /\ v.ctx.action = "ABORT"
        BY <2>1, <2>2, ActionKeeps
    <2>4. ActInv(a.log, a.ctx) => ActInv(v.log, v.ctx)
        BY <1>2, <1>3, <2>3 DEF ActInv, Alike, Aborts
    <2> QED
        BY <1>2, <2>3, <2>4 DEF Aborts, Alike
<1>4. CASE ~(a.ret = "OK" /\ a.ctx.action # "COMMIT")
    BY <1>1, <1>2, <1>4 DEF AbortTx
<1> QED
    BY <1>3, <1>4

(* An abort that the scheduler or the timer asks for.                      *)
LEMMA AbortSelfKeeps ==
    ASSUME NEW w, NEW e \in EnvType, WInv(w, e), e.role = role, ActInv(w.log, w.ctx),
           ~Committing(w.ctx), NEW v, v = AbortSelf(w)
    PROVE  WInv(v, e) /\ ActInv(v.log, v.ctx) /\ v.bad = w.bad
<1>0. w \in WorldType /\ w.ctx \in CtxType /\ CoreInv(w.log, w.ctx, w.ans, e)
    BY DEF WInv, WorldType, CtxInv
<1>1. w.ctx.state = "INIT" /\ w.ctx.action = "START"
    BY DEF Committing
<1>2. Undecided(w.log, w.ctx) /\ Open(w.ctx)
    BY <1>1 DEF ActInv, Undecided, Open
<1>3. w.ctx.persisted \/ w.ctx.busy # <<>> => MayForce(w, e)
    BY <1>2, Forceable
<1>4. Bound(w.ctx, [w.ctx EXCEPT !.force = TRUE])
    BY <1>0 DEF CtxType, Bound
<1>5. PICK a : a = AbortTx(w)
    OBVIOUS
<1>6. Aborts(w, a, e)
    BY <1>0, <1>2, <1>3, <1>4, <1>5, AbortTxKeeps
<1>7. v = [a EXCEPT !.ctx.action = "ABORT"]
    BY <1>5 DEF AbortSelf
<1>8. /\ WInv(v, e) /\ v.log = a.log /\ v.bad = a.bad
      /\ Alike(a.ctx, v.ctx) /\ v.ctx.action = "ABORT"
    <2>1. WInv(a, e)
        BY <1>6 DEF Aborts
    <2> QED
        BY <1>7, <2>1, ActionKeeps
<1>9. ActInv(a.log, a.ctx) /\ a.ctx.action # "COMMIT" /\ a.ctx.force /\ a.bad = w.bad
    BY <1>1, <1>6 DEF Aborts
<1>10. ActInv(v.log, v.ctx)
    BY <1>8, <1>9 DEF ActInv, Alike
<1> QED
    BY <1>8, <1>9, <1>10

-------------------------------------------------------------------------------
(* Committing                                                              *)

(* one_phase_commit_, which a context bound to abort answers with an abort *)
(* log.                                                                    *)
LEMMA OnePhaseCommitKeeps ==
    ASSUME NEW w, NEW e \in EnvType, WInv(w, e), e.role = role, w.ctx.lead, Open(w.ctx), NEW o,
           NEW v, v = OnePhaseCommit(w, o)
    PROVE  /\ WInv(v, e) /\ Stays(w, v)
           /\ v.ret # "OK" => v.ctx.force /\ v.ret \in Codes \ {"SUCCESS"}
           /\ v.ret # "OK" /\ ActInv(w.log, w.ctx) => ActInv(v.log, v.ctx)
<1>0. w \in WorldType /\ w.ctx \in CtxType /\ CtxInv(w.log, w.ctx, w.ans, e)
    BY DEF WInv, WorldType
<1>1. CASE w.ctx.force
    <2>1. MayForce(w, e)
        BY <1>0, <1>1, ForceIsUndecided, Forceable
    <2>2. PICK a : a = CompensateAbortLog(w)
        OBVIOUS
    <2>3. /\ WInv(a, e) /\ Stays(w, a) /\ a.ctx.force
          /\ a.ret \in {"OK", "NOLOGCB", "KILLED", "NOT_MASTER"}
          /\ ActInv(w.log, w.ctx) => ActInv(a.log, a.ctx)
        BY <1>0, <2>1, <2>2, CompensateKeeps
    <2>4. CASE a.ret = "OK"
        <3>1. v = [a EXCEPT !.ret = "KILLED"]
            BY <1>1, <2>2, <2>4 DEF OnePhaseCommit, Fail
        <3>2. WInv(v, e) /\ v.ret = "KILLED" /\ v.log = a.log /\ v.ctx = a.ctx /\ v.ans = a.ans /\ v.bad = a.bad
            BY <2>3, <3>1, RetKeeps DEF Codes
        <3> QED
            BY <2>3, <3>2 DEF Stays, Codes
    <2>5. CASE a.ret # "OK"
        BY <1>1, <2>2, <2>3, <2>5 DEF OnePhaseCommit, Codes
    <2> QED
        BY <2>4, <2>5
<1>2. CASE ~w.ctx.force
    <2>1. PICK g : g = GenerateCommitVersion(w, o)
        OBVIOUS
    <2>2. WInv(g, e) /\ Moved(w, g)
        BY <2>1, GenerateKeeps
    <2>3. PICK u : u = IF g.ret = "OK" THEN SubmitCommit(g, o) ELSE g
        OBVIOUS
    <2>4. WInv(u, e) /\ Moved(g, u)
        <3>1. CASE g.ret = "OK"
            <4>1. g.ctx.lead /\ Open(g.ctx)
                BY <2>2 DEF Moved, Kept, Open
            <4> QED
                BY <2>2, <2>3, <3>1, <4>1, SubmitCommitKeeps
        <3>2. CASE g.ret # "OK"
            BY <2>2, <2>3, <3>2 DEF Moved, Kept
        <3> QED
            BY <3>1, <3>2
    <2>5. v = [u EXCEPT !.ret = "OK"]
        BY <1>2, <2>1, <2>3 DEF OnePhaseCommit, Ok
    <2>6. WInv(v, e) /\ Moved(u, v) /\ v.ret = "OK"
        BY <2>4, <2>5, RetKeeps DEF Codes
    <2>7. Moved(w, v)
        BY <2>2, <2>4, <2>6, MovedOn
    <2> QED
        BY <2>6, <2>7 DEF Moved, Kept, Stays
<1> QED
    BY <1>1, <1>2

(* Other answers than those of AnsInv can be given at any time.            *)
LEMMA AnswerKeeps ==
    ASSUME NEW l, NEW c, NEW a, NEW b, NEW e, CtxInv(l, c, a, e),
           "SUCCESS" \in b => "SUCCESS" \in a \/ c.state = "COMMIT",
           "KILLED" \in b => "KILLED" \in a \/ c.force
    PROVE  CtxInv(l, c, b, e)
    BY DEF CtxInv, CoreInv, AnsInv, CommitInv

(* A world with other answers.                                             *)
LEMMA AnsUpdate ==
    ASSUME NEW w \in WorldType, NEW b \in SUBSET Final, NEW v, v = [w EXCEPT !.ans = b]
    PROVE  /\ v \in WorldType /\ v.log = w.log /\ v.ctx = w.ctx /\ v.ans = b
           /\ v.bad = w.bad /\ v.ret = w.ret
<1>1. v.log = w.log /\ v.ctx = w.ctx /\ v.ans = b /\ v.bad = w.bad /\ v.ret = w.ret
    BY DEF WorldType
<1>2. v \in WorldType
    BY DEF WorldType
<1> QED
    BY <1>1, <1>2

(* A commit request and its reply, however often it is repeated.           *)
LEMMA CommitKeeps ==
    ASSUME NEW w, NEW e \in EnvType, WInv(w, e), e.role = role, ActInv(w.log, w.ctx), NEW o,
           NEW v, v = Reply(Commit(w, o))
    PROVE  WInv(v, e) /\ ActInv(v.log, v.ctx) /\ v.bad = w.bad
<1>0. w \in WorldType /\ w.ctx \in CtxType /\ CtxInv(w.log, w.ctx, w.ans, e)
    BY DEF WInv, WorldType
<1>1. PICK r : r = Commit(w, o)
    OBVIOUS
<1>2. /\ WInv(r, e) /\ ActInv(r.log, r.ctx) /\ r.bad = w.bad
      /\ r.ret = "KILLED" => r.ctx.force
      /\ r.ret = "SUCCESS" => r.ctx.state = "COMMIT"
    <2>1. CASE ~w.ctx.lead /\ ~w.ctx.exit
        <3>1. r = [w EXCEPT !.ret = "NOT_MASTER"]
            BY <1>1, <2>1 DEF Commit, Fail
        <3>2. WInv(r, e) /\ r.ret = "NOT_MASTER" /\ r.log = w.log /\ r.ctx = w.ctx /\ r.bad = w.bad
            BY <3>1, RetKeeps DEF Codes
        <3> QED
            BY <3>2
    <2>2. CASE ~(~w.ctx.lead /\ ~w.ctx.exit)
        <3>1. PICK q : q = IF w.ctx.state = "INIT" \/ (w.ctx.state = "REDO_COMPLETE" /\ w.ctx.action = "START")
                           THEN OnePhaseCommit(w, o)
                           ELSE CASE w.ctx.state = "ABORT" -> Fail(w, "KILLED")
                                  [] w.ctx.state = "COMMIT" -> Fail(w, "SUCCESS")
                                  [] OTHER -> Ok(w)
            OBVIOUS
        <3>2. r = IF q.ret # "OK" THEN q
                  ELSE [q EXCEPT !.ctx.action = "COMMIT", !.ctx.cb = IF @ = "off" THEN "on" ELSE @]
            BY <1>1, <2>2, <3>1 DEF Commit
        <3>3. /\ WInv(q, e) /\ q.bad = w.bad
              /\ q.ret # "OK" => ActInv(q.log, q.ctx)
              /\ q.ret = "KILLED" => q.ctx.force
              /\ q.ret = "SUCCESS" => q.ctx.state = "COMMIT"
            <4>1. CASE Open(w.ctx) /\ q = OnePhaseCommit(w, o)
                <5>1. w.ctx.lead
                    BY <1>0, <2>2, <4>1 DEF CtxInv, CoreInv, ForceInv, Open
                <5>2. /\ WInv(q, e) /\ Stays(w, q)
                      /\ q.ret # "OK" => q.ctx.force /\ q.ret \in Codes \ {"SUCCESS"}
                      /\ q.ret # "OK" /\ ActInv(w.log, w.ctx) => ActInv(q.log, q.ctx)
                    BY <4>1, <5>1, OnePhaseCommitKeeps
                <5> QED
                    BY <5>2 DEF Stays
            <4>2. CASE w.ctx.state = "ABORT"
                <5>1. q = [w EXCEPT !.ret = "KILLED"]
                    BY <3>1, <4>2 DEF Fail
                <5>2. WInv(q, e) /\ q.ret = "KILLED" /\ q.log = w.log /\ q.ctx = w.ctx /\ q.bad = w.bad
                    BY <5>1, RetKeeps DEF Codes
                <5> QED
                    BY <1>0, <4>2, <5>2 DEF CtxInv, CoreInv, ForceInv
            <4>3. CASE w.ctx.state = "COMMIT"
                <5>1. q = [w EXCEPT !.ret = "SUCCESS"]
                    BY <3>1, <4>3 DEF Fail
                <5>2. WInv(q, e) /\ q.ret = "SUCCESS" /\ q.log = w.log /\ q.ctx = w.ctx /\ q.bad = w.bad
                    BY <5>1, RetKeeps DEF Codes
                <5> QED
                    BY <4>3, <5>2
            <4>4. CASE w.ctx.state = "REDO_COMPLETE" /\ w.ctx.action # "START"
                <5>1. q = [w EXCEPT !.ret = "OK"]
                    BY <3>1, <4>4 DEF Ok
                <5>2. WInv(q, e) /\ q.ret = "OK" /\ q.log = w.log /\ q.ctx = w.ctx /\ q.bad = w.bad
                    BY <5>1, RetKeeps DEF Codes
                <5> QED
                    BY <5>2
            <4>5. w.ctx.state \in {"INIT", "REDO_COMPLETE", "COMMIT", "ABORT"}
                BY <1>0 DEF CtxType
            <4> QED
                BY <3>1, <4>1, <4>2, <4>3, <4>4, <4>5 DEF Open
        <3>4. CASE q.ret # "OK"
            BY <3>2, <3>3, <3>4
        <3>5. CASE q.ret = "OK"
            <4>0. q \in WorldType /\ q.ctx \in CtxType
                BY <3>3 DEF WInv, WorldType
            <4>1. PICK d : d = [q.ctx EXCEPT !.action = "COMMIT", !.cb = IF @ = "off" THEN "on" ELSE @]
                OBVIOUS
            <4>2. /\ Alike(q.ctx, d) /\ d.action = "COMMIT" /\ d.gts = q.ctx.gts /\ d.ver = q.ctx.ver
                  /\ d.prep = q.ctx.prep /\ d.leaked = q.ctx.leaked
                  /\ d.cb \in {"off", "on", "used"} /\ CtxShaped(d)
                BY <4>0, <4>1 DEF CtxType, Alike, CtxShaped, VersionInv
            <4>3. d \in CtxType
                <5>1. Typed(d)
                    BY <4>0, <4>2, CtxIs DEF Typed, Alike
                <5> QED
                    BY <4>2, <5>1, CtxIs
            <4>4. r = [q EXCEPT !.ctx = d]
                BY <3>2, <3>5, <4>0, <4>1 DEF WorldType, CtxType
            <4>5. /\ r \in WorldType /\ r.log = q.log /\ r.ctx = d /\ r.ans = q.ans
                  /\ r.bad = q.bad /\ r.ret = q.ret
                BY <4>0, <4>3, <4>4, CtxUpdate
            <4>6. WInv(r, e)
                BY <3>3, <4>2, <4>5, AlikeKeeps DEF WInv
            <4>7. ActInv(r.log, r.ctx)
                BY <4>2, <4>5 DEF ActInv
            <4> QED
                BY <3>3, <3>5, <4>5, <4>6, <4>7
        <3> QED
            BY <3>4, <3>5
    <2> QED
        BY <2>1, <2>2
<1>3. r \in WorldType /\ r.ans \in SUBSET Final /\ CtxInv(r.log, r.ctx, r.ans, e)
    BY <1>2 DEF WInv, WorldType
<1>4. PICK b : b = r.ans \union ({r.ret} \intersect Final)
    OBVIOUS
<1>5. b \in SUBSET Final
    BY <1>3, <1>4
<1>6. v = [r EXCEPT !.ans = b]
    BY <1>1, <1>3, <1>4 DEF Reply, WorldType
<1>7. v \in WorldType /\ v.log = r.log /\ v.ctx = r.ctx /\ v.ans = b /\ v.bad = r.bad
    BY <1>3, <1>5, <1>6, AnsUpdate
<1>8. CtxInv(r.log, r.ctx, b, e)
    <2>1. "SUCCESS" \in b => "SUCCESS" \in r.ans \/ r.ctx.state = "COMMIT"
        BY <1>2, <1>4
    <2>2. "KILLED" \in b => "KILLED" \in r.ans \/ r.ctx.force
        BY <1>2, <1>4
    <2> QED
        BY <1>3, <2>1, <2>2, AnswerKeeps
<1> QED
    BY <1>2, <1>7, <1>8 DEF WInv

(* What the timer finds, and what each paragraph of it hands to the next.  *)
Going(w, e) == WInv(w, e) /\ ActInv(w.log, w.ctx) /\ Open(w.ctx) /\ w.ctx.lead

(* handle_timeout, all its paragraphs.                                     *)
LEMMA TimerKeeps ==
    ASSUME NEW w, NEW e \in EnvType, e.role = role, Going(w, e), NEW o,
           NEW v, v = TimerWork(AnswerTimeout(w), o)
    PROVE  WInv(v, e) /\ ActInv(v.log, v.ctx) /\ v.bad = w.bad
<1>0. WInv(w, e) /\ ActInv(w.log, w.ctx) /\ Open(w.ctx) /\ w.ctx.lead /\ w \in WorldType
    BY DEF Going, WInv
<1>1. PICK w1 : w1 = AnswerTimeout(w)
    OBVIOUS
<1>2. Going(w1, e) /\ w1.bad = w.bad
    <2>1. CASE w1 = w
        BY <2>1
    <2>2. CASE w1 = PostTxCommitResp(w, "TIMEOUT")
        <3>1. /\ w1 \in WorldType /\ w1.log = w.log /\ w1.bad = w.bad
              /\ w1.ans = w.ans \union ({"TIMEOUT"} \intersect Final)
              /\ Alike(w.ctx, w1.ctx) /\ w1.ctx.action = w.ctx.action
            BY <1>0, <2>2, RespFields
        <3>2. w1.ans = w.ans
            BY <3>1 DEF Final
        <3>3. WInv(w1, e)
            BY <1>0, <3>1, <3>2, AlikeKeeps DEF WInv
        <3>4. ActInv(w1.log, w1.ctx)
            BY <1>0, <3>1 DEF ActInv, Alike
        <3> QED
            BY <1>0, <3>1, <3>3, <3>4 DEF Going, Alike, Open
    <2> QED
        BY <1>1, <2>1, <2>2 DEF AnswerTimeout
<1>3. PICK w2 : w2 = GoOnFromRedoComplete(w1, o)
    OBVIOUS
<1>4. Going(w2, e) /\ w2.bad = w.bad
    <2>1. CASE w1.ctx.state # "REDO_COMPLETE" \/ w1.ctx.busy # <<>>
        BY <1>2, <1>3, <2>1 DEF GoOnFromRedoComplete
    <2>2. CASE ~(w1.ctx.state # "REDO_COMPLETE" \/ w1.ctx.busy # <<>>)
        <3>1. PICK r : r = OnePhaseCommit(w1, o)
            OBVIOUS
        <3>2. /\ WInv(r, e) /\ Stays(w1, r)
              /\ r.ret # "OK" /\ ActInv(w1.log, w1.ctx) => ActInv(r.log, r.ctx)
            BY <1>2, <3>1, OnePhaseCommitKeeps DEF Going
        <3>3. CASE r.ret # "OK"
            <4>1. w2 = r
                BY <1>3, <2>2, <3>1, <3>3 DEF GoOnFromRedoComplete
            <4> QED
                BY <1>2, <3>2, <3>3, <4>1 DEF Going, Stays, Open
        <3>4. CASE r.ret = "OK"
            <4>1. w2 = [r EXCEPT !.ctx.action = "COMMIT"]
                BY <1>3, <2>2, <3>1, <3>4 DEF GoOnFromRedoComplete
            <4>2. /\ WInv(w2, e) /\ w2.bad = r.bad
                  /\ Alike(r.ctx, w2.ctx) /\ w2.ctx.action = "COMMIT"
                BY <3>2, <4>1, ActionKeeps
            <4>3. ActInv(w2.log, w2.ctx)
                BY <4>2 DEF ActInv
            <4> QED
                BY <1>2, <3>2, <4>2, <4>3 DEF Going, Stays, Open, Alike
        <3> QED
            BY <3>3, <3>4
    <2> QED
        BY <2>1, <2>2
<1>5. PICK w3 : w3 = RetryCommitting(w2, o)
    OBVIOUS
<1>6. Going(w3, e) /\ w3.bad = w.bad
    <2>1. CASE w3 = w2
        BY <1>4, <2>1
    <2>2. CASE w3 = TrySubmitNextLog(w2, o)
        <3>1. WInv(w3, e) /\ Moved(w2, w3) /\ ActInv(w3.log, w3.ctx)
            BY <1>4, <2>2, TrySubmitKeeps DEF Going
        <3> QED
            BY <1>4, <3>1 DEF Going, Moved, Kept, Open
    <2> QED
        BY <1>5, <2>1, <2>2 DEF RetryCommitting
<1>7. PICK w4 : w4 = RetryAbortLog(w3)
    OBVIOUS
<1>8. Going(w4, e) /\ w4.bad = w.bad
    <2>1. CASE w4 = w3
        BY <1>6, <2>1
    <2>2. CASE w4 = CompensateAbortLog(w3) /\ w3.ctx.up
        <3>1. WInv(w3, e) /\ w3 \in WorldType /\ CtxInv(w3.log, w3.ctx, w3.ans, e) /\ Open(w3.ctx)
            BY <1>6 DEF Going, WInv
        <3>2. w3.ctx.force
            BY <2>2, <3>1 DEF CtxInv, CoreInv, ForceInv
        <3>3. MayForce(w3, e)
            BY <3>1, <3>2, ForceIsUndecided, Forceable
        <3>4. /\ WInv(w4, e) /\ Stays(w3, w4)
              /\ ActInv(w3.log, w3.ctx) => ActInv(w4.log, w4.ctx)
            BY <2>2, <3>1, <3>3, CompensateKeeps
        <3> QED
            BY <1>6, <3>4 DEF Going, Stays, Open
    <2> QED
        BY <1>7, <2>1, <2>2 DEF RetryAbortLog
<1>9. v = AbortExpired(w4)
    BY <1>1, <1>3, <1>5, <1>7 DEF TimerWork
<1>10. CASE v = w4
    BY <1>8, <1>10 DEF Going
<1>11. CASE v = AbortSelf(w4) /\ ~Committing(w4.ctx)
    BY <1>8, <1>11, AbortSelfKeeps DEF Going
<1> QED
    BY <1>9, <1>10, <1>11 DEF AbortExpired

-------------------------------------------------------------------------------
(* Callbacks of the log                                                    *)

(* The tail of a sequence, element by element.                             *)
LEMMA TailIs ==
    ASSUME NEW S, NEW s \in Seq(S), s # <<>>
    PROVE  /\ Tail(s) \in Seq(S) /\ Len(s) \in Nat \ {0} /\ Len(Tail(s)) = Len(s) - 1
           /\ Head(s) = s[1] /\ s[1] \in S
           /\ \A k \in 1 .. Len(s) - 1 : Tail(s)[k] = s[k + 1]
    OBVIOUS

(* The callbacks left when the first is taken.                             *)
Rest(s, t) ==
    /\ Len(s) \in Nat \ {0} /\ Len(t) = Len(s) - 1
    /\ \A k \in 1 .. Len(t) : k + 1 \in 1 .. Len(s) /\ t[k] = s[k + 1]

(* Taking the first callback.                                              *)
LEMMA TailRests ==
    ASSUME NEW S, NEW s \in Seq(S), s # <<>>
    PROVE  /\ Tail(s) \in Seq(S) /\ Rest(s, Tail(s)) /\ Head(s) = s[1] /\ s[1] \in S
<1>1. /\ Tail(s) \in Seq(S) /\ Len(s) \in Nat \ {0} /\ Len(Tail(s)) = Len(s) - 1
      /\ Head(s) = s[1] /\ s[1] \in S
      /\ \A k \in 1 .. Len(s) - 1 : Tail(s)[k] = s[k + 1]
    BY TailIs
<1>2. \A k \in 1 .. Len(s) - 1 : k + 1 \in 1 .. Len(s)
    BY <1>1
<1> QED
    BY <1>1, <1>2 DEF Rest

(* The parts that are left when the first callback is taken.               *)
LEMMA RestHas ==
    ASSUME NEW s, NEW t, Rest(s, t), NEW p, Has(t, p)
    PROVE  Has(s, p)
    BY DEF Has, Rest

(* The parts of the invariant that only speak of each callback, or of      *)
(* their order.                                                            *)
LEMMA RestOrder ==
    ASSUME NEW l, NEW c \in CtxType, NEW d, NEW e, NEW f, Rest(c.busy, d.busy), BusyInv(l, c, e),
           f.role = e.role
    PROVE  BusyInv(l, d, f)
<1>1. ASSUME NEW k \in 1 .. Len(d.busy), NEW i \in 1 .. Len(d.busy), k < i
      PROVE  d.busy[k].pos < d.busy[i].pos
    <2>1. k + 1 \in 1 .. Len(c.busy) /\ d.busy[k] = c.busy[k + 1] /\ i + 1 \in 1 .. Len(c.busy)
          /\ d.busy[i] = c.busy[i + 1] /\ k + 1 < i + 1
        BY <1>1 DEF Rest
    <2> QED
        BY <2>1 DEF BusyInv
<1>2. ASSUME NEW k \in 1 .. Len(d.busy)
      PROVE  /\ d.busy[k].pos > 0
             /\ d.busy[k].pos <= Len(l) => l[d.busy[k].pos].has = d.busy[k].has
             /\ f.role \notin Broken => d.busy[k].pos <= Len(l)
    <2>1. k + 1 \in 1 .. Len(c.busy) /\ d.busy[k] = c.busy[k + 1]
        BY DEF Rest
    <2> QED
        BY <2>1 DEF BusyInv
<1>3. f.role # "follower"
    <2>1. c.busy # <<>>
        BY DEF Rest
    <2> QED
        BY <2>1 DEF BusyInv
<1> QED
    BY <1>1, <1>2, <1>3 DEF BusyInv

(* The first callback has failed.                                          *)
Dropped(c, d) ==
    /\ Rest(c.busy, d.busy)
    /\ d.state = c.state /\ d.up = c.up /\ d.lead = c.lead /\ d.force = c.force
    /\ d.complete = c.complete /\ d.swl = c.swl /\ d.persisted = c.persisted
    /\ d.exit = c.exit /\ d.unlog = c.unlog /\ d.gts = c.gts /\ d.ver = c.ver
    /\ d.prep => c.prep
    /\ d.info => c.info
    /\ d.submitted <=> c.submitted /\ ~(Len(c.busy) = 1 /\ Open(c))

(* The callback of a log that is lost can be dropped.                      *)
LEMMA DroppedKeeps ==
    ASSUME NEW l \in Seq(EntryType), NEW c \in CtxType, NEW d \in CtxType, NEW a, NEW e,
           CtxInv(l, c, a, e), e.role \in Broken, Dropped(c, d), c.busy[1].pos > Len(l)
    PROVE  CoreInv(l, d, a, e)
<1>0. /\ e.synced <= Len(l) /\ BusyInv(l, c, e) /\ CommitInv(l, c, e) /\ ForceInv(l, c)
      /\ SubmitInv(c, e) /\ PhaseInv(c, e) /\ DataInv(l, c, e) /\ ActiveInv(l, c, e) /\ AnsInv(l, c, a, e)
    BY DEF CtxInv, CoreInv
<1>1. /\ Rest(c.busy, d.busy) /\ Len(c.busy) \in Nat \ {0} /\ Len(d.busy) = Len(c.busy) - 1
      /\ \A k \in 1 .. Len(d.busy) : k + 1 \in 1 .. Len(c.busy) /\ d.busy[k] = c.busy[k + 1]
    BY DEF Dropped, Rest
<1>2. \A p : Has(d.busy, p) => Has(c.busy, p)
    BY <1>1, RestHas
<1>3. BusyInv(l, d, e)
    BY <1>0, <1>1, RestOrder
<1>4. CommitInv(l, d, e)
    <2>1. ASSUME NEW i \in 1 .. Len(l), "commit" \in l[i].has, c.state # "COMMIT"
          PROVE  \E k \in 1 .. Len(d.busy) : d.busy[k].pos = i
        <3>1. PICK k \in 1 .. Len(c.busy) : c.busy[k].pos = i
            BY <1>0, <2>1 DEF CommitInv
        <3>2. k # 1
            BY <3>1
        <3>3. k - 1 \in 1 .. Len(d.busy) /\ (k - 1) + 1 = k
            <4>1. \A n \in Nat \ {0}, m \in Int : \A j \in 1 .. n :
                      m = n - 1 /\ j # 1 => j - 1 \in 1 .. m /\ (j - 1) + 1 = j
                OBVIOUS
            <4>2. Len(c.busy) - 1 \in Int
                BY <1>1
            <4> QED
                BY <1>1, <3>2, <4>1, <4>2, Zenon
        <3>4. d.busy[k - 1] = c.busy[k]
            BY <1>1, <3>3, Zenon
        <3> QED
            BY <3>1, <3>3, <3>4
    <2>2. ASSUME NEW k \in 1 .. Len(d.busy), NEW i \in 1 .. Len(d.busy), k < i
          PROVE  "commit" \notin d.busy[k].has
        <3>1. k + 1 \in 1 .. Len(c.busy) /\ i + 1 \in 1 .. Len(c.busy) /\ k + 1 < i + 1
              /\ d.busy[k] = c.busy[k + 1]
            BY <1>1, <2>2
        <3> QED
            BY <1>0, <3>1 DEF CommitInv
    <2>3. c.state # "COMMIT"
        <3>1. c.busy # <<>>
            BY <1>1
        <3> QED
            BY <1>0, <3>1 DEF CommitInv
    <2> QED
        BY <2>1, <2>2, <2>3 DEF CommitInv, Dropped
<1>5. ForceInv(l, d)
    BY <1>0, <1>2 DEF ForceInv, Dropped
<1>6. SubmitInv(d, e)
    <2>1. ASSUME d.submitted, d.state \notin {"COMMIT", "ABORT"}
          PROVE  d.busy # <<>> /\ IsStateLog(d.busy[Len(d.busy)].has)
        <3>1. c.submitted /\ Len(c.busy) # 1 /\ c.state \notin {"COMMIT", "ABORT"}
            <4>1. c.state = d.state /\ c.submitted /\ ~(Len(c.busy) = 1 /\ Open(c))
                BY <2>1 DEF Dropped
            <4>2. Open(c)
                BY <2>1, <4>1 DEF Open, CtxType
            <4> QED
                BY <2>1, <4>1, <4>2
        <3>2. IsStateLog(c.busy[Len(c.busy)].has)
            BY <1>0, <3>1 DEF SubmitInv
        <3>3. Len(d.busy) \in 1 .. Len(d.busy) /\ Len(d.busy) + 1 = Len(c.busy)
            <4>1. Len(c.busy) \in Nat \ {0} /\ Len(d.busy) = Len(c.busy) - 1 /\ Len(c.busy) # 1
                BY <1>1, <3>1
            <4>2. \A n \in Nat \ {0}, m \in Int : m = n - 1 /\ n # 1 => m \in 1 .. m /\ m + 1 = n
                OBVIOUS
            <4>3. Len(c.busy) - 1 \in Int
                BY <4>1
            <4> QED
                BY <4>1, <4>2, <4>3, Zenon
        <3>4. d.busy[Len(d.busy)] = c.busy[Len(c.busy)]
            BY <1>1, <3>3, Zenon
        <3>5. d.busy # <<>>
            <4>1. Len(d.busy) # 0
                BY <3>3
            <4> QED
                BY <4>1
        <3> QED
            BY <3>2, <3>4, <3>5
    <2>2. ASSUME NEW k \in 1 .. Len(d.busy), IsStateLog(d.busy[k].has) PROVE d.submitted
        <3>1. c.submitted
            BY <1>0, <1>1, <2>2 DEF SubmitInv
        <3>2. Len(c.busy) # 1
            BY <1>1, <2>2
        <3> QED
            BY <3>1, <3>2 DEF Dropped
    <2>3. Has(d.busy, "commit") => d.ver
        BY <1>0, <1>2 DEF SubmitInv, Dropped
    <2> QED
        BY <2>1, <2>2, <2>3 DEF SubmitInv
<1>7. PhaseInv(d, e)
    BY <1>0, <1>1, <1>2 DEF PhaseInv, Dropped
<1>8. DataInv(l, d, e)
    BY <1>0 DEF DataInv, Dropped
<1>9. ActiveInv(l, d, e)
    <2>1. ASSUME NEW k \in 1 .. Len(d.busy), Sets(d, k)
          PROVE  /\ ~d.lead /\ ~d.info
                 /\ d.busy[k].pos <= Len(l) => HasData(l, d.busy[k].pos, e.written)
        <3>1. k + 1 \in 1 .. Len(c.busy) /\ d.busy[k] = c.busy[k + 1] /\ d.swl = c.swl
            BY <1>1 DEF Dropped
        <3>2. Sets(c, k + 1)
            BY <2>1, <3>1 DEF Sets
        <3> QED
            BY <1>0, <3>1, <3>2 DEF ActiveInv, Dropped
    <2>2. d.complete => ~d.lead /\ ~d.info /\ HasData(l, e.synced, e.written)
        BY <1>0 DEF ActiveInv, Dropped
    <2> QED
        BY <2>1, <2>2 DEF ActiveInv
<1>10. AnsInv(l, d, a, e)
    <2>1. c.busy # <<>>
        BY <1>1
    <2> QED
        BY <1>0, <2>1 DEF AnsInv, Doomed, Dropped
<1>11. VersionInv(d)
    BY DEF CtxInv, CoreInv, VersionInv, Dropped
<1> QED
    BY <1>11, <1>0, <1>3, <1>4, <1>5, <1>6, <1>7, <1>8, <1>9, <1>10 DEF CoreInv

(* on_failure, which aborts a context that has lost its only log.          *)
LEMMA OnFailureKeeps ==
    ASSUME NEW w, NEW e \in EnvType, WInv(w, e), e.role = role, role = "down", ActInv(w.log, w.ctx),
           w.ctx.busy # <<>>, Head(w.ctx.busy).pos > Len(w.log), NEW v, v = OnFailure(w)
    PROVE  WInv(v, e) /\ ActInv(v.log, v.ctx) /\ v.bad = w.bad
<1> DEFINE c == w.ctx
           h == Head(c.busy)
           last == Len(c.busy) = 1
<1>0. /\ w \in WorldType /\ c \in CtxType /\ w.log \in Seq(EntryType) /\ c.busy \in Seq(CbType)
      /\ CtxInv(w.log, c, w.ans, e)
    BY DEF WInv, WorldType, CtxType
<1>1. Tail(c.busy) \in Seq(CbType) /\ Rest(c.busy, Tail(c.busy)) /\ Head(c.busy) = c.busy[1]
    BY <1>0, TailRests
<1>2. PICK d : d = [c EXCEPT !.busy = Tail(@),
                             !.submitting = @ /\ ~IsStateLog(h.has),
                             !.prep = @ /\ "commit" \notin h.has,
                             !.info = @ /\ ~("info" \in h.has /\ ~IsStateLog(h.has)),
                             !.submitted = @ /\ ~(last /\ c.state \in {"INIT", "REDO_COMPLETE"})]
    OBVIOUS
<1>3. /\ d.busy = Tail(c.busy)
      /\ d.submitting = (c.submitting /\ ~IsStateLog(h.has))
      /\ d.prep = (c.prep /\ "commit" \notin h.has)
      /\ d.info = (c.info /\ ~("info" \in h.has /\ ~IsStateLog(h.has)))
      /\ d.submitted = (c.submitted /\ ~(last /\ c.state \in {"INIT", "REDO_COMPLETE"}))
    BY <1>0, <1>2 DEF CtxType
<1>4. /\ d.state = c.state /\ d.up = c.up /\ d.lead = c.lead /\ d.force = c.force
      /\ d.complete = c.complete /\ d.swl = c.swl /\ d.persisted = c.persisted
      /\ d.exit = c.exit /\ d.unlog = c.unlog /\ d.gts = c.gts /\ d.ver = c.ver
      /\ d.action = c.action /\ d.cb = c.cb /\ d.leaked = c.leaked /\ CtxShaped(d)
    BY <1>0, <1>2 DEF CtxType, CtxShaped
<1>5. d \in CtxType
    <2>1. Typed(d)
        BY <1>0, <1>1, <1>3, <1>4, CtxIs DEF Typed
    <2> QED
        BY <1>4, <2>1, CtxIs
<1>6. Dropped(c, d)
    BY <1>1, <1>3, <1>4 DEF Dropped, Open
<1>7. CoreInv(w.log, d, w.ans, e)
    BY <1>0, <1>1, <1>5, <1>6, DroppedKeeps DEF Broken
<1>8. ActInv(w.log, d)
    <2>1. \A p : Has(d.busy, p) => Has(c.busy, p)
        BY <1>6, RestHas DEF Dropped
    <2> QED
        BY <1>3, <1>4, <2>1 DEF ActInv
<1>9. PICK u : u = [w EXCEPT !.ctx = d]
    OBVIOUS
<1>10. /\ u \in WorldType /\ u.log = w.log /\ u.ctx = d /\ u.ans = w.ans /\ u.bad = w.bad
    BY <1>0, <1>5, <1>9, CtxUpdate
<1>11. v = IF last /\ ~c.persisted THEN AbortTx(u) ELSE u
    <2>1. u = [w EXCEPT !.ctx.busy = Tail(@),
                        !.ctx.submitting = @ /\ ~IsStateLog(h.has),
                        !.ctx.prep = @ /\ "commit" \notin h.has,
                        !.ctx.info = @ /\ ~("info" \in h.has /\ ~IsStateLog(h.has)),
                        !.ctx.submitted = @ /\ ~(last /\ w.ctx.state \in {"INIT", "REDO_COMPLETE"})]
        BY ZenonT(60), <1>0, <1>2, <1>9 DEF WorldType, CtxType
    <2> QED
        BY <2>1 DEF OnFailure
<1>12. CASE last /\ ~c.persisted
    <2>1. v = AbortTx(u)
        BY <1>11, <1>12
    <2>2. d.busy = <<>> /\ ~d.persisted
        <3>1. Len(d.busy) = 0 /\ d.busy \in Seq(CbType)
            BY <1>1, <1>3, <1>12 DEF Rest
        <3> QED
            BY <3>1, <1>4, <1>12
    <2>3. Undecided(w.log, d)
        <3>1. d.state # "COMMIT" /\ CommitInv(w.log, d, e)
            BY <1>7, <2>2 DEF CoreInv, ForceInv
        <3>2. Len(d.busy) = 0
            BY <2>2
        <3> QED
            BY <3>1, <3>2 DEF CommitInv, Undecided, Has
    <2>4. Bound(d, [d EXCEPT !.force = TRUE])
        BY <1>5 DEF CtxType, Bound
    <2>5. Aborts(u, v, e)
        BY <1>7, <1>10, <2>1, <2>2, <2>3, <2>4, AbortTxKeeps
    <2> QED
        BY <1>8, <1>10, <2>5 DEF Aborts
<1>13. CASE ~(last /\ ~c.persisted)
    <2>1. v = u
        BY <1>11, <1>13
    <2>2. PersistInv(d)
        <3>1. CASE c.persisted
            BY <1>4, <3>1 DEF PersistInv
        <3>2. CASE ~last
            <4>1. Len(d.busy) # 0
                BY <1>1, <1>3, <3>2 DEF Rest
            <4>2. d.busy # <<>>
                BY <4>1
            <4> QED
                BY <4>2 DEF PersistInv
        <3> QED
            BY <1>13, <3>1, <3>2
    <2> QED
        BY <1>7, <1>8, <1>10, <2>1, <2>2 DEF WInv, CtxInv
<1> QED
    BY <1>12, <1>13

(* A callback that succeeds tells that more of the log is agreed on.       *)
Later(l, e, f) ==
    /\ f.role = e.role /\ f.mode = e.mode /\ f.written = e.written /\ f.swl = e.swl
    /\ e.synced <= f.synced /\ f.synced <= Len(l)

(* The invariant stays when more of the log is agreed on.                  *)
LEMMA LaterKeeps ==
    ASSUME NEW l, NEW c, NEW a, NEW e \in EnvType, NEW f \in EnvType, CtxInv(l, c, a, e), Later(l, e, f)
    PROVE  CtxInv(l, c, a, f)
<1>0. e.synced \in Nat /\ f.synced \in Nat /\ \A i \in 1 .. e.synced : i \in 1 .. f.synced
    BY DEF Later, EnvType
<1>1. \A p : Agreed(l, e.synced, p) => Agreed(l, f.synced, p)
    BY <1>0 DEF Agreed
<1>2. HasData(l, e.synced, e.written) => HasData(l, f.synced, f.written)
    BY <1>0 DEF HasData, Later
<1>3. Lost(c, e) = Lost(c, f) /\ Doomed(c, e) = Doomed(c, f)
    BY DEF Lost, Doomed, Later
<1>4. BusyInv(l, c, f) /\ CommitInv(l, c, f) /\ ForceInv(l, c) /\ SubmitInv(c, f) /\ VersionInv(c)
    BY <1>1 DEF CtxInv, CoreInv, Later, BusyInv, CommitInv, SubmitInv
<1>5. PersistInv(c) /\ PhaseInv(c, f)
    BY DEF CtxInv, CoreInv, Later, PhaseInv
<1>6. DataInv(l, c, f)
    BY <1>1, <1>3 DEF CtxInv, CoreInv, Later, DataInv
<1>7. ActiveInv(l, c, f)
    BY <1>2 DEF CtxInv, CoreInv, Later, ActiveInv
<1>8. AnsInv(l, c, a, f)
    BY <1>1, <1>3 DEF CtxInv, CoreInv, AnsInv
<1> QED
    BY <1>4, <1>5, <1>6, <1>7, <1>8 DEF CtxInv, CoreInv, Later

(* The first callback is taken.                                            *)
Popped(c, d) ==
    /\ Rest(c.busy, d.busy)
    /\ d.up = c.up /\ d.lead = c.lead /\ d.force = c.force /\ d.swl = c.swl
    /\ d.unlog = c.unlog /\ d.info = c.info /\ d.submitted = c.submitted /\ d.ver = c.ver
    /\ c.complete => d.complete
    /\ d.complete => c.complete \/ Sets(c, 1)
    /\ c.exit => d.exit
    /\ c.persisted => d.persisted
    /\ d.prep = c.prep /\ (d.gts = "get" => c.gts = "get")

(* It belongs to an entry of the log that is agreed on now.                *)
FirstAgreed(l, c, e) == c.busy[1].pos <= e.synced /\ e.synced <= Len(l)

(* What the three kinds of callbacks have in common.                       *)
LEMMA PoppedShares ==
    ASSUME NEW l \in Seq(EntryType), NEW c \in CtxType, NEW d \in CtxType, NEW a, NEW e \in EnvType,
           CtxInv(l, c, a, e), Popped(c, d), FirstAgreed(l, c, e)
    PROVE  /\ BusyInv(l, d, e) /\ PhaseInv(d, e) /\ ActiveInv(l, d, e)
           /\ \A p : Has(d.busy, p) => Has(c.busy, p)
           /\ \A k \in 1 .. Len(d.busy) : k + 1 \in 1 .. Len(c.busy) /\ d.busy[k] = c.busy[k + 1]
           /\ 1 \in 1 .. Len(c.busy) /\ c.busy # <<>> /\ c.busy[1].pos \in 1 .. e.synced
           /\ c.busy[1].pos \in 1 .. Len(l)
           /\ l[c.busy[1].pos].has = c.busy[1].has
           /\ \A p : p \in c.busy[1].has => Agreed(l, e.synced, p) /\ Has(l, p)
<1>0. BusyInv(l, c, e) /\ PhaseInv(c, e) /\ ActiveInv(l, c, e)
    BY DEF CtxInv, CoreInv
<1>1. /\ Rest(c.busy, d.busy) /\ Len(c.busy) \in Nat \ {0} /\ Len(d.busy) = Len(c.busy) - 1
      /\ \A k \in 1 .. Len(d.busy) : k + 1 \in 1 .. Len(c.busy) /\ d.busy[k] = c.busy[k + 1]
    BY DEF Popped, Rest
<1>2. \A p : Has(d.busy, p) => Has(c.busy, p)
    BY <1>1, RestHas
<1>3. BusyInv(l, d, e)
    BY <1>0, <1>1, RestOrder
<1>4. 1 \in 1 .. Len(c.busy) /\ c.busy # <<>>
    BY <1>1
<1>5. c.busy[1] \in CbType
    BY <1>4 DEF CtxType
<1>6. c.busy[1].pos \in Nat /\ c.busy[1].pos > 0 /\ e.synced \in Nat /\ Len(l) \in Nat
    BY <1>0, <1>4, <1>5 DEF BusyInv, CbType, EnvType
<1>7. c.busy[1].pos \in 1 .. e.synced /\ c.busy[1].pos \in 1 .. Len(l)
    BY <1>6 DEF FirstAgreed
<1>8. l[c.busy[1].pos].has = c.busy[1].has
    BY <1>0, <1>4, <1>7 DEF BusyInv
<1>9. \A p : p \in c.busy[1].has => Agreed(l, e.synced, p) /\ Has(l, p)
    BY <1>7, <1>8 DEF Agreed, Has
<1>10. PhaseInv(d, e)
    BY <1>0, <1>1, <1>2 DEF PhaseInv, Popped
<1>11. ActiveInv(l, d, e)
    <2>1. ASSUME NEW k \in 1 .. Len(d.busy), Sets(d, k)
          PROVE  /\ ~d.lead /\ ~d.info
                 /\ d.busy[k].pos <= Len(l) => HasData(l, d.busy[k].pos, e.written)
        <3>1. k + 1 \in 1 .. Len(c.busy) /\ d.busy[k] = c.busy[k + 1] /\ d.swl = c.swl
            BY <1>1 DEF Popped
        <3>2. Sets(c, k + 1)
            BY <2>1, <3>1 DEF Sets
        <3> QED
            BY <1>0, <3>1, <3>2 DEF ActiveInv, Popped
    <2>2. ASSUME d.complete PROVE ~d.lead /\ ~d.info /\ HasData(l, e.synced, e.written)
        <3>1. CASE c.complete
            BY <1>0, <3>1 DEF ActiveInv, Popped
        <3>2. CASE Sets(c, 1)
            <4>1. ~c.lead /\ ~c.info /\ HasData(l, c.busy[1].pos, e.written)
                BY <1>0, <1>4, <1>7, <3>2 DEF ActiveInv
            <4>2. \A j \in 1 .. c.busy[1].pos : j \in 1 .. e.synced
                BY <1>6, <1>7
            <4>3. HasData(l, e.synced, e.written)
                BY <4>1, <4>2 DEF HasData
            <4> QED
                BY <4>1, <4>3 DEF Popped
        <3> QED
            BY <2>2, <3>1, <3>2 DEF Popped
    <2> QED
        BY <2>1, <2>2 DEF ActiveInv
<1> QED
    BY <1>1, <1>2, <1>3, <1>4, <1>7, <1>8, <1>9, <1>10, <1>11

(* The callback of an abort log, or any callback of an aborted context.    *)
LEMMA PopAborted ==
    ASSUME NEW l \in Seq(EntryType), NEW c \in CtxType, NEW d \in CtxType, NEW a, NEW b, NEW e \in EnvType,
           CtxInv(l, c, a, e), Popped(c, d), FirstAgreed(l, c, e), c.force, d.gts = c.gts,
           d.state = "ABORT", d.exit, "SUCCESS" \in b => "SUCCESS" \in a
    PROVE  CtxInv(l, d, b, e)
<1>0. /\ e.synced <= Len(l) /\ CommitInv(l, c, e) /\ ForceInv(l, c)
      /\ SubmitInv(c, e) /\ DataInv(l, c, e) /\ AnsInv(l, c, a, e)
    BY DEF CtxInv, CoreInv
<1>1. /\ BusyInv(l, d, e) /\ PhaseInv(d, e) /\ ActiveInv(l, d, e)
      /\ \A p : Has(d.busy, p) => Has(c.busy, p)
      /\ \A k \in 1 .. Len(d.busy) : k + 1 \in 1 .. Len(c.busy) /\ d.busy[k] = c.busy[k + 1]
    BY PoppedShares
<1>2. ~Has(l, "commit") /\ ~Has(c.busy, "commit") /\ ~Has(d.busy, "commit")
    BY <1>0, <1>1 DEF ForceInv
<1>3. CommitInv(l, d, e)
    BY <1>2 DEF CommitInv, Has
<1>4. c.state # "COMMIT"
    BY <1>0, <1>2 DEF CommitInv, Agreed, Has
<1>5. ForceInv(l, d)
    BY <1>0, <1>1, <1>2, <1>4 DEF ForceInv, Popped
<1>6. SubmitInv(d, e)
    BY <1>0, <1>1, <1>2 DEF SubmitInv, Popped, Has
<1>7. DataInv(l, d, e)
    BY <1>0 DEF DataInv, Popped
<1>8. AnsInv(l, d, b, e) /\ PersistInv(d) /\ VersionInv(d)
    BY <1>0 DEF AnsInv, Popped, PersistInv, VersionInv, CtxInv, CoreInv
<1> QED
    BY <1>0, <1>1, <1>3, <1>5, <1>6, <1>7, <1>8 DEF CtxInv, CoreInv

(* The callback of a commit log.                                           *)
LEMMA PopCommitted ==
    ASSUME NEW l \in Seq(EntryType), NEW c \in CtxType, NEW d \in CtxType, NEW a, NEW b, NEW e \in EnvType,
           CtxInv(l, c, a, e), Popped(c, d), FirstAgreed(l, c, e), "commit" \in c.busy[1].has,
           d.state = "COMMIT", d.persisted, "KILLED" \in b => "KILLED" \in a
    PROVE  CtxInv(l, d, b, e)
<1>0. /\ e.synced <= Len(l) /\ CommitInv(l, c, e) /\ ForceInv(l, c)
      /\ SubmitInv(c, e) /\ DataInv(l, c, e) /\ AnsInv(l, c, a, e)
    BY DEF CtxInv, CoreInv
<1>1. /\ BusyInv(l, d, e) /\ PhaseInv(d, e) /\ ActiveInv(l, d, e)
      /\ \A p : Has(d.busy, p) => Has(c.busy, p)
      /\ \A k \in 1 .. Len(d.busy) : k + 1 \in 1 .. Len(c.busy) /\ d.busy[k] = c.busy[k + 1]
      /\ 1 \in 1 .. Len(c.busy) /\ c.busy # <<>>
      /\ c.busy[1].pos \in 1 .. Len(l)
      /\ l[c.busy[1].pos].has = c.busy[1].has
      /\ \A p : p \in c.busy[1].has => Agreed(l, e.synced, p) /\ Has(l, p)
    BY PoppedShares
<1>2. c.submitted /\ ~c.force
    BY <1>0, <1>1 DEF SubmitInv, IsStateLog, ForceInv
<1>3. d.busy = <<>> /\ Len(d.busy) = 0
    <2>1. Len(c.busy) \in Nat \ {0} /\ Len(d.busy) = Len(c.busy) - 1
        BY DEF Popped, Rest
    <2>2. ASSUME Len(c.busy) # 1 PROVE FALSE
        <3>1. \A n \in Nat \ {0} : n # 1 => 2 \in 1 .. n
            OBVIOUS
        <3>2. 2 \in 1 .. Len(c.busy)
            BY <2>1, <2>2, <3>1, Zenon
        <3> QED
            BY <1>0, <1>1, <3>2 DEF CommitInv
    <2>3. Len(d.busy) = 0
        BY <2>1, <2>2
    <2>4. d.busy \in Seq(CbType)
        BY DEF CtxType
    <2> QED
        BY <2>3, <2>4
<1>4. CommitInv(l, d, e)
    BY <1>1, <1>2, <1>3 DEF CommitInv, Popped
<1>5. ForceInv(l, d)
    BY <1>0, <1>1, <1>2 DEF ForceInv, Popped
<1>6. SubmitInv(d, e)
    <2>1. ASSUME NEW k \in 1 .. Len(d.busy), IsStateLog(d.busy[k].has)
          PROVE  d.submitted /\ (e.role \notin Broken /\ "commit" \in d.busy[k].has => d.info)
        <3>1. k + 1 \in 1 .. Len(c.busy) /\ d.busy[k] = c.busy[k + 1]
            BY <1>1
        <3> QED
            BY <1>0, <2>1, <3>1 DEF SubmitInv, Popped
    <2>2. Has(d.busy, "commit") => d.ver
        BY <1>0, <1>1 DEF SubmitInv, Popped
    <2> QED
        BY <2>1, <2>2 DEF SubmitInv
<1>7. DataInv(l, d, e)
    <2>1. PICK j \in 1 .. c.busy[1].pos : "info" \in l[j].has
        BY <1>0, <1>1 DEF DataInv
    <2>2. j \in 1 .. Len(l)
        BY <1>1, <2>1
    <2>3. HasData(l, j, e.written)
        BY <1>0, <2>1, <2>2 DEF DataInv
    <2>4. \A i \in 1 .. j : i \in 1 .. Len(l)
        BY <2>2
    <2>5. HasData(l, Len(l), e.written \ d.unlog) /\ Has(l, "info")
        BY <2>1, <2>2, <2>3, <2>4 DEF HasData, Has
    <2> QED
        BY <1>0, <2>5 DEF DataInv
<1>8. AnsInv(l, d, b, e) /\ PersistInv(d) /\ VersionInv(d)
    BY <1>0, <1>1, <1>2 DEF AnsInv, Popped, PersistInv, Doomed, VersionInv, CtxInv, CoreInv
<1> QED
    BY <1>0, <1>1, <1>4, <1>5, <1>6, <1>7, <1>8 DEF CtxInv, CoreInv

(* The callback of any other log.                                          *)
LEMMA PopOther ==
    ASSUME NEW l \in Seq(EntryType), NEW c \in CtxType, NEW d \in CtxType, NEW a, NEW e \in EnvType,
           CtxInv(l, c, a, e), Popped(c, d), FirstAgreed(l, c, e), ~IsStateLog(c.busy[1].has),
           Open(c) \/ c.state = "COMMIT", d.persisted, d.exit = c.exit, d.gts = c.gts,
           d.submitting = c.submitting,
           d.state = IF "info" \in c.busy[1].has THEN "REDO_COMPLETE" ELSE c.state
    PROVE  CtxInv(l, d, a, e) /\ Open(c)
<1>0. /\ e.synced <= Len(l) /\ CommitInv(l, c, e) /\ ForceInv(l, c)
      /\ SubmitInv(c, e) /\ DataInv(l, c, e) /\ AnsInv(l, c, a, e)
    BY DEF CtxInv, CoreInv
<1>1. /\ BusyInv(l, d, e) /\ PhaseInv(d, e) /\ ActiveInv(l, d, e)
      /\ \A p : Has(d.busy, p) => Has(c.busy, p)
      /\ \A k \in 1 .. Len(d.busy) : k + 1 \in 1 .. Len(c.busy) /\ d.busy[k] = c.busy[k + 1]
      /\ 1 \in 1 .. Len(c.busy) /\ c.busy # <<>>
      /\ c.busy[1].pos \in 1 .. Len(l)
      /\ l[c.busy[1].pos].has = c.busy[1].has
      /\ \A p : p \in c.busy[1].has => Agreed(l, e.synced, p) /\ Has(l, p)
    BY PoppedShares
<1>2. Open(c) /\ Open(d)
    <2>1. c.state # "COMMIT"
        BY <1>0, <1>1 DEF CommitInv, IsStateLog
    <2> QED
        BY <2>1 DEF Open
<1>3. Len(c.busy) \in Nat \ {0} /\ Len(d.busy) = Len(c.busy) - 1
    BY DEF Popped, Rest
<1>4. CommitInv(l, d, e)
    <2>1. ASSUME NEW i \in 1 .. Len(l), "commit" \in l[i].has
          PROVE  \E k \in 1 .. Len(d.busy) : d.busy[k].pos = i
        <3>1. PICK k \in 1 .. Len(c.busy) : c.busy[k].pos = i
            BY <1>0, <1>2, <2>1 DEF CommitInv, Open
        <3>2. k # 1
            BY <1>1, <2>1, <3>1 DEF IsStateLog
        <3>3. k - 1 \in 1 .. Len(d.busy) /\ (k - 1) + 1 = k
            BY <1>3, <3>2
        <3>4. d.busy[k - 1] = c.busy[k]
            BY <1>1, <3>3
        <3> QED
            BY <3>1, <3>3, <3>4
    <2>2. ASSUME NEW k \in 1 .. Len(d.busy), NEW i \in 1 .. Len(d.busy), k < i
          PROVE  "commit" \notin d.busy[k].has
        <3>1. k + 1 \in 1 .. Len(c.busy) /\ i + 1 \in 1 .. Len(c.busy) /\ k + 1 < i + 1
              /\ d.busy[k] = c.busy[k + 1]
            BY <1>1, <2>2
        <3> QED
            BY <1>0, <3>1 DEF CommitInv
    <2> QED
        BY <1>2, <2>1, <2>2 DEF CommitInv, Open
<1>5. ForceInv(l, d)
    BY <1>0, <1>1, <1>2 DEF ForceInv, Popped, Open
<1>6. SubmitInv(d, e)
    <2>1. ASSUME d.submitted
          PROVE  d.busy # <<>> /\ IsStateLog(d.busy[Len(d.busy)].has)
        <3>1. c.submitted
            BY <2>1 DEF Popped
        <3>2. IsStateLog(c.busy[Len(c.busy)].has)
            BY <1>0, <1>2, <3>1 DEF SubmitInv, Open
        <3>3. Len(c.busy) # 1
            BY <3>2
        <3>4. \A n \in Nat \ {0}, m \in Int : m = n - 1 /\ n # 1 => m \in 1 .. m /\ m + 1 = n
            OBVIOUS
        <3>5. Len(c.busy) - 1 \in Int
            BY <1>3
        <3>6. Len(d.busy) \in 1 .. Len(d.busy) /\ Len(d.busy) + 1 = Len(c.busy)
            BY <1>3, <3>3, <3>4, <3>5, Zenon
        <3>7. d.busy[Len(d.busy)] = c.busy[Len(c.busy)] /\ d.busy # <<>>
            BY <1>1, <3>6
        <3> QED
            BY <3>2, <3>7
    <2>2. ASSUME NEW k \in 1 .. Len(d.busy), IsStateLog(d.busy[k].has)
          PROVE  /\ d.submitted /\ (e.role \notin Broken => d.submitting)
                 /\ e.role \notin Broken /\ "commit" \in d.busy[k].has => d.info
        <3>1. k + 1 \in 1 .. Len(c.busy) /\ d.busy[k] = c.busy[k + 1]
            BY <1>1
        <3> QED
            BY <1>0, <1>2, <2>2, <3>1 DEF SubmitInv, Popped, Open
    <2>3. Has(d.busy, "commit") => d.ver
        BY <1>0, <1>1 DEF SubmitInv, Popped
    <2> QED
        BY <2>1, <2>2, <2>3 DEF SubmitInv
<1>7. DataInv(l, d, e)
    <2>1. ASSUME "info" \in c.busy[1].has
          PROVE  HasData(l, Len(l), e.written \ d.unlog) /\ Has(l, "info") /\ Agreed(l, e.synced, "info")
        <3>1. HasData(l, c.busy[1].pos, e.written)
            BY <1>0, <1>1, <2>1 DEF DataInv
        <3>2. \A i \in 1 .. c.busy[1].pos : i \in 1 .. Len(l)
            BY <1>1
        <3>3. HasData(l, Len(l), e.written \ d.unlog)
            BY <3>1, <3>2 DEF HasData
        <3> QED
            BY <1>1, <2>1, <3>3
    <2>2. ASSUME Lost(c, e), ~Lost(d, e), "info" \notin c.busy[1].has
          PROVE  HasData(l, Len(l), e.written \ d.unlog) /\ ~d.info
        <3>1. d.complete
            BY <2>2 DEF Lost, Popped
        <3>2. HasData(l, e.synced, e.written) /\ ~d.info
            BY <1>1, <3>1 DEF ActiveInv
        <3>3. \A i \in 1 .. e.synced : i \in 1 .. Len(l)
            BY <1>0 DEF EnvType
        <3>4. HasData(l, Len(l), e.written \ d.unlog)
            BY <3>2, <3>3 DEF HasData
        <3> QED
            BY <3>2, <3>4
    <2>3. e.role \notin Broken => HasData(l, Len(l), e.written \ d.unlog) \/ d.force \/ Lost(d, e)
        BY <1>0, <2>1, <2>2 DEF DataInv, Popped
    <2>4. e.role \notin Broken /\ d.info => Has(l, "info") \/ d.force \/ Lost(d, e)
        BY <1>0, <2>1, <2>2 DEF DataInv, Popped
    <2>5. d.state = "REDO_COMPLETE" => Agreed(l, e.synced, "info")
        BY <1>0, <2>1 DEF DataInv
    <2> QED
        BY <1>0, <2>3, <2>4, <2>5 DEF DataInv
<1>8. AnsInv(l, d, a, e) /\ PersistInv(d) /\ VersionInv(d)
    BY <1>0, <1>1 DEF AnsInv, Popped, PersistInv, Doomed, VersionInv, CtxInv, CoreInv
<1> QED
    BY <1>0, <1>1, <1>2, <1>4, <1>5, <1>6, <1>7, <1>8 DEF CtxInv, CoreInv

(* The worlds that OnSuccess goes through.                                 *)
SameButBusy(c, d) ==
    /\ d.state = c.state /\ d.up = c.up /\ d.action = c.action /\ d.lead = c.lead
    /\ d.info = c.info /\ d.submitting = c.submitting /\ d.submitted = c.submitted
    /\ d.force = c.force /\ d.gts = c.gts /\ d.ver = c.ver /\ d.prep = c.prep /\ d.cb = c.cb
    /\ d.complete = c.complete /\ d.swl = c.swl /\ d.persisted = c.persisted
    /\ d.unlog = c.unlog /\ d.leaked = c.leaked /\ d.exit = c.exit

(* A world whose first callback is taken.                                  *)
LEMMA PopFields ==
    ASSUME NEW w \in WorldType, w.ctx.busy # <<>>, NEW v, v = [w EXCEPT !.ctx.busy = Tail(@)]
    PROVE  /\ v \in WorldType /\ v.log = w.log /\ v.ans = w.ans /\ v.bad = w.bad /\ v.ret = w.ret
           /\ SameButBusy(w.ctx, v.ctx) /\ v.ctx.busy = Tail(w.ctx.busy)
<1>0. w.ctx \in CtxType /\ w.ctx.busy \in Seq(CbType)
    BY DEF WorldType, CtxType
<1>1. PICK d : d = [w.ctx EXCEPT !.busy = Tail(@)]
    OBVIOUS
<1>2. Tail(w.ctx.busy) \in Seq(CbType)
    BY <1>0, TailRests
<1>3. SameButBusy(w.ctx, d) /\ d.busy = Tail(w.ctx.busy) /\ CtxShaped(d)
    BY <1>0, <1>1 DEF CtxType, SameButBusy, CtxShaped
<1>4. d \in CtxType
    <2>1. Typed(d)
        BY <1>0, <1>2, <1>3, CtxIs DEF Typed, SameButBusy
    <2> QED
        BY <1>3, <2>1, CtxIs
<1>5. v = [w EXCEPT !.ctx = d]
    BY <1>0, <1>1 DEF WorldType, CtxType
<1>6. /\ v \in WorldType /\ v.log = w.log /\ v.ctx = d /\ v.ans = w.ans /\ v.bad = w.bad /\ v.ret = w.ret
    BY ONLY w \in WorldType, <1>4, <1>5, CtxUpdate
<1> QED
    BY <1>3, <1>6

Synced1(w, e) ==
    [w EXCEPT !.ctx.persisted = TRUE,
              !.ctx.complete = @ \/ ("active" \in e.has /\ e.pos > w.ctx.swl),
              !.ctx.state = IF "info" \in e.has THEN "REDO_COMPLETE" ELSE @,
              !.ctx.submitting = @ /\ ~IsStateLog(e.has)]

Synced1Is(c, e, d) ==
    /\ d.up = c.up /\ d.action = c.action /\ d.lead = c.lead
    /\ d.info = c.info /\ d.submitted = c.submitted
    /\ d.force = c.force /\ d.gts = c.gts /\ d.ver = c.ver /\ d.prep = c.prep
    /\ d.swl = c.swl /\ d.unlog = c.unlog /\ d.exit = c.exit
    /\ d.busy = c.busy /\ d.persisted
    /\ d.complete <=> c.complete \/ ("active" \in e.has /\ e.pos > c.swl)
    /\ d.state = IF "info" \in e.has THEN "REDO_COMPLETE" ELSE c.state
    /\ d.submitting = (c.submitting /\ ~IsStateLog(e.has))

(* What on_success changes before it ends the transaction.                 *)
LEMMA Synced1Fields ==
    ASSUME NEW w \in WorldType, NEW e, NEW v, v = Synced1(w, e)
    PROVE  /\ v \in WorldType /\ v.log = w.log /\ v.ans = w.ans /\ v.bad = w.bad /\ v.ret = w.ret
           /\ Synced1Is(w.ctx, e, v.ctx)
<1>0. w.ctx \in CtxType
    BY DEF WorldType
<1>1. PICK d : d = [w.ctx EXCEPT !.persisted = TRUE,
                                 !.complete = @ \/ ("active" \in e.has /\ e.pos > w.ctx.swl),
                                 !.state = IF "info" \in e.has THEN "REDO_COMPLETE" ELSE @,
                                 !.submitting = @ /\ ~IsStateLog(e.has)]
    OBVIOUS
<1>2. /\ d.persisted = TRUE
      /\ d.complete = (w.ctx.complete \/ ("active" \in e.has /\ e.pos > w.ctx.swl))
      /\ d.state = (IF "info" \in e.has THEN "REDO_COMPLETE" ELSE w.ctx.state)
      /\ d.submitting = (w.ctx.submitting /\ ~IsStateLog(e.has))
    BY <1>0, <1>1 DEF CtxType
<1>3. /\ d.up = w.ctx.up /\ d.action = w.ctx.action /\ d.lead = w.ctx.lead
      /\ d.info = w.ctx.info /\ d.submitted = w.ctx.submitted
      /\ d.force = w.ctx.force /\ d.gts = w.ctx.gts /\ d.ver = w.ctx.ver /\ d.prep = w.ctx.prep
      /\ d.swl = w.ctx.swl /\ d.unlog = w.ctx.unlog /\ d.exit = w.ctx.exit
      /\ d.busy = w.ctx.busy /\ d.cb = w.ctx.cb /\ d.leaked = w.ctx.leaked /\ CtxShaped(d)
    BY <1>0, <1>1 DEF CtxType, CtxShaped
<1>4. d \in CtxType
    <2>1. Typed(d)
        BY <1>0, <1>2, <1>3, CtxIs DEF Typed
    <2> QED
        BY <1>3, <2>1, CtxIs
<1>5. v = [w EXCEPT !.ctx = d]
    BY <1>0, <1>1 DEF Synced1, WorldType, CtxType
<1>6. /\ v \in WorldType /\ v.log = w.log /\ v.ctx = d /\ v.ans = w.ans /\ v.bad = w.bad /\ v.ret = w.ret
    BY ONLY w \in WorldType, <1>4, <1>5, CtxUpdate
<1> QED
    BY <1>2, <1>3, <1>6 DEF Synced1Is

(* AfterLocalCommitSucc: the scheduler is told, and the context exits.     *)
LEMMA CommitSuccFields ==
    ASSUME NEW w \in WorldType, NEW v, v = AfterLocalCommitSucc(w)
    PROVE  /\ v \in WorldType /\ v.log = w.log /\ v.bad = w.bad /\ v.ctx.exit
           /\ v.ans = w.ans \union {"SUCCESS"}
           /\ v.ctx.state = w.ctx.state /\ v.ctx.up = w.ctx.up /\ v.ctx.action = w.ctx.action
           /\ v.ctx.lead = w.ctx.lead /\ v.ctx.info = w.ctx.info
           /\ v.ctx.submitting = w.ctx.submitting /\ v.ctx.submitted = w.ctx.submitted
           /\ v.ctx.force = w.ctx.force /\ v.ctx.gts = w.ctx.gts /\ v.ctx.ver = w.ctx.ver
           /\ v.ctx.complete = w.ctx.complete /\ v.ctx.swl = w.ctx.swl
           /\ v.ctx.persisted = w.ctx.persisted /\ v.ctx.unlog = w.ctx.unlog
           /\ v.ctx.busy = w.ctx.busy /\ v.ctx.prep = w.ctx.prep /\ v.ctx.leaked = w.ctx.leaked
<1>1. PICK p : p = PostTxCommitResp(w, "SUCCESS")
    OBVIOUS
<1>2. /\ p \in WorldType /\ p.log = w.log /\ p.bad = w.bad
      /\ p.ans = w.ans \union ({"SUCCESS"} \intersect Final)
      /\ Alike(w.ctx, p.ctx) /\ p.ctx.action = w.ctx.action /\ p.ctx.gts = w.ctx.gts
      /\ p.ctx.ver = w.ctx.ver /\ p.ctx.prep = w.ctx.prep /\ p.ctx.leaked = w.ctx.leaked
    BY <1>1, RespFields
<1>3. p.ctx \in CtxType
    BY <1>2 DEF WorldType
<1>4. PICK d : d = [p.ctx EXCEPT !.exit = TRUE]
    OBVIOUS
<1>5. [p.ctx EXCEPT !.exit = TRUE] \in CtxType
    BY <1>3 DEF CtxType
<1>6. /\ d.exit = TRUE /\ d.state = p.ctx.state /\ d.up = p.ctx.up /\ d.action = p.ctx.action
      /\ d.lead = p.ctx.lead /\ d.info = p.ctx.info
      /\ d.submitting = p.ctx.submitting /\ d.submitted = p.ctx.submitted
      /\ d.force = p.ctx.force /\ d.gts = p.ctx.gts /\ d.ver = p.ctx.ver
      /\ d.complete = p.ctx.complete /\ d.swl = p.ctx.swl
      /\ d.persisted = p.ctx.persisted /\ d.unlog = p.ctx.unlog /\ d.busy = p.ctx.busy
      /\ d.prep = p.ctx.prep /\ d.leaked = p.ctx.leaked
    BY <1>3, <1>4 DEF CtxType
<1>7. PICK u : u = [p EXCEPT !.ctx = d]
    OBVIOUS
<1>8. /\ u \in WorldType /\ u.log = p.log /\ u.ctx = d /\ u.ans = p.ans /\ u.bad = p.bad
    <2>1. d \in CtxType
        BY <1>4, <1>5
    <2> QED
        BY ONLY <1>2, <1>7, <2>1, CtxUpdate
<1>9. v = [u EXCEPT !.ret = "OK"]
    <2>1. u = [p EXCEPT !.ctx.exit = TRUE]
        BY <1>2, <1>3, <1>4, <1>7 DEF WorldType, CtxType
    <2> QED
        BY <1>1, <2>1 DEF AfterLocalCommitSucc, Ok
<1>10. /\ v \in WorldType /\ v.log = u.log /\ v.ctx = u.ctx /\ v.ans = u.ans /\ v.bad = u.bad
    BY <1>8, <1>9, RetFields DEF Codes
<1>11. v.ans = w.ans \union {"SUCCESS"}
    BY <1>2, <1>8, <1>10 DEF Final
<1> QED
    BY <1>2, <1>6, <1>8, <1>10, <1>11 DEF Alike

(* on_success keeps the invariant and takes none of its error branches.    *)
LEMMA OnSuccessKeeps ==
    ASSUME NEW w, NEW e \in EnvType, NEW f \in EnvType, WInv(w, e), Later(w.log, e, f), f.role = role,
           ActInv(w.log, w.ctx), w.ctx.busy # <<>>, FirstAgreed(w.log, w.ctx, f), w.bad = {}, NEW o,
           NEW v, v = OnSuccess(w, o)
    PROVE  WInv(v, f) /\ ActInv(v.log, v.ctx) /\ v.bad = {}
<1> DEFINE c == w.ctx
           h == c.busy[1]
<1>0. /\ w \in WorldType /\ c \in CtxType /\ w.log \in Seq(EntryType) /\ c.busy \in Seq(CbType)
      /\ CtxInv(w.log, c, w.ans, f)
    BY LaterKeeps DEF WInv, WorldType, CtxType
<1>1. Rest(c.busy, Tail(c.busy)) /\ Head(c.busy) = h
    BY <1>0, TailRests
<1>2. /\ ForceInv(w.log, c) /\ SubmitInv(c, f) /\ CommitInv(w.log, c, f)
      /\ 1 \in 1 .. Len(c.busy)
    <2>1. Len(c.busy) \in Nat \ {0}
        BY <1>1 DEF Rest
    <2> QED
        BY <1>0, <2>1 DEF CtxInv, CoreInv
<1>3. \A p : p \in h.has => Has(c.busy, p)
    BY <1>2 DEF Has
<1>4. c.state # "COMMIT" /\ c.gts # "elapse" /\ (c.exit => c.force)
    BY <1>2 DEF ForceInv, CommitInv
<1>5. ASSUME NEW l, NEW d, Rest(c.busy, d.busy), d.info = c.info, d.action = c.action, d.force = c.force
      PROVE  ActInv(w.log, d)
    <2>1. \A p : Has(d.busy, p) => Has(c.busy, p)
        BY <1>5, RestHas
    <2> QED
        BY <1>5, <2>1 DEF ActInv
<1>6. CASE c.exit
    <2>1. PICK u : u = [w EXCEPT !.ctx.busy = Tail(@)]
        OBVIOUS
    <2>2. /\ u \in WorldType /\ u.log = w.log /\ u.ans = w.ans /\ u.bad = w.bad
          /\ SameButBusy(c, u.ctx) /\ u.ctx.busy = Tail(c.busy)
        BY <1>0, <2>1, PopFields
    <2>3. v = u
        <3>1. c.exit /\ c.force
            BY <1>4, <1>6
        <3> QED
            BY <2>1, <3>1 DEF OnSuccess
    <2>4. c.state = "ABORT"
        BY <1>2, <1>4, <1>6 DEF ForceInv
    <2>5. Popped(c, u.ctx)
        BY <1>1, <2>2 DEF Popped, SameButBusy
    <2>6. u.ctx \in CtxType /\ u.ctx.gts = c.gts /\ u.ctx.state = "ABORT" /\ u.ctx.exit
        BY <1>6, <2>2, <2>4 DEF SameButBusy, WorldType
    <2>7. CtxInv(w.log, u.ctx, w.ans, f)
        BY <1>0, <1>4, <1>6, <2>5, <2>6, PopAborted
    <2>8. ActInv(w.log, u.ctx)
        BY <1>1, <1>5, <2>2 DEF SameButBusy
    <2> QED
        BY <2>2, <2>3, <2>7, <2>8 DEF WInv
<1>7. CASE ~c.exit
    <2>1. PICK s : s = Synced1(w, h)
        OBVIOUS
    <2>2. /\ s \in WorldType /\ s.log = w.log /\ s.ans = w.ans /\ s.bad = w.bad
          /\ s.ctx.up = c.up /\ s.ctx.action = c.action /\ s.ctx.lead = c.lead
          /\ s.ctx.info = c.info /\ s.ctx.submitted = c.submitted
          /\ s.ctx.force = c.force /\ s.ctx.gts = c.gts /\ s.ctx.ver = c.ver /\ s.ctx.prep = c.prep
          /\ s.ctx.swl = c.swl /\ s.ctx.unlog = c.unlog /\ s.ctx.exit = c.exit
          /\ s.ctx.busy = c.busy /\ s.ctx.persisted
          /\ s.ctx.complete <=> c.complete \/ ("active" \in h.has /\ h.pos > c.swl)
          /\ s.ctx.state = IF "info" \in h.has THEN "REDO_COMPLETE" ELSE c.state
          /\ s.ctx.submitting = (c.submitting /\ ~IsStateLog(h.has))
        <3>1. w \in WorldType
            BY <1>0
        <3>2. /\ s \in WorldType /\ s.log = w.log /\ s.ans = w.ans /\ s.bad = w.bad
              /\ Synced1Is(c, h, s.ctx)
            BY <2>1, <3>1, Synced1Fields
        <3> QED
            BY <3>2 DEF Synced1Is
    <2>3. s \in WorldType /\ s.ctx \in CtxType /\ s.ctx.busy # <<>>
        BY <2>2 DEF WorldType
    <2>4. c.state # "ABORT"
        BY <1>2, <1>7 DEF ForceInv
    <2>5. PICK t : t = OnSuccessOps(w, h, o)
        OBVIOUS
    <2>6. PICK done : done = [t EXCEPT !.ctx.busy = Tail(@)]
        OBVIOUS
    <2>7. v = IF ~IsStateLog(h.has) /\ Committing(done.ctx) THEN TrySubmitNextLog(done, o) ELSE done
        BY <1>1, <1>7, <2>5, <2>6 DEF OnSuccess
    <2>8. t = IF "commit" \in h.has THEN OnLocalCommitTx(s, o)
              ELSE IF "abort" \in h.has THEN OnLocalAbortTx(s) ELSE s
        BY <2>1, <2>5 DEF OnSuccessOps, Synced1
    <2>9. ASSUME t \in WorldType, t.ctx.busy = c.busy
          PROVE  /\ done \in WorldType /\ done.log = t.log /\ done.ans = t.ans /\ done.bad = t.bad
                 /\ SameButBusy(t.ctx, done.ctx) /\ Rest(c.busy, done.ctx.busy) /\ done.ctx \in CtxType
        <3>1. /\ done \in WorldType /\ done.log = t.log /\ done.ans = t.ans /\ done.bad = t.bad
              /\ SameButBusy(t.ctx, done.ctx) /\ done.ctx.busy = Tail(t.ctx.busy)
            BY <2>6, <2>9, PopFields
        <3> QED
            BY <1>1, <2>9, <3>1 DEF WorldType
    <2>10. CASE "commit" \in h.has
        <3>1. v = done
            BY <2>7, <2>10 DEF IsStateLog
        <3>2. t = OnLocalCommitTx(s, o)
            BY <2>8, <2>10
        <3>3. s.ctx.ver
            BY <1>2, <1>3, <2>2, <2>10 DEF SubmitInv
        <3>4. s.ctx.gts = "no"
            <4>1. VersionInv(c) /\ c.gts \in {"no", "get", "elapse"}
                BY <1>0 DEF CtxInv, CoreInv, CtxType
            <4> QED
                BY <1>4, <2>2, <3>3, <4>1 DEF VersionInv
        <3>5. /\ t \in WorldType /\ t.log = w.log /\ t.bad = {} /\ t.ctx.state = "COMMIT"
              /\ t.ctx.up = c.up /\ t.ctx.action = c.action /\ t.ctx.lead = c.lead
              /\ t.ctx.info = c.info /\ t.ctx.submitted = c.submitted
              /\ t.ctx.force = c.force /\ t.ctx.ver = c.ver /\ t.ctx.prep = c.prep /\ t.ctx.gts # "get"
              /\ t.ctx.swl = c.swl /\ t.ctx.unlog = c.unlog
              /\ t.ctx.busy = c.busy /\ t.ctx.persisted
              /\ t.ctx.complete = s.ctx.complete /\ ("KILLED" \in t.ans => "KILLED" \in w.ans)
            <4>1. CASE "behind" \in o
                <5>1. PICK d : d = [s.ctx EXCEPT !.state = "COMMIT", !.gts = "elapse"]
                    OBVIOUS
                <5>2. [s.ctx EXCEPT !.state = "COMMIT", !.gts = "elapse"] \in CtxType
                    BY <2>3 DEF CtxType
                <5>3. d \in CtxType
                    BY <5>1, <5>2
                <5>4. /\ d.state = "COMMIT" /\ d.up = s.ctx.up /\ d.action = s.ctx.action
                      /\ d.lead = s.ctx.lead /\ d.info = s.ctx.info /\ d.submitted = s.ctx.submitted
                      /\ d.force = s.ctx.force /\ d.ver = s.ctx.ver /\ d.prep = s.ctx.prep /\ d.swl = s.ctx.swl
                      /\ d.unlog = s.ctx.unlog /\ d.busy = s.ctx.busy
                      /\ d.persisted = s.ctx.persisted /\ d.complete = s.ctx.complete /\ d.gts = "elapse"
                    BY <2>3, <5>1 DEF CtxType
                <5>5. t = [s EXCEPT !.ctx = d]
                    <6>1. t = [s EXCEPT !.ctx.state = "COMMIT", !.ctx.gts = "elapse"]
                        BY <3>2, <3>3, <3>4, <4>1 DEF OnLocalCommitTx
                    <6> QED
                        BY <2>2, <2>3, <5>1, <6>1 DEF WorldType, CtxType
                <5>6. t \in WorldType /\ t.log = s.log /\ t.ctx = d /\ t.ans = s.ans /\ t.bad = s.bad
                    BY ONLY <2>3, <5>3, <5>5, CtxUpdate
                <5> QED
                    BY <2>2, <5>4, <5>6
            <4>2. CASE "behind" \notin o
                <5>1. PICK d : d = [s.ctx EXCEPT !.state = "COMMIT"]
                    OBVIOUS
                <5>2. [s.ctx EXCEPT !.state = "COMMIT"] \in CtxType
                    BY <2>3 DEF CtxType
                <5>3. d \in CtxType
                    BY <5>1, <5>2
                <5>4. /\ d.state = "COMMIT" /\ d.up = s.ctx.up /\ d.action = s.ctx.action
                      /\ d.lead = s.ctx.lead /\ d.info = s.ctx.info /\ d.submitted = s.ctx.submitted
                      /\ d.force = s.ctx.force /\ d.ver = s.ctx.ver /\ d.prep = s.ctx.prep /\ d.swl = s.ctx.swl
                      /\ d.unlog = s.ctx.unlog /\ d.busy = s.ctx.busy
                      /\ d.persisted = s.ctx.persisted /\ d.complete = s.ctx.complete /\ d.gts = s.ctx.gts
                    BY <2>3, <5>1 DEF CtxType
                <5>5. PICK u : u = [s EXCEPT !.ctx = d]
                    OBVIOUS
                <5>6. u \in WorldType /\ u.log = s.log /\ u.ctx = d /\ u.ans = s.ans /\ u.bad = s.bad
                    BY ONLY <2>3, <5>3, <5>5, CtxUpdate
                <5>7. t = AfterLocalCommitSucc(u)
                    <6>1. t = AfterLocalCommitSucc([s EXCEPT !.ctx.state = "COMMIT"])
                        BY <3>2, <3>3, <3>4, <4>2 DEF OnLocalCommitTx
                    <6>2. [s EXCEPT !.ctx.state = "COMMIT"] = u
                        BY <2>2, <2>3, <5>1, <5>5 DEF WorldType, CtxType
                    <6> QED
                        BY <6>1, <6>2
                <5>8. /\ t \in WorldType /\ t.log = u.log /\ t.bad = u.bad /\ t.ans = u.ans \union {"SUCCESS"}
                      /\ t.ctx.state = d.state /\ t.ctx.up = d.up /\ t.ctx.action = d.action
                      /\ t.ctx.lead = d.lead /\ t.ctx.info = d.info /\ t.ctx.submitted = d.submitted
                      /\ t.ctx.force = d.force /\ t.ctx.ver = d.ver /\ t.ctx.prep = d.prep /\ t.ctx.gts = d.gts
                      /\ t.ctx.complete = d.complete /\ t.ctx.swl = d.swl
                      /\ t.ctx.persisted = d.persisted /\ t.ctx.unlog = d.unlog
                      /\ t.ctx.busy = d.busy
                    BY <5>6, <5>7, CommitSuccFields
                <5> QED
                    BY <2>2, <3>4, <5>4, <5>6, <5>8
            <4> QED
                BY <4>1, <4>2
        <3>6. /\ done \in WorldType /\ done.log = t.log /\ done.ans = t.ans /\ done.bad = t.bad
              /\ SameButBusy(t.ctx, done.ctx) /\ Rest(c.busy, done.ctx.busy) /\ done.ctx \in CtxType
            BY <2>9, <3>5
        <3>7. Popped(c, done.ctx)
            BY <1>7, <2>2, <3>5, <3>6 DEF Popped, SameButBusy, Sets
        <3>8. done.ctx.state = "COMMIT" /\ done.ctx.persisted
            BY <3>5, <3>6 DEF SameButBusy
        <3>9. CtxInv(w.log, done.ctx, done.ans, f)
            BY <1>0, <2>10, <3>5, <3>6, <3>7, <3>8, PopCommitted
        <3>10. ActInv(w.log, done.ctx)
            BY <1>5, <3>5, <3>6 DEF SameButBusy
        <3> QED
            BY <3>1, <3>5, <3>6, <3>9, <3>10 DEF WInv
    <2>11. CASE "commit" \notin h.has /\ "abort" \in h.has
        <3>1. v = done
            BY <2>7, <2>11 DEF IsStateLog
        <3>2. t = OnLocalAbortTx(s)
            BY <2>8, <2>11
        <3>3. c.force
            BY <1>2, <1>3, <2>11 DEF ForceInv
        <3>4. /\ t \in WorldType /\ t.log = s.log /\ t.bad = s.bad /\ ("SUCCESS" \in t.ans => "SUCCESS" \in s.ans)
              /\ t.ctx.state = "ABORT" /\ t.ctx.exit /\ Bound(s.ctx, t.ctx)
              /\ t.ctx.action = s.ctx.action /\ t.ctx.lead = s.ctx.lead
              /\ t.ctx.up = s.ctx.up /\ t.ctx.unlog = s.ctx.unlog
            <4>1. s.ctx.force
                BY <2>2, <3>3
            <4> QED
                BY ONLY <2>3, <3>2, <4>1, OnLocalAbortFields
        <3>5. /\ done \in WorldType /\ done.log = t.log /\ done.ans = t.ans /\ done.bad = t.bad
              /\ SameButBusy(t.ctx, done.ctx) /\ Rest(c.busy, done.ctx.busy) /\ done.ctx \in CtxType
            BY <2>2, <2>9, <3>4 DEF Bound
        <3>6. Popped(c, done.ctx)
            BY <1>7, <2>2, <3>3, <3>4, <3>5 DEF Popped, SameButBusy, Sets, Bound
        <3>7. done.ctx.state = "ABORT" /\ done.ctx.exit /\ done.ctx.gts = c.gts
            BY <2>2, <3>4, <3>5 DEF SameButBusy, Bound
        <3>8. CtxInv(w.log, done.ctx, done.ans, f)
            BY <1>0, <2>2, <3>3, <3>4, <3>5, <3>6, <3>7, PopAborted
        <3>9. ActInv(w.log, done.ctx)
            BY ZenonT(60), <1>5, <2>2, <3>3, <3>4, <3>5 DEF SameButBusy, Bound
        <3> QED
            BY <2>2, <3>1, <3>4, <3>5, <3>8, <3>9 DEF WInv
    <2>12. CASE "commit" \notin h.has /\ "abort" \notin h.has
        <3>1. ~IsStateLog(h.has)
            BY <2>12 DEF IsStateLog
        <3>2. t = s
            BY <2>8, <2>12
        <3>3. /\ done \in WorldType /\ done.log = s.log /\ done.ans = s.ans /\ done.bad = s.bad
              /\ SameButBusy(s.ctx, done.ctx) /\ Rest(c.busy, done.ctx.busy) /\ done.ctx \in CtxType
            BY <2>2, <2>9, <3>2
        <3>4. Popped(c, done.ctx)
            BY <1>7, <2>2, <3>3 DEF Popped, SameButBusy, Sets
        <3>5. /\ done.ctx.persisted /\ done.ctx.exit = c.exit /\ done.ctx.gts = c.gts
              /\ done.ctx.submitting = c.submitting
              /\ done.ctx.state = IF "info" \in h.has THEN "REDO_COMPLETE" ELSE c.state
            <4>1. s.ctx.submitting = c.submitting
                BY <1>0, <2>2, <3>1 DEF CtxType
            <4> QED
                BY <2>2, <3>3, <4>1 DEF SameButBusy
        <3>6. Open(c) \/ c.state = "COMMIT"
            BY <1>0, <2>4 DEF CtxType, Open
        <3>7. CtxInv(w.log, done.ctx, w.ans, f)
            BY <1>0, <3>1, <3>3, <3>4, <3>5, <3>6, PopOther
        <3>8. ActInv(w.log, done.ctx)
            BY <1>5, <2>2, <3>3 DEF SameButBusy
        <3>9. WInv(done, f) /\ ActInv(done.log, done.ctx) /\ done.bad = {}
            BY <2>2, <3>3, <3>7, <3>8 DEF WInv
        <3>10. CASE v = done
            BY <3>9, <3>10 DEF WInv
        <3>11. CASE v = TrySubmitNextLog(done, o)
            <4>1. WInv(v, f) /\ Moved(done, v) /\ ActInv(v.log, v.ctx)
                BY <3>9, <3>11, TrySubmitKeeps
            <4> QED
                BY <3>9, <4>1 DEF WInv, Moved
        <3> QED
            BY <2>7, <3>10, <3>11
    <2> QED
        BY <2>10, <2>11, <2>12
<1> QED
    BY <1>6, <1>7

-------------------------------------------------------------------------------
(* Role changes of the context                                             *)

(* The context d is c in another role.                                     *)
Rerole(c, d) ==
    /\ d.state = c.state /\ d.up = c.up /\ d.force = c.force /\ d.persisted = c.persisted
    /\ d.exit = c.exit /\ d.busy = c.busy /\ d.info = c.info
    /\ d.submitting = c.submitting /\ d.submitted = c.submitted /\ d.gts = c.gts
    /\ c.busy # <<>> /\ c.ver => d.ver
    /\ VersionInv(c) => VersionInv(d)
    /\ d.leaked # 0 => c.leaked # 0 \/ c.busy # <<>>

(* The context has all its data, or is going to be aborted.                *)
DataOk(l, c, e) ==
    /\ HasData(l, Len(l), e.written \ c.unlog) \/ c.force \/ Lost(c, e)
    /\ c.info => Has(l, "info") \/ c.force \/ Lost(c, e)

(* The role of the log stream changes.                                     *)
RoleStep(c, e, f) ==
    /\ f.written = e.written /\ f.synced = e.synced
    /\ f.role = "follower" => c.busy = <<>>
    /\ f.role \notin Broken => e.role \notin Broken \/ c.busy = <<>>

(* A context that changes its role, with the log stream.                   *)
LEMMA ReroleKeeps ==
    ASSUME NEW l, NEW c \in CtxType, NEW d \in CtxType, NEW a, NEW b, NEW e, NEW f, CoreInv(l, c, a, e), Rerole(c, d),
           RoleStep(c, e, f), PhaseInv(d, f), f.role \notin Broken => DataOk(l, d, f),
           ActiveInv(l, d, f), PersistInv(d), "KILLED" \in b => d.force \/ Doomed(d, f),
           "SUCCESS" \in b => "SUCCESS" \in a
    PROVE  CtxInv(l, d, b, f)
<1>0. /\ BusyInv(l, c, e) /\ CommitInv(l, c, e) /\ ForceInv(l, c)
      /\ SubmitInv(c, e) /\ DataInv(l, c, e) /\ AnsInv(l, c, a, e) /\ f.synced <= Len(l)
    BY DEF CoreInv, RoleStep
<1>1. c.busy = <<>> => Len(c.busy) = 0
    BY DEF CtxType
<1>2. BusyInv(l, d, f)
    BY <1>0, <1>1 DEF BusyInv, Rerole, RoleStep
<1>3. CommitInv(l, d, f)
    BY <1>0 DEF CommitInv, Rerole, RoleStep
<1>4. ForceInv(l, d)
    BY <1>0 DEF ForceInv, Rerole
<1>5. SubmitInv(d, f)
    <2>1. Has(d.busy, "commit") => d.ver
        <3>1. Has(c.busy, "commit") => c.busy # <<>> /\ c.ver
            BY <1>0, <1>1 DEF SubmitInv, Has
        <3> QED
            BY <3>1 DEF Rerole
    <2> QED
        BY <1>0, <1>1, <2>1 DEF SubmitInv, Rerole, RoleStep
<1>6. DataInv(l, d, f)
    BY <1>0 DEF DataInv, DataOk, Rerole, RoleStep
<1>7. AnsInv(l, d, b, f)
    BY <1>0 DEF AnsInv, RoleStep
<1>8. VersionInv(d)
    BY DEF CoreInv, Rerole
<1> QED
    BY <1>0, <1>2, <1>3, <1>4, <1>5, <1>6, <1>7, <1>8 DEF CtxInv, CoreInv

(* A context that does not change its role.                                *)
LEMMA RoleStepKeeps ==
    ASSUME NEW l, NEW c \in CtxType, NEW a, NEW e, NEW f, CtxInv(l, c, a, e),
           RoleStep(c, e, f), PhaseInv(c, f), f.role \notin Broken => DataOk(l, c, f),
           Doomed(c, e) => c.force \/ Doomed(c, f)
    PROVE  CtxInv(l, c, a, f)
<1>1. CoreInv(l, c, a, e) /\ PersistInv(c) /\ Rerole(c, c)
    BY DEF CtxInv, Rerole
<1>2. ActiveInv(l, c, f)
    BY <1>1 DEF CoreInv, ActiveInv, RoleStep
<1>3. "KILLED" \in a => c.force \/ Doomed(c, f)
    BY <1>1 DEF CoreInv, AnsInv
<1> QED
    BY <1>1, <1>2, <1>3, ReroleKeeps

(* What a context has of its data, it keeps.                               *)
LEMMA DataStays ==
    ASSUME NEW l, NEW c, NEW d, NEW a, NEW e, NEW f, CoreInv(l, c, a, e), e.role \notin Broken,
           f.written = e.written, d.info = c.info, d.force = c.force, c.unlog \subseteq d.unlog,
           Lost(c, e) => c.force \/ Lost(d, f)
    PROVE  DataOk(l, d, f)
<1>1. HasData(l, Len(l), e.written \ c.unlog) => HasData(l, Len(l), f.written \ d.unlog)
    BY DEF HasData
<1> QED
    BY <1>1 DEF CoreInv, DataInv, DataOk

(* What is agreed on of a decision brings the data with it.                *)
LEMMA AgreedData ==
    ASSUME NEW l \in Seq(EntryType), NEW c, NEW a, NEW e \in EnvType, CoreInv(l, c, a, e),
           Agreed(l, e.synced, "commit") \/ Agreed(l, e.synced, "info")
    PROVE  HasData(l, Len(l), e.written) /\ Has(l, "info")
<1>0. DataInv(l, c, e) /\ e.synced \in Nat /\ Len(l) \in Nat
    BY DEF CoreInv, EnvType
<1>1. PICK i \in 1 .. Len(l) : "commit" \in l[i].has \/ "info" \in l[i].has
    BY <1>0 DEF Agreed
<1>2. PICK j \in 1 .. i : "info" \in l[j].has
    BY <1>0, <1>1 DEF DataInv
<1>3. j \in 1 .. Len(l) /\ \A k \in 1 .. j : k \in 1 .. Len(l)
    BY <1>1, <1>2
<1>4. HasData(l, j, e.written)
    BY <1>0, <1>2, <1>3 DEF DataInv
<1> QED
    BY <1>2, <1>3, <1>4 DEF HasData, Has

(* A follower's context has all its data, or switch_to_leader finds that   *)
(* it may not.                                                             *)
LEMMA FollowerData ==
    ASSUME NEW l \in Seq(EntryType), NEW c \in CtxType, NEW a, NEW e \in EnvType, NEW f,
           CoreInv(l, c, a, e), c.busy = <<>>, ~c.lead \/ c.exit \/ c.force,
           f.written = e.written, f.mode \in TModes \union FModes, f.role # "graceful"
    PROVE  DataOk(l, c, f)
<1>0. /\ CommitInv(l, c, e) /\ ForceInv(l, c) /\ DataInv(l, c, e) /\ ActiveInv(l, c, e)
      /\ e.synced <= Len(l) /\ e.synced \in Nat /\ Len(l) \in Nat
    BY DEF CoreInv, EnvType
<1>1. ASSUME Agreed(l, e.synced, "commit") \/ Agreed(l, e.synced, "info")
      PROVE  HasData(l, Len(l), f.written \ c.unlog) /\ Has(l, "info")
    <2>1. HasData(l, Len(l), e.written) /\ Has(l, "info")
        BY <1>1, AgreedData
    <2> QED
        BY <2>1 DEF HasData
<1>2. CASE c.force
    BY <1>2 DEF DataOk
<1>3. CASE c.state = "COMMIT"
    BY <1>0, <1>1, <1>3 DEF CommitInv, DataOk
<1>4. CASE c.state = "REDO_COMPLETE"
    BY <1>0, <1>1, <1>4 DEF DataInv, DataOk
<1>5. CASE c.state = "INIT" /\ ~c.force /\ c.complete
    <2>1. HasData(l, e.synced, e.written) /\ ~c.info
        BY <1>0, <1>5 DEF ActiveInv
    <2>2. \A k \in 1 .. e.synced : k \in 1 .. Len(l)
        BY <1>0
    <2>3. HasData(l, Len(l), f.written \ c.unlog)
        BY <2>1, <2>2 DEF HasData
    <2> QED
        BY <2>1, <2>3 DEF DataOk
<1>6. CASE c.state = "INIT" /\ ~c.force /\ ~c.complete
    <2>1. ~c.lead
        BY <1>0, <1>6 DEF ForceInv
    <2> QED
        BY <1>6, <2>1 DEF DataOk, Lost
<1>7. c.state = "ABORT" => c.force
    BY <1>0 DEF ForceInv
<1> QED
    BY <1>2, <1>3, <1>4, <1>5, <1>6, <1>7 DEF CtxType

(* The callbacks are through, and the log stream has become a follower.    *)
SteppedDown(e, f) ==
    /\ e.role = "down" /\ f.role = "follower" /\ f.mode \in FModes
    /\ f.written = e.written /\ f.synced = e.synced /\ f.swl = 0

(* switch_to_follower_forcedly.                                            *)
LEMMA ForcedlyKeeps ==
    ASSUME NEW w, NEW e \in EnvType, NEW f \in EnvType, WInv(w, e), e.role = role, SteppedDown(e, f),
           ActInv(w.log, w.ctx), w.ctx.busy = <<>>, NEW v, v = SwitchToFollowerForcedly(w),
           e.mode \in {"L_WORKING"} \union TModes \union FailedModes
    PROVE  WInv(v, f) /\ ActInv(v.log, v.ctx) /\ v.bad = w.bad
<1> DEFINE c == w.ctx
<1>0. /\ w \in WorldType /\ c \in CtxType /\ w.log \in Seq(EntryType) /\ w.ans \in SUBSET Final
      /\ CoreInv(w.log, c, w.ans, e) /\ PersistInv(c) /\ CtxInv(w.log, c, w.ans, e)
    BY DEF WInv, WorldType, CtxInv
<1>1. Len(c.busy) = 0 /\ \A p : ~Has(c.busy, p)
    <2>1. Len(c.busy) = 0
        BY <1>0
    <2> QED
        BY <2>1 DEF Has
<1>2. \A d : d.busy = c.busy => RoleStep(d, e, f)
    BY DEF RoleStep, SteppedDown
<1>3. \A d : d.busy = c.busy /\ (~d.lead \/ d.exit \/ d.force) => PhaseInv(d, f)
    <2>1. f.mode \notin TModes /\ f.swl = 0
        BY DEF SteppedDown, FModes, TModes
    <2> QED
        BY <2>1 DEF PhaseInv
<1>4. f.mode \in TModes \union FModes /\ f.role # "graceful" /\ f.written = e.written
    BY DEF SteppedDown
<1>5. CASE c.exit \/ ~c.lead
    <2>1. v = w
        BY <1>5 DEF SwitchToFollowerForcedly
    <2>2. DataOk(w.log, c, f)
        BY <1>0, <1>4, <1>5, FollowerData
    <2>3. Doomed(c, e) => Doomed(c, f)
        BY <1>4 DEF Doomed
    <2>4. CtxInv(w.log, c, w.ans, f)
        BY <1>0, <1>2, <1>3, <1>5, <2>2, <2>3, RoleStepKeeps
    <2> QED
        BY <1>0, <2>1, <2>4 DEF WInv
<1>6. CASE ~(c.exit \/ ~c.lead)
    <2>1. PICK d : d = [c EXCEPT !.lead = FALSE]
        OBVIOUS
    <2>2. [c EXCEPT !.lead = FALSE] \in CtxType
        BY <1>0 DEF CtxType
    <2>3. d \in CtxType
        BY <2>1, <2>2
    <2>4. PICK g : g = [w EXCEPT !.ctx = d]
        OBVIOUS
    <2>5. g \in WorldType /\ g.log = w.log /\ g.ctx = d /\ g.ans = w.ans /\ g.bad = w.bad
        BY ONLY <1>0, <2>3, <2>4, CtxUpdate
    <2>6. g = [w EXCEPT !.ctx.lead = FALSE]
        BY <1>0, <2>1, <2>4 DEF WorldType, CtxType
    <2>7. CASE ~c.persisted
        <3>1. PICK a : a = AbortTx(g)
            OBVIOUS
        <3>2. v = IF NeedCallbackScheduler(c) THEN a ELSE [a EXCEPT !.ans = @ \union {"ABORTED"}]
            BY <1>6, <2>6, <2>7, <3>1 DEF SwitchToFollowerForcedly
        <3>3. /\ d.persisted = c.persisted /\ d.busy = c.busy /\ d.info = c.info /\ d.force = c.force
              /\ d.action = c.action
            BY <1>0, <2>1 DEF CtxType
        <3>4. Bound(c, [d EXCEPT !.force = TRUE])
            BY <1>0, <2>1 DEF CtxType, Bound
        <3>5. Undecided(w.log, c)
            <4>1. c.state # "COMMIT" /\ CommitInv(w.log, c, e)
                BY <1>0, <2>7 DEF CoreInv, ForceInv
            <4> QED
                BY <1>1, <4>1 DEF CommitInv, Undecided, Has
        <3>6. Aborts(g, a, e)
            BY <1>0, <2>5, <2>7, <3>1, <3>3, <3>4, <3>5, AbortTxKeeps
        <3>7. ActInv(g.log, g.ctx)
            BY <2>5, <3>3 DEF ActInv
        <3>8. /\ a \in WorldType /\ a.ctx \in CtxType /\ CtxInv(a.log, a.ctx, a.ans, e) /\ a.ctx.force
              /\ ActInv(a.log, a.ctx) /\ a.bad = w.bad /\ a.ans \in SUBSET Final
            BY <2>5, <3>6, <3>7 DEF Aborts, WInv, WorldType
        <3>9. BusyInv(a.log, a.ctx, e) /\ Bound(a.ctx, a.ctx)
            BY <3>8 DEF CtxInv, CoreInv, Bound
        <3>10. a.ctx.busy = <<>>
            <4>1. a = DoLocalAbortTx(g) \/ a = [DoLocalAbortTx(g) EXCEPT !.ctx.action = "ABORT"]
                BY <3>1 DEF AbortTx
            <4>2. DoLocalAbortTx(g) = OnLocalAbortTx([g EXCEPT !.ctx.force = TRUE])
                BY <2>5, <2>7, <3>3 DEF DoLocalAbortTx
            <4>3. PICK x : x = [d EXCEPT !.force = TRUE]
                OBVIOUS
            <4>4. [d EXCEPT !.force = TRUE] \in CtxType
                BY <2>3 DEF CtxType
            <4>5. x \in CtxType /\ x.force /\ x.busy = <<>>
                <5>1. x \in CtxType
                    BY <4>3, <4>4
                <5>2. x.force /\ x.busy = d.busy
                    BY <2>3, <4>3 DEF CtxType
                <5> QED
                    BY <3>3, <5>1, <5>2
            <4>6. PICK y : y = [g EXCEPT !.ctx = x]
                OBVIOUS
            <4>7. y \in WorldType /\ y.ctx = x
                BY ONLY <2>5, <4>5, <4>6, CtxUpdate
            <4>8. y = [g EXCEPT !.ctx.force = TRUE]
                BY <2>3, <2>5, <4>3, <4>6 DEF WorldType, CtxType
            <4>9. PICK z : z = OnLocalAbortTx(y)
                OBVIOUS
            <4>10. z \in WorldType /\ Bound(x, z.ctx)
                BY ONLY <4>5, <4>7, <4>9, OnLocalAbortFields
            <4>11. z.ctx.busy = <<>> /\ z.ctx \in CtxType
                BY <4>5, <4>10 DEF Bound, WorldType
            <4>12. [z EXCEPT !.ctx.action = "ABORT"].ctx.busy = z.ctx.busy
                BY <4>10, <4>11 DEF WorldType, CtxType
            <4> QED
                BY <4>1, <4>2, <4>8, <4>9, <4>11, <4>12
        <3>11. CtxInv(a.log, a.ctx, a.ans, f)
            <4>1. RoleStep(a.ctx, e, f) /\ PhaseInv(a.ctx, f)
                BY <1>2, <1>3, <3>8, <3>10
            <4>2. DataOk(a.log, a.ctx, f)
                BY <3>8 DEF DataOk
            <4> QED
                BY <3>8, <4>1, <4>2, RoleStepKeeps
        <3>12. CASE v = a
            BY <3>8, <3>11, <3>12 DEF WInv
        <3>13. CASE v = [a EXCEPT !.ans = @ \union {"ABORTED"}]
            <4>1. PICK b : b = a.ans \union {"ABORTED"}
                OBVIOUS
            <4>2. b \in SUBSET Final
                BY <3>8, <4>1 DEF Final
            <4>3. v = [a EXCEPT !.ans = b]
                BY <3>8, <3>13, <4>1 DEF WorldType
            <4>4. v \in WorldType /\ v.log = a.log /\ v.ctx = a.ctx /\ v.ans = b /\ v.bad = a.bad
                BY ONLY <3>8, <4>2, <4>3, AnsUpdate
            <4>5. CtxInv(a.log, a.ctx, b, f)
                BY <3>8, <3>11, <4>1, AnswerKeeps
            <4> QED
                BY <3>8, <4>4, <4>5 DEF WInv
        <3> QED
            BY <3>2, <3>12, <3>13
    <2>8. CASE c.persisted
        <3> DEFINE idle == c.busy = <<>> /\ ~c.submitted
        <3>2. PICK x : x = [d EXCEPT !.unlog = {}, !.prep = @ /\ ~idle, !.ver = @ /\ ~idle]
            OBVIOUS
        <3>3. /\ x.lead = FALSE /\ x.unlog = {} /\ x.busy = c.busy /\ x.info = c.info
              /\ x.state = c.state /\ x.up = c.up /\ x.force = c.force /\ x.persisted = c.persisted
              /\ x.exit = c.exit /\ x.submitting = c.submitting /\ x.submitted = c.submitted
              /\ x.gts = c.gts /\ x.complete = c.complete /\ x.swl = c.swl /\ x.action = c.action
              /\ x.cb = c.cb /\ x.prep = (c.prep /\ ~idle) /\ x.ver = (c.ver /\ ~idle)
              /\ x.leaked = c.leaked /\ CtxShaped(x)
            BY <1>0, <2>1, <3>2 DEF CtxType, CtxShaped
        <3>4. x \in CtxType
            <4>1. Typed(x)
                BY <1>0, <3>3, CtxIs DEF Typed
            <4> QED
                BY <3>3, <4>1, CtxIs
        <3>5. PICK k : k = [g EXCEPT !.ctx = x]
            OBVIOUS
        <3>6. k \in WorldType /\ k.log = g.log /\ k.ctx = x /\ k.ans = g.ans /\ k.bad = g.bad
            BY ONLY <2>5, <3>4, <3>5, CtxUpdate
        <3>7. v = IF NeedCallbackScheduler(c) THEN PostTxCommitResp(k, ForcedAnswer(c)) ELSE k
            <4>1. k = [g EXCEPT !.ctx.unlog = {}, !.ctx.prep = @ /\ ~idle, !.ctx.ver = @ /\ ~idle]
                BY <2>3, <2>5, <3>2, <3>5 DEF WorldType, CtxType
            <4> QED
                BY <1>6, <2>6, <2>8, <4>1 DEF SwitchToFollowerForcedly
        <3>8. /\ v \in WorldType /\ v.log = w.log /\ v.bad = w.bad /\ Alike(x, v.ctx)
              /\ v.ctx.action = c.action /\ v.ctx.gts = c.gts
              /\ v.ans \subseteq w.ans \union ({ForcedAnswer(c)} \intersect Final)
            <4>1. CASE v = k
                BY <2>5, <3>3, <3>6, <4>1 DEF Alike
            <4>2. CASE v = PostTxCommitResp(k, ForcedAnswer(c))
                <5>1. /\ v \in WorldType /\ v.log = k.log /\ v.bad = k.bad
                      /\ v.ans = k.ans \union ({ForcedAnswer(c)} \intersect Final)
                      /\ Alike(k.ctx, v.ctx) /\ v.ctx.action = k.ctx.action /\ v.ctx.gts = k.ctx.gts
                    BY ONLY <3>6, <4>2, RespFields
                <5> QED
                    BY <2>5, <3>3, <3>6, <5>1
            <4> QED
                BY <3>7, <4>1, <4>2
        <3>9. v.ctx \in CtxType /\ Rerole(c, v.ctx)
            <4>1. VersionInv(c) => VersionInv(v.ctx)
                BY <3>3, <3>8 DEF Alike, VersionInv
            <4> QED
                BY <3>3, <3>8, <4>1 DEF Alike, Rerole, WorldType
        <3>10. /\ ~v.ctx.lead /\ v.ctx.busy = <<>> /\ v.ctx.unlog = {} /\ v.ctx.state = c.state
               /\ v.ctx.complete = c.complete /\ v.ctx.persisted /\ v.ctx.force = c.force
               /\ v.ctx.info = c.info /\ v.ctx.swl = c.swl
            BY <2>8, <3>3, <3>8 DEF Alike
        <3>11. ~c.complete /\ ActiveInv(w.log, c, e)
            BY <1>0, <1>6 DEF CoreInv, ActiveInv
        <3>12. ActiveInv(w.log, v.ctx, f) /\ PersistInv(v.ctx)
            BY <1>1, <3>10, <3>11 DEF ActiveInv, PersistInv
        <3>13. RoleStep(c, e, f) /\ PhaseInv(v.ctx, f)
            BY <1>2, <1>3, <3>10
        <3>14. DataOk(w.log, v.ctx, f)
            <4>2. c.state = "INIT" => Lost(v.ctx, f)
                BY <1>4, <3>10, <3>11 DEF Lost
            <4>4. CASE c.state = "INIT"
                BY <4>2, <4>4 DEF DataOk
            <4>5. CASE c.state \in {"COMMIT", "REDO_COMPLETE"}
                <5>1. DataInv(w.log, c, e) /\ CommitInv(w.log, c, e)
                    BY <1>0 DEF CoreInv
                <5>2. Agreed(w.log, e.synced, "commit") \/ Agreed(w.log, e.synced, "info")
                    BY <4>5, <5>1 DEF DataInv, CommitInv
                <5>3. HasData(w.log, Len(w.log), e.written) /\ Has(w.log, "info")
                    BY <1>0, <5>2, AgreedData
                <5>4. HasData(w.log, Len(w.log), f.written \ v.ctx.unlog)
                    BY <1>4, <5>3 DEF HasData
                <5> QED
                    BY <5>3, <5>4 DEF DataOk
            <4>6. CASE c.state = "ABORT"
                BY <1>0, <3>10, <4>6 DEF CoreInv, ForceInv, DataOk
            <4> QED
                BY <1>0, <4>4, <4>5, <4>6 DEF CtxType
        <3>15. "KILLED" \in v.ans => v.ctx.force \/ Doomed(v.ctx, f)
            <4>1. ASSUME "KILLED" \in w.ans PROVE c.force
                BY <1>0, <1>6, <4>1 DEF CoreInv, AnsInv, Doomed
            <4>2. ASSUME ForcedAnswer(c) = "KILLED" PROVE Doomed(v.ctx, f)
                <5>1. c.state = "INIT"
                    BY <4>2 DEF ForcedAnswer
                <5> QED
                    BY <1>4, <3>10, <3>11, <5>1 DEF Doomed
            <4> QED
                BY <3>8, <3>10, <4>1, <4>2
        <3>16. "SUCCESS" \in v.ans => "SUCCESS" \in w.ans
            <4>1. ForcedAnswer(c) # "SUCCESS"
                BY DEF ForcedAnswer
            <4> QED
                BY <3>8, <4>1
        <3>17. CtxInv(w.log, v.ctx, v.ans, f)
            BY <1>0, <3>9, <3>12, <3>13, <3>14, <3>15, <3>16, ReroleKeeps
        <3>18. ActInv(w.log, v.ctx)
            BY <3>8, <3>10 DEF ActInv
        <3> QED
            BY <3>8, <3>17, <3>18 DEF WInv
    <2> QED
        BY <1>0, <2>7, <2>8 DEF CtxType
<1> QED
    BY <1>5, <1>6

(* The log stream leads again.                                             *)
Leads(e, f) ==
    /\ f.role = e.role /\ f.mode = "L_WORKING" /\ f.written = e.written
    /\ f.synced = e.synced /\ f.swl = 0

(* A context that leads again after the start working log at p.            *)
Renewed(c, d, p) ==
    /\ Rerole(c, d) /\ d.lead /\ ~d.complete /\ d.swl = p /\ d.unlog = c.unlog /\ d.action = c.action

(* What resume_leader changes.                                             *)
LEMMA RenewFields ==
    ASSUME NEW w \in WorldType, NEW p \in Nat, NEW v,
           v = [w EXCEPT !.ctx.lead = TRUE, !.ctx.complete = FALSE, !.ctx.swl = p]
    PROVE  /\ v \in WorldType /\ v.log = w.log /\ v.ans = w.ans /\ v.bad = w.bad /\ v.ret = w.ret
           /\ Renewed(w.ctx, v.ctx, p)
<1>0. w.ctx \in CtxType
    BY DEF WorldType
<1>1. PICK d : d = [w.ctx EXCEPT !.lead = TRUE, !.complete = FALSE, !.swl = p]
    OBVIOUS
<1>2. [w.ctx EXCEPT !.lead = TRUE, !.complete = FALSE, !.swl = p] \in CtxType
    BY <1>0 DEF CtxType
<1>3. d \in CtxType
    BY <1>1, <1>2
<1>4. Renewed(w.ctx, d, p)
    BY <1>0, <1>1 DEF CtxType, Renewed, Rerole, VersionInv
<1>5. v = [w EXCEPT !.ctx = d]
    BY <1>0, <1>1 DEF WorldType, CtxType
<1>6. v \in WorldType /\ v.log = w.log /\ v.ctx = d /\ v.ans = w.ans /\ v.bad = w.bad /\ v.ret = w.ret
    BY ONLY w \in WorldType, <1>3, <1>5, CtxUpdate
<1> QED
    BY <1>4, <1>6

(* It may, when it has all its data or is bound to abort, and no active    *)
(* info log in flight would set data_complete_.                            *)
LEMMA RenewedKeeps ==
    ASSUME NEW l, NEW c \in CtxType, NEW d \in CtxType, NEW a, NEW e, NEW f, NEW p,
           CtxInv(l, c, a, e), Leads(e, f), Renewed(c, d, p),
           \A k \in 1 .. Len(c.busy) : "active" \in c.busy[k].has => ~(c.busy[k].pos > p),
           ~Lost(c, e) \/ c.force, ~Doomed(c, e) \/ c.force, e.role # "follower"
    PROVE  CtxInv(l, d, a, f)
<1>0. CoreInv(l, c, a, e) /\ PersistInv(c)
    BY DEF CtxInv
<1>1. Rerole(c, d) /\ d.lead /\ ~d.complete /\ d.swl = p /\ d.unlog = c.unlog
    BY DEF Renewed
<1>2. RoleStep(c, e, f)
    BY DEF RoleStep, Leads
<1>3. PhaseInv(d, f)
    BY DEF PhaseInv, Leads, TModes, FModes
<1>4. ActiveInv(l, d, f)
    BY <1>1 DEF ActiveInv, Sets, Rerole
<1>5. PersistInv(d)
    BY <1>0, <1>1 DEF PersistInv, Rerole
<1>6. f.role \notin Broken => DataOk(l, d, f)
    BY <1>0, <1>1, DataStays DEF Leads, Rerole
<1>7. "KILLED" \in a => d.force \/ Doomed(d, f)
    BY <1>0, <1>1 DEF CoreInv, AnsInv, Rerole
<1> QED
    BY <1>0, <1>1, <1>2, <1>3, <1>4, <1>5, <1>6, <1>7, ReroleKeeps

(* A context that has ended, or leads already, stays as it is.             *)
LEMMA LeadsKeeps ==
    ASSUME NEW l, NEW c \in CtxType, NEW a, NEW e, NEW f, CtxInv(l, c, a, e), Leads(e, f), c.exit \/ c.lead,
           e.role # "follower"
    PROVE  CtxInv(l, c, a, f)
<1>1. ~Lost(c, e) /\ ~Doomed(c, e)
    BY DEF CtxInv, CoreInv, ForceInv, Lost, Doomed
<1>2. RoleStep(c, e, f) /\ PhaseInv(c, f)
    BY DEF RoleStep, Leads, PhaseInv, TModes, FModes
<1>3. f.role \notin Broken => DataOk(l, c, f)
    BY <1>1, DataStays DEF Leads, CtxInv
<1> QED
    BY <1>1, <1>2, <1>3, RoleStepKeeps

(* resume_leader.                                                          *)
LEMMA ResumeLeaderKeeps ==
    ASSUME NEW w, NEW e \in EnvType, NEW f \in EnvType, WInv(w, e), e.role = role, Leads(e, f),
           e.mode = "R_SYNC_PENDING", e.swl # 0, e.role # "follower", ActInv(w.log, w.ctx), NEW o,
           NEW v, v = ResumeLeader(w, e.swl, o)
    PROVE  WInv(v, f) /\ ActInv(v.log, v.ctx) /\ v.bad = w.bad
<1>0. w \in WorldType /\ w.ctx \in CtxType /\ CtxInv(w.log, w.ctx, w.ans, e) /\ e.swl \in Nat
    BY DEF WInv, WorldType, EnvType
<1>1. PICK t : t = IF w.ctx.exit \/ w.ctx.lead THEN w
                   ELSE [w EXCEPT !.ctx.lead = TRUE, !.ctx.complete = FALSE, !.ctx.swl = e.swl]
    OBVIOUS
<1>2. WInv(t, f) /\ ActInv(t.log, t.ctx) /\ t.bad = w.bad
    <2>1. CASE w.ctx.exit \/ w.ctx.lead
        <3>1. t = w
            BY <1>1, <2>1
        <3>2. CtxInv(w.log, w.ctx, w.ans, f)
            BY <1>0, <2>1, LeadsKeeps
        <3> QED
            BY <1>0, <3>1, <3>2 DEF WInv
    <2>2. CASE ~(w.ctx.exit \/ w.ctx.lead)
        <3>1. t = [w EXCEPT !.ctx.lead = TRUE, !.ctx.complete = FALSE, !.ctx.swl = e.swl]
            BY <1>1, <2>2
        <3>2. /\ t \in WorldType /\ t.log = w.log /\ t.ans = w.ans /\ t.bad = w.bad
              /\ Renewed(w.ctx, t.ctx, e.swl)
            BY ONLY <1>0, <3>1, RenewFields
        <3>3. \A k \in 1 .. Len(w.ctx.busy) : "active" \in w.ctx.busy[k].has => ~(w.ctx.busy[k].pos > e.swl)
            <4>1. \A k \in 1 .. Len(w.ctx.busy) : w.ctx.busy[k].pos \in Nat
                <5>1. \A k \in 1 .. Len(w.ctx.busy) : w.ctx.busy[k] \in CbType
                    BY <1>0 DEF CtxType
                <5> QED
                    BY <5>1 DEF CbType
            <4> QED
                BY <1>0, <4>1 DEF CtxInv, CoreInv, PhaseInv
        <3>4. ~Lost(w.ctx, e) /\ ~Doomed(w.ctx, e)
            BY DEF Lost, Doomed, TModes, FModes, FailedModes
        <3>5. CtxInv(w.log, t.ctx, w.ans, f)
            <4>1. t.ctx \in CtxType
                BY <3>2 DEF WorldType
            <4> QED
                BY <1>0, <3>2, <3>3, <3>4, <4>1, RenewedKeeps
        <3>6. ActInv(t.log, t.ctx)
            BY <3>2 DEF ActInv, Renewed, Rerole
        <3> QED
            BY <3>2, <3>5, <3>6 DEF WInv
    <2> QED
        BY <2>1, <2>2
<1>3. v = TrySubmitNextLog(t, o)
    BY <1>1 DEF ResumeLeader
<1>4. WInv(v, f) /\ Moved(t, v) /\ ActInv(v.log, v.ctx)
    BY <1>2, <1>3, TrySubmitKeeps DEF Leads
<1> QED
    BY <1>2, <1>4 DEF Moved

(* A context of a log stream that is about to lead can be bound to abort,  *)
(* and lead.                                                               *)
LEMMA ForcedLeads ==
    ASSUME NEW l, NEW c \in CtxType, NEW d \in CtxType, NEW a, NEW e, CtxInv(l, c, a, e),
           e.mode \in TModes, e.role # "follower", c.state = "INIT", ~c.complete,
           d.force /\ d.state = c.state /\ d.complete = c.complete /\ d.swl = c.swl,
           d.persisted = c.persisted /\ d.exit = c.exit /\ d.busy = c.busy /\ d.info = c.info,
           d.submitting = c.submitting /\ d.submitted = c.submitted /\ d.ver = c.ver /\ d.gts = c.gts,
           d.prep = c.prep, c.persisted
    PROVE  CtxInv(l, d, a, e)
<1>0. CoreInv(l, c, a, e)
    BY DEF CtxInv
<1>1. Undecided(l, c)
    <2>1. PhaseInv(c, e) /\ CommitInv(l, c, e) /\ BusyInv(l, c, e)
        BY <1>0 DEF CoreInv
    <2>2. ~Has(c.busy, "commit")
        BY <2>1 DEF PhaseInv
    <2>3. ASSUME NEW i \in 1 .. Len(l), "commit" \in l[i].has PROVE FALSE
        <3>1. PICK k \in 1 .. Len(c.busy) : c.busy[k].pos = i
            BY <2>1, <2>3 DEF CommitInv
        <3>2. c.busy[k].pos <= Len(l)
            BY <3>1
        <3>3. "commit" \in c.busy[k].has
            BY <2>1, <2>3, <3>1, <3>2 DEF BusyInv
        <3> QED
            BY <2>2, <3>3 DEF Has
    <2> QED
        BY <2>2, <2>3 DEF Undecided, Has
<1>2. BusyInv(l, d, e) /\ CommitInv(l, d, e)
    BY <1>0 DEF CoreInv, BusyInv, CommitInv
<1>3. ForceInv(l, d)
    BY <1>0, <1>1 DEF CoreInv, ForceInv, Undecided
<1>4. SubmitInv(d, e)
    BY <1>0 DEF CoreInv, SubmitInv
<1>5. PhaseInv(d, e) /\ PersistInv(d)
    BY <1>0 DEF CoreInv, PhaseInv, PersistInv
<1>6. DataInv(l, d, e)
    BY <1>0 DEF CoreInv, DataInv
<1>7. ActiveInv(l, d, e)
    <2>1. ~Has(c.busy, "active")
        BY <1>0 DEF CoreInv, PhaseInv
    <2> QED
        BY <2>1 DEF ActiveInv, Sets, Has
<1>8. AnsInv(l, d, a, e) /\ VersionInv(d)
    BY <1>0 DEF CoreInv, AnsInv, VersionInv
<1> QED
    BY <1>0, <1>2, <1>3, <1>4, <1>5, <1>6, <1>7, <1>8 DEF CtxInv, CoreInv

(* What switch_to_leader resets last.                                      *)
Settled(c, d, p) ==
    /\ Rerole(c, d) /\ d.lead = c.lead /\ ~d.complete /\ d.swl = p /\ d.unlog = c.unlog
    /\ d.action = c.action /\ d.ver = c.ver

(* The fields of such a context.                                           *)
LEMMA SettleFields ==
    ASSUME NEW w \in WorldType, NEW p \in Nat, NEW v, v = [w EXCEPT !.ctx.complete = FALSE, !.ctx.swl = p]
    PROVE  /\ v \in WorldType /\ v.log = w.log /\ v.ans = w.ans /\ v.bad = w.bad /\ v.ret = w.ret
           /\ Settled(w.ctx, v.ctx, p)
<1>0. w.ctx \in CtxType
    BY DEF WorldType
<1>1. PICK d : d = [w.ctx EXCEPT !.complete = FALSE, !.swl = p]
    OBVIOUS
<1>2. [w.ctx EXCEPT !.complete = FALSE, !.swl = p] \in CtxType
    BY <1>0 DEF CtxType
<1>3. d \in CtxType
    BY <1>1, <1>2
<1>4. Settled(w.ctx, d, p)
    BY <1>0, <1>1 DEF CtxType, Settled, Rerole, VersionInv
<1>5. v = [w EXCEPT !.ctx = d]
    BY <1>0, <1>1 DEF WorldType, CtxType
<1>6. v \in WorldType /\ v.log = w.log /\ v.ctx = d /\ v.ans = w.ans /\ v.bad = w.bad /\ v.ret = w.ret
    BY ONLY w \in WorldType, <1>3, <1>5, CtxUpdate
<1> QED
    BY <1>4, <1>6

(* switch_to_leader: a context whose data may be incomplete is bound to    *)
(* abort before it leads.                                                  *)
LEMMA SwitchToLeaderKeeps ==
    ASSUME NEW w, NEW e \in EnvType, NEW f \in EnvType, WInv(w, e), e.role = role, Leads(e, f),
           e.mode \in TModes, e.role # "follower", ActInv(w.log, w.ctx), NEW o, NEW p \in Nat,
           NEW v, v = SwitchToLeader(w, p, o)
    PROVE  /\ ActInv(v.log, v.ctx) /\ v.bad = w.bad
           /\ v.ret = "OK" => WInv(v, f)
           /\ v.ret # "OK" => WInv(v, e)
<1> DEFINE c == w.ctx
<1>0. /\ w \in WorldType /\ c \in CtxType /\ CtxInv(w.log, c, w.ans, e) /\ CoreInv(w.log, c, w.ans, e)
      /\ w.ans \in SUBSET Final
    BY DEF WInv, WorldType, CtxInv
<1>1. CASE c.exit
    <2>1. v = [w EXCEPT !.ret = "OK"]
        BY <1>1 DEF SwitchToLeader, Ok
    <2>2. CtxInv(w.log, c, w.ans, f)
        BY <1>0, <1>1, LeadsKeeps
    <2>3. v \in WorldType /\ v.log = w.log /\ v.ctx = c /\ v.ans = w.ans /\ v.bad = w.bad /\ v.ret = "OK"
        BY <1>0, <2>1, RetFields DEF Codes
    <2> QED
        BY <2>2, <2>3 DEF WInv
<1>2. CASE ~c.exit /\ c.lead
    <2>1. v = [w EXCEPT !.ret = "STATE_NOT_MATCH"]
        BY <1>2 DEF SwitchToLeader, Fail
    <2>2. WInv(v, e) /\ v.ret = "STATE_NOT_MATCH" /\ v.log = w.log /\ v.ctx = w.ctx /\ v.bad = w.bad
        BY <2>1, RetKeeps DEF Codes
    <2> QED
        BY <2>2
<1>3. CASE ~c.exit /\ ~c.lead
    <2>1. PICK d : d = [c EXCEPT !.lead = TRUE]
        OBVIOUS
    <2>2. [c EXCEPT !.lead = TRUE] \in CtxType
        BY <1>0 DEF CtxType
    <2>3. d \in CtxType
        BY <2>1, <2>2
    <2>4. PICK t : t = [w EXCEPT !.ctx = d]
        OBVIOUS
    <2>5. t \in WorldType /\ t.log = w.log /\ t.ctx = d /\ t.ans = w.ans /\ t.bad = w.bad
        BY ONLY <1>0, <2>3, <2>4, CtxUpdate
    <2>6. t = [w EXCEPT !.ctx.lead = TRUE]
        BY <1>0, <2>1, <2>4 DEF WorldType, CtxType
    <2>7. PICK r : r = IF c.state # "INIT" \/ c.complete THEN Ok(t)
                       ELSE IF ~c.persisted THEN Bad(Ok(t), "unexpected trx which has not persisted log")
                       ELSE IF c.action = "COMMIT" \/ c.up THEN AbortTx(t)
                       ELSE [DelayAbortTx(t) EXCEPT !.ans = @ \union {"ABORTED"}]
        OBVIOUS
    <2>8. PICK s : s = [r EXCEPT !.ctx.complete = FALSE, !.ctx.swl = p]
        OBVIOUS
    <2>9. v = IF r.ret # "OK" THEN [r EXCEPT !.ctx.lead = FALSE] ELSE Ok(TrySubmitNextLog(s, o))
        <3> DEFINE y == [w EXCEPT !.ctx.lead = TRUE]
                   q == IF w.ctx.state # "INIT" \/ w.ctx.complete THEN Ok(y)
                        ELSE IF ~w.ctx.persisted
                        THEN Bad(Ok(y), "unexpected trx which has not persisted log")
                        ELSE IF w.ctx.action = "COMMIT" \/ w.ctx.up THEN AbortTx(y)
                        ELSE [DelayAbortTx(y) EXCEPT !.ans = @ \union {"ABORTED"}]
        <3>3. q = r
            BY ONLY <2>6, <2>7
        <3>4. SwitchToLeader(w, p, o) =
                  IF w.ctx.exit THEN Ok(w)
                  ELSE IF w.ctx.lead THEN Fail(w, "STATE_NOT_MATCH")
                  ELSE IF q.ret # "OK" THEN [q EXCEPT !.ctx.lead = FALSE]
                  ELSE Ok(TrySubmitNextLog([q EXCEPT !.ctx.complete = FALSE, !.ctx.swl = p], o))
            BY ONLY Zenon DEF SwitchToLeader
        <3> HIDE DEF q
        <3> QED
            BY ONLY <1>3, <2>8, <3>3, <3>4, v = SwitchToLeader(w, p, o)
    <2>10. PhaseInv(c, e) /\ c.persisted
        BY <1>0, <1>3 DEF CoreInv, PhaseInv
    <2>11. /\ d.lead /\ d.state = c.state /\ d.complete = c.complete /\ d.swl = c.swl
           /\ d.persisted = c.persisted /\ d.exit = c.exit /\ d.busy = c.busy /\ d.info = c.info
           /\ d.submitting = c.submitting /\ d.submitted = c.submitted /\ d.ver = c.ver /\ d.gts = c.gts
           /\ d.up = c.up /\ d.force = c.force /\ d.unlog = c.unlog /\ d.action = c.action
           /\ d.prep = c.prep /\ d.leaked = c.leaked
        BY <1>0, <2>1 DEF CtxType
    <2>12. ASSUME NEW y, y \in WorldType, y.ret = "OK", WInv(s, f), ActInv(s.log, s.ctx), s.bad = w.bad, r = y
           PROVE  ActInv(v.log, v.ctx) /\ v.bad = w.bad /\ v.ret = "OK" /\ WInv(v, f)
        <3>1. PICK q : q = TrySubmitNextLog(s, o)
            OBVIOUS
        <3>2. WInv(q, f) /\ Moved(s, q) /\ ActInv(q.log, q.ctx)
            BY <2>12, <3>1, TrySubmitKeeps DEF Leads
        <3>3. v = [q EXCEPT !.ret = "OK"]
            BY <2>9, <2>12, <3>1 DEF Ok
        <3>4. WInv(v, f) /\ v.ret = "OK" /\ v.log = q.log /\ v.ctx = q.ctx /\ v.bad = q.bad
            BY <3>2, <3>3, RetKeeps DEF Codes
        <3> QED
            BY <2>12, <3>2, <3>4 DEF Moved
    <2>13. ~Has(c.busy, "active")
        BY <2>10 DEF PhaseInv
    <2>14. CASE c.state # "INIT" \/ c.complete
        <3>1. r = [t EXCEPT !.ret = "OK"]
            BY <2>7, <2>14 DEF Ok
        <3>2. r \in WorldType /\ r.log = w.log /\ r.ctx = d /\ r.ans = w.ans /\ r.bad = w.bad /\ r.ret = "OK"
            BY <2>5, <3>1, RetFields DEF Codes
        <3>3. /\ s \in WorldType /\ s.log = r.log /\ s.ans = r.ans /\ s.bad = r.bad
              /\ Settled(r.ctx, s.ctx, p)
            BY ONLY <3>2, <2>8, p \in Nat, SettleFields
        <3>4. Renewed(c, s.ctx, p)
            <4>1. VersionInv(c) => VersionInv(d)
                BY <2>11 DEF VersionInv
            <4> QED
                BY <2>11, <3>2, <3>3, <4>1 DEF Renewed, Rerole, Settled
        <3>5. ~Lost(c, e) /\ ~Doomed(c, e)
            BY <2>14 DEF Lost, Doomed
        <3>6. CtxInv(w.log, s.ctx, w.ans, f)
            <4>1. s.ctx \in CtxType
                BY <3>3 DEF WorldType
            <4>2. \A k \in 1 .. Len(c.busy) : "active" \in c.busy[k].has => ~(c.busy[k].pos > p)
                BY <2>13 DEF Has
            <4> QED
                BY <1>0, <3>4, <3>5, <4>1, <4>2, RenewedKeeps
        <3>7. ActInv(s.log, s.ctx)
            BY <3>2, <3>3, <3>4 DEF ActInv, Renewed, Rerole
        <3> QED
            BY <2>12, <3>2, <3>3, <3>6, <3>7 DEF WInv
    <2>15. CASE c.state = "INIT" /\ ~c.complete
        <3>1. ASSUME NEW x \in CtxType, Forced(d, x) PROVE CtxInv(w.log, x, w.ans, e)
            <4>1. /\ x.force /\ x.state = c.state /\ x.complete = c.complete /\ x.swl = c.swl
                  /\ x.persisted = c.persisted /\ x.exit = c.exit /\ x.busy = c.busy /\ x.info = c.info
                  /\ x.submitting = c.submitting /\ x.submitted = c.submitted /\ x.ver = c.ver /\ x.gts = c.gts
                  /\ x.prep = c.prep
                BY ONLY <2>11, <3>1 DEF Forced
            <4> QED
                BY ONLY <1>0, <2>10, <2>15, <4>1, x \in CtxType, e.mode \in TModes, e.role # "follower",
                        ForcedLeads
        <3>2. CASE c.action = "COMMIT" \/ c.up
            <4>1. r = AbortTx(t)
                BY <2>7, <2>10, <2>15, <3>2
            <4>2. Open(t.ctx) /\ MayForce(t, e) /\ t.ctx.persisted
                BY <2>5, <2>10, <2>11, <2>15, <3>1 DEF Open, MayForce
            <4>3. Aborts(t, r, e)
                BY <2>5, <4>1, <4>2, AbortTxKeeps
            <4>4. ActInv(t.log, t.ctx)
                BY <2>5, <2>11 DEF ActInv
            <4>5. /\ r \in WorldType /\ r.ctx \in CtxType /\ CtxInv(r.log, r.ctx, r.ans, e) /\ r.ctx.force
                  /\ ActInv(r.log, r.ctx) /\ r.bad = w.bad /\ ~r.ctx.complete /\ r.ctx.lead
                BY <2>5, <2>11, <2>15, <4>3, <4>4 DEF Aborts, WInv, WorldType
            <4>6. CASE r.ret # "OK"
                <5>1. v = [r EXCEPT !.ctx.lead = FALSE]
                    BY <2>9, <4>6
                <5>2. PICK x : x = [r.ctx EXCEPT !.lead = FALSE]
                    OBVIOUS
                <5>3. [r.ctx EXCEPT !.lead = FALSE] \in CtxType
                    BY <4>5 DEF CtxType
                <5>4. x \in CtxType
                    BY <5>2, <5>3
                <5>5. /\ Rerole(r.ctx, x) /\ ~x.lead /\ x.complete = r.ctx.complete /\ x.swl = r.ctx.swl
                      /\ x.action = r.ctx.action
                    BY <4>5, <5>2 DEF CtxType, Rerole, VersionInv
                <5>6. v = [r EXCEPT !.ctx = x]
                    BY <4>5, <5>1, <5>2 DEF WorldType, CtxType
                <5>7. v \in WorldType /\ v.log = r.log /\ v.ctx = x /\ v.ans = r.ans /\ v.bad = r.bad /\ v.ret = r.ret
                    BY ONLY <4>5, <5>4, <5>6, CtxUpdate
                <5>8. CtxInv(r.log, x, r.ans, e)
                    <6>1. RoleStep(r.ctx, e, e) /\ CoreInv(r.log, r.ctx, r.ans, e) /\ PersistInv(r.ctx)
                        BY <4>5 DEF RoleStep, CtxInv, CoreInv, BusyInv
                    <6>2. PhaseInv(x, e)
                        BY <5>5, <6>1 DEF CoreInv, PhaseInv, Rerole
                    <6>3. DataOk(r.log, x, e) /\ x.force
                        BY <4>5, <5>5 DEF DataOk, Rerole
                    <6>4. ActiveInv(r.log, x, e)
                        <7>1. ~Has(r.ctx.busy, "active")
                            BY <6>1 DEF CoreInv, PhaseInv
                        <7> QED
                            BY <4>5, <5>5, <7>1 DEF ActiveInv, Sets, Has, Rerole
                    <6>5. PersistInv(x)
                        BY <4>5, <5>5, <6>1 DEF PersistInv, Rerole
                    <6> QED
                        BY <4>5, <5>4, <5>5, <6>1, <6>2, <6>3, <6>4, <6>5, ReroleKeeps
                <5>9. ActInv(r.log, x)
                    BY <4>5, <5>5 DEF ActInv, Rerole
                <5> QED
                    BY <4>5, <4>6, <5>7, <5>8, <5>9 DEF WInv
            <4>7. CASE r.ret = "OK"
                <5>1. /\ s \in WorldType /\ s.log = r.log /\ s.ans = r.ans /\ s.bad = r.bad
                      /\ Settled(r.ctx, s.ctx, p)
                    BY ONLY <4>5, <2>8, p \in Nat, SettleFields
                <5>2. Renewed(r.ctx, s.ctx, p)
                    BY <4>5, <5>1 DEF Renewed, Rerole, Settled
                <5>3. CtxInv(r.log, s.ctx, r.ans, f)
                    <6>1. s.ctx \in CtxType
                        BY <5>1 DEF WorldType
                    <6>2. ~Has(r.ctx.busy, "active")
                        BY <4>5 DEF CtxInv, CoreInv, PhaseInv
                    <6>3. \A k \in 1 .. Len(r.ctx.busy) : "active" \in r.ctx.busy[k].has => ~(r.ctx.busy[k].pos > p)
                        BY <6>2 DEF Has
                    <6> QED
                        BY <4>5, <5>2, <6>1, <6>3, RenewedKeeps
                <5>4. ActInv(s.log, s.ctx)
                    BY <4>5, <5>1, <5>2 DEF ActInv, Renewed, Rerole
                <5> QED
                    BY <2>12, <4>5, <4>7, <5>1, <5>3, <5>4 DEF WInv
            <4> QED
                BY <4>6, <4>7
        <3>3. CASE ~(c.action = "COMMIT" \/ c.up)
            <4>1. r = [DelayAbortTx(t) EXCEPT !.ans = @ \union {"ABORTED"}]
                BY <2>7, <2>10, <2>15, <3>3
            <4>2. PICK x : x = [d EXCEPT !.force = TRUE, !.unlog = {}]
                OBVIOUS
            <4>3. [d EXCEPT !.force = TRUE, !.unlog = {}] \in CtxType
                BY <2>3 DEF CtxType
            <4>4. x \in CtxType
                BY <4>2, <4>3
            <4>5. Forced(d, x)
                BY <2>3, <4>2 DEF CtxType, Forced
            <4>6. PICK y : y = [t EXCEPT !.ctx = x]
                OBVIOUS
            <4>7. y \in WorldType /\ y.log = t.log /\ y.ctx = x /\ y.ans = t.ans /\ y.bad = t.bad
                BY ONLY <2>5, <4>4, <4>6, CtxUpdate
            <4>8. PICK z : z = DelayAbortTx(t)
                OBVIOUS
            <4>9. z = [y EXCEPT !.ret = "OK"]
                <5>1. y = [t EXCEPT !.ctx.force = TRUE, !.ctx.unlog = {}]
                    BY <2>3, <2>5, <4>2, <4>6 DEF WorldType, CtxType
                <5> QED
                    BY <4>8, <5>1 DEF DelayAbortTx, Ok
            <4>10. z \in WorldType /\ z.log = y.log /\ z.ctx = y.ctx /\ z.ans = y.ans /\ z.bad = y.bad /\ z.ret = "OK"
                BY <4>7, <4>9, RetFields DEF Codes
            <4>11. PICK b : b = w.ans \union {"ABORTED"}
                OBVIOUS
            <4>12. b \in SUBSET Final
                BY <1>0, <4>11 DEF Final
            <4>13. r = [z EXCEPT !.ans = b]
                BY <2>5, <4>1, <4>7, <4>8, <4>10, <4>11 DEF WorldType
            <4>14. r \in WorldType /\ r.log = z.log /\ r.ctx = z.ctx /\ r.ans = b /\ r.bad = z.bad /\ r.ret = z.ret
                BY ONLY <4>10, <4>12, <4>13, AnsUpdate
            <4>15. /\ r.log = w.log /\ r.ctx = x /\ r.bad = w.bad /\ r.ret = "OK"
                BY <2>5, <4>7, <4>10, <4>14
            <4>16. CtxInv(w.log, x, b, e)
                <5>1. CtxInv(w.log, x, w.ans, e)
                    BY <3>1, <4>4, <4>5
                <5> QED
                    BY <4>11, <5>1, AnswerKeeps
            <4>17. /\ s \in WorldType /\ s.log = r.log /\ s.ans = r.ans /\ s.bad = r.bad
                   /\ Settled(r.ctx, s.ctx, p)
                BY ONLY <4>14, <2>8, p \in Nat, SettleFields
            <4>18. Renewed(x, s.ctx, p)
                BY <2>11, <4>5, <4>15, <4>17 DEF Renewed, Rerole, Settled, Forced
            <4>19. CtxInv(w.log, s.ctx, b, f)
                <5>1. s.ctx \in CtxType /\ x.force /\ x.busy = c.busy
                    BY <2>11, <4>5, <4>17 DEF WorldType, Forced
                <5>2. \A k \in 1 .. Len(x.busy) : "active" \in x.busy[k].has => ~(x.busy[k].pos > p)
                    BY <2>13, <5>1 DEF Has
                <5> QED
                    BY <4>4, <4>16, <4>18, <5>1, <5>2, RenewedKeeps
            <4>20. ActInv(w.log, s.ctx)
                <5>1. ActInv(w.log, x)
                    BY <2>11, <4>5 DEF ActInv, Forced
                <5> QED
                    BY <4>18, <5>1 DEF ActInv, Renewed, Rerole
            <4> QED
                BY <2>12, <4>14, <4>15, <4>17, <4>19, <4>20 DEF WInv
        <3> QED
            BY <3>2, <3>3
    <2> QED
        BY <1>0, <2>14, <2>15 DEF CtxType
<1> QED
    BY <1>1, <1>2, <1>3

(* Modes in which the log stream may be asked to step down.                *)
Working(e) == e.mode \in {"L_WORKING"} \union FailedModes /\ e.swl = 0

(* The context d is c with another lead.                                   *)
LeadSet(c, d) ==
    /\ Rerole(c, d) /\ d.complete = c.complete /\ d.swl = c.swl /\ d.unlog = c.unlog
    /\ d.ver = c.ver /\ d.action = c.action

(* What giving up or taking back the lead changes.                         *)
LEMMA LeadSetFields ==
    ASSUME NEW w \in WorldType, NEW b \in BOOLEAN, NEW v, v = [w EXCEPT !.ctx.lead = b]
    PROVE  /\ v \in WorldType /\ v.log = w.log /\ v.ans = w.ans /\ v.bad = w.bad /\ v.ret = w.ret
           /\ LeadSet(w.ctx, v.ctx) /\ v.ctx.lead = b
<1>0. w.ctx \in CtxType
    BY DEF WorldType
<1>1. PICK d : d = [w.ctx EXCEPT !.lead = b]
    OBVIOUS
<1>2. [w.ctx EXCEPT !.lead = b] \in CtxType
    BY <1>0 DEF CtxType
<1>3. d \in CtxType
    BY <1>1, <1>2
<1>4. LeadSet(w.ctx, d) /\ d.lead = b
    BY <1>0, <1>1 DEF CtxType, LeadSet, Rerole, VersionInv
<1>5. v = [w EXCEPT !.ctx = d]
    BY <1>0, <1>1 DEF WorldType, CtxType
<1>6. v \in WorldType /\ v.log = w.log /\ v.ctx = d /\ v.ans = w.ans /\ v.bad = w.bad /\ v.ret = w.ret
    BY ONLY w \in WorldType, <1>3, <1>5, CtxUpdate
<1> QED
    BY <1>4, <1>6

(* A context with no active info log in flight takes or leaves the lead.   *)
LEMMA LeadSetKeeps ==
    ASSUME NEW l, NEW c, NEW d, NEW a, NEW e, CoreInv(l, c, a, e), LeadSet(c, d),
           Working(e), NoActive(c), "KILLED" \in a => c.force
    PROVE  CoreInv(l, d, a, e) /\ NoActive(d)
<1>1. ~Lost(c, e) /\ ~Lost(d, e)
    BY DEF Lost, Working, TModes, FModes, FailedModes
<1>2. NoActive(d)
    BY DEF NoActive, Sets, LeadSet, Rerole
<1>3. BusyInv(l, d, e) /\ CommitInv(l, d, e)
    BY DEF LeadSet, Rerole, CoreInv, BusyInv, CommitInv
<1>4. ForceInv(l, d) /\ SubmitInv(d, e)
    BY DEF LeadSet, Rerole, CoreInv, ForceInv, SubmitInv
<1>5. PhaseInv(d, e)
    BY DEF PhaseInv, Working, TModes, FModes, FailedModes
<1>6. DataInv(l, d, e)
    BY <1>1 DEF LeadSet, Rerole, CoreInv, DataInv
<1>7. ActiveInv(l, d, e)
    BY <1>2 DEF ActiveInv, NoActive
<1>8. AnsInv(l, d, a, e) /\ VersionInv(d)
    BY DEF LeadSet, Rerole, CoreInv, AnsInv
<1> QED
    BY <1>2, <1>3, <1>4, <1>5, <1>6, <1>7, <1>8 DEF CoreInv

(* What the log of a context that steps down leaves behind.                *)
StepsDown(g, r, e) ==
    /\ WCore(r, e) /\ Moved(g, r) /\ ActInv(r.log, r.ctx)
    /\ r.ret = "OK" => PersistInv(r.ctx)
    /\ r.ret # "OK" => NoActive(r.ctx) /\ (r.ctx.info => g.ctx.info)

(* A context that may write its last log as leader.                        *)
LastLog(g, e) ==
    /\ WCore(g, e) /\ Working(e) /\ (role = "leader" => e.mode = "L_WORKING")
    /\ ~g.ctx.lead /\ NoActive(g.ctx) /\ g.ctx.state = "INIT" /\ ~g.ctx.info /\ ActInv(g.log, g.ctx)
    /\ g.ctx.leaked # 0 => g.ctx.busy # <<>> \/ g.ctx.persisted \/ g.ctx.exit
    /\ role = "leader" => /\ ~g.ctx.submitted /\ ~g.ctx.force
                          /\ HasData(g.log, Len(g.log), e.written \ g.ctx.unlog)

(* What such a context may submit.                                         *)
LEMMA LastLogAllowed ==
    ASSUME NEW g, NEW e, LastLog(g, e), e.role = role, NEW has, NEW data,
           IsStateLog(has) = FALSE, has \intersect {"commit", "abort"} = {},
           "info" \in has => data = g.ctx.unlog,
           "active" \in has => has = {"active"} /\ HasData(g.log, Len(g.log), e.written)
    PROVE  Admitted(g, e, has, data)
<1>1. role = "leader" => e.mode \notin TModes /\ ~Doomed(g.ctx, e)
    BY DEF LastLog, Doomed, TModes, FModes, FailedModes
<1> QED
    BY <1>1 DEF LastLog, Admitted, Allowed, Working

(* submit_log_impl_ for an active info log.                                *)
LEMMA ActiveInfoKeeps ==
    ASSUME NEW g, NEW e \in EnvType, LastLog(g, e), e.role = role, NEW r, r = SubmitActiveInfo(g)
    PROVE  StepsDown(g, r, e)
<1>0. /\ g \in WorldType /\ g.log \in Seq(EntryType) /\ g.ctx \in CtxType /\ WCore(g, e)
      /\ g.ctx.unlog \in SUBSET Write /\ NoActive(g.ctx) /\ ActInv(g.log, g.ctx)
      /\ Len(g.log) \in Nat /\ Len(g.ctx.busy) \in Nat
    BY DEF LastLog, WCore, WorldType, CtxType
<1>1. PICK q : q = IF g.ctx.unlog = {} THEN Ok(g) ELSE SubmitOut(g, {"redo"}, g.ctx.unlog)
    OBVIOUS
<1>2. r = IF q.ret = "OK" THEN SubmitOut(q, {"active"}, {}) ELSE q
    BY <1>1 DEF SubmitActiveInfo
<1>3. /\ WCore(q, e) /\ Moved(g, q) /\ ActInv(q.log, q.ctx) /\ NoActive(q.ctx)
      /\ q.ctx.info = g.ctx.info /\ (q.ret = "OK" => LastLog(q, e) /\ (role = "leader" => HasData(q.log, Len(q.log), e.written)))
    <2>1. CASE g.ctx.unlog = {}
        <3>1. q = [g EXCEPT !.ret = "OK"]
            BY <1>1, <2>1 DEF Ok
        <3>2. q \in WorldType /\ q.log = g.log /\ q.ctx = g.ctx /\ q.ans = g.ans /\ q.bad = g.bad
            BY <1>0, <3>1, RetFields DEF Codes
        <3>3. WCore(q, e) /\ Moved(g, q)
            BY <1>0, <3>2 DEF WCore, Moved, Kept
        <3>4. LastLog(q, e)
            BY <3>2, <3>3 DEF LastLog
        <3>5. e.written \ g.ctx.unlog = e.written
            BY <2>1
        <3>6. role = "leader" => HasData(q.log, Len(q.log), e.written)
            BY <3>2, <3>5 DEF LastLog
        <3> QED
            BY <1>0, <3>2, <3>3, <3>4, <3>6
    <2>2. CASE g.ctx.unlog # {}
        <3>1. q = SubmitOut(g, {"redo"}, g.ctx.unlog)
            BY <1>1, <2>2
        <3>2. Admitted(g, e, {"redo"}, g.ctx.unlog)
            BY LastLogAllowed DEF IsStateLog
        <3>3. /\ WCore(q, e) /\ Moved(g, q)
              /\ q.ret = "OK" => /\ role = "leader" /\ q.ctx.busy # <<>>
                                 /\ Submits(g.log, g.ctx, q.log, q.ctx, {"redo"}, g.ctx.unlog)
              /\ q.ret # "OK" => q.log = g.log /\ Same(g.ctx, q.ctx)
            BY <1>0, <3>1, <3>2, SubmitOutDoes DEF Parts
        <3>4. CASE q.ret # "OK"
            <4>1. q.log = g.log /\ Same(g.ctx, q.ctx)
                BY <3>3, <3>4
            <4>2. ActInv(q.log, q.ctx)
                BY <1>0, <4>1, SameIsAlike
            <4>3. NoActive(q.ctx) /\ q.ctx.info = g.ctx.info
                BY <1>0, <4>1 DEF Same, Kept, NoActive, Sets
            <4> QED
                BY <3>3, <3>4, <4>2, <4>3
        <3>5. CASE q.ret = "OK"
            <4>1. Submits(g.log, g.ctx, q.log, q.ctx, {"redo"}, g.ctx.unlog) /\ role = "leader"
                BY <3>3, <3>5
            <4>2. q.ctx \in CtxType /\ q.ctx.info = g.ctx.info /\ q.ctx.submitted = g.ctx.submitted
                  /\ q.ctx.unlog = {} /\ Kept(g.ctx, q.ctx)
                <5>1. q.ctx \in CtxType
                    BY <3>3 DEF WCore, WorldType
                <5>2. q.ctx.info = g.ctx.info /\ q.ctx.submitted = g.ctx.submitted
                    BY <1>0, <4>1, <5>1 DEF Submits, CtxType, IsStateLog
                <5> QED
                    BY <4>1, <5>1, <5>2 DEF Submits
            <4>3. ActInv(q.log, q.ctx)
                BY <1>0, <4>1, <4>2, OtherPartsAct
            <4>4. NoActive(q.ctx)
                <5>1. /\ Len(q.ctx.busy) = Len(g.ctx.busy) + 1
                      /\ q.ctx.busy[Len(g.ctx.busy) + 1].has = {"redo"}
                      /\ \A i \in 1 .. Len(g.ctx.busy) : q.ctx.busy[i] = g.ctx.busy[i]
                    BY <4>1 DEF Submits, Added
                <5>2. \A k \in 1 .. Len(q.ctx.busy) : k \in 1 .. Len(g.ctx.busy) \/ k = Len(g.ctx.busy) + 1
                    BY <1>0, <5>1
                <5>3. q.ctx.complete = g.ctx.complete /\ q.ctx.swl = g.ctx.swl
                    BY <4>2 DEF Kept
                <5>4. ASSUME NEW k \in 1 .. Len(q.ctx.busy) PROVE ~Sets(q.ctx, k)
                    <6>1. CASE k \in 1 .. Len(g.ctx.busy)
                        BY <1>0, <5>1, <5>3, <6>1 DEF NoActive, Sets
                    <6>2. CASE k = Len(g.ctx.busy) + 1
                        BY <5>1, <6>2 DEF Sets
                    <6> QED
                        BY <5>2, <6>1, <6>2
                <5> QED
                    BY <1>0, <5>3, <5>4 DEF NoActive
            <4>5. HasData(q.log, Len(q.log), e.written)
                <5>1. HasData(g.log, Len(g.log), e.written \ g.ctx.unlog)
                    BY <4>1 DEF LastLog
                <5>2. Added(g.log, q.log, [has |-> {"redo"}, data |-> g.ctx.unlog])
                    BY <4>1 DEF Submits
                <5>3. e.written \subseteq (e.written \ g.ctx.unlog) \union [has |-> {"redo"}, data |-> g.ctx.unlog].data
                    OBVIOUS
                <5> QED
                    BY ONLY <1>0, <5>1, <5>2, <5>3, DataAdded
            <4>6. LastLog(q, e)
                <5>1. HasData(q.log, Len(q.log), e.written \ q.ctx.unlog)
                    BY <4>5 DEF HasData
                <5> QED
                    BY <3>3, <3>5, <4>1, <4>2, <4>3, <4>4, <5>1 DEF LastLog, Kept
            <4> QED
                BY <3>3, <4>2, <4>3, <4>4, <4>5, <4>6
        <3> QED
            BY <3>4, <3>5
    <2> QED
        BY <2>1, <2>2
<1>4. CASE q.ret # "OK"
    <2>1. r = q
        BY <1>2, <1>4
    <2> QED
        BY <1>3, <1>4, <2>1 DEF StepsDown
<1>5. CASE q.ret = "OK"
    <2>1. r = SubmitOut(q, {"active"}, {})
        BY <1>2, <1>5
    <2>2. LastLog(q, e) /\ (role = "leader" => HasData(q.log, Len(q.log), e.written))
        BY <1>3, <1>5
    <2>3. Admitted(q, e, {"active"}, {})
        <3>1. CASE role = "leader"
            BY <2>2, <3>1, LastLogAllowed DEF IsStateLog
        <3>2. CASE role # "leader"
            BY <3>2 DEF Admitted
        <3> QED
            BY <3>1, <3>2
    <2>4. /\ WCore(r, e) /\ Moved(q, r)
          /\ r.ret = "OK" => /\ role = "leader" /\ r.ctx.busy # <<>>
                             /\ Submits(q.log, q.ctx, r.log, r.ctx, {"active"}, {})
          /\ r.ret # "OK" => r.log = q.log /\ Same(q.ctx, r.ctx)
        BY <1>3, <2>1, <2>3, SubmitOutDoes DEF Parts
    <2>5. Moved(g, r)
        BY <1>3, <2>4, MovedOn
    <2>6. CASE r.ret # "OK"
        <3>1. r.log = q.log /\ Same(q.ctx, r.ctx)
            BY <2>4, <2>6
        <3>2. ActInv(r.log, r.ctx)
            BY <1>3, <3>1, SameIsAlike
        <3>3. NoActive(r.ctx) /\ r.ctx.info = q.ctx.info
            BY <1>3, <3>1 DEF Same, Kept, NoActive, Sets
        <3> QED
            BY <1>3, <2>4, <2>5, <2>6, <3>2, <3>3 DEF StepsDown
    <2>7. CASE r.ret = "OK"
        <3>1. ActInv(r.log, r.ctx)
            BY <1>3, <2>4, <2>7, OtherPartsAct DEF WCore, WorldType
        <3> QED
            BY <2>4, <2>5, <2>7, <3>1 DEF StepsDown, PersistInv
    <2> QED
        BY <2>6, <2>7
<1> QED
    BY <1>4, <1>5

(* submit_log_impl_ for a commit info log.                                 *)
LEMMA CommitInfoKeeps ==
    ASSUME NEW g, NEW e \in EnvType, LastLog(g, e), e.role = role, g.ctx.action = "COMMIT",
           NEW r, r = SubmitCommitInfo(g)
    PROVE  StepsDown(g, r, e)
<1>0. /\ g \in WorldType /\ g.log \in Seq(EntryType) /\ g.ctx \in CtxType /\ WCore(g, e)
      /\ g.ctx.unlog \in SUBSET Write /\ NoActive(g.ctx) /\ ActInv(g.log, g.ctx) /\ ~g.ctx.info
    BY DEF LastLog, WCore, WorldType, CtxType
<1>1. CASE Aborting(g.ctx)
    <2>1. r = [g EXCEPT !.ret = "KILLED"]
        BY <1>1 DEF SubmitCommitInfo, Fail
    <2>2. /\ r \in WorldType /\ r.log = g.log /\ r.ctx = g.ctx /\ r.ans = g.ans /\ r.bad = g.bad
          /\ r.ret = "KILLED"
        BY <1>0, <2>1, RetFields DEF Codes
    <2> QED
        BY <1>0, <2>2 DEF StepsDown, WCore, Moved, Kept
<1>2. CASE ~Aborting(g.ctx)
    <2>1. PICK has : has = RedoAndInfo(g.ctx)
        OBVIOUS
    <2>2. /\ has \in SUBSET Parts /\ "active" \notin has /\ has \intersect {"commit", "abort"} = {}
          /\ IsStateLog(has) = FALSE
        BY <2>1, RedoAndInfoParts DEF IsStateLog
    <2>3. PICK q : q = SubmitOut(g, has, g.ctx.unlog)
        OBVIOUS
    <2>4. r = IgnoreNoLogCb(q)
        BY <1>0, <1>2, <2>1, <2>3 DEF SubmitCommitInfo
    <2>5. Admitted(g, e, has, g.ctx.unlog)
        BY <2>2, LastLogAllowed
    <2>6. /\ WCore(q, e) /\ Moved(g, q)
          /\ q.ret = "OK" => q.ctx.busy # <<>>
          /\ q.ret # "OK" => q.log = g.log /\ Same(g.ctx, q.ctx)
          /\ q.ret = "NOLOGCB" => g.ctx.busy # <<>> \/ g.ctx.leaked # 0
        BY <1>0, <2>2, <2>3, <2>5, SubmitOutDoes
    <2>7. ActInv(q.log, q.ctx)
        BY <2>6 DEF ActInv, Moved, Kept
    <2>8. CASE q.ret = "NOLOGCB"
        <3>1. r = [q EXCEPT !.ret = "OK"]
            BY <2>4, <2>8 DEF IgnoreNoLogCb, Ok
        <3>2. /\ r \in WorldType /\ r.log = q.log /\ r.ctx = q.ctx /\ r.ans = q.ans /\ r.bad = q.bad
              /\ r.ret = "OK"
            BY <2>6, <3>1, RetFields DEF Codes, WCore
        <3>3. WCore(r, e) /\ Moved(g, r)
            BY <2>6, <3>2 DEF WCore, Moved
        <3>4. PersistInv(r.ctx)
            <4>1. g.ctx.busy # <<>> \/ g.ctx.persisted \/ g.ctx.exit
                BY <2>6, <2>8 DEF LastLog
            <4>2. Same(g.ctx, q.ctx)
                BY <2>6, <2>8
            <4> QED
                BY <3>2, <4>1, <4>2 DEF PersistInv, Same, Kept
        <3> QED
            BY <2>7, <3>2, <3>3, <3>4 DEF StepsDown
    <2>9. CASE q.ret # "NOLOGCB"
        <3>1. r = q
            BY <2>4, <2>9 DEF IgnoreNoLogCb
        <3>2. q.ret # "OK" => NoActive(q.ctx) /\ q.ctx.info = g.ctx.info
            BY <1>0, <2>6 DEF Same, Kept, NoActive, Sets
        <3> QED
            BY <1>0, <2>6, <2>7, <3>1, <3>2 DEF StepsDown, PersistInv
    <2> QED
        BY <2>8, <2>9
<1> QED
    BY <1>1, <1>2

(* switch_to_follower_gracefully: a context that steps down leaves a log,  *)
(* one whose log cannot be submitted leads on.                             *)
LEMMA GracefullyKeeps ==
    ASSUME NEW w, NEW e \in EnvType, WInv(w, e), e.role = role, Working(e),
           role = "leader" => e.mode = "L_WORKING", ActInv(w.log, w.ctx),
           NEW v, v = SwitchToFollowerGracefully(w)
    PROVE  /\ WInv(v, e) /\ ActInv(v.log, v.ctx) /\ v.bad = w.bad
           /\ v.ret = "OK" => ~v.ctx.lead \/ v.ctx.exit \/ v.ctx.force
<1> DEFINE c == w.ctx
<1>0. /\ w \in WorldType /\ c \in CtxType /\ w.log \in Seq(EntryType)
      /\ CtxInv(w.log, c, w.ans, e) /\ CoreInv(w.log, c, w.ans, e) /\ PersistInv(c)
    BY DEF WInv, WorldType, CtxInv
<1>1. CASE c.exit \/ ForceAbortLogging(c) \/ ~c.lead
    <2>1. v = [w EXCEPT !.ret = "OK"]
        BY <1>1 DEF SwitchToFollowerGracefully, Ok
    <2>2. WInv(v, e) /\ v.log = w.log /\ v.ctx = w.ctx /\ v.bad = w.bad
        BY <2>1, RetKeeps DEF Codes
    <2> QED
        BY <1>1, <2>2 DEF ForceAbortLogging
<1>2. CASE ~(c.exit \/ ForceAbortLogging(c) \/ ~c.lead)
    <2>1. PICK g : g = [w EXCEPT !.ctx.lead = FALSE]
        OBVIOUS
    <2>2. /\ g \in WorldType /\ g.log = w.log /\ g.ans = w.ans /\ g.bad = w.bad
          /\ LeadSet(c, g.ctx) /\ g.ctx.lead = FALSE
        BY ONLY <1>0, <2>1, LeadSetFields
    <2>3. NoActive(c) /\ ~Doomed(c, e) /\ ~Lost(c, e)
        BY <1>0, <1>2, LeadsAlone
    <2>4. CoreInv(w.log, g.ctx, w.ans, e) /\ NoActive(g.ctx)
        <3>1. "KILLED" \in w.ans => c.force
            BY <1>0, <2>3 DEF CoreInv, AnsInv
        <3> QED
            BY <1>0, <2>2, <2>3, <3>1, LeadSetKeeps
    <2>5. PICK t : t = IF NeedCallbackScheduler(c) THEN PostTxCommitResp(g, "SWITCHING") ELSE g
        OBVIOUS
    <2>6. /\ t \in WorldType /\ t.log = g.log /\ t.ans = g.ans /\ t.bad = g.bad
          /\ Alike(g.ctx, t.ctx) /\ t.ctx.action = g.ctx.action
        <3>1. CASE NeedCallbackScheduler(c)
            <4>1. t = PostTxCommitResp(g, "SWITCHING")
                BY <2>5, <3>1
            <4>2. g.ans \union ({"SWITCHING"} \intersect Final) = g.ans
                BY DEF Final
            <4>3. /\ t \in WorldType /\ t.log = g.log /\ t.bad = g.bad
                  /\ t.ans = g.ans \union ({"SWITCHING"} \intersect Final)
                  /\ Alike(g.ctx, t.ctx) /\ t.ctx.action = g.ctx.action
                BY ONLY <2>2, <4>1, RespFields
            <4> QED
                BY ONLY <4>2, <4>3
        <3>2. CASE ~NeedCallbackScheduler(c)
            BY <2>2, <2>5, <3>2 DEF Alike
        <3> QED
            BY <3>1, <3>2
    <2>7. \A x \in {g, t} :
             /\ WCore(x, e) /\ x.log = w.log /\ x.bad = w.bad /\ ~x.ctx.lead /\ NoActive(x.ctx)
             /\ x.ctx.action = c.action /\ x.ctx.state = c.state /\ x.ctx.info = c.info
             /\ x.ctx.force = c.force /\ x.ctx.submitted = c.submitted /\ x.ctx.unlog = c.unlog
             /\ x.ctx.busy = c.busy /\ x.ctx.persisted = c.persisted /\ x.ctx.exit = c.exit
             /\ x.ctx \in CtxType /\ (x.ctx.leaked # 0 => c.leaked # 0 \/ c.busy # <<>>)
        <3>1. CoreInv(t.log, t.ctx, t.ans, e)
            BY <2>2, <2>4, <2>6, AlikeCore
        <3>2. NoActive(t.ctx)
            BY <2>4, <2>6 DEF NoActive, Sets, Alike
        <3> QED
            BY <2>2, <2>4, <2>6, <3>1, <3>2 DEF WCore, WorldType, Alike, LeadSet, Rerole
    <2>8. \A x \in {g, t} : ActInv(x.log, x.ctx)
        BY <2>7 DEF ActInv
    <2>9. ASSUME c.state = "INIT", ~c.info, ~NeedForceAbort(c), NEW x \in {g, t}
          PROVE  LastLog(x, e)
        <3>1. role = "leader" => /\ ~c.submitted /\ ~c.force
                                 /\ HasData(w.log, Len(w.log), e.written \ c.unlog)
            <4>1. ASSUME role = "leader" PROVE ~c.submitted /\ ~c.force
                BY <1>0, <1>2, <2>9, <4>1, Ready DEF Open
            <4> QED
                BY <1>0, <2>3, <2>9, <4>1, HasAll DEF Open
        <3>2. x.ctx.leaked # 0 => x.ctx.busy # <<>> \/ x.ctx.persisted \/ x.ctx.exit
            BY <1>0, <2>7 DEF PersistInv
        <3> QED
            BY <2>7, <2>8, <2>9, <3>1, <3>2 DEF LastLog
    <2>10. PICK r : r = IF ~Committing(c)
                        THEN IF NeedForceAbort(c) THEN Ok(g) ELSE SubmitActiveInfo(g)
                        ELSE IF c.action # "COMMIT" THEN Ok(g)
                        ELSE IF c.state = "INIT" /\ ~c.info /\ ~NeedForceAbort(c)
                        THEN SubmitCommitInfo(t) ELSE Ok(t)
        OBVIOUS
    <2>11. v = IF r.ret = "OK" THEN r ELSE [r EXCEPT !.ctx.lead = TRUE]
        BY <1>2, <2>1, <2>5, <2>10 DEF SwitchToFollowerGracefully
    <2>12. ASSUME NEW x \in {g, t}, r = Ok(x), c.force \/ c.info \/ c.state # "INIT"
           PROVE  StepsDown(x, r, e)
        <3>1. r \in WorldType /\ r.log = x.log /\ r.ctx = x.ctx /\ r.ans = x.ans /\ r.bad = x.bad /\ r.ret = "OK"
            BY <2>7, <2>12, RetFields DEF Ok, Codes, WCore
        <3>2. c.busy # <<>> \/ c.persisted \/ c.exit
            <4>1. c.state # "INIT" => c.persisted \/ c.exit
                BY <1>0 DEF CtxType, CoreInv, ForceInv
            <4> QED
                BY <1>0, <2>12, <4>1 DEF PersistInv
        <3>3. PersistInv(x.ctx)
            BY <2>7, <3>2 DEF PersistInv
        <3> QED
            BY <2>7, <2>8, <3>1, <3>3 DEF StepsDown, WCore, Moved, Kept
    <2>13. PICK x \in {g, t} : StepsDown(x, r, e)
        <3>1. CASE ~Committing(c) /\ NeedForceAbort(c)
            <4>1. r = Ok(g) /\ c.force
                BY <2>10, <3>1 DEF NeedForceAbort
            <4> QED
                BY <2>12, <4>1
        <3>2. CASE ~Committing(c) /\ ~NeedForceAbort(c)
            <4>1. r = SubmitActiveInfo(g)
                BY <2>10, <3>2
            <4>2. c.state = "INIT" /\ ~c.info
                BY <3>2 DEF Committing, ActInv
            <4>3. LastLog(g, e)
                BY <2>9, <3>2, <4>2
            <4> QED
                BY <4>1, <4>3, ActiveInfoKeeps
        <3>3. CASE Committing(c) /\ c.action # "COMMIT"
            <4>1. r = Ok(g)
                BY <2>10, <3>3
            <4>2. c.force \/ c.state # "INIT"
                BY <1>0, <3>3 DEF Committing, ActInv, CtxType
            <4> QED
                BY <2>12, <4>1, <4>2
        <3>4. CASE Committing(c) /\ c.action = "COMMIT" /\ c.state = "INIT" /\ ~c.info /\ ~NeedForceAbort(c)
            <4>1. r = SubmitCommitInfo(t)
                BY <2>10, <3>4
            <4>2. LastLog(t, e) /\ t.ctx.action = "COMMIT"
                BY <2>7, <2>9, <3>4
            <4> QED
                BY <4>1, <4>2, CommitInfoKeeps
        <3>5. CASE Committing(c) /\ c.action = "COMMIT" /\ ~(c.state = "INIT" /\ ~c.info /\ ~NeedForceAbort(c))
            <4>1. r = Ok(t) /\ (c.force \/ c.info \/ c.state # "INIT")
                BY <2>10, <3>5 DEF NeedForceAbort
            <4> QED
                BY <2>12, <4>1
        <3> QED
            BY <3>1, <3>2, <3>3, <3>4, <3>5
    <2>14. CASE r.ret = "OK"
        <3>1. v = r
            BY <2>11, <2>14
        <3>2. ~r.ctx.lead /\ r.bad = w.bad
            BY <2>7, <2>13 DEF StepsDown, Moved, Kept
        <3> QED
            BY <2>13, <2>14, <3>1, <3>2 DEF StepsDown, WInv, WCore, CtxInv
    <2>15. CASE r.ret # "OK"
        <3>1. v = [r EXCEPT !.ctx.lead = TRUE]
            BY <2>11, <2>15
        <3>2. /\ WCore(r, e) /\ NoActive(r.ctx) /\ (r.ctx.info => x.ctx.info) /\ ActInv(r.log, r.ctx)
              /\ Moved(x, r) /\ r \in WorldType
            BY <2>13, <2>15 DEF StepsDown, WCore
        <3>3. /\ v \in WorldType /\ v.log = r.log /\ v.ans = r.ans /\ v.bad = r.bad /\ v.ret = r.ret
              /\ LeadSet(r.ctx, v.ctx) /\ v.ctx.lead = TRUE
            BY ONLY <3>1, <3>2, LeadSetFields
        <3>4. "KILLED" \in r.ans => r.ctx.force
            <4>1. r.ans = w.ans /\ r.ctx.force = c.force
                BY <2>2, <2>6, <2>7, <3>2 DEF Moved, Kept
            <4>2. "KILLED" \in w.ans => c.force
                BY <1>0, <2>3 DEF CoreInv, AnsInv
            <4> QED
                BY <4>1, <4>2
        <3>5. CoreInv(v.log, v.ctx, v.ans, e)
            BY <3>2, <3>3, <3>4, LeadSetKeeps DEF WCore
        <3>6. PersistInv(v.ctx)
            <4>1. c.force \/ c.info \/ c.leaked # 0 => c.busy # <<>> \/ c.persisted \/ c.exit
                BY <1>0 DEF PersistInv
            <4> QED
                BY <2>7, <3>2, <3>3, <4>1 DEF PersistInv, Moved, Kept, LeadSet, Rerole
        <3>7. ActInv(v.log, v.ctx)
            BY <3>2, <3>3 DEF ActInv, LeadSet, Rerole
        <3> QED
            BY <2>7, <2>15, <3>2, <3>3, <3>5, <3>6, <3>7 DEF WInv, CtxInv, Moved
    <2> QED
        BY <2>14, <2>15
<1> QED
    BY <1>1, <1>2

-------------------------------------------------------------------------------
(* The other changes of the log and of the rows                            *)

(* A start working log is appended.                                        *)
LEMMA SwlAdded ==
    ASSUME NEW l \in Seq(EntryType), NEW m, NEW c \in CtxType, NEW a, NEW e \in EnvType,
           CtxInv(l, c, a, e), ActInv(l, c), e.role \notin Broken, Added(l, m, SwlEntry)
    PROVE  CtxInv(m, c, a, e) /\ ActInv(m, c)
<1>0. /\ e.synced <= Len(l) /\ BusyInv(l, c, e) /\ CommitInv(l, c, e) /\ ForceInv(l, c) /\ SubmitInv(c, e)
      /\ PhaseInv(c, e) /\ DataInv(l, c, e) /\ ActiveInv(l, c, e) /\ AnsInv(l, c, a, e) /\ PersistInv(c)
      /\ Len(l) \in Nat /\ e.synced \in Nat
    BY DEF CtxInv, CoreInv, EnvType
<1>1. /\ Len(m) = Len(l) + 1 /\ m[Len(l) + 1].has = {"swl"} /\ \A i \in 1 .. Len(l) : m[i] = l[i]
    BY DEF Added, SwlEntry
<1>2. \A i \in 1 .. Len(m) : i \in 1 .. Len(l) \/ i = Len(l) + 1
    BY <1>0, <1>1
<1>3. \A p : p # "swl" => (Has(m, p) <=> Has(l, p))
    BY <1>0, HasAdded DEF SwlEntry
<1>4. \A p : Agreed(l, e.synced, p) => Agreed(m, e.synced, p)
    BY <1>0, AgreedAdded
<1>5. ASSUME NEW k \in 1 .. Len(c.busy) PROVE c.busy[k].pos \in 1 .. Len(l)
    <2>1. c.busy[k] \in CbType
        BY DEF CtxType
    <2> QED
        BY <1>0, <2>1 DEF BusyInv, CbType
<1>6. \A n \in 0 .. Len(l) : \A W : HasData(m, n, W) <=> HasData(l, n, W)
    BY <1>0, DataAdded
<1>7. \A W : HasData(l, Len(l), W) => HasData(m, Len(m), W)
    <2>1. \A W : W \subseteq W \union SwlEntry.data
        OBVIOUS
    <2> QED
        BY ONLY <1>0, <2>1, Added(l, m, SwlEntry), DataAdded
<1>8. BusyInv(m, c, e)
    BY <1>0, <1>1, <1>5 DEF BusyInv
<1>9. CommitInv(m, c, e)
    <2>1. \A i \in 1 .. Len(m) : "commit" \in m[i].has => i \in 1 .. Len(l) /\ "commit" \in l[i].has
        BY <1>1, <1>2
    <2> QED
        BY <1>0, <1>4, <2>1 DEF CommitInv
<1>10. ForceInv(m, c)
    <2>1. (Has(m, "commit") <=> Has(l, "commit")) /\ (Has(m, "abort") <=> Has(l, "abort"))
        BY <1>3
    <2> QED
        BY <1>0, <2>1 DEF ForceInv
<1>11. DataInv(m, c, e)
    <2>1. ASSUME NEW i \in 1 .. Len(m), "commit" \in m[i].has PROVE \E j \in 1 .. i : "info" \in m[j].has
        <3>1. i \in 1 .. Len(l) /\ "commit" \in l[i].has
            BY <1>1, <1>2, <2>1
        <3>2. PICK j \in 1 .. i : "info" \in l[j].has
            BY <1>0, <3>1 DEF DataInv
        <3> QED
            BY <1>0, <1>1, <3>1, <3>2
    <2>2. ASSUME NEW i \in 1 .. Len(m), "info" \in m[i].has PROVE HasData(m, i, e.written)
        <3>1. i \in 1 .. Len(l) /\ "info" \in l[i].has
            BY <1>1, <1>2, <2>2
        <3>2. HasData(l, i, e.written)
            BY <1>0, <3>1 DEF DataInv
        <3> QED
            BY <1>0, <1>6, <3>1, <3>2
    <2>3. HasData(m, Len(m), e.written \ c.unlog) \/ c.force \/ Lost(c, e)
        BY <1>0, <1>7 DEF DataInv
    <2>4. c.info => Has(m, "info") \/ c.force \/ Lost(c, e)
        BY <1>0, <1>3 DEF DataInv
    <2>5. c.state = "REDO_COMPLETE" => Agreed(m, e.synced, "info")
        BY <1>0, <1>4 DEF DataInv
    <2> QED
        BY <2>1, <2>2, <2>3, <2>4, <2>5 DEF DataInv
<1>12. ActiveInv(m, c, e)
    <2>1. e.synced \in 0 .. Len(l)
        BY <1>0
    <2>2. HasData(l, e.synced, e.written) => HasData(m, e.synced, e.written)
        BY <1>6, <2>1
    <2>3. \A k \in 1 .. Len(c.busy) :
             HasData(l, c.busy[k].pos, e.written) => HasData(m, c.busy[k].pos, e.written)
        BY <1>0, <1>5, <1>6
    <2> QED
        BY <1>0, <1>5, <2>2, <2>3 DEF ActiveInv
<1>13. AnsInv(m, c, a, e)
    BY <1>0, <1>4 DEF AnsInv
<1>14. ActInv(m, c)
    <2>1. (Has(m, "commit") <=> Has(l, "commit")) /\ (Has(m, "info") <=> Has(l, "info"))
        BY <1>3
    <2> QED
        BY <2>1 DEF ActInv
<1>15. e.synced <= Len(m) /\ VersionInv(c)
    BY <1>0, <1>1 DEF CtxInv, CoreInv
<1> QED
    BY <1>0, <1>8, <1>9, <1>10, <1>11, <1>12, <1>13, <1>14, <1>15 DEF CtxInv, CoreInv

(* The leadership is lost, and with it the log beyond n.                   *)
LEMMA RevokeKeeps ==
    ASSUME NEW l \in Seq(EntryType), NEW m, NEW c \in CtxType, NEW a, NEW e \in EnvType, NEW f, NEW n \in Nat,
           CtxInv(l, c, a, e), ActInv(l, c), e.role \in {"leader", "graceful"},
           e.synced <= n, n <= Len(l), Len(m) = n, \A i \in 1 .. n : m[i] = l[i],
           f.role = "revoked", f.mode = e.mode, f.synced = e.synced, f.written = e.written, f.swl = e.swl
    PROVE  CtxInv(m, c, a, f) /\ ActInv(m, c)
<1>0. /\ BusyInv(l, c, e) /\ CommitInv(l, c, e) /\ ForceInv(l, c) /\ SubmitInv(c, e)
      /\ PhaseInv(c, e) /\ DataInv(l, c, e) /\ ActiveInv(l, c, e) /\ AnsInv(l, c, a, e) /\ PersistInv(c)
      /\ Len(l) \in Nat /\ e.synced \in Nat
    BY DEF CtxInv, CoreInv, EnvType
<1>1. \A i \in 1 .. Len(m) : i \in 1 .. Len(l) /\ m[i] = l[i]
    BY <1>0
<1>2. \A p : Has(m, p) => Has(l, p)
    BY <1>1 DEF Has
<1>3. \A p : Agreed(l, e.synced, p) => Agreed(m, e.synced, p)
    BY <1>0 DEF Agreed
<1>4. ASSUME NEW k \in 0 .. n, NEW W, HasData(l, k, W) PROVE HasData(m, k, W)
    <2>1. \A j \in 1 .. k : m[j] = l[j]
        BY <1>0
    <2> QED
        BY <1>4, <2>1 DEF HasData
<1>5. ASSUME NEW k \in 1 .. Len(c.busy) PROVE c.busy[k].pos \in Nat /\ c.busy[k].pos > 0
    <2>1. c.busy[k] \in CbType
        BY DEF CtxType
    <2> QED
        BY <1>0, <2>1 DEF BusyInv, CbType
<1>6. BusyInv(m, c, f)
    BY <1>0, <1>1, <1>5 DEF BusyInv, Broken
<1>7. CommitInv(m, c, f)
    BY <1>0, <1>1, <1>3 DEF CommitInv
<1>8. ForceInv(m, c) /\ ActInv(m, c)
    BY <1>0, <1>2 DEF ForceInv, ActInv
<1>9. SubmitInv(c, f)
    BY <1>0 DEF SubmitInv, Broken
<1>10. PhaseInv(c, f)
    BY <1>0 DEF PhaseInv
<1>11. DataInv(m, c, f)
    <2>1. ASSUME NEW i \in 1 .. Len(m), "commit" \in m[i].has PROVE \E j \in 1 .. i : "info" \in m[j].has
        <3>1. i \in 1 .. Len(l) /\ "commit" \in l[i].has
            BY <1>1, <2>1
        <3>2. PICK j \in 1 .. i : "info" \in l[j].has
            BY <1>0, <3>1 DEF DataInv
        <3> QED
            BY <1>0, <1>1, <3>2
    <2>2. ASSUME NEW i \in 1 .. Len(m), "info" \in m[i].has PROVE HasData(m, i, f.written)
        <3>1. i \in 1 .. Len(l) /\ "info" \in l[i].has /\ i \in 0 .. n
            BY <1>1, <2>2
        <3>2. HasData(l, i, e.written)
            BY <1>0, <3>1 DEF DataInv
        <3> QED
            BY <1>4, <3>1, <3>2
    <2> QED
        BY <1>0, <1>3, <2>1, <2>2 DEF DataInv, Broken
<1>12. ActiveInv(m, c, f)
    <2>1. e.synced \in 0 .. n
        BY <1>0
    <2>2. HasData(l, e.synced, e.written) => HasData(m, e.synced, e.written)
        BY <1>4, <2>1
    <2>3. ASSUME NEW k \in 1 .. Len(c.busy), c.busy[k].pos <= Len(m), HasData(l, c.busy[k].pos, e.written)
          PROVE  HasData(m, c.busy[k].pos, e.written)
        <3>1. c.busy[k].pos \in 0 .. n
            BY <1>5, <2>3
        <3> QED
            BY <1>4, <2>3, <3>1
    <2>4. \A k \in 1 .. Len(c.busy) : c.busy[k].pos <= Len(m) => c.busy[k].pos <= Len(l)
        BY <1>0, <1>5
    <2> QED
        BY <1>0, <2>2, <2>3, <2>4 DEF ActiveInv
<1>13. AnsInv(m, c, a, f)
    <2>1. Doomed(c, e) => Doomed(c, f)
        BY DEF Doomed
    <2> QED
        BY <1>0, <1>3, <2>1 DEF AnsInv
<1>14. VersionInv(c)
    BY DEF CtxInv, CoreInv
<1> QED
    BY <1>0, <1>6, <1>7, <1>8, <1>9, <1>10, <1>11, <1>12, <1>13, <1>14 DEF CtxInv, CoreInv

(* A row is written before the transaction commits.                        *)
LEMMA WriteKeeps ==
    ASSUME NEW l, NEW c \in CtxType, NEW d, NEW a, NEW e, NEW f, NEW x, CtxInv(l, c, a, e), ActInv(l, c),
           c.lead, ~Committing(c), ~c.force, Kept(c, d), d.unlog = c.unlog \union {x},
           d.info = c.info /\ d.submitting = c.submitting /\ d.submitted = c.submitted,
           d.gts = c.gts /\ d.ver = c.ver /\ d.busy = c.busy /\ d.prep = c.prep /\ d.leaked = c.leaked,
           f.role = e.role, f.mode = e.mode, f.synced = e.synced, f.swl = e.swl, f.written = e.written \union {x}
    PROVE  CtxInv(l, d, a, f) /\ ActInv(l, d)
<1>0. /\ BusyInv(l, c, e) /\ CommitInv(l, c, e) /\ ForceInv(l, c) /\ SubmitInv(c, e)
      /\ PhaseInv(c, e) /\ DataInv(l, c, e) /\ ActiveInv(l, c, e) /\ AnsInv(l, c, a, e) /\ PersistInv(c)
      /\ e.synced <= Len(l)
    BY DEF CtxInv, CoreInv
<1>1. NoActive(c) /\ ~Lost(c, e) /\ ~Doomed(c, e) /\ d.lead /\ c.state = "INIT"
    BY LeadsAlone DEF Kept, Committing
<1>2. ~c.info /\ ~Has(l, "info") /\ ~Has(l, "commit")
    BY DEF Committing, ActInv
<1>3. BusyInv(l, d, f) /\ CommitInv(l, d, f)
    BY <1>0 DEF Kept, BusyInv, CommitInv
<1>4. ForceInv(l, d) /\ SubmitInv(d, f) /\ PersistInv(d)
    BY <1>0 DEF Kept, ForceInv, SubmitInv, PersistInv
<1>5. PhaseInv(d, f)
    BY <1>0 DEF Kept, PhaseInv
<1>6. DataInv(l, d, f)
    <2>1. f.written \ d.unlog \subseteq e.written \ c.unlog
        OBVIOUS
    <2>2. HasData(l, Len(l), e.written \ c.unlog) => HasData(l, Len(l), f.written \ d.unlog)
        BY <2>1 DEF HasData
    <2>3. ~\E i \in 1 .. Len(l) : "info" \in l[i].has \/ "commit" \in l[i].has
        BY <1>2 DEF Has
    <2> QED
        BY <1>0, <1>1, <1>2, <2>2, <2>3 DEF DataInv, Kept
<1>7. ActiveInv(l, d, f)
    BY <1>1 DEF ActiveInv, NoActive, Sets, Kept
<1>8. AnsInv(l, d, a, f)
    BY <1>0, <1>1 DEF AnsInv, Kept
<1>9. ActInv(l, d) /\ VersionInv(d)
    BY DEF ActInv, Kept, VersionInv, CtxInv, CoreInv
<1> QED
    BY <1>0, <1>3, <1>4, <1>5, <1>6, <1>7, <1>8, <1>9 DEF CtxInv, CoreInv

-------------------------------------------------------------------------------
(* The actions                                                             *)

(* The properties of the log and the answers.                              *)
Sound(l, a, e) ==
    /\ "SUCCESS" \in a => \E i \in 1 .. Len(l) : "commit" \in l[i].has /\ i <= e.synced
    /\ "KILLED" \in a => \A i \in 1 .. Len(l) : "commit" \notin l[i].has
    /\ \A i, j \in 1 .. Len(l) : "commit" \in l[i].has => "abort" \notin l[j].has
    /\ \A i \in 1 .. Len(l) : "commit" \in l[i].has => HasData(l, i, e.written)

(* The invariant implies the properties.                                   *)
LEMMA InvIsSound ==
    ASSUME NEW l \in Seq(EntryType), NEW c \in CtxType, NEW a, NEW e \in EnvType, CtxInv(l, c, a, e)
    PROVE  Sound(l, a, e)
<1>0. /\ CommitInv(l, c, e) /\ ForceInv(l, c) /\ DataInv(l, c, e) /\ AnsInv(l, c, a, e)
      /\ Len(l) \in Nat /\ e.synced \in Nat /\ e.synced <= Len(l)
    BY DEF CtxInv, CoreInv, EnvType
<1>1. "SUCCESS" \in a => \E i \in 1 .. Len(l) : "commit" \in l[i].has /\ i <= e.synced
    BY <1>0 DEF AnsInv, Agreed
<1>2. c.force => ~Has(l, "commit")
    BY <1>0 DEF ForceInv
<1>3. Doomed(c, e) => ~Has(l, "commit")
    BY <1>0 DEF Doomed, CommitInv, Has
<1>4. "KILLED" \in a => \A i \in 1 .. Len(l) : "commit" \notin l[i].has
    BY <1>0, <1>2, <1>3 DEF AnsInv, Has
<1>5. \A i, j \in 1 .. Len(l) : "commit" \in l[i].has => "abort" \notin l[j].has
    BY <1>0, <1>2 DEF ForceInv, Has
<1>6. ASSUME NEW i \in 1 .. Len(l), "commit" \in l[i].has PROVE HasData(l, i, e.written)
    <2>1. PICK j \in 1 .. i : "info" \in l[j].has
        BY <1>0, <1>6 DEF DataInv
    <2>2. HasData(l, j, e.written) /\ \A k \in 1 .. j : k \in 1 .. i
        BY <1>0, <2>1 DEF DataInv
    <2> QED
        BY <2>2 DEF HasData
<1> QED
    BY <1>1, <1>4, <1>5, <1>6 DEF Sound

(* What the context does not change.                                       *)
OthersOK ==
    /\ synced \in Nat /\ role \in Roles /\ swl \in Nat /\ applying \in Nat /\ swls \in Nat
    /\ mode \in Modes /\ local \in BOOLEAN /\ written \in SUBSET Write /\ expired \in BOOLEAN
    /\ sched \in {"ACTIVE", "IN_TERMINATE", "ABORTED", "TERMINATED"}

(* The environment that a call finds.                                      *)
LEMMA EnvFields ==
    /\ Env.role = role /\ Env.mode = mode /\ Env.synced = synced
    /\ Env.written = written /\ Env.swl = swl
    BY DEF Env

(* It is well typed.                                                       *)
LEMMA EnvIsTyped ==
    ASSUME OthersOK PROVE Env \in EnvType
    BY DEF OthersOK, Env, EnvType

(* The environment that a step leaves.                                     *)
LEMMA EnvFieldsNext ==
    /\ Env'.role = role' /\ Env'.mode = mode' /\ Env'.synced = synced'
    /\ Env'.written = written' /\ Env'.swl = swl'
    BY DEF Env

(* It is well typed.                                                       *)
LEMMA EnvIsTypedNext ==
    ASSUME OthersOK' PROVE Env' \in EnvType
    BY DEF OthersOK, Env, EnvType

(* The world that a call finds.                                            *)
Found ==
    /\ WInv(World, Env) /\ ActInv(World.log, World.ctx) /\ World.bad = {} /\ World.ret = "OK"
    /\ World.log = log /\ World.ctx = ctx /\ World.ans = ans /\ World \in WorldType
    /\ Env \in EnvType /\ ModeInv /\ OthersOK
    /\ Env.role = role /\ Env.mode = mode /\ Env.synced = synced
    /\ Env.written = written /\ Env.swl = swl
    /\ log \in Seq(EntryType) /\ ctx \in CtxType /\ ans \in SUBSET Final
    /\ CtxInv(log, ctx, ans, Env) /\ ActInv(log, ctx)

(* A step finds the invariant.                                             *)
LEMMA InvFinds ==
    ASSUME IInv
    PROVE  Found
<1>1. OthersOK /\ log \in Seq(EntryType) /\ ctx \in CtxType /\ ans \in SUBSET Final /\ bad \in SUBSET Errors
    BY DEF IInv, TypeOK, OthersOK
<1>2. World.log = log /\ World.ctx = ctx /\ World.ans = ans /\ World.bad = bad /\ World.ret = "OK"
    BY DEF World
<1>3. World \in WorldType
    BY <1>1 DEF World, WorldType, Codes
<1>4. ModeInv /\ ActInv(log, ctx) /\ CtxInv(log, ctx, ans, Env)
    BY DEF IInv
<1> QED
    BY <1>1, <1>2, <1>3, <1>4, EnvFields, EnvIsTyped DEF Found, WInv, IInv, NothingUnexpected

(* The properties in the next state.                                       *)
LEMMA SoundNext ==
    ASSUME Sound(log', ans', Env')
    PROVE  AnswerMatchesOutcome' /\ OneDecision' /\ CommitHasAllData'
<1>1. AnswerMatchesOutcome'
    <2>1. /\ "SUCCESS" \in ans' => \E i \in 1 .. Len(log') : "commit" \in log'[i].has /\ i <= synced'
          /\ "KILLED" \in ans' => \A i \in 1 .. Len(log') : "commit" \notin log'[i].has
        BY EnvFieldsNext DEF Sound
    <2> QED
        BY <2>1 DEF AnswerMatchesOutcome
<1>2. OneDecision'
    BY DEF Sound, OneDecision
<1>3. CommitHasAllData'
    <2> SUFFICES ASSUME NEW i \in 1 .. Len(log'), "commit" \in log'[i].has, NEW x \in written'
                 PROVE  x \in UNION {log'[j].data : j \in 1 .. i}
        BY DEF CommitHasAllData
    <2>1. HasData(log', i, written')
        BY EnvFieldsNext DEF Sound
    <2>2. PICK j \in 1 .. i : x \in log'[j].data
        BY <2>1 DEF HasData
    <2> QED
        BY <2>2
<1> QED
    BY <1>1, <1>2, <1>3

(* A step to a world that keeps the invariant.                             *)
LEMMA StepTo ==
    ASSUME NEW v, Become(v), WInv(v, Env'), ActInv(v.log, v.ctx), v.bad = {}, ModeInv', OthersOK'
    PROVE  IInv'
<1>1. /\ log' = v.log /\ ctx' = v.ctx /\ ans' = v.ans /\ bad' = {}
      /\ v.log \in Seq(EntryType) /\ v.ctx \in CtxType /\ v.ans \in SUBSET Final
    BY DEF Become, WInv, WorldType
<1>2. CtxInv(log', ctx', ans', Env') /\ ActInv(log', ctx')
    BY <1>1 DEF WInv
<1>3. TypeOK'
    BY <1>1 DEF TypeOK, OthersOK
<1>4. Sound(log', ans', Env')
    BY <1>1, <1>2, EnvIsTypedNext, InvIsSound
<1>5. NothingUnexpected'
    BY <1>1 DEF NothingUnexpected
<1> QED
    BY <1>2, <1>3, <1>4, <1>5, SoundNext DEF IInv

(* A step that changes neither the context nor the log.                    *)
LEMMA StepAround ==
    ASSUME UNCHANGED <<log, ctx, ans, bad>>, bad = {}, Found, CtxInv(log, ctx, ans, Env'), ModeInv', OthersOK'
    PROVE  IInv'
<1>1. Become(World)
    BY DEF Become, Found, World
<1>2. WInv(World, Env')
    BY DEF Found, WInv
<1> QED
    BY <1>1, <1>2, StepTo DEF Found

(* A step that leaves the log stream and the scheduler alone.              *)
LEMMA SameEnv ==
    ASSUME Found, UNCHANGED <<lsVars, txVars>>
    PROVE  Env' = Env /\ ModeInv' /\ OthersOK'
    BY DEF Found, lsVars, txVars, Env, ModeInv, OthersOK

(* A statement writes a row.                                               *)
LEMMA WriteRowInv ==
    ASSUME Found, NEW x \in Write, WriteRow(x)
    PROVE  IInv'
<1>1. /\ ctx.lead /\ ~Committing(ctx) /\ ~ctx.force /\ UNCHANGED <<log, lsVars, local, sched, expired, ans, bad>>
      /\ written' = written \union {x} /\ ctx' = [ctx EXCEPT !.unlog = @ \union {x}]
    BY DEF WriteRow
<1>2. ctx \in CtxType /\ World.bad = {} /\ World.bad = bad
    BY DEF Found, World
<1>3. [ctx EXCEPT !.unlog = @ \union {x}] \in CtxType
    BY <1>2 DEF CtxType
<1>4. ctx' \in CtxType
    BY <1>1, <1>3
<1>5. /\ Kept(ctx, ctx') /\ ctx'.unlog = ctx.unlog \union {x}
      /\ ctx'.info = ctx.info /\ ctx'.submitting = ctx.submitting /\ ctx'.submitted = ctx.submitted
      /\ ctx'.gts = ctx.gts /\ ctx'.ver = ctx.ver /\ ctx'.busy = ctx.busy
      /\ ctx'.prep = ctx.prep /\ ctx'.leaked = ctx.leaked
    BY <1>1, <1>2 DEF CtxType, Kept
<1>6. ModeInv' /\ OthersOK'
    BY <1>1 DEF Found, ModeInv, OthersOK, lsVars
<1>7. /\ Env'.role = Env.role /\ Env'.mode = Env.mode /\ Env'.synced = Env.synced
      /\ Env'.swl = Env.swl /\ Env'.written = Env.written \union {x}
    BY <1>1, EnvFields, EnvFieldsNext DEF lsVars
<1>8. CtxInv(log, ctx', ans, Env') /\ ActInv(log, ctx')
    <2>1. PICK d : d = ctx'
        OBVIOUS
    <2>2. PICK f : f = Env'
        OBVIOUS
    <2>3. ctx \in CtxType /\ CtxInv(log, ctx, ans, Env) /\ ActInv(log, ctx)
        BY DEF Found
    <2>4. ctx.lead /\ ~Committing(ctx) /\ ~ctx.force
        BY <1>1
    <2>5. /\ Kept(ctx, d) /\ d.unlog = ctx.unlog \union {x}
          /\ d.info = ctx.info /\ d.submitting = ctx.submitting /\ d.submitted = ctx.submitted
          /\ d.gts = ctx.gts /\ d.ver = ctx.ver /\ d.busy = ctx.busy
          /\ d.prep = ctx.prep /\ d.leaked = ctx.leaked
        BY <1>5, <2>1
    <2>6. /\ f.role = Env.role /\ f.mode = Env.mode /\ f.synced = Env.synced
          /\ f.swl = Env.swl /\ f.written = Env.written \union {x}
        BY <1>7, <2>2
    <2>7. CtxInv(log, d, ans, f) /\ ActInv(log, d)
        BY ONLY <2>3, <2>4, <2>5, <2>6, WriteKeeps
    <2> QED
        BY ONLY <2>1, <2>2, <2>7
<1>9. PICK v : v = [World EXCEPT !.ctx = ctx']
    OBVIOUS
<1>10. v \in WorldType /\ v.log = World.log /\ v.ctx = ctx' /\ v.ans = World.ans /\ v.bad = World.bad
    BY <1>4, <1>9, CtxUpdate DEF Found
<1>11. Become(v) /\ WInv(v, Env') /\ ActInv(v.log, v.ctx) /\ v.bad = {}
    BY <1>1, <1>2, <1>8, <1>10 DEF Found, Become, WInv
<1> QED
    BY <1>6, <1>11, StepTo

(* Steps of the scheduler, and time.                                       *)
LEMMA SchedulerInv ==
    ASSUME Found, SubmitCommitTx \/ RollbackTx \/ HandleTxCommitResult \/ Expire
    PROVE  IInv'
<1>1. /\ UNCHANGED <<log, lsVars, ctx, local, written, ans, bad>>
      /\ sched' \in {"ACTIVE", "IN_TERMINATE", "ABORTED", "TERMINATED"} /\ expired' \in BOOLEAN
    BY DEF SubmitCommitTx, RollbackTx, HandleTxCommitResult, Expire, Found, OthersOK
<1>2. Env' = Env /\ ModeInv' /\ OthersOK'
    BY <1>1 DEF Found, lsVars, Env, ModeInv, OthersOK
<1>3. bad = {}
    BY DEF Found, World
<1> QED
    BY <1>1, <1>2, <1>3, StepAround DEF Found

(* The scheduler's commit request.                                         *)
LEMMA CommitRequestInv ==
    ASSUME Found, CommitRequest
    PROVE  IInv'
<1>1. Env' = Env /\ ModeInv' /\ OthersOK'
    BY SameEnv DEF CommitRequest
<1>2. PICK o \in Outcomes : Become(Reply(Commit(World, o)))
    BY DEF CommitRequest
<1>3. PICK v : v = Reply(Commit(World, o))
    OBVIOUS
<1>4. WInv(v, Env) /\ ActInv(v.log, v.ctx) /\ v.bad = World.bad
    BY <1>3, CommitKeeps DEF Found
<1> QED
    BY <1>1, <1>2, <1>3, <1>4, StepTo DEF Found

(* The scheduler's abort request.                                          *)
LEMMA AbortRequestInv ==
    ASSUME Found, AbortRequest
    PROVE  IInv'
<1>1. Env' = Env /\ ModeInv' /\ OthersOK'
    BY SameEnv DEF AbortRequest
<1>2. PICK v : v = AbortSelf(World)
    OBVIOUS
<1>3. Become(v) /\ ~Committing(World.ctx)
    BY <1>2 DEF AbortRequest, Found
<1>4. WInv(v, Env) /\ ActInv(v.log, v.ctx) /\ v.bad = World.bad
    BY <1>2, <1>3, AbortSelfKeeps DEF Found
<1> QED
    BY <1>1, <1>3, <1>4, StepTo DEF Found

(* The timer.                                                              *)
LEMMA HandleTimeoutInv ==
    ASSUME Found, HandleTimeout
    PROVE  IInv'
<1>1. Env' = Env /\ ModeInv' /\ OthersOK'
    BY SameEnv DEF HandleTimeout
<1>2. PICK o \in Outcomes : Become(TimerWork(AnswerTimeout(World), o))
    BY DEF HandleTimeout
<1>3. PICK v : v = TimerWork(AnswerTimeout(World), o)
    OBVIOUS
<1>4. Going(World, Env)
    <2>1. ctx.lead /\ ~ctx.exit /\ ctx.state # "COMMIT"
        BY DEF HandleTimeout
    <2>2. Open(ctx)
        BY <2>1 DEF Found, CtxType, CtxInv, CoreInv, ForceInv, Open
    <2> QED
        BY <2>1, <2>2 DEF Found, Going
<1>5. WInv(v, Env) /\ ActInv(v.log, v.ctx) /\ v.bad = World.bad
    BY <1>3, <1>4, TimerKeeps DEF Found
<1> QED
    BY <1>1, <1>2, <1>3, <1>5, StepTo DEF Found

(* Redo is submitted before the commit.                                    *)
LEMMA SubmitRedoInv ==
    ASSUME Found, SubmitRedo
    PROVE  IInv'
<1>1. Env' = Env /\ ModeInv' /\ OthersOK'
    BY SameEnv DEF SubmitRedo
<1>2. PICK v : v = SubmitOut(World, {"redo"}, ctx.unlog)
    OBVIOUS
<1>3. Become(v) /\ v.ret = "OK" /\ ctx.unlog # {} /\ ctx.state = "INIT" /\ ~ctx.submitted
    BY <1>2 DEF SubmitRedo
<1>4. ctx.unlog \in SUBSET Write
    BY DEF Found, CtxType
<1>5. role = "leader" => Allowed(World.log, World.ctx, Env, {"redo"}, ctx.unlog)
    <2>1. ~Doomed(ctx, Env)
        BY <1>3 DEF Doomed
    <2> QED
        BY <1>3, <2>1 DEF Found, Allowed, IsStateLog
<1>6. /\ WInv(v, Env) /\ Moved(World, v)
      /\ v.ret = "OK" => Submits(World.log, World.ctx, v.log, v.ctx, {"redo"}, ctx.unlog)
    BY <1>2, <1>4, <1>5, SubmitOutKeeps DEF Found, Parts
<1>7. ActInv(v.log, v.ctx)
    BY <1>3, <1>6, OtherPartsAct DEF Found, WInv, WorldType
<1>8. v.bad = {}
    BY <1>6 DEF Found, Moved
<1> QED
    BY <1>1, <1>3, <1>6, <1>7, <1>8, StepTo

(* The callback of a log that is lost.                                     *)
LEMMA LogFailureInv ==
    ASSUME Found, LogFailure
    PROVE  IInv'
<1>1. Env' = Env /\ ModeInv' /\ OthersOK'
    BY SameEnv DEF LogFailure
<1>2. PICK v : v = OnFailure(World)
    OBVIOUS
<1>3. /\ Become(v) /\ role = "down" /\ World.ctx.busy # <<>>
      /\ Head(World.ctx.busy).pos > Len(World.log)
    BY <1>2 DEF LogFailure, Found
<1>4. WInv(v, Env) /\ ActInv(v.log, v.ctx) /\ v.bad = World.bad
    BY <1>2, <1>3, OnFailureKeeps DEF Found
<1> QED
    BY <1>1, <1>3, <1>4, StepTo DEF Found

(* The callback of a log that is agreed on.                                *)
LEMMA LogSuccessInv ==
    ASSUME Found, LogSuccess
    PROVE  IInv'
<1>0. /\ ctx.busy \in Seq(CbType) /\ ctx.busy # <<>> /\ Head(ctx.busy).pos <= Len(log)
      /\ Len(log) \in Nat /\ synced \in Nat
    BY DEF Found, CtxType, LogSuccess, OthersOK
<1>1. Head(ctx.busy) = ctx.busy[1] /\ ctx.busy[1] \in CbType
    BY <1>0
<1>2. ctx.busy[1].pos \in Nat
    BY <1>1 DEF CbType
<1>3. synced' = IF ctx.busy[1].pos > synced THEN ctx.busy[1].pos ELSE synced
    BY <1>1 DEF LogSuccess
<1>4. synced <= Len(log)
    BY DEF Found, CtxInv, CoreInv
<1>5. synced' \in Nat /\ synced <= synced' /\ synced' <= Len(log) /\ ctx.busy[1].pos <= synced'
    BY <1>0, <1>1, <1>2, <1>3, <1>4
<1>6. UNCHANGED <<role, swl, applying, swls, mode, txVars>>
    BY DEF LogSuccess
<1>7. ModeInv' /\ OthersOK'
    BY <1>5, <1>6 DEF Found, ModeInv, OthersOK, txVars
<1>8. Env' \in EnvType
    BY <1>7, EnvIsTypedNext
<1>9. Later(log, Env, Env') /\ FirstAgreed(log, ctx, Env') /\ Env'.role = role
    BY <1>5, <1>6, EnvFields, EnvFieldsNext DEF Later, FirstAgreed, txVars
<1>10. PICK o : Become(OnSuccess(World, o))
    BY DEF LogSuccess
<1>11. PICK v : v = OnSuccess(World, o)
    OBVIOUS
<1>12. PICK f : f = Env'
    OBVIOUS
<1>13. WInv(v, f) /\ ActInv(v.log, v.ctx) /\ v.bad = {}
    <2>1. /\ Env \in EnvType /\ WInv(World, Env) /\ ActInv(World.log, World.ctx) /\ World.bad = {}
          /\ World.log = log /\ World.ctx = ctx
        BY DEF Found
    <2>2. /\ f \in EnvType /\ Later(World.log, Env, f) /\ FirstAgreed(World.log, World.ctx, f) /\ f.role = role
          /\ World.ctx.busy # <<>>
        BY <1>0, <1>8, <1>9, <1>12, <2>1
    <2>3. PICK w : w = World
        OBVIOUS
    <2>4. PICK e : e = Env
        OBVIOUS
    <2>5. /\ e \in EnvType /\ f \in EnvType /\ WInv(w, e) /\ Later(w.log, e, f) /\ f.role = role
          /\ ActInv(w.log, w.ctx) /\ w.ctx.busy # <<>> /\ FirstAgreed(w.log, w.ctx, f) /\ w.bad = {}
          /\ v = OnSuccess(w, o)
        BY ONLY <1>11, <2>1, <2>2, <2>3, <2>4
    <2> QED
        BY ONLY <2>5, OnSuccessKeeps
<1> QED
    BY <1>7, <1>10, <1>11, <1>12, <1>13, StepTo

(* The callback of GTS, which goes on with the commit log.                 *)
LEMMA GetGtsInv ==
    ASSUME Found, GetGtsCallback
    PROVE  IInv'
<1>1. Env' = Env /\ ModeInv' /\ OthersOK'
    BY SameEnv DEF GetGtsCallback
<1>2. PICK off : off = [World EXCEPT !.ctx.gts = "no"]
    OBVIOUS
<1>3. PICK on : on = [off EXCEPT !.ctx.ver = TRUE, !.ctx.prep = TRUE]
    OBVIOUS
<1>4. PICK o \in Outcomes : Become(IF ctx.exit \/ ~ctx.lead THEN off
                                   ELSE IF ctx.action # "COMMIT" \/ ctx.submitted THEN on
                                   ELSE SubmitCommit(on, o))
    BY <1>2, <1>3 DEF GetGtsCallback
<1>5. World \in WorldType /\ World.ctx = ctx /\ ctx \in CtxType
    BY DEF Found
<1>6. /\ off \in WorldType /\ off.log = log /\ off.ans = ans /\ off.bad = {}
      /\ Alike(ctx, off.ctx) /\ off.ctx.action = ctx.action /\ off.ctx \in CtxType /\ off.ctx.gts = "no"
    <2>1. PICK d : d = [ctx EXCEPT !.gts = "no"]
        OBVIOUS
    <2>2. [ctx EXCEPT !.gts = "no"] \in CtxType
        BY <1>5 DEF CtxType
    <2>3. d \in CtxType
        BY <2>1, <2>2
    <2>4. Alike(ctx, d) /\ d.action = ctx.action /\ d.gts = "no"
        BY <1>5, <2>1 DEF CtxType, Alike, VersionInv
    <2>5. off = [World EXCEPT !.ctx = d]
        BY <1>2, <1>5, <2>1 DEF WorldType, CtxType
    <2>6. off \in WorldType /\ off.log = World.log /\ off.ctx = d /\ off.ans = World.ans /\ off.bad = World.bad
        BY ONLY <1>5, <2>3, <2>5, CtxUpdate
    <2> QED
        BY <2>3, <2>4, <2>6 DEF Found
<1>7. /\ on \in WorldType /\ on.log = log /\ on.ans = ans /\ on.bad = {}
      /\ Alike(off.ctx, on.ctx) /\ on.ctx.action = ctx.action
    <2>1. PICK d : d = [off.ctx EXCEPT !.ver = TRUE, !.prep = TRUE]
        OBVIOUS
    <2>2. [off.ctx EXCEPT !.ver = TRUE, !.prep = TRUE] \in CtxType
        BY <1>6 DEF CtxType
    <2>3. d \in CtxType
        BY <2>1, <2>2
    <2>4. Alike(off.ctx, d) /\ d.action = off.ctx.action
        BY <1>6, <2>1 DEF CtxType, Alike, VersionInv
    <2>5. on = [off EXCEPT !.ctx = d]
        BY <1>3, <1>6, <2>1 DEF WorldType, CtxType
    <2>6. on \in WorldType /\ on.log = off.log /\ on.ctx = d /\ on.ans = off.ans /\ on.bad = off.bad
        BY ONLY <1>6, <2>3, <2>5, CtxUpdate
    <2> QED
        BY <1>6, <2>3, <2>4, <2>6
<1>8. WInv(off, Env) /\ ActInv(off.log, off.ctx)
    <2>1. CtxInv(log, off.ctx, ans, Env)
        BY <1>6, AlikeKeeps DEF Found
    <2> QED
        BY <1>6, <2>1 DEF Found, WInv, ActInv, Alike
<1>9. WInv(on, Env) /\ ActInv(on.log, on.ctx)
    <2>1. CtxInv(log, on.ctx, ans, Env)
        BY <1>6, <1>7, <1>8, AlikeKeeps DEF WInv
    <2> QED
        BY <1>6, <1>7, <1>8, <2>1 DEF WInv, ActInv, Alike
<1>10. CASE ctx.exit \/ ~ctx.lead
    <2>1. Become(off)
        BY <1>4, <1>10
    <2> QED
        BY <1>1, <1>6, <1>8, <2>1, StepTo
<1>11. CASE ~(ctx.exit \/ ~ctx.lead) /\ (ctx.action # "COMMIT" \/ ctx.submitted)
    <2>1. Become(on)
        BY <1>4, <1>11
    <2> QED
        BY <1>1, <1>7, <1>9, <2>1, StepTo
<1>12. CASE ~(ctx.exit \/ ~ctx.lead) /\ ~(ctx.action # "COMMIT" \/ ctx.submitted)
    <2>1. PICK v : v = SubmitCommit(on, o)
        OBVIOUS
    <2>2. Become(v)
        BY <1>4, <1>12, <2>1
    <2>3. on.ctx.lead /\ Open(on.ctx) /\ on.ctx.action = "COMMIT"
        <3>1. Open(ctx)
            BY <1>12 DEF Found, CtxType, CtxInv, CoreInv, CommitInv, ForceInv, Open
        <3> QED
            BY <1>6, <1>7, <1>12, <3>1 DEF Alike, Open
    <2>4. WInv(v, Env) /\ Moved(on, v)
        BY <1>9, <2>1, <2>3, SubmitCommitKeeps DEF Found
    <2>5. ActInv(v.log, v.ctx) /\ v.bad = {}
        BY <1>7, <2>3, <2>4 DEF ActInv, Moved, Kept
    <2> QED
        BY <1>1, <2>2, <2>4, <2>5, StepTo
<1> QED
    BY <1>10, <1>11, <1>12

(* The transaction ends once GTS has passed its commit version.            *)
LEMMA GtsElapseInv ==
    ASSUME Found, GtsElapseCallback
    PROVE  IInv'
<1>1. Env' = Env /\ ModeInv' /\ OthersOK'
    BY SameEnv DEF GtsElapseCallback
<1>2. PICK u : u = [World EXCEPT !.ctx.gts = "no"]
    OBVIOUS
<1>3. PICK v : v = AfterLocalCommitSucc(u)
    OBVIOUS
<1>4. Become(v) /\ ctx.gts = "elapse"
    BY <1>2, <1>3 DEF GtsElapseCallback
<1>5. World \in WorldType /\ World.ctx = ctx /\ ctx \in CtxType
    BY DEF Found
<1>6. /\ u \in WorldType /\ u.log = log /\ u.ans = ans /\ u.bad = {}
      /\ Alike(ctx, u.ctx) /\ u.ctx.action = ctx.action /\ u.ctx.gts = "no"
    <2>1. PICK d : d = [ctx EXCEPT !.gts = "no"]
        OBVIOUS
    <2>2. [ctx EXCEPT !.gts = "no"] \in CtxType
        BY <1>5 DEF CtxType
    <2>3. d \in CtxType
        BY <2>1, <2>2
    <2>4. Alike(ctx, d) /\ d.action = ctx.action /\ d.gts = "no"
        BY <1>5, <2>1 DEF CtxType, Alike, VersionInv
    <2>5. u = [World EXCEPT !.ctx = d]
        BY <1>2, <1>5, <2>1 DEF WorldType, CtxType
    <2>6. u \in WorldType /\ u.log = World.log /\ u.ctx = d /\ u.ans = World.ans /\ u.bad = World.bad
        BY ONLY <1>5, <2>3, <2>5, CtxUpdate
    <2> QED
        BY <2>3, <2>4, <2>6 DEF Found
<1>7. CtxInv(log, u.ctx, ans, Env) /\ u.ctx.state = "COMMIT"
    <2>1. ctx.state = "COMMIT"
        BY <1>4 DEF Found, CtxInv, CoreInv, ForceInv
    <2> QED
        BY <1>6, <2>1, AlikeKeeps DEF Found, Alike
<1>8. /\ v \in WorldType /\ v.log = u.log /\ v.bad = u.bad /\ v.ctx.exit
      /\ v.ans = u.ans \union {"SUCCESS"}
      /\ v.ctx.state = u.ctx.state /\ v.ctx.up = u.ctx.up /\ v.ctx.action = u.ctx.action
      /\ v.ctx.lead = u.ctx.lead /\ v.ctx.info = u.ctx.info
      /\ v.ctx.submitting = u.ctx.submitting /\ v.ctx.submitted = u.ctx.submitted
      /\ v.ctx.force = u.ctx.force /\ v.ctx.gts = u.ctx.gts /\ v.ctx.ver = u.ctx.ver
      /\ v.ctx.complete = u.ctx.complete /\ v.ctx.swl = u.ctx.swl
      /\ v.ctx.persisted = u.ctx.persisted /\ v.ctx.unlog = u.ctx.unlog /\ v.ctx.busy = u.ctx.busy
      /\ v.ctx.prep = u.ctx.prep /\ v.ctx.leaked = u.ctx.leaked
    BY ONLY <1>3, <1>6, CommitSuccFields
<1>9. CtxInv(log, v.ctx, ans, Env)
    <2> DEFINE c == u.ctx
               d == v.ctx
    <2>0. CtxInv(log, c, ans, Env)
        BY <1>7
    <2>1. BusyInv(log, d, Env) /\ CommitInv(log, d, Env)
        BY <1>8, <2>0 DEF CtxInv, CoreInv, BusyInv, CommitInv
    <2>2. ForceInv(log, d) /\ SubmitInv(d, Env) /\ PersistInv(d) /\ PhaseInv(d, Env)
        BY <1>7, <1>8, <2>0 DEF CtxInv, CoreInv, ForceInv, SubmitInv, PersistInv, PhaseInv
    <2>3. DataInv(log, d, Env) /\ AnsInv(log, d, ans, Env)
        BY <1>8, <2>0 DEF CtxInv, CoreInv, DataInv, AnsInv, Lost, Doomed
    <2>4. ActiveInv(log, d, Env) /\ VersionInv(d)
        BY <1>8, <2>0 DEF CtxInv, CoreInv, ActiveInv, Sets, VersionInv
    <2> QED
        BY <2>0, <2>1, <2>2, <2>3, <2>4 DEF CtxInv, CoreInv
<1>10. CtxInv(v.log, v.ctx, v.ans, Env)
    BY <1>6, <1>7, <1>8, <1>9, AnswerKeeps
<1>11. ActInv(v.log, v.ctx) /\ v.bad = {}
    BY <1>6, <1>8 DEF Found, ActInv, Alike
<1> QED
    BY <1>1, <1>4, <1>8, <1>10, <1>11, StepTo DEF WInv

(* Role changes of the log stream that leave the context alone.            *)
LEMMA RoleStepInv ==
    ASSUME Found, UNCHANGED <<log, ctx, ans, bad>>, ModeInv', OthersOK', RoleStep(ctx, Env, Env'),
           PhaseInv(ctx, Env'), role' \notin Broken => DataOk(log, ctx, Env'),
           Doomed(ctx, Env) => ctx.force \/ Doomed(ctx, Env')
    PROVE  IInv'
<1>1. PICK f : f = Env'
    OBVIOUS
<1>2. /\ RoleStep(ctx, Env, f) /\ PhaseInv(ctx, f) /\ (f.role \notin Broken => DataOk(log, ctx, f))
      /\ Doomed(ctx, Env) => ctx.force \/ Doomed(ctx, f)
    BY <1>1, EnvFieldsNext
<1>3. ctx \in CtxType /\ CtxInv(log, ctx, ans, Env)
    BY DEF Found
<1>4. CtxInv(log, ctx, ans, f)
    BY ONLY <1>2, <1>3, RoleStepKeeps
<1>5. bad = {}
    BY DEF Found, World
<1> QED
    BY <1>1, <1>4, <1>5, StepAround

(* The apply service becomes a follower.                                   *)
LEMMA ApplyToFollowerInv ==
    ASSUME Found, ApplyToFollower
    PROVE  IInv'
<1>1. /\ role = "revoked" /\ role' = "down"
      /\ UNCHANGED <<log, synced, swl, applying, swls, mode, ctx, txVars, ans, bad>>
    BY DEF ApplyToFollower
<1>2. ModeInv' /\ OthersOK'
    BY <1>1 DEF Found, ModeInv, OthersOK, Broken, Roles, txVars
<1>3. /\ Env'.mode = Env.mode /\ Env'.synced = Env.synced /\ Env'.swl = Env.swl /\ Env'.written = Env.written
      /\ Env'.role = "down"
    BY <1>1, EnvFields, EnvFieldsNext DEF txVars
<1>4. RoleStep(ctx, Env, Env')
    BY <1>3 DEF RoleStep, Broken
<1>5. PhaseInv(ctx, Env')
    BY <1>3 DEF Found, CtxInv, CoreInv, PhaseInv
<1>6. Doomed(ctx, Env) => Doomed(ctx, Env')
    BY <1>3 DEF Doomed
<1> QED
    BY <1>1, <1>2, <1>4, <1>5, <1>6, RoleStepInv DEF Broken

(* The leadership is handed over.                                          *)
LEMMA FinishGracefulInv ==
    ASSUME Found, FinishGraceful
    PROVE  IInv'
<1>1. /\ role = "graceful" /\ role' = "follower" /\ ctx.busy = <<>>
      /\ UNCHANGED <<log, synced, swl, applying, swls, mode, ctx, txVars, ans, bad>>
    BY DEF FinishGraceful
<1>2. ModeInv' /\ OthersOK' /\ mode = "F_WORKING"
    BY <1>1 DEF Found, ModeInv, OthersOK, FModes, FailedModes, Broken, Roles, txVars
<1>3. /\ Env'.mode = Env.mode /\ Env'.synced = Env.synced /\ Env'.swl = Env.swl /\ Env'.written = Env.written
      /\ Env'.role = "follower" /\ Env.mode = "F_WORKING" /\ Env.role = "graceful"
    BY <1>1, <1>2, EnvFields, EnvFieldsNext DEF txVars
<1>4. RoleStep(ctx, Env, Env')
    BY <1>1, <1>3 DEF RoleStep, Broken
<1>5. PhaseInv(ctx, Env) /\ CoreInv(log, ctx, ans, Env)
    BY DEF Found, CtxInv, CoreInv
<1>6. PhaseInv(ctx, Env')
    BY <1>3, <1>5 DEF PhaseInv
<1>7. DataOk(log, ctx, Env')
    <2>1. ~ctx.lead \/ ctx.exit \/ ctx.force
        BY <1>3, <1>5 DEF PhaseInv, FModes
    <2>2. Env'.mode \in TModes \union FModes /\ Env'.role # "graceful"
        BY <1>3 DEF FModes
    <2> QED
        BY <1>1, <1>3, <1>5, <2>1, <2>2, FollowerData DEF Found
<1>8. ~Doomed(ctx, Env)
    BY <1>3 DEF Doomed
<1> QED
    BY <1>1, <1>2, <1>4, <1>6, <1>7, <1>8, RoleStepInv

(* The start working log is lost.                                          *)
LEMMA SwlFailureInv ==
    ASSUME Found, SwlFailure
    PROVE  IInv'
<1>1. /\ role = "down" /\ swl > Len(log) /\ swl' = 0
      /\ mode' = IF mode = "T_SYNC_PENDING" THEN "T_SYNC_FAILED" ELSE "R_SYNC_FAILED"
      /\ UNCHANGED <<log, synced, role, applying, swls, ctx, txVars, ans, bad>>
    BY DEF SwlFailure
<1>2. mode' \in FailedModes
    BY <1>1 DEF FailedModes
<1>3. ModeInv' /\ OthersOK'
    BY <1>1 DEF Found, ModeInv, OthersOK, FailedModes, Modes, Broken, txVars
<1>4. /\ Env'.mode \in FailedModes /\ Env'.synced = Env.synced /\ Env'.swl = 0 /\ Env'.written = Env.written
      /\ Env'.role = "down"
    BY <1>1, <1>2, EnvFields, EnvFieldsNext DEF txVars
<1>5. RoleStep(ctx, Env, Env')
    BY <1>4 DEF RoleStep, Broken
<1>6. PhaseInv(ctx, Env')
    BY <1>4 DEF PhaseInv, FailedModes, TModes, FModes
<1>7. Doomed(ctx, Env) => Doomed(ctx, Env')
    BY <1>4 DEF Doomed
<1> QED
    BY <1>1, <1>3, <1>5, <1>6, <1>7, RoleStepInv DEF Broken

(* A world with another log.                                               *)
LEMMA LogUpdate ==
    ASSUME NEW w \in WorldType, NEW m \in Seq(EntryType), NEW v, v = [w EXCEPT !.log = m]
    PROVE  /\ v \in WorldType /\ v.log = m /\ v.ctx = w.ctx /\ v.ans = w.ans
           /\ v.bad = w.bad /\ v.ret = w.ret
<1>1. v.log = m /\ v.ctx = w.ctx /\ v.ans = w.ans /\ v.bad = w.bad /\ v.ret = w.ret
    BY DEF WorldType
<1>2. v \in WorldType
    BY DEF WorldType
<1> QED
    BY <1>1, <1>2

(* PALF loses the leadership.                                              *)
LEMMA RevokeInv ==
    ASSUME Found, Revoke
    PROVE  IInv'
<1>1. /\ role \in {"leader", "graceful"} /\ role' = "revoked"
      /\ UNCHANGED <<synced, swl, applying, swls, mode, ctx, txVars, ans, bad>>
    BY DEF Revoke
<1>2. PICK k \in synced .. Len(log) : log' = SubSeq(log, 1, k)
    BY DEF Revoke
<1>3. log \in Seq(EntryType) /\ Len(log) \in Nat /\ synced \in Nat
    BY DEF Found, OthersOK
<1>4. k \in Nat /\ synced <= k /\ k <= Len(log)
    BY <1>2, <1>3
<1>5. PICK m : m = SubSeq(log, 1, k)
    OBVIOUS
<1>6. m \in Seq(EntryType) /\ Len(m) = k /\ \A i \in 1 .. k : m[i] = log[i]
    BY <1>3, <1>4, <1>5
<1>7. ModeInv' /\ OthersOK'
    BY <1>1 DEF Found, ModeInv, OthersOK, Broken, Roles, FModes, FailedModes, TModes, txVars
<1>8. PICK f : f = Env'
    OBVIOUS
<1>9. /\ f.role = "revoked" /\ f.mode = Env.mode /\ f.synced = Env.synced /\ f.written = Env.written
      /\ f.swl = Env.swl /\ Env.synced = synced /\ Env.role = role
    BY <1>1, <1>8, EnvFields, EnvFieldsNext DEF txVars
<1>10. CtxInv(m, ctx, ans, f) /\ ActInv(m, ctx)
    <2>1. ctx \in CtxType /\ Env \in EnvType /\ CtxInv(log, ctx, ans, Env) /\ ActInv(log, ctx)
        BY DEF Found
    <2>2. Env.role \in {"leader", "graceful"} /\ Env.synced <= k
        BY <1>1, <1>4, <1>9
    <2> QED
        BY ONLY <1>3, <1>4, <1>6, <1>9, <2>1, <2>2, RevokeKeeps
<1>11. PICK v : v = [World EXCEPT !.log = m]
    OBVIOUS
<1>12. v \in WorldType /\ v.log = m /\ v.ctx = ctx /\ v.ans = ans /\ v.bad = bad /\ bad = {}
    BY <1>6, <1>11, LogUpdate DEF Found, World
<1>13. Become(v)
    BY <1>1, <1>2, <1>5, <1>12 DEF Become
<1> QED
    BY <1>7, <1>8, <1>10, <1>12, <1>13, StepTo DEF WInv

(* What a context has of its data does not depend on the change.           *)
DataGoes(c, e, f) == \A m : DataOk(m, c, e) => DataOk(m, c, f)

(* A start working log is appended.                                        *)
SwlSent(w, v) ==
    /\ v \in WorldType /\ v.log = Append(w.log, SwlEntry)
    /\ v.ctx = w.ctx /\ v.ans = w.ans /\ v.bad = w.bad

(* A world in which it is.                                                 *)
LEMMA SwlFields ==
    ASSUME NEW w \in WorldType, NEW v, v = [w EXCEPT !.log = Append(@, SwlEntry)]
    PROVE  SwlSent(w, v)
<1>0. w.log \in Seq(EntryType)
    BY DEF WorldType
<1>1. PICK m : m = Append(w.log, SwlEntry)
    OBVIOUS
<1>2. SwlEntry \in EntryType
    BY DEF SwlEntry, EntryType, Parts
<1>3. m \in Seq(EntryType)
    BY <1>0, <1>1, <1>2
<1>4. v = [w EXCEPT !.log = m]
    BY <1>1 DEF WorldType
<1>5. v \in WorldType /\ v.log = m /\ v.ctx = w.ctx /\ v.ans = w.ans /\ v.bad = w.bad
    BY ONLY w \in WorldType, <1>3, <1>4, LogUpdate
<1> QED
    BY ONLY <1>1, <1>5 DEF SwlSent

(* A start working log is submitted in the world w, and the log stream     *)
(* goes from e to f.                                                       *)
LEMMA SubmitSwlKeeps ==
    ASSUME NEW w, NEW e \in EnvType, NEW f, WInv(w, e), ActInv(w.log, w.ctx), e.role \notin Broken,
           RoleStep(w.ctx, e, f), DataGoes(w.ctx, e, f),
           f.swl = Len(w.log) + 1, f.mode \notin TModes \union FModes,
           Doomed(w.ctx, e) => w.ctx.force \/ Doomed(w.ctx, f),
           NEW v, SwlSent(w, v)
    PROVE  WInv(v, f) /\ ActInv(v.log, v.ctx) /\ v.bad = w.bad
<1>0. /\ w \in WorldType /\ w.ctx \in CtxType /\ w.log \in Seq(EntryType) /\ CtxInv(w.log, w.ctx, w.ans, e)
      /\ Len(w.log) \in Nat
    BY DEF WInv, WorldType
<1>1. PICK m : m = Append(w.log, SwlEntry)
    OBVIOUS
<1>2. SwlEntry \in EntryType
    BY DEF SwlEntry, EntryType, Parts
<1>3. m \in Seq(EntryType) /\ Added(w.log, m, SwlEntry)
    BY <1>0, <1>1, <1>2, AppendAdds
<1>4. CtxInv(m, w.ctx, w.ans, e) /\ ActInv(m, w.ctx)
    BY <1>0, <1>3, SwlAdded
<1>6. v \in WorldType /\ v.log = m /\ v.ctx = w.ctx /\ v.ans = w.ans /\ v.bad = w.bad
    BY <1>1 DEF SwlSent
<1>7. PhaseInv(w.ctx, f)
    <2>1. ASSUME NEW k \in 1 .. Len(w.ctx.busy) PROVE w.ctx.busy[k].pos < f.swl
        <3>1. w.ctx.busy[k] \in CbType
            BY <1>0 DEF CtxType
        <3>2. w.ctx.busy[k].pos \in Nat /\ w.ctx.busy[k].pos <= Len(w.log)
            BY <1>0, <3>1 DEF CbType, CtxInv, CoreInv, BusyInv
        <3> QED
            BY <1>0, <3>2
    <2> QED
        BY <2>1 DEF PhaseInv
<1>8. DataOk(m, w.ctx, f)
    <2>1. DataOk(m, w.ctx, e)
        BY <1>4 DEF CtxInv, CoreInv, DataInv, DataOk
    <2> QED
        BY <2>1 DEF DataGoes
<1>9. CtxInv(m, w.ctx, w.ans, f)
    BY <1>0, <1>4, <1>7, <1>8, RoleStepKeeps
<1> QED
    BY <1>4, <1>6, <1>9 DEF WInv

(* The hand-over took too long.                                            *)
LEMMA ResumeToLeaderInv ==
    ASSUME Found, ResumeToLeader
    PROVE  IInv'
<1>1. /\ role = "graceful" /\ role' = "leader" /\ mode' = "R_SYNC_PENDING" /\ SubmitSwl(World)
      /\ UNCHANGED <<synced, applying, txVars>>
    BY DEF ResumeToLeader
<1>2. PICK v : v = [World EXCEPT !.log = Append(@, SwlEntry)]
    OBVIOUS
<1>3. Become(v) /\ swl' = Len(World.log) + 1 /\ swls' = swls + 1 /\ Len(World.log) \in Nat
    BY <1>1, <1>2 DEF SubmitSwl, Found
<1>4. ModeInv' /\ OthersOK'
    BY <1>1, <1>3 DEF Found, ModeInv, OthersOK, Modes, Roles, FModes, FailedModes, Broken, TModes, txVars
<1>5. PICK f : f = Env'
    OBVIOUS
<1>6. /\ f.role = "leader" /\ f.mode = "R_SYNC_PENDING" /\ f.synced = Env.synced /\ f.written = Env.written
      /\ f.swl = Len(World.log) + 1 /\ Env.role = "graceful"
    BY <1>1, <1>3, <1>5, EnvFields, EnvFieldsNext DEF txVars
<1>7. RoleStep(World.ctx, Env, f) /\ Env.role \notin Broken
    BY <1>6 DEF RoleStep, Broken
<1>8. DataGoes(World.ctx, Env, f)
    BY <1>6 DEF DataGoes, DataOk, Lost
<1>9. ~Doomed(World.ctx, Env) /\ f.mode \notin TModes \union FModes
    BY <1>6 DEF Doomed, TModes, FModes
<1>10. WInv(v, f) /\ ActInv(v.log, v.ctx) /\ v.bad = World.bad
    <2>1. Env \in EnvType /\ WInv(World, Env) /\ ActInv(World.log, World.ctx) /\ SwlSent(World, v)
        BY <1>2, SwlFields DEF Found
    <2> QED
        BY ONLY <1>6, <1>7, <1>8, <1>9, <2>1, SubmitSwlKeeps
<1> QED
    BY <1>3, <1>4, <1>5, <1>10, StepTo DEF Found

(* The replica is elected again.                                           *)
LEMMA ElectInv ==
    ASSUME Found, Elect
    PROVE  IInv'
<1>1. /\ role = "follower" /\ mode \in FModes /\ role' = "leader" /\ mode' = "T_SYNC_PENDING"
      /\ SubmitSwl(World) /\ UNCHANGED <<synced, applying, txVars>>
    BY DEF Elect, FModes
<1>2. PICK v : v = [World EXCEPT !.log = Append(@, SwlEntry)]
    OBVIOUS
<1>3. Become(v) /\ swl' = Len(World.log) + 1 /\ swls' = swls + 1 /\ Len(World.log) \in Nat
    BY <1>1, <1>2 DEF SubmitSwl, Found
<1>4. ModeInv' /\ OthersOK'
    BY <1>1, <1>3 DEF Found, ModeInv, OthersOK, Modes, Roles, FModes, FailedModes, Broken, TModes, txVars
<1>5. PICK f : f = Env'
    OBVIOUS
<1>6. /\ f.role = "leader" /\ f.mode = "T_SYNC_PENDING" /\ f.synced = Env.synced /\ f.written = Env.written
      /\ Env.role = "follower" /\ Env.mode \in FModes
    BY <1>1, <1>3, <1>5, EnvFields, EnvFieldsNext DEF txVars
<1>7. SwlSent(World, v)
    BY <1>2, SwlFields DEF Found
<1>8. PICK m : m = v.log
    OBVIOUS
<1>9. /\ v \in WorldType /\ m \in Seq(EntryType) /\ v.ctx = ctx /\ v.ans = ans /\ v.bad = {}
      /\ Added(log, m, SwlEntry)
    <2>1. SwlEntry \in EntryType
        BY DEF SwlEntry, EntryType, Parts
    <2>2. log \in Seq(EntryType) /\ m = Append(log, SwlEntry)
        BY <1>7, <1>8 DEF Found, SwlSent
    <2>3. m \in Seq(EntryType) /\ Added(log, m, SwlEntry)
        BY <2>1, <2>2, AppendAdds
    <2> QED
        BY <1>7, <2>3 DEF SwlSent, Found
<1>10. CtxInv(m, ctx, ans, Env) /\ ActInv(m, ctx)
    <2>1. Env.role \notin Broken
        BY <1>6 DEF Broken
    <2> QED
        BY <1>9, <2>1, SwlAdded DEF Found
<1>11. /\ CoreInv(m, ctx, ans, Env) /\ PersistInv(ctx) /\ PhaseInv(ctx, Env) /\ ctx.busy = <<>>
       /\ Len(ctx.busy) = 0
    <2>1. CoreInv(m, ctx, ans, Env) /\ PersistInv(ctx) /\ PhaseInv(ctx, Env) /\ ctx.busy = <<>>
        BY <1>6, <1>10 DEF CtxInv, CoreInv, BusyInv
    <2> QED
        BY <2>1
<1>12. ~ctx.lead \/ ctx.exit \/ ctx.force
    BY <1>6, <1>11 DEF PhaseInv
<1>13. PhaseInv(ctx, f)
    <2>1. ctx.persisted \/ ctx.exit
        BY <1>11, <1>12 DEF PersistInv
    <2>2. ~Has(ctx.busy, "active") /\ ~Has(ctx.busy, "info") /\ ~Has(ctx.busy, "commit")
        BY <1>11 DEF Has
    <2> QED
        BY <1>11, <1>12, <2>1, <2>2 DEF PhaseInv
<1>14. DataOk(m, ctx, f)
    <2>1. f.mode \in TModes \union FModes /\ f.role # "graceful" /\ f.written = Env.written
        BY <1>6 DEF TModes
    <2> QED
        BY <1>9, <1>11, <1>12, <2>1, FollowerData DEF Found
<1>15. RoleStep(ctx, Env, f)
    BY <1>6, <1>11 DEF RoleStep
<1>16. Doomed(ctx, Env) => Doomed(ctx, f)
    BY <1>6 DEF Doomed, TModes
<1>17. CtxInv(m, ctx, ans, f)
    BY <1>10, <1>13, <1>14, <1>15, <1>16, RoleStepKeeps DEF Found
<1>18. WInv(v, f) /\ ActInv(v.log, v.ctx)
    BY <1>8, <1>9, <1>10, <1>17 DEF WInv
<1> QED
    BY <1>3, <1>4, <1>5, <1>9, <1>18, StepTo

(* The log stream becomes a follower.                                      *)
LEMMA SwitchForcedlyInv ==
    ASSUME Found, SwitchForcedly
    PROVE  IInv'
<1>1. /\ role = "down" /\ ctx.busy = <<>> /\ swl = 0 /\ role' = "follower"
      /\ UNCHANGED <<synced, swl, applying, swls, txVars>>
    BY DEF SwitchForcedly
<1>2. /\ Env'.synced = Env.synced /\ Env'.swl = 0 /\ Env'.written = Env.written
      /\ Env'.role = "follower" /\ Env.role = "down" /\ Env.swl = 0 /\ Env.mode = mode /\ Env'.mode = mode'
    BY <1>1, EnvFields, EnvFieldsNext DEF txVars
<1>3. CASE mode \in FModes /\ UNCHANGED <<mode, log, ctx, ans, bad>>
    <2>1. ModeInv' /\ OthersOK'
        BY <1>1, <1>3 DEF Found, ModeInv, OthersOK, Roles, FModes, FailedModes, Broken, txVars
    <2>2. PhaseInv(ctx, Env) /\ CoreInv(log, ctx, ans, Env)
        BY DEF Found, CtxInv, CoreInv
    <2>3. PhaseInv(ctx, Env') /\ Env'.mode \in FModes
        BY <1>2, <1>3, <2>2 DEF PhaseInv
    <2>4. DataOk(log, ctx, Env')
        <3>1. ~ctx.lead \/ ctx.exit \/ ctx.force
            BY <1>2, <1>3, <2>2 DEF PhaseInv
        <3>2. Env'.role # "graceful"
            BY <1>2
        <3> QED
            BY <1>1, <1>2, <2>2, <2>3, <3>1, <3>2, FollowerData DEF Found
    <2>5. RoleStep(ctx, Env, Env')
        BY <1>1, <1>2 DEF RoleStep
    <2>6. Doomed(ctx, Env) => Doomed(ctx, Env')
        BY <1>2, <2>3 DEF Doomed
    <2> QED
        BY <1>3, <2>1, <2>3, <2>4, <2>5, <2>6, RoleStepInv
<1>4. CASE /\ mode \in {"L_WORKING"} \union TModes \union FailedModes /\ mode' \in FModes
           /\ Become(SwitchToFollowerForcedly(World))
    <2>1. ModeInv' /\ OthersOK'
        BY <1>1, <1>4 DEF Found, ModeInv, OthersOK, Roles, Modes, FModes, FailedModes, Broken, txVars
    <2>2. PICK f : f = Env'
        OBVIOUS
    <2>3. f \in EnvType
        BY <2>1, <2>2, EnvIsTypedNext
    <2>4. SteppedDown(Env, f)
        BY <1>2, <1>4, <2>2 DEF SteppedDown
    <2>5. PICK v : v = SwitchToFollowerForcedly(World)
        OBVIOUS
    <2>6. /\ Env \in EnvType /\ WInv(World, Env) /\ Env.role = role /\ ActInv(World.log, World.ctx)
          /\ World.ctx.busy = <<>> /\ Env.mode \in {"L_WORKING"} \union TModes \union FailedModes
        BY <1>1, <1>2, <1>4 DEF Found
    <2>7. WInv(v, f) /\ ActInv(v.log, v.ctx) /\ v.bad = World.bad
        BY ONLY <2>3, <2>4, <2>5, <2>6, ForcedlyKeeps
    <2> QED
        BY <1>4, <2>1, <2>2, <2>5, <2>7, StepTo DEF Found
<1>5. mode # "R_APPLY_PENDING"
    BY DEF Found, ModeInv
<1> QED
    BY <1>3, <1>4, <1>5 DEF SwitchForcedly, FModes, TModes, FailedModes

(* The log stream hands over, or goes on leading.                          *)
LEMMA SwitchGracefullyInv ==
    ASSUME Found, SwitchGracefully
    PROVE  IInv'
<1>1. /\ role \in {"leader", "revoked"} /\ mode \in {"L_WORKING"} \union FailedModes
      /\ UNCHANGED <<synced, applying, txVars>>
    BY DEF SwitchGracefully, FailedModes
<1>2. PICK t : t = SwitchToFollowerGracefully(World)
    OBVIOUS
<1>3. PICK w \in {World, t}, other \in BOOLEAN :
         /\ w = World => other \/ w = t
         /\ \/ /\ w.ret = "OK" /\ ~other
               /\ mode' = "F_WORKING" /\ Become(w)
               /\ role' = IF role = "leader" THEN "graceful" ELSE role
               /\ UNCHANGED <<swl, swls>>
            \/ /\ w.ret # "OK" \/ other
               /\ role = "leader" /\ swl = 0 /\ swls < MaxSwl
               /\ mode' = "R_SYNC_PENDING" /\ SubmitSwl(w) /\ UNCHANGED role
            \/ /\ w.ret # "OK" \/ other
               /\ role = "revoked"
               /\ mode' = "R_SYNC_FAILED" /\ Become(w) /\ UNCHANGED <<role, swl, swls>>
    BY <1>2 DEF SwitchGracefully
<1>4. /\ swl = 0 /\ (role = "leader" => mode = "L_WORKING")
      /\ Env.role = role /\ Env.mode = mode /\ Env.swl = 0
    <2>1. swl = 0
        BY <1>1 DEF Found, ModeInv, FailedModes
    <2>2. role = "leader" => mode = "L_WORKING"
        BY <1>1 DEF Found, ModeInv, FailedModes, Broken
    <2> QED
        BY <2>1, <2>2, EnvFields
<1>5. Working(Env)
    BY <1>1, <1>4 DEF Working
<1>6. /\ WInv(t, Env) /\ ActInv(t.log, t.ctx) /\ t.bad = {}
      /\ t.ret = "OK" => ~t.ctx.lead \/ t.ctx.exit \/ t.ctx.force
    <2>1. /\ Env \in EnvType /\ WInv(World, Env) /\ Env.role = role /\ (role = "leader" => Env.mode = "L_WORKING")
          /\ ActInv(World.log, World.ctx) /\ World.bad = {}
        BY <1>4 DEF Found
    <2>2. /\ WInv(t, Env) /\ ActInv(t.log, t.ctx) /\ t.bad = World.bad
          /\ t.ret = "OK" => ~t.ctx.lead \/ t.ctx.exit \/ t.ctx.force
        BY ONLY <1>2, <1>5, <2>1, GracefullyKeeps
    <2> QED
        BY <2>1, <2>2
<1>7. /\ WInv(w, Env) /\ ActInv(w.log, w.ctx) /\ w.bad = {} /\ w \in WorldType /\ w.ctx \in CtxType
      /\ w.log \in Seq(EntryType) /\ CtxInv(w.log, w.ctx, w.ans, Env) /\ CoreInv(w.log, w.ctx, w.ans, Env)
    BY <1>6 DEF Found, WInv, WorldType, CtxInv
<1>8. PICK f : f = Env'
    OBVIOUS
<1>9. f.role = role' /\ f.mode = mode' /\ f.synced = Env.synced /\ f.written = Env.written /\ f.swl = swl'
    BY <1>1, <1>8, EnvFields, EnvFieldsNext DEF txVars
<1>10. ~Lost(w.ctx, Env)
    BY <1>1, <1>4 DEF Lost, TModes, FModes, FailedModes
<1>11. CASE /\ w.ret = "OK" /\ ~other /\ mode' = "F_WORKING" /\ Become(w)
            /\ role' = IF role = "leader" THEN "graceful" ELSE role
            /\ UNCHANGED <<swl, swls>>
    <2>1. role' \in {"graceful", "revoked"} /\ (role' = "graceful" <=> role = "leader") /\ role' # "leader"
        BY <1>1, <1>11
    <2>2. ModeInv' /\ OthersOK'
        BY <1>1, <1>4, <1>11, <2>1 DEF Found, ModeInv, OthersOK, Roles, Modes, FModes, FailedModes, Broken, txVars
    <2>3. ~w.ctx.lead \/ w.ctx.exit \/ w.ctx.force
        BY <1>3, <1>6, <1>11
    <2>4. PhaseInv(w.ctx, f)
        BY <1>4, <1>9, <1>11, <2>3 DEF PhaseInv, TModes
    <2>5. RoleStep(w.ctx, Env, f)
        BY <1>4, <1>9, <2>1 DEF RoleStep, Broken
    <2>6. f.role \notin Broken => DataOk(w.log, w.ctx, f)
        <3>1. f.role \notin Broken => Env.role \notin Broken
            BY <1>1, <1>4, <1>9, <2>1 DEF Broken
        <3> QED
            BY <1>7, <1>9, <1>10, <3>1, DataStays
    <2>7. Doomed(w.ctx, Env) => Doomed(w.ctx, f)
        <3>1. CASE role = "leader"
            BY <1>4, <3>1 DEF Doomed, TModes, FModes, FailedModes
        <3>2. CASE role = "revoked"
            BY <1>9, <1>11, <3>2 DEF Doomed, FModes
        <3> QED
            BY <1>1, <3>1, <3>2
    <2>8. CtxInv(w.log, w.ctx, w.ans, f)
        BY <1>7, <2>4, <2>5, <2>6, <2>7, RoleStepKeeps
    <2> QED
        BY <1>7, <1>8, <1>11, <2>2, <2>8, StepTo DEF WInv
<1>12. CASE /\ role = "leader" /\ mode' = "R_SYNC_PENDING" /\ SubmitSwl(w) /\ UNCHANGED role
    <2>1. PICK v : v = [w EXCEPT !.log = Append(@, SwlEntry)]
        OBVIOUS
    <2>2. Become(v) /\ swl' = Len(w.log) + 1 /\ swls' = swls + 1 /\ Len(w.log) \in Nat
        BY <1>7, <1>12, <2>1 DEF SubmitSwl
    <2>3. ModeInv' /\ OthersOK'
        BY <1>1, <1>12, <2>2 DEF Found, ModeInv, OthersOK, Modes, Roles, FModes, FailedModes, Broken, TModes, txVars
    <2>4. SwlSent(w, v)
        BY <1>7, <2>1, SwlFields
    <2>5. /\ RoleStep(w.ctx, Env, f) /\ Env.role \notin Broken /\ f.swl = Len(w.log) + 1
          /\ f.mode \notin TModes \union FModes
        BY <1>4, <1>9, <1>12, <2>2 DEF RoleStep, Broken, TModes, FModes
    <2>6. DataGoes(w.ctx, Env, f)
        BY <1>9, <1>10 DEF DataGoes, DataOk
    <2>7. ~Doomed(w.ctx, Env)
        BY <1>4, <1>12 DEF Doomed, TModes, FModes, FailedModes
    <2>8. WInv(v, f) /\ ActInv(v.log, v.ctx) /\ v.bad = w.bad
        <3>1. Env \in EnvType
            BY DEF Found
        <3> QED
            BY ONLY <1>7, <2>4, <2>5, <2>6, <2>7, <3>1, SubmitSwlKeeps
    <2> QED
        BY <1>7, <1>8, <2>2, <2>3, <2>8, StepTo
<1>13. CASE /\ role = "revoked" /\ mode' = "R_SYNC_FAILED" /\ Become(w) /\ UNCHANGED <<role, swl, swls>>
    <2>1. ModeInv' /\ OthersOK'
        BY <1>1, <1>4, <1>13 DEF Found, ModeInv, OthersOK, Roles, Modes, FailedModes, Broken, txVars
    <2>2. PhaseInv(w.ctx, f)
        BY <1>4, <1>9, <1>13 DEF PhaseInv, TModes, FModes
    <2>3. RoleStep(w.ctx, Env, f) /\ f.role \in Broken
        BY <1>9, <1>13 DEF RoleStep, Broken
    <2>4. Doomed(w.ctx, Env) => Doomed(w.ctx, f)
        BY <1>9, <1>13 DEF Doomed, FailedModes
    <2>5. CtxInv(w.log, w.ctx, w.ans, f)
        BY <1>7, <2>2, <2>3, <2>4, RoleStepKeeps
    <2> QED
        BY <1>7, <1>8, <1>13, <2>1, <2>5, StepTo DEF WInv
<1> QED
    BY <1>3, <1>11, <1>12, <1>13

(* The start working log is applied, and the context leads, or has to be   *)
(* tried again.                                                            *)
LEMMA ApplyToLeaderInv ==
    ASSUME Found, NEW e \in EnvType, WInv(World, e), e.mode = "T_APPLY_PENDING", e.swl = 0,
           e.role = role, e.synced = synced', e.written = written, NEW p \in Nat, NEW o,
           NEW t, t = SwitchToLeader(World, p, o), Become(t),
           mode' = IF t.ret = "OK" THEN "L_WORKING" ELSE "T_APPLY_PENDING",
           mode \in TModes, swl' = 0, synced' \in Nat, applying' \in Nat,
           UNCHANGED <<role, swls, txVars>>
    PROVE  IInv'
<1>0. role \notin {"follower", "graceful"}
    BY DEF Found, ModeInv, TModes, FModes
<1>1. ModeInv' /\ OthersOK'
    BY <1>0 DEF Found, ModeInv, OthersOK, Modes, Roles, TModes, FModes, FailedModes, txVars
<1>2. PICK f : f = [role |-> role, mode |-> "L_WORKING", synced |-> synced', written |-> written, swl |-> 0]
    OBVIOUS
<1>3. f \in EnvType
    BY <1>2 DEF Found, OthersOK, EnvType, Modes
<1>4. Leads(e, f)
    BY <1>2 DEF Leads
<1>5. /\ ActInv(t.log, t.ctx) /\ t.bad = World.bad
      /\ t.ret = "OK" => WInv(t, f)
      /\ t.ret # "OK" => WInv(t, e)
    <2>1. e.mode \in TModes /\ e.role # "follower"
        BY <1>0 DEF TModes
    <2>2. ActInv(World.log, World.ctx)
        BY DEF Found
    <2> QED
        BY ONLY <1>3, <1>4, <2>1, <2>2, e \in EnvType, WInv(World, e), e.role = role, p \in Nat,
                t = SwitchToLeader(World, p, o), SwitchToLeaderKeeps
<1>6. CASE t.ret = "OK"
    <2>1. Env' = f
        BY <1>2, <1>6 DEF Env, txVars
    <2> QED
        BY <1>1, <1>5, <1>6, <2>1, StepTo DEF Found
<1>7. CASE t.ret # "OK"
    <2>1. Env' = [role |-> role, mode |-> "T_APPLY_PENDING", synced |-> synced', written |-> written, swl |-> 0]
        BY <1>7 DEF Env, txVars
    <2>2. e = [role |-> role, mode |-> "T_APPLY_PENDING", synced |-> synced', written |-> written, swl |-> 0]
        BY DEF EnvType
    <2>3. Env' = e
        BY <2>1, <2>2
    <2> QED
        BY <1>1, <1>5, <1>7, <2>3, StepTo DEF Found
<1> QED
    BY <1>6, <1>7

(* The start working log is agreed on.                                     *)
LEMMA SwlSuccessInv ==
    ASSUME Found, SwlSuccess
    PROVE  IInv'
<1>1. /\ swl # 0 /\ swl <= Len(log) /\ swl' = 0 /\ applying' = swl
      /\ synced' = IF swl > synced THEN swl ELSE synced
      /\ UNCHANGED <<role, swls, txVars>>
    BY DEF SwlSuccess
<1>2. mode \in {"T_SYNC_PENDING", "R_SYNC_PENDING"} /\ role \notin {"follower", "graceful"}
    BY <1>1 DEF Found, ModeInv, FModes
<1>3. swl \in Nat /\ synced \in Nat /\ Len(log) \in Nat /\ synced <= Len(log)
    BY DEF Found, OthersOK, CtxInv, CoreInv
<1>4. synced' \in Nat /\ synced <= synced' /\ synced' <= Len(log)
    BY <1>1, <1>3
<1>5. PICK e : e = [role |-> role, mode |-> mode, synced |-> synced', written |-> written, swl |-> swl]
    OBVIOUS
<1>6. e.role = role /\ e.mode = mode /\ e.synced = synced' /\ e.written = written /\ e.swl = swl
    BY <1>5
<1>7. e \in EnvType
    BY <1>3, <1>4, <1>5 DEF Found, OthersOK, EnvType
<1>8. Later(log, Env, e)
    BY <1>4, <1>6, EnvFields DEF Later
<1>9. CtxInv(log, ctx, ans, e)
    BY <1>7, <1>8, LaterKeeps DEF Found
<1>10. CASE mode = "T_SYNC_PENDING"
    <2>1. PICK o \in Outcomes : ApplySwl(swl, "T_APPLY_PENDING", o)
        BY <1>10 DEF SwlSuccess
    <2>2. PICK t : t = SwitchToLeader(World, swl, o)
        OBVIOUS
    <2>3. Become(t) /\ mode' = IF t.ret = "OK" THEN "L_WORKING" ELSE "T_APPLY_PENDING"
        BY <2>1, <2>2 DEF ApplySwl
    <2>4. PICK f : f = [role |-> role, mode |-> "T_APPLY_PENDING", synced |-> synced', written |-> written, swl |-> 0]
        OBVIOUS
    <2>5. f.role = role /\ f.mode = "T_APPLY_PENDING" /\ f.synced = synced' /\ f.written = written /\ f.swl = 0
        BY <2>4
    <2>6. f \in EnvType
        BY <1>4, <2>4 DEF Found, OthersOK, EnvType, Modes, TModes
    <2>7. CtxInv(log, ctx, ans, f)
        <3>1. ctx \in CtxType /\ CoreInv(log, ctx, ans, e) /\ BusyInv(log, ctx, e) /\ PhaseInv(ctx, e)
            BY <1>9 DEF Found, CtxInv, CoreInv
        <3>2. RoleStep(ctx, e, f)
            BY <1>6, <2>5, <3>1 DEF RoleStep, BusyInv
        <3>3. PhaseInv(ctx, f)
            BY <1>6, <1>10, <2>5, <3>1 DEF PhaseInv, TModes
        <3>4. f.role \notin Broken => DataOk(log, ctx, f)
            <4>1. Lost(ctx, e) => Lost(ctx, f)
                BY <1>6, <2>5 DEF Lost, TModes
            <4> QED
                BY <1>6, <2>5, <3>1, <4>1, DataStays
        <3>5. Doomed(ctx, e) => Doomed(ctx, f)
            BY <1>6, <2>5 DEF Doomed, TModes
        <3> QED
            BY <1>9, <3>1, <3>2, <3>3, <3>4, <3>5, RoleStepKeeps
    <2>8. WInv(World, f)
        BY <2>7 DEF Found, WInv
    <2>9. mode \in TModes /\ applying' \in Nat
        BY <1>1, <1>3, <1>10 DEF TModes
    <2> QED
        BY <1>1, <1>3, <1>4, <2>2, <2>3, <2>5, <2>6, <2>8, <2>9, ApplyToLeaderInv
<1>11. CASE mode = "R_SYNC_PENDING"
    <2>1. PICK o \in Outcomes : ApplySwl(swl, "R_APPLY_PENDING", o)
        BY <1>11 DEF SwlSuccess
    <2>2. PICK v : v = ResumeLeader(World, swl, o)
        OBVIOUS
    <2>3. Become(v) /\ mode' = "L_WORKING"
        BY <2>1, <2>2 DEF ApplySwl
    <2>4. ModeInv' /\ OthersOK'
        BY <1>1, <1>2, <1>3, <1>4, <2>3 DEF Found, ModeInv, OthersOK, Modes, TModes, FModes, FailedModes, txVars
    <2>5. PICK f : f = Env'
        OBVIOUS
    <2>6. f \in EnvType /\ Leads(e, f)
        BY <1>1, <1>6, <2>3, <2>4, <2>5, EnvFieldsNext, EnvIsTypedNext DEF Leads, txVars
    <2>7. WInv(World, e) /\ ActInv(World.log, World.ctx) /\ World.bad = {}
        BY <1>9 DEF Found, WInv
    <2>8. /\ e.role = role /\ e.mode = "R_SYNC_PENDING" /\ e.swl # 0 /\ e.role # "follower"
          /\ v = ResumeLeader(World, e.swl, o)
        BY <1>1, <1>2, <1>6, <1>11, <2>2
    <2>9. WInv(v, f) /\ ActInv(v.log, v.ctx) /\ v.bad = World.bad
        BY ONLY <1>7, <2>6, <2>7, <2>8, ResumeLeaderKeeps
    <2> QED
        BY <2>3, <2>4, <2>5, <2>7, <2>9, StepTo
<1> QED
    BY <1>2, <1>10, <1>11

(* The loop worker tries to apply it again.                                *)
LEMMA RetryApplySwlInv ==
    ASSUME Found, RetryApplySwl
    PROVE  IInv'
<1>1. /\ mode \in {"T_APPLY_PENDING", "F_SWL_PENDING"} /\ UNCHANGED <<synced, role, swl, applying, swls, txVars>>
    BY DEF RetryApplySwl, Found, ModeInv
<1>2. PICK o \in Outcomes : ApplySwl(applying, mode, o)
    BY DEF RetryApplySwl
<1>3. swl = 0 /\ synced \in Nat /\ applying \in Nat
    BY <1>1 DEF Found, ModeInv, OthersOK
<1>4. CASE mode = "T_APPLY_PENDING"
    <2>1. PICK t : t = SwitchToLeader(World, applying, o)
        OBVIOUS
    <2>2. Become(t) /\ mode' = IF t.ret = "OK" THEN "L_WORKING" ELSE "T_APPLY_PENDING"
        BY <1>2, <1>4, <2>1 DEF ApplySwl
    <2>3. PICK e : e = Env
        OBVIOUS
    <2>4. /\ e \in EnvType /\ WInv(World, e) /\ e.mode = "T_APPLY_PENDING" /\ e.swl = 0
          /\ e.role = role /\ e.synced = synced' /\ e.written = written
        BY <1>1, <1>3, <1>4, <2>3 DEF Found
    <2>5. mode \in TModes /\ swl' = 0 /\ synced' \in Nat /\ applying' \in Nat /\ UNCHANGED <<role, swls, txVars>>
        BY <1>1, <1>3, <1>4 DEF TModes
    <2> QED
        BY <1>3, <2>1, <2>2, <2>4, <2>5, ApplyToLeaderInv
<1>5. CASE mode = "F_SWL_PENDING"
    <2>1. UNCHANGED <<log, ctx, ans, bad>> /\ mode' = "F_WORKING"
        BY <1>2, <1>5 DEF ApplySwl
    <2>2. ModeInv' /\ OthersOK'
        BY <1>1, <1>5, <2>1 DEF Found, ModeInv, OthersOK, Modes, FModes, TModes, FailedModes, txVars
    <2>3. /\ Env'.mode = "F_WORKING" /\ Env'.synced = Env.synced /\ Env'.swl = Env.swl
          /\ Env'.written = Env.written /\ Env'.role = Env.role /\ Env.mode = "F_SWL_PENDING" /\ Env'.role = role'
        BY <1>1, <1>5, <2>1, EnvFields, EnvFieldsNext DEF txVars
    <2>4. CoreInv(log, ctx, ans, Env) /\ PhaseInv(ctx, Env) /\ BusyInv(log, ctx, Env)
        BY DEF Found, CtxInv, CoreInv
    <2>5. PhaseInv(ctx, Env') /\ RoleStep(ctx, Env, Env')
        BY <2>3, <2>4 DEF PhaseInv, RoleStep, BusyInv, FModes, TModes
    <2>6. role' \notin Broken => DataOk(log, ctx, Env')
        <3>1. Lost(ctx, Env) => Lost(ctx, Env')
            BY <2>3 DEF Lost, FModes
        <3> QED
            BY <2>3, <2>4, <3>1, DataStays
    <2>7. Doomed(ctx, Env) => Doomed(ctx, Env')
        BY <2>3 DEF Doomed, FModes
    <2> QED
        BY <2>1, <2>2, <2>5, <2>6, <2>7, RoleStepInv
<1> QED
    BY <1>1, <1>4, <1>5

-------------------------------------------------------------------------------
(* The theorems                                                            *)

(* The invariant holds in the beginning.                                   *)
LEMMA InitInv ==
    Init => IInv
<1> SUFFICES ASSUME Init PROVE IInv
    OBVIOUS
<1> USE DEF Init
<1>1. Fresh \in CtxType
    BY DEF Fresh, CtxType
<1>2. TypeOK
    <2>1. log \in Seq(EntryType)
        OBVIOUS
    <2>2. role \in Roles /\ mode \in Modes /\ ctx \in CtxType
        BY <1>1 DEF Roles, Modes
    <2>3. written \in SUBSET Write /\ ans \in SUBSET Final /\ bad \in SUBSET Errors
        OBVIOUS
    <2>4. /\ synced \in Nat /\ swl \in Nat /\ applying \in Nat /\ swls \in Nat /\ local \in BOOLEAN
          /\ expired \in BOOLEAN /\ sched \in {"ACTIVE", "IN_TERMINATE", "ABORTED", "TERMINATED"}
        OBVIOUS
    <2> QED
        BY <2>1, <2>2, <2>3, <2>4 DEF TypeOK
<1>3. /\ ctx.state = "INIT" /\ ~ctx.up /\ ctx.action = "START" /\ ctx.lead /\ ~ctx.info /\ ~ctx.submitting
      /\ ~ctx.submitted /\ ~ctx.force /\ ctx.gts = "no" /\ ~ctx.ver /\ ~ctx.prep /\ ~ctx.complete
      /\ ctx.swl = 0 /\ ctx.leaked = 0
      /\ ~ctx.persisted /\ ctx.unlog = {} /\ ctx.busy = <<>> /\ ~ctx.exit
    BY DEF Fresh
<1>4. Len(log) = 0 /\ Len(ctx.busy) = 0 /\ \A p : ~Has(log, p) /\ ~Has(ctx.busy, p)
    <2>1. Len(log) = 0 /\ Len(ctx.busy) = 0
        BY <1>3
    <2> QED
        BY <2>1 DEF Has
<1>5. ModeInv
    BY DEF ModeInv, FailedModes
<1>6. ActInv(log, ctx)
    BY <1>3, <1>4 DEF ActInv
<1>7. Env.role = "leader" /\ Env.mode = "L_WORKING" /\ Env.synced = 0 /\ Env.written = {} /\ Env.swl = 0
    BY EnvFields
<1>8. CtxInv(log, ctx, ans, Env)
    <2>1. BusyInv(log, ctx, Env) /\ CommitInv(log, ctx, Env)
        BY <1>3, <1>4, <1>7 DEF BusyInv, CommitInv
    <2>2. ForceInv(log, ctx) /\ SubmitInv(ctx, Env) /\ VersionInv(ctx) /\ PersistInv(ctx)
        BY <1>3, <1>4 DEF ForceInv, SubmitInv, VersionInv, PersistInv
    <2>3. PhaseInv(ctx, Env)
        BY <1>7 DEF PhaseInv, TModes, FModes
    <2>4. DataInv(log, ctx, Env)
        BY <1>3, <1>4, <1>7 DEF DataInv, HasData
    <2>5. ActiveInv(log, ctx, Env) /\ AnsInv(log, ctx, ans, Env)
        BY <1>3, <1>4 DEF ActiveInv, AnsInv
    <2> QED
        BY <1>4, <1>7, <2>1, <2>2, <2>3, <2>4, <2>5 DEF CtxInv, CoreInv
<1>9. AnswerMatchesOutcome /\ OneDecision /\ CommitHasAllData /\ NothingUnexpected
    BY <1>4 DEF AnswerMatchesOutcome, OneDecision, CommitHasAllData, NothingUnexpected
<1> QED
    BY <1>2, <1>5, <1>6, <1>8, <1>9 DEF IInv

(* Every step keeps it.                                                    *)
LEMMA NextInv ==
    IInv /\ [Next]_vars => IInv'
<1> SUFFICES ASSUME IInv, [Next]_vars PROVE IInv'
    OBVIOUS
<1>1. CASE UNCHANGED vars
    <2>1. UNCHANGED <<log, synced, role, swl, applying, swls, mode, ctx, local, written, sched, ans, expired, bad>>
        BY <1>1 DEF vars, lsVars, txVars
    <2>2. TypeOK' /\ Env' = Env /\ (ModeInv' <=> ModeInv)
        BY <2>1 DEF IInv, TypeOK, Env, ModeInv
    <2>3. AnswerMatchesOutcome' /\ OneDecision' /\ CommitHasAllData' /\ NothingUnexpected'
        BY ZenonT(60), <2>1 DEF IInv, AnswerMatchesOutcome, OneDecision, CommitHasAllData, NothingUnexpected
    <2> QED
        BY <2>1, <2>2, <2>3 DEF IInv
<1>2. CASE Next
    <2>1. Found
        BY <1>2, InvFinds DEF Next
    <2>2. CASE \E x \in Write : WriteRow(x)
        BY <2>1, <2>2, WriteRowInv
    <2>3. CASE SubmitCommitTx \/ RollbackTx \/ HandleTxCommitResult \/ Expire
        BY <2>1, <2>3, SchedulerInv
    <2>4. CASE CommitRequest
        BY <2>1, <2>4, CommitRequestInv
    <2>5. CASE AbortRequest
        BY <2>1, <2>5, AbortRequestInv
    <2>6. CASE SubmitRedo
        BY <2>1, <2>6, SubmitRedoInv
    <2>7. CASE LogSuccess
        BY <2>1, <2>7, LogSuccessInv
    <2>8. CASE LogFailure
        BY <2>1, <2>8, LogFailureInv
    <2>9. CASE GetGtsCallback
        BY <2>1, <2>9, GetGtsInv
    <2>10. CASE GtsElapseCallback
        BY <2>1, <2>10, GtsElapseInv
    <2>11. CASE HandleTimeout
        BY <2>1, <2>11, HandleTimeoutInv
    <2>12. CASE Revoke
        BY <2>1, <2>12, RevokeInv
    <2>13. CASE ApplyToFollower
        BY <2>1, <2>13, ApplyToFollowerInv
    <2>14. CASE SwitchForcedly
        BY <2>1, <2>14, SwitchForcedlyInv
    <2>15. CASE SwitchGracefully
        BY <2>1, <2>15, SwitchGracefullyInv
    <2>16. CASE FinishGraceful
        BY <2>1, <2>16, FinishGracefulInv
    <2>17. CASE ResumeToLeader
        BY <2>1, <2>17, ResumeToLeaderInv
    <2>18. CASE Elect
        BY <2>1, <2>18, ElectInv
    <2>19. CASE SwlSuccess
        BY <2>1, <2>19, SwlSuccessInv
    <2>20. CASE SwlFailure
        BY <2>1, <2>20, SwlFailureInv
    <2>21. CASE RetryApplySwl
        BY <2>1, <2>21, RetryApplySwlInv
    <2> QED
        BY <1>2, <2>2, <2>3, <2>4, <2>5, <2>6, <2>7, <2>8, <2>9, <2>10, <2>11, <2>12, <2>13, <2>14, <2>15,
           <2>16, <2>17, <2>18, <2>19, <2>20, <2>21 DEF Next, Step
<1> QED
    BY <1>1, <1>2

(* The invariant holds whatever the scheduler, the timer, GTS, the log and *)
(* the role changes of the log stream do to the context.                   *)
THEOREM Inductive == Spec => []IInv
    BY InitInv, NextInv, PTL DEF Spec

(* The fields of the context, the log and the log stream keep their types. *)
THEOREM TypeCorrect == Spec => []TypeOK
<1>1. IInv => TypeOK
    BY DEF IInv
<1> QED
    BY <1>1, Inductive, PTL

(* compensate_abort_log_ and submit_commit_log_ exclude each other: the    *)
(* log never holds a commit and an abort log of the transaction.           *)
THEOREM OneDecisionAlways == Spec => []OneDecision
<1>1. IInv => OneDecision
    BY DEF IInv
<1> QED
    BY <1>1, Inductive, PTL

(* A commit log follows the redo of every row that was written: a context  *)
(* that lost data with the leadership is aborted by switch_to_leader and   *)
(* is never committed in part.                                             *)
THEOREM CommitHasAllDataAlways == Spec => []CommitHasAllData
<1>1. IInv => CommitHasAllData
    BY DEF IInv
<1> QED
    BY <1>1, Inductive, PTL

(* The scheduler hears SUCCESS only when a commit log is agreed on, and    *)
(* KILLED (post_tx_commit_resp_, the reply of commit, the answer of        *)
(* switch_to_follower_forcedly) only when there is none.                   *)
THEOREM AnswerMatchesOutcomeAlways == Spec => []AnswerMatchesOutcome
<1>1. IInv => AnswerMatchesOutcome
    BY DEF IInv
<1> QED
    BY <1>1, Inductive, PTL

(* on_success and switch_to_leader take none of their error branches: a    *)
(* callback of a context that has ended comes for an aborted one only, the *)
(* callback of a commit log finds a commit version and nobody waiting for  *)
(* GTS, and a context that is to lead again has persisted a log.           *)
THEOREM NothingUnexpectedAlways == Spec => []NothingUnexpected
<1>1. IInv => NothingUnexpected
    BY DEF IInv
<1> QED
    BY <1>1, Inductive, PTL

===============================================================================
