------------------------------ MODULE IdService -------------------------------
(***************************************************************************)
(* ObIDService: the source of global timestamps, transaction ids and DAS   *)
(* ids.  Ids below limited_id_ may be handed out; limited_id_ is raised    *)
(* ahead of need by a clog entry, so that no id is handed out twice even   *)
(* across restarts.  Any number of threads run get_number without a lock;  *)
(* the log's callback, replay and flush run under rwlock_.                 *)
(***************************************************************************)
EXTENDS Clog

CONSTANTS
    Worker,             \* threads that call get_number
    ServiceType,        \* "TimestampService", "TransIDService", "DASIDService"
    PreAllocatedRange,  \* pre_allocated_range_
    PreAllocFactor,     \* ranges allocated ahead; 10 in the code
    Ranges,             \* ranges callers ask for
    Bases,              \* base ids callers pass (0 unless TimestampService)
    MaxGrants,          \* no new call after this many successful ones
    NoWorker            \* rwlock_ is free

ASSUME IdServiceAssumption ==
    /\ PreAllocatedRange \in Nat \ {0} /\ PreAllocFactor \in Nat \ {0}
    /\ Ranges \subseteq Nat \ {0} /\ Bases \subseteq Nat
    /\ MaxGrants \in Nat /\ NoWorker \notin Worker

VARIABLES
    last_id, limited_id, tmp_last_id, is_logging,
    rec_log_ts,      \* SCN_MAX: nothing to flush
    latest_log_ts,
    cb,              \* the one ObPresistIDLogCb: [limit, ts], ts 0 invalid
    rwlock           \* thread that holds rwlock_ across steps, or NoWorker

idVars == <<last_id, limited_id, tmp_last_id, is_logging, rec_log_ts,
            latest_log_ts, cb, rwlock>>

VARIABLES
    th,              \* get_number's locals, per thread
    grants,          \* observer: the ranges handed out, in order n
    grant_cnt,       \* observer: how many
    max_end          \* observer: every id handed out is below

callVars == <<th, grants, grant_cnt, max_end>>

PCs == {"idle", "load", "limit", "swap", "faa", "check", "pre", "submit", "fill"}

(* seen is max_end at the time the call began; pre is pre_allocated_id.    *)
(* A local is cleared after its last use.                                  *)
ThreadType == [pc : PCs, range : Nat, base : Nat, last : Nat, alloc : Nat,
               tmp : Nat, pre : Nat, seen : Nat]

Idle == [pc |-> "idle", range |-> 0, base |-> 0, last |-> 0, alloc |-> 0,
         tmp |-> 0, pre |-> 0, seen |-> 0]

(* Thread t goes on at pc with new values of some of its locals.           *)
Goto(t, pc, last, alloc, tmp, seen) ==
    th' = [th EXCEPT ![t] =
              [pc |-> pc, range |-> th[t].range, base |-> th[t].base,
               last |-> last, alloc |-> alloc, tmp |-> tmp,
               pre |-> th[t].pre, seen |-> seen]]

GrantType == [n : Nat, start : Nat, end : Nat, seen : Nat]

ResetCb == [limit |-> 0, ts |-> 0]

IsTimestamp == ServiceType = "TimestampService"

-------------------------------------------------------------------------------
(* get_number                                                              *)

(* ObLogHandler::get_role answers FOLLOWER once PALF is no longer leader;  *)
(* a call that has passed the check goes on.                               *)
check_leader == role = "leader"

GetNumber(t, r, b) ==
    /\ th[t].pc = "idle" /\ check_leader /\ grant_cnt < MaxGrants
    /\ th' = [th EXCEPT ![t] =
                 [pc |-> "load", range |-> r, base |-> b, last |-> 0,
                  alloc |-> 0, tmp |-> 0, pre |-> 0, seen |-> max_end]]
    /\ UNCHANGED <<metaVars, clogVars, idVars, grants, grant_cnt, max_end>>

LoadLast(t) ==
    /\ th[t].pc = "load"
    /\ Goto(t, "limit", last_id, 0, 0, th[t].seen)
    /\ UNCHANGED <<metaVars, clogVars, idVars, grants, grant_cnt, max_end>>

AllocatedRange(t) ==
    Lesser(Lesser(limited_id - th[t].base, limited_id - th[t].last), th[t].range)

(* alloc = 0 stands for OB_EAGAIN from here on.                            *)
LoadLimit(t) ==
    /\ th[t].pc = "limit"
    /\ \/ /\ AllocatedRange(t) <= 0
          /\ Goto(t, "pre", 0, 0, 0, 0)
       \/ /\ AllocatedRange(t) > 0
          /\ Goto(t, "swap", th[t].last, AllocatedRange(t), 0, th[t].seen)
    /\ UNCHANGED <<metaVars, clogVars, idVars, grants, grant_cnt, max_end>>

(* Mutant: load, add and store instead of an atomic fetch-and-add.         *)
FetchAndAddNotAtomic(t) ==
    /\ last_id' = th[t].last + th[t].alloc
    /\ Goto(t, "check", 0, th[t].alloc, th[t].last, th[t].seen)

(* ATOMIC_FAA(&last_id_, allocated_range)                                  *)
FetchAndAdd(t) ==
    /\ last_id' = last_id + th[t].alloc
    /\ Goto(t, "check", 0, th[t].alloc, last_id, th[t].seen)

(* ATOMIC_BCAS(&last_id_, last_id, base_id + allocated_range) when the     *)
(* base is ahead, else the fetch-and-add.                                  *)
SwapLast(t) ==
    /\ th[t].pc = "swap"
    /\ \/ /\ th[t].base > th[t].last /\ last_id = th[t].last
          /\ last_id' = th[t].base + th[t].alloc
          /\ Goto(t, "check", 0, th[t].alloc, th[t].base, th[t].seen)
       \/ /\ th[t].base > th[t].last /\ last_id # th[t].last
          /\ Goto(t, "faa", 0, th[t].alloc, 0, th[t].seen)
          /\ UNCHANGED last_id
       \/ /\ th[t].base <= th[t].last
          /\ FetchAndAdd(t)
    /\ UNCHANGED <<metaVars, clogVars, limited_id, tmp_last_id, is_logging,
                   rec_log_ts, latest_log_ts, cb, rwlock, grants, grant_cnt,
                   max_end>>

SwapFailed(t) ==
    /\ th[t].pc = "faa"
    /\ FetchAndAdd(t)
    /\ UNCHANGED <<metaVars, clogVars, limited_id, tmp_last_id, is_logging,
                   rec_log_ts, latest_log_ts, cb, rwlock, grants, grant_cnt,
                   max_end>>

(* The limit is read again; what lies above it is not handed out.          *)
GrantedEnd(t) == Lesser(th[t].tmp + th[t].alloc, limited_id)

CheckLimit(t) ==
    /\ th[t].pc = "check"
    /\ \/ /\ th[t].tmp >= limited_id
          /\ Goto(t, "pre", 0, 0, 0, 0)
          /\ UNCHANGED <<grants, grant_cnt, max_end>>
       \/ /\ th[t].tmp < limited_id
          /\ Goto(t, "pre", 0, th[t].alloc, 0, 0)
          /\ grants' = grants \union
                {[n |-> grant_cnt, start |-> th[t].tmp, end |-> GrantedEnd(t),
                  seen |-> th[t].seen]}
          /\ grant_cnt' = grant_cnt + 1
          /\ max_end' = Greater(max_end, GrantedEnd(t))
    /\ UNCHANGED <<metaVars, clogVars, idVars>>

(* The last part of get_number: ask for a higher limit when this call      *)
(* failed or the pre-allocated ids run low.  For timestamps,               *)
(* max_pre_allocated_id_ moves last_id_ up to a base above the limit and   *)
(* allows two ranges ahead of it.                                          *)
NeedPreAllocate(t) ==
    \/ th[t].alloc = 0
    \/ limited_id - last_id < (PreAllocatedRange * 2) \div 3

LastAfterPreAllocate(t) ==
    IF IsTimestamp /\ th[t].base > limited_id
    THEN inc_update(last_id, th[t].base) ELSE last_id

(* Mutant: the new limit is not ahead of the old one.                      *)
PreAllocatedIdNotAhead(t) == Greater(th[t].base, limited_id)

PreAllocatedId(t) ==
    LET ahead == Greater(th[t].base, limited_id)
                 + Greater(th[t].range * PreAllocFactor, PreAllocatedRange)
    IN  IF IsTimestamp
        THEN Lesser(LastAfterPreAllocate(t) + 2 * PreAllocatedRange, ahead)
        ELSE ahead

PreAllocate(t) ==
    /\ th[t].pc = "pre"
    /\ \/ /\ ~NeedPreAllocate(t)
          /\ th' = [th EXCEPT ![t] = Idle]
          /\ UNCHANGED last_id
       \/ /\ NeedPreAllocate(t)
          /\ last_id' = LastAfterPreAllocate(t)
          /\ th' = [th EXCEPT ![t] =
                       [pc |-> "submit", range |-> 0, base |-> 0, last |-> 0,
                        alloc |-> 0, tmp |-> 0, pre |-> PreAllocatedId(t),
                        seen |-> 0]]
    /\ UNCHANGED <<metaVars, clogVars, limited_id, tmp_last_id, is_logging,
                   rec_log_ts, latest_log_ts, cb, rwlock, grants, grant_cnt,
                   max_end>>

-------------------------------------------------------------------------------
(* The id log                                                              *)

(* The log's reference SCN: no timestamp below last_id_ may be its SCN.    *)
RefScn == IF ~IsTimestamp THEN 0
          ELSE IF tmp_last_id # 0 THEN tmp_last_id ELSE last_id

(* submit_log_with_lock_ gives up: rwlock_ is taken, a log is in flight,   *)
(* the limit is already there, or the append fails (cb_ is then reset).    *)
SubmitLogSkip(t) ==
    /\ th[t].pc = "submit"
    /\ \/ /\ rwlock # NoWorker \/ is_logging \/ th[t].pre <= limited_id
          /\ UNCHANGED cb
       \/ /\ rwlock = NoWorker /\ ~is_logging /\ th[t].pre > limited_id
          /\ cb' = ResetCb
    /\ th' = [th EXCEPT ![t] = Idle]
    /\ UNCHANGED <<metaVars, clogVars, last_id, limited_id, tmp_last_id,
                   is_logging, rec_log_ts, latest_log_ts, rwlock, grants,
                   grant_cnt, max_end>>

(* submit_log_ appends with &cb_ as callback; rwlock_ stays held, and the  *)
(* callback may run before the next step has filled cb_.                   *)
SubmitLog(t) ==
    /\ th[t].pc = "submit"
    /\ rwlock = NoWorker /\ ~is_logging /\ th[t].pre > limited_id
    /\ CanAppend(RefScn)
    /\ append_(RefScn, th[t].pre, th[t].pre)
    /\ rwlock' = t
    /\ Goto(t, "fill", 0, 0, NextScn(RefScn), 0)
    /\ UNCHANGED <<metaVars, last_id, limited_id, tmp_last_id, is_logging,
                   rec_log_ts, latest_log_ts, cb, grants, grant_cnt, max_end>>

FillCb(t) ==
    /\ th[t].pc = "fill"
    /\ cb' = [limit |-> th[t].pre, ts |-> th[t].tmp]
    /\ is_logging' = TRUE
    /\ rwlock' = NoWorker
    /\ th' = [th EXCEPT ![t] = Idle]
    /\ UNCHANGED <<metaVars, clogVars, last_id, limited_id, tmp_last_id,
                   rec_log_ts, latest_log_ts, grants, grant_cnt, max_end>>

StartCb(f, outcome) ==
    /\ flying' = (flying \ {f}) \union
            {[scn |-> f.scn, phase |-> outcome, limit |-> cb.limit, ts |-> cb.ts]}
    /\ UNCHANGED <<metaVars, idVars, callVars, clog, max_scn, committed_scn,
                   role, replay_next, recycled, crashes, revokes>>

(* Mutant: on_success does not wait for the submitter.                     *)
NoTestLock == TRUE

(* ObPresistIDLogCb::on_success: test_lock waits for the submitter, then   *)
(* the arguments are read.                                                 *)
test_lock == rwlock = NoWorker

OnSuccess(f) ==
    /\ f.phase = "queued" /\ f.scn <= committed_scn
    /\ test_lock
    /\ StartCb(f, "success")

(* Mutant: the apply service, once FOLLOWER, fails every callback.         *)
OnFailureOfCommitted(f) ==
    /\ f.phase = "queued" /\ role = "draining"
    /\ StartCb(f, "failure")

(* on_failure, once the apply service is FOLLOWER: no test_lock.           *)
OnFailure(f) ==
    /\ f.phase = "queued" /\ f.scn > committed_scn /\ role = "draining"
    /\ StartCb(f, "failure")

FinishCb(f) ==
    /\ is_logging' = FALSE
    /\ cb' = ResetCb
    /\ flying' = flying \ {f}
    /\ UNCHANGED <<clog, max_scn, committed_scn, role, replay_next, recycled,
                   crashes, revokes, rwlock, callVars>>

(* handle_submit_callback(true, ...)                                       *)
HandleSuccess(f) ==
    /\ f.phase = "success" /\ rwlock = NoWorker
    /\ IF f.ts = 0
       THEN UNCHANGED <<metaVars, last_id, limited_id, tmp_last_id, rec_log_ts,
                        latest_log_ts>>
       ELSE /\ last_id' = IF tmp_last_id # 0 THEN tmp_last_id ELSE last_id
            /\ tmp_last_id' = 0
            /\ limited_id' = inc_update(limited_id, f.limit)
            /\ rec_log_ts' = f.ts
            /\ latest_log_ts' = f.ts
            /\ update_id_meta(limited_id', latest_log_ts')
    /\ FinishCb(f)

(* handle_submit_callback(false, ...)                                      *)
HandleFailure(f) ==
    /\ f.phase = "failure" /\ rwlock = NoWorker
    /\ UNCHANGED <<metaVars, last_id, limited_id, tmp_last_id, rec_log_ts,
                   latest_log_ts>>
    /\ FinishCb(f)

-------------------------------------------------------------------------------
(* Replay, flush, recovery and role change                                 *)

NextToReplay(e) ==
    /\ Replaying /\ Committed(e) /\ e.scn >= replay_next
    /\ \A d \in clog : d.scn >= replay_next => e.scn <= d.scn

(* ObIDService::replay / handle_replay_result                              *)
Replay(e) ==
    /\ NextToReplay(e) /\ rwlock = NoWorker
    /\ tmp_last_id' = IF e.last # e.limit /\ e.limit = limited_id
                      THEN inc_update(tmp_last_id, e.last) ELSE 0
    /\ last_id' = inc_update(last_id, e.limit)
    /\ limited_id' = inc_update(limited_id, e.limit)
    /\ IF e.scn > latest_log_ts
       THEN /\ rec_log_ts' = e.scn
            /\ latest_log_ts' = e.scn
            /\ update_id_meta(limited_id', latest_log_ts')
       ELSE UNCHANGED <<rec_log_ts, latest_log_ts, metaVars>>
    /\ replay_next' = e.scn + 1
    /\ UNCHANGED <<is_logging, cb, rwlock, callVars, clog, max_scn,
                   committed_scn, flying, role, recycled, crashes, revokes>>

(* ObIDService::flush: persist the id meta, then nothing is dirty.         *)
Flush(recycle_scn) ==
    /\ rwlock = NoWorker
    /\ rec_log_ts <= recycle_scn
    /\ \E ok \in BOOLEAN :
          /\ update_id_meta_slog(limited_id, latest_log_ts, ok)
          /\ rec_log_ts' = IF ok THEN SCN_MAX ELSE rec_log_ts
    /\ UNCHANGED <<clogVars, callVars, last_id, limited_id, tmp_last_id,
                   is_logging, latest_log_ts, cb, rwlock>>

(* A new process: reset, then update_limited_id from the persisted meta.   *)
restart_id_service ==
    /\ last_id' = inc_update(MIN_LAST_ID, slog.limit)
    /\ limited_id' = inc_update(MIN_LAST_ID, slog.limit)
    /\ tmp_last_id' = 0
    /\ is_logging' = FALSE
    /\ rec_log_ts' = SCN_MAX
    /\ latest_log_ts' = slog.latest
    /\ cb' = ResetCb
    /\ rwlock' = NoWorker
    /\ th' = [t \in Worker |-> Idle]

(* Mutant: a new leader keeps its last_id_.                                *)
SwitchKeepsLastId == UNCHANGED <<last_id, tmp_last_id>>

(* ObTimestampService::switch_to_leader; the other services do nothing.    *)
switch_id_service_to_leader ==
    IF IsTimestamp /\ max_scn >= limited_id
    THEN /\ last_id' = inc_update(last_id, max_scn)
         /\ tmp_last_id' = 0
    ELSE /\ tmp_last_id' = IF IsTimestamp /\ tmp_last_id # 0
                           THEN inc_update(tmp_last_id, max_scn) ELSE tmp_last_id
         /\ UNCHANGED last_id

===============================================================================
