----------------------------- MODULE LogStreamInv -----------------------------
(***************************************************************************)
(* The inductive invariant behind GrantsDisjoint, GrantsDurable,           *)
(* CommittedLimitApplied, CallbackOwnsCb and CheckpointBelowDumpPoint.     *)
(***************************************************************************)
EXTENDS LogStream

Down == role \in {"restarting", "lost"}

ToReplay(e) == (Replaying \/ role = "lost") /\ e.scn >= replay_next

(* The LS meta follows the id service; the slog is never ahead of it.      *)
MetaInv ==
    /\ meta.limit = limited_id /\ meta.latest = latest_log_ts
    /\ slog.limit <= limited_id /\ slog.latest <= latest_log_ts
    /\ slog.ckpt <= meta.ckpt /\ meta.ckpt <= committed_scn
    /\ slog.base <= slog.ckpt /\ meta.base <= meta.ckpt
    /\ latest_log_ts <= committed_scn
    /\ meta.ckpt <= rec_log_ts

ScnInv ==
    /\ committed_scn <= max_scn /\ max_scn <= MaxScn
    /\ role \notin {"leader", "revoking"} => committed_scn = max_scn
    /\ \A e \in clog : e.scn <= max_scn /\ e.last = e.limit
    /\ \A e1, e2 \in clog : e1.scn <= e2.scn => e1.limit <= e2.limit
    /\ tmp_last_id = 0
    /\ MIN_LAST_ID <= limited_id /\ MIN_LAST_ID <= slog.limit
    /\ MIN_LAST_ID <= last_id

(* Which entries the limit in memory, and the limit on disk, cover.        *)
AppliedInv ==
    /\ \A e \in clog : Committed(e) =>
          \/ \E f \in flying : f.scn = e.scn
          \/ ToReplay(e)
          \/ e.limit <= limited_id
    /\ \A e \in clog : e.scn <= latest_log_ts => e.limit <= limited_id
    /\ \A e \in clog : e.scn <= slog.latest => e.limit <= slog.limit
    /\ \A e \in clog : e.scn < slog.ckpt => e.limit <= slog.limit
    /\ Replaying => replay_next <= committed_scn + 1

(* Nothing undecided is below the checkpoint, or below the one that is     *)
(* being computed.                                                         *)
CheckpointInv ==
    /\ \A f \in flying : meta.ckpt < f.scn
    /\ \A e \in clog : ToReplay(e) => meta.ckpt <= e.scn
    /\ ckpt_pc \in {"decided", "located"} =>
          /\ ckpt_scn <= committed_scn
          /\ \A f \in flying : ckpt_scn < f.scn
          /\ \A e \in clog : ToReplay(e) => ckpt_scn < e.scn
    /\ ckpt_pc = "located" => ckpt_scn <= rec_log_ts

(* The limit in memory can be recovered; so can every id handed out.       *)
DurableInv ==
    /\ \/ limited_id <= slog.limit
       \/ \E e \in clog : Committed(e) /\ rec_log_ts <= e.scn /\ limited_id <= e.limit
    /\ \A g \in grants :
          \/ g.end <= limited_id
          \/ Down /\ \E e \in clog : Committed(e) /\ ToReplay(e) /\ g.end <= e.limit

(* The one callback object and its log.                                    *)
CbInv ==
    /\ flying # {} <=> (is_logging \/ rwlock # NoWorker)
    /\ is_logging => rwlock = NoWorker
    /\ \A t \in Worker : th[t].pc = "fill" <=> rwlock = t
    /\ \A f, h \in flying : f = h
    /\ flying # {} => role \in {"leader", "revoking", "draining"}
    /\ \A f \in flying :
          /\ role = "leader" => f.scn <= max_scn
          /\ f.scn <= max_scn => \E e \in clog : e.scn = f.scn
          /\ f.phase = "success" => /\ f.scn <= committed_scn
                                    /\ f.ts = f.scn /\ f.limit = cb.limit
                                    /\ rwlock = NoWorker
          /\ f.phase = "failure" => role = "draining" /\ f.scn > committed_scn
          /\ latest_log_ts < f.scn
          /\ rwlock # NoWorker =>
                /\ th[rwlock].tmp = f.scn
                /\ \A e \in clog : e.scn = f.scn => e.limit = th[rwlock].pre
          /\ rwlock = NoWorker =>
                /\ cb.ts = f.scn
                /\ \A e \in clog : e.scn = f.scn => e.limit = cb.limit
    /\ role \in {"leader", "revoking"} => \A e \in clog :
          Committed(e) \/ \E f \in flying : f.scn = e.scn

(* Ranges handed out, and ranges claimed by a thread that has not checked  *)
(* the limit yet, are disjoint and below last_id_.                         *)
Claims(t) == th[t].pc = "check"

CallInv ==
    /\ \A t \in Worker : th[t].pc \in {"swap", "faa", "check"} => th[t].alloc > 0
    /\ \A t \in Worker : Claims(t) => th[t].tmp + th[t].alloc <= last_id
    /\ \A t, u \in Worker : Claims(t) /\ Claims(u) /\ t # u =>
          \/ th[t].tmp + th[t].alloc <= th[u].tmp
          \/ th[u].tmp + th[u].alloc <= th[t].tmp
    /\ \A t \in Worker, g \in grants : Claims(t) =>
          \/ g.end <= th[t].tmp
          \/ th[t].tmp + th[t].alloc <= g.start
    /\ GrantsDisjoint
    /\ Down => /\ limited_id <= last_id
               /\ \A t \in Worker : th[t].pc = "idle"
    /\ ~Down => \A g \in grants : g.end <= last_id
    /\ role = "lost" => ckpt_pc = "idle"

IInv == /\ TypeOK /\ MetaInv /\ ScnInv /\ AppliedInv /\ CheckpointInv
        /\ DurableInv /\ CbInv /\ CallInv

-------------------------------------------------------------------------------
(* Beside IInv: what a call remembers of real time, for the refinement of  *)
(* IdOracle.  seen was the end of all ids handed out when the call began,  *)
(* and the call claims ids from last_id_ or above it.                      *)
SeenInv ==
    /\ MIN_LAST_ID <= max_end /\ \A g \in grants : g.end <= max_end
    /\ max_end = MIN_LAST_ID \/ \E g \in grants : g.end = max_end
    /\ \A t \in Worker :
          /\ th[t].pc \in {"idle", "pre", "submit", "fill"} <=> th[t].seen = 0
          /\ th[t].pc \in {"load", "limit", "swap", "faa"} => th[t].seen <= last_id
          /\ th[t].pc \in {"limit", "swap"} => th[t].seen <= th[t].last
          /\ th[t].pc = "check" => th[t].seen <= th[t].tmp

(* And what the recycling of the log relies on: as long as no slog write   *)
(* has failed, the base on disk is the base in memory.                     *)
BaseInv ==
    slog_fails = 0 =>
        slog.base = meta.base /\ recycled <= slog.base /\ role # "lost"

===============================================================================
