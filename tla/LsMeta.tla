-------------------------------- MODULE LsMeta --------------------------------
(***************************************************************************)
(* The part of a log stream's meta (ObLSMeta) that recovery depends on:    *)
(* the id meta of one id service, the clog checkpoint and the clog base,   *)
(* and their persisted image in the storage log (slog).  The base LSN is   *)
(* represented by the SCN of the log entry it points to.                   *)
(***************************************************************************)
EXTENDS Integers

CONSTANT MaxSlogFail        \* bound on the slog writes that fail

ASSUME MaxSlogFailAssumption == MaxSlogFail \in Nat

MIN_LAST_ID == 1

VARIABLES
    meta,        \* ObLSMeta in memory: [limit, latest, ckpt, base]
    slog,        \* what the last successful write_slog_ persisted
    slog_fails   \* failed slog writes so far

metaVars == <<meta, slog, slog_fails>>

MetaType == [limit : Nat, latest : Nat, ckpt : Nat, base : Nat]

Greater(a, b) == IF a >= b THEN a ELSE b
Lesser(a, b)  == IF a <= b THEN a ELSE b

(* lib/atomic inc_update: a monotone store.                                *)
inc_update(old, new) == Greater(old, new)

(* ObLSMeta::init: nothing allocated, nothing recycled.                    *)
EmptyMeta == [limit |-> MIN_LAST_ID, latest |-> 0, ckpt |-> 0, base |-> 0]

(* ObAllIDMeta::update_id_meta                                             *)
WithIdMeta(m, limited_id, latest_log_ts) ==
    [limit |-> inc_update(m.limit, limited_id),
     latest |-> inc_update(m.latest, latest_log_ts),
     ckpt |-> m.ckpt, base |-> m.base]

WithCheckpoint(m, lsn, scn) ==
    [limit |-> m.limit, latest |-> m.latest, ckpt |-> scn, base |-> lsn]

(* write_slog_: persist the whole meta, or report an error.  The record of *)
(* a write that failed may still reach the disk (the wait for the flush    *)
(* timed out) or not (the append failed).                                  *)
write_slog_(m, ok) ==
    \/ ok /\ slog' = m /\ UNCHANGED slog_fails
    \/ /\ ~ok /\ slog_fails < MaxSlogFail
       /\ slog_fails' = slog_fails + 1
       /\ slog' \in {slog, m}

(* ObLSMeta::update_id_meta: the content in memory is updated whether or   *)
(* not the slog write succeeds.                                            *)
update_id_meta(limited_id, latest_log_ts) ==
    /\ meta' = WithIdMeta(meta, limited_id, latest_log_ts)
    /\ UNCHANGED <<slog, slog_fails>>

update_id_meta_slog(limited_id, latest_log_ts, ok) ==
    /\ meta' = WithIdMeta(meta, limited_id, latest_log_ts)
    /\ write_slog_(WithIdMeta(meta, limited_id, latest_log_ts), ok)

(* ObLSMeta::set_clog_checkpoint with write_slog = true: likewise.         *)
set_clog_checkpoint(lsn, scn, ok) ==
    /\ meta' = WithCheckpoint(meta, lsn, scn)
    /\ write_slog_(WithCheckpoint(meta, lsn, scn), ok)

===============================================================================
