-------------------------- MODULE CheckpointExecutor --------------------------
(***************************************************************************)
(* ObCheckpointExecutor and the checkpoint timer of ObCheckPointService:   *)
(* advance the clog checkpoint to below what every module still needs,     *)
(* persist it in the LS meta, then let PALF recycle the log below it.      *)
(***************************************************************************)
EXTENDS IdService

CONSTANT UpdateCheckpointEnabled   \* update_checkpoint_enabled_

ASSUME CheckpointAssumption == UpdateCheckpointEnabled \in BOOLEAN

VARIABLES
    ckpt_pc,    \* where update_clog_checkpoint stands
    ckpt_scn    \* its local checkpoint_scn

ckptVars == <<ckpt_pc, ckpt_scn>>

CkptPCs == {"idle", "decided", "located", "advance"}

(* get_max_consequent_callbacked_scn comes first ...                       *)
ReadDecidedScn(d) ==
    /\ UpdateCheckpointEnabled /\ ckpt_pc = "idle"
    /\ get_max_decided_scn(d)
    /\ ckpt_pc' = "decided"
    /\ ckpt_scn' = d
    /\ UNCHANGED <<metaVars, clogVars, idVars, callVars>>

(* ... then get_min_rec_scn over the modules.  The rec_scn of the modules  *)
(* that are not modelled only lowers the result, like a lower d above.     *)
ReadRecScn ==
    /\ ckpt_pc = "decided"
    /\ ckpt_pc' = "located"
    /\ ckpt_scn' = Lesser(ckpt_scn, rec_log_ts)
    /\ UNCHANGED <<metaVars, clogVars, idVars, callVars>>

(* The checkpoint does not move, because the new one is not higher or      *)
(* locate_by_scn_coarsely must be retried: success for the caller.         *)
CheckpointNoChange ==
    /\ ckpt_pc = "located"
    /\ ckpt_pc' = "advance"
    /\ ckpt_scn' = 0
    /\ UNCHANGED <<metaVars, clogVars, idVars, callVars>>

(* locate_by_scn_coarsely finds the start of a block at or before the      *)
(* checkpoint; a failed slog write ends this round.                        *)
SetClogCheckpoint(lsn, ok) ==
    /\ ckpt_pc = "located" /\ ckpt_scn > meta.ckpt
    /\ lsn \in meta.base .. ckpt_scn
    /\ set_clog_checkpoint(lsn, ckpt_scn, ok)
    /\ ckpt_pc' = IF ok THEN "advance" ELSE "idle"
    /\ ckpt_scn' = 0
    /\ UNCHANGED <<clogVars, idVars, callVars>>

(* Mutant: PALF is told the checkpoint SCN instead of the base.            *)
AdvanceToCheckpoint ==
    /\ ckpt_pc = "advance"
    /\ ckpt_pc' = "idle" /\ UNCHANGED ckpt_scn
    /\ advance_base_lsn(meta.ckpt)
    /\ UNCHANGED <<metaVars, idVars, callVars>>

(* The timer task goes on with advance_base_lsn(ls->get_clog_base_lsn());  *)
(* flush_to_recycle_clog_ does not.                                        *)
AdvanceBaseLsn ==
    /\ ckpt_pc = "advance"
    /\ ckpt_pc' = "idle" /\ UNCHANGED ckpt_scn
    /\ advance_base_lsn(meta.base)
    /\ UNCHANGED <<metaVars, idVars, callVars>>

FinishWithoutRecycle ==
    /\ ckpt_pc = "advance"
    /\ ckpt_pc' = "idle" /\ UNCHANGED ckpt_scn
    /\ UNCHANGED <<metaVars, clogVars, idVars, callVars>>

(* advance_checkpoint_by_flush / check_need_flush_, for the id service.    *)
AdvanceCheckpointByFlush(recycle_scn) ==
    /\ UpdateCheckpointEnabled /\ role # "lost"
    /\ \/ recycle_scn = SCN_MAX
       \/ recycle_scn >= meta.ckpt /\ get_max_decided_scn(recycle_scn)
    /\ Flush(recycle_scn)
    /\ UNCHANGED ckptVars

===============================================================================
