---------------------------- MODULE LogStreamProofs ---------------------------
(***************************************************************************)
(* Proofs about the log stream, for every value of the constants: IInv is  *)
(* an inductive invariant of Spec, and the safety properties follow.       *)
(***************************************************************************)
EXTENDS LogStreamInv, TLAPS

(* The tuples of variables and the type sets are expanded everywhere.      *)
USE MaxSlogFailAssumption, ClogAssumption, IdServiceAssumption
    DEF metaVars, clogVars, idVars, callVars, ckptVars, MetaType, EntryType,
        CbType, Roles, ThreadType, GrantType, PCs, CkptPCs

-------------------------------------------------------------------------------
(* Types                                                                   *)

(* A product of naturals is one.                                           *)
LEMMA NatProduct ==
    ASSUME NEW m \in Nat, NEW n \in Nat PROVE m * n \in Nat
  BY Z3

(* Every step keeps the types; in particular no id and no SCN becomes       *)
(* negative although get_number computes with differences.                 *)
LEMMA TypeStep ==
    ASSUME TypeOK, [Next]_vars PROVE TypeOK'
<1> USE DEF TypeOK
<1>1. ASSUME ClogStep PROVE TypeOK'
  BY <1>1 DEF ClogStep, AppendOther, CommitLog, RevokeLeader, TruncateTo,
     apply_switch_to_follower
<1>2. ASSUME NEW t \in Worker, NewCall(t) PROVE TypeOK'
  BY <1>2 DEF NewCall, GetNumber, Idle
<1>3. ASSUME NEW t \in Worker, LoadLast(t), UNCHANGED ckptVars PROVE TypeOK'
  BY <1>3 DEF LoadLast, Goto
<1>4. ASSUME NEW t \in Worker, LoadLimit(t), UNCHANGED ckptVars PROVE TypeOK'
  BY <1>4 DEF LoadLimit, Goto, AllocatedRange, Lesser
<1>5. ASSUME NEW t \in Worker, SwapLast(t), UNCHANGED ckptVars PROVE TypeOK'
  BY <1>5 DEF SwapLast, Goto, FetchAndAdd
<1>6. ASSUME NEW t \in Worker, SwapFailed(t), UNCHANGED ckptVars PROVE TypeOK'
  BY <1>6 DEF SwapFailed, Goto, FetchAndAdd
<1>7. ASSUME NEW t \in Worker, CheckLimit(t), UNCHANGED ckptVars PROVE TypeOK'
  BY <1>7 DEF CheckLimit, Goto, GrantedEnd, Lesser, Greater
<1>8. ASSUME NEW t \in Worker, PreAllocate(t), UNCHANGED ckptVars PROVE TypeOK'
  <2>1. LastAfterPreAllocate(t) \in Nat
    BY DEF LastAfterPreAllocate, inc_update, Greater
  <2>2. th[t].range * PreAllocFactor \in Nat
    <3> th[t].range \in Nat
      OBVIOUS
    <3> QED
      BY NatProduct
  <2>3. PreAllocatedId(t) \in Nat
    BY <2>1, <2>2 DEF PreAllocatedId, Greater, Lesser
  <2> QED
    BY <1>8, <2>1, <2>3 DEF PreAllocate, Idle
<1>9. ASSUME NEW t \in Worker, SubmitLog(t), UNCHANGED ckptVars PROVE TypeOK'
  BY <1>9 DEF SubmitLog, Goto, append_, RefScn, NextScn, Greater, QueuedCb
<1>10. ASSUME NEW t \in Worker, SubmitLogSkip(t), UNCHANGED ckptVars PROVE TypeOK'
  BY <1>10 DEF SubmitLogSkip, Idle, ResetCb
<1>11. ASSUME NEW t \in Worker, FillCb(t), UNCHANGED ckptVars PROVE TypeOK'
  BY <1>11 DEF FillCb, Idle
<1>12. ASSUME NEW f \in flying, OnSuccess(f), UNCHANGED ckptVars PROVE TypeOK'
  BY <1>12 DEF OnSuccess, StartCb
<1>13. ASSUME NEW f \in flying, OnFailure(f), UNCHANGED ckptVars PROVE TypeOK'
  BY <1>13 DEF OnFailure, StartCb
<1>14. ASSUME NEW f \in flying, HandleSuccess(f), UNCHANGED ckptVars PROVE TypeOK'
  <2>1. CASE f.ts = 0
    BY <1>14, <2>1 DEF HandleSuccess, FinishCb, ResetCb
  <2>2. CASE f.ts # 0
    <3>1. /\ limited_id' \in Nat /\ latest_log_ts' \in Nat
      BY <1>14, <2>2 DEF HandleSuccess, inc_update, Greater
    <3>2. meta' \in MetaType
      BY <1>14, <2>2, <3>1 DEF HandleSuccess, update_id_meta, WithIdMeta, inc_update, Greater
    <3>3. /\ last_id' \in Nat /\ tmp_last_id' \in Nat /\ rec_log_ts' \in Nat
          /\ slog' = slog /\ slog_fails' = slog_fails
      BY <1>14, <2>2 DEF HandleSuccess, update_id_meta
    <3> QED
      BY <1>14, <3>1, <3>2, <3>3 DEF HandleSuccess, FinishCb, ResetCb
  <2> QED
    BY <2>1, <2>2
<1>15. ASSUME NEW f \in flying, HandleFailure(f), UNCHANGED ckptVars PROVE TypeOK'
  BY <1>15 DEF HandleFailure, FinishCb, ResetCb
<1>16. ASSUME NEW e \in clog, Replay(e), UNCHANGED ckptVars PROVE TypeOK'
  BY <1>16 DEF Replay, update_id_meta, WithIdMeta, inc_update, Greater
<1>17. ASSUME CheckpointStep PROVE TypeOK'
  <2>1. ASSUME NEW d \in 0 .. MaxScn, ReadDecidedScn(d) PROVE TypeOK'
    BY <2>1 DEF ReadDecidedScn
  <2>2. ASSUME ReadRecScn PROVE TypeOK'
    BY <2>2 DEF ReadRecScn, Lesser
  <2>3. ASSUME CheckpointNoChange PROVE TypeOK'
    BY <2>3 DEF CheckpointNoChange
  <2>4. ASSUME NEW lsn \in 0 .. MaxScn, NEW ok \in BOOLEAN, SetClogCheckpoint(lsn, ok) PROVE TypeOK'
    BY <2>4 DEF SetClogCheckpoint, set_clog_checkpoint, write_slog_, WithCheckpoint
  <2>5. ASSUME AdvanceBaseLsn PROVE TypeOK'
    BY <2>5 DEF AdvanceBaseLsn, advance_base_lsn, Greater
  <2>6. ASSUME FinishWithoutRecycle PROVE TypeOK'
    BY <2>6 DEF FinishWithoutRecycle
  <2>7. ASSUME NEW s \in (0 .. MaxScn) \union {SCN_MAX}, AdvanceCheckpointByFlush(s) PROVE TypeOK'
    BY <2>7 DEF AdvanceCheckpointByFlush, Flush, update_id_meta_slog, write_slog_, WithIdMeta, inc_update, Greater
  <2> QED BY <1>17, <2>1, <2>2, <2>3, <2>4, <2>5, <2>6, <2>7 DEF CheckpointStep
<1>18. ASSUME SwitchToFollower PROVE TypeOK'
  BY <1>18 DEF SwitchToFollower, switch_role_to_follower
<1>19. ASSUME SwitchToLeader PROVE TypeOK'
  BY <1>19 DEF SwitchToLeader, switch_role_to_leader, switch_id_service_to_leader, inc_update, Greater
<1>20. ASSUME Restart PROVE TypeOK'
  <2>1. /\ role' \in Roles /\ replay_next' \in Nat /\ crashes' \in Nat
        /\ max_scn' \in Nat /\ clog' \subseteq EntryType /\ flying' \subseteq CbType
        /\ committed_scn' \in Nat
    BY <1>20 DEF Restart, restart_clog, enable_replay, TruncateTo
  <2>2. th' \in [Worker -> ThreadType] /\ cb' \in [limit : Nat, ts : Nat]
    BY <1>20 DEF Restart, restart_id_service, Idle, ResetCb
  <2>3. last_id' \in Nat /\ limited_id' \in Nat
    BY <1>20 DEF Restart, restart_id_service, inc_update, Greater, MIN_LAST_ID
  <2> QED
    BY <1>20, <2>1, <2>2, <2>3 DEF Restart, restart_clog, enable_replay, restart_id_service
<1>21. ASSUME UNCHANGED vars PROVE TypeOK'
  BY <1>21 DEF vars
<1> HIDE DEF TypeOK
<1> QED
  BY <1>1, <1>2, <1>3, <1>4, <1>5, <1>6, <1>7, <1>8, <1>9, <1>10, <1>11, <1>12,
     <1>13, <1>14, <1>15, <1>16, <1>17, <1>18, <1>19, <1>20, <1>21
     DEF Next, CallStep, CbStep, ReplayStep

-------------------------------------------------------------------------------
(* The inductive invariant                                                 *)

(* A log stream starts with nothing logged, granted or claimed.            *)
LEMMA InitIInv == ASSUME Init PROVE IInv
<1> USE DEF Init, MIN_LAST_ID, EmptyMeta, ResetCb, Idle
<1>1. TypeOK
  BY DEF TypeOK
<1>2. MetaInv /\ ScnInv
  BY DEF MetaInv, ScnInv
<1>3. AppliedInv /\ CheckpointInv
  BY DEF AppliedInv, CheckpointInv, Replaying
<1>4. DurableInv
  BY DEF DurableInv
<1>5. CbInv
  BY DEF CbInv
<1>6. CallInv
  BY DEF CallInv, Claims, GrantsDisjoint, Down
<1> QED
  BY <1>1, <1>2, <1>3, <1>4, <1>5, <1>6 DEF IInv

USE DEF TypeOK, IInv


(* A log of another module: only max_scn moves, and every bound on it is   *)
(* from below.                                                             *)
LEMMA AppendOtherPreserves ==
    ASSUME IInv, TypeOK', AppendOther, UNCHANGED <<metaVars, idVars, callVars,
        ckptVars>>
    PROVE  IInv'
<1>1. MetaInv' /\ AppliedInv' /\ CheckpointInv' /\ DurableInv' /\ CallInv'
  BY DEF AppendOther, MetaInv, AppliedInv, Committed, ToReplay, Replaying,
      CheckpointInv, DurableInv, Down, CallInv, Claims, GrantsDisjoint
<1>2. ScnInv'
  BY DEF ScnInv, MIN_LAST_ID, AppendOther
<1>3. CbInv'
  BY DEF CbInv, Committed, AppendOther
<1> QED
  BY <1>1, <1>2, <1>3

(* An entry that becomes committed is still flying (a leader) or still to  *)
(* be replayed (a follower).                                               *)
LEMMA CommitLogPreserves ==
    ASSUME IInv, TypeOK', CommitLog, UNCHANGED <<metaVars, idVars, callVars,
        ckptVars>>
    PROVE  IInv'
<1>1. CallInv'
  BY DEF CommitLog, CallInv, Claims, Down, GrantsDisjoint
<1>2. MetaInv'
  BY DEF MetaInv, CommitLog
<1>3. ScnInv'
  BY DEF ScnInv, MIN_LAST_ID, CommitLog
<1>4. AppliedInv'
  BY DEF AppliedInv, Committed, ToReplay, Replaying, CbInv, ScnInv, CommitLog
<1>5. CheckpointInv'
  BY DEF CheckpointInv, ToReplay, Replaying, CommitLog
<1>6. DurableInv'
  BY DEF DurableInv, Committed, Down, ToReplay, Replaying, CommitLog
<1>7. CbInv'
  BY DEF CbInv, Committed, CommitLog
<1> QED
  BY <1>1, <1>2, <1>3, <1>4, <1>5, <1>6, <1>7

(* Only uncommitted entries are truncated.                                 *)
LEMMA RevokeLeaderPreserves ==
    ASSUME IInv, TypeOK', RevokeLeader, UNCHANGED <<metaVars, idVars,
        callVars, ckptVars>>
    PROVE  IInv'
<1>1. MetaInv'
  BY DEF RevokeLeader, MetaInv
<1>2. ScnInv'
  BY DEF ScnInv, MIN_LAST_ID, RevokeLeader, TruncateTo
<1>3. AppliedInv'
  BY DEF AppliedInv, Committed, ToReplay, Replaying, RevokeLeader, TruncateTo
<1>4. CheckpointInv'
  BY DEF CheckpointInv, ToReplay, Replaying, RevokeLeader, TruncateTo
<1>5. DurableInv'
  BY DEF DurableInv, Committed, Down, ToReplay, Replaying, RevokeLeader,
      TruncateTo
<1>6. CbInv'
  BY DEF CbInv, Committed, RevokeLeader, TruncateTo
<1>7. CallInv'
  BY DEF CallInv, Claims, Down, GrantsDisjoint, RevokeLeader, TruncateTo
<1> QED
  BY <1>1, <1>2, <1>3, <1>4, <1>5, <1>6, <1>7

(* The apply service stops following PALF; nothing else changes.           *)
LEMMA ApplySwitchToFollowerPreserves ==
    ASSUME IInv, TypeOK', apply_switch_to_follower, UNCHANGED <<metaVars,
        idVars, callVars, ckptVars>>
    PROVE  IInv'
<1>1. MetaInv' /\ ScnInv'
  BY DEF apply_switch_to_follower, MetaInv, ScnInv
<1>2. AppliedInv'
  BY DEF AppliedInv, Committed, ToReplay, Replaying, apply_switch_to_follower
<1>3. CheckpointInv'
  BY DEF CheckpointInv, ToReplay, Replaying, apply_switch_to_follower
<1>4. DurableInv'
  BY DEF DurableInv, Committed, Down, ToReplay, Replaying,
      apply_switch_to_follower
<1>5. CbInv'
  BY DEF CbInv, Committed, apply_switch_to_follower
<1>6. CallInv'
  BY DEF CallInv, Claims, Down, GrantsDisjoint, apply_switch_to_follower
<1> QED
  BY <1>1, <1>2, <1>3, <1>4, <1>5, <1>6

(* A new call has claimed nothing yet.                                     *)
LEMMA NewCallPreserves ==
    ASSUME IInv, TypeOK', NEW t \in Worker, NewCall(t)
    PROVE  IInv'
<1>1. MetaInv' /\ ScnInv' /\ AppliedInv' /\ CheckpointInv' /\ DurableInv'
  BY DEF NewCall, GetNumber, MetaInv, ScnInv, AppliedInv, Committed, ToReplay,
      Replaying, CheckpointInv, DurableInv, Down
<1>2. CbInv'
  BY DEF CbInv, Committed, NewCall, GetNumber, check_leader
<1>3. CallInv'
  BY DEF CallInv, Claims, Down, GrantsDisjoint, NewCall, GetNumber,
      check_leader
<1> QED
  BY <1>1, <1>2, <1>3

(* A load changes nothing shared.                                          *)
LEMMA LoadLastPreserves ==
    ASSUME IInv, TypeOK', NEW t \in Worker, LoadLast(t), UNCHANGED ckptVars
    PROVE  IInv'
<1>1. MetaInv' /\ ScnInv' /\ AppliedInv' /\ CheckpointInv' /\ DurableInv'
  BY DEF LoadLast, MetaInv, ScnInv, AppliedInv, Committed, ToReplay,
      Replaying, CheckpointInv, DurableInv, Down
<1>2. CbInv'
  BY DEF CbInv, Committed, LoadLast, Goto
<1>3. CallInv'
  BY DEF CallInv, Claims, Down, GrantsDisjoint, LoadLast, Goto
<1> QED
  BY <1>1, <1>2, <1>3

(* A thread goes on to claim ids only with a range that is not empty.      *)
LEMMA LoadLimitPreserves ==
    ASSUME IInv, TypeOK', NEW t \in Worker, LoadLimit(t), UNCHANGED ckptVars
    PROVE  IInv'
<1>1. MetaInv' /\ ScnInv' /\ AppliedInv' /\ CheckpointInv' /\ DurableInv'
  BY DEF LoadLimit, MetaInv, ScnInv, AppliedInv, Committed, ToReplay,
      Replaying, CheckpointInv, DurableInv, Down
<1>2. CbInv'
  <2>1. CASE AllocatedRange(t) <= 0
    BY <2>1 DEF CbInv, Committed, LoadLimit, Goto
  <2>2. CASE AllocatedRange(t) > 0
    BY <2>2 DEF CbInv, Committed, LoadLimit, Goto
  <2> QED
    BY <2>1, <2>2 DEF LoadLimit
<1>3. CallInv'
  <2>1. th'[t].pc = "pre" \/ (th'[t].pc = "swap" /\ th'[t].alloc > 0)
    BY DEF LoadLimit, Goto
  <2>2. \A u \in Worker : u # t => th'[u] = th[u]
    BY DEF LoadLimit, Goto
  <2>3. ~Down /\ UNCHANGED <<role, last_id, limited_id, grants, ckpt_pc>>
    BY DEF CallInv, LoadLimit
  <2>4. \A u \in Worker : Claims(u)' => u # t /\ Claims(u)
    BY <2>1, <2>2 DEF Claims
  <2> QED
    BY <2>1, <2>2, <2>3, <2>4 DEF CallInv, Down, GrantsDisjoint
<1> QED
  BY <1>1, <1>2, <1>3

(* The compare-and-swap or the fetch-and-add claims ids at or above        *)
(* last_id_, above every range handed out or claimed before.               *)
LEMMA SwapLastPreserves ==
    ASSUME IInv, TypeOK', NEW t \in Worker, SwapLast(t), UNCHANGED ckptVars
    PROVE  IInv'
<1>1. MetaInv' /\ AppliedInv' /\ CheckpointInv' /\ DurableInv'
  BY DEF SwapLast, MetaInv, AppliedInv, Committed, ToReplay, Replaying,
      CheckpointInv, DurableInv, Down
<1>2. ScnInv'
  BY DEF ScnInv, MIN_LAST_ID, SwapLast, Goto, FetchAndAdd
<1>3. CbInv'
  BY DEF CbInv, Committed, SwapLast, Goto, FetchAndAdd
<1>4. CallInv'
  <2>1. th[t].alloc > 0
    BY DEF CallInv, SwapLast
  <2>2. /\ \A u \in Worker : u # t => th'[u] = th[u]
        /\ th'[t].alloc = th[t].alloc
    BY DEF SwapLast, FetchAndAdd, Goto
  <2>3. ~Down /\ UNCHANGED <<role, limited_id, grants, ckpt_pc>>
    BY DEF CallInv, SwapLast
  <2>4. \/ /\ th'[t].pc = "check" /\ last_id <= th'[t].tmp
           /\ last_id' = th'[t].tmp + th'[t].alloc
        \/ th'[t].pc = "faa" /\ last_id' = last_id
    BY DEF SwapLast, FetchAndAdd, Goto
  <2>5. th'[t].tmp \in Nat /\ last_id <= last_id'
    BY <2>1, <2>2, <2>4
  <2>6. \A u \in Worker : u # t => (Claims(u)' <=> Claims(u))
    BY <2>2 DEF Claims
  <2>7. \A g \in grants : g.end <= last_id
    BY <2>3 DEF CallInv
  <2>8. CASE th'[t].pc = "faa" /\ last_id' = last_id
    <3>1. ~Claims(t)'
      BY <2>8 DEF Claims
    <3> QED
      BY <2>1, <2>2, <2>3, <2>6, <2>8, <3>1 DEF CallInv, Down, GrantsDisjoint
  <2>9. CASE /\ th'[t].pc = "check" /\ last_id <= th'[t].tmp
             /\ last_id' = th'[t].tmp + th'[t].alloc
    BY SMTT(30), <2>1, <2>2, <2>3, <2>5, <2>6, <2>7, <2>9 DEF CallInv, Down, GrantsDisjoint
  <2> QED
    BY <2>4, <2>8, <2>9
<1> QED
  BY <1>1, <1>2, <1>3, <1>4

(* The same for the fetch-and-add after a failed compare-and-swap.         *)
LEMMA SwapFailedPreserves ==
    ASSUME IInv, TypeOK', NEW t \in Worker, SwapFailed(t), UNCHANGED ckptVars
    PROVE  IInv'
<1>1. MetaInv' /\ AppliedInv' /\ CheckpointInv' /\ DurableInv'
  BY DEF SwapFailed, MetaInv, AppliedInv, Committed, ToReplay, Replaying,
      CheckpointInv, DurableInv, Down
<1>2. ScnInv'
  BY DEF ScnInv, MIN_LAST_ID, SwapFailed, Goto, FetchAndAdd
<1>3. CbInv'
  BY DEF CbInv, Committed, SwapFailed, Goto, FetchAndAdd
<1>4. CallInv'
  BY DEF CallInv, Claims, Down, GrantsDisjoint, SwapFailed, Goto, FetchAndAdd
<1> QED
  BY <1>1, <1>2, <1>3, <1>4

(* What is handed out is the part below the limit of what the thread       *)
(* claimed.                                                                *)
LEMMA CheckLimitPreserves ==
    ASSUME IInv, TypeOK', NEW t \in Worker, CheckLimit(t), UNCHANGED ckptVars
    PROVE  IInv'
<1>1. MetaInv' /\ ScnInv' /\ AppliedInv' /\ CheckpointInv'
  BY DEF CheckLimit, MetaInv, ScnInv, AppliedInv, Committed, ToReplay,
      Replaying, CheckpointInv
<1>2. DurableInv'
  BY DEF DurableInv, Committed, Down, ToReplay, Replaying, CheckLimit, Goto,
      GrantedEnd, Lesser, Greater
<1>3. CbInv'
  BY DEF CbInv, Committed, CheckLimit, Goto, GrantedEnd, Lesser, Greater
<1>4. CallInv'
  <2>1. CASE th[t].tmp >= limited_id
    <3>1. th'[t].pc = "pre" /\ \A u \in Worker : u # t => th'[u] = th[u]
      BY <2>1 DEF CheckLimit, Goto
    <3>2. UNCHANGED <<last_id, limited_id, role, ckpt_pc, grants>>
      BY <2>1 DEF CheckLimit
    <3>3. \A u \in Worker : Claims(u)' => Claims(u) /\ th'[u] = th[u]
      BY <3>1 DEF Claims
    <3>4. GrantsDisjoint'
      BY <3>2 DEF CallInv, GrantsDisjoint
    <3> QED
      BY <3>1, <3>2, <3>3, <3>4 DEF CallInv, Down, CheckLimit
  <2>2. CASE th[t].tmp < limited_id
    <3> DEFINE new == [n |-> grant_cnt, start |-> th[t].tmp, end |-> GrantedEnd(t),
                       seen |-> th[t].seen]
    <3>1. grants' = grants \union {new} /\ th'[t].pc = "pre"
      BY <2>2 DEF CheckLimit, Goto
    <3>2. /\ new.start = th[t].tmp /\ new.end <= th[t].tmp + th[t].alloc
          /\ new.end <= last_id /\ new.n \in Nat /\ new.end \in Nat
      BY DEF CallInv, Claims, CheckLimit, GrantedEnd, Lesser
    <3>3. \A u \in Worker : u # t => th'[u] = th[u]
      BY <2>2 DEF CheckLimit, Goto
    <3>4. UNCHANGED <<last_id, limited_id, role, ckpt_pc>>
      BY DEF CheckLimit
    <3> HIDE DEF new
    <3>5. \A g \in grants : g.end <= new.start \/ new.end <= g.start
      BY <3>2 DEF CallInv, Claims, CheckLimit
    <3>6. GrantsDisjoint'
      BY <3>1, <3>5 DEF CallInv, GrantsDisjoint
    <3>7. \A u \in Worker : Claims(u)' => /\ u # t /\ Claims(u) /\ th'[u] = th[u]
      BY <3>1, <3>3 DEF Claims
    <3>8. \A u \in Worker, g \in grants' : Claims(u)' =>
             g.end <= th[u].tmp \/ th[u].tmp + th[u].alloc <= g.start
      BY <3>1, <3>2, <3>7 DEF CallInv, Claims, CheckLimit
    <3> QED
      BY <3>1, <3>2, <3>3, <3>4, <3>6, <3>7, <3>8 DEF CallInv, Down, CheckLimit
  <2> QED
    BY <2>1, <2>2
<1> QED
  BY <1>1, <1>2, <1>3, <1>4

(* last_id_ only grows.                                                    *)
LEMMA PreAllocatePreserves ==
    ASSUME IInv, TypeOK', NEW t \in Worker, PreAllocate(t), UNCHANGED ckptVars
    PROVE  IInv'
<1>1. MetaInv' /\ AppliedInv' /\ CheckpointInv' /\ DurableInv'
  BY DEF PreAllocate, MetaInv, AppliedInv, Committed, ToReplay, Replaying,
      CheckpointInv, DurableInv, Down
<1>2. ScnInv'
  BY DEF ScnInv, MIN_LAST_ID, PreAllocate, LastAfterPreAllocate, inc_update,
      Greater, Idle
<1>3. CbInv'
  BY DEF CbInv, Committed, PreAllocate, LastAfterPreAllocate, inc_update,
      Greater, Idle
<1>4. CallInv'
  BY SMTT(30) DEF CallInv, Claims, Down, GrantsDisjoint, PreAllocate,
      LastAfterPreAllocate, inc_update, Greater, Idle
<1> QED
  BY <1>1, <1>2, <1>3, <1>4

(* No callback is in flight, so the leader's whole log is committed and    *)
(* applied and the new entry's limit is above every earlier one.           *)
LEMMA SubmitLogPreserves ==
    ASSUME IInv, TypeOK', NEW t \in Worker, SubmitLog(t), UNCHANGED ckptVars
    PROVE  IInv'
<1>1. MetaInv'
  BY DEF SubmitLog, append_, MetaInv
<1>2. ScnInv'
  BY DEF ScnInv, MIN_LAST_ID, CbInv, Committed, AppliedInv, ToReplay,
      Replaying, SubmitLog, Goto, append_, CanAppend, NextScn, Greater,
      RefScn, QueuedCb
<1>3. AppliedInv'
  BY DEF AppliedInv, Committed, ToReplay, Replaying, ScnInv, MetaInv,
      SubmitLog, Goto, append_, CanAppend, NextScn, Greater, RefScn, QueuedCb
<1>4. CheckpointInv'
  BY DEF CheckpointInv, ToReplay, Replaying, ScnInv, MetaInv, SubmitLog, Goto,
      append_, CanAppend, NextScn, Greater, RefScn, QueuedCb
<1>5. DurableInv'
  BY DEF DurableInv, Committed, Down, ToReplay, Replaying, SubmitLog, Goto,
      append_, CanAppend, NextScn, Greater, RefScn, QueuedCb
<1>6. CbInv'
  <2> DEFINE scn == NextScn(RefScn)
             new == [scn |-> scn, last |-> th[t].pre, limit |-> th[t].pre]
  <2>1. scn \in Nat /\ scn > max_scn
    BY DEF NextScn, RefScn, Greater
  <2>2. flying = {} /\ flying' = {QueuedCb(scn)} /\ rwlock' = t /\ role' = "leader"
    BY DEF CbInv, SubmitLog, append_, CanAppend
  <2>3. /\ clog' = clog \union {new} /\ max_scn' = scn
        /\ UNCHANGED <<committed_scn, cb, is_logging, latest_log_ts>>
    BY DEF SubmitLog, append_
  <2>4. \A e \in clog : Committed(e) /\ e.scn < scn
    BY <2>1, <2>2 DEF CbInv, ScnInv, SubmitLog, CanAppend
  <2>5. th'[t].pc = "fill" /\ th'[t].tmp = scn /\ th'[t].pre = th[t].pre
    BY DEF SubmitLog, Goto
  <2>6. \A u \in Worker : u # t => th'[u] = th[u]
    BY DEF SubmitLog, Goto
  <2>7. new.scn = scn /\ new.limit = th[t].pre
    OBVIOUS
  <2>8. QueuedCb(scn).scn = scn /\ QueuedCb(scn).phase = "queued"
    BY DEF QueuedCb
  <2>9. latest_log_ts < scn /\ ~is_logging /\ rwlock = NoWorker
    BY <2>1 DEF MetaInv, ScnInv, SubmitLog
  <2> HIDE DEF scn, new
  <2>10. \A u \in Worker : (th[u].pc = "fill")' <=> rwlock' = u
    BY <2>2, <2>5, <2>6, <2>9 DEF CbInv
  <2>11. \A e \in clog' : Committed(e)' \/ \E f \in flying' : f.scn = e.scn
    BY <2>2, <2>3, <2>4, <2>7, <2>8 DEF Committed
  <2> QED
    BY <2>1, <2>2, <2>3, <2>4, <2>5, <2>7, <2>8, <2>9, <2>10, <2>11 DEF CbInv
<1>7. CallInv'
  BY DEF CallInv, Claims, Down, GrantsDisjoint, SubmitLog, Goto, append_,
      CanAppend, NextScn, Greater, RefScn, QueuedCb
<1> QED
  BY <1>1, <1>2, <1>3, <1>4, <1>5, <1>6, <1>7

(* Nothing is submitted, and cb_ is reset only when no callback uses it.   *)
LEMMA SubmitLogSkipPreserves ==
    ASSUME IInv, TypeOK', NEW t \in Worker, SubmitLogSkip(t), UNCHANGED
        ckptVars
    PROVE  IInv'
<1>1. MetaInv' /\ ScnInv' /\ AppliedInv' /\ CheckpointInv' /\ DurableInv'
  BY DEF SubmitLogSkip, MetaInv, ScnInv, AppliedInv, Committed, ToReplay,
      Replaying, CheckpointInv, DurableInv, Down
<1>2. CbInv'
  BY DEF CbInv, Committed, SubmitLogSkip, Idle, ResetCb
<1>3. CallInv'
  BY DEF CallInv, Claims, Down, GrantsDisjoint, SubmitLogSkip, Idle, ResetCb
<1> QED
  BY <1>1, <1>2, <1>3

(* The submitter fills cb_ for its own log before it releases rwlock_.     *)
LEMMA FillCbPreserves ==
    ASSUME IInv, TypeOK', NEW t \in Worker, FillCb(t), UNCHANGED ckptVars
    PROVE  IInv'
<1>1. MetaInv' /\ ScnInv' /\ AppliedInv' /\ CheckpointInv' /\ DurableInv'
  BY DEF FillCb, MetaInv, ScnInv, AppliedInv, Committed, ToReplay, Replaying,
      CheckpointInv, DurableInv, Down
<1>2. CbInv'
  BY DEF CbInv, Committed, FillCb, Idle
<1>3. CallInv'
  BY DEF CallInv, Claims, Down, GrantsDisjoint, FillCb, Idle
<1> QED
  BY <1>1, <1>2, <1>3

(* test_lock has waited for the submitter: the arguments read are          *)
(* the log's.                                                              *)
LEMMA OnSuccessPreserves ==
    ASSUME IInv, TypeOK', NEW f \in flying, OnSuccess(f), UNCHANGED ckptVars
    PROVE  IInv'
<1>1. MetaInv' /\ ScnInv' /\ DurableInv' /\ CallInv'
  BY DEF OnSuccess, StartCb, MetaInv, ScnInv, DurableInv, Committed, Down,
      ToReplay, Replaying, CallInv, Claims, GrantsDisjoint
<1>2. AppliedInv'
  <2> DEFINE h == [scn |-> f.scn, phase |-> "success", limit |-> cb.limit, ts |-> cb.ts]
  <2>1. flying' = (flying \ {f}) \union {h} /\ h.scn = f.scn
    BY DEF OnSuccess, StartCb
  <2> HIDE DEF h
  <2>2. \A k \in flying : \E m \in flying' : m.scn = k.scn
    BY <2>1
  <2> QED
    BY <2>2 DEF AppliedInv, Committed, ToReplay, Replaying, OnSuccess, StartCb
<1>3. CheckpointInv'
  BY DEF CheckpointInv, ToReplay, Replaying, OnSuccess, StartCb, test_lock
<1>4. CbInv'
  <2> DEFINE h == [scn |-> f.scn, phase |-> "success", limit |-> cb.limit, ts |-> cb.ts]
  <2>1. flying = {f} /\ flying' = {h}
    BY DEF CbInv, OnSuccess, StartCb
  <2>2. /\ h.scn = f.scn /\ h.phase = "success" /\ h.limit = cb.limit /\ h.ts = cb.ts
    OBVIOUS
  <2> HIDE DEF h
  <2> QED
    BY <2>1, <2>2 DEF CbInv, Committed, OnSuccess, StartCb, test_lock
<1> QED
  BY <1>1, <1>2, <1>3, <1>4

(* A failed log is above the committed end.                                *)
LEMMA OnFailurePreserves ==
    ASSUME IInv, TypeOK', NEW f \in flying, OnFailure(f), UNCHANGED ckptVars
    PROVE  IInv'
<1>1. MetaInv' /\ ScnInv' /\ DurableInv' /\ CallInv'
  BY DEF OnFailure, StartCb, MetaInv, ScnInv, DurableInv, Committed, Down,
      ToReplay, Replaying, CallInv, Claims, GrantsDisjoint
<1>2. AppliedInv'
  BY DEF AppliedInv, Committed, ToReplay, Replaying, OnFailure, StartCb
<1>3. CheckpointInv'
  BY DEF CheckpointInv, ToReplay, Replaying, OnFailure, StartCb
<1>4. CbInv'
  <2> DEFINE h == [scn |-> f.scn, phase |-> "failure", limit |-> cb.limit, ts |-> cb.ts]
  <2>1. flying = {f} /\ flying' = {h}
    BY DEF CbInv, OnFailure, StartCb
  <2>2. /\ h.scn = f.scn /\ h.phase = "failure" /\ h.limit = cb.limit /\ h.ts = cb.ts
    OBVIOUS
  <2> HIDE DEF h
  <2> QED
    BY <2>1, <2>2 DEF CbInv, Committed, OnFailure, StartCb
<1> QED
  BY <1>1, <1>2, <1>3, <1>4

(* The limit raised is that of a committed entry at or above rec_log_ts_.  *)
LEMMA HandleSuccessPreserves ==
    ASSUME IInv, TypeOK', NEW f \in flying, HandleSuccess(f), UNCHANGED
        ckptVars
    PROVE  IInv'
<1>1. MetaInv'
  BY DEF MetaInv, CbInv, Committed, CheckpointInv, ToReplay, Replaying,
      HandleSuccess, FinishCb, ResetCb, update_id_meta, WithIdMeta,
      inc_update, Greater
<1>2. ScnInv'
  BY DEF ScnInv, MIN_LAST_ID, HandleSuccess, FinishCb, ResetCb,
      update_id_meta, WithIdMeta, inc_update, Greater
<1>3. AppliedInv'
  BY DEF AppliedInv, Committed, ToReplay, Replaying, CbInv, ScnInv, MetaInv,
      HandleSuccess, FinishCb, ResetCb, update_id_meta, WithIdMeta,
      inc_update, Greater
<1>4. CheckpointInv'
  BY DEF CheckpointInv, ToReplay, Replaying, CbInv, Committed, MetaInv,
      HandleSuccess, FinishCb, ResetCb, update_id_meta, WithIdMeta,
      inc_update, Greater
<1>5. DurableInv'
  BY DEF DurableInv, Committed, Down, ToReplay, Replaying, MetaInv, CbInv,
      ScnInv, HandleSuccess, FinishCb, ResetCb, update_id_meta, WithIdMeta,
      inc_update, Greater
<1>6. CbInv'
  BY DEF CbInv, Committed, HandleSuccess, FinishCb, ResetCb, update_id_meta,
      WithIdMeta, inc_update, Greater
<1>7. CallInv'
  BY DEF CallInv, Claims, Down, GrantsDisjoint, ScnInv, CbInv, Committed,
      HandleSuccess, FinishCb, ResetCb, update_id_meta, WithIdMeta,
      inc_update, Greater
<1> QED
  BY <1>1, <1>2, <1>3, <1>4, <1>5, <1>6, <1>7

(* Nothing committed loses its callback.                                   *)
LEMMA HandleFailurePreserves ==
    ASSUME IInv, TypeOK', NEW f \in flying, HandleFailure(f), UNCHANGED
        ckptVars
    PROVE  IInv'
<1>1. MetaInv' /\ ScnInv' /\ DurableInv' /\ CallInv'
  BY DEF HandleFailure, FinishCb, MetaInv, ScnInv, DurableInv, Committed,
      Down, ToReplay, Replaying, CallInv, Claims, GrantsDisjoint
<1>2. AppliedInv'
  BY DEF AppliedInv, Committed, ToReplay, Replaying, CbInv, HandleFailure,
      FinishCb, ResetCb
<1>3. CheckpointInv'
  BY DEF CheckpointInv, ToReplay, Replaying, HandleFailure, FinishCb, ResetCb
<1>4. CbInv'
  BY DEF CbInv, Committed, HandleFailure, FinishCb, ResetCb
<1> QED
  BY <1>1, <1>2, <1>3, <1>4

(* Replay applies entries in order, none of them below the checkpoint.     *)
LEMMA ReplayPreserves ==
    ASSUME IInv, TypeOK', NEW e \in clog, Replay(e), UNCHANGED ckptVars
    PROVE  IInv'
<1>1. MetaInv'
  <2>1. limited_id' = Greater(limited_id, e.limit) /\ limited_id' >= limited_id
    BY DEF Replay, inc_update, Greater
  <2>2. meta.ckpt <= e.scn /\ e.scn <= committed_scn
    BY DEF CheckpointInv, ToReplay, Replay, NextToReplay, Committed
  <2>3. CASE e.scn > latest_log_ts
    <3>1. /\ latest_log_ts' = e.scn /\ rec_log_ts' = e.scn
          /\ meta' = WithIdMeta(meta, limited_id', latest_log_ts')
          /\ UNCHANGED <<slog, slog_fails, committed_scn>>
      BY <2>3 DEF Replay, update_id_meta
    <3>2. /\ meta'.limit = limited_id' /\ meta'.latest = latest_log_ts'
          /\ meta'.ckpt = meta.ckpt /\ meta'.base = meta.base
      BY <2>1, <2>3, <3>1 DEF MetaInv, WithIdMeta, inc_update, Greater
    <3> QED
      BY <2>1, <2>2, <2>3, <3>1, <3>2 DEF MetaInv
  <2>4. CASE ~(e.scn > latest_log_ts)
    <3>1. limited_id' = limited_id
      BY <2>1, <2>4 DEF AppliedInv, Greater
    <3> QED
      BY <2>4, <3>1 DEF MetaInv, Replay
  <2> QED
    BY <2>3, <2>4
<1>2. ScnInv'
  BY DEF ScnInv, MIN_LAST_ID, Replay, NextToReplay, update_id_meta,
      WithIdMeta, inc_update, Greater
<1>3. AppliedInv'
  BY DEF AppliedInv, Committed, ToReplay, Replaying, ScnInv, MetaInv, Replay,
      NextToReplay, update_id_meta, WithIdMeta, inc_update, Greater
<1>4. CheckpointInv'
  BY DEF CheckpointInv, ToReplay, Replaying, CbInv, Committed, Replay,
      NextToReplay, update_id_meta, WithIdMeta, inc_update, Greater
<1>5. DurableInv'
  BY DEF DurableInv, Committed, Down, ToReplay, Replaying, ScnInv, AppliedInv,
      MetaInv, Replay, NextToReplay, update_id_meta, WithIdMeta, inc_update,
      Greater
<1>6. CbInv'
  <2>1. flying = {} /\ flying' = {} /\ role' = role
        /\ role \notin {"leader", "revoking"}
    BY DEF CbInv, Replaying, Replay, NextToReplay
  <2> QED
    BY <2>1 DEF CbInv, Replay
<1>7. CallInv'
  BY DEF CallInv, Claims, Down, GrantsDisjoint, Replay, NextToReplay,
      update_id_meta, WithIdMeta, inc_update, Greater
<1> QED
  BY <1>1, <1>2, <1>3, <1>4, <1>5, <1>6, <1>7

(* Everything up to a decided SCN was called back or replayed.             *)
LEMMA ReadDecidedScnPreserves ==
    ASSUME IInv, TypeOK', NEW d \in 0 .. MaxScn, ReadDecidedScn(d)
    PROVE  IInv'
<1>1. MetaInv' /\ ScnInv' /\ AppliedInv' /\ DurableInv' /\ CbInv'
  BY DEF ReadDecidedScn, MetaInv, ScnInv, AppliedInv, Committed, ToReplay,
      Replaying, DurableInv, Down, CbInv
<1>2. CheckpointInv'
  BY DEF CheckpointInv, ToReplay, Replaying, ReadDecidedScn,
      get_max_decided_scn
<1>3. CallInv'
  BY DEF CallInv, Claims, Down, GrantsDisjoint, ReadDecidedScn,
      get_max_decided_scn
<1> QED
  BY <1>1, <1>2, <1>3

(* A log applied after the decided SCN was read has a larger SCN, so the   *)
(* local checkpoint stays below the dump point.                            *)
LEMMA ReadRecScnPreserves ==
    ASSUME IInv, TypeOK', ReadRecScn
    PROVE  IInv'
<1>1. MetaInv' /\ ScnInv' /\ AppliedInv' /\ DurableInv' /\ CbInv'
  BY DEF ReadRecScn, MetaInv, ScnInv, AppliedInv, Committed, ToReplay,
      Replaying, DurableInv, Down, CbInv
<1>2. CheckpointInv'
  BY DEF CheckpointInv, ToReplay, Replaying, ReadRecScn, Lesser
<1>3. CallInv'
  BY DEF CallInv, Claims, Down, GrantsDisjoint, ReadRecScn, Lesser
<1> QED
  BY <1>1, <1>2, <1>3

(* The round ends without a new checkpoint.                                *)
LEMMA CheckpointNoChangePreserves ==
    ASSUME IInv, TypeOK', CheckpointNoChange
    PROVE  IInv'
<1>1. MetaInv' /\ ScnInv' /\ AppliedInv' /\ DurableInv' /\ CbInv'
  BY DEF CheckpointNoChange, MetaInv, ScnInv, AppliedInv, Committed, ToReplay,
      Replaying, DurableInv, Down, CbInv
<1>2. CheckpointInv'
  BY DEF CheckpointInv, ToReplay, Replaying, CheckpointNoChange
<1>3. CallInv'
  BY DEF CallInv, Claims, Down, GrantsDisjoint, CheckpointNoChange
<1> QED
  BY <1>1, <1>2, <1>3

(* The whole meta is written: what the new checkpoint excludes from        *)
(* replay is covered by the limit written with it.                         *)
LEMMA SetClogCheckpointPreserves ==
    ASSUME IInv, TypeOK', NEW lsn \in 0 .. MaxScn, NEW ok \in BOOLEAN,
        SetClogCheckpoint(lsn, ok)
    PROVE  IInv'
<1>1. CbInv'
  BY DEF SetClogCheckpoint, set_clog_checkpoint, write_slog_, CbInv, Committed
<1>2. MetaInv'
  BY DEF MetaInv, CheckpointInv, ToReplay, Replaying, SetClogCheckpoint,
      set_clog_checkpoint, write_slog_, WithCheckpoint
<1>3. ScnInv'
  BY DEF ScnInv, MIN_LAST_ID, MetaInv, SetClogCheckpoint, set_clog_checkpoint,
      write_slog_, WithCheckpoint
<1>4. AppliedInv'
  BY DEF AppliedInv, Committed, ToReplay, Replaying, MetaInv, CheckpointInv,
      SetClogCheckpoint, set_clog_checkpoint, write_slog_, WithCheckpoint
<1>5. CheckpointInv'
  BY DEF CheckpointInv, ToReplay, Replaying, SetClogCheckpoint,
      set_clog_checkpoint, write_slog_, WithCheckpoint
<1>6. DurableInv'
  BY DEF DurableInv, Committed, Down, ToReplay, Replaying, MetaInv,
      SetClogCheckpoint, set_clog_checkpoint, write_slog_, WithCheckpoint
<1>7. CallInv'
  BY DEF CallInv, Claims, Down, GrantsDisjoint, SetClogCheckpoint,
      set_clog_checkpoint, write_slog_, WithCheckpoint
<1> QED
  BY <1>1, <1>2, <1>3, <1>4, <1>5, <1>6, <1>7

(* Only entries below the checkpoint are recycled.                         *)
LEMMA AdvanceBaseLsnPreserves ==
    ASSUME IInv, TypeOK', AdvanceBaseLsn
    PROVE  IInv'
<1>1. MetaInv'
  BY DEF AdvanceBaseLsn, advance_base_lsn, MetaInv
<1>2. ScnInv'
  BY DEF ScnInv, MIN_LAST_ID, AdvanceBaseLsn, advance_base_lsn, Greater
<1>3. AppliedInv'
  BY DEF AppliedInv, Committed, ToReplay, Replaying, AdvanceBaseLsn,
      advance_base_lsn, Greater
<1>4. CheckpointInv'
  BY DEF CheckpointInv, ToReplay, Replaying, AdvanceBaseLsn, advance_base_lsn,
      Greater
<1>5. DurableInv'
  BY DEF DurableInv, Committed, Down, ToReplay, Replaying, MetaInv,
      CheckpointInv, AdvanceBaseLsn, advance_base_lsn, Greater
<1>6. CbInv'
  BY DEF CbInv, Committed, CheckpointInv, ToReplay, Replaying, MetaInv,
      AdvanceBaseLsn, advance_base_lsn, Greater
<1>7. CallInv'
  BY DEF CallInv, Claims, Down, GrantsDisjoint, AdvanceBaseLsn,
      advance_base_lsn, Greater
<1> QED
  BY <1>1, <1>2, <1>3, <1>4, <1>5, <1>6, <1>7

(* The round ends.                                                         *)
LEMMA FinishWithoutRecyclePreserves ==
    ASSUME IInv, TypeOK', FinishWithoutRecycle
    PROVE  IInv'
<1>1. MetaInv' /\ ScnInv' /\ AppliedInv' /\ DurableInv' /\ CbInv'
  BY DEF FinishWithoutRecycle, MetaInv, ScnInv, AppliedInv, Committed,
      ToReplay, Replaying, DurableInv, Down, CbInv
<1>2. CheckpointInv'
  BY DEF CheckpointInv, ToReplay, Replaying, FinishWithoutRecycle
<1>3. CallInv'
  BY DEF CallInv, Claims, Down, GrantsDisjoint, FinishWithoutRecycle
<1> QED
  BY <1>1, <1>2, <1>3

(* After a flush the limit on disk is the limit in memory.                 *)
LEMMA AdvanceCheckpointByFlushPreserves ==
    ASSUME IInv, TypeOK', NEW s \in (0 .. MaxScn) \union {SCN_MAX},
        AdvanceCheckpointByFlush(s)
    PROVE  IInv'
<1>1. CbInv' /\ CallInv'
  BY DEF AdvanceCheckpointByFlush, Flush, update_id_meta_slog, write_slog_,
      CbInv, Committed, CallInv, Claims, Down, GrantsDisjoint
<1>2. MetaInv'
  BY DEF MetaInv, AdvanceCheckpointByFlush, Flush, update_id_meta_slog,
      write_slog_, WithIdMeta, inc_update, Greater
<1>3. ScnInv'
  BY DEF ScnInv, MIN_LAST_ID, AdvanceCheckpointByFlush, Flush,
      update_id_meta_slog, write_slog_, WithIdMeta, inc_update, Greater
<1>4. AppliedInv'
  BY DEF AppliedInv, Committed, ToReplay, Replaying, MetaInv, CheckpointInv,
      AdvanceCheckpointByFlush, Flush, update_id_meta_slog, write_slog_,
      WithIdMeta, inc_update, Greater
<1>5. CheckpointInv'
  BY DEF CheckpointInv, ToReplay, Replaying, AdvanceCheckpointByFlush, Flush,
      update_id_meta_slog, write_slog_, WithIdMeta, inc_update, Greater
<1>6. DurableInv'
  BY DEF DurableInv, Committed, Down, ToReplay, Replaying,
      AdvanceCheckpointByFlush, Flush, update_id_meta_slog, write_slog_,
      WithIdMeta, inc_update, Greater
<1> QED
  BY <1>1, <1>2, <1>3, <1>4, <1>5, <1>6

(* Replay takes over at the committed end, above everything called back.   *)
LEMMA SwitchToFollowerPreserves ==
    ASSUME IInv, TypeOK', SwitchToFollower
    PROVE  IInv'
<1>1. MetaInv' /\ ScnInv'
  BY DEF SwitchToFollower, switch_role_to_follower, MetaInv, ScnInv
<1>2. AppliedInv'
  BY DEF AppliedInv, Committed, ToReplay, Replaying, SwitchToFollower,
      switch_role_to_follower
<1>3. CheckpointInv'
  BY DEF CheckpointInv, ToReplay, Replaying, MetaInv, SwitchToFollower,
      switch_role_to_follower
<1>4. DurableInv'
  BY DEF DurableInv, Committed, Down, ToReplay, Replaying, SwitchToFollower,
      switch_role_to_follower
<1>5. CbInv'
  BY DEF CbInv, Committed, SwitchToFollower, switch_role_to_follower
<1>6. CallInv'
  BY DEF CallInv, Claims, Down, GrantsDisjoint, SwitchToFollower,
      switch_role_to_follower
<1> QED
  BY <1>1, <1>2, <1>3, <1>4, <1>5, <1>6

(* Everything is replayed: every id handed out earlier is below            *)
(* limited_id_, and replay has left last_id_ at limited_id_.               *)
LEMMA SwitchToLeaderPreserves ==
    ASSUME IInv, TypeOK', SwitchToLeader
    PROVE  IInv'
<1>1. MetaInv'
  BY DEF SwitchToLeader, switch_role_to_leader, switch_id_service_to_leader,
      MetaInv
<1>2. ScnInv'
  BY DEF ScnInv, MIN_LAST_ID, SwitchToLeader, switch_role_to_leader,
      switch_id_service_to_leader, inc_update, Greater
<1>3. AppliedInv'
  BY DEF AppliedInv, Committed, ToReplay, Replaying, SwitchToLeader,
      switch_role_to_leader, switch_id_service_to_leader, inc_update, Greater
<1>4. CheckpointInv'
  BY DEF CheckpointInv, ToReplay, Replaying, SwitchToLeader,
      switch_role_to_leader, switch_id_service_to_leader, inc_update, Greater
<1>5. DurableInv'
  BY DEF DurableInv, Committed, Down, ToReplay, Replaying, SwitchToLeader,
      switch_role_to_leader, switch_id_service_to_leader, inc_update, Greater
<1>6. CbInv'
  <2>1. flying = {} /\ flying' = {} /\ clog' = clog /\ role' = "leader"
    BY DEF CbInv, Replaying, SwitchToLeader, switch_role_to_leader
  <2>2. \A e \in clog' : Committed(e)'
    BY <2>1 DEF ScnInv, Committed, Replaying, SwitchToLeader, switch_role_to_leader
  <2> QED
    BY <2>1, <2>2 DEF CbInv, SwitchToLeader
<1>7. CallInv'
  BY DEF CallInv, Claims, Down, GrantsDisjoint, DurableInv, Committed,
      ToReplay, Replaying, ScnInv, SwitchToLeader, switch_role_to_leader,
      switch_id_service_to_leader, inc_update, Greater
<1> QED
  BY <1>1, <1>2, <1>3, <1>4, <1>5, <1>6, <1>7

(* Recovery: what the slog does not cover lies in a committed entry at or  *)
(* above the dump point, hence not below the checkpoint, and is replayed.  *)
LEMMA RestartPreserves ==
    ASSUME IInv, TypeOK', Restart
    PROVE  IInv'
<1>1. MetaInv'
  BY DEF MetaInv, ScnInv, MIN_LAST_ID, Restart, restart_clog, enable_replay,
      restart_id_service, TruncateTo, inc_update, Greater, Idle, ResetCb
<1>2. ScnInv'
  BY DEF ScnInv, MIN_LAST_ID, Restart, restart_clog, enable_replay, restart_id_service,
      TruncateTo, inc_update, Greater, Idle, ResetCb
<1>3. AppliedInv'
  BY DEF AppliedInv, Committed, ToReplay, Replaying, MetaInv, Restart,
      restart_clog, enable_replay, restart_id_service, TruncateTo, inc_update, Greater, Idle,
      ResetCb
<1>4. CheckpointInv'
  BY DEF CheckpointInv, ToReplay, Replaying, Restart, restart_clog, enable_replay,
      restart_id_service, TruncateTo, inc_update, Greater, Idle, ResetCb
<1>5. DurableInv'
  <2>1. limited_id' = slog.limit
    BY DEF ScnInv, Restart, restart_id_service, inc_update, Greater, MIN_LAST_ID
  <2>2. \A e \in clog : Committed(e) => e \in clog' /\ Committed(e)'
    BY DEF Committed, ScnInv, Restart, restart_clog, enable_replay, TruncateTo
  <2>3. Down' /\ replay_next' = slog.ckpt
    BY DEF Down, Restart, restart_clog, enable_replay
  <2>4. \A e \in clog' : slog.ckpt <= e.scn => ToReplay(e)'
    BY <2>3 DEF ToReplay, Replaying, Down
  <2>5. ASSUME NEW g \in grants', ~(g.end <= slog.limit)
        PROVE  \E e \in clog : Committed(e) /\ slog.ckpt <= e.scn /\ g.end <= e.limit
    <3>1. g \in grants
      BY DEF Restart
    <3>2. CASE g.end <= limited_id
      BY <2>5, <3>1, <3>2 DEF DurableInv, MetaInv
    <3>3. CASE Down /\ \E e \in clog : Committed(e) /\ ToReplay(e) /\ g.end <= e.limit
      BY <3>1, <3>3 DEF CheckpointInv, MetaInv
    <3> QED
      BY <3>1, <3>2, <3>3 DEF DurableInv
  <2> QED
    BY <2>1, <2>2, <2>3, <2>4, <2>5 DEF DurableInv, Restart
<1>6. CbInv'
  BY DEF CbInv, Committed, Restart, restart_clog, enable_replay, restart_id_service,
      TruncateTo, inc_update, Greater, Idle, ResetCb
<1>7. CallInv'
  BY DEF CallInv, Claims, Down, GrantsDisjoint, Restart, restart_clog, enable_replay,
      restart_id_service, TruncateTo, inc_update, Greater, Idle, ResetCb
<1> QED
  BY <1>1, <1>2, <1>3, <1>4, <1>5, <1>6, <1>7
HIDE DEF TypeOK, IInv, metaVars, clogVars, idVars, callVars, ckptVars

(* Every step of the log stream keeps the inductive invariant.             *)
LEMMA NextIInv == ASSUME IInv, [Next]_vars PROVE IInv'
<1>1. TypeOK'
  BY TypeStep DEF IInv
<1>2. CASE ClogStep
  BY <1>1, <1>2, AppendOtherPreserves, CommitLogPreserves, RevokeLeaderPreserves,
     ApplySwitchToFollowerPreserves DEF ClogStep
<1>3. ASSUME NEW t \in Worker, NewCall(t) PROVE IInv'
  BY <1>1, <1>3, NewCallPreserves
<1>4. ASSUME NEW t \in Worker, CallStep(t) PROVE IInv'
  BY <1>1, <1>4, LoadLastPreserves, LoadLimitPreserves, SwapLastPreserves,
     SwapFailedPreserves, CheckLimitPreserves, PreAllocatePreserves,
     SubmitLogPreserves, SubmitLogSkipPreserves, FillCbPreserves DEF CallStep
<1>5. CASE CbStep
  BY <1>1, <1>5, OnSuccessPreserves, OnFailurePreserves, HandleSuccessPreserves,
     HandleFailurePreserves DEF CbStep
<1>6. CASE ReplayStep
  BY <1>1, <1>6, ReplayPreserves DEF ReplayStep
<1>7. CASE CheckpointStep
  BY <1>1, <1>7, ReadDecidedScnPreserves, ReadRecScnPreserves,
     CheckpointNoChangePreserves, SetClogCheckpointPreserves,
     AdvanceBaseLsnPreserves, FinishWithoutRecyclePreserves,
     AdvanceCheckpointByFlushPreserves DEF CheckpointStep
<1>8. CASE SwitchToFollower \/ SwitchToLeader \/ Restart
  BY <1>1, <1>8, SwitchToFollowerPreserves, SwitchToLeaderPreserves, RestartPreserves
<1>9. CASE UNCHANGED vars
  <2> USE <1>9 DEF vars, metaVars, clogVars, idVars, callVars, ckptVars
  <2>1. MetaInv' /\ ScnInv' /\ AppliedInv' /\ CheckpointInv'
    BY DEF IInv, MetaInv, ScnInv, AppliedInv, CheckpointInv, Committed, ToReplay,
           Replaying
  <2>2. DurableInv' /\ CbInv' /\ CallInv'
    BY DEF IInv, DurableInv, CbInv, CallInv, Committed, ToReplay, Replaying, Down,
           Claims, GrantsDisjoint
  <2> QED
    BY <1>1, <2>1, <2>2 DEF IInv
<1> QED
  BY <1>2, <1>3, <1>4, <1>5, <1>6, <1>7, <1>8, <1>9 DEF Next

(* IInv holds in every reachable state, for any number of threads, logs,   *)
(* restarts, revokes and failed slog writes.                               *)
THEOREM Inductive == Spec => []IInv
  BY InitIInv, NextIInv, PTL DEF Spec

-------------------------------------------------------------------------------
(* The properties                                                          *)

(* Types: every id, limit and SCN the code computes is a natural number,   *)
(* although get_number and NeedPreAllocate subtract.                       *)
THEOREM TypeCorrect == Spec => []TypeOK
<1>1. IInv => TypeOK
  BY DEF IInv
<1> QED
  BY <1>1, Inductive, PTL

(* get_number hands out no id twice, in whatever order the lock-free steps *)
(* of any number of threads, log callbacks, replays, role changes and      *)
(* restarts come.                                                          *)
THEOREM GrantsDisjointAlways == Spec => []GrantsDisjoint
<1>1. IInv => GrantsDisjoint
  BY DEF IInv, CallInv
<1> QED
  BY <1>1, Inductive, PTL

(* Every id handed out is below a limit that recovery finds, in the slog   *)
(* or in a committed log entry that is not recycled and not skipped.       *)
THEOREM GrantsDurableAlways == Spec => []GrantsDurable
<1>1. ASSUME IInv PROVE GrantsDurable
  <2>1. SUFFICES ASSUME NEW g \in grants PROVE Durable(g.end)
    BY DEF GrantsDurable
  <2> USE DEF Durable, IInv, TypeOK
  <2>2. CASE g.end <= limited_id
    BY <1>1, <2>2 DEF DurableInv, MetaInv
  <2>3. CASE Down /\ \E e \in clog : Committed(e) /\ ToReplay(e) /\ g.end <= e.limit
    BY <1>1, <2>3 DEF CheckpointInv, MetaInv
  <2> QED
    BY <1>1, <2>2, <2>3 DEF DurableInv
<1> QED
  BY <1>1, Inductive, PTL

(* A committed limit is in force unless its callback or its replay is      *)
(* still to come (on_success never works with an unfilled cb_).            *)
THEOREM CommittedLimitAppliedAlways == Spec => []CommittedLimitApplied
<1>1. IInv => CommittedLimitApplied
  BY DEF IInv, AppliedInv, CommittedLimitApplied, Pending, ToReplay
<1> QED
  BY <1>1, Inductive, PTL

(* on_success always runs with the limit and the SCN of its own log.       *)
THEOREM CallbackOwnsCbAlways == Spec => []CallbackOwnsCb
<1>1. ASSUME IInv PROVE CallbackOwnsCb
  BY <1>1 DEF IInv, TypeOK, ScnInv, CbInv, CallbackOwnsCb
<1> QED
  BY <1>1, Inductive, PTL

(* The clog checkpoint never passes the id service's dump point.           *)
THEOREM CheckpointBelowDumpPointAlways == Spec => []CheckpointBelowDumpPoint
<1>1. IInv => CheckpointBelowDumpPoint
  BY DEF IInv, MetaInv, CheckpointBelowDumpPoint
<1> QED
  BY <1>1, Inductive, PTL

(* A timestamp service that becomes leader after a restart starts at or    *)
(* above the SCN of every log, whether or not switch_to_leader raises      *)
(* last_id_ itself.                                                        *)
THEOREM RestartCoversLogAlways == Spec => RestartCoversLog
<1> DEFINE A == IsTimestamp /\ role = "restarting" /\ role' = "leader"
                  => last_id' >= max_scn
<1>1. ASSUME IInv, [Next]_vars, IsTimestamp, role = "restarting", role' = "leader"
      PROVE  last_id' >= max_scn
  <2> USE DEF metaVars, clogVars, idVars, callVars, ckptVars
  <2>1. ~ClogStep
    BY <1>1 DEF ClogStep, AppendOther, CommitLog, RevokeLeader,
       apply_switch_to_follower
  <2>2. ASSUME NEW t \in Worker, NewCall(t) \/ CallStep(t) PROVE FALSE
    BY <1>1, <2>2 DEF NewCall, CallStep, GetNumber, LoadLast, LoadLimit, SwapLast,
       SwapFailed, CheckLimit, PreAllocate, SubmitLog, append_, SubmitLogSkip, FillCb
  <2>3. ~CbStep /\ ~ReplayStep
    BY <1>1 DEF CbStep, ReplayStep, OnSuccess, OnFailure, StartCb, HandleSuccess,
       HandleFailure, FinishCb, Replay
  <2>4. ~CheckpointStep
    BY <1>1 DEF CheckpointStep, ReadDecidedScn, ReadRecScn, CheckpointNoChange,
       SetClogCheckpoint, AdvanceBaseLsn, advance_base_lsn, FinishWithoutRecycle,
       AdvanceCheckpointByFlush, Flush
  <2>5. ~SwitchToFollower /\ ~Restart /\ ~UNCHANGED vars
    BY <1>1 DEF SwitchToFollower, switch_role_to_follower, Restart, restart_clog, enable_replay, vars
  <2>6. SwitchToLeader
    BY <1>1, <2>1, <2>2, <2>3, <2>4, <2>5 DEF Next
  <2> QED
    BY <1>1, <2>6 DEF SwitchToLeader, switch_id_service_to_leader, inc_update,
       Greater, IInv, TypeOK, CallInv, Down
<1>2. ASSUME IInv, [Next]_vars PROVE [A]_vars
  BY <1>1, <1>2
<1> QED
  BY <1>2, Inductive, PTL DEF Spec, RestartCoversLog

-------------------------------------------------------------------------------
(* Replay finds its start                                                  *)

USE DEF metaVars, clogVars, idVars, callVars, ckptVars

(* Only a restart and the checkpoint touch the bases, the slog or role     *)
(* "lost".                                                                 *)
LEMMA BaseStep == ASSUME IInv, BaseInv, [Next]_vars PROVE BaseInv'
<1> USE DEF IInv, TypeOK, BaseInv
<1>1. CASE ClogStep
  BY <1>1 DEF ClogStep, AppendOther, CommitLog, RevokeLeader, apply_switch_to_follower
<1>2. ASSUME NEW t \in Worker, NewCall(t) PROVE BaseInv'
  BY <1>2 DEF NewCall, GetNumber
<1>3. ASSUME NEW t \in Worker, CallStep(t) PROVE BaseInv'
  <2>1. UNCHANGED <<meta, slog, slog_fails, recycled, role>>
    BY <1>3 DEF CallStep, LoadLast, LoadLimit, SwapLast, SwapFailed, CheckLimit,
       PreAllocate, SubmitLog, append_, SubmitLogSkip, FillCb
  <2> QED
    BY <2>1
<1>4. CASE CbStep
  <2>1. UNCHANGED <<slog, slog_fails, recycled, role>> /\ meta'.base = meta.base
    BY <1>4 DEF CbStep, OnSuccess, OnFailure, StartCb, HandleSuccess, HandleFailure,
       FinishCb, update_id_meta, WithIdMeta
  <2> QED
    BY <2>1
<1>5. CASE ReplayStep
  <2>1. UNCHANGED <<slog, slog_fails, recycled, role>> /\ meta'.base = meta.base
    BY <1>5 DEF ReplayStep, Replay, update_id_meta, WithIdMeta
  <2> QED
    BY <2>1
<1>6. CASE CheckpointStep
  <2>1. CASE (\E d \in 0 .. MaxScn : ReadDecidedScn(d)) \/ ReadRecScn \/ CheckpointNoChange
              \/ FinishWithoutRecycle
    BY <2>1 DEF ReadDecidedScn, ReadRecScn, CheckpointNoChange, FinishWithoutRecycle
  <2>2. ASSUME NEW lsn \in 0 .. MaxScn, NEW ok \in BOOLEAN, SetClogCheckpoint(lsn, ok)
        PROVE  BaseInv'
    <3>1. /\ UNCHANGED <<recycled, role>> /\ meta'.base = lsn /\ meta.base <= lsn
          /\ write_slog_(WithCheckpoint(meta, lsn, ckpt_scn), ok)
      BY <2>2 DEF SetClogCheckpoint, set_clog_checkpoint, WithCheckpoint
    <3>2. CASE ok
      BY <3>1, <3>2 DEF write_slog_, WithCheckpoint
    <3>3. CASE ~ok
      BY <3>1, <3>3 DEF write_slog_
    <3> QED
      BY <3>2, <3>3
  <2>3. CASE AdvanceBaseLsn
    BY <2>3 DEF AdvanceBaseLsn, advance_base_lsn, Greater
  <2>4. ASSUME NEW s \in (0 .. MaxScn) \union {SCN_MAX}, AdvanceCheckpointByFlush(s)
        PROVE  BaseInv'
    <3>1. PICK ok \in BOOLEAN : update_id_meta_slog(limited_id, latest_log_ts, ok)
      BY <2>4 DEF AdvanceCheckpointByFlush, Flush
    <3>2. UNCHANGED <<recycled, role>> /\ meta'.base = meta.base
      BY <2>4, <3>1 DEF AdvanceCheckpointByFlush, Flush, update_id_meta_slog, WithIdMeta
    <3>3. CASE ok
      BY <3>1, <3>2, <3>3 DEF update_id_meta_slog, write_slog_, WithIdMeta
    <3>4. CASE ~ok
      BY <3>1, <3>2, <3>4 DEF update_id_meta_slog, write_slog_
    <3> QED
      BY <3>3, <3>4
  <2> QED
    BY <1>6, <2>1, <2>2, <2>3, <2>4 DEF CheckpointStep
<1>7. CASE SwitchToFollower \/ SwitchToLeader
  BY <1>7 DEF SwitchToFollower, SwitchToLeader, switch_role_to_follower, switch_role_to_leader
<1>8. CASE Restart
  BY <1>8 DEF Restart, restart_clog, enable_replay
<1>9. CASE UNCHANGED vars
  BY <1>9 DEF vars
<1> QED
  BY <1>1, <1>2, <1>3, <1>4, <1>5, <1>6, <1>7, <1>8, <1>9 DEF Next

(* As long as no slog write has failed, a restart finds the log from the   *)
(* persisted base on, however rounds of the checkpoint, flushes and        *)
(* restarts follow each other.                                             *)
THEOREM ReplayStartAlways == Spec => []ReplayStartUnlessWriteFailed
<1>1. Init => BaseInv
  BY DEF Init, BaseInv, EmptyMeta
<1>2. BaseInv => ReplayStartUnlessWriteFailed
  BY DEF BaseInv, ReplayStartUnlessWriteFailed, ReplayStartAvailable
<1> QED
  BY <1>1, <1>2, BaseStep, Inductive, PTL DEF Spec

-------------------------------------------------------------------------------
(* The id service implements the oracle                                    *)

(* What every step that leaves the calls alone does to the oracle: nothing *)
(* as long as last_id_ does not go back.                                   *)
LEMMA SeenFrame ==
  ASSUME IInv, SeenInv, UNCHANGED callVars, last_id' \in Nat, last_id <= last_id'
  PROVE  SeenInv' /\ UNCHANGED Oracle!vars
<1>1. SeenInv'
  BY DEF IInv, TypeOK, SeenInv
<1>2. UNCHANGED Oracle!vars
  BY DEF Oracle!vars
<1> QED
  BY <1>1, <1>2

(* A call of get_number begins.                                            *)
LEMMA NewCallBegins ==
  ASSUME IInv, SeenInv, NEW t \in Worker, NewCall(t)
  PROVE  SeenInv' /\ Oracle!Begin(t)
<1> USE DEF IInv, TypeOK
<1>1. PICK r \in Ranges, b \in Bases : GetNumber(t, r, b)
  BY DEF NewCall
<1>2. /\ th' = [th EXCEPT ![t] = [pc |-> "load", range |-> r, base |-> b, last |-> 0,
                                  alloc |-> 0, tmp |-> 0, pre |-> 0, seen |-> max_end]]
      /\ th[t].pc = "idle" /\ role = "leader" /\ UNCHANGED <<last_id, grants, max_end>>
  BY <1>1 DEF GetNumber, check_leader
<1>3. /\ th'[t].pc = "load" /\ th'[t].seen = max_end /\ th[t].seen = 0
      /\ \A u \in Worker \ {t} : th'[u] = th[u]
  BY <1>2 DEF SeenInv
<1>4. max_end <= last_id
  BY <1>2 DEF SeenInv, CallInv, Down, ScnInv
<1>5. SeenInv'
  BY <1>2, <1>3, <1>4 DEF SeenInv, MIN_LAST_ID
<1>6. Oracle!Begin(t)
  <2>1. max_end > 0 /\ \A g \in grants : g.end <= max_end
    BY DEF SeenInv, MIN_LAST_ID
  <2>2. \A x \in {<<g.start, g.end>> : g \in grants} : x[2] <= max_end
    BY <2>1
  <2>3. [u \in Worker |-> th[u].seen][t] = 0 /\ [u \in Worker |-> th[u].seen]'[t] = max_end
    BY <1>3
  <2>4. [u \in Worker |-> th[u].seen]' = [[u \in Worker |-> th[u].seen] EXCEPT ![t] = max_end]
    BY <1>3
  <2>5. UNCHANGED {<<g.start, g.end>> : g \in grants}
    BY <1>2
  <2> QED
    BY <2>1, <2>2, <2>3, <2>4, <2>5 DEF Oracle!Begin
<1> QED
  BY <1>5, <1>6

(* A call that ends without ids.                                           *)
LEMMA CallFails ==
  ASSUME NEW t \in Worker, UNCHANGED grants, th'[t].seen = 0,
         \A u \in Worker \ {t} : th'[u] = th[u]
  PROVE  Oracle!Fail(t)
<1>1. [u \in Worker |-> th[u].seen]' = [[u \in Worker |-> th[u].seen] EXCEPT ![t] = 0]
  OBVIOUS
<1> QED
  BY <1>1 DEF Oracle!Fail

(* A call that goes on.                                                    *)
LEMMA CallGoesOn ==
  ASSUME NEW t \in Worker, UNCHANGED grants, th'[t].seen = th[t].seen,
         \A u \in Worker \ {t} : th'[u] = th[u]
  PROVE  UNCHANGED Oracle!vars
<1>1. [u \in Worker |-> th[u].seen]' = [u \in Worker |-> th[u].seen]
  OBVIOUS
<1> QED
  BY <1>1 DEF Oracle!vars

(* The range a call is granted is new, and above what it has seen.         *)
LEMMA CheckLimitIssues ==
  ASSUME IInv, SeenInv, NEW t \in Worker, CheckLimit(t), th[t].tmp < limited_id
  PROVE  Oracle!Issue(t)
<1> USE DEF IInv, TypeOK
<1> DEFINE r == <<th[t].tmp, GrantedEnd(t)>>
           g0 == [n |-> grant_cnt, start |-> th[t].tmp, end |-> GrantedEnd(t),
                  seen |-> th[t].seen]
<1>1. /\ th[t].pc = "check" /\ grants' = grants \union {g0} /\ th'[t].seen = 0
      /\ \A u \in Worker \ {t} : th'[u] = th[u]
  BY DEF CheckLimit, Goto
<1>2. /\ th[t].alloc > 0 /\ th[t].seen > 0 /\ th[t].seen <= th[t].tmp
  BY <1>1 DEF SeenInv, CallInv
<1>3. th[t].tmp < GrantedEnd(t) /\ GrantedEnd(t) <= th[t].tmp + th[t].alloc
  BY <1>2 DEF GrantedEnd, Lesser
<1>4. \A g \in grants : g.end <= th[t].tmp \/ GrantedEnd(t) <= g.start
  <2>1. GrantedEnd(t) \in Nat
    BY DEF GrantedEnd, Lesser
  <2> QED
    BY <1>1, <1>3, <2>1 DEF CallInv, Claims
<1>5. {<<g.start, g.end>> : g \in grants}' = {<<g.start, g.end>> : g \in grants} \union {r}
  <2>1. <<g0.start, g0.end>> = r
    OBVIOUS
  <2>2. g0 \in grants' /\ \A g \in grants' : g \in grants \/ g = g0
    BY <1>1
  <2>3. grants \subseteq grants'
    BY <1>1
  <2> HIDE DEF r, g0
  <2>4. ASSUME NEW x \in {<<g.start, g.end>> : g \in grants'}
        PROVE  x \in {<<g.start, g.end>> : g \in grants} \union {r}
    BY <2>1, <2>2
  <2>5. ASSUME NEW x \in {<<g.start, g.end>> : g \in grants} \union {r}
        PROVE  x \in {<<g.start, g.end>> : g \in grants'}
    BY <2>1, <2>2, <2>3
  <2> QED
    BY <2>4, <2>5
<1>6. [u \in Worker |-> th[u].seen]' = [[u \in Worker |-> th[u].seen] EXCEPT ![t] = 0]
  BY <1>1
<1>7. \A s \in {<<g.start, g.end>> : g \in grants} : s[2] <= r[1] \/ r[2] <= s[1]
  BY <1>4
<1>8. r[1] < r[2] /\ th[t].seen <= r[1] /\ th[t].seen > 0
  BY <1>2, <1>3
<1> HIDE DEF r
<1>9. r \in {<<g.start, g.end>> : g \in grants}'
  BY <1>5
<1>10. [u \in Worker |-> th[u].seen][t] = th[t].seen
  OBVIOUS
<1> QED
  BY <1>5, <1>6, <1>7, <1>8, <1>9, <1>10 DEF Oracle!Issue

(* Handing out a range keeps SeenInv: max_end grows with it.               *)
LEMMA CheckLimitSeen ==
  ASSUME IInv, SeenInv, NEW t \in Worker, CheckLimit(t), th[t].tmp < limited_id
  PROVE  SeenInv'
<1> DEFINE g0 == [n |-> grant_cnt, start |-> th[t].tmp, end |-> GrantedEnd(t),
                  seen |-> th[t].seen]
<1>1. /\ th \in [Worker -> ThreadType] /\ limited_id \in Nat /\ max_end \in Nat
      /\ last_id \in Nat /\ \A g \in grants : g.end \in Nat
  BY DEF IInv, TypeOK
<1>2. /\ grants' = grants \union {g0} /\ max_end' = Greater(max_end, GrantedEnd(t))
      /\ th'[t].seen = 0 /\ th'[t].pc = "pre" /\ UNCHANGED last_id
      /\ \A u \in Worker \ {t} : th'[u] = th[u]
  BY <1>1 DEF CheckLimit, Goto
<1>3. GrantedEnd(t) \in Nat /\ g0.end = GrantedEnd(t)
  BY <1>1 DEF GrantedEnd, Lesser
<1> HIDE DEF g0
<1>4. MIN_LAST_ID <= max_end' /\ \A g \in grants' : g.end <= max_end'
  BY <1>1, <1>2, <1>3 DEF SeenInv, Greater, MIN_LAST_ID
<1>5. max_end' = MIN_LAST_ID \/ \E g \in grants' : g.end = max_end'
  BY <1>1, <1>2, <1>3 DEF SeenInv, Greater
<1>6. ASSUME NEW u \in Worker
      PROVE  /\ th'[u].pc \in {"idle", "pre", "submit", "fill"} <=> th'[u].seen = 0
             /\ th'[u].pc \in {"load", "limit", "swap", "faa"} => th'[u].seen <= last_id'
             /\ th'[u].pc \in {"limit", "swap"} => th'[u].seen <= th'[u].last
             /\ th'[u].pc = "check" => th'[u].seen <= th'[u].tmp
  <2>1. CASE u = t
    BY <1>2, <2>1
  <2>2. CASE u # t
    <3>1. th'[u] = th[u] /\ UNCHANGED last_id
      BY <1>2, <2>2
    <3> QED
      BY <3>1 DEF SeenInv
  <2> QED
    BY <2>1, <2>2
<1> QED
  BY <1>4, <1>5, <1>6 DEF SeenInv

(* What a step of thread t needs to keep SeenInv when it hands out nothing *)
(* and does not move last_id_ back.                                        *)
LEMMA SeenOfThread ==
  ASSUME IInv, SeenInv, NEW t \in Worker, th' \in [Worker -> ThreadType],
         \A u \in Worker \ {t} : th'[u] = th[u],
         UNCHANGED <<grants, max_end>>, last_id' \in Nat, last_id <= last_id',
         th'[t].pc \in {"idle", "pre", "submit", "fill"} <=> th'[t].seen = 0,
         th'[t].pc \in {"load", "limit", "swap", "faa"} => th'[t].seen <= last_id',
         th'[t].pc \in {"limit", "swap"} => th'[t].seen <= th'[t].last,
         th'[t].pc = "check" => th'[t].seen <= th'[t].tmp
  PROVE  SeenInv'
<1> USE DEF IInv, TypeOK
<1>1. /\ MIN_LAST_ID <= max_end' /\ \A g \in grants' : g.end <= max_end'
      /\ max_end' = MIN_LAST_ID \/ \E g \in grants' : g.end = max_end'
  BY DEF SeenInv
<1>2. ASSUME NEW u \in Worker
      PROVE  /\ th'[u].pc \in {"idle", "pre", "submit", "fill"} <=> th'[u].seen = 0
             /\ th'[u].pc \in {"load", "limit", "swap", "faa"} => th'[u].seen <= last_id'
             /\ th'[u].pc \in {"limit", "swap"} => th'[u].seen <= th'[u].last
             /\ th'[u].pc = "check" => th'[u].seen <= th'[u].tmp
  <2>1. CASE u = t
    BY <2>1
  <2>2. CASE u # t
    <3>1. th'[u] = th[u] /\ th[u].seen \in Nat
      BY <2>2
    <3> QED
      BY <3>1 DEF SeenInv
  <2> QED
    BY <2>1, <2>2
<1> QED
  BY <1>1, <1>2 DEF SeenInv

(* Every step of get_number is a step of the oracle or leaves it alone.    *)
LEMMA CallStepSimulates ==
  ASSUME IInv, SeenInv, NEW t \in Worker, CallStep(t)
  PROVE  SeenInv' /\ [Oracle!Next]_(Oracle!vars)
<1>0. th' \in [Worker -> ThreadType] /\ last_id' \in Nat
  <2>1. [Next]_vars
    BY DEF Next
  <2> QED
    BY <2>1, TypeStep DEF TypeOK, IInv
<1>s. /\ th[t].pc \in {"idle", "pre", "submit", "fill"} <=> th[t].seen = 0
      /\ th[t].pc \in {"load", "limit", "swap", "faa"} => th[t].seen <= last_id
      /\ th[t].pc \in {"limit", "swap"} => th[t].seen <= th[t].last
      /\ th[t].pc = "check" => th[t].seen <= th[t].tmp
  BY DEF SeenInv
<1>t. /\ last_id \in Nat /\ limited_id \in Nat /\ th \in [Worker -> ThreadType]
      /\ th[t] \in ThreadType
      /\ th[t].seen \in Nat /\ th[t].alloc \in Nat /\ th[t].last \in Nat
      /\ th[t].base \in Nat /\ th[t].tmp \in Nat
  BY DEF IInv, TypeOK
<1>1. CASE LoadLast(t)
  <2>1. /\ th[t].pc = "load" /\ th'[t].pc = "limit" /\ th'[t].last = last_id
        /\ th'[t].seen = th[t].seen /\ \A u \in Worker \ {t} : th'[u] = th[u]
        /\ UNCHANGED <<grants, max_end, last_id>>
    BY <1>1, <1>t DEF LoadLast, Goto
  <2> QED
    BY <1>0, <1>s, <1>t, <2>1, SeenOfThread, CallGoesOn
<1>2. CASE LoadLimit(t)
  <2>1. /\ th[t].pc = "limit" /\ \A u \in Worker \ {t} : th'[u] = th[u]
        /\ UNCHANGED <<grants, max_end, last_id>>
        /\ \/ th'[t].pc = "pre" /\ th'[t].seen = 0
           \/ th'[t].pc = "swap" /\ th'[t].last = th[t].last /\ th'[t].seen = th[t].seen
    BY <1>2, <1>t DEF LoadLimit, Goto
  <2>2. SeenInv'
    BY <1>0, <1>s, <1>t, <2>1, SeenOfThread
  <2>3. Oracle!Fail(t) \/ UNCHANGED Oracle!vars
    BY <2>1, CallFails, CallGoesOn
  <2> QED
    BY <2>2, <2>3 DEF Oracle!Next
<1>3. CASE SwapLast(t)
  <2>1. /\ th[t].pc = "swap" /\ \A u \in Worker \ {t} : th'[u] = th[u]
        /\ UNCHANGED <<grants, max_end>> /\ th'[t].seen = th[t].seen
        /\ \/ /\ th[t].base > th[t].last /\ last_id = th[t].last
              /\ last_id' = th[t].base + th[t].alloc
              /\ th'[t].pc = "check" /\ th'[t].tmp = th[t].base
           \/ th'[t].pc = "faa" /\ last_id' = last_id
           \/ last_id' = last_id + th[t].alloc /\ th'[t].pc = "check" /\ th'[t].tmp = last_id
    BY <1>3, <1>t DEF SwapLast, FetchAndAdd, Goto
  <2>2. last_id <= last_id'
    BY <1>t, <2>1
  <2>3. \/ th'[t].pc = "faa"
        \/ th'[t].pc = "check" /\ th'[t].seen <= th'[t].tmp
    BY <1>t, <1>s, <2>1
  <2>4. th'[t].pc = "faa" => th'[t].seen <= last_id'
    BY <1>t, <1>s, <2>1
  <2>5. SeenInv'
    BY <1>0, <1>s, <2>1, <2>2, <2>3, <2>4, SeenOfThread
  <2> QED
    BY <2>1, <2>5, CallGoesOn
<1>4. CASE SwapFailed(t)
  <2>1. /\ th[t].pc = "faa" /\ \A u \in Worker \ {t} : th'[u] = th[u]
        /\ UNCHANGED <<grants, max_end>> /\ th'[t].seen = th[t].seen
        /\ last_id' = last_id + th[t].alloc /\ th'[t].pc = "check" /\ th'[t].tmp = last_id
    BY <1>4, <1>t DEF SwapFailed, FetchAndAdd, Goto
  <2>2. SeenInv'
    BY <1>0, <1>s, <1>t, <2>1, SeenOfThread
  <2> QED
    BY <2>1, <2>2, CallGoesOn
<1>5. CASE CheckLimit(t)
  <2>1. CASE th[t].tmp >= limited_id
    <3>1. /\ \A u \in Worker \ {t} : th'[u] = th[u]
          /\ UNCHANGED <<grants, max_end, last_id>>
          /\ th'[t].pc = "pre" /\ th'[t].seen = 0
      BY <1>5, <1>t, <2>1 DEF CheckLimit, Goto
    <3>2. SeenInv'
      BY <1>0, <1>t, <3>1, SeenOfThread
    <3>3. Oracle!Fail(t)
      BY <3>1, CallFails
    <3> QED
      BY <3>2, <3>3 DEF Oracle!Next
  <2>2. CASE th[t].tmp < limited_id
    <3>1. Oracle!Issue(t)
      BY <1>5, <2>2, CheckLimitIssues
    <3>2. SeenInv'
      BY <1>5, <2>2, CheckLimitSeen
    <3> QED
      BY <3>1, <3>2 DEF Oracle!Next
  <2> QED
    BY <1>t, <2>1, <2>2
<1>6. CASE PreAllocate(t)
  <2>1. /\ th[t].pc = "pre" /\ \A u \in Worker \ {t} : th'[u] = th[u]
        /\ UNCHANGED <<grants, max_end>> /\ th'[t].seen = 0
        /\ th'[t].pc \in {"idle", "submit"}
        /\ last_id' = last_id \/ last_id' = LastAfterPreAllocate(t)
    BY <1>6, <1>t DEF PreAllocate, Idle
  <2>2. last_id <= last_id'
    BY <1>t, <2>1 DEF LastAfterPreAllocate, inc_update, Greater
  <2>3. SeenInv'
    BY <1>0, <2>1, <2>2, SeenOfThread
  <2> QED
    BY <1>s, <2>1, <2>3, CallGoesOn
<1>7. CASE SubmitLog(t) \/ SubmitLogSkip(t) \/ FillCb(t)
  <2>1. /\ th[t].pc \in {"submit", "fill"} /\ \A u \in Worker \ {t} : th'[u] = th[u]
        /\ UNCHANGED <<grants, max_end, last_id>> /\ th'[t].seen = 0
        /\ th'[t].pc \in {"idle", "fill"}
    BY <1>7, <1>t DEF SubmitLog, SubmitLogSkip, FillCb, Goto, Idle
  <2>2. SeenInv'
    BY <1>0, <1>t, <2>1, SeenOfThread
  <2> QED
    BY <1>s, <2>1, <2>2, CallGoesOn
<1> QED
  BY <1>1, <1>2, <1>3, <1>4, <1>5, <1>6, <1>7 DEF CallStep

(* A restart aborts every call: the oracle's Crash.                        *)
LEMMA RestartCrashes ==
  ASSUME IInv, SeenInv, Restart PROVE SeenInv' /\ Oracle!Crash
<1>1. /\ th' = [t \in Worker |-> Idle] /\ UNCHANGED <<grants, max_end>>
  BY DEF Restart, restart_id_service
<1>2. SeenInv'
  BY <1>1 DEF SeenInv, Idle
<1>3. [t \in Worker |-> th[t].seen]' = [t \in Worker |-> 0]
  BY <1>1 DEF Idle
<1> QED
  BY <1>1, <1>2, <1>3 DEF Oracle!Crash

(* The steps of everything but the calls do not touch the oracle, because  *)
(* none of them moves last_id_ back.                                       *)
LEMMA OthersStutter ==
  ASSUME IInv, SeenInv, ClogStep \/ CbStep \/ ReplayStep \/ CheckpointStep
                        \/ SwitchToFollower \/ SwitchToLeader \/ UNCHANGED vars
  PROVE  SeenInv' /\ UNCHANGED Oracle!vars
<1> SUFFICES UNCHANGED callVars /\ last_id' \in Nat /\ last_id <= last_id'
  BY SeenFrame
<1>1. last_id \in Nat /\ max_scn \in Nat /\ tmp_last_id = 0 /\ clog \subseteq EntryType
  BY DEF IInv, TypeOK, ScnInv
<1>2. CASE ClogStep
  BY <1>1, <1>2 DEF ClogStep
<1>3. CASE CbStep
  BY <1>1, <1>3 DEF CbStep, OnSuccess, OnFailure, StartCb, HandleSuccess,
     HandleFailure, FinishCb
<1>4. CASE ReplayStep
  BY <1>1, <1>4 DEF ReplayStep, Replay, inc_update, Greater
<1>5. CASE CheckpointStep
  BY <1>1, <1>5 DEF CheckpointStep, ReadDecidedScn, ReadRecScn, CheckpointNoChange,
     SetClogCheckpoint, AdvanceBaseLsn, FinishWithoutRecycle,
     AdvanceCheckpointByFlush, Flush
<1>6. CASE SwitchToFollower \/ SwitchToLeader
  BY <1>1, <1>6 DEF SwitchToFollower, SwitchToLeader, switch_id_service_to_leader,
     inc_update, Greater
<1>7. CASE UNCHANGED vars
  BY <1>1, <1>7 DEF vars
<1> QED
  BY <1>2, <1>3, <1>4, <1>5, <1>6, <1>7

(* The id service implements the id oracle, for any number of threads,     *)
(* logs and restarts: begin, issue, fail and crash are the only things a   *)
(* caller sees of get_number, of the log callbacks, of replay and of role  *)
(* changes.                                                                *)
THEOREM LogStreamImplementsOracle == Spec => ImplementsOracle
<1>1. Init => SeenInv
  BY DEF Init, SeenInv, Idle, MIN_LAST_ID
<1>2. Init => Oracle!Init
  <2> SUFFICES ASSUME Init PROVE Oracle!Init
    OBVIOUS
  <2>1. {<<g.start, g.end>> : g \in grants} = {}
    BY DEF Init
  <2>2. [t \in Worker |-> th[t].seen] = [t \in Worker |-> 0]
    BY DEF Init, Idle
  <2> QED
    BY <2>1, <2>2 DEF Oracle!Init
<1>3. ASSUME IInv, SeenInv, [Next]_vars
      PROVE  SeenInv' /\ [Oracle!Next]_(Oracle!vars)
  <2>1. ASSUME NEW t \in Worker, NewCall(t)
        PROVE  SeenInv' /\ [Oracle!Next]_(Oracle!vars)
    BY <1>3, <2>1, NewCallBegins DEF Oracle!Next
  <2>2. ASSUME NEW t \in Worker, CallStep(t)
        PROVE  SeenInv' /\ [Oracle!Next]_(Oracle!vars)
    BY <1>3, <2>2, CallStepSimulates
  <2>3. CASE Restart
    BY <1>3, <2>3, RestartCrashes DEF Oracle!Next
  <2>4. CASE ClogStep \/ CbStep \/ ReplayStep \/ CheckpointStep
             \/ SwitchToFollower \/ SwitchToLeader \/ UNCHANGED vars
    BY <1>3, <2>4, OthersStutter
  <2> QED
    BY <1>3, <2>1, <2>2, <2>3, <2>4 DEF Next
<1> QED
  BY <1>1, <1>2, <1>3, Inductive, PTL DEF Spec, ImplementsOracle, Oracle!Spec

===============================================================================
