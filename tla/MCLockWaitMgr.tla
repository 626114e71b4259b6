---------------------------- MODULE MCLockWaitMgr -----------------------------
(* Small instances of LockWaitMgr for TLC.                                 *)
EXTENDS LockWaitMgr


===============================================================================
