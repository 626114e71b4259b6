# Specifications of the log stream layer

The repository is a relational, vector and full-text database of the
OceanBase family (C++).  Most of its source is query processing.  What makes the
database *correct* across threads, role changes and restarts is a smaller
part: the **log stream** (LS).  Every change is a log entry of the one log of
its log stream; a callback applies it on the leader, replay applies it
elsewhere or after a restart; a checkpoint decides how much of the log may be
thrown away.  This directory holds TLA+ specifications of that layer, of the two
lock-free structures PALF's appends run through, of the parallel replay of a log stream, of the lock waits that
connect transactions, and of a transaction's commit across role changes; TLC configurations that check them on small instances; and
TLAPS proofs.

Paths below are relative to the repository's `src/` directory (so
`storage/tx/ob_id_service.cpp` is the file of that name in the source tree).

* [1 Inventory](#1-inventory)
* [2 Modules and how they correspond to the code](#2-modules-and-how-they-correspond-to-the-code)
* [3 Runs](#3-runs), [bounds](#31-bounds), [fairness](#32-fairness)
* [4 Proofs](#4-proofs)
* [5 What the project found](#5-what-the-project-found)
* [6 What is not modelled](#6-what-is-not-modelled)
* [7 Plan](#7-plan)

## 1 Inventory

### 1.1 Components, their state and their operations

| Component | State | Operations | Status |
|---|---|---|---|
| **Id service** `ObIDService` (`storage/tx/ob_id_service.cpp`) and its kinds: timestamps, transaction ids, DAS ids | `last_id_`, `limited_id_`, `tmp_last_id_`, `is_logging_`, `rec_log_ts_`, `latest_log_ts_`, `rwlock_`, one callback object `cb_` | `get_number` (lock free), `submit_log_with_lock_`, `handle_submit_callback`, `replay`, `flush`, `update_limited_id`, `switch_to_leader` | modelled |
| **LS meta** `ObLSMeta` (`storage/ls/ob_ls_meta.cpp`) | id meta, clog checkpoint SCN, clog base LSN; in memory and in the storage log (slog) | `update_id_meta`, `set_clog_checkpoint`, `write_slog_` | those three fields |
| **Checkpoint executor** and the checkpoint timer (`storage/checkpoint/ob_checkpoint_executor.cpp`, `storage/tx_storage/ob_checkpoint_service.cpp`) | locals of a round | `update_clog_checkpoint`, `advance_checkpoint_by_flush`, `advance_base_lsn` | one log stream |
| **Log handler** `ObLogHandler` (`logservice/ob_log_handler.cpp`) | `role_`, `proposal_id_`, `lock_`, the critical section of appends | `append_`, `switch_role`, `get_max_decided_scn`, `advance_base_lsn` | append and role |
| **Apply service** `ObApplyStatus`, `ObThreadLease`, the pool (`logservice/applyservice/`) | role, proposal id, committed end, callback queues and their counters, leases, `last_check_scn_`, `max_applied_cb_scn_` | `push_append_cb`, `try_submit_cb_queues`, `try_handle_cb_queue`, `update_palf_committed_end_lsn`, `switch_to_leader/follower`, `get_max_applied_scn` | all but stop and unregister |
| **Replay service** `ObReplayStatus` (`logservice/replayservice/`) | role, enabled, blocked, next LSN and SCN to submit, task queues, leases, references of barrier logs, post barrier, pending count | the submit task, the queues' tasks, `get_min_unreplayed_log_info`, `switch_to_leader/follower`, `enable/disable`, `block/unblock_submit`, `update_end_offset` | all but standby, decompression and stop |
| **Role change service** `ObRoleChangeService` (`logservice/rcservice/`) | a de-duplicated event queue, one thread | four transitions of a role change event, retry after a timeout | forced changes |
| **PALF** (`logservice/palf/`) | the log, the sliding window, role, proposal id | append, slide, truncate, reconfirm, become pending/follower/leader | its contract to the layers above, on one replica |
| **Storage log** (`storage/slog/`) | records | append | a write succeeds, or fails with or without an effect |
| **LSN allocator** `LSNAllocator` (`logservice/palf/lsn_allocator.cpp`) | a 128-bit word (cut flag, log id delta, SCN delta, LSN), the two bases | `alloc_lsn_scn`, `try_freeze`, `inc_update_last_log_info`, `inc_update_scn_base`, `truncate` | modelled |
| **Fixed sliding window** `FixedSlidingWindow` (`logservice/palf/fixed_sliding_window.h`) | `begin_sn_`, `end_sn_`, the slots with their reference counts and locks | `get`, `revert`, `slide`, `truncate`, `truncate_and_reset_begin_sn` | modelled |
| **Lock wait manager** `ObLockWaitMgr` (`storage/memtable/ob_lock_wait_mgr.cpp`) | a lock-free hash of waiting nodes, a sequence per bucket, `total_wait_node_` | `setup`, `post_lock`, `post_process`, `wait`, `wakeup`, `transform_row_lock_to_tx_lock`, `check_timeout`, stop | row and transaction waits |
| **Transaction context** `ObPartTransCtx` (`storage/tx/ob_trans_part_ctx.cpp`), its requests in `ObTransService` | durable state, action, role, flags of the logs submitted, versions, log callbacks in flight, GTS wait, `commit_cb_`, `data_complete_`, `start_working_log_ts_` | `commit`, `abort`, `handle_timeout`, `on_success`, `on_failure`, GTS callbacks, redo for freeze, the four role switches | one-phase transactions |
| **LS transaction state** `ObTxLSStateMgr`, `ObLSTxCtxMgr` (`storage/tx/ob_tx_ls_state_mgr.cpp`, `ob_trans_ctx_mgr_v4.cpp`) | `TxLSState`, the start working log | switch to leader, to follower (gracefully, forcedly), resume, the log's callback and its retry | role changes |
| PALF election, deadlock detector, table lock | see `PROJECT.json` | | not modelled (sections 6, 7) |
| Two-phase committer (`storage/tx/ob_two_phase_*`) | | | not in this build's CMake lists |
| SQL engine, optimizer, PL, root service, observer shell, `deps/` | | | out of scope |

### 1.2 How they interact

```
  callers --get_number--> ObIDService --append_--> ObLogHandler --> PALF
                            ^  ^  |                    |  ^           | slide
        handle_submit_callback |  | flush          push|  |role       v
             (apply thread)    |  v                    v  |       fs callback
  ObReplayStatus --replay------+ ObLSMeta/slog   ObApplyStatus <------+
        ^                         ^                    ^
        |                         | set_clog_checkpoint| get_max_applied_scn
  ObRoleChangeService     ObCheckpointExecutor --------+--> advance_base_lsn
```

Below `append_`, PALF takes place, group id and SCN of an entry from the LSN
allocator and keeps the group's task in a slot of the fixed sliding window until the
group is committed.  Above it, a statement that meets a locked row leaves its
worker thread and waits with the lock wait manager until the end of a
transaction, a rollback or the manager's own thread reposts it.

* *Callbacks.* `append_` leaves an `AppendCb` with the apply service; a pool
  thread runs `on_success` after PALF has slid the log, or `on_failure` after
  loss of leadership.
* *Shared state.* The id service's fields are read and written by callers
  without a lock, by the apply thread, replay and flush under `rwlock_`.
* *Events.* PALF tells the role change service that its role may have changed;
  one thread makes log handler, apply service and replay service follow.
* *Persistence.* The clog (written by PALF) and the slog (written by LS meta)
  are the two things that survive a restart.

### 1.3 What is hard here

`PROJECT.json` lists the hazards at their lines.  In short: the lock-free steps of
`get_number`; a callback that may run before its submitter has filled the
callback object; one callback object for all logs; a checkpoint that reads
two values at different times; slog writes that fail after the memory image
was changed; a restart between any two of these steps; loss of leadership
with appends and callbacks under way; lost wake-ups between push, slide and
role change; a role change thread that works with a role and an end LSN that
are no longer current; two threads whose compare-and-swap decides who opens a log group,
with bit fields close to their width and a block close to its end; a window slot that is
reset and reused by whoever happens to drop the last reference; a request that
checks a row lock, then waits, while the holder releases it in between; a
waiting node that two threads want to take out of the hash; a commit request
that is repeated while the first is under way; redo, commit info or commit log
in flight when the leader steps down, and a replica that leads again with what
is left of its log; queues that replay in parallel and meet at barriers whose reference counts survive a
retry, a role change and a restart; a replay position read queue by queue while the queues move.

### 1.4 What makes each part correct

* Id service: no id is handed out twice, whatever happens; a call that starts
  after another has returned gets larger ids; a committed limit is not lost;
  a log in flight is answered and callers do not starve.
* LS meta and checkpoint: every id handed out is below a limit that recovery
  finds; the checkpoint stays below what is not persisted; the log is there
  from the persisted base on.
* Apply service: what `get_max_applied_scn` reports is applied (the checkpoint
  depends on it); a task has one owner; every callback is answered, with the
  answer that matches the fate of its log.
* Role change: every log takes effect exactly once, by callback or by replay; a
  leader has them all; no callback runs once the upper layers are followers;
  a PALF leader ends up with a log handler that leads.
* Replay service: a log takes effect once, and after every log its queue, its pre barrier or an earlier post
  barrier puts before it; what is reported as replayed is; a leader has nothing left to replay; no wake-up is
  lost, and a follower catches up.
* LSN allocator: concurrent calls look like calls one after the other, each with the place right
  behind the previous one, a log id that follows and a larger SCN; padding always
  fits; a group stays within its buffer window; a group that is frozen gets no further entry;
  every call returns.
* Fixed sliding window: the window keeps its length; who holds a slot finds the log it
  asked for; no slot stays behind unreset; somebody can always go on.
* Lock wait manager: nobody sleeps through the release of the lock; a node has one
  owner; nobody touches a request that runs again; nobody is left behind at stop; every request ends.
* Transaction context: the scheduler hears what happened; the log decides once; a commit
  never misses a row; a callback never meets a context it cannot belong to.

## 2 Modules and how they correspond to the code

`LogStream` is the *vertical* specification: the id service with
everything its durability depends on, over a simplified clog.  `RoleChange` is the
*horizontal* one: it opens up the box that `Clog` simplifies (log handler, apply
service, role change service) and forgets what the logs mean.  `LsnAllocator` and
`FixedSlidingWindow` are the two structures PALF's leader shares between
threads, each taken alone at the granularity of its atomic accesses.  `LockWaitMgr` stands
above the log: rows, transactions and the requests that wait for them.  `TxCtx` is
one transaction on top of the log, its callbacks and the role changes.  `ReplayStatus` opens up the other box
that `RoleChange` keeps closed: replay.

| Module | Extends | Models |
|---|---|---|
| `LsMeta` | | `ObLSMeta`: `update_id_meta`, `set_clog_checkpoint`, `write_slog_`; `meta` in memory, `slog` on disk |
| `Clog` | `LsMeta` | log handler, apply and replay service over PALF as the id service sees them: append, commit, truncation by revoke or restart, callbacks in flight, recycling |
| `IdService` | `Clog` | `ObIDService` and `ObTimestampService::switch_to_leader` |
| `CheckpointExecutor` | `IdService` | `update_clog_checkpoint`, `advance_checkpoint_by_flush`, the timer's `advance_base_lsn` |
| `LogStream` | `CheckpointExecutor` | composition, role changes, restarts; all properties |
| `IdOracle` | | abstract specification: what an id service promises its callers |
| `LogStreamInv` | `LogStream` | the inductive invariant `IInv` |
| `LogStreamProofs` | `LogStreamInv`, `TLAPS` | theorems |
| `Palf` | | what PALF shows to one replica's upper layers |
| `ApplyStatus` | `Palf` | `ObApplyStatus`, `ObThreadLease`, the pool, the file size callback |
| `RoleChange` | `ApplyStatus` | `ObLogHandler::append_`, replay in log order, `ObRoleChangeService`; composition, properties |
| `LsnOracle` | | abstract specification: what `submit_log` relies on when it takes a place in the log |
| `LsnAllocator` | | `LSNAllocator` |
| `FixedSlidingWindow` | | the class template of that name |
| `LockWaitMgr` | | `ObLockWaitMgr` with the row locks and the ends of transactions that drive it |
| `TxCtx` | | `ObPartTransCtx` of a one-phase transaction, its scheduler, `ObLSTxCtxMgr` and `ObTxLSStateMgr` |
| `ReplayOrder` | | abstract specification: in which order logs take effect |
| `ReplayStatus` | | `ObReplayStatus`, the tasks and the threads of `ObLogReplayService`, with the calls of role change, offline and online |
| `ReplayStatusInv` | `ReplayStatus` | the inductive invariant `IInv` |
| `ReplayStatusProofs` | `ReplayStatusInv`, `TLAPS` | theorems |
| `LsnAllocatorProofs`, `FixedSlidingWindowProofs`, `LockWaitMgrProofs`, `RoleChangeProofs`, `TxCtxProofs` | the component, `TLAPS` | the component's inductive invariant and theorems |
| `MC...` | | symmetry for TLC, the bound on combined faults |

Definitions keep the names of the functions they model; an action that is
a step of a longer function is named after what the step does.  Definitions
whose comment begins with "Mutant" are wrong on purpose: each is a
plausible bug (a missing guard, a lost update, a swapped order) that one of the
properties must catch when it takes the place of the definition that follows.
They are no part of any specification.

### 2.1 `LogStream`

* **`get_number`** is split at its atomic accesses: `GetNumber` (leader check) →
  `LoadLast` → `LoadLimit` → `SwapLast` (compare-and-swap when the base is
  ahead, else fetch-and-add) → `SwapFailed` → `CheckLimit` (re-reads the
  limit; the range is handed out here) → `PreAllocate` → `SubmitLog` or
  `SubmitLogSkip` → `FillCb`.  `th[t]` holds the locals of thread `t`.  The
  last part of `get_number` (`PreAllocate`) reads `last_id_` and
  `limited_id_` in one step; they only feed a heuristic and the value of the
  next limit, which `submit_log_with_lock_` compares with the limit again.
* **The id log.** `SubmitLog` appends with `rwlock_` held, `FillCb` fills `cb_`, sets
  `is_logging_` and unlocks: in between PALF may commit and the apply thread may
  enter `on_success` (`OnSuccess`, which waits in `test_lock`).
  `HandleSuccess`/`HandleFailure` are `handle_submit_callback` under
  `rwlock_`.  The whole of `handle_submit_callback` is one step: its stores are
  all made under the lock, `last_id_` and `limited_id_` only grow, and lock-free
  readers of a value in between see what they would have seen before.
* **Clog.** Only the id service's entries are entries; other logs are the
  growth of `max_scn`.  The reference SCN and PALF's max SCN decide
  the SCN of an entry.  What is uncommitted may survive a revoke
  or a restart, or be cut, at any place; in `Clog` the cut happens at the revoke
  rather than at some time while PALF is pending.  On restart
  `PalfHandleImpl::load` takes the end of the last entry on disk as committed end.
* **Roles.** `leader`, `revoking` (PALF lost leadership, logs may still
  commit), `draining` (apply service FOLLOWER, failing callbacks), `follower`
  and `restarting` (replaying), `lost` (replay start recycled).  Becoming
  leader is one step: transaction and DAS ids do nothing there, and timestamp requests are
  refused by `ObTimestampAccess` until `switch_to_leader` is finished.
* **Checkpoint.** `ReadDecidedScn` → `ReadRecScn` → `SetClogCheckpoint` or
  `CheckpointNoChange` → `AdvanceBaseLsn` or `FinishWithoutRecycle`; flushes
  (`AdvanceCheckpointByFlush`) interleave.  Other modules'
  recovery SCNs can only lower the checkpoint, which the nondeterministic
  choice of the decided SCN already allows.
* **Restart** loses memory, keeps `slog` and a prefix of the clog, and replays from
  the persisted checkpoint.
* `grants`, `grant_cnt`, `max_end` and `th[t].seen` observe what is handed out;
  no guard but the bound on calls reads them.

### 2.2 `RoleChange`

* **`Palf`.** A position in the log stands for both LSN and SCN.  A position
  may be rewritten after a truncation, so each log has an `id` too.  `slid` is
  the committed prefix, `palf_pid` the proposal id promised, `own_pid` the last one
  this replica led.  Elections and other leaders are the environment: they may
  do more than this build's election, which never takes leadership away.  What is
  not assumed: that the role change thread keeps up with PALF.
* **The file size callback** runs before PALF moves the end of its window; `fs` is
  TRUE between its two effects (end stored, task submitted), so
  the apply service may know of one log more than `slid` (`CommittedEnd`).
* **`append_`** reads the proposal id before it takes the lock (`AppendStart`),
  appends to PALF (`AppendToPalf`) and then counts, pushes and wakes in three steps
  (`CountSubmit`, `PushCb`, `WakeQueue`).  The queue is picked by a timestamp,
  hence arbitrary.  Any append may be refused (`AppendRefused`).
* **Leases.** A task's lease is idle, handling or ready; a task is in the pool, with a
  thread, or nowhere.  A thread may give a queue back after each callback
  (time slice).
* **`get_max_applied_scn`** is split where others can interfere: PALF's max SCN,
  PALF's role, the wait for appends in the critical section, the snapshot of
  the counters.  `wait_append_sync` waits for the appenders that were inside when it began.
* **The role change thread** is `rc`: one `pc` per call it makes.  Its event is removed
  from the set before it is handled, so that a new event may be queued meanwhile.
  Waiting for replay may time out at any moment and queue the event again.
* The end LSN read in `switch_follower_to_leader_` is modelled as `slid`; PALF's real end may
  be further, which makes the wait longer.
* `unexpected` becomes TRUE where the code logs an ERROR "unexpected"; `TypeOK` says it stays FALSE.

### 2.3 `LsnAllocator`

* **The word.** `lsn_ts_meta` has the fields of the 128-bit union.  The deltas are
  taken modulo their widths (`IdBits`, `TsBits`), as the bit fields do; the LSN has 60 bits in the
  code and is a natural number here.  `Slack` is the 1000 the code keeps free below each width.
* **`alloc_lsn_scn`** is `Call` → `Load` (the load and everything computed from it, ending in
  a return, a base move, or a swap) → `Swap` or `SwapFails` (load again) → or
  `UpdateBase` (the write lock: waits until no thread is between load and swap, moves both bases, and
  the call starts again).  The group arithmetic is in operators named for the decisions:
  `Aggregates`, `Pads`, `Joins`, `NewGroups`, `NextCut`.
* **Callers.** `log_id_upper_bound` and `lsn_upper_bound` are the window's limits and serve as
  the bounds of the model.  Follower operations (`IncUpdateLastLogInfo`, `Truncate`) and
  `IncUpdateScnBase` are called under PALF's write lock, so no `submit_log` is under way (`Idle`).
  Logs of other leaders end where another allocator could have ended them (`TailOk`).
* **History.** `group` (start and number of entries of the group being filled), `frozen` (the last group a
  freezer was told of), `out` (the answer given).
* `GroupStaysInWindow` is why the branch "reach 2M boundary" (`lsn_allocator.cpp:411`) is dead, for every block and window
  size.  The code sets an error there and falls through to the swap; the model returns; `try_freeze_by_time` has no
  caller and is left out.

### 2.4 `FixedSlidingWindow`

* `get` = `GetCheck` → `GetInc` → `GetDone` or `GetLate` (the second range check; then it reverts).
  `revert` = `Revert` → `Unref` → `RevertEnd` → `RevertStop`/`RevertNext`/`RevertLock` →
  `RevertLost` or `RevertReset` → `RevertBump`, a loop over the slots at the end of the window.
  `slide` = `SlideCall` → ... → `SlideBump`, with the locks of the first and the
  next slot.  `truncate` runs slot by slot; `ForwardTruncate` is
  `truncate_and_reset_begin_sn`, under the write lock.
* A thread may stall between any two accesses for any time, also while the window makes a full turn (2048 logs in the
  code, `Size` here).  The history variable `turned` records that `revert_` has reclaimed a slot with an id that
  is over a turn old, the finding `sw_turn` of section 5: after that nothing can be said of the window, and
  the properties of `sw` speak of what comes before it.
* `Fill` is the caller's use of a slot it holds.

### 2.5 `LockWaitMgr`

* A request is a session with a transaction of one statement.  `StmtStep` is a worker thread: lock the row
  or meet a `Conflict`, then `post_lock` (`ReadSeq`, `Recheck`), then `post_process` (`PassOn`, `Retry`, `StartWait`).
  `WaitStep` is `wait`: `EnterWait` → `Insert` → `DoubleCheck` → `Waits` or
  `Withdraw`.  `FetchStep` is `wakeup` and `fetch_waiter`, run by whoever releases a
  lock.  `RemoverStep` is `transform_row_lock_to_tx_lock`.  `CheckerStep` is `check_timeout` in the thread's 10 ms
  loop; it passes over the nodes that are in the hash when it starts.
* **Sequences.** All that matters of a sequence number is whether it has moved since it was read.
  `fresh[n]` is the set of hashes for which it has not; `OneBucket` makes all hashes share a
  bucket, the extreme case of collisions.
* **Quiescence.** `crit` are the threads in a critical section; a thread that has taken a node out waits
  (`Quiescent`) for those that were inside, then reposts.
* **Deadlock detector.** `post_process` waits whether or not it has registered the request: detection may be switched off, and a
  registration that fails is only logged.  `StartWait` has both outcomes for the requests in `Detected`, a set that keeps
  the instances small and is arbitrary in the proofs; whoever ends the wait unregisters.
* Left out: the delay of remote statements, waits for table locks, early lock
  release.

### 2.6 `TxCtx`

* **Worlds.** The context's functions run under its lock and call each other, so each is an
  operator from a world (log, context, answers, error branches, return code) to a world; an action
  applies one of them.  What the environment decides during a call (a fresh GTS, a commit log
  that does not fit into the block of its redo) is the argument `o`.
* **Log.** `log` is what survives; a log whose callback has succeeded (`synced`) is never cut.
  `Revoke` cuts the rest anywhere; callbacks of lost logs fail once the role change
  service has made the apply service a follower (`ApplyToFollower`), and
  `SwitchForcedly` waits for them, as `RoleChange` shows it may.
* **Log callbacks.** `get_log_cb_` gives a final log (commit or abort) the freeze callback, or `OB_TX_NOLOGCB` when that one is
  busy: the return code set there (`ob_tx_ctx_log_cb_helper.cpp:135`) stays although a free callback is then taken out
  of `free_cbs_` (line 165), which nobody uses or returns.  `FreezeCbBusy`, `HasFreeCb` and `leaked` are
  these three.  `LogCbs` counts the other callbacks a context may come to have, extended groups included.
* **Graceful handover** walks over all contexts and stops at one that fails: this one
  or another, hence the choice in `SwitchGracefully`; then the leader is resumed with a start
  working log.  PALF may revoke in the middle.
* **Scheduler.** On the same server (`local`) it is answered through `commit_cb_`, once; otherwise
  by messages.  An answer once sent may come late or never, so `ans` keeps them all; hints to retry and
  timeouts are not answers about the outcome.  `CommitRequest` may come any number of times.
* **Error branches** of `on_success` and `switch_to_leader` are recorded in `bad`; the process aborts
  there, so no step follows.
* Left out: other replicas (this replica is the one elected again, and what was not synced is
  lost; a context rebuilt by replay is not modelled), kill and GC, multi data source,
  early lock release, XA, savepoints, logs larger than a block, appends that fail with `OB_EAGAIN`,
  a statement that is under way while the role changes (`pending_write_`, which the switches wait for).

### 2.7 `ReplayStatus`

* **Logs.** LSN and SCN of a log are its index.  What matters of an entry is the queue its replay hint picks, its
  barriers in both directions, and whether it is padding.  `done` are the logs that have taken effect, by replay or
  by a callback of this leader.
* **Leases.** As in the apply service: `submit_submit_task` and `submit_task_queue` acquire, `SubmitRevoke` and
  `QueueRevoke` give back or go round again.  A time slice may be over after any log; that also covers the
  batches pushed from within the submit loop.
* **The submit task** (`handle_submit_task_`) is `SubmitTake` → `SubmitCheck` (role and block) → a fetch:
  `FetchNone`, `FetchSkip` (padding, or below the checkpoint), `FetchRetry` (no memory, too much
  pending, a post barrier outstanding), `FetchPush` (one queue) or `FetchBroadcast` (a copy to each queue by `Broadcast` and
  `BroadcastSignal`, one queue after the other) → `SubmitMeta` → back to the check, or `batch_push_all_task_queue` → `SubmitEnd`.
* **A queue** (`handle_replay_task_`) is `QueueTake` → `QueueEmpty`, `QueueWait` (not a follower, or a barrier) or
  `QueueStart` (the reference is dropped) → `ReplayOk` or `ReplayFail` (the reference is taken again) → `QueuePop`.
  A fatal error stops the stream's tasks until replay is disabled.
* **Readers.** `ScanStart` → `ScanQueue` per queue → `ScanEnd` is `get_min_unreplayed_log_info`; `is_replay_done`
  runs it under the read lock, `get_max_replayed_scn` without it.
* **`rwlock_`.** A reader holds it from step to step (`Unlocked` says who does); a writer's section is one step.  A
  `try_rdlock` that fails pushes the task back and changes nothing.
* **Role change.** `BecomeLeader` starts `switch_follower_to_leader_`: wait for the replay, `switch_to_leader`, wait for the
  submit task, `Serve`.  `LoseLeader` may come at any point.  The way back is `StepDown` → `reset_iterator` →
  `FollowerRole` → `FollowerPush`, the order `switch_to_follower` explains in its comment; its begin LSN is `app + 1`, the
  end of what the apply service has applied, which `RoleChange` is about.  The case described in
  `reset_iterator`'s comment (an iterator already beyond it) occurs.
* **Offline and online.** `disable` (block) → `disable_` (write lock, drop everything) and `enable` from any checkpoint
  that holds only logs that have taken effect.  They do not overlap with a role change and are done as a follower
  only (`storage/ls/ob_ls.cpp:723`: "only follower can do this"); the log handler's lock keeps
  readers out of `enable`.
* A repeated effect is a stutter of `ReplayOrder`, which is why `TakesEffectOnce` is stated apart.
* `Env` names the parts of the environment at work (allocation failures, replays that fail, readers, role changes,
  disable, block), so that one can be studied alone; the run and the proofs have all of them.
* Left out: the replayable point of standby tenants, decompression, the sizes behind the memory and pending
  limits (a retry is possible at any time), stop and destruction, statistics.

## 3 Runs

Each run is a TLC configuration; `tlc -config MCxxx_run.cfg MCxxx` repeats it.

| Run | Checks | Shows |
|---|---|---|
| `race` | `CommittedLimitApplied`, `CallbackOwnsCb`, `RestartCoversLog`, `ImplementsOracle` | Timestamps: two threads in the lock-free steps, bases ahead of `last_id_` (compare-and-swap), a loss of leadership and a restart with an id log in flight that survives or not.  The id service implements `IdOracle`: in particular no id is handed out twice |
| `store` | `GrantsDurable`, `ReplayStartUnlessWriteFailed`, `LimitRecovers` | Checkpoint, flush and recycling in all orders with allocation, and any two of a restart, a loss of leadership and a slog write that fails, with its record on disk or not.  A leader out of ids gets new ones |
| `base` | `ReplayStartAvailable` (violated) | One failed slog write is enough to recycle the log beyond the persisted base: section 5 |
| `term` | `MaxAppliedSound`, `FollowerQuiet`, `AnswerMatchesLog`, `EffectOnce`, `LeaderHasAll`, `CallbackAnswered`, `TakesOver` | Three terms, other leaders' logs and truncations in between, a role change thread that lags behind; no lost wake-up; the log handler takes over when PALF stays leader |
| `la` | `PaddingFits`, `GroupStaysInWindow`, `FrozenGetsNoEntry`, `ImplementsOracle`, `CallReturns` | Two threads allocate, freeze and move bases at the ends of blocks, windows and bit fields: they implement `LsnOracle`, and every call returns |
| `sw` | `WindowIntact`, `HeldSlotIsOwn`, `NoSlotLost`, `SomeoneMoves` | Three threads get, revert, slide and truncate in a window of two and stall anywhere.  Up to the reclaim of `sw_turn` the window keeps its length, no "must be bug" branch is taken, a held slot keeps its log, no slot is lost and somebody can go on |
| `sw_turn` | `ReclaimedHasSlid` (violated) | A `revert_` that a full turn of the ring overtakes resets the slot of a log in the window: section 5 |
| `lw_remove` | `OnlyStaleHolderLost`, `NodeHasOneOwner`, `NobodyLeftAtStop`, `WaitBooksSound` | Three requests, one row, callbacks removed under a waiter, timeouts, kills and stop, with and without registration of a wait.  The only wait that no wake-up is due to is that for a holder that had ended before the wait began |
| `lw_live` | `EveryRequestEnds` | Nobody sleeps for ever, with every hash in one bucket |
| `lw_touch` | `NoVisitorAfterRepost` (violated) | A request runs again while another thread still writes to its node: section 5 |
| `tx` | `AnswerMatchesOutcome`, `OneDecision`, `CommitHasAllData`, `NothingUnexpected` | A transaction of two rows commits, its request repeated at any time, rolls back or times out while its replica loses the leadership, forcedly or gracefully, and leads again, twice.  No error branch of the context is reached |
| `rs` | `AnswerSound`, `NoUnexpectedBranch`, `NoLostWakeup`, `LeaderReplaysNothing`, `TakesEffectOnce`, `OrderSpec`, `CatchesUp`, `ServesInTheEnd` | Plain logs and barriers in two queues, submitted, replayed and retried while the replica takes over and steps down, is disabled and enabled from a checkpoint, blocked, stopped by a fatal error or asked for its position.  Replay implements `ReplayOrder`, catches up, and a leader gets through both waits of the role change |

Type invariants (`TypeOK` of each module), `GrantsDisjoint`, `CheckpointBelowDumpPoint` and `TaskHasOneOwner` have no run of
their own: they are proved (section 4).

Every property of a passing run has a mutant of the code that violates it
under the run's own configuration (`PROJECT.json`, "mutants").

### 3.1 Bounds

The bounds are constants (`MaxScn`, `MaxGrants`, `MaxCrash`, `MaxRevoke`,
`MaxSlogFail`, `MaxLog`, `MaxTerm`, `MaxId`, `IdUpper`, `LsnUpper`, `MaxSwl`) and appear in guards only;
`TwoFaults` is a state constraint of the run `store`, `Apart` of the run `rs`, and `MCNotTurned` of the run `sw` stops at states of
which its properties claim nothing.  When they are
used up the system stops, and a transaction ends, hence `CHECK_DEADLOCK FALSE` for `LogStream`, `RoleChange`,
`FixedSlidingWindow` and `TxCtx`.  `LockWaitMgr` ends in a state of its own (`Finished`) and
`LsnAllocator` never stops (calls beyond the upper bound return an error), so
there deadlock is checked.  In `ReplayStatus` readers and role changes always have a next step, so deadlock is checked as well.

* Ids: a range of 2 pre-allocated ahead, requests of 1 or 2, so that ids run
  out after one call, a call crosses the limit, and the next limit is needed at once.
  Two threads suffice for each race of `get_number`: a loser of a
  compare-and-swap or of the last ids below the limit needs one winner.
* Two calls, and two or three SCNs: enough for an id log, an unflushed
  successor and a checkpoint between them.  In `race` a base (3) is beyond the first limit (2).
* One restart, one revoke, one failed slog write; `store`, which has one thread, takes at most two of the three
  together.  No fault is fair, so the constraint takes nothing from a fair behaviour but the fault.  The proofs cover all values.
* `term` has three terms, which is lead, follow another leader, lead
  again, and one position in the log, which is cut and written again.  One pool thread serves two tasks (the queue's and the submit
  task); that several never share one is proved (`TaskHasOneOwnerAlways`).
* `la`: a block of 9 with a window (cut) of 3, padding below 2, a header of 1, entries of 1 and
  3: every case of the group arithmetic (join, cut by crossing, cut at the boundary, padding, exact
  fit) occurs, in the first block and after it.  The id delta has 2 bits, the SCN delta 3, so both bases have to move; the
  reference SCN 9 alone exceeds the SCN delta.
* `sw`: window 2, ids 1 to 5, so each slot is used twice or three times and the first and
  the next slot are all there is; three threads: one slides, one reverts, one gets.  `sw_turn` needs ids up to 3: the third log is the first to reuse a slot.
* `lw_*`: three requests for one row: a holder, a waiter and a competitor.  In `lw_remove` one of them may be registered with the
  deadlock detector; the requests do not see each other's registrations.
* `tx`: two rows, so that a part of the redo can be lost; two log callbacks beside the one for
  final logs, so that they run out (`OB_TX_NOLOGCB`) and one may be dropped by a repeated commit while another is in use; two start working logs: resume and lead again, or lead twice.
* `rs`: two queues and two logs, plain in one queue or a barrier in both directions in the other: the barrier before or
  after the plain log, or two of a kind.  `Apart` keeps liveness within reach: two logs while nothing disturbs them, one log and one
  disturbance at a time otherwise (a term of this replica, a restart, a block, a fatal error, a reader).  No fair
  step leads out of it, so that it takes nothing from a fair behaviour but the disturbance.  Disturbances together, other kinds of
  barriers and padding are left to the proofs, which have no bound.
* `SYMMETRY` permutes threads, rows and queues in runs with invariants only, and in `race`,
  whose temporal properties are an action formula and a refinement without fairness;
  both are symmetric in the threads.  Liveness runs use no symmetry.

### 3.2 Fairness

`LogStream` (`store`): threads run; PALF commits; apply, replay and role change
services do their work; callers retry after `OB_EAGAIN` (the callers of
`get_number` do).  Strong fairness of `SubmitLog`: an append that can succeed
again and again does not fail for ever.  Nothing is assumed about revokes and
about other modules' logs.

`RoleChange` (`term`): weak fairness of sliding, of PALF's pending state ending, of
each pool thread, appender, of replay, of `get_max_applied_scn` and of the role
change thread.  Strong fairness of the four steps that take a write lock against
readers: the apply service's switches retry (`WLockGuardWithRetryInterval`),
the log handler's `switch_role` waits in `WLockGuard`, and the readers' sections
are short; a writer that waits gets its turn.  No fairness of elections.

`LsnAllocator` (`la`): weak fairness of each thread inside a call.  That a call returns is not obvious:
a swap fails whenever another thread's succeeds, and moving a base starts the call again.  The upper
bounds end it: with LSNs and ids that run out, each failed swap is one of finitely many successes.

`LockWaitMgr` (`lw_live`): weak fairness of each request's worker thread (a queue of requests is
served), of the thread that removes callbacks and of the manager's loop.  Time does not help in this
run (`Timeouts` is FALSE): waits end by wake-ups and by the loop's standalone tasks alone.

`ReplayStatus` (`rs`): weak fairness of the submit task, of each queue (the pool's threads run), of the two
halves of the file size callback, of `unblock_submit`'s push, of a reader that has begun and of the role change thread's own steps.
Strong fairness of a submit that succeeds (memory is available again at times), of `ReplayOk` (an error worth a retry does not recur for
ever) and of `is_replay_done`, which the role change thread polls.  No fairness of PALF, of enabling or unblocking, or of
time slices ending.

## 4 Proofs

`LogStreamProofs` proves about `Spec` of `LogStream`, **for any number of
threads, any ranges, bases and factors, both kinds of service, and any bounds**
(the proofs use the bounds only as natural numbers), from the
named assumptions of the modules (`MaxSlogFailAssumption`, `ClogAssumption`,
`IdServiceAssumption`, `CheckpointAssumption`): the constants are naturals of the
expected kind, `SCN_MAX` is above every log's SCN, `NoWorker` is no thread.

| Theorem | States |
|---|---|
| `Inductive` | `Spec => []IInv` |
| `TypeCorrect` | `Spec => []TypeOK` |
| `GrantsDisjointAlways` | no id is handed out twice |
| `GrantsDurableAlways` | every id handed out is below a limit recovery finds, also when slog writes fail |
| `CommittedLimitAppliedAlways` | no committed limit is dropped |
| `CallbackOwnsCbAlways` | a callback finds its own log's arguments in the shared object |
| `CheckpointBelowDumpPointAlways` | the checkpoint stays below the dump point |
| `RestartCoversLogAlways` | a restarted timestamp service takes over at or above every log's SCN (action property) |
| `ReplayStartAlways` | unless a slog write failed, PALF still has the log from the base that recovery reads on disk |
| `LogStreamImplementsOracle` | the refinement `Spec => Oracle!Spec` of `IdOracle` |

None of the properties is inductive alone.  `IInv` (in `LogStreamInv`) is
the conjunction of

* `TypeOK`;
* `MetaInv`: the LS meta follows the id service, the slog is never ahead of it, the
  checkpoint is at most the dump point.  Needed because a failed write leaves memory ahead of
  disk;
* `ScnInv`: the log is ordered, and *entries with larger SCNs have larger
  limits*.  This is what makes it sound that `rec_log_ts_` holds the SCN
  of the newest unflushed entry instead of the oldest;
* `AppliedInv`: each committed entry is in flight, to be replayed, or covered by the
  limit in memory; each entry below the persisted checkpoint is covered by the persisted
  limit;
* `CheckpointInv`: nothing undecided lies below the checkpoint *or below the one being
  computed*, which is why the decided SCN must be read first;
* `DurableInv`: the limit in memory can be recovered from slog or from an entry at or above
  the dump point; grants are below it;
* `CbInv`: at most one log in flight; `is_logging_` and `rwlock_` say whose
  arguments `cb_` holds;
* `CallInv`: ranges that are handed out, or claimed by a thread that has not yet checked
  the limit, are disjoint and below `last_id_`.

The proof that `Next` preserves `IInv` has a lemma per action or group of
actions, and in each a step per conjunct that the action can disturb.

`LogStreamInv` has two more invariants, each inductive given `IInv`.  `SeenInv` ties what a call remembers of real
time (`seen`, the end of all ids handed out when it began) to `last_id_` and to the value it has loaded; the
refinement of `IdOracle` is a step simulation from it: the start of a call maps to the oracle's `Begin`, a grant to
`Issue`, which needs that the range is new and above `seen`, an error to `Fail`, a restart to `Crash`, and every other
step to a stutter.  `BaseInv`
says that disk and memory agree on the base until a slog write fails, and gives `ReplayStartAlways`; the run
`base` shows that the premise is needed.

### 4.1 `LsnAllocatorProofs`

For any block size, cut window, header and entry sizes, any width of the bit fields that leaves room for the two
values `alloc_lsn_scn` adds at once, and any set of threads (`SizeAssumption`, `WidthAssumption`, `ScnAssumption`,
`NoAnswerAssumption`):

| Theorem | States |
|---|---|
| `Inductive` | `Spec => []IInv` |
| `TypeCorrect` | no bit field of the word overflows |
| `PaddingFitsAlways` | there is always room for the padding log that may come next |
| `GroupStaysInWindowAlways` | a group stays in its block and, with several entries, in its cut window; the error branch is dead |
| `FrozenGetsNoEntryAlways` | a frozen group gets no entry (action property) |
| `AllocatorImplementsOracle` | the refinement `Spec => Oracle!Spec` of `LsnOracle` |

The invariant adds `LoadInv` (the word a thread is about to swap was looked at with the bases in force: they
move only while nobody is between load and swap, which is what the read-write lock around the loop is for),
`GroupInv` (where the current group lies), `FrozenInv` (a frozen group is closed or no longer the last) and that an end at
a cut boundary has its cut bit set.  Half of the proof is arithmetic: lemmas about `%` and `\div` that say when an entry stays in
its block or window, from which the cases of `alloc_lsn_scn` follow.  The refinement uses that the ids, LSNs and SCNs of
the answers are those of the word before and after the swap.

### 4.2 `FixedSlidingWindowProofs`

For any number of threads, any ring of two slots or more and any first and last id (`WindowAssumption`), with stalls of any
length.  What `sw_turn` shows cannot be excluded, so the theorems have the form `turned \/ ...`: they hold up to the first
reclaim by a `revert_` whose id is not the one `end_sn_` is about to replace.

| Theorem | States |
|---|---|
| `Inductive` | `[](turned \/ IInv)` |
| `WindowIntactAlways` | `end_sn_` is never more than `size_` ahead of `begin_sn_`, nor behind it, and the "must be bug" branches are dead |
| `HeldSlotIsOwnAlways` | a slot got for log *i* keeps nothing but log *i* until it is reverted |
| `NoSlotLostAlways` | with nobody inside an operation, the window is whole or its oldest slot is held |
| `OnlyTurnedOverruns` | `turned \/ ReclaimedHasSlid`: the finding has no other cause |

A stall by itself does no harm: the invariant survives any number of turns during a `get` or a `revert_`, and `turned` is set
by the reset at line 267 alone.  That the *other* reclaims are right is the content of the theorems: whenever the id is the
one that lies a window before `end_sn_`, its slot has slid out and nobody pins it.

`RefInv` says that `ref_` counts the threads that pin a slot, `LockInv` which locks a thread has, `RevertInv` and `SlideInv` what the ids a
thread has read still say of the window, `HeldInv`, `DataInv` and `ResetInv` that nothing in the ring belongs to a
slot that is given away.  The core is `ClaimInv`: a slot that has slid out and is not reclaimed is pinned by
somebody, or somebody *is going to* reclaim it.  It excludes that `slide` and the last `revert` each leave the slot
to the other.

### 4.3 `LockWaitMgrProofs`

For any finite sets of requests and rows, with and without a shared bucket, removals and timeouts (`LockWaitAssumption`):

| Theorem | States |
|---|---|
| `Inductive`, `TypeCorrect` | `[]IInv`, `[]TypeOK` |
| `NodeHasOneOwnerAlways` | a node is taken out of the hash by one thread |
| `WaitBooksSoundAlways` | `total_wait_node_` counts the waiters, and no registration with the deadlock detector outlives its wait |
| `NobodyLeftAtStopAlways` | whoever is in the hash after the stop is about to see it |
| `OnlyStaleHolderLostAlways` | a wake-up is lost only for a request that waits for a transaction which no longer holds its row |
| `OnlyTouchVisitsAlways` | the only thread with a pointer to the node of a running request is the remover of the finding `lw_touch` |

The last one is the positive side of the finding: `wait_quiescent` protects every access but that one.  It follows from
`VisitInv` (whoever took a node out waits for each visitor, or has seen it leave).  `FreshInv` and
`CheckedInv` carry the argument about wake-ups: a request that has read a sequence which has not moved since has a
bump coming or a stale holder, and once it has looked at the sequence a second time a bump is coming *or* a thread that
looks for waiters has not gone past its node.

### 4.4 `RoleChangeProofs`

For any finite set of appenders, any queues and handler threads, any number of logs and terms (`PalfAssumption`,
`ApplyAssumption`):

| Theorem | States |
|---|---|
| `Inductive`, `TypeCorrect` | `[]IInv`, `[]TypeOK` with the unexpected branches of the apply service dead |
| `MaxAppliedSoundAlways` | `get_max_applied_scn` never answers past a log that has not taken effect |
| `AnswerMatchesLogAlways` | `on_success` only for logs that have slid, `on_failure` only for logs that never come back |
| `EffectOnceAlways` | no log is both called back and replayed, no callback runs twice |
| `LeaderHasAllAlways` | a replica that can append has lost track of no log |
| `FollowerQuietAlways` | no callback is on its way once the log handler is a follower |
| `TaskHasOneOwnerAlways` | the lease keeps a task with one thread |

The invariant, bottom up: `PalfInv` (proposal ids never go back along the log), `RoleInv` and `PidInv` (roles and proposal ids of
the four parties by where the role change thread stands), `TermInv` (what is left of a term that is over has
slid, so that a callback of that term beyond the end is *cut off*, which makes `on_failure` right), `EndInv` (how far apply
and replay have come), `EffectInv` (`LogDone`: a log of an earlier term has taken effect, one of this term has or has
its callback on its way), `CbInv`, `PlaceInv` and `TaskInv` (a callback is sound and in one place, a task with one thread),
`CountInv` (the two counters of a queue count what is in it and what is being pushed, so that
`is_apply_done` means no callback), `SnapInv` (the logs below the snapshot of `get_max_applied_scn` are still there or a
callback of them will fail first, and all their callbacks are counted in the snapshot).

### 4.5 `TxCtxProofs`

For any finite set of rows, any number of log callbacks (at least one), any number of start working logs
(`TxCtxAssumption`):

| Theorem | States |
|---|---|
| `Inductive`, `TypeCorrect` | `[]IInv`, and that every field keeps its type |
| `OneDecisionAlways` | the log never holds a commit and an abort log |
| `CommitHasAllDataAlways` | a commit log follows the redo of every row that was written |
| `AnswerMatchesOutcomeAlways` | SUCCESS only with a commit log agreed on, KILLED only when the log holds none |
| `NothingUnexpectedAlways` | no error branch of `on_success` and `switch_to_leader` is ever reached |

The parts of `IInv`:

* `ModeInv`: what the mode of the log stream says of its role and of its start working log;
* `ActInv`: which logs exist for each two-phase action, and that an abort is preceded by `force_abort`;
* `BusyInv`: the callbacks in flight are in log order, and each belongs to its log or was cut off with the leadership;
* `CommitInv`: a commit log is agreed on if and only if the context is in state `COMMIT`, and no
  log follows a commit log in flight, which is where the busy freeze callback is needed;
* `ForceInv`: `force_abort` excludes a commit log for good.  This carries `OneDecision`;
* `SubmitInv`: as long as the context leads, the `state_log_submitting` flags tell which state log is in flight;
* `PersistInv`: a context that others rely on, or that has lost a free callback, has a log in flight or persisted.  `switch_to_follower_gracefully` leaves it
  for a moment, which is why `CoreInv` is the rest without it;
* `PhaseInv`: what contexts look like while the stream follows or is about to lead;
* `DataInv`: commit log => commit info log => redo of every row, or the context is `Lost`, that is, `switch_to_leader` will
  find data missing and abort it;
* `ActiveInv`: `data_complete_`, and an active info log that is going to set it, can be trusted.  The start working log's
  position tells the logs of this leadership from older ones;
* `AnsInv`: a scheduler that heard KILLED has a context that is forced to abort or `Doomed` (a leader that
  takes over is going to abort it).

The functions of the context are operators on *worlds* (log, context, answers), and so is the invariant: there is
a lemma per function that says what it keeps (`...Keeps`), with the state of the log stream as a parameter, and a
lemma per action of `Next` (`...Inv`) that chains them.  TLC checked `IInv` on the instance of the run `tx` before the proof began.

### 4.6 `ReplayStatusProofs`

For any number of queues, any kinds of entries, any number of logs and any parts of the environment (`NQAssumption`,
`MaxLogAssumption`, `EntriesAssumption`):

| Theorem | States |
|---|---|
| `Invariance`, `TypeCorrect` | `[]IInv`, `[]TypeOK` |
| `TakesEffectInOrder` | the refinement `Spec => OrderSpec` of `ReplayOrder` |
| `TakesEffectOnceAlways` | no queue and no callback comes to a log that has taken effect |
| `AnswersAreSound` | the replay position that readers are told is never ahead |
| `LeaderHasReplayed` | a leader that serves has nothing left to replay |
| `NoBranchIsUnexpected` | reference counts, post barrier and pending count never reach an error branch |
| `NoWakeupIsLost` | whatever is to be done has a thread that comes to it |

`IInv` (in `ReplayStatusInv`) speaks of a queue through the set of its logs (`Cont`) and its first one (`Front`), so
that sequences appear in a few lemmas only (what `Append` and `Tail` do to an increasing sequence).  Its parts:

* `QueuesOrdered`, `TasksInv`, `CoveredInv`: a queue is in log order; what is in it belongs there and has been
  submitted; what has been submitted is in its queue or has taken effect.  `Sent` makes this precise while a
  broadcast is half done;
* `HeadInv`, `DoneInv`: a task that has taken effect is popped next, and nothing has taken effect that was not
  submitted, checkpointed or written by this leader;
* `BroadcastInv`: a queue that still has something *before* a pre-barrier log has a copy of it;
* `RefInv`: the reference count is the number of `Holders`, the queues that have still to drop theirs, the ones a broadcast
  has not reached included; the owner is among them until it is alone;
* `PostInv`: the one post-barrier log outstanding, and nothing behind it in any queue;
* `PendingInv`: what `pending_task_count_` counts, which differs for logs with and without a pre barrier (counted off at the
  replay, or at the pop);
* `ScanInv`: queues already read hold nothing before the position found so far;
* `RoleInv`, `EnabledInv`, `SubmitInv`: what role change, disable and submit task may assume of each other;
* `LeaseInv`, `WakeInv`: leases and wake-ups.

The refinement is one lemma (`OrderStep`): when log *i* takes effect in its queue, a log *j* that must precede it and has not
taken effect would be (same queue) in front of it; (*i* a pre barrier) in a queue that, by `BroadcastInv`, still has its copy of *i* behind
*j* and so is a holder of *i*, while by `RefInv` there is none once the owner has dropped its reference; (*j* a post barrier) the
outstanding barrier, behind which no queue holds anything.  The counts need finite cardinalities: adding or removing one element (`FiniteSetTheorems`), and for `disable_`
that the copies dropped are exactly the holders.

### 4.7 Only model-checked

* Liveness (`LimitRecovers`, `CallbackAnswered`, `TakesOver`, `CallReturns`, `EveryRequestEnds`, `CatchesUp`, `ServesInTheEnd`), which this prover does not
  do, and `SomeoneMoves` of `FixedSlidingWindow`, which is about `ENABLED`.

## 5 What the project found

* **A failed slog write may lose the start of replay** (`base`, a code
  bug).  `ObLSMeta::set_clog_checkpoint` (`storage/ls/ob_ls_meta.cpp:202-209`)
  installs checkpoint and base in memory even if `write_slog_` failed.  The next
  round sees no change, which is success, and the timer tells PALF to
  recycle up to the base *in memory*.  After a restart replay starts at the older
  base *on disk*, whose blocks may be gone.  `ob_ls_meta.h:217` says that replay starts from
  `clog_base_lsn_` on crash recovery.  No id is handed out twice by it
  (`GrantsDurableAlways` covers failing writes): the log stream just
  cannot come online.  `update_id_meta` has the same shape, but there the service stays dirty.

* **A waiting request is written to after it may run again** (`lw_touch`, a code bug).
  `transform_row_lock_to_tx_lock` (`storage/memtable/ob_lock_wait_mgr.cpp:749`) decrements
  `node->try_lock_times_` after `wait(node)` has put the node back into the hash and left the critical section.
  From then on `check_timeout` or a wake-up may take the node out, find no other
  thread in a critical section, and repost the request; the comment at line 328 promises that "no
  other threads is visting the request".  The run shows the request in a worker's
  queue while the other thread still holds the pointer.

* **A late `revert_` resets the slot of a live log** (`sw_turn`, a code bug).  `revert_`
  (`logservice/palf/fixed_sliding_window.h:250-257`) drops the last reference, then reads `end_sn_`, then reclaims the slot if its
  index is that of `end_sn_` and its id is below `begin_sn_`; the double check under the slot lock compares `end_sn_` with the
  value just read.  Nothing compares the *id* with the one that `end_sn_` replaces.  When the window has made a full turn
  since the reference was dropped, the slot is that of a log in the window: it is reset and `end_sn_` runs ahead of
  `begin_sn_ + size_`.  The comment at line 240 says that the two conditions mean that the slot can be reclaimed.  In the trace the
  reference of log 1 is dropped, logs 1 and 2 slide out, and the slot of log 3 is reset.  With the 2048
  slots of PALF the thread has to sleep for 2048 logs.  A `get` that stalls before it counts its reference reverts with an old
  id as well; `test_fixed_sliding_window.cpp:367` ("reproduce bug", commented out) does that.

Observations that no run shows, or that the code relies on, or that do no
harm within one replica:

* After a graceful step down with the commit log in flight, a revoke that cuts the log and a re-election of the
  same replica, a transaction may be stuck: `on_failure` clears the memtable's version but not the commit
  version of `ctx_tx_data_`, and `switch_to_follower_forcedly`, which resets both (line 5968), does nothing for a context that is
  already a follower.  Then `generate_commit_version_` finds a version, `is_prepared` is FALSE, and `submit_log_impl_` submits nothing
  and reports success, whenever `handle_timeout` tries again.  The transaction keeps its locks until another
  replica leads.  (In `TxCtx`: state `REDO_COMPLETE`, action `COMMIT`, `ver` TRUE, `prep` FALSE, nothing in flight.)  The NOTE
  in `switch_to_follower_gracefully` has the transaction continue once its commit info log is submitted.

* `post_lock` waits under the transaction id copied when the conflict was met, while the choice between
  waiting for the row or for the transaction uses a later check of the row.  A request
  may therefore wait for a transaction that has already ended, without being a standalone
  task; only the repost after 5 s rescues it.  `OnlyStaleHolderLost` shows that this is the only such wait.
* A commit request that is repeated while the commit log is in flight (a remote scheduler does so after 50 ms,
  `register_commit_retry_task_`) starts another one-phase commit, for `commit` only looks at the state, which is `INIT` until the log is
  synced.  What stops it is `get_log_cb_`: the freeze callback is busy, and that error is not overwritten when a free
  callback is found.  The free callback is lost to the transaction until it ends, so repeated requests use up `free_cbs_`.  A
  `get_log_cb_` that went on with the free callback, as the code between lines 143 and 172 looks meant to, would
  write a second commit log, whose callback finds the context exiting: the mutant `HasAnyLogCb` of
  `NothingUnexpected`.
* The SCN of a padding log is one below that of the entry that follows it, where the comment at
  `lsn_allocator.cpp:461` has them equal.  The oracle only asks that SCNs grow.

* The last id written to an id log equals its limit, so `tmp_last_id_` is always
  0 (part of `ScnInv`); the branches for it are dead in this build.
* `get_number` with a base ahead whose compare-and-swap fails may return a range that starts below
  the base.  Ranges are disjoint all the same.
* A timestamp service that becomes leader again *in the same process* and whose limit is
  above PALF's max SCN keeps its `last_id_`; `RestartCoversLog` is therefore about
  restarts.
* `reset_iterator` never moves replay back; `EffectOnce` shows why it must not (mutant
  `ReplayFromApplied`).

## 6 What is not modelled

* *PALF's replication* (reconfirm, config and mode managers, group buffer, fetch log) and
  its election, which this build reduces to a stub.  Its contract is assumed in
  `Palf` and `Clog`.  Of its sliding window of log tasks, the ring (`FixedSlidingWindow`) and the allocator
  (`LsnAllocator`) are modelled, the handling of the tasks is not.
* Of the role change service: graceful leader transfer, offline and online,
  stop, and failures of the services it calls; PALF's way back from
  reconfirm to pending; the state where election epoch and proposal id differ.
* Of the apply service: stop, unregistering, `handle_drop` at exit.
* Of the replay service: the replayable point of standby tenants, decompression, the sizes behind its flow control,
  stop and destruction.
* Of the id services: RPC front ends, caching of transaction ids, the clock speed
  compensation of `get_timestamp`, the standby timestamp service; 64-bit overflow of ids (time in
  nanoseconds reaches it in 2262).
* Of the LS meta: migration, rebuild, restore, transfer and garbage collection state.
* Slog format and recovery, disk usage checks, several log streams: no effect on what is stated.
* Of the lock wait manager: waits for table locks, the delay of remote statements, early lock release, and
  the deadlock detector beyond who is registered with it.
* Of transactions: what section 2.6 leaves out, and liveness: fairness on the whole of `TxCtx` is too slow for TLC at
  bounds where a role change happens, and would meet the stuck transaction of section 5.
* The two-phase committer (`storage/tx/ob_two_phase_*`): `storage/CMakeLists.txt` does not list its files, and
  `commit` of a transaction over several log streams returns `OB_NOT_SUPPORTED`.
* Tablets, memtables and SSTables, DDL, root service, SQL: no protocol state that these
  specifications need, or far more data than a model checker can enumerate.

## 7 Plan

Done: `LogStream`, `RoleChange`, `LsnAllocator`, `FixedSlidingWindow`, `LockWaitMgr`, `TxCtx`, `ReplayStatus`, their runs and
their proofs.  Next, in this order:

1. **More of the log service.** Graceful leader transfer and offline/online in
   `RoleChange`; the sliding window's log tasks as a refinement of `Palf`; the replay in log order of `RoleChange` replaced by `ReplayOrder`.
2. **Above the log.** Replay of a transaction on a second replica that takes over; `LclDeadlock` (lock chain length algorithm: every cycle found, one
   victim); the clock speed compensation of the timestamp service.

Runs will stay within a few minutes each: one question per run, two of a kind where
two can race, one otherwise.
