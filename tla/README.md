# Verification of slurm_scheduler

TLA+ models of the scheduler in `src/slurm_scheduler`, the TLC runs that check
them on small instances, and TLAPS proofs of their main safety properties for
every instance. `PROJECT.json` lists components, runs, mutants, theorems,
and hazards, and maps each definition to the lines it models.

    tlc -workers 2 -config TaskAttachOne.cfg MCTaskAttach
    tlapm TaskAttachProofs.tla

## The system

The scheduler holds a pool of long Slurm jobs ("allocations") on several
accounts and runs many short tasks inside them with `srun`, over SSH. One
process contains:

* the **scheduler thread** (`scheduler.py`, `run_forever` and `tick`): in each
  tick it reconciles with Slurm, refreshes allocations and tasks, opens and
  closes allocations, places queued tasks and reclaims tasks under pressure;
* **attach threads** (`finish_reserved_task_attach`): one per placed task, they
  start the remote wrapper after the row was reserved;
* **reaper futures** for timed-out tasks and fan-out workers for SSH per account;
* the **web requests** (`app.py`): submit, cancel, close, the same-node fast
  path, and the API of the AEDT pool;
* the **AEDT pool thread** (`AedtPoolRuntime`): sessions, leases, hosts, and its
  own opening of allocations.

All of them share one SQLite database (`db.py`). A statement is atomic; what
one thread reads, does over SSH and writes back is not. `_task_assignment_lock`
covers placement, closing and license claims, nothing else.

| Component | State | Operations | What makes it correct | Hard because |
|---|---|---|---|---|
| Task attach | `tasks` row (status, attach_token, launch mark, wrapper), thread per attempt, remote wrapper | reserve, launch, acknowledge, probe, requeue, time out, cancel, fail, recover | at most one wrapper per task; writes hit the attempt they mean; a rejected attempt never counts | ABA over attempts, kill and write are two steps, restart inside a launch |
| Allocation pool | `allocations` row (state, free capacity), Slurm job, claims, lock | place, recalculate, refresh, drain, close | no scancel under a task; closed rows settle; capacity is real | writes computed before somebody else's change |
| Submission | submission phase in `pending_reason`, sbatch worker, job `pool-<id>` | reserve, claim, sbatch, acknowledge, reap, recover, sweep | a job can be found after a crash; none is leaked or doubled; the sweep spares what is ours | sbatch outcome is lost or late, two openers, close and recovery race the acknowledgement |
| Queue order, placement choice | queue, inventory | sort, filter, pick | fairness of refresh, baseline shares | arithmetic over many rows |
| License admission | claims in memory, last lmstat snapshot and the query under way | claim, mark, settle, release, admit, reconstruct | seats never over-admitted; a launched worker is always accounted | a snapshot whose query began before a launch settled; cancels inside a launch |
| AEDT pool service | sessions, project leases, reservations, solve generations and permits | request, accept, activate, permit, release, fault, heartbeat, reap, reconcile | one solve per Desktop, slots not oversold, no reuse before a proven close | heartbeats race timeouts, probes run outside transactions, cohorts fail as a whole |
| AEDT pool runtime | the tick's plan; allocations, host tasks and session starts | reconcile, open, launch, bind, recheck, close | the pool converges to the demand | a plan is carried out over many transactions while Slurm, the scheduler and hosts go on |
| Session host, attach client | process state, tokens, the Desktop, open projects | register, heartbeat, commands, close, acknowledge; request, accept, attach, solve, release | a Desktop is not left behind, a repeated call is harmless, a solve is not interrupted | lost answers, outages, stale commands, hanging closes |
| Automation lock | four lock layers, depth | acquire, release, suspend, time out | mutual exclusion across threads, processes and nodes | timeouts in the middle; closing a descriptor drops a record lock |
| Control-plane relay, supervisor | tunnel, files of the relay, remote processes, published URL, the worker's health | inspect, launch, adopt, retire, probe, publish, replace the worker | one relay of this configuration serves; a dead URL is withdrawn; it comes up again | processes outlive workers and race over their files |
| Read guard, relay slots | cache, in-flight reads, admission counts, slots | coalesce, replay, admit, bridge | followers always get an answer; nodes are not starved | the leader fails; endpoints hang; slots change threads |
| Workspace cleanup | cleanup state per lease | claim, run, retry, recover | nothing in use is deleted | stale claims |
| Batch jobs, env sync, deployments | status rows | submit, refresh, cancel | as for submission, smaller | as for submission |

Interactions: placement (`AllocationPool`) gives a task to an attach attempt
(`TaskAttach`); the end of an attempt ends the claim and starts a capacity
recalculation; a forced close fails the tasks of an allocation; submission
(`AllocationSubmission`) delivers the job id with which the life of an
allocation in `AllocationPool` begins. A launch in `LicenseAdmission` is an
attempt of `TaskAttach`. `AedtPool` is the control plane that `AedtNode` talks
to; `AedtRuntime` starts the hosts of `AedtNode` and decides where. Both reach
the scheduler through the relay of `ControlPlaneRelay` and the web process of
`WebFront`; the lock of `AutomationLock` is one holder in `AedtNode`.

## Modules

Each specification is a module, its instances for TLC are an `MC...` module and
`.cfg` files, its proofs a `...Proofs` module. The specifications are joined at
the points above by abstraction: each treats what the others decide as a
nondeterministic choice that includes everything they can do. Two are
compositions: `AedtNode` puts host, clients, control plane and lock together,
`WebFront` the guard, the relay's slots and the bridge. Two abstract
specifications say what a component promises: `DesktopTurn` (a Desktop is used in
turns) and `DesktopLock` (at most one inside).

### TaskAttach

One record per task row; the attach attempts of a task are numbered (the code
draws a fresh `uuid4` for each), and each has a thread program counter and a
remote wrapper. Every database statement is a step, every SSH call another, so
any writer can come in between.

* `reserve_task_on_allocation` is the compare-and-set to ATTACHING with a fresh
  token (tick or same-node web request).
* `strict_reject_before_launch`, `mark_launch_started`, `attach_task`,
  `attach_failed`, `complete_attach`, `cancel_raced_attach`,
  `strict_reject_after_launch` and `settle_strict_rejection` are the steps of
  `finish_reserved_task_attach`, guarded by `update_task_if_attach_claim`.
* `tick` is the snapshot the one scheduler thread works from: probe, pressure
  reclaim, rebalance or strict retry. The victim is read, killed and requeued in
  three steps.
* `_schedule_`, `_cancel_` and `_drain_timed_out_...` are the timeout reaper.
* `cancel_read`, `request_cancel_task`, `cancel_remote_best_effort` and
  `form_cancel_write` are the JSON and the form endpoint.
* `fail_...` are the sweeps; `CrashRestart` and `SoftRestart` are process death
  and `stop`/`start`, both with `recover_transient_states`.

Abstracted: the account of a task is always configured; an attach always runs in
its own thread (a synchronous attach is one of its schedules); one web cancel at
a time per task; the exit code probe is answered at the time of the write; a
cancellation hits any subset of the wrappers of its task, and since the kill
commands swallow their failures (slurm.py:922, 1652) it may report success while
the wrapper it is aimed at lives on. `lost` is a history variable: attempts whose
remote kill failed.

### AllocationPool

The row, the Slurm job, the age against the three walltime thresholds, the task
claims, the lock, and for each thread the values it has read. CPU stands for
CPU, memory and GPU. `reserve_check`/`reserve_claim` place under the lock;
`recalc_tasks`/`recalc_rows`/`recalc_write` are the unlocked three-part
recalculation; `refresh_read`/`refresh_probe`/`refresh_apply` the refresh, whose
probe may be wrong by omission ("missing", or SUBMITTED for a job no query
knows); `lifecycle_read`/`drain_write`/`drain_count` the ageing; `close_enter`, `close_refuse`,
`close_mark`, `close_scancel`, `close_settle` are `close_allocation`, called by
the tick and the web. Live steps, AEDT claims and a failed safety probe are a
nondeterministic refusal. FEA tasks reserve no CPU, as in
`allocation_can_run_task`.

### AllocationSubmission

A row that goes RESERVED, IN_PROGRESS, acknowledged; the opener (tick, or AEDT
pool thread for `PoolOpened`); the worker that runs sbatch and can outlive the
opener's budget; recovery (reserved claims fail, in-progress ones are looked up
by job name, held for the grace period, then failed); close while opening; the
orphan sweep of the first tick, whose read of the rows, squeue and cancels are
separate steps. Three histories: `stray` are rows whose job the opener cannot
vouch for (ambiguous sbatch, expired budget, crash, failed reap), `overtaken`
those that a close ended without the id that had been written since it read
them, and `sweep.old` the jobs that were there when the sweep read the rows. One row is submitted at most once, so a row has one job. An acknowledged
row stays "pending" here; its further life is AllocationPool's. The grace period
is a choice between `recover_settle` and `recover_hold`.

### AedtPool

The tables of `aedt_pool.py` as one record `db` (leases, sessions, allocations,
reservations, tasks), because each API call and each reconcile is one
transaction, and beside it what the rows are about: which hosts and Desktops are
up, where a project is open, where a native pipeline runs. A transaction is
written as a pipeline of passes on `db`, in the order of the code; `reconcile`
is the whole of it, and `place_queued_leases` and `refresh_...` run at the end of
every call that runs them. Clocks are windows: a lease has or has not outlived
its offer, its heartbeat, its deadline or its release (`lease_window_passes`).

What the code does before its transaction is a step of its own: a heartbeat and
a release acknowledgement read the clock (`begin_heartbeat`, `begin_release`) and
commit later, in any order (`beating`, `acks`); the reap of a dead session reads
the session, probes and commits (`probe_dead_session`, `reap_dead_session`,
`probed`); a transport fault and a solver timeout end the lease in one
transaction and mark the Desktop in another. A client opens its project in the
step of its accept; a later opening is in `AedtNode`. `lifted` is a history
variable: Desktops whose quarantine a native-suspect report overwrote.

Not in the model: validated-parallel families, the mixed canary (2715-3169),
protocol v1's `aedt_death`, replay of an abandoned request (3371-3437), warm
spares and strict routes of the plan (starts and drains are a choice among what
the plan may select), validation records, operator limits, summaries.

### AedtNode

The host loop (probe, heartbeat, fetch, act, close, acknowledge), two client
processes, the session row and their lease rows. A call is applied and its answer
may be lost; then it is repeated (`request_with_retry`). The Desktop can hang,
die, refuse to close or survive its kill, and the close of a project can fail in a
Desktop that is up. The liveness check after a kill may stay without an answer. The handlers are those of `AedtPool`
with everything left out that other sessions, reservations and capacity decide.

### AedtRuntime

A tick of `AedtPoolRuntime` in its phases (publish, reconcile, replan, open,
check/bind/recheck/reserve/start of each host task, close what is empty), the
scheduler's own thread that may reserve the same host task, Slurm, the hosts, and
a demand that changes. A job may start within a tick, any number of times. One
account, no strict routes; the idle TTL is a choice. A host registers after its
task was bound to the session (see below, Seen while reading).

### AutomationLock, DesktopLock

The RLock of the instance, the gate of the process, the flock of the node and the
record lock of the cluster, each a step, with reentrance, timeouts, failed opens,
release for a native solve and death. Closing a descriptor drops the record lock
of its process, as POSIX says: the gate is there to prevent it.

### LicenseAdmission

Tokens are attempts; each has a launch thread, a claim and a worker that takes its
seats some time after its start. A launch takes any time: its claim may settle, or
be cancelled and dropped, before it is acknowledged. A query begins, counts and
ends in separate steps; `Reconciled` drops claims against the time the query began.
`astray` is a history variable: attempts whose claim was dropped before their
launch was acknowledged (a cancel between the launch mark and the mark on the
claim), or that no live row named when the scheduler restarted. One feature;
acknowledgement and `mark_running` are one step.

### ControlPlaneRelay

The worker's thread, one step per remote command: it reads the marker, then the
pid, checks the process, terminates it, kills it and cleans up its files, and
relays come and go in between. A pid may have got a new owner meanwhile; where the
code checks and signals in one shell command, that is one step. Relay processes
start, bind, publish marker and pid, serve, notice a desired generation that is not
theirs, count the looks that miss the tunnel (any success resets the count) and go.
`_remove_owned_files` reads and unlinks in two steps. A new worker may start at any
time; `late` marks relays of an earlier one that had not published their files
then. The parent probes the listener and replaces the worker; its stop by an
operator is not modelled.

### WebFront

A request is at a place: guard, leader, follower, endpoint thread, replay, done,
or turned away with 503 when the server has taken in `limit_concurrency` of them.
Bulk and detail reads meet the guard, other pages pass it. A leader can fail, be
cancelled at the semaphore or in its endpoint; a follower can be cancelled, which
cancels the future it shares. The event loop makes what lies between two awaits one
step. Requests of nodes pass the relay's and the bridge's semaphores first; each
may lose its tunnel, time out, be malformed or find no thread to start.

## Runs

| Run | Properties | Shows |
|---|---|---|
| `task_attach` (1 053 920 states) | TypeOK, NoUnaccountedDuplicate, QueuedIsAtRest, RunningNamesItsWorker, RejectedNeverCounts | all writers against one task that is strict, FEA, same-node, pinned and timed, two attempts, one restart |
| `task_attach_live` | AttemptEnds | a timed attempt ends, also after a restart that preserved an unacknowledged launch |
| `allocation` (248 742) | ScancelSparesClaims, ClosingSettles, DeadJobIsReleased | no scancel under a task; rows converge after a crash inside a close and after the job ended |
| `submission` (558 146) | TypeOK, JobIsDiscoverable, UnownedJobIsAccounted, SweepSparesTracked | an opening of the tick beside one of the AEDT pool thread, both closed by somebody, with recovery, sweep and a crash |
| `submission_claims` (103 429) | ClaimSettles | the same under fairness, with closes of the pool thread's row |
| `aedt_pool` (661 669) | PermitIsCurrent, SerialSolve, SlotsNotOversold, BarrierHolds, UnclosedNotReused, PermitsAreTurns, CohortSealsWhole, ClosedIsEmpty | two clients, a Desktop of two slots or one, the tick, fifteen mixes of circumstances |
| `aedt_node` (478 406) | ReleasedIsClosed, ReportedIsGone, HealthySolveSurvives, DrainEnds | a host and two clients against lost answers, outages, hangs, failing closes and deaths |
| `aedt_runtime` (113 865) | PoolConverges | two allocations, two sessions, eleven scenarios |
| `automation_lock` (105 904) | TypeOK, RestIsFree, OneAtATime, SomeoneGetsIn | three threads of a host with two lock objects, a client on another node, depth two |
| `license_admission` (2 512 876) | LiveIsAccounted, SeatsNotOversold | two tasks that compete for the one seat that is not reserved and a spare host that takes both, two attempts each |
| `control_plane_relay` (524 219) | UpIsOurs, OthersAreSpared, UrlIsWithdrawn, RelayComesUp | two generations, three relay processes, nine mixes of faults |
| `web_front` (213 308) | SlotsAreReturned, ControlIsServed, ReadsEnd | up to four bulk reads, two detail reads, another page and three node requests, in six scenarios |

PermitsAreTurns and OneAtATime are refinements: `AedtPool` implements
`DesktopTurn` under `turn[s] = ` the holders of a permit on `s`, and
`AutomationLock` implements `DesktopLock` under `inside = ` the threads between
acquire and release. PermitsAreTurns is about rows; SerialSolve is about the
pipelines themselves, which go on when their row is written off. SerialSolve and
UnclosedNotReused speak of leases without a reservation, because the failure of a
cohort ends the leases of its members without their host, and of Desktops whose
quarantine no native-suspect report has overwritten (both: Disagreements).
SweepSparesTracked speaks of the jobs that were there when the sweep read the rows,
UnownedJobIsAccounted names the closes that leave a job behind, PoolConverges
excepts a pool whose jobs start within a tick again and again, and UpIsOurs and
RelayComesUp a relay that is late or without its files; the stronger
forms of the first three are refuted by configurations below. `submission_claims`
leaves the tick's row unclosed to stay small.

Every property of a run has a mutant: a plausible slip in one mapped definition
(a dropped guard, a missing reset) under which TLC finds it violated.

## Disagreements

Properties that the repository states and the code does not keep. Each has a
configuration that TLC refutes within two minutes, most in seconds, with a trace; they are no part of the
runs above.

| Configuration | Property | What happens |
|---|---|---|
| `TaskAttachTimeout.cfg` (MCTaskAttach) | TimeoutHitsItsOwnAttempt | scheduler.py:3478: the timeout of attempt 1 completes after a requeue and relaunch; its final write compares only the status and fails attempt 2. db.py:2367: "Returns False when a concurrent transition (requeue, cancel) won the race." |
| `TaskAttachCancelled.cfg` (MCTaskAttach) | CancelledStaysCancelled | scheduler.py:8220: the user cancels between the kill and the requeue of a reclaimed task; the unconditional requeue runs it again. docs/API.md:493: "The API marks the task cancelled first and returns quickly" |
| `TaskAttachStrict.cfg` (MCTaskAttach) | StrictReleaseAfterKill | slurm.py:1652: the cancellation swallows a failed kill (922-936, 1652-1657) and reports success; the rejected task is declared terminal and requeued while its wrapper runs. scheduler.py:5094: "Retry a durable post-launch rejection until the worker is stopped." |
| `AllocationPoolOwner.cfg` (MCAllocationPool) | ClosedGetsNoOwner | scheduler.py:3095: refresh read PENDING and RUNNING, the close ran, refresh writes WARM; the next placement lands on a cancelled job. scheduler.py:3887: "a closing allocation can never acquire a new owner" |
| `SubmissionRetry.cfg` (MCAllocationSubmission) | FailedIsSafeToRetry | scheduler.py:1060: budget and grace are both 120 s; the claim is failed as safe to retry while the abandoned worker has still to call sbatch |
| `SubmissionLeak.cfg` (MCAllocationSubmission) | NoJobLeaks | scheduler.py:3968: close read the row without job id, the acknowledgement landed, close marks CLOSED without scancel. scheduler.py:10192: "Reap the now-unowned remote job instead of leaking it." |
| `SubmissionAdopt.cfg` (MCAllocationSubmission) | ReapSparesAdopted | scheduler.py:10191: recovery adopts the job of a pool-thread opening, whose acknowledgement then fails and cancels it |
| `SubmissionSweep.cfg` (MCAllocationSubmission) | SweepSparesEveryTracked | scheduler.py:1113: the sweep reads the rows, the pool thread opens an allocation, squeue lists its job, and the sweep cancels it as an orphan. scheduler.py:1102: "Cancel scheduler-created pool allocation jobs the DB no longer tracks" |
| `AedtCohort.cfg` (MCAedtPool) | ReleaseIsTwoPhase | aedt_pool.py:2210: a failing cohort ends a sibling's releasing lease without its host. aedt_pool.py:4569: "only the session host can confirm that the project is closed and make this slot reusable" |
| `AedtCohortSolve.cfg` (MCAedtPool) | EverySolveIsSerial | aedt_pool.py:2604: of a sealed cohort one member solves and the other, waiting, is cancelled; the next refresh takes the target as invalid and fails both leases without settling the owner. The Desktop is unsealed, a heartbeat lowers the barrier, and a third client is given the permit while the first pipeline runs. aedt_pool.py:4147: "Every family currently runs one native pipeline at a time." |
| `AedtSuspect.cfg` (MCAedtPool) | QuarantineOutlivesSuspicion | aedt_pool.py:4834: a native-suspect report sets `quarantine_reason = ''` also where a failed cleanup had set it; the next healthy heartbeat returns the Desktop, whose project is still open. docs/aedt_pool.md:159: "quarantine된 Desktop은 어떤 경우에도 새 lease에 재사용하지 않는다" (a quarantined Desktop is in no case reused for a new lease). A host that was silent for a while gives the same with the mix `{"native", "silence"}`. |
| `LicenseCancel.cfg` (MCLicenseAdmission) | LaunchedClaimsSettle | scheduler.py:5193: a web cancel between the durable launch mark and the mark on the claim pops the claim of a launched attempt. scheduler.py:1901: "Release only a provably unlaunched claim; launched claims settle." |
| `AedtRuntimeStarts.cfg` (MCAedtRuntime) | Settles | aedt_pool.py:10393: a job that starts between the plan of a tick and its closing of empty allocations is closed by that tick and requested again by the next; repeated for ever, the pool has no Desktop. aedt_pool.py:9194 names what it guards against: "the pool deadlocks at zero capacity." |
| `WebStarved.cfg` (MCWebFront) | NodesAreTakenIn | __main__.py:103: reads that wait in the guard count against `limit_concurrency`, so enough of them turn a node's heartbeat away with 503. web_read_guard.py:16: "Keep expensive dashboard reads from starving control-plane traffic" |

Seen while reading and modelling, without a configuration:

* `request_cancel_task` (scheduler.py:11580) can win its status comparison against
  a later attempt and kill the earlier one.
* `update_allocation_capacities` (db.py:2605) can write an older snapshot over a
  newer placement, so that CPUs are given out twice.
* A crash between the CLOSING write and scancel (scheduler.py:3968) can end in a
  CLOSED row whose job still waits, since refresh (3117) takes CLOSING as proof
  that scancel was issued. A CLOSING row without job id (3024) is finished by no
  pass.
* Recovery from storage pressure leaves `failure_message`, so the reuse barrier stays. A
  repeated cancel restarts the release window. A waiting cohort member's cancel
  fails its solving sibling. Placement ignores the drain request of a busy session
  (8748).
* The storage recheck (10333) and a failed bind write FAILED over a host task the
  scheduler may already have launched; a second bind that raises (10383) aborts
  the tick. A Desktop that registers before its bind makes the bind fail; the
  docstring at 5251 says "Bind the sole host task before it can race the global
  scheduler". The model assumes that the bind is first.
* A follower that is cancelled cancels the future it shares with the others
  (web_read_guard.py:202; modelled), and the age of a cached answer is bounded by
  the TTL plus the duration of the endpoint.
* A relay that came up late, or whose files another one's late unlink removed, is
  no longer known to any worker (control_plane_relay.py:657, 798): it holds the port
  until it has missed the tunnel six times in a row.

## Bounds

* Two attempts per task: every ABA needs an old and a new attempt, and the
  model never compares more than two. The proofs do not bound attempts.
* `MaxPressure = 2`: below, at and past the cap of pressure requeues.
* One restart or crash: recovery is idempotent on the rows it writes; a second
  crash meets only states the first one already produces. The proofs do not
  bound restarts.
* One allocation of one CPU and one task in AllocationPool: allocations are
  independent but for the lock, which two threads already contend for; the
  theorem about ScancelSparesClaims has no bound.
* Two rows in AllocationSubmission: the two threads that open.
* AedtPool: two leases and one Desktop. Turns, slots, barriers and cohorts relate
  the clients of one Desktop; a second Desktop only adds a choice of placement.
  The circumstances come in mixes (`FaultMixes`): each behaviour meets one mix, any
  number of times; every action is met in one of them.
* AedtNode: two clients, so that one solves while the other holds the lock or is
  released; one mix of faults per behaviour, without a bound on their number
  unless the fault is a death.
* AedtRuntime: two allocations, two sessions, at most one request per tick, each
  fault of a scenario once; how often a job starts within a tick is not bounded. That is the smallest pool in which a plan is partly
  placed and partly requested.
* AutomationLock: two threads of one instance, a second instance of the process
  and a second node make each of the four layers the one that decides.
* LicenseAdmission: settlement and interval are one unit of a clock that runs to
  one, a snapshot is fresh for the unit it was taken in; a claim that settles before
  its launch ends, and a query on either side of it, fit in that. Tasks that may not
  use the reserve cost the one seat outside it, the spare host costs both: no two of
  the three fit together.
* ControlPlaneRelay: a worker, its successor and three processes: one that is
  adopted, one that is launched, one that is late; a slot is used again when its
  process has gone. A relay goes after two looks in a row instead of six.
* WebFront: every pool is exceeded by one in some scenario, also by followers that
  retry at once after their leader failed: four bulk reads against three workers.

`CHECK_DEADLOCK FALSE` where every task may be finished and every bound used up;
AedtRuntime and ControlPlaneRelay never stop, and their deadlocks are checked.

## Fairness

* Attach threads, closers and openers run to their end (weak fairness): they are
  threads that never wait for one another but for `_task_assignment_lock`, which
  is always released; steps that need it are strongly fair.
* Every tick refreshes the tasks and drains finished reaps: strong fairness for
  scheduling and draining timeouts, weak for the remote cancel, which has its own
  SSH timeout.
* Every tick refreshes every live allocation and a truthful Slurm answer comes
  again and again: strong fairness of `refresh_read` and of the truthful probe.
  The tick's `close_enter` is the only strongly fair use of the lock there. A Slurm
  job ends at its walltime.
* The recovery pass runs in every tick and its query succeeds again and again;
  the grace period passes (strong fairness of the three recovery steps).
* AedtNode: the host's loop and the tick go on, a call is answered in the end and
  outages are finite, a client goes on or dies.
* AedtRuntime: the tick, the scheduler and the hosts that live go on (weak); Slurm
  starts a request that stays eligible again and again (strong).
* AutomationLock: a holder releases, a waiter that is offered the layer again and
  again takes it, and from some time on nobody times out: a waiter that always
  times out is no deadlock.
* ControlPlaneRelay: the supervising thread, the parent and the relay processes go
  on (weak). A relay looks at the tunnel again and again, but the tunnel may be
  there at each look: nothing makes it miss the tunnel often enough in a row.
  RelayComesUp therefore excepts the relay without its files, which only that
  removes.
* WebFront: weak fairness of the event loop, the bridge, the return of a lost tunnel
  and of endpoints that do not hang.

Nothing is assumed about crashes, closes, cancels or users.

## Proofs

For any constants that satisfy the `ASSUME`s (subset relations, natural bounds,
distinct null values), by invariants that are inductive:

* **TaskAttachProofs**: TypeCorrect, NoDuplicateRun, QueuedAtRest,
  RunningIsNamed, RejectedIsOver. The properties alone are not inductive: that a
  second wrapper cannot start follows from who owns a launched attempt. `Inv` adds
  that attempts are numbered by `nextToken` (FreshTokens), that a launching thread
  still owns its row or the task was ended (LaunchOwnsRow), that a live worker is
  the one the row names unless its kill was lost (WorkerIsOwned), the shape of held
  and acknowledged claims (ClaimShape), and what the tick's snapshot still implies
  (TickSnapshot).
* **AllocationPoolProofs**: TypeCorrect, PlainCloseSparesClaims. `Inv` adds that a
  thread between a check and the write that relies on it holds the lock
  (LockHolder) and knows its allocation (Engaged); a claim appears only under the
  lock.
* **AllocationSubmissionProofs**: TypeCorrect, DiscoverableJob, JobsAccounted and
  SweepSpares, for any rows, whoever opens and closes them. `Inv` says row by row
  that the claim precedes the worker, that a job comes from a worker, that a close
  which cancels holds the id, and that a job is followed, recorded, a stray or
  overtaken. `SweepView` adds what the sweep relies on: a job that was there when it
  read the rows and that it does not spare has a row that is over, and nobody makes
  such a row PENDING again.
* **AutomationLockProofs**: Types, NothingLeaks and Implements (the refinement of
  `DesktopLock`), for any threads, instances, processes and nodes. That one thread
  is inside follows from all four layers together: `Layered` says which layers a
  thread at each step has, that the gate belongs to the instance whose RLock its
  owner holds, and that the owner of the record lock is the process of the thread
  that took it last. Without the gate the last part is not inductive: a second
  instance that closes the file drops the record lock of the first, which is what
  the mutant of OneAtATime does.
* **AedtNodeProofs**: ReportedSessionIsGone, ReleasedProjectIsClosed and
  SolvesSurvive, for any number of clients and any mix of faults. The first rests on `Owned`: a host with a
  token has a Desktop, and it gives up its proxy only when the process is gone or it
  exits without a report. The second rests on `Handover`, because what the host was
  told to close may be fetched long before it is acknowledged: leases it was told
  about are on their way out and it forgets them before it reports (Told), the client
  of such a lease does not attach again unless it was cut off (Leaving), and what the
  host closed therefore stays closed until the acknowledgement (ClosedFirst). The
  third adds what the host relies on when it decides to close: the answer of the
  second fetch stays true while it works through the releases (`Current`), because
  only a native probe lifts a quarantine, only a heartbeat makes a session ready
  again and only a ready session is given leases, and all three are steps of the
  host that come before the second fetch.
* **LicenseAdmissionProofs**: LiveWorkersAccounted and SeatsNeverOversold, for any
  tasks, attempts, costs, seats, times and faults, without a premise; both speak of
  the workers that are not `astray`. A claim is dropped only against a query that
  began after the claim had settled; by then its worker had checked out or was gone,
  so the query counted it (Settling), and an unclaimed live worker holds its seats
  and is in every count made since (Accounted). `Inv` adds the shapes of threads,
  rows and claims that make a claim's stamps no earlier than its worker
  (ThreadShape, RowShape, ClaimShape). The number of seats follows because live
  workers only come from reservations, where claims and count together are at least
  the live ones (WithinSeats).
* **AedtPoolProofs**: TablesHold, PermitsAreCurrent, SlotsAreNotOversold,
  BarrierStands, PermitsImplementTurns (the refinement of `DesktopTurn`),
  UnclosedIsNotReused and SolvesAreSerial, for any leases, Desktops, allocations,
  slots and mixes. A transaction is a pipeline of passes, so the proof is one of
  relations between databases. `Quiet` says what a pass may do to rows (no lease
  takes a slot or a permit, no Desktop is reopened, unblocked or sealed, an owner
  without reservation loses its slot only with its Desktop or on a silent
  quarantined one); `Passes` adds that the result is `Sound`, and composes; a
  placement is weaker and is `Calm`. Each action is then one of seven kinds of step (`StepKind`): calm, grant,
  attach, settle, a report of the host, a death, a release. `Tables` is inductive
  over the kinds. Its part `Sound` relates the tables: a permit is the generation
  its Desktop is sealed for, one per Desktop; a reservation and its lease never
  hold two slots; an assignable Desktop is registered. Its part `Barrier` is
  BarrierHolds for every Desktop that is not gone, and distinguishes a barrier set
  before the clock of the heartbeat under way from one set after it, without which
  a heartbeat could take down a later release's barrier. Clock readings and commits
  are separate steps there, of heartbeats and of acknowledgements.

  UnclosedIsNotReused needs to know what runs on the Desktops: an open project
  belongs to an owner or its Desktop is `Lost` (gone, or in a quarantine), and
  nothing is open on a Desktop that never registered (`Desktops`). SolvesAreSerial
  adds that a pipeline belongs to an owner with a permit whose project is open, or
  its Desktop is lost (`Pipelines`): a grant finds the Desktop assignable, hence not
  lost, and without a permit, hence without a pipeline. Both invariants are stated
  for the `Trusted` Desktops, those that exist and whose quarantine no native-suspect
  report has overwritten: for them a quarantine ends only with the Desktop. Nothing
  else is assumed of the faults.
* **WebProofs**: SlotsComeBack of `WebFront`, for any number of node requests and
  slots and every way a request ends. `SlotsInv` is the property with its types; the
  argument is a lemma on cardinalities (OneMoves) by which the step of one request
  changes the number of those who use a slot by one or not at all. The module also
  instantiates `ControlPlaneRelay` and proves DeclaredUpIsOurs (UpIsOurs) and
  OtherRelaysAreSpared (OthersAreSpared), for any relay processes, generations and
  faults, from the one assumption that None names no process. The worker decides on
  files that other processes write and unlink between its commands; what makes that
  sound is the port: it has one owner from bind to close (Binding), only its owner
  writes marker and pid, so the files of a relay that serves are its own or are
  missing (Named), and a relay that has not published its files yet was launched by
  this worker or is late (Newest). Hence the marker that was read is that of any
  other worker's relay that still serves (Noticed), what `inspect` and the launch
  command read is true of whoever serves at the first probe (Vetted), and signals
  are sent only under a marker of this worker (Aimed), by a command that looks at
  the process again.

TypeCorrect of AllocationPool also bounds the stored free capacity by zero and the
total, which the one-task instance cannot exceed.

Only model-checked: every liveness property (AttemptEnds, ClosingSettles,
DeadJobIsReleased, ClaimSettles, DrainEnds, PoolConverges, SomeoneGetsIn,
UrlIsWithdrawn, RelayComesUp, ControlIsServed, ReadsEnd), because liveness under
fairness is outside the prover; CohortSealsWhole and ClosedIsEmpty of AedtPool, which
have no proof yet; and the disagreements. ENABLED, induction over data and RECURSIVE operators are
outside the prover as well; no module uses them.

## Not modelled

Command text, rendering, parsing, metrics, configuration and operator scripts
have no state of their own. Policy (which task, which node, how many allocations,
which victim) is a nondeterministic choice. Terminal workspace cleanup and batch
jobs have state and are left for later. What each modelled component leaves out
is said with its module above.

## Plan

1. Theorems: ClosedIsEmpty of `AedtPool`, and CohortSealsWhole, whose passes would
   have to be followed reservation by reservation.
2. `WorkspaceCleanup`: claims, retry, stale claims; nothing in use is deleted.
3. Batch jobs, on the pattern of `AllocationSubmission`.
4. The mixed canary and the validated-parallel families in `AedtPool`; strict
   routes and a second account in `AedtRuntime`.
5. Pure algorithms: `tasks_to_refresh`, partition ranking, the dynamic allocation
   plan of `pestat.py`, against reference definitions.
