----------------------------- MODULE TaskAttach -----------------------------
(***************************************************************************)
(* The life of an attached task: the row of table `tasks', the thread that *)
(* completes each reserved attach, the remote worker it starts, and the    *)
(* other writers of the row: the scheduler tick, the timeout reaper, the   *)
(* two cancel endpoints of the web process, the sweeps that fail a task    *)
(* with its allocation or reference task, and start-up recovery.           *)
(*                                                                         *)
(* Every database statement is one step; every SSH call (attach_task,      *)
(* cancel_task) is a step of its own, so that any other writer can act     *)
(* between the read of a row, the remote call and the write that follows.  *)
(* Which allocation admits a task is left to module AllocationPool: here   *)
(* an admitted task is simply reserved.                                    *)
(***************************************************************************)
EXTENDS Naturals

CONSTANTS
    Tasks,          \* the task ids
    NoTask,         \* the tick works on no task
    Strict,         \* tasks with node_name_policy=strict and a node name
    Fea,            \* standalone fea_bursty tasks: pressure/rebalance victims
    SameNode,       \* tasks with a same_node_as reference
    Pinned,         \* tasks with an explicit requested_allocation_id
    Timed,          \* tasks with timeout_seconds > 0
    MaxToken,       \* bound: attach attempts per task
    MaxPressure,    \* fea_pressure_max_attempts
    MaxRestarts     \* bound: scheduler restarts

ASSUME TaskSets == /\ Strict \subseteq Tasks
                   /\ Fea \subseteq Tasks
                   /\ SameNode \subseteq Tasks
                   /\ Pinned \subseteq Tasks
                   /\ NoTask \notin Tasks
                   /\ Timed \subseteq Tasks
ASSUME Bounds == /\ MaxToken \in Nat
                 /\ MaxPressure \in Nat \ {0}
                 /\ MaxRestarts \in Nat

VARIABLES
    row,        \* tasks: status, attach_token, launch_started_at, paths, ...
    nextToken,  \* the next uuid4() of a task's attach attempts
    attach,     \* program counter of finish_reserved_task_attach, per attempt
    worker,     \* the remote wrapper of each attempt and its exit_code file
    tick,       \* the row snapshot the scheduler tick is working from
    reaper,     \* _timed_out_task_cancellations: snapshot and future
    canceller,  \* a web request that is cancelling the task
    condemned,  \* tasks a fail_* sweep has read and will mark FAILED
    lost,       \* history: attempts whose remote kill did not take effect
    restarts

webVars == <<canceller, condemned>>
history == <<lost, restarts>>
vars == <<row, nextToken, attach, worker, tick, reaper, canceller,
          condemned, lost, restarts>>

NoToken == 0
Tokens == 1..MaxToken

Active == {"attaching", "running"}
Terminal == {"completed", "failed", "cancelled"}
Status == {"queued"} \cup Active \cup Terminal

(* held: failure_message starts with STRICT_NODE_CANCELLATION_PENDING;     *)
(* acked: exit_code_path and wrapper_pid are recorded.                     *)
Row == [status : Status, token : {NoToken} \cup Tokens, launched : BOOLEAN,
        acked : BOOLEAN, held : BOOLEAN, tries : 0..MaxPressure]

AttachPc == {"none", "reserved", "launching", "launch_error", "started",
             "rejected_killed", "rejected_alive", "raced", "done"}
Exited == {"completed", "failed"}
WorkerState == {"none", "running", "killed"} \cup Exited

TickIdle == [op |-> "idle", task |-> NoTask, status |-> "queued",
             token |-> NoToken, phase |-> "read"]
TickWork == [op : {"idle", "probe", "pressure", "rebalance", "strict"},
             task : Tasks \cup {NoTask}, status : Status,
             token : {NoToken} \cup Tokens, phase : {"read", "kill", "write"}]
NoReap == [token |-> NoToken, future |-> "none"]
Reap == {NoReap} \cup [token : Tokens, future : {"running", "done"}]
Cancel == {c \in [pc : {"idle", "cas", "kill", "form_kill", "form_write"},
                  status : Status, token : {NoToken} \cup Tokens] :
              /\ c.pc \in {"kill", "form_kill"} => c.status \in Active
              /\ c.status \in Active => c.token \in Tokens}
NoCancel == [pc |-> "idle", status |-> "queued", token |-> NoToken]

Init ==
    /\ row = [t \in Tasks |-> [status |-> "queued", token |-> NoToken,
                               launched |-> FALSE, acked |-> FALSE,
                               held |-> FALSE, tries |-> 0]]
    /\ nextToken = [t \in Tasks |-> 1]
    /\ attach = [t \in Tasks |-> [k \in Tokens |-> "none"]]
    /\ worker = [t \in Tasks |-> [k \in Tokens |-> "none"]]
    /\ tick = TickIdle
    /\ reaper = [t \in Tasks |-> NoReap]
    /\ canceller = [t \in Tasks |-> NoCancel]
    /\ condemned = {}
    /\ lost = [t \in Tasks |-> {}]
    /\ restarts = 0

-----------------------------------------------------------------------------
(* Writes to the row.                                                      *)

\* Mutant: the claim is recognised by its status alone.
OwnsClaim_status_only(t, k) == row[t].status = "attaching"

\* update_task_if_attach_claim: the row is still ATTACHING under token k.
OwnsClaim(t, k) == row[t].status = "attaching" /\ row[t].token = k

\* The fields every requeue resets; attempt_count is the caller's.
Requeued(r, n) == [r EXCEPT !.status = "queued", !.token = NoToken,
                            !.launched = FALSE, !.acked = FALSE,
                            !.held = FALSE, !.tries = n]

\* A status write; a claim is held only while the row is ATTACHING.
WithStatus(r, s) == [r EXCEPT !.status = s, !.held = FALSE]
SetStatus(t, s) == row' = [row EXCEPT ![t] = WithStatus(@, s)]

\* A conditional write under the attach claim of attempt k: a no-op once the
\* claim is gone.
IfClaimed(t, k, r) == row' = IF OwnsClaim(t, k) THEN [row EXCEPT ![t] = r] ELSE row

\* client.cancel_task sends kills to the wrapper's process group and to every
\* process on the allocation that carries the task's marker.  Whether it then
\* reports success is the caller's to read and says little: the kill commands
\* swallow their own failures and srun's error is dropped.  It reaches any of
\* the task's workers; a live one it was aimed at and missed is lost.
cancel_task(t, k) ==
    \E reach \in SUBSET Tokens, end \in {"killed", "failed"} :
        /\ worker' = [worker EXCEPT ![t] =
              [j \in Tokens |-> IF @[j] = "running" /\ j \in reach THEN end ELSE @[j]]]
        /\ lost' = IF worker[t][k] = "running" /\ k \notin reach
                   THEN [lost EXCEPT ![t] = @ \cup {k}] ELSE lost

-----------------------------------------------------------------------------
(* Assignment and the attach thread.                                       *)

\* reserve_task_on_allocation: QUEUED -> ATTACHING with a fresh token, by an
\* optimistic update; starts the attach thread.  The scheduler loop assigns
\* between its other duties; only a same-node task is also assigned by the web
\* request that submits it.
reserve_task_on_allocation(t) ==
    /\ row[t].status = "queued"
    /\ tick = TickIdle \/ t \in SameNode
    /\ nextToken[t] \in Tokens
    /\ row' = [row EXCEPT ![t] = [@ EXCEPT !.status = "attaching",
                                           !.token = nextToken[t],
                                           !.launched = FALSE,
                                           !.acked = FALSE, !.held = FALSE]]
    /\ attach' = [attach EXCEPT ![t][nextToken[t]] = "reserved"]
    /\ nextToken' = [nextToken EXCEPT ![t] = @ + 1]
    /\ UNCHANGED <<worker, tick, reaper, webVars, history>>

AttachGoto(t, k, pc) == attach' = [attach EXCEPT ![t][k] = pc]

\* The exact-node readback rejects the placement before launch.
strict_reject_before_launch(t, k) ==
    /\ attach[t][k] = "reserved"
    /\ t \in Strict
    /\ IfClaimed(t, k, WithStatus(row[t], "failed"))
    /\ AttachGoto(t, k, "done")
    /\ UNCHANGED <<nextToken, worker, tick, reaper, webVars, history>>

\* The durable launch boundary: launch_started_at is written before the
\* remote side effect, and only by the attempt that owns the row.
mark_launch_started(t, k) ==
    /\ attach[t][k] = "reserved"
    /\ IF OwnsClaim(t, k) /\ ~row[t].launched
       THEN /\ row' = [row EXCEPT ![t].launched = TRUE]
            /\ AttachGoto(t, k, "launching")
       ELSE AttachGoto(t, k, "done") /\ UNCHANGED row
    /\ UNCHANGED <<nextToken, worker, tick, reaper, webVars, history>>

\* client.attach_task: starts the wrapper, or raises; a timeout of the SSH
\* call can raise although the wrapper was started.
attach_task(t, k) ==
    /\ attach[t][k] = "launching"
    /\ \E starts, raises \in BOOLEAN :
          /\ starts \/ raises
          /\ worker' = IF starts THEN [worker EXCEPT ![t][k] = "running"] ELSE worker
          /\ lost' = IF starts /\ raises THEN [lost EXCEPT ![t] = @ \cup {k}] ELSE lost
          /\ AttachGoto(t, k, IF raises THEN "launch_error" ELSE "started")
    /\ UNCHANGED <<row, nextToken, tick, reaper, restarts, webVars>>

\* attach_task raised: FAILED, if the claim still stands.
attach_failed(t, k) ==
    /\ attach[t][k] = "launch_error"
    /\ IfClaimed(t, k, WithStatus(row[t], "failed"))
    /\ AttachGoto(t, k, "done")
    /\ UNCHANGED <<nextToken, worker, tick, reaper, webVars, history>>

\* The worker is up: RUNNING with its paths and pid, if the claim still
\* stands; otherwise the row moved on and the worker must be stopped.
complete_attach(t, k) ==
    /\ attach[t][k] = "started"
    /\ IF OwnsClaim(t, k)
       THEN /\ row' = [row EXCEPT ![t] = [WithStatus(@, "running") EXCEPT !.acked = TRUE]]
            /\ AttachGoto(t, k, "done")
       ELSE AttachGoto(t, k, "raced") /\ UNCHANGED row
    /\ UNCHANGED <<nextToken, worker, tick, reaper, webVars, history>>

cancel_raced_attach(t, k) ==
    /\ attach[t][k] = "raced"
    /\ cancel_task(t, k)
    /\ AttachGoto(t, k, "done")
    /\ UNCHANGED <<row, nextToken, tick, reaper, restarts, webVars>>

\* The readback after launch names another node: cancel the worker ...
strict_reject_after_launch(t, k) ==
    /\ attach[t][k] = "started"
    /\ t \in Strict
    /\ cancel_task(t, k)
    /\ \E ok \in BOOLEAN :
          AttachGoto(t, k, IF ok THEN "rejected_killed" ELSE "rejected_alive")
    /\ UNCHANGED <<row, nextToken, tick, reaper, restarts, webVars>>

\* ... and declare the task FAILED only if no error was reported; otherwise keep
\* the claim, marked for retry by refresh_tasks.
settle_strict_rejection(t, k) ==
    /\ \/ /\ attach[t][k] = "rejected_killed"
          /\ IfClaimed(t, k, [WithStatus(row[t], "failed") EXCEPT !.acked = TRUE])
       \/ /\ attach[t][k] = "rejected_alive"
          /\ IfClaimed(t, k, [row[t] EXCEPT !.held = TRUE, !.acked = TRUE])
    /\ AttachGoto(t, k, "done")
    /\ UNCHANGED <<nextToken, worker, tick, reaper, webVars, history>>

-----------------------------------------------------------------------------
(* The scheduler tick: one thread; it reads a row, makes a remote call and *)
(* writes the row without looking at it again.                             *)

TickBegin(t, op, phase) ==
    /\ tick = TickIdle
    /\ tick' = [op |-> op, task |-> t, status |-> row[t].status,
                token |-> row[t].token, phase |-> phase]
    /\ UNCHANGED <<row, nextToken, attach, worker, reaper, webVars, history>>

\* Mutant: a claim held for its cancellation is probed like the others.
refresh_task_also_held(t) ==
    /\ row[t].status \in Active
    /\ row[t].status = "attaching" => row[t].acked
    /\ TickBegin(t, "probe", "write")

\* refresh_tasks: an active, unexpired row with recorded paths is probed.
refresh_task(t) ==
    /\ row[t].status \in Active /\ ~row[t].held
    /\ row[t].status = "attaching" => row[t].acked
    /\ TickBegin(t, "probe", "write")

\* _apply_task_probe: the exit_code file decides; no file means RUNNING.
_apply_task_probe(t) ==
    /\ tick.op = "probe" /\ tick.task = t
    /\ IF worker[t][tick.token] \in Exited
       THEN SetStatus(t, worker[t][tick.token])
       ELSE IF tick.status = "attaching" THEN SetStatus(t, "running") ELSE UNCHANGED row
    /\ tick' = TickIdle
    /\ UNCHANGED <<nextToken, attach, worker, reaper, webVars, history>>

\* Mutant: a task whose attach is still in flight is a victim too.
reclaim_victim_any_active(t, op) ==
    /\ t \in Fea
    /\ row[t].status \in Active
    /\ TickBegin(t, op, "kill")

\* handle_fea_memory_pressure / enforce_fea_node_cpu_cap pick a RUNNING
\* standalone FEA victim ...
reclaim_victim(t, op) ==
    /\ t \in Fea
    /\ row[t].status = "running"
    /\ TickBegin(t, op, "kill")

\* ... cancel its worker, ignoring a failure ...
reclaim_cancel(t) ==
    /\ tick.op \in {"pressure", "rebalance"} /\ tick.task = t /\ tick.phase = "kill"
    /\ cancel_task(t, tick.token)
    /\ tick' = [tick EXCEPT !.phase = "write"]
    /\ UNCHANGED <<row, nextToken, attach, reaper, restarts, webVars>>

\* Mutant: the attempt cap is off by one.
requeue_pressure_killed_task_past_cap(t) ==
    /\ tick.op = "pressure" /\ tick.task = t /\ tick.phase = "write"
    /\ LET attempts == row[t].tries + 1
       IN  IF attempts > MaxPressure
           THEN row' = [row EXCEPT ![t] = [WithStatus(@, "failed") EXCEPT !.tries = attempts]]
           ELSE row' = [row EXCEPT ![t] = Requeued(@, attempts)]
    /\ tick' = TickIdle
    /\ UNCHANGED <<nextToken, attach, worker, reaper, webVars, history>>

\* ... and requeue the row unconditionally; a pressure kill counts an
\* attempt and fails the task at the cap.
requeue_pressure_killed_task(t) ==
    /\ tick.op = "pressure" /\ tick.task = t /\ tick.phase = "write"
    /\ LET attempts == row[t].tries + 1
       IN  IF attempts >= MaxPressure
           THEN row' = [row EXCEPT ![t] = [WithStatus(@, "failed") EXCEPT !.tries = attempts]]
           ELSE row' = [row EXCEPT ![t] = Requeued(@, attempts)]
    /\ tick' = TickIdle
    /\ UNCHANGED <<nextToken, attach, worker, reaper, webVars, history>>

requeue_task_for_rebalance(t) ==
    /\ tick.op = "rebalance" /\ tick.task = t /\ tick.phase = "write"
    /\ row' = [row EXCEPT ![t] = Requeued(@, @.tries)]
    /\ tick' = TickIdle
    /\ UNCHANGED <<nextToken, attach, worker, reaper, webVars, history>>

\* retry_strict_node_cancellation: a held claim is cancelled again, and
\* released only when the cancellation reported no error.
retry_strict_node_cancellation(t) ==
    /\ row[t].status = "attaching" /\ row[t].held
    /\ TickBegin(t, "strict", "kill")

retry_strict_cancel(t) ==
    /\ tick.op = "strict" /\ tick.task = t /\ tick.phase = "kill"
    /\ cancel_task(t, tick.token)
    /\ tick' \in {[tick EXCEPT !.phase = "write"], TickIdle}
    /\ UNCHANGED <<row, nextToken, attach, reaper, restarts, webVars>>

retry_strict_release(t) ==
    /\ tick.op = "strict" /\ tick.task = t /\ tick.phase = "write"
    /\ IfClaimed(t, tick.token, WithStatus(row[t], "failed"))
    /\ tick' = TickIdle
    /\ UNCHANGED <<nextToken, attach, worker, reaper, webVars, history>>

(* The sweeps that fail a task: they list rows, decide, and then write     *)
(* FAILED by id.  They run in the tick and in web requests (force close,   *)
(* submission of a same-node task).  The end of the allocation itself, and *)
(* with it of the worker, is WorkerExit.                                   *)

Condemn(t) ==
    /\ t \notin condemned
    /\ condemned' = condemned \cup {t}
    /\ UNCHANGED <<row, nextToken, attach, worker, tick, reaper, canceller, history>>

\* The allocation is force-closed, by hand or near the end of its walltime.
fail_running_tasks(t) == row[t].status \in Active /\ Condemn(t)

\* The task it must share a node with is gone or terminal.
fail_stale_same_node_tasks(t) ==
    t \in SameNode /\ row[t].status \in {"queued"} \cup Active /\ Condemn(t)

\* The allocation it is pinned to cannot recover.
fail_stale_requested_allocation_tasks(t) ==
    t \in Pinned /\ row[t].status = "queued" /\ Condemn(t)

fail_write(t) ==
    /\ t \in condemned
    /\ SetStatus(t, "failed")
    /\ condemned' = condemned \ {t}
    /\ UNCHANGED <<nextToken, attach, worker, tick, reaper, canceller, history>>

-----------------------------------------------------------------------------
(* Timeouts: the deadline is seen by the tick, the remote cancel runs on   *)
(* an executor, and a later tick finalises the row by its status alone.    *)

\* Mutant: only tasks with recorded paths are looked at, like the probes.
schedule_timed_out_acked_only(t) ==
    /\ tick = TickIdle
    /\ t \in Timed
    /\ row[t].status \in Active /\ ~row[t].held /\ row[t].acked
    /\ reaper[t] = NoReap
    /\ reaper' = [reaper EXCEPT ![t] = [token |-> row[t].token, future |-> "running"]]
    /\ UNCHANGED <<row, nextToken, attach, worker, tick, webVars, history>>

_schedule_timed_out_task_cancellation(t) ==
    /\ tick = TickIdle
    /\ t \in Timed
    /\ row[t].status \in Active /\ ~row[t].held
    /\ reaper[t] = NoReap
    /\ reaper' = [reaper EXCEPT ![t] = [token |-> row[t].token, future |-> "running"]]
    /\ UNCHANGED <<row, nextToken, attach, worker, tick, webVars, history>>

_cancel_timed_out_task_remote(t) ==
    /\ reaper[t].future = "running"
    /\ cancel_task(t, reaper[t].token)
    /\ reaper' = [reaper EXCEPT ![t].future = "done"]
    /\ UNCHANGED <<row, nextToken, attach, tick, restarts, webVars>>

_drain_timed_out_task_cancellations(t) ==
    /\ tick = TickIdle
    /\ reaper[t].future = "done"
    /\ reaper' = [reaper EXCEPT ![t] = NoReap]
    /\ IF row[t].status \in Active THEN SetStatus(t, "failed") ELSE UNCHANGED row
    /\ UNCHANGED <<nextToken, attach, worker, tick, webVars, history>>

-----------------------------------------------------------------------------
(* Cancellation from the web process: POST /api/tasks/{id}/cancel marks    *)
(* the row first, POST /tasks/{id}/cancel kills the worker first.          *)

CancelGoto(t, pc) == canceller' = [canceller EXCEPT ![t].pc = pc]

cancel_read(t, api) ==
    /\ canceller[t].pc = "idle"
    /\ row[t].status \notin Terminal
    /\ canceller' = [canceller EXCEPT ![t] =
          [pc |-> IF api THEN "cas"
                  ELSE IF row[t].status \in Active THEN "form_kill" ELSE "form_write",
           status |-> row[t].status, token |-> row[t].token]]
    /\ UNCHANGED <<row, nextToken, attach, worker, tick, reaper, condemned, history>>

\* request_cancel_task: compare-and-set on the status read; a lost race
\* starts over from a fresh row.
request_cancel_task(t) ==
    /\ canceller[t].pc = "cas"
    /\ IF row[t].status = canceller[t].status
       THEN /\ SetStatus(t, "cancelled")
            /\ CancelGoto(t, IF canceller[t].status \in Active THEN "kill" ELSE "idle")
       ELSE CancelGoto(t, "idle") /\ UNCHANGED row
    /\ UNCHANGED <<nextToken, attach, worker, tick, reaper, condemned, history>>

\* _cancel_task_remote_best_effort, and the remote half of cancel_task.
cancel_remote_best_effort(t) ==
    /\ canceller[t].pc \in {"kill", "form_kill"}
    /\ cancel_task(t, canceller[t].token)
    /\ CancelGoto(t, IF canceller[t].pc = "kill" THEN "idle" ELSE "form_write")
    /\ UNCHANGED <<row, nextToken, attach, tick, reaper, condemned, restarts>>

\* The form endpoint's unconditional update.
form_cancel_write(t) ==
    /\ canceller[t].pc = "form_write"
    /\ SetStatus(t, "cancelled")
    /\ CancelGoto(t, "idle")
    /\ UNCHANGED <<nextToken, attach, worker, tick, reaper, condemned, history>>

-----------------------------------------------------------------------------
(* The environment: the workload ends, with or without an exit_code file.  *)
WorkerExit(t, k) ==
    /\ worker[t][k] = "running"
    /\ \E end \in Exited \cup {"killed"} : worker' = [worker EXCEPT ![t][k] = end]
    /\ UNCHANGED <<row, nextToken, attach, tick, reaper, webVars, history>>

\* Mutant: recovery requeues every attaching row.
RecoveredRow_always(r) ==
    IF r.status = "attaching" THEN Requeued(r, r.tries) ELSE r

\* recover_transient_states: a reservation that never reached the launch
\* boundary is requeued; any other attaching claim is preserved.
RecoveredRow(r) ==
    IF r.status = "attaching" /\ r.token # NoToken /\ ~r.launched
    THEN Requeued(r, r.tries) ELSE r

\* The process dies: its threads vanish.  A launch in flight may or may not
\* have reached the login node.
CrashRestart ==
    /\ restarts < MaxRestarts
    /\ restarts' = restarts + 1
    /\ row' = [t \in Tasks |-> RecoveredRow(row[t])]
    /\ \E reached \in BOOLEAN :
          worker' = [t \in Tasks |-> [k \in Tokens |->
              IF attach[t][k] = "launching" /\ reached THEN "running" ELSE worker[t][k]]]
    /\ attach' = [t \in Tasks |-> [k \in Tokens |->
              IF attach[t][k] = "none" THEN "none" ELSE "done"]]
    /\ tick' = TickIdle
    /\ reaper' = [t \in Tasks |-> NoReap]
    /\ canceller' = [t \in Tasks |-> NoCancel]
    /\ condemned' = {}
    /\ UNCHANGED <<nextToken, lost>>

\* Scheduler.stop()/start() in a live process, or a second scheduler on the
\* same database: attach threads and web requests of the old one survive.
SoftRestart ==
    /\ restarts < MaxRestarts
    /\ tick = TickIdle
    /\ restarts' = restarts + 1
    /\ row' = [t \in Tasks |-> RecoveredRow(row[t])]
    /\ reaper' = [t \in Tasks |-> NoReap]
    /\ UNCHANGED <<nextToken, attach, worker, tick, lost, webVars>>

-----------------------------------------------------------------------------
AttachStep(t, k) ==
    \/ strict_reject_before_launch(t, k)
    \/ mark_launch_started(t, k)
    \/ attach_task(t, k)
    \/ attach_failed(t, k)
    \/ complete_attach(t, k)
    \/ cancel_raced_attach(t, k)
    \/ strict_reject_after_launch(t, k)
    \/ settle_strict_rejection(t, k)

TickFinish(t) ==
    \/ _apply_task_probe(t)
    \/ reclaim_cancel(t)
    \/ requeue_pressure_killed_task(t)
    \/ requeue_task_for_rebalance(t)
    \/ retry_strict_cancel(t)
    \/ retry_strict_release(t)

TickStart(t) ==
    \/ refresh_task(t)
    \/ \E op \in {"pressure", "rebalance"} : reclaim_victim(t, op)
    \/ retry_strict_node_cancellation(t)

TimeoutStep(t) ==
    \/ _schedule_timed_out_task_cancellation(t)
    \/ _cancel_timed_out_task_remote(t)
    \/ _drain_timed_out_task_cancellations(t)

CancelStep(t) ==
    \/ \E api \in BOOLEAN : cancel_read(t, api)
    \/ request_cancel_task(t)
    \/ cancel_remote_best_effort(t)
    \/ form_cancel_write(t)

FailSweep(t) ==
    \/ fail_running_tasks(t)
    \/ fail_stale_same_node_tasks(t)
    \/ fail_stale_requested_allocation_tasks(t)
    \/ fail_write(t)

Next ==
    \/ \E t \in Tasks :
          \/ reserve_task_on_allocation(t)
          \/ \E k \in Tokens : AttachStep(t, k) \/ WorkerExit(t, k)
          \/ TickStart(t)
          \/ TickFinish(t)
          \/ FailSweep(t)
          \/ TimeoutStep(t)
          \/ CancelStep(t)
    \/ CrashRestart
    \/ SoftRestart

Spec == Init /\ [][Next]_vars

\* Threads run to their end; every tick calls refresh_tasks, which drains the
\* finished reaps and looks at every active row's deadline.
Fairness ==
    \A t \in Tasks :
        /\ \A k \in Tokens : WF_vars(AttachStep(t, k))
        /\ WF_vars(TickFinish(t))
        /\ SF_vars(_schedule_timed_out_task_cancellation(t))
        /\ WF_vars(_cancel_timed_out_task_remote(t))
        /\ SF_vars(_drain_timed_out_task_cancellations(t))

FairSpec == Spec /\ Fairness

-----------------------------------------------------------------------------
\* The types of the row, the threads and the workers; an unfinished task
\* has pressure attempts left.
TypeOK ==
    /\ row \in [Tasks -> Row]
    /\ \A t \in Tasks : row[t].status \notin Terminal => row[t].tries < MaxPressure
    /\ nextToken \in [Tasks -> 1..(MaxToken + 1)]
    /\ attach \in [Tasks -> [Tokens -> AttachPc]]
    /\ worker \in [Tasks -> [Tokens -> WorkerState]]
    /\ tick \in TickWork
    /\ reaper \in [Tasks -> Reap]
    /\ canceller \in [Tasks -> Cancel]
    /\ condemned \in SUBSET Tasks
    /\ lost \in [Tasks -> SUBSET Tokens]
    /\ restarts \in 0..MaxRestarts

Live(t, k) == worker[t][k] = "running"

\* A task never runs twice at once, whatever crashes, requeues and late
\* attach threads do, unless a remote kill or launch of one of the two
\* copies went wrong on the way (its outcome was not what the scheduler was
\* told).  recover_transient_states keeps ambiguous claims for this.
NoUnaccountedDuplicate ==
    \A t \in Tasks : \A j, k \in Tokens :
        j # k /\ Live(t, j) /\ Live(t, k) => j \in lost[t] \/ k \in lost[t]

\* A queued task has no worker nobody accounted for and no launch under way:
\* assigning it again starts the only copy.
QueuedIsAtRest ==
    \A t \in Tasks : \A k \in Tokens :
        row[t].status = "queued" =>
            /\ attach[t][k] \in {"none", "reserved", "done"}
            /\ Live(t, k) => k \in lost[t]

\* A RUNNING row names the attempt whose wrapper was started, with its paths
\* and pid: probes and cancels address the right process.
RunningNamesItsWorker ==
    \A t \in Tasks : row[t].status = "running" =>
        /\ row[t].token \in Tokens /\ row[t].acked /\ row[t].launched
        /\ worker[t][row[t].token] # "none"
        /\ attach[t][row[t].token] = "done"

\* The attempt whose exact-node readback failed after its launch.
Rejected(t, k) ==
    \/ attach[t][k] \in {"rejected_killed", "rejected_alive"}
    \/ row[t].held /\ row[t].token = k

\* An attempt that ran on the wrong node is over: while its worker is being
\* cancelled, however often that is retried and whatever probes, reclaims and
\* restarts come in between, its row never becomes RUNNING or COMPLETED and
\* the task is not put back into the queue beside a worker that may live.
RejectedNeverCounts ==
    [][\A t \in Tasks, k \in Tokens :
          Rejected(t, k) => row'[t].status \notin {"queued", "running", "completed"}]_vars

\* Every attempt of a task with a timeout leaves ATTACHING and RUNNING, also
\* a claim preserved by recovery whose launch was never acknowledged.
AttemptEnds ==
    \A t \in Timed \ Strict : row[t].status \in Active ~> row[t].status \notin Active

-----------------------------------------------------------------------------
(* Stated by the repository, and not kept by the code.                     *)

\* retry_strict_node_cancellation: a rejected task is declared terminal only
\* once its worker is down.
StrictReleaseAfterKill ==
    [][\A t \in Tasks :
          /\ tick.op = "strict" /\ tick.task = t /\ tick' = TickIdle
          /\ row[t].held /\ row'[t].status = "failed"
          => ~Live(t, tick.token)]_vars

\* request_cancel_task: once a task is CANCELLED it is not run again.
CancelledStaysCancelled ==
    [][\A t \in Tasks : row[t].status = "cancelled" => row'[t].status # "queued"]_vars

\* update_task_if_status: a requeue that wins the race makes the timeout's
\* write a no-op, so the timeout only fails the attempt that timed out.
TimeoutHitsItsOwnAttempt ==
    [][\A t \in Tasks :
          reaper[t].future = "done" /\ reaper'[t] = NoReap
              /\ row[t].status \in Active /\ row'[t].status = "failed"
          => row[t].token = reaper[t].token]_vars
=============================================================================
