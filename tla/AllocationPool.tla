--------------------------- MODULE AllocationPool ---------------------------
(***************************************************************************)
(* The life of a pool allocation once its Slurm job is known: the row of   *)
(* table `allocations' (its state and its stored free capacity), the Slurm *)
(* job behind it, the task claims it carries, and the threads that write   *)
(* the row: the scheduler tick, and the web requests and attach threads    *)
(* that run beside it.                                                     *)
(*                                                                         *)
(* Placement and shutdown share _task_assignment_lock; refreshing the row  *)
(* from Slurm, draining it by age and recalculating its capacity do not    *)
(* take it.  Every read and every write of the database is a step, so that *)
(* a value read by one thread can be stale when it is written back.        *)
(* CPU stands for the three accounted resources (CPU, memory, GPU), whose  *)
(* arithmetic is the same.                                                 *)
(***************************************************************************)
EXTENDS Integers, FiniteSets, FiniteSetsExt

CONSTANTS
    Allocs, NoAlloc,
    Tasks, NoTask,
    Procs, NoProc,
    Tick,           \* the scheduler thread, a member of Procs
    SameNode,       \* same_node_as tasks: the web request may place them
    Fea,            \* fea_bursty tasks: admitted by node pressure, reserve no CPU
    Total,          \* total_cpus of an allocation
    Demand,         \* cpus of a task
    MaxCrashes      \* bound: restarts of the process

ASSUME Parameters ==
    /\ NoAlloc \notin Allocs /\ NoTask \notin Tasks /\ NoProc \notin Procs
    /\ Tick \in Procs
    /\ SameNode \subseteq Tasks
    /\ Fea \subseteq Tasks
    /\ Total \in [Allocs -> Nat]
    /\ Demand \in [Tasks -> Nat]
    /\ MaxCrashes \in Nat

VARIABLES
    alloc,      \* allocations: state and free_cpus
    job,        \* the Slurm job of each allocation
    age,        \* against allocation_attach_stop/drain/force_cancel_after_seconds
    claim,      \* the allocation a task is ATTACHING or RUNNING on
    queued,     \* the tasks in status QUEUED
    lock,       \* the holder of _task_assignment_lock
    proc,       \* what each thread is doing, with the values it has read
    crashes

vars == <<alloc, job, age, claim, queued, lock, proc, crashes>>
taskVars == <<claim, queued>>
slurmVars == <<job, age>>

Placeable == {"warm", "active"}
Accounted == Placeable \cup {"draining"}
Ended == {"closed", "failed"}
State == {"pending", "closing"} \cup Accounted \cup Ended

\* cancelled: by a scancel that close_allocation saw succeed; done: any other
\* end Slurm reports as COMPLETED or CANCELLED; purged: no query knows the job.
Alive == {"pending", "running"}
JobState == Alive \cup {"cancelled", "done", "failed", "purged"}
Probe == {"none", "submitted", "running", "ended", "failed", "missing"}

Pc == {"idle", "reserve_claim", "recalc_tasks", "recalc_rows", "recalc_write",
       "refresh_probe", "refresh_apply", "drain_write", "drain_count",
       "drained_count", "fail_tasks",
       "close_enter", "close_check", "close_scancel", "close_done",
       "close_restore"}
Local == [pc : Pc, alloc : Allocs \cup {NoAlloc}, task : Tasks \cup {NoTask},
          force : BOOLEAN, seen : State, probe : Probe, claims : SUBSET Tasks]
Idle == [pc |-> "idle", alloc |-> NoAlloc, task |-> NoTask, force |-> FALSE,
         seen |-> "closed", probe |-> "none", claims |-> {}]

Claims(a) == {t \in Tasks : claim[t] = a}

Init ==
    /\ alloc = [a \in Allocs |-> [state |-> "pending", free |-> Total[a]]]
    /\ job = [a \in Allocs |-> "pending"]
    /\ age = [a \in Allocs |-> "fresh"]
    /\ claim = [t \in Tasks |-> NoAlloc]
    /\ queued = Tasks
    /\ lock = NoProc
    /\ proc = [p \in Procs |-> Idle]
    /\ crashes = 0

At(p, pc) == proc[p].pc = pc
Begin(p, pc, a) == proc' = [proc EXCEPT ![p] = [Idle EXCEPT !.pc = pc, !.alloc = a]]
Goto(p, pc) == proc' = [proc EXCEPT ![p].pc = pc]
Return(p) == proc' = [proc EXCEPT ![p] = Idle]
SetState(a, s) == alloc' = [alloc EXCEPT ![a].state = s]
Release(p) == lock' = IF lock = p THEN NoProc ELSE lock

-----------------------------------------------------------------------------
(* Placement.                                                              *)

Fits(t, a) == t \in Fea \/ Demand[t] <= alloc[a].free

\* Mutant: the rows are checked without the lock.
reserve_check_unlocked(p, t, a) ==
    /\ At(p, "idle")
    /\ p = Tick \/ t \in SameNode
    /\ t \in queued
    /\ alloc[a].state \in Placeable
    /\ age[a] = "fresh"
    /\ Fits(t, a)
    /\ proc' = [proc EXCEPT ![p] = [Idle EXCEPT !.pc = "reserve_claim",
                                                !.alloc = a, !.task = t]]
    /\ UNCHANGED <<alloc, taskVars, slurmVars, lock, crashes>>

\* reserve_task_on_allocation takes the lock and checks the reloaded rows:
\* the state, the age and the stored free capacity ...
reserve_check(p, t, a) ==
    /\ At(p, "idle")
    /\ p = Tick \/ t \in SameNode
    /\ lock = NoProc
    /\ t \in queued
    /\ alloc[a].state \in Placeable
    /\ age[a] = "fresh"
    /\ Fits(t, a)
    /\ lock' = p
    /\ proc' = [proc EXCEPT ![p] = [Idle EXCEPT !.pc = "reserve_claim",
                                                !.alloc = a, !.task = t]]
    /\ UNCHANGED <<alloc, taskVars, slurmVars, crashes>>

\* ... claims the task if it is still QUEUED, and recalculates the capacity
\* before it lets go of the lock.
reserve_claim(p) ==
    /\ At(p, "reserve_claim")
    /\ IF proc[p].task \in queued
       THEN /\ claim' = [claim EXCEPT ![proc[p].task] = proc[p].alloc]
            /\ queued' = queued \ {proc[p].task}
            /\ Goto(p, "recalc_tasks")
            /\ UNCHANGED lock
       ELSE /\ Return(p)
            /\ Release(p)
            /\ UNCHANGED taskVars
    /\ UNCHANGED <<alloc, slurmVars, crashes>>

\* A claim ends: the task finishes, fails, is cancelled, or is requeued by
\* the pressure and rebalance passes; its thread then recalculates.
task_leaves(p, t, requeued) ==
    /\ At(p, "idle")
    /\ claim[t] # NoAlloc
    /\ claim' = [claim EXCEPT ![t] = NoAlloc]
    /\ queued' = IF requeued THEN queued \cup {t} ELSE queued
    /\ Begin(p, "recalc_tasks", claim[t])
    /\ UNCHANGED <<alloc, slurmVars, lock, crashes>>

-----------------------------------------------------------------------------
(* recalculate_allocation_capacity: two reads and an unconditional write.  *)

Reserved(claims) == MapThenSumSet(LAMBDA t : Demand[t], claims \ Fea)

\* max(0, total - reserved)
FreeCpus(a, claims) ==
    LET free == Total[a] - Reserved(claims)
    IN  IF free \in 0..Total[a] THEN free ELSE 0

recalc_tasks(p) ==
    /\ At(p, "recalc_tasks")
    /\ proc' = [proc EXCEPT ![p].claims = Claims(proc[p].alloc), ![p].pc = "recalc_rows"]
    /\ UNCHANGED <<alloc, taskVars, slurmVars, lock, crashes>>

recalc_rows(p) ==
    /\ At(p, "recalc_rows")
    /\ LET s == alloc[proc[p].alloc].state
       IN  IF s \in Accounted
           THEN /\ proc' = [proc EXCEPT ![p].seen = s, ![p].pc = "recalc_write"]
                /\ UNCHANGED lock
           ELSE Return(p) /\ Release(p)
    /\ UNCHANGED <<alloc, taskVars, slurmVars, crashes>>

\* update_allocation_capacities
recalc_write(p) ==
    /\ At(p, "recalc_write")
    /\ LET w == proc[p]
       IN  alloc' = [alloc EXCEPT ![w.alloc] =
              [state |-> IF w.seen = "draining" THEN "draining"
                         ELSE IF w.claims # {} THEN "active" ELSE "warm",
               free |-> FreeCpus(w.alloc, w.claims)]]
    /\ Return(p)
    /\ Release(p)
    /\ UNCHANGED <<taskVars, slurmVars, crashes>>

-----------------------------------------------------------------------------
(* refresh_allocations, in the tick: read the row, ask Slurm, write.       *)

\* Mutant: CLOSING rows are not looked at any more.
refresh_read_not_closing(a) ==
    /\ At(Tick, "idle")
    /\ alloc[a].state \notin Ended \cup {"closing"}
    /\ proc' = [proc EXCEPT ![Tick] = [Idle EXCEPT !.pc = "refresh_probe", !.alloc = a,
                                                   !.seen = alloc[a].state]]
    /\ UNCHANGED <<alloc, taskVars, slurmVars, lock, crashes>>

refresh_read(a) ==
    /\ At(Tick, "idle")
    /\ alloc[a].state \notin Ended
    /\ proc' = [proc EXCEPT ![Tick] = [Idle EXCEPT !.pc = "refresh_probe", !.alloc = a,
                                                   !.seen = alloc[a].state]]
    /\ UNCHANGED <<alloc, taskVars, slurmVars, lock, crashes>>

\* What squeue, sacct and scontrol say of the job when all three answer.
Truth(a) ==
    CASE job[a] = "pending" -> "submitted"
      [] job[a] = "running" -> "running"
      [] job[a] \in {"cancelled", "done"} -> "ended"
      [] job[a] = "failed" -> "failed"
      [] job[a] = "purged" -> "missing"

\* job_states: a job no query knows of is reported SUBMITTED; with the
\* account unreachable nothing is reported.
refresh_probe(answer) ==
    /\ At(Tick, "refresh_probe")
    /\ answer \in {Truth(proc[Tick].alloc), "submitted", "none"}
    /\ proc' = [proc EXCEPT ![Tick].probe = answer, ![Tick].pc = "refresh_apply"]
    /\ UNCHANGED <<alloc, taskVars, slurmVars, lock, crashes>>

\* Mutant: a job Slurm confirms missing is ignored.
Refreshed_missing_ignored(s, probe) ==
    CASE probe = "running" /\ s = "pending" -> "warm"
      [] probe = "submitted" /\ s = "closing" -> "closed"
      [] probe = "ended" -> "closed"
      [] probe = "failed" -> "failed"
      [] OTHER -> "unchanged"

\* _apply_allocation_state, from the state that was read.
Refreshed(s, probe) ==
    CASE probe = "missing" -> "closed"
      [] probe = "running" /\ s = "pending" -> "warm"
      [] probe = "submitted" /\ s = "closing" -> "closed"
      [] probe = "ended" -> "closed"
      [] probe = "failed" -> "failed"
      [] OTHER -> "unchanged"

refresh_apply ==
    /\ At(Tick, "refresh_apply")
    /\ LET w == proc[Tick]
           s == Refreshed(w.seen, w.probe)
       IN  /\ IF s = "unchanged" THEN UNCHANGED alloc ELSE SetState(w.alloc, s)
           /\ Begin(Tick, "recalc_tasks", w.alloc)
    /\ UNCHANGED <<taskVars, slurmVars, lock, crashes>>

-----------------------------------------------------------------------------
(* apply_allocation_lifecycle, in the tick.                                *)

lifecycle_read(a) ==
    /\ At(Tick, "idle")
    /\ age[a] # "fresh"
    /\ \/ alloc[a].state \in Placeable /\ Begin(Tick, "drain_write", a)
       \/ alloc[a].state = "draining" /\ Begin(Tick, "drained_count", a)
    /\ UNCHANGED <<alloc, taskVars, slurmVars, lock, crashes>>

drain_write ==
    /\ At(Tick, "drain_write")
    /\ SetState(proc[Tick].alloc, "draining")
    /\ Goto(Tick, "drain_count")
    /\ UNCHANGED <<taskVars, slurmVars, lock, crashes>>

\* _running_task_count: without tasks the allocation is closed; one that was
\* draining before and is near its walltime is closed with its tasks.
drain_count ==
    /\ proc[Tick].pc \in {"drain_count", "drained_count"}
    /\ LET a == proc[Tick].alloc
           forced == At(Tick, "drained_count") /\ age[a] = "expired"
       IN  \/ Claims(a) = {} /\ Goto(Tick, "close_enter")
           \/ Claims(a) # {} /\ forced /\ Goto(Tick, "fail_tasks")
           \/ Claims(a) # {} /\ ~forced /\ Return(Tick)
    /\ UNCHANGED <<alloc, taskVars, slurmVars, lock, crashes>>

\* fail_running_tasks, before a forced close.
fail_tasks(p) ==
    /\ At(p, "fail_tasks")
    /\ claim' = [t \in Tasks |-> IF claim[t] = proc[p].alloc THEN NoAlloc ELSE claim[t]]
    /\ proc' = [proc EXCEPT ![p].force = TRUE, ![p].pc = "close_enter"]
    /\ UNCHANGED <<alloc, queued, slurmVars, lock, crashes>>

-----------------------------------------------------------------------------
(* close_allocation.                                                       *)

\* Idle scale-in, pending timeout, partition limits, a finished exclusive
\* task: the tick closes.  A web request closes when it sees no active task.
close_call(p, a) ==
    /\ At(p, "idle")
    /\ alloc[a].state \notin Ended
    /\ p # Tick => Claims(a) = {}
    /\ Begin(p, "close_enter", a)
    /\ UNCHANGED <<alloc, taskVars, slurmVars, lock, crashes>>

\* request_close_allocation(force=True) from the web.
force_close_call(p, a) ==
    /\ At(p, "idle")
    /\ p # Tick
    /\ alloc[a].state \notin Ended
    /\ Begin(p, "fail_tasks", a)
    /\ UNCHANGED <<alloc, taskVars, slurmVars, lock, crashes>>

\* Takes the lock and reloads the row.
close_enter(p) ==
    /\ At(p, "close_enter")
    /\ lock = NoProc
    /\ LET s == alloc[proc[p].alloc].state
       IN  IF s \in Ended \cup {"closing"}
           THEN Return(p) /\ UNCHANGED lock
           ELSE /\ proc' = [proc EXCEPT ![p].seen = s, ![p].pc = "close_check"]
                /\ lock' = p
    /\ UNCHANGED <<alloc, taskVars, slurmVars, crashes>>

\* A live claim, a live Slurm step, an AEDT session claim or a failed probe
\* refuses a plain close; a WARM row with a claim or a step becomes ACTIVE.
close_refuse(p) ==
    /\ At(p, "close_check")
    /\ ~proc[p].force
    /\ \E in_use \in BOOLEAN :
          /\ Claims(proc[p].alloc) # {} => in_use
          /\ IF in_use /\ proc[p].seen = "warm"
             THEN SetState(proc[p].alloc, "active") ELSE UNCHANGED alloc
    /\ Return(p)
    /\ Release(p)
    /\ UNCHANGED <<taskVars, slurmVars, crashes>>

close_mark(p) ==
    /\ At(p, "close_check")
    /\ proc[p].force \/ Claims(proc[p].alloc) = {}
    /\ SetState(proc[p].alloc, "closing")
    /\ Goto(p, "close_scancel")
    /\ UNCHANGED <<taskVars, slurmVars, lock, crashes>>

\* scancel; a call that reports failure may have reached Slurm.
close_scancel(p) ==
    /\ At(p, "close_scancel")
    /\ \E effect, ok \in BOOLEAN :
          /\ ok => effect
          /\ job' = IF effect /\ job[proc[p].alloc] \in Alive
                    THEN [job EXCEPT ![proc[p].alloc] = IF ok THEN "cancelled" ELSE "done"]
                    ELSE job
          /\ Goto(p, IF ok THEN "close_done" ELSE "close_restore")
    /\ UNCHANGED <<alloc, age, taskVars, lock, crashes>>

\* CLOSED after a confirmed scancel, the previous state after a failed one.
close_settle(p) ==
    /\ \/ At(p, "close_done") /\ SetState(proc[p].alloc, "closed")
       \/ At(p, "close_restore") /\ SetState(proc[p].alloc, proc[p].seen)
    /\ Return(p)
    /\ Release(p)
    /\ UNCHANGED <<taskVars, slurmVars, crashes>>

-----------------------------------------------------------------------------
(* Slurm, time, and the death of the process.                              *)

JobStep(a) ==
    /\ \/ job[a] = "pending" /\ job' = [job EXCEPT ![a] = "running"]
       \/ job[a] \notin Alive \cup {"purged"} /\ job' = [job EXCEPT ![a] = "purged"]
    /\ UNCHANGED <<alloc, age, taskVars, lock, proc, crashes>>

JobEnds(a) ==
    /\ job[a] \in Alive
    /\ \E end \in {"done", "failed"} : job' = [job EXCEPT ![a] = end]
    /\ UNCHANGED <<alloc, age, taskVars, lock, proc, crashes>>

Ages(a) ==
    /\ age[a] # "expired"
    /\ age' = [age EXCEPT ![a] = IF @ = "fresh" THEN "aged" ELSE "expired"]
    /\ UNCHANGED <<alloc, job, taskVars, lock, proc, crashes>>

Crash ==
    /\ crashes < MaxCrashes
    /\ crashes' = crashes + 1
    /\ lock' = NoProc
    /\ proc' = [p \in Procs |-> Idle]
    /\ UNCHANGED <<alloc, taskVars, slurmVars>>

-----------------------------------------------------------------------------
ReserveStep(p) ==
    \/ \E t \in Tasks, a \in Allocs : reserve_check(p, t, a)
    \/ reserve_claim(p)
    \/ \E t \in Tasks, requeued \in BOOLEAN : task_leaves(p, t, requeued)

RecalcStep(p) == recalc_tasks(p) \/ recalc_rows(p) \/ recalc_write(p)

CloseStep(p) ==
    \/ fail_tasks(p)
    \/ close_enter(p)
    \/ close_refuse(p)
    \/ close_mark(p)
    \/ close_scancel(p)
    \/ close_settle(p)

CallClose(p) ==
    \E a \in Allocs : close_call(p, a) \/ force_close_call(p, a)

RefreshStep ==
    \/ \E a \in Allocs : refresh_read(a) \/ lifecycle_read(a)
    \/ \E answer \in Probe : refresh_probe(answer)
    \/ refresh_apply
    \/ drain_write
    \/ drain_count

Next ==
    \/ \E p \in Procs :
          ReserveStep(p) \/ RecalcStep(p) \/ CloseStep(p) \/ CallClose(p)
    \/ RefreshStep
    \/ \E a \in Allocs : JobStep(a) \/ JobEnds(a) \/ Ages(a)
    \/ Crash

Spec == Init /\ [][Next]_vars

probe_truth == At(Tick, "refresh_probe") /\ refresh_probe(Truth(proc[Tick].alloc))

\* Threads run, and the tick gets the lock when it keeps asking; each tick
\* refreshes every live allocation and Slurm answers again and again; a job
\* ends at its walltime at the latest.
Fairness ==
    /\ \A p \in Procs : /\ WF_vars(RecalcStep(p) \/ reserve_claim(p))
                        /\ WF_vars(CloseStep(p))
    /\ SF_vars(close_enter(Tick))
    /\ \A a \in Allocs : SF_vars(refresh_read(a)) /\ WF_vars(JobEnds(a))
    /\ SF_vars(probe_truth)
    /\ WF_vars(refresh_apply \/ drain_write \/ drain_count \/ \E answer \in Probe : refresh_probe(answer))

FairSpec == Spec /\ Fairness

-----------------------------------------------------------------------------
\* The types of the rows and of the threads' locals; the stored free capacity
\* is between zero and the total.
TypeOK ==
    /\ alloc \in [Allocs -> [state : State, free : Int]]
    /\ \A a \in Allocs : alloc[a].free \in 0..Total[a]
    /\ job \in [Allocs -> JobState]
    /\ age \in [Allocs -> {"fresh", "aged", "expired"}]
    /\ claim \in [Tasks -> Allocs \cup {NoAlloc}]
    /\ queued \in SUBSET Tasks
    /\ lock \in Procs \cup {NoProc}
    /\ proc \in [Procs -> Local]
    /\ crashes \in 0..MaxCrashes

\* A plain (not forced) close never scancels under a task: from the check of
\* the claims until the row is settled no task owns the allocation, whatever
\* the other threads do, because close_allocation keeps the lock throughout.
ScancelSparesClaims ==
    \A p \in Procs :
        /\ proc[p].pc \in {"close_scancel", "close_done", "close_restore"}
        /\ ~proc[p].force
        => Claims(proc[p].alloc) = {}

\* A row never stays CLOSING: not after a crash inside close_allocation, not
\* after the job fell out of Slurm's books (refresh_allocations).
ClosingSettles ==
    \A a \in Allocs : alloc[a].state = "closing" ~> alloc[a].state # "closing"

\* An allocation whose Slurm job is gone is released sooner or later, also
\* when Slurm has forgotten the job (refresh_allocations).
DeadJobIsReleased ==
    \A a \in Allocs : job[a] \notin Alive ~> alloc[a].state \in Ended

-----------------------------------------------------------------------------
(* Stated by the repository, and not kept by the code.                     *)

\* close_allocation: an allocation that was closed gets no new owner.
ClosedGetsNoOwner ==
    [][\A t \in Tasks, a \in Allocs :
          claim[t] # a /\ claim'[t] = a => job[a] # "cancelled"]_vars
=============================================================================
