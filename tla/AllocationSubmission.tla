------------------------ MODULE AllocationSubmission ------------------------
(***************************************************************************)
(* Opening a pool allocation: the durable row that is reserved before the  *)
(* remote sbatch, the two submission phases kept in pending_reason, the    *)
(* worker that runs sbatch under a time budget, the recovery pass that     *)
(* resolves an ambiguous outcome by the job name pool-<id>, a close that   *)
(* races the acknowledgement, and the orphan sweep after a restart.        *)
(*                                                                         *)
(* A row is submitted at most once, so the job named pool-<id> is job[a].  *)
(* What happens to an acknowledged allocation is module AllocationPool;    *)
(* here it stays "pending" with a job id until it is closed.               *)
(***************************************************************************)
EXTENDS Naturals

CONSTANTS
    Allocs,
    PoolOpened,     \* opened by the AEDT pool thread, the others by the tick
    Closable,       \* somebody asks to close them while they are being opened
    MaxCrashes      \* bound: restarts of the process

ASSUME Parameters ==
    /\ PoolOpened \subseteq Allocs
    /\ Closable \subseteq Allocs
    /\ MaxCrashes \in Nat

VARIABLES
    row,        \* allocations: state, submission phase, slurm_job_id recorded
    job,        \* the Slurm job pool-<id>
    opener,     \* submit_reserved_allocation_records, for each row
    worker,     \* submit_account: the sbatch call made for the row
    recovery,   \* recover_allocation_submission_claims: what the query said
    closer,     \* close_allocation on the row
    sweep,      \* reconcile_slurm_state: where it is, what it spares and cancels;
                \* history: the jobs that were there when it read the rows (old)
    stray,      \* history: rows whose job the opener cannot vouch for
    overtaken,  \* history: rows a close ended without the id written meanwhile
    crashes

vars == <<row, job, opener, worker, recovery, closer, sweep, stray, overtaken, crashes>>

Phase == {"none", "reserved", "in_progress"}
Row == [state : {"none", "pending", "closing", "closed", "failed"},
        phase : Phase, id : BOOLEAN]
NoRow == [state |-> "none", phase |-> "none", id |-> FALSE]

Outcome == {"ok", "unknown", "not_created"}
OpenerPc == {"none", "reserved", "waiting", "reap", "done"} \cup Outcome
WorkerPc == {"none", "ready"} \cup Outcome
CloserPc == {"none", "mark", "mark_no_id", "scancel", "finish"}
SweepPc == {"off", "due", "read", "cancel"}
NoSweep == [pc |-> "off", allocs |-> {}, old |-> {}]

Init ==
    /\ row = [a \in Allocs |-> NoRow]
    /\ job = [a \in Allocs |-> "none"]
    /\ opener = [a \in Allocs |-> "none"]
    /\ worker = [a \in Allocs |-> "none"]
    /\ recovery = [a \in Allocs |-> "none"]
    /\ closer = [a \in Allocs |-> "none"]
    /\ sweep = [pc |-> "due", allocs |-> {}, old |-> {}]
    /\ stray = {}
    /\ overtaken = {}
    /\ crashes = 0

\* update_allocation_if_submission_claim: still PENDING, no job id, and in
\* the expected phase.
HasClaim(a, phase) ==
    row[a].state = "pending" /\ row[a].phase = phase /\ ~row[a].id

IfClaim(a, phase, r) == row' = IF HasClaim(a, phase) THEN [row EXCEPT ![a] = r] ELSE row

FailedRow(a) == [row[a] EXCEPT !.state = "failed", !.phase = "none"]

\* Mutant: the acknowledgement leaves the submission phase in pending_reason.
AckedRow_keeps_phase(a) == [row[a] EXCEPT !.id = TRUE]

AckedRow(a) == [row[a] EXCEPT !.phase = "none", !.id = TRUE]

\* The tick is one thread: it sweeps, recovers and opens one after the other.
TickFree ==
    /\ sweep.pc \in {"off", "due"}
    /\ \A b \in Allocs : recovery[b] = "none"
    /\ \A b \in Allocs \ PoolOpened : opener[b] \in {"none", "done"}

-----------------------------------------------------------------------------
(* Opening.                                                                *)

OpenerGoto(a, pc) == opener' = [opener EXCEPT ![a] = pc]

\* The row exists before anything remote happens.  A batch of the tick
\* reserves all its rows before it submits the first.
open_allocation_record(a) ==
    /\ opener[a] = "none" /\ row[a] = NoRow
    /\ a \notin PoolOpened =>
          /\ sweep.pc = "off"
          /\ \A b \in Allocs : recovery[b] = "none"
          /\ \A b \in Allocs \ PoolOpened : opener[b] \in {"none", "reserved", "done"}
    /\ row' = [row EXCEPT ![a] = [state |-> "pending", phase |-> "reserved", id |-> FALSE]]
    /\ OpenerGoto(a, "reserved")
    /\ UNCHANGED <<job, worker, recovery, closer, sweep, stray, overtaken, crashes>>

\* Mutant: the worker is started and the phase is left as it was.
claim_submission_unrecorded(a) ==
    /\ opener[a] = "reserved"
    /\ OpenerGoto(a, "waiting")
    /\ worker' = [worker EXCEPT ![a] = "ready"]
    /\ UNCHANGED <<row, job, recovery, closer, sweep, stray, overtaken, crashes>>

\* RESERVED -> IN_PROGRESS by compare-and-set; only the winner goes remote.
claim_submission(a) ==
    /\ opener[a] = "reserved"
    /\ IfClaim(a, "reserved", [row[a] EXCEPT !.phase = "in_progress"])
    /\ IF HasClaim(a, "reserved")
       THEN OpenerGoto(a, "waiting") /\ worker' = [worker EXCEPT ![a] = "ready"]
       ELSE OpenerGoto(a, "done") /\ UNCHANGED worker
    /\ UNCHANGED <<job, recovery, closer, sweep, stray, overtaken, crashes>>

\* submit_allocation: sbatch; an exception other than NotCreated leaves open
\* whether there is a job.
submit_allocation(a) ==
    /\ worker[a] = "ready"
    /\ \E outcome \in Outcome, created \in BOOLEAN :
          /\ outcome = "ok" => created
          /\ outcome = "not_created" => ~created
          /\ worker' = [worker EXCEPT ![a] = outcome]
          /\ job' = IF created THEN [job EXCEPT ![a] = "live"] ELSE job
          /\ stray' = IF outcome = "unknown" THEN stray \cup {a} ELSE stray
    /\ UNCHANGED <<row, opener, recovery, closer, sweep, overtaken, crashes>>

collect_outcome(a) ==
    /\ opener[a] = "waiting"
    /\ worker[a] \in Outcome
    /\ OpenerGoto(a, worker[a])
    /\ UNCHANGED <<row, job, worker, recovery, closer, sweep, stray, overtaken, crashes>>

\* _fan_out_by_account gives up on a worker of a batch over several accounts
\* after its budget; the worker goes on by itself.
budget_expires(a) ==
    /\ a \notin PoolOpened
    /\ opener[a] = "waiting" /\ worker[a] = "ready"
    /\ OpenerGoto(a, "unknown")
    /\ stray' = stray \cup {a}
    /\ UNCHANGED <<row, job, worker, recovery, closer, sweep, overtaken, crashes>>

\* Mutant: a lost acknowledgement is not followed by a cancel.
settle_outcome_no_reap(a) ==
    /\ \/ opener[a] = "unknown" /\ UNCHANGED row
       \/ opener[a] = "not_created" /\ IfClaim(a, "in_progress", FailedRow(a))
       \/ opener[a] = "ok" /\ IfClaim(a, "in_progress", AckedRow(a))
    /\ OpenerGoto(a, "done")
    /\ UNCHANGED <<job, worker, recovery, closer, sweep, stray, overtaken, crashes>>

\* An ambiguous outcome keeps the claim; a definite failure fails the row; a
\* success is acknowledged, or the job is reaped when the claim is gone.
settle_outcome(a) ==
    /\ \/ opener[a] = "unknown" /\ UNCHANGED row
       \/ opener[a] = "not_created" /\ IfClaim(a, "in_progress", FailedRow(a))
       \/ opener[a] = "ok" /\ IfClaim(a, "in_progress", AckedRow(a))
    /\ OpenerGoto(a, IF opener[a] = "ok" /\ ~HasClaim(a, "in_progress")
                     THEN "reap" ELSE "done")
    /\ UNCHANGED <<job, worker, recovery, closer, sweep, stray, overtaken, crashes>>

reap_unacknowledged(a) ==
    /\ opener[a] = "reap"
    /\ \/ job' = [job EXCEPT ![a] = "gone"] /\ UNCHANGED stray
       \/ stray' = stray \cup {a} /\ UNCHANGED job
    /\ OpenerGoto(a, "done")
    /\ UNCHANGED <<row, worker, recovery, closer, sweep, overtaken, crashes>>

-----------------------------------------------------------------------------
(* recover_allocation_submission_claims: at start and in every tick.       *)

\* A reserved claim never reached sbatch.
recover_reserved(a) ==
    /\ TickFree
    /\ HasClaim(a, "reserved")
    /\ row' = [row EXCEPT ![a] = FailedRow(a)]
    /\ UNCHANGED <<job, opener, worker, recovery, closer, sweep, stray, overtaken, crashes>>

\* squeue and sacct, by the exact job name; sacct also knows ended jobs.  A
\* failed query holds the claim.
recover_query(a) ==
    /\ TickFree
    /\ HasClaim(a, "in_progress")
    /\ recovery' = [recovery EXCEPT ![a] = IF job[a] = "none" THEN "no_match" ELSE "match"]
    /\ UNCHANGED <<row, job, opener, worker, closer, sweep, stray, overtaken, crashes>>

\* Mutant: without a match the claim is only ever held.
recover_settle_hold(a) ==
    /\ recovery[a] # "none"
    /\ IF recovery[a] = "match" THEN IfClaim(a, "in_progress", AckedRow(a)) ELSE UNCHANGED row
    /\ recovery' = [recovery EXCEPT ![a] = "none"]
    /\ UNCHANGED <<job, opener, worker, closer, sweep, stray, overtaken, crashes>>

\* Adopt the job; without one, hold the claim for the grace period and then
\* fail it.
recover_settle(a) ==
    /\ recovery[a] # "none"
    /\ \/ recovery[a] = "match" /\ IfClaim(a, "in_progress", AckedRow(a))
       \/ recovery[a] = "no_match" /\ IfClaim(a, "in_progress", FailedRow(a))
    /\ recovery' = [recovery EXCEPT ![a] = "none"]
    /\ UNCHANGED <<job, opener, worker, closer, sweep, stray, overtaken, crashes>>

recover_hold(a) ==
    /\ recovery[a] = "no_match"
    /\ recovery' = [recovery EXCEPT ![a] = "none"]
    /\ UNCHANGED <<row, job, opener, worker, closer, sweep, stray, overtaken, crashes>>

-----------------------------------------------------------------------------
(* close_allocation on a row that is still PENDING: it reads the row, marks *)
(* it CLOSING, cancels the job if the row it read had one, marks it CLOSED. *)

CloserGoto(a, pc) == closer' = [closer EXCEPT ![a] = pc]

close_read(a) ==
    /\ a \in Closable
    /\ closer[a] = "none"
    /\ row[a].state = "pending"
    /\ CloserGoto(a, IF row[a].id THEN "mark" ELSE "mark_no_id")
    /\ UNCHANGED <<row, job, opener, worker, recovery, sweep, stray, overtaken, crashes>>

close_mark(a) ==
    /\ closer[a] \in {"mark", "mark_no_id"}
    /\ row' = [row EXCEPT ![a].state = "closing"]
    /\ CloserGoto(a, IF closer[a] = "mark" THEN "scancel" ELSE "finish")
    /\ overtaken' = IF closer[a] = "mark_no_id" /\ row[a].id THEN overtaken \cup {a}
                                                            ELSE overtaken
    /\ UNCHANGED <<job, opener, worker, recovery, sweep, stray, crashes>>

close_scancel(a) ==
    /\ closer[a] = "scancel"
    /\ \/ /\ job' = [job EXCEPT ![a] = "gone"]
          /\ CloserGoto(a, "finish")
          /\ UNCHANGED row
       \/ /\ row' = [row EXCEPT ![a].state = "pending"]
          /\ CloserGoto(a, "none")
          /\ UNCHANGED job
    /\ UNCHANGED <<opener, worker, recovery, sweep, stray, overtaken, crashes>>

close_finish(a) ==
    /\ closer[a] = "finish"
    /\ row' = [row EXCEPT ![a].state = "closed"]
    /\ CloserGoto(a, "none")
    /\ UNCHANGED <<job, opener, worker, recovery, sweep, stray, overtaken, crashes>>

-----------------------------------------------------------------------------
(* reconcile_slurm_state, in the first tick after a start.                 *)

\* Mutant: in-progress claims are not protected by their job name.
Spared_known_only ==
    {a \in Allocs : row[a].state \in {"pending", "closing"} /\ row[a].id}

\* The job ids and, for claims in progress, the job names that are ours.
Spared ==
    {a \in Allocs : row[a].state \in {"pending", "closing"} /\ row[a].id}
        \cup {a \in Allocs : HasClaim(a, "in_progress")}

reconcile_read ==
    /\ TickFree
    /\ sweep.pc = "due"
    /\ sweep' = [pc |-> "read", allocs |-> Spared, old |-> {a \in Allocs : job[a] = "live"}]
    /\ UNCHANGED <<row, job, opener, worker, recovery, closer, stray, overtaken, crashes>>

\* squeue: the pool jobs that are not spared are orphans.
reconcile_squeue ==
    /\ sweep.pc = "read"
    /\ sweep' = [sweep EXCEPT !.pc = "cancel",
                              !.allocs = {a \in Allocs : job[a] = "live"} \ sweep.allocs]
    /\ UNCHANGED <<row, job, opener, worker, recovery, closer, stray, overtaken, crashes>>

reconcile_cancel ==
    /\ sweep.pc = "cancel"
    /\ IF sweep.allocs = {}
       THEN sweep' = NoSweep /\ UNCHANGED job
       ELSE \E a \in sweep.allocs, ok \in BOOLEAN :
               /\ sweep' = [sweep EXCEPT !.allocs = @ \ {a}]
               /\ job' = IF ok THEN [job EXCEPT ![a] = "gone"] ELSE job
    /\ UNCHANGED <<row, opener, worker, recovery, closer, stray, overtaken, crashes>>

\* reconcile_on_start may be off.
reconcile_skip ==
    /\ sweep.pc = "due"
    /\ sweep' = NoSweep
    /\ UNCHANGED <<row, job, opener, worker, recovery, closer, stray, overtaken, crashes>>

-----------------------------------------------------------------------------
JobEnds(a) ==
    /\ job[a] = "live"
    /\ job' = [job EXCEPT ![a] = "gone"]
    /\ UNCHANGED <<row, opener, worker, recovery, closer, sweep, stray, overtaken, crashes>>

\* The process dies; an sbatch under way may still be carried out, and what
\* it returned is forgotten.
Crash ==
    /\ crashes < MaxCrashes
    /\ crashes' = crashes + 1
    /\ \E created \in SUBSET {a \in Allocs : worker[a] = "ready"} :
          job' = [a \in Allocs |-> IF a \in created THEN "live" ELSE job[a]]
    /\ stray' = stray \cup {a \in Allocs : opener[a] \in {"waiting", "ok", "reap"}}
    /\ opener' = [a \in Allocs |-> IF opener[a] = "none" THEN "none" ELSE "done"]
    /\ worker' = [a \in Allocs |-> IF worker[a] = "ready" THEN "unknown" ELSE worker[a]]
    /\ recovery' = [a \in Allocs |-> "none"]
    /\ closer' = [a \in Allocs |-> "none"]
    /\ sweep' = [pc |-> "due", allocs |-> {}, old |-> {}]
    /\ UNCHANGED <<row, overtaken>>

-----------------------------------------------------------------------------
OpenStep(a) ==
    \/ claim_submission(a)
    \/ submit_allocation(a)
    \/ collect_outcome(a)
    \/ settle_outcome(a)
    \/ reap_unacknowledged(a)

CloseStep(a) == close_mark(a) \/ close_scancel(a) \/ close_finish(a)

Next ==
    \/ \E a \in Allocs :
          \/ open_allocation_record(a)
          \/ OpenStep(a)
          \/ budget_expires(a)
          \/ recover_reserved(a)
          \/ recover_query(a)
          \/ recover_settle(a)
          \/ recover_hold(a)
          \/ close_read(a)
          \/ CloseStep(a)
          \/ JobEnds(a)
    \/ reconcile_read
    \/ reconcile_squeue
    \/ reconcile_cancel
    \/ reconcile_skip
    \/ Crash

Spec == Init /\ [][Next]_vars

\* Threads run; every tick runs the recovery pass, whose query succeeds again
\* and again; the grace period passes.
Fairness ==
    /\ \A a \in Allocs :
          /\ WF_vars(OpenStep(a))
          /\ WF_vars(CloseStep(a))
          /\ SF_vars(recover_reserved(a))
          /\ SF_vars(recover_query(a))
          /\ SF_vars(recover_settle(a))
    /\ WF_vars(reconcile_squeue \/ reconcile_cancel)

FairSpec == Spec /\ Fairness

-----------------------------------------------------------------------------
\* The types of the rows and of the threads.
TypeOK ==
    /\ row \in [Allocs -> Row]
    /\ \A a \in Allocs : row[a].id => row[a].phase = "none"
    /\ job \in [Allocs -> {"none", "live", "gone"}]
    /\ opener \in [Allocs -> OpenerPc]
    /\ worker \in [Allocs -> WorkerPc]
    /\ recovery \in [Allocs -> {"none", "match", "no_match"}]
    /\ closer \in [Allocs -> CloserPc]
    /\ sweep \in [pc : SweepPc, allocs : SUBSET Allocs, old : SUBSET Allocs]
    /\ stray \in SUBSET Allocs
    /\ overtaken \in SUBSET Allocs
    /\ crashes \in 0..MaxCrashes

\* A job can always be found again after a crash: while its row is PENDING,
\* the row carries its id or the in-progress phase whose recovery looks for
\* pool-<id>.  A row still RESERVED has no job and is safe to fail.
JobIsDiscoverable ==
    \A a \in Allocs :
        job[a] = "live" /\ row[a].state = "pending"
        => row[a].id \/ row[a].phase = "in_progress"

\* A pool job is never left without a row that answers for it: it is about to
\* be acknowledged or reaped, unless nobody can know of it (a crash, an
\* ambiguous sbatch, an expired budget, a failed scancel of the reap) or the
\* row was closed by somebody who had read it before the acknowledgement.
UnownedJobIsAccounted ==
    \A a \in Allocs :
        job[a] = "live" /\ row[a].state \in {"closed", "failed"}
        => opener[a] \in {"waiting", "ok", "reap"} \/ a \in stray \cup overtaken

Swept(a) ==
    /\ sweep.pc = "cancel" /\ a \in sweep.allocs /\ a \notin sweep'.allocs
    /\ job[a] = "live" /\ job'[a] = "gone"

\* The orphan sweep after a start spares what the database tracks: a job that
\* was there when it read the rows is cancelled only if its row is not
\* PENDING, whoever opens, closes and recovers rows meanwhile
\* (reconcile_slurm_state).
SweepSparesTracked ==
    [][\A a \in Allocs : Swept(a) /\ a \in sweep.old => row[a].state # "pending"]_vars

\* An in-progress claim is resolved: adopted, failed or closed, also when the
\* process died inside sbatch (recover_allocation_submission_claims).
ClaimSettles ==
    \A a \in Allocs : HasClaim(a, "in_progress") ~> ~HasClaim(a, "in_progress")

-----------------------------------------------------------------------------
(* Stated by the repository, and not kept by the code.                     *)

\* reconcile_slurm_state: the sweep cancels jobs "the DB no longer tracks".
SweepSparesEveryTracked ==
    [][\A a \in Allocs : Swept(a) => row[a].state # "pending"]_vars

\* submit_reserved_allocation_records: an acknowledgement that lost against a
\* close is followed by a cancel "instead of leaking" the job.
NoJobLeaks ==
    \A a \in Allocs :
        job[a] = "live" /\ row[a].state \in {"closed", "failed"}
        => opener[a] \in {"waiting", "ok", "reap"} \/ a \in stray

\* The same cancel is only for a job no row answers for.
ReapSparesAdopted ==
    [][\A a \in Allocs :
          opener[a] = "reap" /\ opener'[a] = "done" /\ job[a] = "live" /\ job'[a] = "gone"
          => ~(row[a].state = "pending" /\ row[a].id)]_vars

\* recover_allocation_submission_claims: a claim failed after the grace
\* period is safe to retry, no job of its own will turn up.
FailedIsSafeToRetry ==
    \A a \in Allocs :
        row[a].state = "failed" /\ opener[a] = "done" => job[a] # "live"
=============================================================================
