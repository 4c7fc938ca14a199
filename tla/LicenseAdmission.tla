-------------------------- MODULE LicenseAdmission --------------------------
(***************************************************************************)
(* Admission of tasks against the seats of a license server.  lmstat tells *)
(* what was checked out when it was read; everything launched since, or    *)
(* about to be, is a claim in the scheduler's memory.  A claim is dropped  *)
(* when a query that began late enough must have counted its checkout.     *)
(*                                                                         *)
(* A token is one attempt of a task.  The launch of an attempt runs on a   *)
(* thread of its own, the lmstat query on another one, and cancels come    *)
(* from the web threads; each database update and each section under       *)
(* _task_assignment_lock is one step.  One feature is modelled: the check  *)
(* takes every feature by itself.  Seats taken by others are left out.     *)
(***************************************************************************)
EXTENDS Naturals, FiniteSets

CONSTANTS
    Tasks,
    Hosts,          \* the tasks that are warm-spare session hosts
    Cost,           \* the persistent seats each task takes
    Exempt,         \* tasks of projects that may use the reserve
    Total, Reserve, \* the seats of the feature
    Settlement,     \* license_admission_settlement_seconds
    Interval,       \* license_monitor_interval_seconds
    MaxAge,         \* license_admission_snapshot_max_age_seconds
    FaultMixes,     \* sets of what may go wrong in one behaviour
    MaxAttempts, MaxTime

ASSUME LicenseAssumptions ==
    /\ IsFiniteSet(Tasks) /\ Hosts \subseteq Tasks /\ Exempt \subseteq Tasks
    /\ Cost \in [Tasks -> Nat \ {0}]
    /\ Total \in Nat /\ Reserve \in 0..Total
    /\ Settlement \in Nat \ {0} /\ MaxAge \in Nat /\ Interval \in Nat \ {0}
    /\ MaxAttempts \in Nat \ {0} /\ MaxTime \in Nat

Never == MaxTime + 1                   \* a timestamp that is not set
Times == 0..(MaxTime + Interval)
Tokens == Tasks \X (1..MaxAttempts)

VARIABLES
    faults,     \* what goes wrong in this behaviour
    clock,
    task,       \* the task rows
    claims,     \* _license_admission_claims, by token
    thread,     \* the launch thread of each token
    canceller,  \* the try a web thread is cancelling, or 0
    worker,     \* the remote worker of each token, and since when
    snapshot,   \* _license_usage and when it was completed
    query,      \* the lmstat query under way
    astray      \* history: attempts whose claim went before a query could
                \* have counted their worker (see Unsettled and restart)

vars == <<faults, clock, task, claims, thread, canceller, worker, snapshot, query, astray>>

Rows == [status : {"none", "queued", "attaching", "running", "ended"},
         try : 0..MaxAttempts, launch : Times, run : Times]
Claims == [on : BOOLEAN, state : {"attaching", "running", "terminal"},
           launch : Times, run : Times]
Workers == [state : {"none", "launching", "started", "holding", "gone"}, since : Times]
Snapshots == [ok : BOOLEAN, at : Times, seen : SUBSET Tokens]
Queries == [on : BOOLEAN, start : Times, read : BOOLEAN, seen : SUBSET Tokens, due : Times]

NoClaim == [on |-> FALSE, state |-> "attaching", launch |-> Never, run |-> Never]
NewClaim == [NoClaim EXCEPT !.on = TRUE]
NoQuery(due) == [on |-> FALSE, start |-> 0, read |-> FALSE, seen |-> {}, due |-> due]
NoSnapshot == [ok |-> FALSE, at |-> 0, seen |-> {}]

Started == [state |-> "started", since |-> clock]
Gone == [state |-> "gone", since |-> 0]

Token(t) == <<t, task[t].try>>
Claimed == {k \in Tokens : claims[k].on}
In(states) == {k \in Tokens : worker[k].state \in states}

(* The seats of the attempts in K: attempt k takes <<k, 1>> to <<k, Cost>>. *)
SeatsOf(k) == {k} \X (1..Cost[k[1]])
Seats(K) == Cardinality(UNION {SeatsOf(k) : k \in K})

-----------------------------------------------------------------------------
(* The claims.                                                             *)

(* _license_claims_for_task_locked: the attempt's own claim, else any      *)
(* claim of its task.                                                      *)
ClaimsFor(k) ==
    IF claims[k].on THEN {k} ELSE {j \in Claimed : j[1] = k[1]}

Unlaunched(c) == c.launch = Never /\ c.run = Never

Set(K, c(_)) == [k \in Tokens |-> IF k \in K THEN c(claims[k]) ELSE claims[k]]

MarkedLaunched(k) ==
    Set(ClaimsFor(k), LAMBDA c : IF c.launch = Never THEN [c EXCEPT !.launch = clock] ELSE c)

MarkedRunning(k) ==
    Set(ClaimsFor(k), LAMBDA c : [c EXCEPT !.state = "running",
                                           !.run = IF @ = Never THEN clock ELSE @])

(* A claim that was not launched is dropped, a launched one settles.       *)
MarkedTerminal(k) ==
    Set(ClaimsFor(k), LAMBDA c : IF Unlaunched(c) THEN NoClaim
                                 ELSE [c EXCEPT !.state = "terminal"])

PrelaunchReleased(k) == Set(ClaimsFor(k), LAMBDA c : IF Unlaunched(c) THEN NoClaim ELSE c)

Anchor(c) == IF c.run # Never THEN c.run ELSE c.launch

(* Mutant: the query that ends after the settlement is good enough.        *)
Reconciled_at_the_end(start) ==
    Set({k \in Claimed : /\ claims[k].state # "attaching" /\ ~Unlaunched(claims[k])
                         /\ clock >= Anchor(claims[k]) + Settlement},
        LAMBDA c : NoClaim)

(* _license_reconcile_claims_locked: what a query that began at start has  *)
(* certainly counted.                                                      *)
Reconciled(start) ==
    Set({k \in Claimed : /\ claims[k].state # "attaching" /\ ~Unlaunched(claims[k])
                         /\ start >= Anchor(claims[k]) + Settlement},
        LAMBDA c : NoClaim)

-----------------------------------------------------------------------------
(* Admission.                                                              *)

Capacity(t) == IF t \in Exempt THEN Total ELSE Total - Reserve

(* _license_admission_diagnostics_locked without a reason to block.        *)
Fits(t, cost) ==
    /\ snapshot.ok /\ clock - snapshot.at <= MaxAge
    /\ Seats(snapshot.seen) <= Total
    /\ Seats(snapshot.seen) + Seats(Claimed) + cost <= Capacity(t)

(* aedt_pool_warm_spare_admission: a spare host is queued when it fits.    *)
warm_spare_admission(t) ==
    /\ t \in Hosts /\ task[t].status = "none" /\ Fits(t, Cost[t])
    /\ task' = [task EXCEPT ![t].status = "queued"]
    /\ UNCHANGED <<clock, claims, thread, canceller, worker, snapshot, query>>

(* Mutant: an admitted task is counted once lmstat shows it.               *)
reserve_task_without_claim(t) ==
    LET k == <<t, task[t].try + 1>>
    IN  /\ task[t].status = "queued" /\ task[t].try < MaxAttempts /\ Fits(t, Cost[t])
        /\ task' = [task EXCEPT ![t] = [status |-> "attaching", try |-> task[t].try + 1,
                                        launch |-> Never, run |-> Never]]
        /\ thread' = [thread EXCEPT ![k] = "claim"]
        /\ UNCHANGED <<clock, claims, canceller, worker, snapshot, query>>

(* The admission, the row and the claim are one section under the lock.    *)
reserve_task(t) ==
    LET k == <<t, task[t].try + 1>>
    IN  /\ task[t].status = "queued" /\ task[t].try < MaxAttempts /\ Fits(t, Cost[t])
        /\ task' = [task EXCEPT ![t] = [status |-> "attaching", try |-> task[t].try + 1,
                                        launch |-> Never, run |-> Never]]
        /\ claims' = [claims EXCEPT ![k] = NewClaim]
        /\ thread' = [thread EXCEPT ![k] = "claim"]
        /\ UNCHANGED <<clock, canceller, worker, snapshot, query>>

-----------------------------------------------------------------------------
(* The launch thread of a token.                                           *)

OwnsRow(k) == Token(k[1]) = k /\ task[k[1]].status = "attaching"
Goto(k, step) == thread' = [thread EXCEPT ![k] = step]

(* The durable launch mark, or a claim that is not active any more.        *)
claim_launch(k) ==
    /\ thread[k] = "claim"
    /\ \/ /\ OwnsRow(k) /\ task[k[1]].launch = Never
          /\ task' = [task EXCEPT ![k[1]].launch = clock]
          /\ worker' = [worker EXCEPT ![k].state = "launching"]
          /\ Goto(k, "mark") /\ UNCHANGED claims
       \/ /\ ~OwnsRow(k)
          /\ claims' = PrelaunchReleased(k)
          /\ Goto(k, "done") /\ UNCHANGED <<task, worker>>
    /\ UNCHANGED <<clock, canceller, snapshot, query>>

mark_launch_started(k) ==
    /\ thread[k] = "mark"
    /\ claims' = MarkedLaunched(k)
    /\ Goto(k, "ssh")
    /\ UNCHANGED <<clock, task, canceller, worker, snapshot, query>>

(* attach_task over ssh, which takes its time.  A failure may leave a      *)
(* worker behind.                                                          *)
attach_remote(k) ==
    /\ thread[k] = "ssh"
    /\ \/ worker' = [worker EXCEPT ![k] = Started] /\ Goto(k, "ack")
       \/ /\ "ssh" \in faults /\ Goto(k, "failed")
          /\ \E left \in {Started, Gone} : worker' = [worker EXCEPT ![k] = left]
    /\ UNCHANGED <<clock, task, claims, canceller, snapshot, query>>

attach_failed(k) ==
    /\ thread[k] = "failed"
    /\ IF OwnsRow(k)
       THEN task' = [task EXCEPT ![k[1]].status = "ended"] /\ claims' = MarkedTerminal(k)
       ELSE UNCHANGED <<task, claims>>
    /\ Goto(k, "done")
    /\ UNCHANGED <<clock, canceller, worker, snapshot, query>>

Killed(k) == [worker EXCEPT ![k].state = IF @ \in {"started", "holding"} THEN "gone" ELSE @]

(* The remote kill is best effort.                                         *)
Kill(k) == worker' = Killed(k) \/ ("kill" \in faults /\ UNCHANGED worker)

(* The row becomes running and its claim follows in the next statement,    *)
(* with nothing to wait for between them; a row that moved on has its      *)
(* worker stopped.                                                         *)
acknowledge(k) ==
    /\ thread[k] = "ack"
    /\ IF OwnsRow(k)
       THEN /\ task' = [task EXCEPT ![k[1]].status = "running", ![k[1]].run = clock]
            /\ claims' = MarkedRunning(k)
            /\ UNCHANGED worker
       ELSE Kill(k) /\ UNCHANGED <<task, claims>>
    /\ Goto(k, "done")
    /\ UNCHANGED <<clock, canceller, snapshot, query>>

-----------------------------------------------------------------------------
(* The web and the tick.                                                   *)

(* request_cancel_task: the row first, its claim and its worker later.     *)
request_cancel_task(t) ==
    /\ "cancel" \in faults /\ canceller[t] = 0
    /\ task[t].status \in {"queued", "attaching", "running"}
    /\ task' = [task EXCEPT ![t].status = "ended"]
    /\ canceller' = [canceller EXCEPT ![t] = task[t].try]
    /\ UNCHANGED <<clock, claims, thread, worker, snapshot, query>>

finish_cancel(t) ==
    LET k == <<t, canceller[t]>>
    IN  /\ canceller[t] # 0
        /\ claims' = MarkedTerminal(k)
        /\ Kill(k)
        /\ canceller' = [canceller EXCEPT ![t] = 0]
        /\ UNCHANGED <<clock, task, thread, snapshot, query>>

(* requeue_pressure_killed_task, requeue_task_for_rebalance: running only. *)
requeue_task(t) ==
    /\ "requeue" \in faults /\ task[t].status = "running"
    /\ claims' = MarkedTerminal(Token(t))
    /\ Kill(Token(t))
    /\ task' = [task EXCEPT ![t].status = "queued", ![t].launch = Never, ![t].run = Never]
    /\ UNCHANGED <<clock, thread, canceller, snapshot, query>>

(* _apply_task_probe: a worker that is gone ends its task.                 *)
probe_task(t) ==
    /\ task[t].status = "running" /\ worker[Token(t)].state = "gone"
    /\ task' = [task EXCEPT ![t].status = "ended"]
    /\ claims' = MarkedTerminal(Token(t))
    /\ UNCHANGED <<clock, thread, canceller, worker, snapshot, query>>

(* The timeout of a task, the only way out of an attach that a restart     *)
(* left unacknowledged: it is not probed.                                  *)
finalize_timed_out_task(t) ==
    /\ task[t].status \in {"attaching", "running"} /\ thread[Token(t)] \in {"done", "dead"}
    /\ Kill(Token(t))
    /\ task' = [task EXCEPT ![t].status = "ended"]
    /\ claims' = MarkedTerminal(Token(t))
    /\ UNCHANGED <<clock, thread, canceller, snapshot, query>>

(* The remote side: the worker checks its seats out, and ends.             *)
checkout(k) ==
    /\ worker[k].state = "started"
    /\ worker' = [worker EXCEPT ![k].state = "holding"]
    /\ UNCHANGED <<clock, task, claims, thread, canceller, snapshot, query>>

worker_ends(k) ==
    /\ worker[k].state \in {"started", "holding"}
    /\ worker' = [worker EXCEPT ![k].state = "gone"]
    /\ UNCHANGED <<clock, task, claims, thread, canceller, snapshot, query>>

(* Time.  A worker that was started has checked its seats out before       *)
(* Settlement has passed: that is what the setting is for.                 *)
tick ==
    /\ clock < MaxTime
    /\ \A k \in In({"started"}) : clock < worker[k].since + Settlement - 1
    /\ clock' = clock + 1
    /\ UNCHANGED <<task, claims, thread, canceller, worker, snapshot, query>>

-----------------------------------------------------------------------------
(* _refresh_license_usage, on a thread of its own.                         *)

refresh_license_usage_if_due ==
    /\ ~query.on /\ clock >= query.due
    /\ query' = [NoQuery(clock + Interval) EXCEPT !.on = TRUE, !.start = clock]
    /\ UNCHANGED <<clock, task, claims, thread, canceller, worker, snapshot>>

lmstat ==
    /\ query.on /\ ~query.read
    /\ query' = [query EXCEPT !.read = TRUE, !.seen = In({"holding"})]
    /\ UNCHANGED <<clock, task, claims, thread, canceller, worker, snapshot>>

(* The snapshot and what it settles are published in one section.          *)
publish_license_snapshot ==
    /\ query.on /\ query.read
    /\ snapshot' = [ok |-> TRUE, at |-> clock, seen |-> query.seen]
    /\ claims' = Reconciled(query.start)
    /\ query' = NoQuery(query.due)
    /\ UNCHANGED <<clock, task, thread, canceller, worker>>

(* No feature block, no server, no connection: nothing fits until the next *)
(* query.                                                                  *)
query_fails ==
    /\ "query" \in faults /\ query.on
    /\ snapshot' = [snapshot EXCEPT !.ok = FALSE]
    /\ query' = NoQuery(query.due)
    /\ UNCHANGED <<clock, task, claims, thread, canceller, worker>>

(* The process restarts: recover and _reconstruct_license_admission_claims *)
(* work from the rows; a launch under way may have reached the node.       *)
restart ==
    /\ "restart" \in faults
    /\ faults' = faults \ {"restart"}
    /\ \E reached \in SUBSET {k \in Tokens : thread[k] = "ssh"} :
          worker' = [k \in Tokens |->
              IF worker[k].state # "launching" THEN worker[k]
              ELSE IF k \in reached THEN Started ELSE Gone]
    /\ task' = [t \in Tasks |->
          IF task[t].status = "attaching" /\ task[t].launch = Never
          THEN [task[t] EXCEPT !.status = "queued"] ELSE task[t]]
    /\ claims' = [k \in Tokens |->
          LET row == task[k[1]]
          IN  IF /\ Token(k[1]) = k /\ row.launch # Never
                 /\ row.status \in {"attaching", "running"}
              THEN [on |-> TRUE, state |-> row.status, launch |-> row.launch, run |-> row.run]
              ELSE NoClaim]
    /\ thread' = [k \in Tokens |-> IF thread[k] \in {"none", "done"} THEN thread[k] ELSE "dead"]
    /\ canceller' = [t \in Tasks |-> 0]
    /\ snapshot' = NoSnapshot
    /\ query' = NoQuery(0)
    /\ astray' = astray \cup {k \in Tokens : worker'[k].state = "started" /\ ~claims'[k].on}
    /\ UNCHANGED clock

(* History: a claim that had not been acknowledged is dropped while its    *)
(* launch is under way, or after a worker that was started later than the  *)
(* launch mark the claim settles by.                                       *)
Unsettled ==
    {k \in Claimed :
        /\ ~claims'[k].on
        /\ claims[k].run = Never
        /\ \/ worker[k].state = "launching"
           \/ worker[k].state \in {"started", "holding"} /\ worker[k].since > claims[k].launch}

-----------------------------------------------------------------------------
Init ==
    /\ faults \in FaultMixes
    /\ clock = 0
    /\ task = [t \in Tasks |-> [status |-> IF t \in Hosts THEN "none" ELSE "queued",
                                try |-> 0, launch |-> Never, run |-> Never]]
    /\ claims = [k \in Tokens |-> NoClaim]
    /\ thread = [k \in Tokens |-> "none"]
    /\ canceller = [t \in Tasks |-> 0]
    /\ worker = [k \in Tokens |-> [state |-> "none", since |-> 0]]
    /\ snapshot = NoSnapshot
    /\ query = NoQuery(0)
    /\ astray = {}

Launch(k) ==
    \/ claim_launch(k) \/ mark_launch_started(k) \/ attach_remote(k)
    \/ attach_failed(k) \/ acknowledge(k)

Monitor == refresh_license_usage_if_due \/ lmstat \/ publish_license_snapshot \/ query_fails

Next ==
    \/ /\ UNCHANGED faults
       /\ \/ \E t \in Tasks :
                \/ warm_spare_admission(t) \/ reserve_task(t) \/ request_cancel_task(t)
                \/ finish_cancel(t) \/ requeue_task(t) \/ probe_task(t)
                \/ finalize_timed_out_task(t)
          \/ \E k \in Tokens : Launch(k) \/ checkout(k) \/ worker_ends(k)
          \/ tick \/ Monitor
       /\ astray' = astray \cup Unsettled
    \/ restart

Spec == Init /\ [][Next]_vars

-----------------------------------------------------------------------------
(* Properties.                                                             *)

(* The shape of the state, for every fault the instance can meet.          *)
TypeOK ==
    /\ clock \in 0..MaxTime
    /\ task \in [Tasks -> Rows]
    /\ claims \in [Tokens -> Claims]
    /\ thread \in [Tokens -> {"none", "claim", "mark", "ssh", "failed", "ack",
                              "done", "dead"}]
    /\ canceller \in [Tasks -> 0..MaxAttempts]
    /\ worker \in [Tokens -> Workers]
    /\ snapshot \in Snapshots
    /\ query \in Queries
    /\ astray \in SUBSET Tokens

(* "A checkout cannot be erased by a snapshot that raced its launch": a    *)
(* worker that holds seats or is about to take them has a claim, or the    *)
(* snapshot that admission reads has counted it, unless its claim was      *)
(* dropped before the attempt was acknowledged or the row that names it    *)
(* was over at a restart.                                                  *)
LiveIsAccounted ==
    \A k \in In({"launching", "started", "holding"}) \ astray :
        k \in Claimed \/ (snapshot.ok => k \in snapshot.seen)

(* What admission is for: the tasks it has in sight never take more seats  *)
(* than there are, and leave the reserve to the projects that may use it,  *)
(* however launches, queries, cancels, requeues and a restart interleave.  *)
SeatsNotOversold ==
    LET live == In({"launching", "started", "holding"}) \ astray
    IN  /\ Seats(live) <= Total
        /\ Seats({k \in live : k[1] \notin Exempt}) <= Total - Reserve

-----------------------------------------------------------------------------
(* Stated by the repository, and not kept by the code.                     *)

(* "Release only a provably unlaunched claim; launched claims settle."     *)
LaunchedClaimsSettle ==
    [][\A k \in Claimed \cap In({"launching"}) : claims'[k].on]_vars
=============================================================================
