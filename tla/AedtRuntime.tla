---------------------------- MODULE AedtRuntime ----------------------------
(***************************************************************************)
(* How the AEDT pool comes by its Desktops: the tick of AedtPoolRuntime    *)
(* against the demand, Slurm, the scheduler and the hosts it launches.     *)
(*                                                                         *)
(* A tick reconciles the rows in one transaction, which plans starts on    *)
(* live allocations; what does not fit is requested from Slurm.  Each      *)
(* `starting' row gets a host task, which the tick and the scheduler's own *)
(* thread compete to reserve.  Calls of the hosts reconcile as well, at    *)
(* any time.                                                               *)
(*                                                                         *)
(* One account is modelled, without strict node routes; `warm' stands for  *)
(* warm and active.  Rows of sessions, tasks and allocations that are over *)
(* are used again.                                                         *)
(***************************************************************************)
EXTENDS Naturals, FiniteSets, Sequences, SequencesExt, FiniteSetsExt

CONSTANTS
    MaxAlloc,           \* rows of allocations are 1..MaxAlloc
    MaxSession,         \* rows of sessions are 1..MaxSession
    MaxWant,            \* max_sessions; the demand is at most that
    PerNode,            \* sessions_per_new_node
    ScaleStep,          \* scale_step_nodes
    Scenarios           \* what may go wrong, and the demand as it goes, in one behaviour

ASSUME RuntimeAssumptions ==
    /\ MaxAlloc \in Nat /\ MaxSession \in Nat /\ MaxWant \in 1..MaxSession
    /\ PerNode \in Nat \ {0} /\ ScaleStep \in Nat \ {0}

Allocs == 1..MaxAlloc
Sessions == 1..MaxSession
Slots == {1, 2}         \* the host tasks of one session that may exist at once
NoAlloc == 0

VARIABLES
    faults,     \* what may still go wrong
    demand,     \* desired_sessions, now and later
    url,        \* the control-plane URL is published
    full,       \* the storage guard blocks the account
    alloc,      \* the rows of dedicated allocations
    queue,      \* those that are pending, the oldest first
    sess,       \* the rows of sessions
    task,       \* their host tasks, and the process of each
    rt          \* the tick of the runtime

vars == <<faults, demand, url, full, alloc, queue, sess, task, rt>>
world == <<demand, url, full>>
want == Head(demand)

AllocRows == [st : {"none", "pending", "warm", "draining"}, cap : 0..PerNode, hard : BOOLEAN]
SessionRows == [st : {"none", "starting", "ready", "draining", "unhealthy"},
                on : Allocs \cup {NoAlloc},
                host : {0} \cup Slots, bound : {0} \cup Slots]
TaskRows == [st : {"none", "queued", "attaching", "running"}, on : Allocs \cup {NoAlloc},
             thread : {"none", "launch", "ack"}, proc : {"none", "new", "claimed", "up"}]
Ticks == [pc : {"idle", "reconcile", "replan", "open", "check", "bind", "recheck", "reserve", "start",
                "empty"},
          published : BOOLEAN, just : BOOLEAN, blocked : BOOLEAN, stale : BOOLEAN,
          unplaced : 0..MaxWant, lacking : 0..MaxWant, opened : 0..ScaleStep,
          todo : SUBSET Sessions, s : {0} \cup Sessions, k : {0} \cup Slots]

NoAllocRow == [st |-> "none", cap |-> 0, hard |-> FALSE]
NoSession == [st |-> "none", on |-> NoAlloc, host |-> 0, bound |-> 0]
NoTask == [st |-> "none", on |-> NoAlloc, thread |-> "none", proc |-> "none"]
IdleTick == [pc |-> "idle", published |-> FALSE, just |-> FALSE, blocked |-> FALSE, stale |-> FALSE,
             unplaced |-> 0, lacking |-> 0, opened |-> 0,
             todo |-> {}, s |-> 0, k |-> 0]

Spend(f) == f \in faults /\ faults' = faults \ {f}
MinOf(a, b) == IF a < b THEN a ELSE b
Over(a, b) == IF a > b THEN a - b ELSE 0
Go(pc) == rt' = [rt EXCEPT !.pc = pc]

ActiveTask(s) == \E k \in Slots : task[s][k].st # "none"
Launched(s) == \E k \in Slots : task[s][k].st \in {"attaching", "running"}
(* A row of a task that is over and left nothing behind is as good as new. *)
Put(t) == IF t.st = "none" /\ t.proc = "none" /\ t.thread = "none" THEN NoTask ELSE t
HasProcess(s) == \E k \in Slots : task[s][k].proc # "none"

-----------------------------------------------------------------------------
(* What one reconcile makes of the rows.  Each operator takes the session  *)
(* rows S, or the allocation rows A, and returns the new ones.             *)

Counted(S, a) == {s \in Sessions : S[s].st # "none" /\ S[s].on = a}
InState(S, states) == {s \in Sessions : S[s].st \in states}

(* Starts of a blocked account that no host has acquired are given up.     *)
FailBlocked(S, blocked) ==
    [s \in Sessions |-> IF blocked /\ S[s].st = "starting" /\ S[s].host = 0 /\ ~Launched(s)
                        THEN NoSession ELSE S[s]]

(* A start without an answer, and a host that fell silent, are unhealthy.  *)
Expire(S, late) ==
    [s \in Sessions |->
        IF S[s].st \in {"starting", "ready", "draining"} /\ s \in late
        THEN [S[s] EXCEPT !.st = "unhealthy"] ELSE S[s]]

(* Allocations of sessions unhealthy for the grace are recycled.           *)
Recycle(A, S) ==
    [a \in Allocs |-> IF A[a].st = "warm" /\ \E s \in Counted(sess, a) \cap Counted(S, a) :
                              sess[s].st = "unhealthy" /\ S[s].st = "unhealthy"
                      THEN [A[a] EXCEPT !.st = "draining"] ELSE A[a]]

(* Mutant: a silent session is left to its host.                           *)
Reap_never(S, silent) == S

(* A session that stays silent is reaped, or it would pin its allocation.  *)
Reap(S, silent) ==
    [s \in Sessions |-> IF S[s].st = "unhealthy" /\ sess[s].st = "unhealthy" /\ s \in silent
                        THEN NoSession ELSE S[s]]

(* A recycled allocation with healthy sessions and no other is kept.       *)
Recover(A, S) ==
    [a \in Allocs |-> IF A[a].st = "draining" /\ (\E s \in Counted(S, a) : S[s].st = "ready")
                         /\ \A s \in Counted(S, a) : S[s].st # "unhealthy"
                      THEN [A[a] EXCEPT !.st = "warm"] ELSE A[a]]

(* An idle Desktop on an allocation that takes no tasks is drained.        *)
DrainUnassignable(A, S) ==
    [s \in Sessions |-> IF S[s].st = "ready" /\ A[S[s].on].st # "warm"
                        THEN [S[s] EXCEPT !.st = "draining"] ELSE S[s]]

(* The plan.                                                               *)

Assignable(A, S) == {s \in InState(S, {"ready"}) : S[s].on # NoAlloc /\ A[S[s].on].st = "warm"}
UsableOrStarting(A, S) == Cardinality(Assignable(A, S)) + Cardinality(InState(S, {"starting"}))
DrainNeeded(A, S) == Over(UsableOrStarting(A, S), want)

(* Rows whose parent is gone do not count against max_sessions.            *)
HardCount(A, S) == Cardinality({s \in InState(S, {"starting", "ready"}) : A[S[s].on].st # "none"})

StartNeeded(A, S, blocked) ==
    IF blocked THEN 0
    ELSE MinOf(Over(want, UsableOrStarting(A, S)), Over(MaxWant, HardCount(A, S)))

Unsafe(S, a) == \E s \in Counted(S, a) : S[s].st \in {"draining", "unhealthy"}
Eligible(A, S, blocked) == {a \in Allocs : A[a].st = "warm" /\ ~blocked /\ ~Unsafe(S, a)}

(* _allocation_session_capacity, less what the allocation has.             *)
Free(A, S, a) == Over(A[a].cap, Cardinality(Counted(S, a)))

Stale(A) == {a \in Allocs : A[a].st = "pending" /\ A[a].hard}
Pending(A, blocked) == {a \in Allocs : A[a].st = "pending" /\ a \notin Stale(A) /\ ~blocked}

Room(A, S, blocked) == MapThenSumSet(LAMBDA a : Free(A, S, a), Eligible(A, S, blocked))
FutureCapacity(A, blocked) == MapThenSumSet(LAMBDA a : A[a].cap, Pending(A, blocked))

(* A row nothing refers to.  A start that finds none waits for one.        *)
Fresh(S) == {s \in Sessions : S[s] = NoSession /\ ~ActiveTask(s) /\ ~HasProcess(s)
                              /\ s \notin rt.todo /\ s # rt.s}

(* n starts on allocations with room, those with the fewest sessions first. *)
Placed(A, S, blocked, n) ==
    LET rows == {s \in Fresh(S) : Cardinality({r \in Fresh(S) : r < s}) < n}
        allocs == Eligible(A, S, blocked)
    IN  {P \in [rows -> allocs] :
            LET new(a) == Cardinality({s \in rows : P[s] = a})
            IN  /\ \A r, s \in rows : r < s => P[r] <= P[s]
                /\ \A a \in allocs : new(a) <= Free(A, S, a)
                /\ \A a, b \in allocs :
                      new(a) > 0 /\ Cardinality(Counted(S, b)) < Cardinality(Counted(S, a))
                         => new(b) = Free(A, S, b)}

Started(S, P) ==
    [s \in Sessions |-> IF s \notin DOMAIN P THEN S[s]
                        ELSE [NoSession EXCEPT !.st = "starting", !.on = P[s]]]

(* Sessions nobody can answer for are late in time; others only if they   *)
(* are slow.                                                               *)
Mute == {s \in Sessions : IF sess[s].host # 0 THEN task[s][sess[s].host].proc = "none"
                          ELSE sess[s].st = "unhealthy"}
Delays == {{}} \cup {{f} : f \in faults \cap {"slow", "slower"}}
Delayed(d) == IF d = {} THEN {{}} ELSE {{s} : s \in InState(sess, {"starting", "unhealthy"})}

(* One transaction.  It leaves the rows, and the tick goes on with what    *)
(* the plan says of the starts that found no place.                        *)
Reconciled(blocked, ticking) ==
    \E delay \in Delays : \E slow \in Delayed(delay) :
    LET late == Mute \cup slow
        S1 == Expire(FailBlocked(sess, blocked), late)
        A1 == Recycle(alloc, S1)
        S2 == Reap(S1, late)
        A2 == Recover(A1, S2)
        S3 == DrainUnassignable(A2, S2)
        idle == Assignable(A2, S3)
        drains == MinOf(DrainNeeded(A2, S3), Cardinality(idle))
        needed == MinOf(StartNeeded(A2, S3, blocked), Cardinality(Fresh(S3)))
        n == MinOf(needed, Room(A2, S3, blocked))
        unplaced == needed - n
    IN  /\ faults' = faults \ delay
        /\ alloc' = A2
        /\ \E D \in SUBSET idle, P \in Placed(A2, S3, blocked, n) :
             /\ Cardinality(D) = drains
             /\ sess' = [s \in Sessions |->
                   IF s \in D THEN [S3[s] EXCEPT !.st = "draining"] ELSE Started(S3, P)[s]]
        /\ task' = [s \in Sessions |->
              IF sess[s].st # "none" /\ S3[s] = NoSession /\ blocked /\ sess[s].host = 0
              THEN [k \in Slots |-> IF task[s][k].st = "queued" THEN NoTask ELSE task[s][k]]
              ELSE task[s]]
        /\ rt' = IF ~ticking THEN rt
                 ELSE [rt EXCEPT !.pc = "replan", !.unplaced = unplaced,
                                 !.lacking = Over(unplaced, FutureCapacity(A2, blocked)),
                                 !.stale = Stale(alloc) # {}]
        /\ UNCHANGED queue /\ UNCHANGED world
-----------------------------------------------------------------------------
(* The tick.                                                               *)

Quiet == UNCHANGED <<faults, alloc, queue, sess, task>> /\ UNCHANGED world

(* The storage guard: the account has no room for another session.  (That  *)
(* it is over its quota, which drains sessions too, is not modelled.)      *)
storage_start_admission == full

(* Without a published URL nothing is changed; after a publication no host *)
(* is launched for one tick.  The storage guard is asked first.            *)
tick ==
    /\ rt.pc = "idle"
    /\ rt' = [IdleTick EXCEPT !.published = url, !.just = url /\ ~rt.published, !.blocked = storage_start_admission,
                              !.pc = IF url THEN "reconcile" ELSE "idle"]
    /\ Quiet

reconcile ==
    /\ rt.pc = "reconcile"
    /\ Reconciled(rt.blocked, TRUE)

(* A call of a host reconciles too, and knows of no blocked account.       *)
reconcile_in_call == Reconciled(FALSE, FALSE)

(* The allocations are closed, and the processes on them end.              *)
Closed(gone) ==
    /\ alloc' = [a \in Allocs |-> IF a \in gone THEN NoAllocRow ELSE alloc[a]]
    /\ queue' = SelectSeq(queue, LAMBDA a : a \notin gone)
    /\ task' = [s \in Sessions |-> [k \in Slots |->
                   IF task[s][k].on \in gone THEN Put([task[s][k] EXCEPT !.proc = "none"])
                   ELSE task[s][k]]]

(* What close_empty_aedt_pool_allocation refuses: it has a session or a    *)
(* live task.                                                              *)
Claimed(a) ==
    \/ Counted(sess, a) # {}
    \/ \E s \in Sessions, k \in Slots : task[s][k].on = a /\ task[s][k].st \in {"attaching", "running"}

(* The oldest hard-pending requests are cancelled, as many as a step of    *)
(* the pool.                                                               *)
replan ==
    LET waiting == SelectSeq(queue, LAMBDA a : a \in Stale(alloc) /\ ~Claimed(a))
        gone == {waiting[i] : i \in 1..MinOf(ScaleStep, Len(waiting))}
    IN  /\ rt.pc = "replan"
        /\ Closed(gone)
        /\ rt' = [rt EXCEPT !.pc = "open", !.stale = @ \/ Stale(alloc) # {}]
        /\ UNCHANGED <<faults, sess>> /\ UNCHANGED world

(* Rows that nothing refers to.                                            *)
Unused == {a \in Allocs : alloc[a].st = "none" /\ Counted(sess, a) = {}
                          /\ \A s \in Sessions, k \in Slots : task[s][k].on # a}
Request(a, n) ==
    /\ alloc' = [alloc EXCEPT ![a] = [st |-> "pending", cap |-> n, hard |-> FALSE]]
    /\ queue' = Append(queue, a)
    /\ rt' = [rt EXCEPT !.opened = @ + 1, !.lacking = @ - n]

(* Then the starts without a host are listed.                              *)
starting_sessions == IF rt.just THEN {} ELSE {s \in InState(sess, {"starting"}) : sess[s].host = 0}
RequestsMade ==
    rt' = [rt EXCEPT !.pc = "check", !.todo = starting_sessions] /\ UNCHANGED <<alloc, queue>>

(* The sessions a request is for: as even as can be over the nodes needed. *)
Share == LET nodes == (rt.lacking + PerNode - 1) \div PerNode
         IN  (rt.lacking + nodes - 1) \div nodes

(* Nodes are requested for the sessions that no pending one has room for,  *)
(* ScaleStep in one tick.  Not in a tick that met a hard-pending request.  *)
open_allocation_record ==
    /\ rt.pc = "open"
    /\ IF rt.lacking > 0 /\ ~rt.stale /\ rt.opened < ScaleStep /\ Unused # {}
       THEN Request(Min(Unused), Share)
       ELSE RequestsMade
    /\ UNCHANGED <<faults, sess, task>> /\ UNCHANGED world

-----------------------------------------------------------------------------
(* _ensure_session_hosts.                                                  *)

SetTask(s, k, t) == task' = [task EXCEPT ![s][k] = Put(t)]
NextSession == [rt EXCEPT !.pc = "check", !.s = 0, !.k = 0]

(* fail_unclaimed_session_start.                                           *)
FailUnclaimed(s) ==
    sess' = IF sess[s].st = "starting" /\ sess[s].host = 0
            THEN [sess EXCEPT ![s] = NoSession] ELSE sess

(* A session whose host task lives is left to it; one that may not start   *)
(* is given up; for another a task is created, pinned to the allocation.   *)
(* (One that is over by now would get a task that the bind fails; one      *)
(* without a free row for a task waits for it.)                            *)
create_host_task ==
    LET s == Min(rt.todo)
        a == sess[s].on
        rows == {k \in Slots : task[s][k] = NoTask /\ sess[s].bound # k}
        rest == [rt EXCEPT !.todo = @ \ {s}]
        left == ActiveTask(s) \/ sess[s].st = "none" \/ rows = {}
        may == ~rt.blocked /\ alloc[a].st = "warm"
    IN  /\ rt.pc = "check" /\ rt.todo # {}
        /\ \/ left /\ rt' = rest /\ UNCHANGED <<sess, task>>
           \/ ~left /\ ~may /\ FailUnclaimed(s) /\ rt' = rest /\ UNCHANGED task
           \/ /\ ~left /\ may
              /\ SetTask(s, Min(rows), [NoTask EXCEPT !.st = "queued", !.on = a])
              /\ rt' = [rest EXCEPT !.pc = "bind", !.s = s, !.k = Min(rows)]
              /\ UNCHANGED sess
        /\ UNCHANGED <<faults, alloc, queue>> /\ UNCHANGED world

(* The task is failed, whatever has become of it, and the start with it.   *)
FailTask(s, k) ==
    /\ SetTask(s, k, [task[s][k] EXCEPT !.st = "none"])
    /\ FailUnclaimed(s)

Bindable(s, k) == sess[s].st = "starting" /\ sess[s].bound \in {0, k}

bind_session_host_task ==
    /\ rt.pc = "bind"
    /\ IF Bindable(rt.s, rt.k)
       THEN /\ sess' = [sess EXCEPT ![rt.s].bound = rt.k]
            /\ Go("recheck") /\ UNCHANGED task
       ELSE FailTask(rt.s, rt.k) /\ rt' = NextSession
    /\ UNCHANGED <<faults, alloc, queue>> /\ UNCHANGED world

(* The storage guard again, now that the start is on its ledger.           *)
account_storage_blocked ==
    /\ rt.pc = "recheck"
    /\ IF full THEN FailTask(rt.s, rt.k) /\ rt' = NextSession
       ELSE Go("reserve") /\ UNCHANGED <<sess, task>>
    /\ UNCHANGED <<faults, alloc, queue>> /\ UNCHANGED world

(* The tick may lose the task to the scheduler, which is as good.          *)
reserve_task_on_allocation ==
    LET t == task[rt.s][rt.k]
    IN  /\ rt.pc = "reserve"
        /\ IF t.st = "queued" /\ alloc[t.on].st = "warm"
           THEN /\ SetTask(rt.s, rt.k, [t EXCEPT !.st = "attaching"])
                /\ Go("start") /\ UNCHANGED sess
           ELSE IF t.st \in {"attaching", "running"}
           THEN rt' = NextSession /\ UNCHANGED <<sess, task>>
           ELSE FailTask(rt.s, rt.k) /\ rt' = NextSession
        /\ UNCHANGED <<faults, alloc, queue>> /\ UNCHANGED world

(* The attach thread is started; a session that is gone ends the tick.     *)
start_background_task_attach ==
    LET t == task[rt.s][rt.k]
    IN  /\ rt.pc = "start"
        /\ IF Bindable(rt.s, rt.k)
           THEN SetTask(rt.s, rt.k, [t EXCEPT !.thread = "launch"]) /\ rt' = NextSession
           ELSE rt' = [IdleTick EXCEPT !.published = rt.published] /\ UNCHANGED task
        /\ UNCHANGED <<faults, alloc, queue, sess>> /\ UNCHANGED world

-----------------------------------------------------------------------------
(* What is not needed is given back.                                       *)

(* The oldest requests are kept until they have room for what was          *)
(* unplaced; the others are closed.                                        *)
Kept(n) == LET before(i) == MapThenSumSet(LAMBDA j : alloc[queue[j]].cap, 1..(i - 1))
           IN  {queue[i] : i \in {j \in 1..Len(queue) : before(j) < n}}

close_excess_pending ==
    /\ rt.pc = "check" /\ rt.todo = {}
    /\ Closed({a \in Range(queue) : a \notin Kept(rt.unplaced) /\ ~Claimed(a)})
    /\ Go("empty")
    /\ UNCHANGED <<faults, sess>> /\ UNCHANGED world

close_empty ==
    /\ rt.pc = "empty"
    /\ Closed({a \in Allocs : alloc[a].st \in {"warm", "draining"} /\ ~Claimed(a)})
    /\ rt' = [IdleTick EXCEPT !.published = rt.published]
    /\ UNCHANGED <<faults, sess>> /\ UNCHANGED world
-----------------------------------------------------------------------------
(* The scheduler's own threads.                                            *)

Sched == UNCHANGED <<alloc, queue, sess, rt>> /\ UNCHANGED world

scheduler_reserve(s, k) ==
    LET t == task[s][k]
    IN  /\ t.st = "queued" /\ alloc[t.on].st = "warm"
        /\ SetTask(s, k, [t EXCEPT !.st = "attaching", !.thread = "launch"])
        /\ UNCHANGED faults /\ Sched

fail_stale_requested_allocation_tasks(s, k) ==
    LET t == task[s][k]
    IN  /\ t.st = "queued" /\ alloc[t.on].st \in {"none", "draining"}
        /\ SetTask(s, k, [t EXCEPT !.st = "none"])
        /\ UNCHANGED faults /\ Sched

(* The launch, if the claim still stands; it may fail.                     *)
attach_task(s, k) ==
    LET t == task[s][k]
    IN  /\ t.thread = "launch"
        /\ \/ /\ t.st = "attaching" /\ alloc[t.on].st # "none"
              /\ SetTask(s, k, [t EXCEPT !.proc = "new", !.thread = "ack"]) /\ UNCHANGED faults
           \/ /\ t.st = "attaching" /\ ((alloc[t.on].st = "none" /\ UNCHANGED faults) \/ Spend("attach"))
              /\ SetTask(s, k, [t EXCEPT !.st = "none", !.thread = "none"])
           \/ /\ t.st # "attaching"
              /\ SetTask(s, k, [t EXCEPT !.thread = "none"]) /\ UNCHANGED faults
        /\ Sched

(* A task that moved on while its worker was launched has it cancelled.    *)
complete_attach(s, k) ==
    LET t == task[s][k]
    IN  /\ t.thread = "ack"
        /\ SetTask(s, k, IF t.st = "attaching" THEN [t EXCEPT !.st = "running", !.thread = "none"]
                         ELSE [t EXCEPT !.proc = "none", !.thread = "none"])
        /\ UNCHANGED faults /\ Sched

(* An attempt that lost its thread is requeued or, if it was launched,     *)
(* found running; one whose process ended is over.                         *)
refresh_task(s, k) ==
    LET t == task[s][k]
    IN  /\ \/ /\ t.st = "attaching" /\ t.thread = "none" /\ ~(rt.pc = "start" /\ rt.s = s /\ rt.k = k)
              /\ SetTask(s, k, [t EXCEPT !.st = IF t.proc = "none" THEN "queued" ELSE "running"])
           \/ /\ t.st = "running" /\ t.proc = "none"
              /\ SetTask(s, k, [t EXCEPT !.st = "none"])
        /\ UNCHANGED faults /\ Sched

-----------------------------------------------------------------------------
(* The host process, and Slurm.                                            *)

(* The claim holds for a start that nobody has and whose bound task, if    *)
(* any, is under way; otherwise the host exits.                            *)
claim_start(s, k) ==
    LET t == task[s][k]
        b == sess[s].bound
        granted == /\ sess[s].st = "starting" /\ sess[s].host = 0 /\ sess[s].on = t.on
                   /\ b # 0 => task[s][b].st \in {"attaching", "running"}
    IN  /\ t.proc = "new" /\ url
        /\ SetTask(s, k, [t EXCEPT !.proc = IF granted THEN "claimed" ELSE "none"])
        /\ sess' = IF granted THEN [sess EXCEPT ![s].host = k] ELSE sess
        /\ UNCHANGED <<faults, alloc, queue, rt>> /\ UNCHANGED world

(* A start that timed out but has not been reaped is recovered, and its    *)
(* allocation with it.  A Desktop takes far longer to come up than the     *)
(* tick takes from the insertion of its task to the bind: that the tick is *)
(* held up there until the host has registered is one of the faults.       *)
register_session(s, k) ==
    LET t == task[s][k]
        owner == sess[s].host = k /\ sess[s].st \in {"starting", "unhealthy"}
                 /\ alloc[t.on].st # "none"
        back == /\ owner /\ sess[s].st = "unhealthy" /\ alloc[t.on].st = "draining"
                /\ \A r \in Counted(sess, t.on) \ {s} : sess[r].st # "unhealthy"
    IN  /\ t.proc = "claimed" /\ url
        /\ IF rt.pc = "bind" /\ rt.s = s THEN Spend("held") ELSE UNCHANGED faults
        /\ SetTask(s, k, [t EXCEPT !.proc = IF owner THEN "up" ELSE "none"])
        /\ sess' = IF owner THEN [sess EXCEPT ![s].st = "ready"] ELSE sess
        /\ alloc' = IF back THEN [alloc EXCEPT ![t.on].st = "warm"] ELSE alloc
        /\ UNCHANGED <<queue, rt>> /\ UNCHANGED world

(* A host that is told to drain, or whose session is over, closes its      *)
(* Desktop and reports it.                                                 *)
close_session(s, k) ==
    LET t == task[s][k]
        mine == sess[s].host = k /\ sess[s].st # "none"
    IN  /\ t.proc = "up" /\ (mine => sess[s].st = "draining") /\ url
        /\ SetTask(s, k, [t EXCEPT !.proc = "none"])
        /\ sess' = IF mine THEN [sess EXCEPT ![s] = NoSession] ELSE sess
        /\ UNCHANGED <<faults, alloc, queue, rt>> /\ UNCHANGED world

host_dies(s, k) ==
    /\ task[s][k].proc # "none" /\ Spend("host")
    /\ SetTask(s, k, [task[s][k] EXCEPT !.proc = "none"])
    /\ Sched

(* A job starts at any time.  One that starts after the plan of a tick and *)
(* before its end is closed as empty by that tick.                         *)
slurm_starts(a) ==
    /\ alloc[a].st = "pending" /\ ~alloc[a].hard
    /\ alloc' = [alloc EXCEPT ![a].st = "warm"]
    /\ queue' = SelectSeq(queue, LAMBDA b : b # a)
    /\ UNCHANGED <<faults, sess, task, rt>> /\ UNCHANGED world

(* A limit of the association or the QOS holds the request back.           *)
slurm_holds(a) ==
    /\ alloc[a].st = "pending" /\ ~alloc[a].hard /\ Spend("hard")
    /\ alloc' = [alloc EXCEPT ![a].hard = TRUE]
    /\ UNCHANGED <<queue, sess, task, rt>> /\ UNCHANGED world

slurm_kills(a) ==
    /\ alloc[a].st # "none" /\ Spend("kill")
    /\ Closed({a})
    /\ UNCHANGED <<sess, rt>> /\ UNCHANGED world

(* The web process ends; its threads and its tick are gone.                *)
crash ==
    /\ Spend("crash")
    /\ rt' = IdleTick
    /\ task' = [s \in Sessions |-> [k \in Slots |-> Put([task[s][k] EXCEPT !.thread = "none"])]]
    /\ UNCHANGED <<alloc, queue, sess>> /\ UNCHANGED world

-----------------------------------------------------------------------------
(* The world: demand, the relay, the quota.                                *)

demand_changes ==
    /\ Len(demand) > 1 /\ demand' = Tail(demand)
    /\ UNCHANGED <<faults, url, full, alloc, queue, sess, task, rt>>

relay_changes ==
    /\ (IF url THEN Spend("relay") ELSE UNCHANGED faults) /\ url' = ~url
    /\ UNCHANGED <<demand, full, alloc, queue, sess, task, rt>>

quota_changes ==
    /\ (IF full THEN UNCHANGED faults ELSE Spend("quota")) /\ full' = ~full
    /\ UNCHANGED <<demand, url, alloc, queue, sess, task, rt>>

-----------------------------------------------------------------------------
Init ==
    /\ \E c \in Scenarios : faults = c.faults /\ demand = c.demand
    /\ url = TRUE /\ full = FALSE
    /\ alloc = [a \in Allocs |-> NoAllocRow] /\ queue = <<>>
    /\ sess = [s \in Sessions |-> NoSession]
    /\ task = [s \in Sessions |-> [k \in Slots |-> NoTask]]
    /\ rt = IdleTick

Runtime ==
    \/ tick \/ reconcile \/ replan \/ open_allocation_record
    \/ create_host_task \/ bind_session_host_task
    \/ account_storage_blocked \/ reserve_task_on_allocation \/ start_background_task_attach
    \/ close_excess_pending \/ close_empty

Scheduler(s, k) ==
    \/ fail_stale_requested_allocation_tasks(s, k) \/ scheduler_reserve(s, k)
    \/ attach_task(s, k) \/ complete_attach(s, k) \/ refresh_task(s, k)

Host(s, k) == claim_start(s, k) \/ register_session(s, k) \/ close_session(s, k)

Relief == (~url /\ relay_changes) \/ (full /\ quota_changes)

Next ==
    \/ Runtime \/ reconcile_in_call
    \/ \E s \in Sessions, k \in Slots : Scheduler(s, k) \/ Host(s, k) \/ host_dies(s, k)
    \/ \E a \in Allocs : slurm_starts(a) \/ slurm_holds(a) \/ slurm_kills(a)
    \/ crash \/ demand_changes \/ relay_changes \/ quota_changes

Spec == Init /\ [][Next]_vars

(* The threads and the hosts go on, Slurm starts what nothing holds back,  *)
(* the relay comes back and the quota is relieved.                         *)
FairSpec ==
    /\ Spec
    /\ WF_vars(Runtime) /\ WF_vars(Relief)
    /\ \A s \in Sessions, k \in Slots : WF_vars(Scheduler(s, k)) /\ WF_vars(Host(s, k))
    /\ \A a \in Allocs : SF_vars(slurm_starts(a))

-----------------------------------------------------------------------------
(* Properties.                                                             *)

(* The shape of the state, for every fault the instance can meet.          *)
TypeOK ==
    /\ demand \in Seq(0..MaxWant) /\ url \in BOOLEAN /\ full \in BOOLEAN
    /\ alloc \in [Allocs -> AllocRows]
    /\ queue \in Seq(Allocs) /\ Range(queue) = {a \in Allocs : alloc[a].st = "pending"}
    /\ sess \in [Sessions -> SessionRows]
    /\ task \in [Sessions -> [Slots -> TaskRows]]
    /\ rt \in Ticks

(* However starts time out, hosts die, allocations are held back or lost,  *)
(* storage fills up, the relay is withdrawn or the web process restarts:   *)
(* the pool comes to have exactly the Desktops it wants, and keeps them;   *)
(* no allocation is left pending or empty.  ("the pool deadlocks at zero   *)
(* capacity" is what the reaping of silent sessions is there to prevent.)  *)
Settled ==
    /\ Cardinality(InState(sess, {"ready"})) = want
    /\ \A s \in Sessions : sess[s].st \in {"none", "ready"}
    /\ \A s \in InState(sess, {"ready"}) : task[s][sess[s].host].proc = "up"
    /\ \A a \in Allocs : alloc[a].st = "warm" => Counted(sess, a) # {}
    /\ \A a \in Allocs : alloc[a].st \in {"none", "warm"}

Settles == <>[]Settled

(* There is one exception, and the code has it: a job that starts between  *)
(* the plan of a tick and its end is closed as empty by that tick and      *)
(* requested again by the next.  Nothing bounds how often; a pool that     *)
(* does not settle meets it again and again.                               *)
StartsWithinTick == \E a \in Allocs : rt.pc \notin {"idle", "reconcile"} /\ slurm_starts(a)

PoolConverges == Settles \/ []<><<StartsWithinTick>>_vars
=============================================================================
