------------------------ MODULE AllocationPoolProofs ------------------------
(***************************************************************************)
(* Proofs about module AllocationPool, for any number of allocations,      *)
(* tasks, threads and restarts.  The invariant behind the safe close is    *)
(* the lock: whoever is between a check and the write that relies on it    *)
(* holds _task_assignment_lock, and a task is claimed only under it.       *)
(***************************************************************************)
EXTENDS AllocationPool, TLAPS

\* Where a thread holds the lock for certain.
Locked == {"reserve_claim", "close_check", "close_scancel", "close_done", "close_restore"}
Closing == {"close_scancel", "close_done", "close_restore"}

LockHolder == \A p \in Procs : proc[p].pc \in Locked => lock = p

\* A thread at work knows what it works on.
Engaged ==
    \A p \in Procs :
        /\ proc[p].pc # "idle" => proc[p].alloc \in Allocs
        /\ proc[p].pc = "reserve_claim" => proc[p].task \in Tasks

Inv == TypeOK /\ LockHolder /\ Engaged /\ ScancelSparesClaims

\* The variables other than the threads and the lock keep their types.
DataOK ==
    /\ alloc \in [Allocs -> [state : State, free : Int]]
    /\ \A a \in Allocs : alloc[a].free \in 0..Total[a]
    /\ job \in [Allocs -> JobState]
    /\ age \in [Allocs -> {"fresh", "aged", "expired"}]
    /\ claim \in [Tasks -> Allocs \cup {NoAlloc}]
    /\ queued \in SUBSET Tasks
    /\ crashes \in 0..MaxCrashes

LEMMA IdleLocal == Idle \in Local /\ Idle.pc = "idle" /\ ~Idle.force
BY DEF Idle, Local, Pc, State, Accounted, Placeable, Ended, Probe

LEMMA InitInv == Init => Inv
<1> SUFFICES ASSUME Init PROVE Inv
    OBVIOUS
<1> USE Parameters DEF Init
<1>1. TypeOK
  <2>1. proc \in [Procs -> Local]
    BY IdleLocal
  <2>2. alloc \in [Allocs -> [state : State, free : Int]] /\ \A a \in Allocs : alloc[a].free \in 0..Total[a]
    BY DEF State, Accounted, Placeable, Ended
  <2> QED
    BY <2>1, <2>2 DEF TypeOK, JobState, Alive
<1>2. \A p \in Procs : proc[p].pc = "idle"
    BY IdleLocal
<1> QED
    BY <1>1, <1>2 DEF Inv, LockHolder, Locked, Engaged, ScancelSparesClaims

(***************************************************************************)
(* The step of one thread.  It may take the lock when nobody has it, give  *)
(* back only its own, and add a claim only while it holds it.              *)
(***************************************************************************)
LEMMA ThreadStep ==
    ASSUME Inv, NEW p \in Procs, NEW r \in Local,
           proc' = [proc EXCEPT ![p] = r],
           r.pc # "idle" => r.alloc \in Allocs,
           r.pc = "reserve_claim" => r.task \in Tasks,
           lock' \in Procs \cup {NoProc},
           r.pc \in Locked => lock' = p,
           \A q \in Procs : q # p /\ lock = q => lock' = q,
           r.pc \in Closing /\ ~r.force => \A t \in Tasks : claim'[t] # r.alloc,
           \A t \in Tasks : claim'[t] \in {claim[t], NoAlloc} \/ lock = p,
           DataOK'
    PROVE  Inv'
<1>1. proc'[p] = r /\ \A q \in Procs : q # p => proc'[q] = proc[q]
    BY DEF Inv, TypeOK
<1>2. TypeOK'
    BY DEF Inv, TypeOK, DataOK
<1>3. LockHolder'
    BY <1>1 DEF Inv, LockHolder
<1>4. Engaged'
    BY <1>1 DEF Inv, Engaged
<1>5. ScancelSparesClaims'
  <2> SUFFICES ASSUME NEW q \in Procs, proc'[q].pc \in Closing, ~proc'[q].force,
                      NEW t \in Tasks, claim'[t] = proc'[q].alloc
               PROVE FALSE
      BY DEF ScancelSparesClaims, Claims, Closing
  <2>1. CASE q = p
      BY <1>1, <2>1
  <2>2. CASE q # p
    <3>1. lock = q /\ proc[q].alloc \in Allocs
        BY <1>1, <2>2 DEF Inv, LockHolder, Engaged, Locked, Closing
    <3>2. claim[t] # proc[q].alloc
        BY <1>1, <2>2 DEF Inv, ScancelSparesClaims, Claims, Closing
    <3> QED
        BY <1>1, <2>2, <3>1, <3>2, Parameters
  <2> QED
      BY <2>1, <2>2
<1> QED
    BY <1>2, <1>3, <1>4, <1>5 DEF Inv

\* The environment moves and the thread variables stay.
LEMMA EnvironmentStep ==
    ASSUME Inv, UNCHANGED <<proc, lock, claim>>, DataOK'
    PROVE  Inv'
BY DEF Inv, TypeOK, DataOK, LockHolder, Engaged, ScancelSparesClaims, Claims

LEMMA InvData == Inv => DataOK
BY DEF Inv, TypeOK, DataOK

\* Writes to an allocation row.
LEMMA SetStateData ==
    ASSUME DataOK, NEW a \in Allocs, NEW s \in State, SetState(a, s),
           UNCHANGED <<job, age, claim, queued, crashes>>
    PROVE  DataOK'
<1>1. alloc' \in [Allocs -> [state : State, free : Int]]
    BY DEF DataOK, SetState
<1>2. \A b \in Allocs : alloc'[b].free = alloc[b].free
    BY DEF DataOK, SetState
<1> QED
    BY <1>1, <1>2 DEF DataOK

LEMMA LocalType ==
    ASSUME Inv, NEW p \in Procs
    PROVE  /\ proc[p] \in Local
           /\ proc[p].pc \in Pc /\ proc[p].seen \in State /\ proc[p].claims \in SUBSET Tasks
           /\ proc[p].alloc \in Allocs \cup {NoAlloc} /\ proc[p].force \in BOOLEAN
           /\ proc[p].task \in Tasks \cup {NoTask} /\ proc[p].probe \in Probe
BY DEF Inv, TypeOK, Local

\* A thread ends what it was doing and gives the lock back if it has it.
LEMMA ReturnStep ==
    ASSUME Inv, NEW p \in Procs, Return(p), Release(p) \/ UNCHANGED lock,
           \A t \in Tasks : claim'[t] \in {claim[t], NoAlloc}, DataOK'
    PROVE  Inv'
<1>1. lock' \in Procs \cup {NoProc} /\ \A q \in Procs : q # p /\ lock = q => lock' = q
    BY DEF Release, Inv, TypeOK
<1>2. proc' = [proc EXCEPT ![p] = Idle]
    BY DEF Return
<1> HIDE DEF Idle
<1> QED
    BY <1>1, <1>2, ThreadStep, IdleLocal DEF Locked, Closing

\* A thread that was idle starts something that needs no lock.
LEMMA BeginStep ==
    ASSUME Inv, NEW p \in Procs, NEW a \in Allocs, NEW pc \in Pc \ (Locked \cup {"idle"}),
           Begin(p, pc, a), UNCHANGED lock,
           \A t \in Tasks : claim'[t] \in {claim[t], NoAlloc}, DataOK'
    PROVE  Inv'
<1> DEFINE r == [Idle EXCEPT !.pc = pc, !.alloc = a]
<1>1. r \in Local /\ r.pc = pc /\ r.alloc = a
    BY IdleLocal DEF Local, Idle
<1>2. proc' = [proc EXCEPT ![p] = r]
    BY DEF Begin
<1>3. lock' \in Procs \cup {NoProc}
    BY DEF Inv, TypeOK
<1>4. pc \notin Locked /\ pc \notin Closing /\ pc # "reserve_claim"
    BY DEF Locked, Closing
<1> HIDE DEF r
<1> QED
    BY <1>1, <1>2, <1>3, <1>4, ThreadStep

\* A thread moves on without touching the lock or the claims.
LEMMA GotoStep ==
    ASSUME Inv, NEW p \in Procs, proc[p].pc # "idle", NEW r \in Local,
           proc' = [proc EXCEPT ![p] = r],
           r.pc # "reserve_claim", r.alloc = proc[p].alloc,
           r.pc \in Locked => proc[p].pc \in Locked,
           r.pc \in Closing /\ ~r.force => \A t \in Tasks : claim[t] # r.alloc,
           UNCHANGED <<lock, claim>>, DataOK'
    PROVE  Inv'
<1>1. lock' \in Procs \cup {NoProc} /\ r.alloc \in Allocs
    BY DEF Inv, TypeOK, Engaged
<1>2. r.pc \in Locked => lock' = p
    BY DEF Inv, LockHolder
<1> QED
    BY <1>1, <1>2, ThreadStep

-----------------------------------------------------------------------------
(* Placement and the end of claims.                                        *)

LEMMA ReserveCheck ==
    ASSUME Inv, NEW p \in Procs, NEW t \in Tasks, NEW a \in Allocs, reserve_check(p, t, a)
    PROVE  Inv'
<1> DEFINE r == [Idle EXCEPT !.pc = "reserve_claim", !.alloc = a, !.task = t]
<1>1. r \in Local /\ r.pc = "reserve_claim" /\ r.alloc = a /\ r.task = t
    BY IdleLocal DEF Local, Idle, Pc
<1>2. proc' = [proc EXCEPT ![p] = r] /\ lock = NoProc /\ lock' = p
    BY DEF reserve_check
<1>3. UNCHANGED claim /\ DataOK'
    BY InvData DEF reserve_check, taskVars, slurmVars, DataOK
<1>4. r.pc \notin Closing
    BY <1>1 DEF Closing
<1>5. \A q \in Procs : q # p /\ lock = q => lock' = q
    BY <1>2, Parameters
<1> HIDE DEF r
<1> QED
    BY <1>1, <1>2, <1>3, <1>4, <1>5, ThreadStep

LEMMA ReserveClaim ==
    ASSUME Inv, NEW p \in Procs, reserve_claim(p)
    PROVE  Inv'
<1> DEFINE a == proc[p].alloc
           t == proc[p].task
<1>1. proc[p].pc = "reserve_claim" /\ a \in Allocs /\ t \in Tasks /\ lock = p
    BY DEF reserve_claim, At, Inv, Engaged, LockHolder, Locked
<1>2. CASE t \in queued
  <2> DEFINE r == [proc[p] EXCEPT !.pc = "recalc_tasks"]
  <2>1. r \in Local /\ r.pc = "recalc_tasks" /\ r.alloc = a
      BY LocalType DEF Local, Pc
  <2>2. proc' = [proc EXCEPT ![p] = r] /\ UNCHANGED lock
      BY <1>2 DEF reserve_claim, Goto
  <2>3. DataOK'
      BY <1>1, <1>2, InvData DEF reserve_claim, slurmVars, DataOK
  <2>4. r.pc \notin Locked \cup Closing /\ lock' = p
      BY <1>1, <2>1, <2>2 DEF Locked, Closing
  <2> HIDE DEF r
  <2> QED
      BY <1>1, <2>1, <2>2, <2>3, <2>4, ThreadStep
<1>3. CASE t \notin queued
  <2>1. Return(p) /\ Release(p) /\ UNCHANGED <<alloc, taskVars, slurmVars, crashes>>
      BY <1>3 DEF reserve_claim
  <2>2. DataOK' /\ UNCHANGED claim
      BY <2>1, InvData DEF DataOK, taskVars, slurmVars
  <2> QED
      BY <2>1, <2>2, ReturnStep
<1> QED
    BY <1>2, <1>3

LEMMA TaskLeaves ==
    ASSUME Inv, NEW p \in Procs, NEW t \in Tasks, NEW requeued \in BOOLEAN,
           task_leaves(p, t, requeued)
    PROVE  Inv'
<1>1. claim[t] \in Allocs /\ Begin(p, "recalc_tasks", claim[t]) /\ UNCHANGED lock
    BY InvData DEF task_leaves, DataOK
<1>2. \A u \in Tasks : claim'[u] \in {claim[u], NoAlloc}
    BY InvData DEF task_leaves, DataOK
<1>3. DataOK'
  <2>1. claim' \in [Tasks -> Allocs \cup {NoAlloc}]
      BY InvData DEF task_leaves, DataOK
  <2>2. queued' \in SUBSET Tasks
      BY InvData DEF task_leaves, DataOK
  <2> QED
      BY <2>1, <2>2, InvData DEF task_leaves, DataOK, slurmVars
<1>4. "recalc_tasks" \in Pc \ (Locked \cup {"idle"})
    BY DEF Pc, Locked
<1> QED
    BY <1>1, <1>2, <1>3, <1>4, BeginStep

-----------------------------------------------------------------------------
(* Recalculation.                                                          *)

LEMMA FreeInRange ==
    ASSUME NEW a \in Allocs, NEW claims
    PROVE  FreeCpus(a, claims) \in 0..Total[a]
<1> DEFINE x == Total[a] - Reserved(claims)
<1>1. FreeCpus(a, claims) = IF x \in 0..Total[a] THEN x ELSE 0
    BY DEF FreeCpus
<1>2. Total[a] \in Nat
    BY Parameters
<1> HIDE DEF x
<1> QED
    BY <1>1, <1>2

LEMMA RecalcTasks ==
    ASSUME Inv, NEW p \in Procs, recalc_tasks(p)
    PROVE  Inv'
<1> DEFINE r == [proc[p] EXCEPT !.claims = Claims(proc[p].alloc), !.pc = "recalc_rows"]
<1>1. r \in Local /\ r.pc = "recalc_rows" /\ r.alloc = proc[p].alloc
    BY LocalType DEF Local, Pc, Claims
<1>2. proc' = [proc EXCEPT ![p] = r] /\ proc[p].pc # "idle" /\ UNCHANGED <<lock, claim>>
    BY LocalType DEF recalc_tasks, At, taskVars
<1>3. DataOK'
    BY InvData DEF recalc_tasks, taskVars, slurmVars, DataOK
<1>4. r.pc \notin Locked \cup Closing /\ r.pc # "reserve_claim"
    BY <1>1 DEF Locked, Closing
<1> HIDE DEF r
<1> QED
    BY <1>1, <1>2, <1>3, <1>4, GotoStep

LEMMA RecalcRows ==
    ASSUME Inv, NEW p \in Procs, recalc_rows(p)
    PROVE  Inv'
<1> DEFINE s == alloc[proc[p].alloc].state
<1>1. DataOK' /\ UNCHANGED claim
    BY InvData DEF recalc_rows, taskVars, slurmVars, DataOK
<1>2. CASE s \in Accounted
  <2> DEFINE r == [proc[p] EXCEPT !.seen = s, !.pc = "recalc_write"]
  <2>1. r \in Local /\ r.pc = "recalc_write" /\ r.alloc = proc[p].alloc
      BY <1>2, LocalType DEF Local, Pc, State
  <2>2. proc' = [proc EXCEPT ![p] = r] /\ proc[p].pc # "idle" /\ UNCHANGED lock
      BY <1>2, LocalType DEF recalc_rows, At
  <2>3. r.pc \notin Locked \cup Closing /\ r.pc # "reserve_claim"
      BY <2>1 DEF Locked, Closing
  <2> HIDE DEF r
  <2> QED
      BY <1>1, <2>1, <2>2, <2>3, GotoStep
<1>3. CASE s \notin Accounted
    BY <1>1, <1>3, ReturnStep DEF recalc_rows
<1> QED
    BY <1>2, <1>3

LEMMA RecalcWrite ==
    ASSUME Inv, NEW p \in Procs, recalc_write(p)
    PROVE  Inv'
<1> DEFINE w == proc[p]
           s == IF w.seen = "draining" THEN "draining"
                ELSE IF w.claims # {} THEN "active" ELSE "warm"
           f == FreeCpus(w.alloc, w.claims)
<1>1. w.alloc \in Allocs /\ UNCHANGED <<job, age, claim, queued, crashes>>
    BY DEF recalc_write, At, Inv, Engaged, taskVars, slurmVars
<1>2. s \in State
    BY DEF State, Accounted, Placeable
<1>3. f \in 0..Total[w.alloc] /\ f \in Int
    BY <1>1, FreeInRange, Parameters
<1>4. alloc' = [alloc EXCEPT ![w.alloc] = [state |-> s, free |-> f]]
    BY DEF recalc_write
<1> HIDE DEF s, f
<1>5. DataOK'
  <2>1. alloc' \in [Allocs -> [state : State, free : Int]]
      BY <1>1, <1>2, <1>3, <1>4, InvData DEF DataOK
  <2>2. \A b \in Allocs : alloc'[b].free \in 0..Total[b]
      BY <1>1, <1>3, <1>4, InvData DEF DataOK
  <2> QED
      BY <1>1, <2>1, <2>2, InvData DEF DataOK
<1> QED
    BY <1>1, <1>5, ReturnStep DEF recalc_write

-----------------------------------------------------------------------------
(* The duties of the tick.                                                 *)

LEMMA RefreshRead ==
    ASSUME Inv, NEW a \in Allocs, refresh_read(a)
    PROVE  Inv'
<1> DEFINE r == [Idle EXCEPT !.pc = "refresh_probe", !.alloc = a, !.seen = alloc[a].state]
<1>1. r \in Local /\ r.pc = "refresh_probe" /\ r.alloc = a
    BY IdleLocal, InvData DEF Local, Idle, Pc, DataOK
<1>2. proc' = [proc EXCEPT ![Tick] = r] /\ UNCHANGED <<lock, claim>>
    BY DEF refresh_read, taskVars
<1>3. DataOK' /\ lock' \in Procs \cup {NoProc}
    BY InvData DEF refresh_read, taskVars, slurmVars, DataOK, Inv, TypeOK
<1>4. r.pc \notin Locked \cup Closing /\ r.pc # "reserve_claim"
    BY <1>1 DEF Locked, Closing
<1> HIDE DEF r
<1> QED
    BY <1>1, <1>2, <1>3, <1>4, ThreadStep, Parameters

LEMMA RefreshProbe ==
    ASSUME Inv, NEW answer \in Probe, refresh_probe(answer)
    PROVE  Inv'
<1> DEFINE r == [proc[Tick] EXCEPT !.probe = answer, !.pc = "refresh_apply"]
<1>1. r \in Local /\ r.pc = "refresh_apply" /\ r.alloc = proc[Tick].alloc
    BY LocalType, Parameters DEF Local, Pc
<1>2. proc' = [proc EXCEPT ![Tick] = r] /\ proc[Tick].pc # "idle" /\ UNCHANGED <<lock, claim>>
    BY LocalType, Parameters DEF refresh_probe, At, taskVars
<1>3. DataOK'
    BY InvData DEF refresh_probe, taskVars, slurmVars, DataOK
<1>4. r.pc \notin Locked \cup Closing /\ r.pc # "reserve_claim"
    BY <1>1 DEF Locked, Closing
<1> HIDE DEF r
<1> QED
    BY <1>1, <1>2, <1>3, <1>4, GotoStep, Parameters

LEMMA RefreshApply ==
    ASSUME Inv, refresh_apply
    PROVE  Inv'
<1> DEFINE a == proc[Tick].alloc
           s == Refreshed(proc[Tick].seen, proc[Tick].probe)
<1>1. a \in Allocs /\ UNCHANGED <<job, age, claim, queued, crashes, lock>>
    BY Parameters DEF refresh_apply, At, Inv, Engaged, taskVars, slurmVars
<1>2. s \in State \cup {"unchanged"}
    BY DEF Refreshed, State, Accounted, Placeable, Ended
<1>3. (s = "unchanged" /\ UNCHANGED alloc) \/ (s # "unchanged" /\ SetState(a, s))
    BY DEF refresh_apply
<1> HIDE DEF s
<1>4. DataOK'
  <2>1. CASE UNCHANGED alloc
      BY <1>1, <2>1, InvData DEF DataOK
  <2>2. CASE s \in State /\ SetState(a, s)
      BY <1>1, <2>2, InvData, SetStateData
  <2> QED
      BY <1>2, <1>3, <2>1, <2>2
<1>5. Begin(Tick, "recalc_tasks", a) /\ "recalc_tasks" \in Pc \ (Locked \cup {"idle"})
    BY DEF refresh_apply, Pc, Locked
<1> QED
    BY <1>1, <1>4, <1>5, BeginStep, Parameters

LEMMA LifecycleRead ==
    ASSUME Inv, NEW a \in Allocs, lifecycle_read(a)
    PROVE  Inv'
<1>1. UNCHANGED <<lock, claim>> /\ DataOK'
    BY InvData DEF lifecycle_read, taskVars, slurmVars, DataOK
<1>2. \E pc \in Pc \ (Locked \cup {"idle"}) : Begin(Tick, pc, a)
    BY DEF lifecycle_read, Pc, Locked
<1> QED
    BY <1>1, <1>2, BeginStep, Parameters

\* The tick goes on to a step that holds no lock, or is done.
LEMMA TickGoes ==
    ASSUME Inv, NEW pc \in {"drain_count", "close_enter", "fail_tasks"},
           proc[Tick].pc \in {"drain_write", "drain_count", "drained_count"},
           Goto(Tick, pc), DataOK', UNCHANGED <<claim, lock>>
    PROVE  Inv'
<1> DEFINE r == [proc[Tick] EXCEPT !.pc = pc]
<1>1. r \in Local /\ r.pc = pc /\ r.alloc = proc[Tick].alloc
    BY LocalType, Parameters DEF Local, Pc
<1>2. proc' = [proc EXCEPT ![Tick] = r]
    BY DEF Goto
<1>3. r.pc \notin Locked \cup Closing /\ r.pc # "reserve_claim" /\ r.alloc \in Allocs
    BY <1>1, Parameters DEF Locked, Closing, Inv, Engaged
<1> HIDE DEF r
<1> QED
    BY <1>1, <1>2, <1>3, GotoStep, Parameters

LEMMA DrainWrite ==
    ASSUME Inv, drain_write
    PROVE  Inv'
<1>1. /\ proc[Tick].alloc \in Allocs /\ proc[Tick].pc = "drain_write"
      /\ UNCHANGED <<job, age, claim, queued, crashes, lock>>
    BY Parameters DEF drain_write, At, Inv, Engaged, taskVars, slurmVars
<1>2. DataOK'
    BY <1>1, InvData, SetStateData DEF drain_write, State, Accounted
<1> QED
    BY <1>1, <1>2, TickGoes DEF drain_write

LEMMA DrainCount ==
    ASSUME Inv, drain_count
    PROVE  Inv'
<1>1. /\ proc[Tick].pc \in {"drain_count", "drained_count"}
      /\ UNCHANGED <<alloc, job, age, claim, queued, crashes, lock>>
    BY DEF drain_count, taskVars, slurmVars
<1>2. DataOK'
    BY <1>1, InvData DEF DataOK
<1>3. CASE Goto(Tick, "close_enter") \/ Goto(Tick, "fail_tasks")
    BY <1>1, <1>2, <1>3, TickGoes
<1>4. CASE Return(Tick)
    BY <1>1, <1>2, <1>4, ReturnStep, Parameters
<1> QED
    BY <1>3, <1>4 DEF drain_count

-----------------------------------------------------------------------------
(* Closing.                                                                *)

LEMMA FailTasks ==
    ASSUME Inv, NEW p \in Procs, fail_tasks(p)
    PROVE  Inv'
<1> DEFINE r == [proc[p] EXCEPT !.force = TRUE, !.pc = "close_enter"]
<1>1. r \in Local /\ r.pc = "close_enter" /\ r.alloc = proc[p].alloc
    BY LocalType DEF Local, Pc
<1>2. proc' = [proc EXCEPT ![p] = r] /\ r.alloc \in Allocs /\ UNCHANGED lock
    BY <1>1, LocalType DEF fail_tasks, At, Inv, Engaged
<1>3. claim' = [t \in Tasks |-> IF claim[t] = proc[p].alloc THEN NoAlloc ELSE claim[t]]
    BY DEF fail_tasks
<1>4. \A t \in Tasks : claim'[t] \in {claim[t], NoAlloc}
    BY <1>3
<1>5. claim' \in [Tasks -> Allocs \cup {NoAlloc}]
    BY <1>3, InvData DEF DataOK
<1>6. DataOK' /\ lock' \in Procs \cup {NoProc}
    BY <1>2, <1>5, InvData DEF fail_tasks, slurmVars, DataOK, Inv, TypeOK
<1>7. r.pc \notin Locked \cup Closing /\ r.pc # "reserve_claim"
    BY <1>1 DEF Locked, Closing
<1> HIDE DEF r
<1> QED
    BY <1>1, <1>2, <1>4, <1>6, <1>7, ThreadStep

LEMMA CallCloseInv ==
    ASSUME Inv, NEW p \in Procs, CallClose(p)
    PROVE  Inv'
<1>1. PICK a \in Allocs : close_call(p, a) \/ force_close_call(p, a)
    BY DEF CallClose
<1>2. UNCHANGED <<lock, claim>> /\ DataOK'
    BY <1>1, InvData DEF close_call, force_close_call, taskVars, slurmVars, DataOK
<1>3. \E pc \in Pc \ (Locked \cup {"idle"}) : Begin(p, pc, a)
    BY <1>1 DEF close_call, force_close_call, Pc, Locked
<1> QED
    BY <1>2, <1>3, BeginStep

LEMMA CloseEnter ==
    ASSUME Inv, NEW p \in Procs, close_enter(p)
    PROVE  Inv'
<1> DEFINE s == alloc[proc[p].alloc].state
<1>1. UNCHANGED claim /\ DataOK' /\ proc[p].alloc \in Allocs /\ lock = NoProc
    BY InvData DEF close_enter, At, taskVars, slurmVars, DataOK, Inv, Engaged
<1>2. CASE s \in Ended \cup {"closing"}
    BY <1>1, <1>2, ReturnStep DEF close_enter
<1>3. CASE s \notin Ended \cup {"closing"}
  <2> DEFINE r == [proc[p] EXCEPT !.seen = s, !.pc = "close_check"]
  <2>1. s \in State
      BY <1>1, InvData DEF DataOK
  <2>2. r \in Local /\ r.pc = "close_check" /\ r.alloc = proc[p].alloc
      BY <2>1, LocalType DEF Local, Pc
  <2>3. proc' = [proc EXCEPT ![p] = r] /\ lock' = p
      BY <1>3 DEF close_enter
  <2>4. r.pc \notin Closing /\ r.pc # "reserve_claim"
      BY <2>2 DEF Closing
  <2>5. \A q \in Procs : q # p /\ lock = q => lock' = q
      BY <1>1, Parameters
  <2> HIDE DEF r
  <2> QED
      BY <1>1, <2>2, <2>3, <2>4, <2>5, ThreadStep
<1> QED
    BY <1>2, <1>3

LEMMA CloseRefuse ==
    ASSUME Inv, NEW p \in Procs, close_refuse(p)
    PROVE  Inv'
<1>1. proc[p].alloc \in Allocs /\ UNCHANGED <<job, age, claim, queued, crashes>>
    BY DEF close_refuse, At, Inv, Engaged, taskVars, slurmVars
<1>2. UNCHANGED alloc \/ SetState(proc[p].alloc, "active")
    BY DEF close_refuse
<1>3. CASE UNCHANGED alloc
    BY <1>1, <1>3, InvData, ReturnStep DEF DataOK, close_refuse
<1>4. CASE SetState(proc[p].alloc, "active")
  <2>1. DataOK'
      BY <1>1, <1>4, InvData, SetStateData DEF State, Accounted, Placeable
  <2> QED
      BY <1>1, <2>1, ReturnStep DEF close_refuse
<1> QED
    BY <1>2, <1>3, <1>4

LEMMA CloseMark ==
    ASSUME Inv, NEW p \in Procs, close_mark(p)
    PROVE  Inv'
<1> DEFINE r == [proc[p] EXCEPT !.pc = "close_scancel"]
<1>1. proc[p].alloc \in Allocs /\ proc[p].pc = "close_check"
          /\ UNCHANGED <<job, age, claim, queued, crashes, lock>>
    BY DEF close_mark, At, Inv, Engaged, taskVars, slurmVars
<1>2. DataOK'
    BY <1>1, InvData, SetStateData DEF close_mark, State
<1>3. r \in Local /\ r.pc = "close_scancel" /\ r.alloc = proc[p].alloc /\ r.force = proc[p].force
    BY LocalType DEF Local, Pc
<1>4. proc' = [proc EXCEPT ![p] = r]
    BY DEF close_mark, Goto
<1>5. proc[p].force \/ \A t \in Tasks : claim[t] # proc[p].alloc
    BY DEF close_mark, Claims
<1>6. proc[p].pc \in Locked
    BY <1>1 DEF Locked
<1> HIDE DEF r
<1> QED
    BY <1>1, <1>2, <1>3, <1>4, <1>5, <1>6, GotoStep

LEMMA CloseScancel ==
    ASSUME Inv, NEW p \in Procs, close_scancel(p)
    PROVE  Inv'
<1>1. proc[p].alloc \in Allocs /\ proc[p].pc = "close_scancel" /\ UNCHANGED <<alloc, age, claim, queued, crashes, lock>>
    BY DEF close_scancel, At, Inv, Engaged, taskVars
<1>2. job' \in [Allocs -> JobState]
    BY InvData DEF close_scancel, JobState, Alive, DataOK
<1>3. DataOK'
    BY <1>1, <1>2, InvData DEF DataOK
<1>4. PICK pc \in {"close_done", "close_restore"} : Goto(p, pc)
    BY DEF close_scancel
<1> DEFINE r == [proc[p] EXCEPT !.pc = pc]
<1>5. r \in Local /\ r.pc = pc /\ r.alloc = proc[p].alloc /\ r.force = proc[p].force
    BY LocalType DEF Local, Pc
<1>6. proc' = [proc EXCEPT ![p] = r]
    BY <1>4 DEF Goto
<1>7. proc[p].force \/ \A t \in Tasks : claim[t] # proc[p].alloc
    BY <1>1 DEF Inv, ScancelSparesClaims, Claims
<1>8. proc[p].pc \in Locked
    BY <1>1 DEF Locked
<1>9. r.pc # "reserve_claim"
    BY <1>5
<1> HIDE DEF r
<1> QED
    BY <1>1, <1>3, <1>5, <1>6, <1>7, <1>8, <1>9, GotoStep

LEMMA CloseSettle ==
    ASSUME Inv, NEW p \in Procs, close_settle(p)
    PROVE  Inv'
<1>1. proc[p].alloc \in Allocs /\ UNCHANGED <<job, age, claim, queued, crashes>>
    BY DEF close_settle, At, Inv, Engaged, taskVars, slurmVars
<1>2. PICK s \in State : SetState(proc[p].alloc, s)
    BY LocalType DEF close_settle, State, Ended
<1>3. DataOK'
    BY <1>1, <1>2, InvData, SetStateData
<1> QED
    BY <1>1, <1>3, ReturnStep DEF close_settle

-----------------------------------------------------------------------------
(* Slurm, time and the crash.                                              *)

LEMMA EnvironmentInv ==
    ASSUME Inv, NEW a \in Allocs, JobStep(a) \/ JobEnds(a) \/ Ages(a)
    PROVE  Inv'
<1>1. CASE JobStep(a)
  <2>1. job' \in [Allocs -> JobState]
      BY <1>1, InvData DEF JobStep, JobState, Alive, DataOK
  <2> QED
      BY <1>1, <2>1, InvData, EnvironmentStep DEF JobStep, DataOK, taskVars
<1>2. CASE JobEnds(a)
  <2>1. job' \in [Allocs -> JobState]
      BY <1>2, InvData DEF JobEnds, JobState, DataOK
  <2> QED
      BY <1>2, <2>1, InvData, EnvironmentStep DEF JobEnds, DataOK, taskVars
<1>3. CASE Ages(a)
  <2>1. age' \in [Allocs -> {"fresh", "aged", "expired"}]
      BY <1>3, InvData DEF Ages, DataOK
  <2> QED
      BY <1>3, <2>1, InvData, EnvironmentStep DEF Ages, DataOK, taskVars
<1> QED
    BY <1>1, <1>2, <1>3

LEMMA CrashInv ==
    ASSUME Inv, Crash
    PROVE  Inv'
<1>1. proc' = [p \in Procs |-> Idle] /\ lock' = NoProc /\ UNCHANGED <<alloc, job, age, claim, queued>>
    BY DEF Crash, taskVars, slurmVars
<1>2. crashes' \in 0..MaxCrashes
    BY Parameters, InvData DEF Crash, DataOK
<1>3. proc' \in [Procs -> Local] /\ \A p \in Procs : proc'[p].pc = "idle"
    BY <1>1, IdleLocal
<1>4. TypeOK'
    BY <1>1, <1>2, <1>3 DEF Inv, TypeOK
<1> QED
    BY <1>3, <1>4 DEF Inv, LockHolder, Locked, Engaged, ScancelSparesClaims

-----------------------------------------------------------------------------
LEMMA NextInv == Inv /\ [Next]_vars => Inv'
<1> SUFFICES ASSUME Inv, [Next]_vars PROVE Inv'
    OBVIOUS
<1>1. CASE UNCHANGED vars
    BY <1>1, InvData, EnvironmentStep DEF vars, DataOK
<1>2. ASSUME NEW p \in Procs, ReserveStep(p) PROVE Inv'
    BY <1>2, ReserveCheck, ReserveClaim, TaskLeaves DEF ReserveStep
<1>3. ASSUME NEW p \in Procs, RecalcStep(p) PROVE Inv'
    BY <1>3, RecalcTasks, RecalcRows, RecalcWrite DEF RecalcStep
<1>4. ASSUME NEW p \in Procs, CloseStep(p) PROVE Inv'
    BY <1>4, FailTasks, CloseEnter, CloseRefuse, CloseMark, CloseScancel, CloseSettle DEF CloseStep
<1>5. CASE RefreshStep
    BY <1>5, RefreshRead, RefreshProbe, RefreshApply, LifecycleRead, DrainWrite,
       DrainCount DEF RefreshStep
<1> QED
    BY <1>1, <1>2, <1>3, <1>4, <1>5, CallCloseInv, EnvironmentInv, CrashInv DEF Next

\* The inductive invariant: types, the lock discipline of placement and
\* shutdown, and the plain close that spares the claims.
THEOREM Invariance == Spec => []Inv
<1>1. Inv /\ [Next]_vars => Inv'
    BY NextInv
<1> QED
    BY InitInv, <1>1, PTL DEF Spec

\* The rows stay well-formed, and recalculate_allocation_capacity never
\* stores a free capacity outside 0..total, however stale its reads are.
THEOREM TypeCorrect == Spec => []TypeOK
<1>1. Inv => TypeOK
    BY DEF Inv
<1> QED
    BY Invariance, <1>1, PTL

\* close_allocation without force never scancels the job of an allocation
\* that a task owns, and the allocation gets no owner until the close is
\* settled, for any number of threads.
THEOREM PlainCloseSparesClaims == Spec => []ScancelSparesClaims
<1>1. Inv => ScancelSparesClaims
    BY DEF Inv
<1> QED
    BY Invariance, <1>1, PTL
=============================================================================
