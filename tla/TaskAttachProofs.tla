-------------------------- MODULE TaskAttachProofs --------------------------
(***************************************************************************)
(* Proofs about module TaskAttach, for any number of tasks, attempts and   *)
(* restarts.  The inductive invariant says who owns a launched attempt:    *)
(* from the durable launch boundary on, the row carries the attempt's      *)
(* token until the worker is known to be down or its kill was lost.        *)
(***************************************************************************)
EXTENDS TaskAttach, TLAPS

\* The attach thread has passed the launch boundary and is not finished.
Launched == {"launching", "launch_error", "started", "rejected_killed",
             "rejected_alive", "raced"}

\* Attempts are numbered by nextToken; a worker exists only once its thread
\* has made the remote call.
FreshTokens ==
    \A t \in Tasks :
        /\ row[t].token < nextToken[t]
        /\ \A k \in Tokens :
              /\ attach[t][k] = "none" <=> k >= nextToken[t]
              /\ attach[t][k] \in {"none", "reserved", "launching"} => worker[t][k] = "none"
              /\ attach[t][k] = "started" => worker[t][k] # "none"

\* A launch in progress keeps the row: it is still ATTACHING under the same
\* token, or somebody ended the task.
LaunchOwnsRow ==
    \A t \in Tasks : \A k \in Tokens : attach[t][k] \in Launched =>
        /\ row[t].token = k /\ row[t].launched
        /\ row[t].status \in {"attaching", "failed", "cancelled"}

\* A live worker is the one the row names, unless a kill of it was lost.
WorkerIsOwned ==
    \A t \in Tasks : \A k \in Tokens : Live(t, k) =>
        \/ k \in lost[t]
        \/ row[t].token = k /\ row[t].launched /\ row[t].status # "queued"

\* Claims that are held or acknowledged.
ClaimShape ==
    \A t \in Tasks :
        /\ row[t].status \in {"attaching", "running"} => row[t].token \in Tokens
        /\ row[t].status = "attaching" /\ row[t].acked => row[t].held
        /\ row[t].held => /\ row[t].status = "attaching" /\ row[t].token \in Tokens
                          /\ row[t].acked /\ row[t].launched
                          /\ attach[t][row[t].token] = "done"

\* What the tick read is still what the row says, up to a terminal status
\* written by somebody else; a killed victim is down or lost.
TickSnapshot ==
    /\ tick.op = "idle" <=> tick = TickIdle
    /\ tick.op # "idle" =>
          /\ tick.task \in Tasks /\ tick.token \in Tokens
          /\ attach[tick.task][tick.token] = "done"
    /\ tick.op = "probe" => tick.status = "running"
    /\ tick.op \in {"probe", "pressure", "rebalance"} =>
          /\ row[tick.task].token = tick.token
          /\ row[tick.task].status \in {"running"} \cup Terminal
    /\ tick.op \in {"pressure", "rebalance"} =>
          /\ row[tick.task].tries < MaxPressure
          /\ tick.phase = "write" => ~Live(tick.task, tick.token)
                                     \/ tick.token \in lost[tick.task]

Core ==
    /\ FreshTokens
    /\ LaunchOwnsRow
    /\ WorkerIsOwned
    /\ ClaimShape
    /\ RunningNamesItsWorker

Inv == TypeOK /\ Core /\ TickSnapshot

-----------------------------------------------------------------------------
(* The initial state.                                                      *)
LEMMA InitInv == Init => Inv
BY TaskSets, Bounds
   DEF Init, Inv, Core, TypeOK, FreshTokens, LaunchOwnsRow, WorkerIsOwned, ClaimShape,
       RunningNamesItsWorker, TickSnapshot, Row, Tokens, NoToken, Status, Active, Terminal,
       AttachPc, WorkerState, Exited, TickIdle, TickWork, Reap, Cancel, NoReap, NoCancel, Live, Launched

-----------------------------------------------------------------------------
(* What the building blocks of the actions do to the state, point by point. *)

\* A status write changes the status of a row and drops its hold.
LEMMA WithStatusEffect ==
    ASSUME NEW r \in Row, NEW s \in Status
    PROVE  /\ WithStatus(r, s) \in Row
           /\ WithStatus(r, s).status = s /\ ~WithStatus(r, s).held
           /\ WithStatus(r, s).token = r.token /\ WithStatus(r, s).launched = r.launched
           /\ WithStatus(r, s).acked = r.acked /\ WithStatus(r, s).tries = r.tries
BY DEF WithStatus, Row

LEMMA SetStatusEffect ==
    ASSUME TypeOK, NEW t \in Tasks, NEW s \in Status, SetStatus(t, s)
    PROVE  /\ row' \in [Tasks -> Row]
           /\ \A u \in Tasks \ {t} : row'[u] = row[u]
           /\ row'[t].status = s /\ ~row'[t].held
           /\ row'[t].token = row[t].token /\ row'[t].launched = row[t].launched
           /\ row'[t].acked = row[t].acked /\ row'[t].tries = row[t].tries
<1>1. row \in [Tasks -> Row]
  BY DEF TypeOK
<1>2. row' = [row EXCEPT ![t] = WithStatus(row[t], s)]
  BY DEF SetStatus
<1> QED BY <1>1, <1>2, WithStatusEffect

\* A conditional write leaves the row alone or replaces it.
LEMMA IfClaimedEffect ==
    ASSUME TypeOK, NEW t \in Tasks, NEW k \in Tokens, NEW r \in Row, IfClaimed(t, k, r)
    PROVE  /\ row' \in [Tasks -> Row]
           /\ \A u \in Tasks \ {t} : row'[u] = row[u]
           /\ row'[t] = IF OwnsClaim(t, k) THEN r ELSE row[t]
BY DEF TypeOK, IfClaimed

\* Workers only end, and kills are only ever lost.
Fades ==
    /\ \A u \in Tasks, j \in Tokens :
          \/ worker'[u][j] = worker[u][j]
          \/ worker[u][j] = "running" /\ worker'[u][j] \notin {"none", "running"}
    /\ \A u \in Tasks : lost[u] \subseteq lost'[u]

\* A remote cancel ends the worker it is aimed at, or is recorded as lost.
LEMMA CancelEffect ==
    ASSUME TypeOK, NEW t \in Tasks, NEW k \in Tokens, cancel_task(t, k)
    PROVE  /\ worker' \in [Tasks -> [Tokens -> WorkerState]]
           /\ lost' \in [Tasks -> SUBSET Tokens]
           /\ Fades
           /\ worker'[t][k] # "running" \/ k \in lost'[t]
<1>1. /\ worker \in [Tasks -> [Tokens -> WorkerState]]
      /\ lost \in [Tasks -> SUBSET Tokens]
  BY DEF TypeOK
<1>2. PICK reach \in SUBSET Tokens, end \in {"killed", "failed"} :
         /\ worker' = [worker EXCEPT ![t] =
                [j \in Tokens |-> IF worker[t][j] = "running" /\ j \in reach
                                  THEN end ELSE worker[t][j]]]
         /\ lost' = IF worker[t][k] = "running" /\ k \notin reach
                    THEN [lost EXCEPT ![t] = @ \cup {k}] ELSE lost
  BY DEF cancel_task
<1>3. end \in WorkerState
  BY DEF WorkerState, Exited
<1>4. worker' \in [Tasks -> [Tokens -> WorkerState]]
  BY <1>1, <1>2, <1>3
<1>5. /\ \A u \in Tasks \ {t} : worker'[u] = worker[u]
      /\ \A j \in Tokens : worker'[t][j] = IF worker[t][j] = "running" /\ j \in reach
                                           THEN end ELSE worker[t][j]
  BY <1>1, <1>2
<1>6. /\ lost' \in [Tasks -> SUBSET Tokens]
      /\ \A u \in Tasks : lost[u] \subseteq lost'[u]
      /\ worker[t][k] = "running" /\ k \notin reach => k \in lost'[t]
  BY <1>1, <1>2
<1> QED BY <1>4, <1>5, <1>6 DEF Fades

\* One thread moves to another program counter.
LEMMA AttachEffect ==
    ASSUME TypeOK, NEW t \in Tasks, NEW k \in Tokens, NEW pc \in AttachPc,
           AttachGoto(t, k, pc)
    PROVE  /\ attach' \in [Tasks -> [Tokens -> AttachPc]]
           /\ attach'[t][k] = pc
           /\ \A u \in Tasks, j \in Tokens :
                 u # t \/ j # k => attach'[u][j] = attach[u][j]
BY DEF TypeOK, AttachGoto

-----------------------------------------------------------------------------
(* Most actions only wind the state down: they end a row, a worker or a    *)
(* thread and start nothing.                                               *)
WindDown(t) ==
    /\ nextToken' = nextToken
    /\ \A u \in Tasks \ {t} : row'[u] = row[u]
    /\ \/ row'[t] = row[t]
       \/ /\ row'[t].status \in Terminal /\ ~row'[t].held
          /\ row'[t].token = row[t].token /\ row'[t].launched = row[t].launched
          /\ row'[t].status = "completed" => attach[t][row[t].token] = "done"
    /\ Fades
    /\ \A u \in Tasks, j \in Tokens :
          \/ attach'[u][j] = attach[u][j]
          \/ attach[u][j] # "none" /\ attach'[u][j] = "done"
          \/ /\ attach[u][j] = "started"
             /\ attach'[u][j] \in {"rejected_killed", "rejected_alive", "raced"}

LEMMA WindDownCore ==
    ASSUME Core, NEW t \in Tasks, WindDown(t)
    PROVE  Core'
<1> USE DEF Core
<1>1. FreshTokens'
  BY DEF WindDown, Fades, FreshTokens
<1>2. LaunchOwnsRow'
  BY DEF WindDown, LaunchOwnsRow, Launched, Terminal
<1>3. WorkerIsOwned'
  BY DEF WindDown, Fades, WorkerIsOwned, Live, Terminal
<1>4. ClaimShape'
  BY DEF WindDown, ClaimShape, Terminal
<1>5. RunningNamesItsWorker'
  BY DEF WindDown, Fades, RunningNamesItsWorker, Terminal
<1> QED BY <1>1, <1>2, <1>3, <1>4, <1>5

LEMMA WindDownTick ==
    ASSUME TypeOK, TickSnapshot, NEW t \in Tasks, WindDown(t),
           \/ tick' = TickIdle
           \/ tick' = tick /\ row'[t].tries = row[t].tries
    PROVE  TickSnapshot'
<1>1. CASE tick' = TickIdle
  BY <1>1 DEF TickSnapshot, TickIdle
<1>2. CASE tick' = tick /\ row'[t].tries = row[t].tries
  BY <1>2 DEF TickSnapshot, WindDown, Fades, Live
<1> QED BY <1>1, <1>2

-----------------------------------------------------------------------------
(* Actions that wind down.                                                 *)

\* The pieces of a winding-down action that TypeOK and the two lemmas need.
LEMMA WindDownInv ==
    ASSUME Inv, NEW t \in Tasks, WindDown(t),
           row' \in [Tasks -> Row],
           attach' \in [Tasks -> [Tokens -> AttachPc]],
           worker' \in [Tasks -> [Tokens -> WorkerState]],
           lost' \in [Tasks -> SUBSET Tokens],
           \/ tick' = TickIdle
           \/ tick' = tick /\ row'[t].tries = row[t].tries,
           reaper' \in [Tasks -> Reap],
           canceller' \in [Tasks -> Cancel],
           condemned' \in SUBSET Tasks, restarts' = restarts
    PROVE  Inv'
<1>1. TypeOK /\ Core /\ TickSnapshot
  BY DEF Inv
<1>2. Core'
  BY <1>1, WindDownCore
<1>3. TickSnapshot'
  BY <1>1, WindDownTick
<1>4. tick' \in TickWork
  BY <1>1 DEF TypeOK, TickIdle, TickWork, Status, NoToken
<1>5. \A u \in Tasks : row'[u].status \notin Terminal => row'[u].tries < MaxPressure
  BY <1>1 DEF TypeOK, WindDown
<1>6. TypeOK'
  BY <1>1, <1>4, <1>5 DEF TypeOK, WindDown
<1> QED BY <1>2, <1>3, <1>6 DEF Inv


\* A thread that ends by declaring its own claim FAILED.
LEMMA ThreadFails ==
    ASSUME Inv, NEW t \in Tasks, NEW k \in Tokens, NEW r \in Row,
           attach[t][k] # "none",
           r.status = "failed", ~r.held, r.token = row[t].token,
           r.launched = row[t].launched, r.tries = row[t].tries,
           IfClaimed(t, k, r), AttachGoto(t, k, "done"),
           UNCHANGED <<nextToken, worker, tick, reaper, canceller, condemned, lost, restarts>>
    PROVE  Inv'
<1>1. TypeOK /\ "done" \in AttachPc
  BY DEF Inv, AttachPc
<1>2. /\ row' \in [Tasks -> Row]
      /\ \A u \in Tasks \ {t} : row'[u] = row[u]
      /\ row'[t] = IF OwnsClaim(t, k) THEN r ELSE row[t]
  BY <1>1, IfClaimedEffect
<1>3. /\ attach' \in [Tasks -> [Tokens -> AttachPc]] /\ attach'[t][k] = "done"
      /\ \A u \in Tasks, j \in Tokens : u # t \/ j # k => attach'[u][j] = attach[u][j]
  BY <1>1, AttachEffect
<1>4. WindDown(t) /\ row'[t].tries = row[t].tries
  BY <1>1, <1>2, <1>3 DEF WindDown, Fades, Terminal
<1> QED BY <1>1, <1>2, <1>3, <1>4, WindDownInv DEF TypeOK

\* A remote cancel that leaves the rows alone.
LEMMA RemoteCancel ==
    ASSUME Inv, NEW t \in Tasks, NEW k \in Tokens, cancel_task(t, k),
           attach' \in [Tasks -> [Tokens -> AttachPc]],
           \A u \in Tasks, j \in Tokens :
              \/ attach'[u][j] = attach[u][j]
              \/ attach[u][j] # "none" /\ attach'[u][j] = "done"
              \/ /\ attach[u][j] = "started"
                 /\ attach'[u][j] \in {"rejected_killed", "rejected_alive", "raced"},
           reaper' \in [Tasks -> Reap],
           canceller' \in [Tasks -> Cancel],
           tick' = tick \/ tick' = TickIdle,
           UNCHANGED <<row, nextToken, condemned, restarts>>
    PROVE  Inv'
<1>1. TypeOK
  BY DEF Inv
<1>2. /\ worker' \in [Tasks -> [Tokens -> WorkerState]]
      /\ lost' \in [Tasks -> SUBSET Tokens]
      /\ Fades
  BY <1>1, CancelEffect
<1>3. WindDown(t)
  BY <1>2 DEF WindDown
<1> QED BY <1>1, <1>2, <1>3, WindDownInv DEF TypeOK

\* A status write to a terminal status.
LEMMA RowEnds ==
    ASSUME Inv, NEW t \in Tasks, NEW s \in Terminal, SetStatus(t, s),
           tick' = tick \/ tick' = TickIdle,
           reaper' \in [Tasks -> Reap],
           canceller' \in [Tasks -> Cancel],
           condemned' \in SUBSET Tasks,
           UNCHANGED <<nextToken, attach, worker, lost, restarts>>,
           s = "completed" => attach[t][row[t].token] = "done"
    PROVE  Inv'
<1>1. TypeOK /\ s \in Status
  BY DEF Inv, Status
<1>2. /\ row' \in [Tasks -> Row]
      /\ \A u \in Tasks \ {t} : row'[u] = row[u]
      /\ row'[t].status = s /\ ~row'[t].held
      /\ row'[t].token = row[t].token /\ row'[t].launched = row[t].launched
      /\ row'[t].tries = row[t].tries
  BY <1>1, SetStatusEffect
<1>3. WindDown(t)
  BY <1>2 DEF WindDown, Fades
<1> QED BY <1>1, <1>2, <1>3, WindDownInv DEF TypeOK

\* Only bookkeeping outside the core changes.
LEMMA Bookkeeping ==
    ASSUME Inv,
           reaper' \in [Tasks -> Reap],
           canceller' \in [Tasks -> Cancel],
           condemned' \in SUBSET Tasks,
           tick' = tick \/ tick' = TickIdle,
           UNCHANGED <<row, nextToken, attach, worker, lost, restarts>>
    PROVE  Inv'
<1>1. CASE Tasks = {}
  BY <1>1 DEF Inv, Core, TypeOK, FreshTokens, LaunchOwnsRow, WorkerIsOwned, ClaimShape,
              RunningNamesItsWorker, TickSnapshot, TickIdle, TickWork, NoToken, Status
<1>2. ASSUME NEW t \in Tasks PROVE Inv'
  <2>1. WindDown(t)
    BY DEF WindDown, Fades
  <2> QED BY <2>1, WindDownInv DEF Inv, TypeOK
<1> QED BY <1>1, <1>2

-----------------------------------------------------------------------------
(* The attach thread.                                                      *)

\* The thread cancels the worker it started and moves on.
LEMMA CancelsItsWorker ==
    ASSUME Inv, NEW t \in Tasks, NEW k \in Tokens,
           NEW pc \in AttachPc, cancel_task(t, k), AttachGoto(t, k, pc),
           \/ attach[t][k] = "started" /\ pc \in {"rejected_killed", "rejected_alive"}
           \/ attach[t][k] = "raced" /\ pc = "done",
           UNCHANGED <<row, nextToken, tick, reaper, canceller, condemned, restarts>>
    PROVE  Inv'
<1>1. TypeOK
  BY DEF Inv
<1>2. /\ attach' \in [Tasks -> [Tokens -> AttachPc]] /\ attach'[t][k] = pc
      /\ \A u \in Tasks, j \in Tokens : u # t \/ j # k => attach'[u][j] = attach[u][j]
  BY <1>1, AttachEffect
<1>3. \A u \in Tasks, j \in Tokens :
         \/ attach'[u][j] = attach[u][j]
         \/ attach[u][j] # "none" /\ attach'[u][j] = "done"
         \/ /\ attach[u][j] = "started"
            /\ attach'[u][j] \in {"rejected_killed", "rejected_alive", "raced"}
  BY <1>2
<1>4. reaper' \in [Tasks -> Reap] /\ canceller' \in [Tasks -> Cancel]
  BY <1>1 DEF TypeOK
<1> QED BY <1>2, <1>3, <1>4, RemoteCancel

LEMMA AttachWindsDown ==
    ASSUME Inv, NEW t \in Tasks, NEW k \in Tokens,
           \/ strict_reject_before_launch(t, k) \/ attach_failed(t, k)
           \/ cancel_raced_attach(t, k) \/ strict_reject_after_launch(t, k)
           \/ attach[t][k] = "rejected_killed" /\ settle_strict_rejection(t, k)
    PROVE  Inv'
<1> DEFINE f == WithStatus(row[t], "failed")
<1>1. TypeOK /\ row[t] \in Row /\ "failed" \in Status
  BY DEF Inv, TypeOK, Status, Terminal
<1>2. /\ f \in Row /\ f.status = "failed" /\ ~f.held /\ f.token = row[t].token
      /\ f.launched = row[t].launched /\ f.tries = row[t].tries
  BY <1>1, WithStatusEffect
<1>3. CASE strict_reject_before_launch(t, k) \/ attach_failed(t, k)
  <2>1. /\ attach[t][k] # "none" /\ IfClaimed(t, k, f) /\ AttachGoto(t, k, "done")
        /\ UNCHANGED <<nextToken, worker, tick, reaper, canceller, condemned, lost, restarts>>
    BY <1>3 DEF strict_reject_before_launch, attach_failed, webVars, history
  <2> HIDE DEF f
  <2> QED BY <1>2, <2>1, ThreadFails
<1>4. CASE attach[t][k] = "rejected_killed" /\ settle_strict_rejection(t, k)
  <2> DEFINE g == [f EXCEPT !.acked = TRUE]
  <2>1. /\ attach[t][k] # "none" /\ IfClaimed(t, k, g) /\ AttachGoto(t, k, "done")
        /\ UNCHANGED <<nextToken, worker, tick, reaper, canceller, condemned, lost, restarts>>
    BY <1>4 DEF settle_strict_rejection, webVars, history
  <2> HIDE DEF f
  <2>2. /\ g \in Row /\ g.status = "failed" /\ ~g.held /\ g.token = row[t].token
        /\ g.launched = row[t].launched /\ g.tries = row[t].tries
    BY <1>2 DEF Row
  <2> HIDE DEF g
  <2> QED BY <2>1, <2>2, ThreadFails
<1>5. CASE cancel_raced_attach(t, k)
  <2>1. cancel_task(t, k)
    BY <1>5 DEF cancel_raced_attach
  <2> QED BY <1>5, <2>1, CancelsItsWorker DEF cancel_raced_attach, webVars, AttachPc
<1>6. CASE strict_reject_after_launch(t, k)
  <2>1. PICK ok \in BOOLEAN :
           AttachGoto(t, k, IF ok THEN "rejected_killed" ELSE "rejected_alive")
    BY <1>6 DEF strict_reject_after_launch
  <2>2. attach[t][k] = "started" /\ cancel_task(t, k)
    BY <1>6, <2>1 DEF strict_reject_after_launch
  <2>3. UNCHANGED <<row, nextToken, tick, reaper, canceller, condemned, restarts>>
    BY <1>6 DEF strict_reject_after_launch, webVars
  <2>4. CASE ok
    <3>1. AttachGoto(t, k, "rejected_killed")
      BY <2>1, <2>4 DEF AttachGoto
    <3> QED BY <2>2, <2>3, <3>1, CancelsItsWorker DEF AttachPc
  <2>5. CASE ~ok
    <3>1. AttachGoto(t, k, "rejected_alive")
      BY <2>1, <2>5 DEF AttachGoto
    <3> QED BY <2>2, <2>3, <3>1, CancelsItsWorker DEF AttachPc
  <2> QED BY <2>4, <2>5
<1> QED BY <1>3, <1>4, <1>5, <1>6

\* Moves that take the row further: a launch is marked, made, acknowledged
\* or, after a failed cancellation, held.
LEMMA MarkLaunchStep ==
    ASSUME Inv, NEW t \in Tasks, NEW k \in Tokens, mark_launch_started(t, k)
    PROVE  Inv'
<1>1. TypeOK /\ Core /\ TickSnapshot /\ row[t] \in Row
  BY DEF Inv, TypeOK
<1>2. /\ attach[t][k] = "reserved"
      /\ UNCHANGED <<nextToken, worker, tick, reaper, canceller, condemned, lost, restarts>>
  BY DEF mark_launch_started, webVars, history
<1>3. CASE OwnsClaim(t, k) /\ ~row[t].launched
  <2> DEFINE r == [row[t] EXCEPT !.launched = TRUE]
  <2>1. row' = [row EXCEPT ![t] = r] /\ AttachGoto(t, k, "launching")
    BY <1>3 DEF mark_launch_started
  <2>2. /\ r \in Row /\ r.launched /\ r.status = row[t].status /\ r.token = row[t].token
        /\ r.acked = row[t].acked /\ r.held = row[t].held /\ r.tries = row[t].tries
    BY <1>1 DEF Row
  <2> HIDE DEF r
  <2>3. row' \in [Tasks -> Row] /\ row'[t] = r /\ \A u \in Tasks \ {t} : row'[u] = row[u]
    BY <1>1, <2>1, <2>2 DEF TypeOK
  <2>4. /\ attach' \in [Tasks -> [Tokens -> AttachPc]] /\ attach'[t][k] = "launching"
        /\ \A u \in Tasks, j \in Tokens : u # t \/ j # k => attach'[u][j] = attach[u][j]
    BY <1>1, <2>1, AttachEffect DEF AttachPc
  <2>5. TypeOK'
    BY <1>1, <1>2, <2>2, <2>3, <2>4 DEF TypeOK
  <2>6. Core'
    <3>1. FreshTokens'
      BY <1>1, <1>2, <2>2, <2>3, <2>4 DEF Core, FreshTokens
    <3>2. LaunchOwnsRow'
      BY <1>1, <1>2, <1>3, <2>2, <2>3, <2>4 DEF Core, LaunchOwnsRow, OwnsClaim, Launched
    <3>3. WorkerIsOwned'
      BY <1>1, <1>2, <2>2, <2>3, <2>4 DEF Core, WorkerIsOwned, Live
    <3>4. ClaimShape'
      BY <1>1, <1>2, <2>2, <2>3, <2>4 DEF Core, ClaimShape
    <3>5. RunningNamesItsWorker'
      BY <1>1, <1>2, <2>2, <2>3, <2>4 DEF Core, RunningNamesItsWorker
    <3> QED BY <3>1, <3>2, <3>3, <3>4, <3>5 DEF Core
  <2>7. TickSnapshot'
    BY <1>1, <1>2, <2>2, <2>3, <2>4 DEF TickSnapshot, Live
  <2> QED BY <2>5, <2>6, <2>7 DEF Inv
<1>4. CASE ~(OwnsClaim(t, k) /\ ~row[t].launched)
  <2>1. row' = row /\ AttachGoto(t, k, "done")
    BY <1>4 DEF mark_launch_started
  <2>2. /\ attach' \in [Tasks -> [Tokens -> AttachPc]] /\ attach'[t][k] = "done"
        /\ \A u \in Tasks, j \in Tokens : u # t \/ j # k => attach'[u][j] = attach[u][j]
    BY <1>1, <2>1, AttachEffect DEF AttachPc
  <2>3. WindDown(t)
    BY <1>2, <2>1, <2>2 DEF WindDown, Fades
  <2> QED BY <1>1, <1>2, <2>1, <2>2, <2>3, WindDownInv DEF TypeOK
<1> QED BY <1>3, <1>4

LEMMA LaunchStep ==
    ASSUME Inv, NEW t \in Tasks, NEW k \in Tokens, attach_task(t, k)
    PROVE  Inv'
<1>1. TypeOK /\ Core /\ TickSnapshot
  BY DEF Inv
<1>2. PICK starts \in BOOLEAN, raises \in BOOLEAN :
         /\ starts \/ raises
         /\ worker' = IF starts THEN [worker EXCEPT ![t][k] = "running"] ELSE worker
         /\ lost' = IF starts /\ raises THEN [lost EXCEPT ![t] = @ \cup {k}] ELSE lost
         /\ attach' = [attach EXCEPT ![t][k] = IF raises THEN "launch_error" ELSE "started"]
  BY DEF attach_task, AttachGoto
<1>3. /\ attach[t][k] = "launching"
      /\ UNCHANGED <<row, nextToken, tick, reaper, canceller, condemned, restarts>>
  BY DEF attach_task, webVars
<1>4. /\ worker \in [Tasks -> [Tokens -> WorkerState]]
      /\ attach \in [Tasks -> [Tokens -> AttachPc]]
      /\ lost \in [Tasks -> SUBSET Tokens]
      /\ "running" \in WorkerState /\ {"launch_error", "started"} \subseteq AttachPc
  BY <1>1 DEF TypeOK, WorkerState, AttachPc
<1>5. /\ worker' \in [Tasks -> [Tokens -> WorkerState]]
      /\ worker'[t][k] = IF starts THEN "running" ELSE worker[t][k]
      /\ \A u \in Tasks, j \in Tokens : u # t \/ j # k => worker'[u][j] = worker[u][j]
  <2>1. CASE starts
    BY <1>2, <1>4, <2>1
  <2>2. CASE ~starts
    BY <1>2, <1>4, <2>2
  <2> QED BY <2>1, <2>2
<1>6. /\ attach' \in [Tasks -> [Tokens -> AttachPc]]
      /\ attach'[t][k] \in {"launch_error", "started"}
      /\ attach'[t][k] = "started" => starts
      /\ \A u \in Tasks, j \in Tokens : u # t \/ j # k => attach'[u][j] = attach[u][j]
  <2>1. CASE raises
    BY <1>2, <1>4, <2>1
  <2>2. CASE ~raises
    BY <1>2, <1>4, <2>2
  <2> QED BY <2>1, <2>2
<1>7. /\ lost' \in [Tasks -> SUBSET Tokens]
      /\ \A u \in Tasks : lost[u] \subseteq lost'[u]
  BY <1>2, <1>4
<1>8. TypeOK'
  BY <1>1, <1>3, <1>5, <1>6, <1>7 DEF TypeOK
<1>9. Core'
  <2>1. FreshTokens'
    BY <1>1, <1>3, <1>5, <1>6 DEF Core, FreshTokens
  <2>2. LaunchOwnsRow'
    BY <1>1, <1>3, <1>6 DEF Core, LaunchOwnsRow, Launched
  <2>3. WorkerIsOwned'
    BY <1>1, <1>3, <1>5, <1>7 DEF Core, WorkerIsOwned, LaunchOwnsRow, Launched, Live, Terminal
  <2>4. ClaimShape'
    BY <1>1, <1>3, <1>6 DEF Core, ClaimShape
  <2>5. RunningNamesItsWorker'
    BY <1>1, <1>3, <1>5, <1>6 DEF Core, RunningNamesItsWorker
  <2> QED BY <2>1, <2>2, <2>3, <2>4, <2>5 DEF Core
<1>10. TickSnapshot'
  BY <1>1, <1>3, <1>5, <1>6, <1>7 DEF TickSnapshot, Live
<1> QED BY <1>8, <1>9, <1>10 DEF Inv

LEMMA CompleteStep ==
    ASSUME Inv, NEW t \in Tasks, NEW k \in Tokens, complete_attach(t, k)
    PROVE  Inv'
<1>1. TypeOK /\ Core /\ TickSnapshot /\ row[t] \in Row
  BY DEF Inv, TypeOK
<1>2. /\ attach[t][k] = "started"
      /\ UNCHANGED <<nextToken, worker, tick, reaper, canceller, condemned, lost, restarts>>
  BY DEF complete_attach, webVars, history
<1>3. CASE OwnsClaim(t, k)
  <2> DEFINE f == WithStatus(row[t], "running")
             r == [f EXCEPT !.acked = TRUE]
  <2>1. row' = [row EXCEPT ![t] = r] /\ AttachGoto(t, k, "done")
    BY <1>3 DEF complete_attach
  <2>2. /\ f \in Row /\ f.status = "running" /\ ~f.held /\ f.token = row[t].token
        /\ f.launched = row[t].launched /\ f.tries = row[t].tries
    BY <1>1, WithStatusEffect DEF Status, Active
  <2> HIDE DEF f
  <2>3. /\ r \in Row /\ r.status = "running" /\ ~r.held /\ r.token = row[t].token
        /\ r.launched = row[t].launched /\ r.tries = row[t].tries /\ r.acked
    BY <2>2 DEF Row
  <2> HIDE DEF r
  <2>4. row' \in [Tasks -> Row] /\ row'[t] = r /\ \A u \in Tasks \ {t} : row'[u] = row[u]
    BY <1>1, <2>1, <2>3 DEF TypeOK
  <2>5. /\ attach' \in [Tasks -> [Tokens -> AttachPc]] /\ attach'[t][k] = "done"
        /\ \A u \in Tasks, j \in Tokens : u # t \/ j # k => attach'[u][j] = attach[u][j]
    BY <1>1, <2>1, AttachEffect DEF AttachPc
  <2>6. /\ row[t].token = k /\ row[t].launched /\ row[t].status = "attaching"
        /\ worker[t][k] # "none" /\ row[t].tries < MaxPressure
    BY <1>1, <1>2, <1>3 DEF OwnsClaim, Core, LaunchOwnsRow, Launched, FreshTokens, TypeOK,
                            Terminal
  <2>7. TypeOK'
    BY <1>1, <1>2, <2>3, <2>4, <2>5, <2>6 DEF TypeOK
  <2>8. Core'
    <3>1. FreshTokens'
      BY <1>1, <1>2, <2>3, <2>4, <2>5 DEF Core, FreshTokens
    <3>2. LaunchOwnsRow'
      BY <1>1, <1>2, <2>3, <2>4, <2>5, <2>6 DEF Core, LaunchOwnsRow, Launched
    <3>3. WorkerIsOwned'
      BY <1>1, <1>2, <2>3, <2>4, <2>5 DEF Core, WorkerIsOwned, Live
    <3>4. ClaimShape'
      BY <1>1, <1>2, <2>3, <2>4, <2>5, <2>6 DEF Core, ClaimShape
    <3>5. RunningNamesItsWorker'
      <4>1. ASSUME NEW u \in Tasks, row'[u].status = "running", u # t
            PROVE  /\ row'[u].token \in Tokens /\ row'[u].acked /\ row'[u].launched
                   /\ worker'[u][row'[u].token] # "none"
                   /\ attach'[u][row'[u].token] = "done"
        BY <1>1, <1>2, <2>4, <2>5, <4>1 DEF Core, RunningNamesItsWorker
      <4>2. /\ row'[t].token \in Tokens /\ row'[t].acked /\ row'[t].launched
            /\ worker'[t][row'[t].token] # "none"
            /\ attach'[t][row'[t].token] = "done"
        BY <1>2, <2>3, <2>4, <2>5, <2>6
      <4> QED BY <4>1, <4>2 DEF RunningNamesItsWorker
    <3> QED BY <3>1, <3>2, <3>3, <3>4, <3>5 DEF Core
  <2>9. TickSnapshot'
    BY <1>1, <1>2, <2>3, <2>4, <2>5, <2>6 DEF TickSnapshot, Live
  <2> QED BY <2>7, <2>8, <2>9 DEF Inv
<1>4. CASE ~OwnsClaim(t, k)
  <2>1. row' = row /\ AttachGoto(t, k, "raced")
    BY <1>4 DEF complete_attach
  <2>2. /\ attach' \in [Tasks -> [Tokens -> AttachPc]] /\ attach'[t][k] = "raced"
        /\ \A u \in Tasks, j \in Tokens : u # t \/ j # k => attach'[u][j] = attach[u][j]
    BY <1>1, <2>1, AttachEffect DEF AttachPc
  <2>3. WindDown(t)
    BY <1>2, <2>1, <2>2 DEF WindDown, Fades
  <2> QED BY <1>1, <1>2, <2>1, <2>2, <2>3, WindDownInv DEF TypeOK
<1> QED BY <1>3, <1>4

LEMMA HoldStep ==
    ASSUME Inv, NEW t \in Tasks, NEW k \in Tokens, attach[t][k] = "rejected_alive",
           settle_strict_rejection(t, k)
    PROVE  Inv'
<1> DEFINE r == [row[t] EXCEPT !.held = TRUE, !.acked = TRUE]
<1>1. TypeOK /\ Core /\ TickSnapshot /\ row[t] \in Row
  BY DEF Inv, TypeOK
<1>2. /\ IfClaimed(t, k, r) /\ AttachGoto(t, k, "done")
      /\ UNCHANGED <<nextToken, worker, tick, reaper, canceller, condemned, lost, restarts>>
  BY DEF settle_strict_rejection, webVars, history
<1>3. /\ r \in Row /\ r.status = row[t].status /\ r.held /\ r.token = row[t].token
      /\ r.launched = row[t].launched /\ r.tries = row[t].tries /\ r.acked
  BY <1>1 DEF Row
<1> HIDE DEF r
<1>4. /\ row' \in [Tasks -> Row] /\ \A u \in Tasks \ {t} : row'[u] = row[u]
      /\ row'[t] = IF OwnsClaim(t, k) THEN r ELSE row[t]
  BY <1>1, <1>2, <1>3, IfClaimedEffect
<1>5. /\ attach' \in [Tasks -> [Tokens -> AttachPc]] /\ attach'[t][k] = "done"
      /\ \A u \in Tasks, j \in Tokens : u # t \/ j # k => attach'[u][j] = attach[u][j]
  BY <1>1, <1>2, AttachEffect DEF AttachPc
<1>6. row[t].token = k /\ row[t].launched
  BY <1>1 DEF Core, LaunchOwnsRow, Launched
<1>7. TypeOK'
  BY <1>1, <1>2, <1>3, <1>4, <1>5 DEF TypeOK
<1>8. Core'
  <2>0. row'[t].token = row[t].token
    BY <1>3, <1>4
  <2>1. FreshTokens'
    BY <1>1, <1>2, <1>4, <1>5, <2>0 DEF Core, FreshTokens
  <2>2. LaunchOwnsRow'
    BY <1>1, <1>2, <1>3, <1>4, <1>5 DEF Core, LaunchOwnsRow, Launched
  <2>3. WorkerIsOwned'
    BY <1>1, <1>2, <1>3, <1>4 DEF Core, WorkerIsOwned, Live
  <2>4. ClaimShape'
    <3>1. CASE OwnsClaim(t, k)
      <4>1. row'[t] = r /\ row[t].status = "attaching"
        BY <1>4, <3>1 DEF OwnsClaim
      <4>2. row'[t].held /\ row'[t].status = "attaching" /\ row'[t].token = k
            /\ row'[t].acked /\ row'[t].launched
        BY <1>3, <1>6, <4>1
      <4>3. \A u \in Tasks \ {t} : row'[u] = row[u] /\ attach'[u] = attach[u]
        BY <1>1, <1>2, <1>4 DEF TypeOK, AttachGoto
      <4>4. ASSUME NEW u \in Tasks, u # t
            PROVE  /\ row'[u].status \in {"attaching", "running"} => row'[u].token \in Tokens
                   /\ row'[u].status = "attaching" /\ row'[u].acked => row'[u].held
                   /\ row'[u].held => /\ row'[u].status = "attaching"
                                      /\ row'[u].token \in Tokens
                                      /\ row'[u].acked /\ row'[u].launched
                                      /\ attach'[u][row'[u].token] = "done"
        BY <1>1, <4>3, <4>4 DEF Core, ClaimShape
      <4> QED BY <1>5, <4>2, <4>4 DEF ClaimShape
    <3>2. CASE ~OwnsClaim(t, k)
      <4>1. \A u \in Tasks : row'[u] = row[u]
        BY <1>4, <3>2
      <4> QED BY <1>1, <1>5, <4>1 DEF Core, ClaimShape
    <3> QED BY <3>1, <3>2
  <2>5. RunningNamesItsWorker'
    BY <1>1, <1>2, <1>3, <1>4, <1>5 DEF Core, RunningNamesItsWorker, OwnsClaim
  <2> QED BY <2>1, <2>2, <2>3, <2>4, <2>5 DEF Core
<1>9. TickSnapshot'
  BY <1>1, <1>2, <1>3, <1>4, <1>5 DEF TickSnapshot, Live
<1> QED BY <1>7, <1>8, <1>9 DEF Inv

LEMMA AttachStepInv ==
    ASSUME Inv, NEW t \in Tasks, NEW k \in Tokens, AttachStep(t, k)
    PROVE  Inv'
<1>1. CASE settle_strict_rejection(t, k)
  <2>1. attach[t][k] \in {"rejected_killed", "rejected_alive"}
    BY <1>1 DEF settle_strict_rejection
  <2> QED BY <1>1, <2>1, AttachWindsDown, HoldStep
<1> QED BY <1>1, AttachWindsDown, MarkLaunchStep, LaunchStep, CompleteStep DEF AttachStep

-----------------------------------------------------------------------------
(* Assignment.                                                             *)
LEMMA ReserveStep ==
    ASSUME Inv, NEW t \in Tasks, reserve_task_on_allocation(t)
    PROVE  Inv'
<1> DEFINE n == nextToken[t]
           r == [row[t] EXCEPT !.status = "attaching", !.token = n, !.launched = FALSE,
                               !.acked = FALSE, !.held = FALSE]
<1>1. TypeOK /\ Core /\ TickSnapshot /\ row[t] \in Row
  BY DEF Inv, TypeOK
<1>2. /\ row[t].status = "queued" /\ n \in Tokens
      /\ row' = [row EXCEPT ![t] = r] /\ AttachGoto(t, n, "reserved")
      /\ nextToken' = [nextToken EXCEPT ![t] = n + 1]
      /\ UNCHANGED <<worker, tick, reaper, canceller, condemned, lost, restarts>>
  BY DEF reserve_task_on_allocation, webVars, history, AttachGoto
<1>3. /\ r \in Row /\ r.status = "attaching" /\ ~r.held /\ r.token = n
      /\ ~r.launched /\ r.tries = row[t].tries /\ ~r.acked
  BY <1>1, <1>2 DEF Row, Status, Active
<1> HIDE DEF r
<1>4. row' \in [Tasks -> Row] /\ row'[t] = r /\ \A u \in Tasks \ {t} : row'[u] = row[u]
  BY <1>1, <1>2, <1>3 DEF TypeOK
<1>5. /\ attach' \in [Tasks -> [Tokens -> AttachPc]] /\ attach'[t][n] = "reserved"
      /\ \A u \in Tasks, j \in Tokens : u # t \/ j # n => attach'[u][j] = attach[u][j]
  BY <1>1, <1>2, AttachEffect DEF AttachPc
<1>6. nextToken \in [Tasks -> 1..(MaxToken + 1)] /\ row[t].tries < MaxPressure
  BY <1>1, <1>2 DEF TypeOK, Terminal
<1>7. /\ nextToken' \in [Tasks -> 1..(MaxToken + 1)] /\ nextToken'[t] = n + 1
      /\ \A u \in Tasks \ {t} : nextToken'[u] = nextToken[u]
  BY <1>2, <1>6, Bounds DEF Tokens
<1>8. TypeOK'
  BY <1>1, <1>2, <1>3, <1>4, <1>5, <1>6, <1>7 DEF TypeOK
<1>9. Core'
  <2>0. n \in 1..MaxToken /\ MaxToken \in Nat
    BY <1>2, Bounds DEF Tokens
  <2>1. FreshTokens'
    <3>1. ASSUME NEW u \in Tasks, u # t
          PROVE  /\ row'[u].token < nextToken'[u]
                 /\ \A k \in Tokens :
                       /\ attach'[u][k] = "none" <=> k >= nextToken'[u]
                       /\ attach'[u][k] \in {"none", "reserved", "launching"}
                             => worker'[u][k] = "none"
                       /\ attach'[u][k] = "started" => worker'[u][k] # "none"
      BY <1>1, <1>2, <1>4, <1>5, <1>7, <3>1 DEF Core, FreshTokens
    <3>2. row'[t].token < nextToken'[t]
      BY <1>3, <1>4, <1>7, <2>0
    <3>3. ASSUME NEW k \in Tokens
          PROVE  attach'[t][k] = "none" <=> k >= nextToken'[t]
      <4>1. attach[t][k] = "none" <=> k >= n
        BY <1>1 DEF Core, FreshTokens
      <4> HIDE DEF n
      <4> QED BY <1>5, <1>7, <2>0, <4>1 DEF Tokens
    <3>4. ASSUME NEW k \in Tokens
          PROVE  /\ attach'[t][k] \in {"none", "reserved", "launching"} => worker'[t][k] = "none"
                 /\ attach'[t][k] = "started" => worker'[t][k] # "none"
      <4>1. attach[t][n] = "none"
        BY <1>1, <1>2, <2>0 DEF Core, FreshTokens
      <4> QED BY <1>1, <1>2, <1>5, <4>1 DEF Core, FreshTokens
    <3> QED BY <3>1, <3>2, <3>3, <3>4 DEF FreshTokens
  <2>2. LaunchOwnsRow'
    BY <1>1, <1>2, <1>3, <1>4, <1>5 DEF Core, LaunchOwnsRow, Launched, Terminal
  <2>3. WorkerIsOwned'
    BY <1>1, <1>2, <1>3, <1>4 DEF Core, WorkerIsOwned, Live
  <2>4. ClaimShape'
    BY <1>1, <1>2, <1>3, <1>4, <1>5 DEF Core, ClaimShape
  <2>5. RunningNamesItsWorker'
    <3>1. \A u \in Tasks : row[u].status = "running" => row[u].token # nextToken[u]
      BY <1>1, <1>6 DEF Core, FreshTokens, RunningNamesItsWorker, Tokens
    <3> QED BY <1>1, <1>2, <1>3, <1>4, <1>5, <3>1 DEF Core, RunningNamesItsWorker
  <2> QED BY <2>1, <2>2, <2>3, <2>4, <2>5 DEF Core
<1>10. TickSnapshot'
  <2>1. attach[t][n] = "none"
    BY <1>1, <1>2, <1>6 DEF Core, FreshTokens, Tokens
  <2> QED BY <1>1, <1>2, <1>3, <1>4, <1>5, <2>1 DEF TickSnapshot, Live, Terminal
<1> QED BY <1>8, <1>9, <1>10 DEF Inv

-----------------------------------------------------------------------------
(* The tick.                                                               *)

\* Only the tick's own work item changes.
LEMMA TickOnly ==
    ASSUME Inv, tick' \in TickWork, TickSnapshot',
           UNCHANGED <<row, nextToken, attach, worker, reaper, canceller, condemned, lost,
                       restarts>>
    PROVE  Inv'
<1>1. TypeOK'
  BY DEF Inv, TypeOK
<1>2. Core'
  BY DEF Inv, Core, FreshTokens, LaunchOwnsRow, WorkerIsOwned, ClaimShape,
         RunningNamesItsWorker, Live
<1> QED BY <1>1, <1>2 DEF Inv

LEMMA TickStartInv ==
    ASSUME Inv, NEW t \in Tasks, TickStart(t)
    PROVE  Inv'
<1>1. TypeOK /\ Core /\ TickSnapshot
  BY DEF Inv
<1>2. PICK op \in {"probe", "pressure", "rebalance", "strict"}, phase \in {"kill", "write"} :
         /\ TickBegin(t, op, phase)
         /\ op = "probe" => row[t].status \in Active /\ ~row[t].held
                            /\ (row[t].status = "attaching" => row[t].acked)
         /\ op \in {"pressure", "rebalance"} => row[t].status = "running" /\ phase = "kill"
         /\ op = "strict" => row[t].held /\ phase = "kill"
  BY DEF TickStart, refresh_task, reclaim_victim, retry_strict_node_cancellation
<1>3. /\ tick' = [op |-> op, task |-> t, status |-> row[t].status,
                  token |-> row[t].token, phase |-> phase]
      /\ UNCHANGED <<row, nextToken, attach, worker, reaper, canceller, condemned, lost,
                     restarts>>
  BY <1>2 DEF TickBegin, webVars, history
<1>4. /\ row[t].status \in Status /\ row[t].token \in {NoToken} \cup Tokens
      /\ t \in Tasks
  BY <1>1 DEF TypeOK, Row
<1>5. tick' \in TickWork
  BY <1>3, <1>4 DEF TickWork
<1>6. op = "probe" => row[t].status = "running"
  BY <1>1, <1>2 DEF Core, ClaimShape, Active
<1>7. row[t].token \in Tokens /\ attach[t][row[t].token] = "done"
  BY <1>1, <1>2, <1>6 DEF Core, ClaimShape, RunningNamesItsWorker
<1>8. row[t].status = "running" => row[t].tries < MaxPressure
  BY <1>1 DEF TypeOK, Terminal
<1>9. /\ tick'.op = op /\ tick'.task = t /\ tick'.status = row[t].status
      /\ tick'.token = row[t].token /\ tick'.phase = phase
  BY <1>3
<1>10. TickSnapshot'
  BY <1>2, <1>3, <1>6, <1>7, <1>8, <1>9 DEF TickSnapshot, TickIdle
<1> QED BY <1>3, <1>5, <1>10, TickOnly

LEMMA ProbeStep ==
    ASSUME Inv, NEW t \in Tasks, _apply_task_probe(t)
    PROVE  Inv'
<1>1. TypeOK /\ TickSnapshot /\ tick.op = "probe"
  BY DEF Inv, _apply_task_probe
<1>2. /\ tick' = TickIdle
      /\ UNCHANGED <<nextToken, attach, worker, reaper, canceller, condemned, lost, restarts>>
  BY DEF _apply_task_probe, webVars, history
<1>3. reaper' \in [Tasks -> Reap] /\ canceller' \in [Tasks -> Cancel]
      /\ condemned' \in SUBSET Tasks
  BY <1>1, <1>2 DEF TypeOK
<1>4. CASE worker[t][tick.token] \in Exited
  <2>1. SetStatus(t, worker[t][tick.token]) /\ worker[t][tick.token] \in Terminal
    BY <1>4 DEF _apply_task_probe, Exited, Terminal
  <2>2. attach[t][row[t].token] = "done"
    BY <1>1 DEF TickSnapshot, _apply_task_probe
  <2> QED BY <1>2, <1>3, <2>1, <2>2, RowEnds
<1>5. CASE worker[t][tick.token] \notin Exited
  <2>1. tick.status = "running"
    BY <1>1 DEF TickSnapshot
  <2>2. row' = row
    BY <1>5, <2>1 DEF _apply_task_probe
  <2> QED BY <1>2, <1>3, <2>2, Bookkeeping
<1> QED BY <1>4, <1>5

LEMMA TickCancelStep ==
    ASSUME Inv, NEW t \in Tasks, reclaim_cancel(t) \/ retry_strict_cancel(t)
    PROVE  Inv'
<1>1. TypeOK /\ Core /\ TickSnapshot
  BY DEF Inv
<1>2. /\ tick.task = t /\ tick.op \in {"pressure", "rebalance", "strict"}
      /\ UNCHANGED <<row, nextToken, attach, reaper, canceller, condemned, restarts>>
  BY DEF reclaim_cancel, retry_strict_cancel, webVars
<1>3. /\ cancel_task(t, tick.token)
      /\ \/ tick' = TickIdle
         \/ tick' = [tick EXCEPT !.phase = "write"]
  <2>1. CASE reclaim_cancel(t)
    BY <2>1 DEF reclaim_cancel
  <2>2. CASE retry_strict_cancel(t)
    BY <2>2 DEF retry_strict_cancel
  <2> QED BY <2>1, <2>2
<1>4. tick.token \in Tokens
  BY <1>1, <1>2 DEF TickSnapshot
<1>5. /\ worker' \in [Tasks -> [Tokens -> WorkerState]]
      /\ lost' \in [Tasks -> SUBSET Tokens]
      /\ Fades
      /\ worker'[t][tick.token] # "running" \/ tick.token \in lost'[t]
  BY <1>1, <1>3, <1>4, CancelEffect
<1>6. reaper' \in [Tasks -> Reap] /\ canceller' \in [Tasks -> Cancel]
      /\ attach' \in [Tasks -> [Tokens -> AttachPc]]
  BY <1>1, <1>2 DEF TypeOK
<1>7. CASE tick' = TickIdle
  <2>1. \A u \in Tasks, j \in Tokens : attach'[u][j] = attach[u][j]
    BY <1>2
  <2> QED BY <1>2, <1>3, <1>4, <1>6, <1>7, <2>1, RemoteCancel
<1>8. CASE tick' = [tick EXCEPT !.phase = "write"]
  <2>1. tick \in TickWork
    BY <1>1 DEF TypeOK
  <2>2. /\ tick' \in TickWork /\ tick'.op = tick.op /\ tick'.task = t
        /\ tick'.token = tick.token /\ tick'.status = tick.status /\ tick'.phase = "write"
    BY <1>2, <1>8, <2>1 DEF TickWork
  <2>3. WindDown(t)
    BY <1>2, <1>5 DEF WindDown
  <2>4. TypeOK'
    BY <1>1, <1>2, <1>5, <1>6, <2>2 DEF TypeOK
  <2>5. TickSnapshot'
    BY <1>1, <1>2, <1>5, <1>8, <2>2 DEF TickSnapshot, TickIdle, Live, Fades
  <2> QED BY <1>1, <2>3, <2>4, <2>5, WindDownCore DEF Inv
<1> QED BY <1>3, <1>7, <1>8

\* The victim's row goes back to the queue: its worker is down or lost, and
\* no thread of it is past the launch boundary.
LEMMA RequeueStep ==
    ASSUME Inv, NEW t \in Tasks, NEW n \in Nat, n < MaxPressure,
           tick.op \in {"pressure", "rebalance"}, tick.task = t, tick.phase = "write",
           row' = [row EXCEPT ![t] = Requeued(row[t], n)],
           tick' = TickIdle,
           UNCHANGED <<nextToken, attach, worker, reaper, canceller, condemned, lost, restarts>>
    PROVE  Inv'
<1> DEFINE r == Requeued(row[t], n)
<1>1. TypeOK /\ Core /\ TickSnapshot /\ row[t] \in Row
  BY DEF Inv, TypeOK
<1>2. n \in 0..MaxPressure /\ MaxPressure \in Nat
  BY Bounds
<1>3. /\ r \in Row /\ r.status = "queued" /\ r.token = NoToken /\ ~r.launched /\ ~r.acked
      /\ ~r.held /\ r.tries = n
  BY <1>1, <1>2 DEF Requeued, Row, Status
<1> HIDE DEF r
<1>4. row' \in [Tasks -> Row] /\ row'[t] = r /\ \A u \in Tasks \ {t} : row'[u] = row[u]
  BY <1>1, <1>3 DEF TypeOK, r
<1>5. /\ tick.token \in Tokens /\ attach[t][tick.token] = "done" /\ row[t].token = tick.token
      /\ ~Live(t, tick.token) \/ tick.token \in lost[t]
  BY <1>1 DEF TickSnapshot
<1>6. TypeOK'
  <2>1. tick' \in TickWork
    BY DEF TickWork, TickIdle, Status, NoToken
  <2> QED BY <1>1, <1>3, <1>4, <2>1 DEF TypeOK
<1>7. Core'
  <2>1. FreshTokens'
    <3>1. NoToken < nextToken[t]
      BY <1>1 DEF TypeOK, NoToken
    <3> QED BY <1>1, <1>3, <1>4, <3>1 DEF Core, FreshTokens
  <2>2. LaunchOwnsRow'
    BY <1>1, <1>3, <1>4, <1>5 DEF Core, LaunchOwnsRow, Launched
  <2>3. WorkerIsOwned'
    BY <1>1, <1>3, <1>4, <1>5 DEF Core, WorkerIsOwned, Live
  <2>4. ClaimShape'
    BY <1>1, <1>3, <1>4 DEF Core, ClaimShape
  <2>5. RunningNamesItsWorker'
    BY <1>1, <1>3, <1>4 DEF Core, RunningNamesItsWorker
  <2> QED BY <2>1, <2>2, <2>3, <2>4, <2>5 DEF Core
<1>8. TickSnapshot'
  BY DEF TickSnapshot, TickIdle
<1> QED BY <1>6, <1>7, <1>8 DEF Inv

LEMMA PressureStep ==
    ASSUME Inv, NEW t \in Tasks, requeue_pressure_killed_task(t)
    PROVE  Inv'
<1> DEFINE a == row[t].tries + 1
           f == WithStatus(row[t], "failed")
           r == [f EXCEPT !.tries = a]
<1>1. /\ TypeOK /\ TickSnapshot /\ row[t] \in Row /\ row \in [Tasks -> Row]
      /\ "failed" \in Status
  BY DEF Inv, TypeOK, Status, Terminal
<1>2. /\ tick.op = "pressure" /\ tick.task = t /\ tick.phase = "write" /\ tick' = TickIdle
      /\ UNCHANGED <<nextToken, attach, worker, reaper, canceller, condemned, lost, restarts>>
  BY DEF requeue_pressure_killed_task, webVars, history
<1>3. row[t].tries \in Nat /\ row[t].tries < MaxPressure /\ MaxPressure \in Nat
  BY <1>1, <1>2, Bounds DEF TickSnapshot, Row
<1>4. CASE a >= MaxPressure
  <2>1. row' = [row EXCEPT ![t] = r]
    BY <1>4 DEF requeue_pressure_killed_task
  <2>2. /\ f \in Row /\ f.status = "failed" /\ ~f.held /\ f.token = row[t].token
        /\ f.launched = row[t].launched
    BY <1>1, WithStatusEffect
  <2> HIDE DEF f
  <2>3. a \in 0..MaxPressure
    BY <1>3
  <2> HIDE DEF a
  <2>4. /\ r \in Row /\ r.status = "failed" /\ ~r.held /\ r.token = row[t].token
        /\ r.launched = row[t].launched
    BY <2>2, <2>3 DEF Row
  <2> HIDE DEF r
  <2>5. row' \in [Tasks -> Row] /\ row'[t] = r /\ \A u \in Tasks \ {t} : row'[u] = row[u]
    BY <1>1, <2>1, <2>4
  <2>6. WindDown(t)
    BY <1>2, <2>4, <2>5 DEF WindDown, Fades, Terminal
  <2> QED BY <1>1, <1>2, <2>5, <2>6, WindDownInv DEF TypeOK
<1>5. CASE ~(a >= MaxPressure)
  <2>1. row' = [row EXCEPT ![t] = Requeued(row[t], a)]
    BY <1>5 DEF requeue_pressure_killed_task
  <2>2. a \in Nat /\ a < MaxPressure
    BY <1>3, <1>5
  <2> HIDE DEF a
  <2> QED BY <1>2, <2>1, <2>2, RequeueStep
<1> QED BY <1>4, <1>5

LEMMA RebalanceStep ==
    ASSUME Inv, NEW t \in Tasks, requeue_task_for_rebalance(t)
    PROVE  Inv'
<1>1. /\ tick.op = "rebalance" /\ tick.task = t /\ tick.phase = "write" /\ tick' = TickIdle
      /\ row' = [row EXCEPT ![t] = Requeued(row[t], row[t].tries)]
      /\ UNCHANGED <<nextToken, attach, worker, reaper, canceller, condemned, lost, restarts>>
  BY DEF requeue_task_for_rebalance, webVars, history
<1>2. row[t].tries \in Nat /\ row[t].tries < MaxPressure
  BY <1>1, Bounds DEF Inv, TypeOK, TickSnapshot, Row
<1> QED BY <1>1, <1>2, RequeueStep

LEMMA StrictReleaseStep ==
    ASSUME Inv, NEW t \in Tasks, retry_strict_release(t)
    PROVE  Inv'
<1> DEFINE f == WithStatus(row[t], "failed")
<1>1. TypeOK /\ TickSnapshot /\ row[t] \in Row /\ "failed" \in Status
  BY DEF Inv, TypeOK, Status, Terminal
<1>2. /\ tick.op = "strict" /\ tick.task = t /\ IfClaimed(t, tick.token, f)
      /\ tick' = TickIdle
      /\ UNCHANGED <<nextToken, attach, worker, reaper, canceller, condemned, lost, restarts>>
  BY DEF retry_strict_release, webVars, history
<1>3. tick.token \in Tokens
  BY <1>1, <1>2 DEF TickSnapshot
<1>4. /\ f \in Row /\ f.status = "failed" /\ ~f.held /\ f.token = row[t].token
      /\ f.launched = row[t].launched /\ f.tries = row[t].tries
  BY <1>1, WithStatusEffect
<1> HIDE DEF f
<1>5. /\ row' \in [Tasks -> Row] /\ \A u \in Tasks \ {t} : row'[u] = row[u]
      /\ row'[t] = f \/ row'[t] = row[t]
  BY <1>1, <1>2, <1>3, <1>4, IfClaimedEffect
<1>6. WindDown(t)
  BY <1>2, <1>4, <1>5 DEF WindDown, Fades, Terminal
<1> QED BY <1>1, <1>2, <1>5, <1>6, WindDownInv DEF TypeOK

LEMMA TickFinishInv ==
    ASSUME Inv, NEW t \in Tasks, TickFinish(t)
    PROVE  Inv'
BY ProbeStep, TickCancelStep, PressureStep, RebalanceStep, StrictReleaseStep DEF TickFinish

-----------------------------------------------------------------------------
(* Sweeps, timeouts and cancellations.                                     *)
LEMMA FailSweepInv ==
    ASSUME Inv, NEW t \in Tasks, FailSweep(t)
    PROVE  Inv'
<1>1. TypeOK
  BY DEF Inv
<1>2. reaper \in [Tasks -> Reap] /\ canceller \in [Tasks -> Cancel]
      /\ condemned \in SUBSET Tasks
  BY <1>1 DEF TypeOK
<1>3. CASE Condemn(t)
  BY <1>2, <1>3, Bookkeeping DEF Condemn, history
<1>4. CASE fail_write(t)
  <2>1. "failed" \in Terminal
    BY DEF Terminal
  <2> QED BY <1>2, <1>4, <2>1, RowEnds DEF fail_write, history
<1> QED BY <1>3, <1>4 DEF FailSweep, fail_running_tasks, fail_stale_same_node_tasks,
                          fail_stale_requested_allocation_tasks

LEMMA TimeoutInv ==
    ASSUME Inv, NEW t \in Tasks, TimeoutStep(t)
    PROVE  Inv'
<1>1. TypeOK /\ Core
  BY DEF Inv
<1>2. /\ reaper \in [Tasks -> Reap] /\ canceller \in [Tasks -> Cancel]
      /\ condemned \in SUBSET Tasks /\ attach \in [Tasks -> [Tokens -> AttachPc]]
  BY <1>1 DEF TypeOK
<1>3. CASE _schedule_timed_out_task_cancellation(t)
  <2>1. row[t].token \in Tokens
    BY <1>1, <1>3 DEF _schedule_timed_out_task_cancellation, Core, ClaimShape, Active
  <2>2. [token |-> row[t].token, future |-> "running"] \in Reap
    BY <2>1 DEF Reap
  <2>3. reaper' = [reaper EXCEPT ![t] = [token |-> row[t].token, future |-> "running"]]
    BY <1>3 DEF _schedule_timed_out_task_cancellation
  <2>4. reaper' \in [Tasks -> Reap]
    BY <1>2, <2>2, <2>3
  <2>5. UNCHANGED <<row, nextToken, attach, worker, tick, canceller, condemned, lost, restarts>>
    BY <1>3 DEF _schedule_timed_out_task_cancellation, webVars, history
  <2> QED BY <1>2, <2>4, <2>5, Bookkeeping
<1>4. CASE _cancel_timed_out_task_remote(t)
  <2>1. cancel_task(t, reaper[t].token)
    BY <1>4 DEF _cancel_timed_out_task_remote
  <2>2. reaper' = [reaper EXCEPT ![t] = [reaper[t] EXCEPT !.future = "done"]]
    BY <1>4 DEF _cancel_timed_out_task_remote
  <2>3. reaper[t] \in [token : Tokens, future : {"running", "done"}]
    BY <1>2, <1>4 DEF Reap, NoReap, _cancel_timed_out_task_remote
  <2>4. reaper[t].token \in Tokens /\ [reaper[t] EXCEPT !.future = "done"] \in Reap
    BY <2>3 DEF Reap
  <2>5. reaper' \in [Tasks -> Reap]
    BY <1>2, <2>2, <2>4
  <2>6. UNCHANGED <<row, nextToken, attach, tick, canceller, condemned, restarts>>
    BY <1>4 DEF _cancel_timed_out_task_remote, webVars
  <2>7. \A u \in Tasks, j \in Tokens : attach'[u][j] = attach[u][j]
    BY <2>6
  <2> QED BY <1>2, <2>1, <2>4, <2>5, <2>6, <2>7, RemoteCancel
<1>5. CASE _drain_timed_out_task_cancellations(t)
  <2>1. NoReap \in Reap
    BY DEF NoReap, Reap
  <2>2. reaper' \in [Tasks -> Reap]
    BY <1>2, <1>5, <2>1 DEF _drain_timed_out_task_cancellations
  <2>3. UNCHANGED <<nextToken, attach, worker, tick, canceller, condemned, lost, restarts>>
    BY <1>5 DEF _drain_timed_out_task_cancellations, webVars, history
  <2>4. SetStatus(t, "failed") \/ row' = row
    BY <1>5 DEF _drain_timed_out_task_cancellations
  <2>5. "failed" \in Terminal
    BY DEF Terminal
  <2> QED BY <1>2, <2>2, <2>3, <2>4, <2>5, RowEnds, Bookkeeping
<1> QED BY <1>3, <1>4, <1>5 DEF TimeoutStep

LEMMA CancelInv ==
    ASSUME Inv, NEW t \in Tasks, CancelStep(t)
    PROVE  Inv'
<1>1. TypeOK /\ Core
  BY DEF Inv
<1>2. /\ reaper \in [Tasks -> Reap] /\ canceller \in [Tasks -> Cancel]
      /\ condemned \in SUBSET Tasks /\ attach \in [Tasks -> [Tokens -> AttachPc]]
      /\ row[t].status \in Status /\ row[t].token \in {NoToken} \cup Tokens
      /\ row[t].status \in Active => row[t].token \in Tokens
      /\ "cancelled" \in Terminal
  BY <1>1 DEF TypeOK, Row, Core, ClaimShape, Active, Terminal
\* A move of the canceller to a pc that needs no worker keeps its type.
<1>3. ASSUME NEW pc \in {"idle", "kill", "form_write"}, CancelGoto(t, pc),
             pc = "kill" => canceller[t].status \in Active
      PROVE  canceller' \in [Tasks -> Cancel]
  <2>1. [canceller[t] EXCEPT !.pc = pc] \in Cancel
    BY <1>2, <1>3 DEF Cancel
  <2> QED BY <1>2, <1>3, <2>1 DEF CancelGoto
<1>4. ASSUME NEW api \in BOOLEAN, cancel_read(t, api) PROVE Inv'
  <2> DEFINE pc == IF api THEN "cas"
                   ELSE IF row[t].status \in Active THEN "form_kill" ELSE "form_write"
             c == [pc |-> pc, status |-> row[t].status, token |-> row[t].token]
  <2>1. /\ canceller' = [canceller EXCEPT ![t] = c]
        /\ UNCHANGED <<row, nextToken, attach, worker, tick, reaper, condemned, lost, restarts>>
    BY <1>4 DEF cancel_read, history
  <2>2. /\ pc \in {"cas", "form_kill", "form_write"}
        /\ pc = "form_kill" => row[t].status \in Active
    OBVIOUS
  <2> HIDE DEF pc
  <2>3. c \in Cancel
    BY <1>2, <2>2 DEF Cancel
  <2> HIDE DEF c
  <2>4. canceller' \in [Tasks -> Cancel]
    BY <1>2, <2>1, <2>3
  <2> QED BY <1>2, <2>1, <2>4, Bookkeeping
<1>5. CASE request_cancel_task(t)
  <2>1. UNCHANGED <<nextToken, attach, worker, tick, reaper, condemned, lost, restarts>>
    BY <1>5 DEF request_cancel_task, history
  <2>2. CASE row[t].status = canceller[t].status
    <3>1. /\ SetStatus(t, "cancelled")
          /\ CancelGoto(t, IF canceller[t].status \in Active THEN "kill" ELSE "idle")
      BY <1>5, <2>2 DEF request_cancel_task
    <3>2. canceller' \in [Tasks -> Cancel]
      <4>1. CASE canceller[t].status \in Active
        BY <1>3, <3>1, <4>1
      <4>2. CASE canceller[t].status \notin Active
        BY <1>3, <3>1, <4>2
      <4> QED BY <4>1, <4>2
    <3> QED BY <1>2, <2>1, <3>1, <3>2, RowEnds
  <2>3. CASE row[t].status # canceller[t].status
    <3>1. row' = row /\ CancelGoto(t, "idle")
      BY <1>5, <2>3 DEF request_cancel_task
    <3>2. canceller' \in [Tasks -> Cancel]
      BY <1>3, <3>1
    <3> QED BY <1>2, <2>1, <3>1, <3>2, Bookkeeping
  <2> QED BY <2>2, <2>3
<1>6. CASE cancel_remote_best_effort(t)
  <2>1. cancel_task(t, canceller[t].token)
    BY <1>6 DEF cancel_remote_best_effort
  <2>2. /\ canceller[t].pc \in {"kill", "form_kill"}
        /\ CancelGoto(t, "idle") \/ CancelGoto(t, "form_write")
        /\ UNCHANGED <<row, nextToken, attach, tick, reaper, condemned, restarts>>
    BY <1>6 DEF cancel_remote_best_effort, CancelGoto
  <2>3. canceller' \in [Tasks -> Cancel]
    BY <1>3, <2>2
  <2>4. canceller[t].token \in Tokens
    BY <1>2, <2>2 DEF Cancel
  <2>5. \A u \in Tasks, j \in Tokens : attach'[u][j] = attach[u][j]
    BY <2>2
  <2> QED BY <1>2, <2>1, <2>2, <2>3, <2>4, <2>5, RemoteCancel
<1>7. CASE form_cancel_write(t)
  <2>1. /\ SetStatus(t, "cancelled") /\ CancelGoto(t, "idle")
        /\ UNCHANGED <<nextToken, attach, worker, tick, reaper, condemned, lost, restarts>>
    BY <1>7 DEF form_cancel_write, history
  <2>2. canceller' \in [Tasks -> Cancel]
    BY <1>3, <2>1
  <2> QED BY <1>2, <2>1, <2>2, RowEnds
<1> QED BY <1>4, <1>5, <1>6, <1>7 DEF CancelStep

-----------------------------------------------------------------------------
(* The end of a worker, and restarts.                                      *)
LEMMA WorkerExitInv ==
    ASSUME Inv, NEW t \in Tasks, NEW k \in Tokens, WorkerExit(t, k)
    PROVE  Inv'
<1>1. TypeOK
  BY DEF Inv
<1>2. PICK end \in Exited \cup {"killed"} : worker' = [worker EXCEPT ![t][k] = end]
  BY DEF WorkerExit
<1>3. /\ worker[t][k] = "running" /\ end \in WorkerState /\ end \notin {"none", "running"}
      /\ worker \in [Tasks -> [Tokens -> WorkerState]]
      /\ UNCHANGED <<row, nextToken, attach, tick, reaper, canceller, condemned, lost, restarts>>
  BY <1>1 DEF WorkerExit, webVars, history, WorkerState, Exited, TypeOK
<1>4. /\ worker' \in [Tasks -> [Tokens -> WorkerState]] /\ worker'[t][k] = end
      /\ \A u \in Tasks, j \in Tokens : u # t \/ j # k => worker'[u][j] = worker[u][j]
  BY <1>2, <1>3
<1>5. WindDown(t)
  BY <1>3, <1>4 DEF WindDown, Fades
<1> QED BY <1>1, <1>3, <1>4, <1>5, WindDownInv DEF TypeOK

\* Recovery requeues only rows without a launch, which own neither a worker
\* nor a thread past the boundary.
LEMMA RecoveryCore ==
    ASSUME TypeOK, Core,
           \A u \in Tasks :
              \/ row'[u] = row[u]
              \/ /\ row[u].status = "attaching" /\ ~row[u].launched
                 /\ row'[u].status = "queued" /\ row'[u].token = NoToken
                 /\ ~row'[u].launched /\ ~row'[u].held,
           \A u \in Tasks, j \in Tokens :
              \/ attach'[u][j] = attach[u][j]
              \/ attach[u][j] # "none" /\ attach'[u][j] = "done",
           \A u \in Tasks, j \in Tokens :
              \/ worker'[u][j] = worker[u][j]
              \/ attach[u][j] = "launching" /\ attach'[u][j] = "done" /\ worker'[u][j] = "running",
           UNCHANGED <<nextToken, lost>>
    PROVE  Core'
<1> USE DEF Core
<1>1. FreshTokens'
  <2>1. \A u \in Tasks : NoToken < nextToken[u]
    BY DEF TypeOK, NoToken
  <2>2. \A u \in Tasks : row'[u].token < nextToken'[u]
    BY <2>1 DEF FreshTokens
  <2>3. ASSUME NEW u \in Tasks, NEW j \in Tokens
        PROVE  /\ attach'[u][j] = "none" <=> j >= nextToken'[u]
               /\ attach'[u][j] \in {"none", "reserved", "launching"} => worker'[u][j] = "none"
               /\ attach'[u][j] = "started" => worker'[u][j] # "none"
    BY DEF FreshTokens
  <2> QED BY <2>2, <2>3 DEF FreshTokens
<1>2. LaunchOwnsRow'
  BY DEF LaunchOwnsRow, Launched
<1>3. WorkerIsOwned'
  <2>1. ASSUME NEW u \in Tasks, NEW j \in Tokens, attach[u][j] = "launching"
        PROVE  row'[u].token = j /\ row'[u].launched /\ row'[u].status # "queued"
    BY <2>1 DEF LaunchOwnsRow, Launched, Terminal
  <2>2. ASSUME NEW u \in Tasks, NEW j \in Tokens, worker'[u][j] = "running",
               attach[u][j] # "launching"
        PROVE  \/ j \in lost'[u]
               \/ row'[u].token = j /\ row'[u].launched /\ row'[u].status # "queued"
    BY <2>2 DEF WorkerIsOwned, Live
  <2> QED BY <2>1, <2>2 DEF WorkerIsOwned, Live
<1>4. ClaimShape'
  BY DEF ClaimShape
<1>5. RunningNamesItsWorker'
  BY DEF RunningNamesItsWorker
<1> QED BY <1>1, <1>2, <1>3, <1>4, <1>5

LEMMA RecoveryInv ==
    ASSUME Inv,
           row' = [t \in Tasks |-> RecoveredRow(row[t])],
           attach' \in [Tasks -> [Tokens -> AttachPc]],
           \A u \in Tasks, j \in Tokens :
              \/ attach'[u][j] = attach[u][j]
              \/ attach[u][j] # "none" /\ attach'[u][j] = "done",
           worker' \in [Tasks -> [Tokens -> WorkerState]],
           \A u \in Tasks, j \in Tokens :
              \/ worker'[u][j] = worker[u][j]
              \/ attach[u][j] = "launching" /\ attach'[u][j] = "done" /\ worker'[u][j] = "running",
           tick' = TickIdle, reaper' \in [Tasks -> Reap], canceller' \in [Tasks -> Cancel],
           condemned' \in SUBSET Tasks, restarts' \in 0..MaxRestarts,
           UNCHANGED <<nextToken, lost>>
    PROVE  Inv'
<1>1. TypeOK /\ Core /\ row \in [Tasks -> Row]
  BY DEF Inv, TypeOK
<1>2. ASSUME NEW r \in Row
      PROVE  /\ Requeued(r, r.tries) \in Row /\ Requeued(r, r.tries).status = "queued"
             /\ Requeued(r, r.tries).token = NoToken /\ ~Requeued(r, r.tries).launched
             /\ ~Requeued(r, r.tries).held /\ Requeued(r, r.tries).tries = r.tries
  BY DEF Requeued, Row, Status
<1>3. ASSUME NEW u \in Tasks
      PROVE  /\ row'[u] \in Row
             /\ \/ row'[u] = row[u]
                \/ /\ row[u].status = "attaching" /\ ~row[u].launched
                   /\ row'[u].status = "queued" /\ row'[u].token = NoToken
                   /\ ~row'[u].launched /\ ~row'[u].held /\ row'[u].tries = row[u].tries
  <2>1. row'[u] = RecoveredRow(row[u]) /\ row[u] \in Row
    BY <1>1
  <2>2. CASE row'[u] = row[u]
    BY <2>1, <2>2
  <2>3. CASE row'[u] # row[u]
    <3>1. row[u].status = "attaching" /\ ~row[u].launched
          /\ row'[u] = Requeued(row[u], row[u].tries)
      BY <2>1, <2>3 DEF RecoveredRow
    <3> QED BY <1>2, <2>1, <3>1
  <2> QED BY <2>2, <2>3
<1>4. row' \in [Tasks -> Row]
  BY <1>3
<1>5. TypeOK'
  <2>1. tick' \in TickWork
    BY DEF TickWork, TickIdle, Status, NoToken
  <2>2. \A u \in Tasks : row'[u].status \notin Terminal => row'[u].tries < MaxPressure
    BY <1>1, <1>3 DEF TypeOK, Terminal
  <2> QED BY <1>1, <1>4, <2>1, <2>2 DEF TypeOK
<1>6. Core'
  BY <1>1, <1>3, RecoveryCore
<1>7. TickSnapshot'
  BY DEF TickSnapshot, TickIdle
<1> QED BY <1>5, <1>6, <1>7 DEF Inv

LEMMA RestartInv ==
    ASSUME Inv, CrashRestart \/ SoftRestart
    PROVE  Inv'
<1>1. /\ TypeOK /\ restarts \in 0..MaxRestarts
      /\ attach \in [Tasks -> [Tokens -> AttachPc]]
      /\ worker \in [Tasks -> [Tokens -> WorkerState]]
      /\ canceller \in [Tasks -> Cancel] /\ condemned \in SUBSET Tasks
      /\ "done" \in AttachPc /\ "none" \in AttachPc /\ "running" \in WorkerState
  BY DEF Inv, TypeOK, AttachPc, WorkerState
<1>2. /\ row' = [t \in Tasks |-> RecoveredRow(row[t])]
      /\ restarts' \in 0..MaxRestarts /\ nextToken' = nextToken /\ lost' = lost
      /\ reaper' = [t \in Tasks |-> NoReap] /\ tick' = TickIdle
  BY <1>1, Bounds DEF CrashRestart, SoftRestart
<1>3. reaper' \in [Tasks -> Reap]
  BY <1>2 DEF Reap
<1>4. CASE CrashRestart
  <2>1. PICK reached \in BOOLEAN :
           worker' = [t \in Tasks |-> [k \in Tokens |->
               IF attach[t][k] = "launching" /\ reached THEN "running" ELSE worker[t][k]]]
    BY <1>4 DEF CrashRestart
  <2>2. attach' = [t \in Tasks |-> [k \in Tokens |->
               IF attach[t][k] = "none" THEN "none" ELSE "done"]]
    BY <1>4 DEF CrashRestart
  <2>3. /\ attach' \in [Tasks -> [Tokens -> AttachPc]]
        /\ \A u \in Tasks, j \in Tokens :
              attach'[u][j] = IF attach[u][j] = "none" THEN "none" ELSE "done"
    BY <1>1, <2>2
  <2>4. /\ worker' \in [Tasks -> [Tokens -> WorkerState]]
        /\ \A u \in Tasks, j \in Tokens :
              worker'[u][j] = IF attach[u][j] = "launching" /\ reached
                              THEN "running" ELSE worker[u][j]
    BY <1>1, <2>1
  <2>5. canceller' \in [Tasks -> Cancel] /\ condemned' \in SUBSET Tasks
    BY <1>4 DEF CrashRestart, NoCancel, Cancel, Status, NoToken, Active
  <2>6. \A u \in Tasks, j \in Tokens :
           \/ worker'[u][j] = worker[u][j]
           \/ attach[u][j] = "launching" /\ attach'[u][j] = "done" /\ worker'[u][j] = "running"
    BY <2>3, <2>4
  <2> QED BY <1>2, <1>3, <2>3, <2>4, <2>5, <2>6, RecoveryInv
<1>5. CASE SoftRestart
  <2>1. UNCHANGED <<attach, worker, canceller, condemned>>
    BY <1>5 DEF SoftRestart, webVars
  <2> QED BY <1>1, <1>2, <1>3, <2>1, RecoveryInv
<1> QED BY <1>4, <1>5

-----------------------------------------------------------------------------
(* The theorems.                                                           *)

\* The invariant is preserved by every step of the system.
LEMMA NextInv == Inv /\ [Next]_vars => Inv'
<1> SUFFICES ASSUME Inv, [Next]_vars PROVE Inv'
  OBVIOUS
<1>1. CASE UNCHANGED vars
  BY <1>1 DEF vars, Inv, Core, TypeOK, FreshTokens, LaunchOwnsRow, WorkerIsOwned, ClaimShape,
              RunningNamesItsWorker, TickSnapshot, Live
<1>2. ASSUME NEW t \in Tasks, NEW k \in Tokens, AttachStep(t, k) \/ WorkerExit(t, k)
      PROVE  Inv'
  BY <1>2, AttachStepInv, WorkerExitInv
<1>3. ASSUME NEW t \in Tasks,
             \/ reserve_task_on_allocation(t) \/ TickStart(t) \/ TickFinish(t)
             \/ FailSweep(t) \/ TimeoutStep(t) \/ CancelStep(t)
      PROVE  Inv'
  BY <1>3, ReserveStep, TickStartInv, TickFinishInv, FailSweepInv, TimeoutInv, CancelInv
<1>4. CASE CrashRestart \/ SoftRestart
  BY <1>4, RestartInv
<1> QED BY <1>1, <1>2, <1>3, <1>4 DEF Next

\* The conjunction of the types, the ownership of rows by attach claims and
\* what the tick's snapshot still guarantees holds in every reachable state.
THEOREM Invariance == Spec => []Inv
BY InitInv, NextInv, PTL DEF Spec

\* The rows, threads and workers keep their types, and an unfinished task
\* never runs out of pressure attempts, in every behaviour.
THEOREM TypeCorrect == Spec => []TypeOK
<1>1. Inv => TypeOK
  BY DEF Inv
<1> QED BY <1>1, Invariance, PTL

\* No task runs twice at once unless a remote kill or launch went wrong, for
\* any number of tasks, attempts and restarts (recover_transient_states and
\* the attach tokens of finish_reserved_task_attach).
THEOREM NoDuplicateRun == Spec => []NoUnaccountedDuplicate
<1>1. Inv => NoUnaccountedDuplicate
  BY DEF Inv, Core, WorkerIsOwned, NoUnaccountedDuplicate
<1> QED BY <1>1, Invariance, PTL

\* A queued task has no launch under way and no worker that is not accounted
\* for, whoever requeued it.
THEOREM QueuedAtRest == Spec => []QueuedIsAtRest
<1>1. Inv => QueuedIsAtRest
  <2> SUFFICES ASSUME Inv, NEW t \in Tasks, NEW k \in Tokens, row[t].status = "queued"
               PROVE  /\ attach[t][k] \in {"none", "reserved", "done"}
                      /\ Live(t, k) => k \in lost[t]
    BY DEF QueuedIsAtRest
  <2>1. attach[t][k] \in AttachPc
    BY DEF Inv, TypeOK
  <2>4. attach[t][k] \notin Launched
    BY DEF Inv, Core, LaunchOwnsRow, Terminal
  <2>2. attach[t][k] \in {"none", "reserved", "done"}
    BY <2>1, <2>4 DEF AttachPc, Launched
  <2>3. Live(t, k) => k \in lost[t]
    BY DEF Inv, Core, WorkerIsOwned
  <2> QED BY <2>2, <2>3
<1> QED BY <1>1, Invariance, PTL

\* A RUNNING row always names an attempt that was started and acknowledged.
THEOREM RunningIsNamed == Spec => []RunningNamesItsWorker
<1>1. Inv => RunningNamesItsWorker
  BY DEF Inv, Core
<1> QED BY <1>1, Invariance, PTL

\* An attempt rejected for its node is over: nobody reports its row RUNNING or
\* COMPLETED or puts the task back into the queue while its worker is being
\* cancelled (finish_reserved_task_attach, retry_strict_node_cancellation).
THEOREM RejectedIsOver == Spec => RejectedNeverCounts
<1> DEFINE A == \A t \in Tasks, k \in Tokens :
                   Rejected(t, k) => row'[t].status \notin {"queued", "running", "completed"}
<1>1. Inv /\ [Next]_vars => [A]_vars
  <2> SUFFICES ASSUME Inv, Next, NEW t \in Tasks, NEW k \in Tokens, Rejected(t, k)
               PROVE  row'[t].status \notin {"queued", "running", "completed"}
    BY DEF vars
  <2> DEFINE Over == row'[t].status \notin {"queued", "running", "completed"}
  <2>1. TypeOK /\ Core /\ TickSnapshot
    BY DEF Inv
  <2>2. /\ row \in [Tasks -> Row] /\ row[t].token = k /\ row[t].launched
        /\ row[t].status \in {"attaching", "failed", "cancelled"}
        /\ attach[t][k] \in {"rejected_killed", "rejected_alive", "done"}
    BY <2>1 DEF TypeOK, Core, Rejected, LaunchOwnsRow, ClaimShape, Launched
  <2>3. tick.op \in {"probe", "pressure", "rebalance"} => tick.task # t
    <3>1. attach[t][k] = "done" => row[t].status = "attaching"
      BY <2>1 DEF Core, Rejected, ClaimShape
    <3> QED BY <2>1, <2>2, <3>1 DEF TickSnapshot, Terminal
  <2>4. ASSUME NEW r \in Row, r.status \notin {"queued", "running", "completed"},
               NEW u \in Tasks, row' = row \/ row' = [row EXCEPT ![u] = r]
        PROVE  Over
    BY <2>2, <2>4
  <2>5. ASSUME NEW u \in Tasks, u # t, NEW r, row' = row \/ row' = [row EXCEPT ![u] = r]
        PROVE  Over
    BY <2>2, <2>5
  <2>6. ASSUME row' = row PROVE Over
    BY <2>2, <2>6
  <2>7. ASSUME NEW u \in Tasks, NEW s \in {"failed", "cancelled"}, SetStatus(u, s)
        PROVE  Over
    <3>1. s \in Status
      BY DEF Status, Terminal
    <3> QED BY <2>1, <2>2, <2>7, <3>1, SetStatusEffect
  <2>8. ASSUME NEW u \in Tasks, NEW j \in Tokens, AttachStep(u, j) PROVE Over
    <3>1. /\ WithStatus(row[u], "failed") \in Row
          /\ WithStatus(row[u], "failed").status = "failed"
      BY <2>2, WithStatusEffect DEF Status, Terminal
    <3>2. CASE strict_reject_before_launch(u, j) \/ attach_failed(u, j)
      BY <2>4, <3>1, <3>2 DEF strict_reject_before_launch, attach_failed, IfClaimed
    <3>3. CASE settle_strict_rejection(u, j)
      <4>1. CASE IfClaimed(u, j, [WithStatus(row[u], "failed") EXCEPT !.acked = TRUE])
        <5> DEFINE r == [WithStatus(row[u], "failed") EXCEPT !.acked = TRUE]
        <5>1. r \in Row /\ r.status = "failed"
          BY <3>1 DEF Row
        <5>2. row' = row \/ row' = [row EXCEPT ![u] = r]
          BY <4>1 DEF IfClaimed
        <5> QED BY <2>4, <5>1, <5>2
      <4>2. CASE IfClaimed(u, j, [row[u] EXCEPT !.held = TRUE, !.acked = TRUE])
        <5> DEFINE r == [row[u] EXCEPT !.held = TRUE, !.acked = TRUE]
        <5>1. r.status = row[u].status
          BY <2>2 DEF Row
        <5>2. row' = row \/ row' = [row EXCEPT ![u] = r]
          BY <4>2 DEF IfClaimed
        <5> QED BY <2>2, <5>1, <5>2
      <4> QED BY <3>3, <4>1, <4>2 DEF settle_strict_rejection
    <3>4. CASE mark_launch_started(u, j)
      <4>1. row' = row \/ row' = [row EXCEPT ![u].launched = TRUE]
        BY <3>4 DEF mark_launch_started
      <4> QED BY <2>2, <4>1 DEF Row
    <3>5. CASE complete_attach(u, j)
      <4>1. CASE OwnsClaim(u, j) /\ u = t
        BY <2>2, <3>5, <4>1 DEF complete_attach, OwnsClaim
      <4>2. CASE ~OwnsClaim(u, j)
        BY <2>6, <3>5, <4>2 DEF complete_attach
      <4>3. CASE u # t
        <5>1. row' = row \/ row' = [row EXCEPT ![u] = [WithStatus(row[u], "running") EXCEPT !.acked = TRUE]]
          BY <3>5 DEF complete_attach
        <5> QED BY <2>5, <4>3, <5>1
      <4> QED BY <4>1, <4>2, <4>3
    <3>6. CASE attach_task(u, j) \/ cancel_raced_attach(u, j) \/ strict_reject_after_launch(u, j)
      BY <2>6, <3>6 DEF attach_task, cancel_raced_attach, strict_reject_after_launch
    <3> QED BY <2>8, <3>2, <3>3, <3>4, <3>5, <3>6 DEF AttachStep
  <2>9. ASSUME NEW u \in Tasks, reserve_task_on_allocation(u) PROVE Over
    <3>1. u # t
      BY <2>2, <2>9 DEF reserve_task_on_allocation
    <3> QED BY <2>2, <2>9, <3>1 DEF reserve_task_on_allocation
  <2>10. ASSUME NEW u \in Tasks, TickStart(u) PROVE Over
    BY <2>6, <2>10 DEF TickStart, refresh_task, reclaim_victim,
                       retry_strict_node_cancellation, TickBegin
  <2>11. ASSUME NEW u \in Tasks, TickFinish(u) PROVE Over
    <3>1. CASE reclaim_cancel(u) \/ retry_strict_cancel(u)
      BY <2>6, <3>1 DEF reclaim_cancel, retry_strict_cancel
    <3>2. CASE retry_strict_release(u)
      <4>1. /\ WithStatus(row[u], "failed") \in Row
            /\ WithStatus(row[u], "failed").status = "failed"
        BY <2>2, WithStatusEffect DEF Status, Terminal
      <4> QED BY <2>4, <3>2, <4>1 DEF retry_strict_release, IfClaimed
    <3>3. CASE _apply_task_probe(u) \/ requeue_pressure_killed_task(u)
                  \/ requeue_task_for_rebalance(u)
      <4>1. u # t
        BY <2>3, <3>3 DEF _apply_task_probe, requeue_pressure_killed_task,
                          requeue_task_for_rebalance
      <4>2. row'[t] = row[t]
        BY <2>2, <3>3, <4>1 DEF _apply_task_probe, requeue_pressure_killed_task,
                          requeue_task_for_rebalance, SetStatus
      <4> QED BY <2>2, <4>2
    <3> QED BY <2>11, <3>1, <3>2, <3>3 DEF TickFinish
  <2>12. ASSUME NEW u \in Tasks, FailSweep(u) PROVE Over
    BY <2>6, <2>7, <2>12 DEF FailSweep, fail_running_tasks, fail_stale_same_node_tasks,
           fail_stale_requested_allocation_tasks, Condemn, fail_write
  <2>13. ASSUME NEW u \in Tasks, TimeoutStep(u) PROVE Over
    BY <2>6, <2>7, <2>13 DEF TimeoutStep, _schedule_timed_out_task_cancellation,
           _cancel_timed_out_task_remote, _drain_timed_out_task_cancellations
  <2>14. ASSUME NEW u \in Tasks, CancelStep(u) PROVE Over
    BY <2>6, <2>7, <2>14 DEF CancelStep, cancel_read, request_cancel_task,
           cancel_remote_best_effort, form_cancel_write
  <2>15. ASSUME NEW u \in Tasks, NEW j \in Tokens, WorkerExit(u, j) PROVE Over
    BY <2>6, <2>15 DEF WorkerExit
  <2>16. ASSUME CrashRestart \/ SoftRestart PROVE Over
    <3>1. row'[t] = RecoveredRow(row[t])
      BY <2>16 DEF CrashRestart, SoftRestart
    <3> QED BY <2>2, <3>1 DEF RecoveredRow
  <2> QED BY <2>8, <2>9, <2>10, <2>11, <2>12, <2>13, <2>14, <2>15, <2>16 DEF Next
<1> QED BY <1>1, Invariance, PTL DEF Spec, RejectedNeverCounts
=============================================================================
