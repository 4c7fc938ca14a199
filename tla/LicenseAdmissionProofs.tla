----------------------- MODULE LicenseAdmissionProofs -----------------------
(***************************************************************************)
(* For any tasks, costs, attempts, settings and faults: a live worker that *)
(* is not astray has a claim or was counted by the snapshot, and these     *)
(* workers never take more seats than there are.                           *)
(*                                                                         *)
(* The argument.  A claim that a query may drop is older than Settlement   *)
(* when the query begins, so its worker had checked out or was gone by     *)
(* then and is counted (Settling), unless it was started after the mark on *)
(* the claim and is astray.  An unclaimed worker in sight holds its seats  *)
(* and is in every count made since (Accounted).  Workers in sight, and the*)
(* threads about to make one, only grow in number when a task is reserved, *)
(* and there the sum of claims and count is at least theirs (WithinSeats). *)
(***************************************************************************)
EXTENDS LicenseAdmission, FiniteSetTheorems, TLAPS

Live == In({"launching", "started", "holding"})
Sighted == Live \ astray
Pending == {k \in Tokens : thread[k] = "claim" /\ OwnsRow(k)}

(* What every step but a restart does to the history.                      *)
Strays == astray' = astray \cup Unsettled

(* Attempts that are still to come.                                        *)
Fresh ==
    \A k \in Tokens : k[2] > task[k[1]].try =>
        ~claims[k].on /\ thread[k] = "none" /\ worker[k].state = "none"

ThreadShape ==
    \A k \in Tokens :
        /\ thread[k] \in {"none", "claim"} => worker[k].state = "none"
        /\ thread[k] \in {"mark", "ssh"} <=> worker[k].state = "launching"
        /\ thread[k] \in {"claim", "mark"} =>
              k = Token(k[1]) /\ task[k[1]].status \in {"attaching", "ended"}

RowShape ==
    \A t \in Tasks :
        /\ canceller[t] # 0 => task[t].status = "ended"
        /\ task[t].status \in {"attaching", "running"} =>
              /\ Token(t) \in Tokens
              /\ task[t].run # Never => worker[Token(t)].since <= task[t].run
        /\ task[t].status = "attaching" =>
              /\ claims[Token(t)].on /\ claims[Token(t)].state = "attaching"
              /\ thread[Token(t)] \in {"claim", "mark", "ssh", "failed", "ack", "dead"}
              /\ thread[Token(t)] # "claim" => task[t].launch # Never
              /\ task[t].run = Never
        /\ task[t].status = "running" =>
              thread[Token(t)] \in {"done", "dead"} /\ task[t].launch # Never

ClaimShape ==
    \A k \in Tokens : claims[k].on =>
        /\ Unlaunched(claims[k]) => thread[k] \in {"claim", "mark"}
        /\ thread[k] = "claim" => Unlaunched(claims[k])
        /\ claims[k].run # Never =>
              worker[k].since <= claims[k].run /\ worker[k].state # "launching"

Settling ==
    /\ query.on => query.start <= clock
    /\ \A k \in Tokens :
          /\ worker[k].since <= clock
          /\ worker[k].state = "started" => clock < worker[k].since + Settlement
          /\ worker[k].state \in {"started", "holding"} /\ query.on /\ query.read
                /\ worker[k].since + Settlement <= query.start => k \in query.seen

Accounted ==
    \A k \in Sighted : ~claims[k].on =>
        /\ worker[k].state = "holding"
        /\ snapshot.ok => k \in snapshot.seen
        /\ query.on /\ query.read => k \in query.seen

Shape == Fresh /\ ThreadShape /\ RowShape /\ ClaimShape /\ Settling /\ Accounted
Inv == TypeOK /\ Shape

-----------------------------------------------------------------------------
(* Types.                                                                  *)

LEMMA TokenFacts ==
    ASSUME NEW k \in Tokens
    PROVE  k[1] \in Tasks /\ k[2] \in 1..MaxAttempts /\ k = <<k[1], k[2]>>
  BY DEF Tokens

LEMMA Constants ==
    /\ Never \in Times /\ 0 \in Times /\ 0..MaxTime \subseteq Times /\ Never \notin 0..MaxTime
    /\ Settlement \in Nat \ {0} /\ Interval \in Nat \ {0} /\ MaxTime \in Nat
    /\ MaxAttempts \in Nat \ {0} /\ Times \subseteq Nat /\ Never \in Nat
  BY LicenseAssumptions DEF Never, Times

LEMMA Records ==
    /\ NoClaim \in Claims /\ ~NoClaim.on /\ Unlaunched(NoClaim)
    /\ NewClaim \in Claims /\ NewClaim.on /\ Unlaunched(NewClaim)
    /\ NewClaim.state = "attaching"
    /\ NoSnapshot \in Snapshots /\ ~NoSnapshot.ok
    /\ \A due \in Times : NoQuery(due) \in Queries /\ ~NoQuery(due).on /\ NoQuery(due).due = due
                          /\ NoQuery(due).seen = {} /\ ~NoQuery(due).read
  BY Constants DEF NoClaim, NewClaim, Claims, Unlaunched, NoSnapshot, Snapshots, NoQuery, Queries

(* What marks do to the claims, one by one.                                *)
LEMMA ClaimFields ==
    ASSUME NEW c \in Claims, NEW at \in Times
    PROVE  /\ [c EXCEPT !.state = "terminal"] \in Claims
           /\ [c EXCEPT !.launch = at] \in Claims
           /\ [c EXCEPT !.state = "running", !.run = IF @ = Never THEN at ELSE @] \in Claims
  BY DEF Claims

LEMMA ClaimsForType ==
    ASSUME NEW k \in Tokens
    PROVE  /\ ClaimsFor(k) \subseteq Claimed
           /\ \A j \in ClaimsFor(k) : j[1] = k[1]
           /\ claims[k].on => ClaimsFor(k) = {k}
  BY DEF ClaimsFor, Claimed

(* Claims of t are let go when they were not launched, and settle when     *)
(* they were; other claims stay.                                           *)
Settles(new, t) ==
    /\ new \in [Tokens -> Claims]
    /\ \A j \in Tokens :
          \/ new[j] = claims[j]
          \/ j[1] = t /\ claims[j].on /\ Unlaunched(claims[j]) /\ new[j] = NoClaim
          \/ j[1] = t /\ claims[j].on /\ ~Unlaunched(claims[j])
             /\ new[j] = [claims[j] EXCEPT !.state = "terminal"]

LEMMA TerminalSettles ==
    ASSUME claims \in [Tokens -> Claims], NEW k \in Tokens
    PROVE  Settles(MarkedTerminal(k), k[1]) /\ Settles(PrelaunchReleased(k), k[1])
  <1>1. \A j \in Tokens : [claims[j] EXCEPT !.state = "terminal"] \in Claims
      BY ClaimFields, Constants
  <1>2. \A j \in ClaimsFor(k) : j[1] = k[1] /\ claims[j].on
      BY ClaimsForType DEF Claimed
  <1>3. Settles(MarkedTerminal(k), k[1])
      BY <1>1, <1>2, Records DEF Settles, MarkedTerminal, Set
  <1>4. Settles(PrelaunchReleased(k), k[1])
      BY <1>2, Records DEF Settles, PrelaunchReleased, Set
  <1> QED
      BY <1>3, <1>4

(* The launch mark reaches claims of the task that have none, and nothing  *)
(* else about them changes.                                                *)
LEMMA LaunchedClaims ==
    ASSUME claims \in [Tokens -> Claims], clock \in Times, NEW k \in Tokens
    PROVE  /\ MarkedLaunched(k) \in [Tokens -> Claims]
           /\ \A j \in Tokens :
                 \/ MarkedLaunched(k)[j] = claims[j]
                    /\ (j = k /\ claims[j].on => claims[j].launch # Never)
                 \/ /\ j[1] = k[1] /\ claims[j].on /\ claims[j].launch = Never
                    /\ MarkedLaunched(k)[j] = [claims[j] EXCEPT !.launch = clock]
  <1>1. \A j \in ClaimsFor(k) : j[1] = k[1] /\ claims[j].on
      BY ClaimsForType DEF Claimed
  <1>2. claims[k].on => k \in ClaimsFor(k)
      BY ClaimsForType
  <1>3. \A j \in Tokens : [claims[j] EXCEPT !.launch = clock] \in Claims
      BY ClaimFields
  <1> QED
      BY <1>1, <1>2, <1>3 DEF MarkedLaunched, Set

LEMMA RunningClaim ==
    ASSUME claims \in [Tokens -> Claims], clock \in Times, NEW k \in Tokens, claims[k].on
    PROVE  /\ MarkedRunning(k) \in [Tokens -> Claims]
           /\ \A j \in Tokens \ {k} : MarkedRunning(k)[j] = claims[j]
           /\ MarkedRunning(k)[k] = [claims[k] EXCEPT !.state = "running",
                                        !.run = IF @ = Never THEN clock ELSE @]
  <1>1. ClaimsFor(k) = {k}
      BY ClaimsForType
  <1>2. [claims[k] EXCEPT !.state = "running", !.run = IF @ = Never THEN clock ELSE @] \in Claims
      BY ClaimFields
  <1> QED
      BY <1>1, <1>2 DEF MarkedRunning, Set

(* A claim that a query drops was launched long before the query began.    *)
LEMMA ReconciledClaims ==
    ASSUME claims \in [Tokens -> Claims], NEW start \in Times
    PROVE  /\ Reconciled(start) \in [Tokens -> Claims]
           /\ \A j \in Tokens :
                 \/ Reconciled(start)[j] = claims[j]
                 \/ /\ Reconciled(start)[j] = NoClaim /\ claims[j].on
                    /\ claims[j].state # "attaching" /\ ~Unlaunched(claims[j])
                    /\ start >= Anchor(claims[j]) + Settlement
  BY Records DEF Reconciled, Set, Claimed

(* A claim that goes while its launch is under way, or that was to settle  *)
(* by a mark older than its worker, leaves the attempt astray.             *)
LEMMA StrayFacts ==
    ASSUME Strays
    PROVE  /\ astray \subseteq astray'
           /\ \A k \in Tokens : claims' = claims /\ k \in astray' => k \in astray
           /\ \A k \in Tokens :
                 /\ claims[k].on /\ ~claims'[k].on /\ claims[k].run = Never
                 /\ \/ worker[k].state = "launching"
                    \/ worker[k].state \in {"started", "holding"}
                       /\ worker[k].since > claims[k].launch
                 => k \in astray'
  BY DEF Strays, Unsettled, Claimed

(* A kill ends a worker that was started, or is lost.                      *)
LEMMA Killing ==
    ASSUME worker \in [Tokens -> Workers], NEW k \in Tokens, Kill(k)
    PROVE  /\ worker' \in [Tokens -> Workers]
           /\ \A j \in Tokens :
                 /\ worker'[j].since = worker[j].since
                 /\ \/ worker'[j].state = worker[j].state
                    \/ j = k /\ worker[j].state \in {"started", "holding"}
                       /\ worker'[j].state = "gone"
  <1>1. CASE worker' = Killed(k)
    <2>1. [worker[k] EXCEPT !.state = "gone"] \in Workers
        BY DEF Workers
    <2>2. [worker[k] EXCEPT !.state = worker[k].state] = worker[k]
        BY DEF Workers
    <2>3. worker[k].state \in {"started", "holding"}
          => worker' = [worker EXCEPT ![k] = [worker[k] EXCEPT !.state = "gone"]]
        BY <1>1 DEF Killed
    <2>4. worker[k].state \notin {"started", "holding"}
          => worker' = [worker EXCEPT ![k] = [worker[k] EXCEPT !.state = worker[k].state]]
        BY <1>1 DEF Killed
    <2> QED
        BY <2>1, <2>2, <2>3, <2>4 DEF Workers
  <1>2. CASE "kill" \in faults /\ UNCHANGED worker
      BY <1>2
  <1> QED
      BY <1>1, <1>2 DEF Kill

(* Every step keeps the types.                                             *)
LEMMA TypeStep ==
    ASSUME Inv, [Next]_vars
    PROVE  TypeOK'
  <1> USE Constants DEF TypeOK, Inv
  <1>astray. astray' \in SUBSET Tokens
      BY DEF Next, vars, restart, Unsettled, Claimed
  <1> USE <1>astray
  <1>clock. clock \in Times
      BY DEF Times
  <1>mk. \A t \in Tasks, k \in Tokens :
          /\ task[t] \in Rows /\ claims[k] \in Claims /\ worker[k] \in Workers
      OBVIOUS
  <1>try. \A t \in Tasks : task[t].try \in 0..MaxAttempts
      BY <1>mk DEF Rows
  <1>row. \A t \in Tasks :
          /\ [task[t] EXCEPT !.status = "queued"] \in Rows
          /\ [task[t] EXCEPT !.status = "ended"] \in Rows
          /\ [task[t] EXCEPT !.launch = clock] \in Rows
          /\ [task[t] EXCEPT !.status = "running", !.run = clock] \in Rows
          /\ [task[t] EXCEPT !.status = "queued", !.launch = Never, !.run = Never] \in Rows
      BY <1>mk, <1>clock DEF Rows
  <1>wk. /\ \A k \in Tokens, s \in {"launching", "holding", "gone"} :
                [worker[k] EXCEPT !.state = s] \in Workers
         /\ Started \in Workers /\ Gone \in Workers
      BY <1>mk, <1>clock DEF Workers, Started, Gone
  <1>tok. \A t \in Tasks : task[t].status \in {"attaching", "running"} => Token(t) \in Tokens
      BY DEF Shape, RowShape
  <1>settle. \A k \in Tokens : /\ MarkedTerminal(k) \in [Tokens -> Claims]
                               /\ PrelaunchReleased(k) \in [Tokens -> Claims]
      BY TerminalSettles DEF Settles
  <1>1. CASE UNCHANGED vars
      BY <1>1 DEF vars
  <1>2. ASSUME NEW t \in Tasks, warm_spare_admission(t)
        PROVE  TypeOK'
      BY <1>2, <1>row DEF warm_spare_admission
  <1>3. ASSUME NEW t \in Tasks, reserve_task(t)
        PROVE  TypeOK'
    <2>1. <<t, task[t].try + 1>> \in Tokens /\ task[t].try + 1 \in 0..MaxAttempts
        BY <1>3, <1>try DEF reserve_task, Tokens
    <2>2. [status |-> "attaching", try |-> task[t].try + 1, launch |-> Never, run |-> Never] \in Rows
        BY <2>1 DEF Rows
    <2> QED
        BY <1>3, <2>1, <2>2, Records DEF reserve_task
  <1>4. ASSUME NEW t \in Tasks, request_cancel_task(t)
        PROVE  TypeOK'
      BY <1>4, <1>row, <1>try DEF request_cancel_task
  <1>5. ASSUME NEW t \in Tasks, finish_cancel(t)
        PROVE  TypeOK'
    <2>1. <<t, canceller[t]>> \in Tokens
        BY <1>5 DEF finish_cancel, Tokens
    <2>2. worker' \in [Tokens -> Workers]
        BY <1>5, <2>1, Killing DEF finish_cancel
    <2>3. claims' \in [Tokens -> Claims]
        BY <1>5, <2>1, <1>settle DEF finish_cancel
    <2> QED
        BY <1>5, <2>2, <2>3 DEF finish_cancel
  <1>6. ASSUME NEW t \in Tasks, requeue_task(t)
        PROVE  TypeOK'
    <2>1. worker' \in [Tokens -> Workers] /\ claims' \in [Tokens -> Claims]
        BY <1>6, <1>tok, <1>settle, Killing DEF requeue_task
    <2>2. task' \in [Tasks -> Rows]
        BY <1>6, <1>row DEF requeue_task
    <2> QED
        BY <1>6, <2>1, <2>2 DEF requeue_task
  <1>7. ASSUME NEW t \in Tasks, probe_task(t)
        PROVE  TypeOK'
      BY <1>7, <1>tok, <1>settle, <1>row DEF probe_task
  <1>8. ASSUME NEW t \in Tasks, finalize_timed_out_task(t)
        PROVE  TypeOK'
      BY <1>8, <1>tok, <1>settle, <1>row, Killing DEF finalize_timed_out_task
  <1>9. ASSUME NEW k \in Tokens, claim_launch(k)
        PROVE  TypeOK'
    <2>2. k[1] \in Tasks
        BY TokenFacts
    <2>3. task' \in [Tasks -> Rows]
        BY <1>9, <2>2, <1>row DEF claim_launch
    <2>4. worker' \in [Tokens -> Workers]
        BY <1>9, <1>wk DEF claim_launch
    <2>5. claims' \in [Tokens -> Claims]
        BY <1>9, <1>settle DEF claim_launch
    <2> QED
        BY <1>9, <2>3, <2>4, <2>5 DEF claim_launch, Goto
  <1>10. ASSUME NEW k \in Tokens, mark_launch_started(k)
         PROVE  TypeOK'
    <2>1. claims' \in [Tokens -> Claims]
        BY <1>10, <1>clock, LaunchedClaims DEF mark_launch_started
    <2> QED
        BY <1>10, <2>1 DEF mark_launch_started, Goto
  <1>11. ASSUME NEW k \in Tokens, attach_remote(k)
         PROVE  TypeOK'
    <2>1. worker' \in [Tokens -> Workers]
        BY <1>11, <1>wk DEF attach_remote
    <2> QED
        BY <1>11, <2>1 DEF attach_remote, Goto
  <1>12. ASSUME NEW k \in Tokens, attach_failed(k)
         PROVE  TypeOK'
      BY <1>12, TokenFacts, <1>settle, <1>row DEF attach_failed, Goto
  <1>13. ASSUME NEW k \in Tokens, acknowledge(k)
         PROVE  TypeOK'
    <2>1. MarkedRunning(k) \in [Tokens -> Claims]
        BY <1>mk, <1>clock, ClaimFields DEF MarkedRunning, Set
    <2>2. k[1] \in Tasks
        BY TokenFacts
    <2>3. task' \in [Tasks -> Rows]
        BY <1>13, <2>2, <1>row DEF acknowledge
    <2>4. worker' \in [Tokens -> Workers]
        BY <1>13, Killing DEF acknowledge
    <2> QED
        BY <1>13, <2>1, <2>3, <2>4 DEF acknowledge, Goto
  <1>14. ASSUME NEW k \in Tokens, checkout(k) \/ worker_ends(k)
         PROVE  TypeOK'
      BY <1>14, <1>wk DEF checkout, worker_ends
  <1>15. CASE tick
      BY <1>15 DEF tick
  <1>16. CASE refresh_license_usage_if_due
    <2>1. clock + Interval \in Times
        BY DEF Times
    <2>2. [NoQuery(clock + Interval) EXCEPT !.on = TRUE, !.start = clock] \in Queries
        BY <2>1, <1>clock DEF Queries, NoQuery
    <2> QED
        BY <1>16, <2>2 DEF refresh_license_usage_if_due
  <1>17. CASE lmstat
    <2>1. In({"holding"}) \in SUBSET Tokens
        BY DEF In
    <2>2. [query EXCEPT !.read = TRUE, !.seen = In({"holding"})] \in Queries
        BY <2>1 DEF Queries
    <2> QED
        BY <1>17, <2>2 DEF lmstat
  <1>18. CASE publish_license_snapshot
    <2>1. [ok |-> TRUE, at |-> clock, seen |-> query.seen] \in Snapshots
        BY <1>clock DEF Queries, Snapshots
    <2>2. query.due \in Times /\ query.start \in Times
        BY DEF Queries
    <2> QED
        BY <1>18, <2>1, <2>2, Records, ReconciledClaims DEF publish_license_snapshot
  <1>19. CASE query_fails
    <2>1. [snapshot EXCEPT !.ok = FALSE] \in Snapshots
        BY DEF Snapshots
    <2>2. query.due \in Times
        BY DEF Queries
    <2> QED
        BY <1>19, <2>1, <2>2, Records DEF query_fails
  <1>20. CASE restart
    <2>1. worker' \in [Tokens -> Workers]
        BY <1>20, <1>wk, <1>mk DEF restart
    <2>2. task' \in [Tasks -> Rows]
        BY <1>20, <1>row, <1>mk DEF restart
    <2>3. ASSUME NEW k \in Tokens, task[k[1]].status \in {"attaching", "running"}
          PROVE  [on |-> TRUE, state |-> task[k[1]].status,
                  launch |-> task[k[1]].launch, run |-> task[k[1]].run] \in Claims
        BY <2>3, TokenFacts, <1>mk DEF Rows, Claims
    <2>4. claims' \in [Tokens -> Claims]
        BY <1>20, <2>3, Records DEF restart
    <2> QED
        BY <1>20, <2>1, <2>2, <2>4, Records DEF restart
  <1> QED
      BY <1>1, <1>2, <1>3, <1>4, <1>5, <1>6, <1>7, <1>8, <1>9, <1>10, <1>11, <1>12, <1>13,
         <1>14, <1>15, <1>16, <1>17, <1>18, <1>19, <1>20
      DEF Next, Launch, Monitor

-----------------------------------------------------------------------------
(* Steps that end an attempt.                                              *)

(* What a row, its claims, its worker and its threads look like after a    *)
(* step that ends attempts of t: nothing else changes.                     *)
Ends(t) ==
    /\ Settles(claims', t)
    /\ \A u \in Tasks : \/ task'[u] = task[u] /\ (u = t => task[t].status = "ended")
                        \/ u = t /\ task'[t].try = task[t].try
                           /\ \/ task'[t].status = "ended"
                              \/ task'[t].status = "queued" /\ task[t].status = "running"
    /\ \A u \in Tasks : canceller'[u] = canceller[u] \/ canceller'[u] = 0
    /\ \A k \in Tokens :
          /\ worker'[k].since = worker[k].since
          /\ \/ worker'[k].state = worker[k].state
             \/ worker[k].state \in {"started", "holding"} /\ worker'[k].state = "gone"
          /\ \/ thread'[k] = thread[k]
             \/ /\ thread[k] \in {"claim", "failed"} /\ thread'[k] = "done"
                /\ ~(claims'[k].on /\ Unlaunched(claims'[k]))
                /\ k[1] = t
    /\ Strays /\ UNCHANGED <<clock, snapshot, query>>

LEMMA ClaimAfter ==
    ASSUME Inv, NEW t \in Tasks, Settles(claims', t), NEW k \in Tokens
    PROVE  /\ claims'[k].on => /\ claims[k].on
                               /\ claims'[k].launch = claims[k].launch
                               /\ claims'[k].run = claims[k].run
                               /\ Unlaunched(claims'[k]) <=> Unlaunched(claims[k])
           /\ claims[k].on /\ ~claims'[k].on => k[1] = t /\ Unlaunched(claims[k])
           /\ k[1] # t => claims'[k] = claims[k]
  <1>1. claims[k] \in Claims
      BY DEF Inv, TypeOK
  <1>2. [claims[k] EXCEPT !.state = "terminal"].on = claims[k].on
      BY <1>1 DEF Claims
  <1>3. [claims[k] EXCEPT !.state = "terminal"].launch = claims[k].launch
      BY <1>1 DEF Claims
  <1>4. [claims[k] EXCEPT !.state = "terminal"].run = claims[k].run
      BY <1>1 DEF Claims
  <1>5. \/ claims'[k] = claims[k]
        \/ k[1] = t /\ claims[k].on /\ Unlaunched(claims[k]) /\ claims'[k] = NoClaim
        \/ k[1] = t /\ claims[k].on /\ ~Unlaunched(claims[k])
           /\ claims'[k] = [claims[k] EXCEPT !.state = "terminal"]
      BY DEF Settles
  <1> HIDE DEF Inv
  <1> QED
      BY <1>2, <1>3, <1>4, <1>5, Records DEF Unlaunched

LEMMA EndStep ==
    ASSUME Inv, TypeOK', NEW t \in Tasks, Ends(t)
    PROVE  Shape'
  <1> DEFINE L == {"launching", "started", "holding"}
  <1>claim. \A k \in Tokens :
           /\ claims'[k].on => /\ claims[k].on
                               /\ claims'[k].launch = claims[k].launch
                               /\ claims'[k].run = claims[k].run
                               /\ Unlaunched(claims'[k]) <=> Unlaunched(claims[k])
           /\ claims[k].on /\ ~claims'[k].on => k[1] = t /\ Unlaunched(claims[k])
           /\ k[1] # t => claims'[k] = claims[k]
      BY ClaimAfter DEF Ends
  <1>try. \A u \in Tasks : task'[u].try = task[u].try
      BY DEF Ends
  <1>other. \A u \in Tasks \ {t} : task'[u] = task[u]
      BY DEF Ends
  <1>row. task'[t].status = "ended" \/ (task'[t].status = "queued" /\ task[t].status = "running")
      BY DEF Ends
  <1>tok. \A u \in Tasks : Token(u)' = Token(u)
      BY <1>try DEF Token
  <1>worker. \A k \in Tokens :
          /\ worker'[k].since = worker[k].since
          /\ \/ worker'[k].state = worker[k].state
             \/ worker[k].state \in {"started", "holding"} /\ worker'[k].state = "gone"
      BY DEF Ends
  <1>thread. \A k \in Tokens :
          \/ thread'[k] = thread[k]
          \/ /\ thread[k] \in {"claim", "failed"} /\ thread'[k] = "done"
             /\ ~(claims'[k].on /\ Unlaunched(claims'[k])) /\ k[1] = t
      BY DEF Ends
  <1>same. clock' = clock /\ snapshot' = snapshot /\ query' = query
      BY DEF Ends
  <1>0. Fresh /\ ThreadShape /\ RowShape /\ ClaimShape /\ Settling /\ Accounted
      BY DEF Inv, Shape
  <1>stray. /\ astray \subseteq astray'
            /\ \A k \in Tokens : /\ claims[k].on /\ ~claims'[k].on /\ claims[k].run = Never
                                 /\ worker[k].state = "launching"
                                 => k \in astray'
      BY StrayFacts DEF Ends
  <1>live. \A k \in Tokens : k \in Live' => k \in Live /\ worker'[k].state = worker[k].state
      BY <1>worker DEF Live, In
  <1>1. Fresh'
    <2> SUFFICES ASSUME NEW k \in Tokens, k[2] > task'[k[1]].try
                 PROVE  ~claims'[k].on /\ thread'[k] = "none" /\ worker'[k].state = "none"
        BY DEF Fresh
    <2>1. ~claims[k].on /\ thread[k] = "none" /\ worker[k].state = "none"
        BY <1>0, <1>try, TokenFacts DEF Fresh
    <2> QED
        BY <2>1, <1>claim, <1>worker, <1>thread
  <1>2. ThreadShape'
    <2> SUFFICES ASSUME NEW k \in Tokens
                 PROVE  /\ thread'[k] \in {"none", "claim"} => worker'[k].state = "none"
                        /\ thread'[k] \in {"mark", "ssh"} <=> worker'[k].state = "launching"
                        /\ thread'[k] \in {"claim", "mark"} =>
                              k = Token(k[1])' /\ task'[k[1]].status \in {"attaching", "ended"}
        BY DEF ThreadShape
    <2>1. k[1] \in Tasks
        BY TokenFacts
    <2>2. /\ thread[k] \in {"none", "claim"} => worker[k].state = "none"
          /\ thread[k] \in {"mark", "ssh"} <=> worker[k].state = "launching"
          /\ thread[k] \in {"claim", "mark"} =>
                k = Token(k[1]) /\ task[k[1]].status \in {"attaching", "ended"}
        BY <1>0 DEF ThreadShape
    <2>3. thread'[k] \in {"claim", "mark"} =>
              k = Token(k[1])' /\ task'[k[1]].status \in {"attaching", "ended"}
        BY <2>1, <2>2, <1>thread, <1>tok, <1>other, <1>row
    <2>5. thread'[k] \in {"none", "claim"} => worker'[k].state = "none"
        BY <2>2, <1>thread, <1>worker
    <2>6. thread'[k] \in {"mark", "ssh"} <=> worker'[k].state = "launching"
        BY <2>2, <1>thread, <1>worker
    <2> QED
        BY <2>3, <2>5, <2>6
  <1>3. RowShape'
    <2> SUFFICES ASSUME NEW u \in Tasks
                 PROVE  /\ canceller'[u] # 0 => task'[u].status = "ended"
                        /\ task'[u].status \in {"attaching", "running"} =>
                              /\ Token(u)' \in Tokens
                              /\ task'[u].run # Never => worker'[Token(u)'].since <= task'[u].run
                        /\ task'[u].status = "attaching" =>
                              /\ claims'[Token(u)'].on /\ claims'[Token(u)'].state = "attaching"
                              /\ thread'[Token(u)'] \in {"claim", "mark", "ssh", "failed", "ack", "dead"}
                              /\ thread'[Token(u)'] # "claim" => task'[u].launch # Never
                              /\ task'[u].run = Never
                        /\ task'[u].status = "running" =>
                              thread'[Token(u)'] \in {"done", "dead"} /\ task'[u].launch # Never
        BY DEF RowShape
    <2>1. CASE u = t
        BY <2>1, <1>row, <1>0 DEF RowShape, Ends
    <2>2. CASE u # t
      <3>1. task'[u] = task[u] /\ Token(u)' = Token(u) /\ Token(u)[1] # t
          BY <2>2, <1>other, <1>tok DEF Token
      <3>2. CASE task[u].status \in {"attaching", "running"}
        <4>1. Token(u) \in Tokens
            BY <3>2, <1>0 DEF RowShape
        <4>2. /\ claims'[Token(u)] = claims[Token(u)] /\ thread'[Token(u)] = thread[Token(u)]
              /\ worker'[Token(u)].since = worker[Token(u)].since
            BY <4>1, <3>1, <1>claim, <1>thread, <1>worker
        <4> QED
            BY <3>1, <4>1, <4>2, <1>0 DEF RowShape, Ends
      <3> QED
          BY <3>1, <3>2, <1>0 DEF RowShape, Ends
    <2> QED
        BY <2>1, <2>2
  <1>4. ClaimShape'
      BY <1>0, <1>claim, <1>thread, <1>worker DEF ClaimShape
  <1>5. Settling'
      BY <1>0, <1>worker, <1>same DEF Settling
  <1>6. Accounted'
    <2> SUFFICES ASSUME NEW k \in Sighted', ~claims'[k].on
                 PROVE  /\ worker'[k].state = "holding"
                        /\ snapshot'.ok => k \in snapshot'.seen
                        /\ query'.on /\ query'.read => k \in query'.seen
        BY DEF Accounted
    <2>1. /\ k \in Tokens /\ k \in Live /\ worker'[k].state = worker[k].state
          /\ k \in Sighted /\ k \notin astray'
        BY <1>live, <1>stray DEF Sighted, Live, In
    <2>2. ~claims[k].on
      <3> SUFFICES ASSUME claims[k].on
                   PROVE  FALSE
          OBVIOUS
      <3>1. k[1] = t /\ Unlaunched(claims[k])
          BY <2>1, <1>claim
      <3>2. thread[k] \in {"claim", "mark"}
          BY <3>1, <2>1, <1>0 DEF ClaimShape
      <3>3. worker[k].state = "launching"
          BY <3>2, <2>1, <1>0 DEF ThreadShape, Live, In
      <3> QED
          BY <3>1, <3>3, <2>1, <1>stray DEF Unlaunched
    <2> QED
        BY <2>1, <2>2, <1>0, <1>same DEF Accounted
  <1> QED
      BY <1>1, <1>2, <1>3, <1>4, <1>5, <1>6 DEF Shape

LEMMA EndActions ==
    ASSUME Inv, TypeOK', Strays,
           \/ \E t \in Tasks : \/ finish_cancel(t) \/ requeue_task(t) \/ probe_task(t)
                               \/ finalize_timed_out_task(t)
           \/ \E k \in Tokens : \/ claim_launch(k) /\ ~OwnsRow(k)
                                \/ attach_failed(k) /\ OwnsRow(k)
    PROVE  \E t \in Tasks : Ends(t)
  <1>0. /\ Fresh /\ ThreadShape /\ RowShape /\ ClaimShape /\ Settling /\ Accounted
        /\ claims \in [Tokens -> Claims] /\ worker \in [Tokens -> Workers]
        /\ task \in [Tasks -> Rows] /\ thread \in [Tokens -> {"none", "claim", "mark", "ssh",
                "failed", "ack", "done", "dead"}]
        /\ canceller \in [Tasks -> 0..MaxAttempts]
      BY DEF Inv, Shape, TypeOK
  <1>rec. \A t \in Tasks : /\ [task[t] EXCEPT !.status = "ended"].status = "ended"
                           /\ [task[t] EXCEPT !.status = "ended"].try = task[t].try
                           /\ [task[t] EXCEPT !.status = "queued", !.launch = Never,
                                              !.run = Never].status = "queued"
                           /\ [task[t] EXCEPT !.status = "queued", !.launch = Never,
                                              !.run = Never].try = task[t].try
      BY <1>0 DEF Rows
  <1>tok. \A t \in Tasks : Token(t)[1] = t
      BY DEF Token
  <1>1. ASSUME NEW t \in Tasks, finish_cancel(t)
        PROVE  Ends(t)
    <2> DEFINE c == <<t, canceller[t]>>
    <2>1. c \in Tokens /\ c[1] = t /\ claims' = MarkedTerminal(c) /\ Kill(c)
        BY <1>1, <1>0, Constants DEF finish_cancel, Tokens
    <2>2. Settles(claims', t)
        BY <2>1, <1>0, TerminalSettles
    <2>3. task[t].status = "ended" /\ task' = task /\ thread' = thread
        BY <1>1, <1>0 DEF finish_cancel, RowShape
    <2>5. \A u \in Tasks : canceller'[u] = canceller[u] \/ canceller'[u] = 0
        BY <1>1, <1>0 DEF finish_cancel
    <2>6. \A k \in Tokens :
             /\ worker'[k].since = worker[k].since
             /\ \/ worker'[k].state = worker[k].state
                \/ worker[k].state \in {"started", "holding"} /\ worker'[k].state = "gone"
        BY <2>1, <1>0, Killing
    <2> HIDE DEF c
    <2> QED
        BY <1>1, <2>2, <2>3, <2>5, <2>6 DEF Ends, finish_cancel
  <1>2. ASSUME NEW t \in Tasks, \/ requeue_task(t) \/ probe_task(t) \/ finalize_timed_out_task(t)
        PROVE  Ends(t)
    <2> DEFINE c == Token(t)
    <2>0. c \in Tokens /\ c[1] = t /\ thread[c] \in {"done", "dead"}
        BY <1>2, <1>0, <1>tok DEF requeue_task, probe_task, finalize_timed_out_task, RowShape
    <2>1. claims' = MarkedTerminal(c) /\ thread' = thread /\ canceller' = canceller
        BY <1>2 DEF requeue_task, probe_task, finalize_timed_out_task
    <2>2. Settles(claims', t)
        BY <2>0, <2>1, <1>0, TerminalSettles
    <2>3. /\ \A u \in Tasks \ {t} : task'[u] = task[u]
          /\ task'[t].try = task[t].try
          /\ task'[t].status = "ended" \/ (task'[t].status = "queued" /\ task[t].status = "running")
        BY <1>2, <1>0, <1>rec DEF requeue_task, probe_task, finalize_timed_out_task
    <2>5. Kill(c) \/ (worker' = worker /\ worker[c].state = "gone")
        BY <1>2 DEF requeue_task, probe_task, finalize_timed_out_task
    <2>6. \A k \in Tokens :
             /\ worker'[k].since = worker[k].since
             /\ \/ worker'[k].state = worker[k].state
                \/ k = c /\ worker[k].state \in {"started", "holding"} /\ worker'[k].state = "gone"
        BY <2>0, <2>5, <1>0, Killing
    <2>10. UNCHANGED <<clock, snapshot, query>>
        BY <1>2 DEF requeue_task, probe_task, finalize_timed_out_task
    <2> HIDE DEF c
    <2> QED
        BY <2>1, <2>2, <2>3, <2>6, <2>10 DEF Ends
  <1>3. ASSUME NEW k \in Tokens, claim_launch(k), ~OwnsRow(k)
        PROVE  Ends(k[1])
    <2> DEFINE t == k[1]
    <2>0. t \in Tasks /\ thread[k] = "claim" /\ k = Token(t) /\ task[t].status = "ended"
        BY <1>3, <1>0, TokenFacts DEF claim_launch, ThreadShape, OwnsRow
    <2>1. claims' = PrelaunchReleased(k) /\ thread' = [thread EXCEPT ![k] = "done"]
          /\ UNCHANGED <<clock, task, canceller, worker, snapshot, query>>
        BY <1>3 DEF claim_launch, Goto
    <2>2. Settles(claims', t)
        BY <2>1, <1>0, TerminalSettles
    <2>3. ~(claims'[k].on /\ Unlaunched(claims'[k]))
        BY <2>1, ClaimsForType, Records DEF PrelaunchReleased, Set
    <2>5. \A j \in Tokens : thread'[j] = thread[j] \/ (j = k /\ thread'[j] = "done")
        BY <2>1, <1>0
    <2> QED
        BY <2>0, <2>1, <2>2, <2>3, <2>5 DEF Ends
  <1>4. ASSUME NEW k \in Tokens, attach_failed(k), OwnsRow(k)
        PROVE  Ends(k[1])
    <2> DEFINE t == k[1]
    <2>0. t \in Tasks /\ thread[k] = "failed" /\ k = Token(t)
        BY <1>4, <1>0, TokenFacts DEF attach_failed, OwnsRow
    <2>1. /\ claims' = MarkedTerminal(k) /\ thread' = [thread EXCEPT ![k] = "done"]
          /\ task' = [task EXCEPT ![t].status = "ended"]
          /\ UNCHANGED <<clock, canceller, worker, snapshot, query>>
        BY <1>4 DEF attach_failed, Goto
    <2>2. Settles(claims', t)
        BY <2>1, <1>0, TerminalSettles
    <2>3. ~(claims'[k].on /\ Unlaunched(claims'[k]))
        BY <2>0, <2>2, <1>0, ClaimAfter DEF ClaimShape
    <2>5. \A j \in Tokens : thread'[j] = thread[j] \/ (j = k /\ thread'[j] = "done")
        BY <2>1, <1>0
    <2>6. /\ \A u \in Tasks \ {t} : task'[u] = task[u]
          /\ task'[t].try = task[t].try /\ task'[t].status = "ended"
        BY <2>0, <2>1, <1>0, <1>rec
    <2> QED
        BY <2>0, <2>1, <2>2, <2>3, <2>5, <2>6 DEF Ends
  <1> QED
      BY <1>1, <1>2, <1>3, <1>4, TokenFacts

-----------------------------------------------------------------------------
(* Steps of workers and of threads that touch no row and no claim.         *)

Moves ==
    /\ \A k \in Tokens :
          /\ worker'[k].since \in {worker[k].since, clock, 0}
          /\ worker'[k].since # worker[k].since => worker[k].state = "launching"
          /\ \/ worker'[k].state = worker[k].state /\ worker'[k].since = worker[k].since
             \/ worker[k].state = "launching" /\ worker'[k].state = "gone"
             \/ /\ worker[k].state = "launching" /\ worker'[k].state = "started"
                /\ worker'[k].since = clock
             \/ worker[k].state = "started" /\ worker'[k].state \in {"holding", "gone"}
             \/ worker[k].state = "holding" /\ worker'[k].state = "gone"
          /\ \/ thread'[k] = thread[k] /\ (worker'[k].state = worker[k].state
                                           \/ worker[k].state # "launching")
             \/ /\ thread[k] = "ssh" /\ worker'[k].state # "launching"
                /\ thread'[k] \in {"ack", "failed"}
             \/ thread[k] \in {"failed", "ack"} /\ ~OwnsRow(k) /\ thread'[k] = "done"
    /\ Strays /\ UNCHANGED <<clock, task, claims, canceller, snapshot, query>>

LEMMA MoveStep ==
    ASSUME Inv, Moves
    PROVE  Shape'
  <1>0. Fresh /\ ThreadShape /\ RowShape /\ ClaimShape /\ Settling /\ Accounted
      BY DEF Inv, Shape
  <1>same. /\ clock' = clock /\ task' = task /\ claims' = claims
           /\ canceller' = canceller /\ snapshot' = snapshot /\ query' = query
           /\ \A u : Token(u)' = Token(u)
      BY DEF Moves, Token
  <1>live. \A k \in Sighted' : k \in Tokens /\ k \in Sighted
    <2>1. astray \subseteq astray'
        BY StrayFacts DEF Moves
    <2>2. \A k \in Tokens : k \in Live' => k \in Live
        BY DEF Live, In, Moves
    <2> QED
        BY <2>1, <2>2 DEF Sighted, Live, In
  <1>types. /\ clock \in Nat /\ \A k \in Tokens : worker[k].since \in Nat
            /\ query.start \in Nat
      BY Constants DEF Inv, TypeOK, Workers, Queries
  <1>1. Fresh'
      BY <1>0, <1>same DEF Fresh, Moves
  <1>2. ThreadShape'
      BY <1>0, <1>same DEF ThreadShape, Moves
  <1>3. RowShape'
    <2>1. ASSUME NEW t \in Tasks, task[t].status \in {"attaching", "running"}
          PROVE  /\ task[t].status = "running" => worker'[Token(t)].since = worker[Token(t)].since
                 /\ thread'[Token(t)] = "done" => thread[Token(t)] = "done"
                 /\ thread'[Token(t)] = "claim" => thread[Token(t)] = "claim"
                 /\ thread[Token(t)] \in {"claim", "mark", "ssh", "failed", "ack", "dead"}
                    /\ task[t].status = "attaching" =>
                    thread'[Token(t)] \in {"claim", "mark", "ssh", "failed", "ack", "dead"}
                 /\ thread[Token(t)] \in {"done", "dead"} => thread'[Token(t)] = thread[Token(t)]
      <3>1. Token(t) \in Tokens
          BY <2>1, <1>0 DEF RowShape
      <3>2. task[t].status = "attaching" => OwnsRow(Token(t))
          BY DEF OwnsRow, Token
      <3>3. task[t].status = "running" => /\ thread[Token(t)] \in {"done", "dead"}
                                          /\ worker[Token(t)].state # "launching"
          BY <3>1, <1>0 DEF RowShape, ThreadShape
      <3> QED
          BY <3>1, <3>2, <3>3, <2>1 DEF Moves
    <2>2. SUFFICES ASSUME NEW t \in Tasks
                   PROVE  /\ canceller[t] # 0 => task[t].status = "ended"
                          /\ task[t].status \in {"attaching", "running"} =>
                                /\ Token(t) \in Tokens
                                /\ task[t].run # Never =>
                                      worker'[Token(t)].since <= task[t].run
                          /\ task[t].status = "attaching" =>
                                /\ claims[Token(t)].on /\ claims[Token(t)].state = "attaching"
                                /\ thread'[Token(t)] \in
                                      {"claim", "mark", "ssh", "failed", "ack", "dead"}
                                /\ thread'[Token(t)] # "claim" => task[t].launch # Never
                                /\ task[t].run = Never
                          /\ task[t].status = "running" =>
                                thread'[Token(t)] \in {"done", "dead"} /\ task[t].launch # Never
        BY <1>same DEF RowShape
    <2>3. thread[Token(t)] = "claim" => thread'[Token(t)] = "claim" \/ Token(t) \notin Tokens
        BY DEF Moves
    <2> QED
        BY <2>1, <2>3, <1>0 DEF RowShape
  <1>4. ClaimShape'
      BY <1>0, <1>same DEF ClaimShape, Moves
  <1>5. Settling'
    <2> SUFFICES ASSUME NEW k \in Tokens
                 PROVE  /\ worker'[k].since <= clock
                        /\ worker'[k].state = "started" => clock < worker'[k].since + Settlement
                        /\ worker'[k].state \in {"started", "holding"} /\ query.on /\ query.read
                              /\ worker'[k].since + Settlement <= query.start => k \in query.seen
        BY <1>0, <1>same DEF Settling
    <2>0. /\ worker[k].since <= clock
          /\ worker[k].state = "started" => clock < worker[k].since + Settlement
          /\ worker[k].state \in {"started", "holding"} /\ query.on /\ query.read
                /\ worker[k].since + Settlement <= query.start => k \in query.seen
          /\ query.on => query.start <= clock
        BY <1>0 DEF Settling
    <2>1. CASE worker'[k].state = "started" /\ worker[k].state = "launching"
      <3>1. worker'[k].since = clock
          BY <2>1 DEF Moves
      <3> QED
          BY <3>1, <2>0, <2>1, <1>types, Constants
    <2>2. CASE ~(worker'[k].state = "started" /\ worker[k].state = "launching")
      <3>1. /\ worker'[k].state = "started" => worker[k].state = "started"
            /\ worker'[k].state \in {"started", "holding"} =>
                  /\ worker'[k].since = worker[k].since
                  /\ worker[k].state \in {"started", "holding"}
            /\ worker'[k].since \in {worker[k].since, clock, 0}
          BY <2>2 DEF Moves
      <3> QED
          BY <3>1, <2>0, <1>types
    <2> QED
        BY <2>1, <2>2
  <1>6. Accounted'
    <2>1. \A k \in Sighted' : worker[k].state = "holding" => worker'[k].state = "holding"
        BY <1>live DEF Sighted, Live, In, Moves
    <2> QED
        BY <2>1, <1>0, <1>same, <1>live DEF Accounted
  <1> QED
      BY <1>1, <1>2, <1>3, <1>4, <1>5, <1>6 DEF Shape

LEMMA MoveActions ==
    ASSUME Inv, Strays, NEW k \in Tokens,
           \/ attach_remote(k) \/ (attach_failed(k) /\ ~OwnsRow(k))
           \/ (acknowledge(k) /\ ~OwnsRow(k)) \/ checkout(k) \/ worker_ends(k)
    PROVE  Moves
  <1>0. /\ ThreadShape /\ worker \in [Tokens -> Workers]
        /\ thread \in [Tokens -> {"none", "claim", "mark", "ssh", "failed", "ack", "done", "dead"}]
      BY DEF Inv, Shape, TypeOK
  <1>w. \A s \in {"started", "holding", "gone"} :
            /\ [worker[k] EXCEPT !.state = s].state = s
            /\ [worker[k] EXCEPT !.state = s].since = worker[k].since
      BY <1>0 DEF Workers
  <1>1. CASE attach_remote(k)
    <2>1. PICK w \in {Started, Gone} : worker' = [worker EXCEPT ![k] = w]
        BY <1>1 DEF attach_remote
    <2>2. /\ \A j \in Tokens \ {k} : worker'[j] = worker[j]
          /\ \/ worker'[k].state = "started" /\ worker'[k].since = clock
             \/ worker'[k].state = "gone" /\ worker'[k].since = 0
        BY <2>1, <1>0 DEF Started, Gone
    <2>3. /\ thread[k] = "ssh" /\ worker[k].state = "launching"
          /\ thread'[k] \in {"ack", "failed"}
          /\ \A j \in Tokens \ {k} : thread'[j] = thread[j]
        BY <1>1, <1>0 DEF attach_remote, Goto, ThreadShape
    <2>4. UNCHANGED <<clock, task, claims, canceller, snapshot, query>>
        BY <1>1 DEF attach_remote
    <2> QED
        BY <2>2, <2>3, <2>4 DEF Moves
  <1>2. CASE attach_failed(k) /\ ~OwnsRow(k)
      BY <1>2, <1>0 DEF attach_failed, Goto, Moves
  <1>3. CASE acknowledge(k) /\ ~OwnsRow(k)
    <2>1. /\ thread[k] = "ack" /\ thread'[k] = "done"
          /\ \A j \in Tokens \ {k} : thread'[j] = thread[j]
        BY <1>3, <1>0 DEF acknowledge, Goto
    <2>2. /\ \A j \in Tokens : worker'[j].since = worker[j].since
          /\ \A j \in Tokens : \/ worker'[j].state = worker[j].state
                               \/ j = k /\ worker[j].state \in {"started", "holding"}
                                  /\ worker'[j].state = "gone"
        BY <1>3, <1>0, Killing DEF acknowledge
    <2>3. UNCHANGED <<clock, task, claims, canceller, snapshot, query>>
        BY <1>3 DEF acknowledge
    <2> QED
        BY <1>3, <2>1, <2>2, <2>3 DEF Moves
  <1>4. CASE checkout(k) \/ worker_ends(k)
    <2>1. PICK s \in {"holding", "gone"} : worker' = [worker EXCEPT ![k].state = s]
                                           /\ (s = "holding" => worker[k].state = "started")
        BY <1>4 DEF checkout, worker_ends
    <2>2. /\ \A j \in Tokens \ {k} : worker'[j] = worker[j]
          /\ worker'[k].state = s /\ worker'[k].since = worker[k].since
        BY <2>1, <1>0, <1>w
    <2>3. worker[k].state \in {"started", "holding"}
          /\ UNCHANGED <<clock, thread, task, claims, canceller, snapshot, query>>
        BY <1>4 DEF checkout, worker_ends
    <2> QED
        BY <2>1, <2>2, <2>3 DEF Moves
  <1> QED
      BY <1>1, <1>2, <1>3, <1>4

-----------------------------------------------------------------------------
(* Steps of the clock and of the lmstat query.                             *)

LEMMA TickStep ==
    ASSUME Inv, tick, Strays
    PROVE  Shape'
  <1>0. Fresh /\ ThreadShape /\ RowShape /\ ClaimShape /\ Settling /\ Accounted
      BY DEF Inv, Shape
  <1>same. /\ task' = task /\ claims' = claims /\ thread' = thread
           /\ canceller' = canceller /\ worker' = worker /\ snapshot' = snapshot /\ query' = query
           /\ \A u : Token(u)' = Token(u)
      BY DEF tick, Token
  <1>seen. Sighted' \subseteq Sighted /\ Sighted \subseteq Tokens
      BY StrayFacts DEF Sighted, Live, In, tick
  <1>types. /\ clock \in Nat /\ clock' = clock + 1 /\ \A k \in Tokens : worker[k].since \in Nat
            /\ query.start \in Nat
      BY Constants DEF Inv, TypeOK, tick, Workers, Queries
  <1>1. Fresh' /\ RowShape' /\ ClaimShape' /\ Accounted'
      BY <1>0, <1>same, <1>seen DEF Fresh, RowShape, ClaimShape, Accounted
  <1>2. ThreadShape'
      BY <1>0, <1>same DEF ThreadShape
  <1>3. Settling'
    <2>1. \A k \in Tokens : worker[k].state = "started" =>
                               clock < worker[k].since + Settlement - 1
        BY DEF tick, In
    <2> QED
        BY <2>1, <1>0, <1>same, <1>types, Constants DEF Settling
  <1> QED
      BY <1>1, <1>2, <1>3 DEF Shape

LEMMA QueryStep ==
    ASSUME Inv, refresh_license_usage_if_due \/ lmstat \/ query_fails, Strays
    PROVE  Shape'
  <1>0. Fresh /\ ThreadShape /\ RowShape /\ ClaimShape /\ Settling /\ Accounted
      BY DEF Inv, Shape
  <1>same. /\ clock' = clock /\ task' = task /\ claims' = claims
           /\ thread' = thread /\ canceller' = canceller /\ worker' = worker
           /\ \A u : Token(u)' = Token(u)
      BY DEF refresh_license_usage_if_due, lmstat, query_fails, Token
  <1>seen. Sighted' \subseteq Sighted /\ Sighted \subseteq Tokens
      BY <1>same, StrayFacts DEF Sighted, Live, In
  <1>types. /\ clock \in Nat /\ \A k \in Tokens : worker[k].since \in Nat
            /\ query.start \in Nat /\ snapshot \in Snapshots /\ query \in Queries
            /\ query.due \in Times
      BY Constants DEF Inv, TypeOK, Workers, Queries
  <1>1. Fresh' /\ RowShape' /\ ClaimShape' /\ ThreadShape'
      BY <1>0, <1>same DEF Fresh, RowShape, ClaimShape, ThreadShape
  <1>2. Settling' /\ Accounted'
    <2>1. CASE refresh_license_usage_if_due
      <3>1. query'.start = clock /\ ~query'.read /\ snapshot' = snapshot
          BY <2>1 DEF refresh_license_usage_if_due, NoQuery
      <3> QED
          BY <3>1, <1>0, <1>same, <1>seen, <1>types DEF Settling, Accounted
    <2>2. CASE query_fails
      <3>1. ~query'.on
          BY <2>2, <1>types, Records DEF query_fails
      <3>2. ~snapshot'.ok
          BY <2>2, <1>types DEF query_fails, Snapshots
      <3> QED
          BY <3>1, <3>2, <1>0, <1>same, <1>seen, <1>types DEF Settling, Accounted
    <2>3. CASE lmstat
      <3>1. /\ query'.start = query.start /\ query'.on = query.on /\ query.on
            /\ query'.seen = In({"holding"}) /\ snapshot' = snapshot
          BY <2>3, <1>types DEF lmstat, Queries
      <3>2. \A k \in Tokens : worker[k].state = "holding" => k \in In({"holding"})
          BY DEF In
      <3>3. Accounted'
          BY <3>1, <3>2, <1>0, <1>same, <1>seen DEF Accounted
      <3>4. ASSUME NEW k \in Tokens, worker[k].state \in {"started", "holding"},
                   worker[k].since + Settlement <= query.start
            PROVE  k \in query'.seen
        <4>1. ~(clock < worker[k].since + Settlement)
            BY <3>1, <3>4, <1>0, <1>types, Constants DEF Settling
        <4> QED
            BY <3>4, <4>1, <3>1, <3>2, <1>0 DEF Settling
      <3> QED
          BY <3>1, <3>3, <3>4, <1>0, <1>same DEF Settling
    <2> QED
        BY <2>1, <2>2, <2>3
  <1> QED
      BY <1>1, <1>2 DEF Shape

(* A worker whose claim is dropped was counted by the query.               *)
LEMMA PublishStep ==
    ASSUME Inv, publish_license_snapshot, Strays
    PROVE  Shape'
  <1>0. Fresh /\ ThreadShape /\ RowShape /\ ClaimShape /\ Settling /\ Accounted
      BY DEF Inv, Shape
  <1>same. /\ clock' = clock /\ task' = task
           /\ thread' = thread /\ canceller' = canceller /\ worker' = worker
           /\ \A u : Token(u)' = Token(u)
      BY DEF publish_license_snapshot, Token
  <1>seen. /\ Sighted' \subseteq Sighted /\ Sighted \subseteq Tokens
           /\ \A k \in Sighted' :
                 claims[k].on /\ ~claims'[k].on /\ claims[k].run = Never =>
                 /\ worker[k].state # "launching"
                 /\ ~(worker[k].since > claims[k].launch)
      BY <1>same, StrayFacts DEF Sighted, Live, In
  <1>types. /\ clock \in Nat /\ \A k \in Tokens : worker[k].since \in Nat /\ claims[k] \in Claims
            /\ query.start \in Times /\ query.start \in Nat /\ query.due \in Times
            /\ claims \in [Tokens -> Claims]
      BY Constants DEF Inv, TypeOK, Workers, Queries
  <1>claim. \A j \in Tokens :
               \/ claims'[j] = claims[j]
               \/ /\ claims'[j] = NoClaim /\ claims[j].on
                  /\ claims[j].state # "attaching" /\ ~Unlaunched(claims[j])
                  /\ query.start >= Anchor(claims[j]) + Settlement
      BY <1>types, ReconciledClaims DEF publish_license_snapshot
  <1>q. ~query'.on /\ query.on /\ query.read /\ snapshot'.seen = query.seen
      BY <1>types, Records DEF publish_license_snapshot
  <1>1. Fresh' /\ ClaimShape'
      BY <1>0, <1>same, <1>claim, Records DEF Fresh, ClaimShape
  <1>2. ThreadShape'
      BY <1>0, <1>same DEF ThreadShape
  <1>3. RowShape'
    <2>1. ASSUME NEW t \in Tasks, task[t].status = "attaching"
          PROVE  claims'[Token(t)] = claims[Token(t)]
        BY <2>1, <1>0, <1>claim DEF RowShape
    <2> QED
        BY <2>1, <1>0, <1>same DEF RowShape
  <1>4. Settling'
      BY <1>0, <1>same, <1>q DEF Settling
  <1>5. Accounted'
    <2> SUFFICES ASSUME NEW k \in Sighted', ~claims'[k].on
                 PROVE  worker[k].state = "holding" /\ k \in query.seen
        BY <1>same, <1>q DEF Accounted
    <2>1. k \in Tokens /\ worker[k].state \in {"launching", "started", "holding"}
        BY <1>seen DEF Sighted, Live, In
    <2>2. CASE claims'[k] = claims[k]
        BY <2>2, <1>seen, <1>0, <1>q DEF Accounted
    <2>3. CASE claims'[k] # claims[k]
      <3>1. /\ claims[k].on /\ ~Unlaunched(claims[k])
            /\ query.start >= Anchor(claims[k]) + Settlement
          BY <2>1, <2>3, <1>claim
      <3>a. claims[k].launch \in Nat /\ claims[k].run \in Nat
          BY <2>1, <1>types, Constants DEF Claims
      <3>2. /\ Anchor(claims[k]) \in Nat /\ worker[k].since <= Anchor(claims[k])
            /\ worker[k].state # "launching"
        <4>1. CASE claims[k].run = Never
          <5>1. worker[k].state # "launching" /\ ~(worker[k].since > claims[k].launch)
              BY <4>1, <3>1, <1>seen
          <5> QED
              BY <4>1, <5>1, <3>a, <2>1, <1>types DEF Anchor
        <4>2. CASE claims[k].run # Never
            BY <4>2, <3>1, <3>a, <2>1, <1>0 DEF ClaimShape, Anchor
        <4> QED
            BY <4>1, <4>2
      <3>3. worker[k].since + Settlement <= query.start
          BY <2>1, <3>1, <3>2, <1>types, Constants
      <3>4. ~(clock < worker[k].since + Settlement)
          BY <2>1, <3>3, <1>0, <1>types, <1>q, Constants DEF Settling
      <3> QED
          BY <2>1, <3>2, <3>3, <3>4, <1>0, <1>q DEF Settling
    <2> QED
        BY <2>2, <2>3
  <1> QED
      BY <1>1, <1>2, <1>3, <1>4, <1>5 DEF Shape

-----------------------------------------------------------------------------
(* Steps that start an attempt or let it run.                              *)

(* The rows after a step that writes one of them.                          *)
LEMMA RowFields ==
    ASSUME task \in [Tasks -> Rows], NEW t \in Tasks, NEW s, NEW at
    PROVE  /\ [task[t] EXCEPT !.status = s].status = s
           /\ [task[t] EXCEPT !.status = s].try = task[t].try
           /\ [task[t] EXCEPT !.status = s].launch = task[t].launch
           /\ [task[t] EXCEPT !.status = s].run = task[t].run
           /\ [task[t] EXCEPT !.launch = at].status = task[t].status
           /\ [task[t] EXCEPT !.launch = at].try = task[t].try
           /\ [task[t] EXCEPT !.launch = at].launch = at
           /\ [task[t] EXCEPT !.launch = at].run = task[t].run
           /\ [task[t] EXCEPT !.status = s, !.run = at].status = s
           /\ [task[t] EXCEPT !.status = s, !.run = at].try = task[t].try
           /\ [task[t] EXCEPT !.status = s, !.run = at].launch = task[t].launch
           /\ [task[t] EXCEPT !.status = s, !.run = at].run = at
  BY DEF Rows

(* A row that becomes queued or ended.                                     *)
LEMMA StatusStep ==
    ASSUME Inv, UNCHANGED <<clock, claims, thread, worker, snapshot, query>>, NEW t \in Tasks,
           Strays,
           task' = [task EXCEPT ![t].status = "ended"]
              \/ (task' = [task EXCEPT ![t].status = "queued"] /\ task[t].status = "none"
                  /\ canceller' = canceller),
           \A u \in Tasks \ {t} : canceller'[u] = canceller[u]
    PROVE  Shape'
  <1>0. Fresh /\ ThreadShape /\ RowShape /\ ClaimShape /\ Settling /\ Accounted
        /\ task \in [Tasks -> Rows]
      BY DEF Inv, Shape, TypeOK
  <1>same. /\ clock' = clock /\ claims' = claims
           /\ thread' = thread /\ worker' = worker /\ snapshot' = snapshot /\ query' = query
      OBVIOUS
  <1>seen. Sighted' \subseteq Sighted /\ Sighted \subseteq Tokens
      BY StrayFacts DEF Sighted, Live, In
  <1>row. /\ \A u \in Tasks \ {t} : task'[u] = task[u]
          /\ task'[t].try = task[t].try
          /\ task'[t].status = "ended" \/ (task'[t].status = "queued" /\ task[t].status = "none"
                                           /\ canceller' = canceller)
    <2>1. \A s \in {"ended", "queued"} : /\ [task[t] EXCEPT !.status = s].status = s
                                        /\ [task[t] EXCEPT !.status = s].try = task[t].try
        BY <1>0, RowFields
    <2> QED
        BY <2>1, <1>0
  <1>tok. \A u \in Tasks : Token(u)' = Token(u) /\ task'[u].try = task[u].try
      BY <1>row DEF Token
  <1>1. Fresh'
      BY <1>0, <1>same, <1>tok, TokenFacts DEF Fresh
  <1>2. ThreadShape'
    <2> SUFFICES ASSUME NEW k \in Tokens
                 PROVE  thread[k] \in {"claim", "mark"} =>
                            k = Token(k[1])' /\ task'[k[1]].status \in {"attaching", "ended"}
        BY <1>0, <1>same DEF ThreadShape
    <2>1. k[1] \in Tasks
        BY TokenFacts
    <2> QED
        BY <2>1, <1>0, <1>row, <1>tok DEF ThreadShape
  <1>3. RowShape'
    <2>1. ASSUME NEW u \in Tasks \ {t}
          PROVE  task'[u] = task[u] /\ canceller'[u] = canceller[u] /\ Token(u)' = Token(u)
        BY <1>row, <1>tok
    <2> QED
        BY <2>1, <1>0, <1>row, <1>same DEF RowShape
  <1>4. ClaimShape' /\ Settling' /\ Accounted'
      BY <1>0, <1>same, <1>seen DEF ClaimShape, Settling, Accounted
  <1> QED
      BY <1>1, <1>2, <1>3, <1>4 DEF Shape

LEMMA StatusActions ==
    ASSUME Inv, Strays, NEW t \in Tasks, warm_spare_admission(t) \/ request_cancel_task(t)
    PROVE  Shape'
  <1>0. canceller \in [Tasks -> 0..MaxAttempts]
      BY DEF Inv, TypeOK
  <1>1. CASE warm_spare_admission(t)
      BY <1>1, StatusStep DEF warm_spare_admission
  <1>2. CASE request_cancel_task(t)
    <2>1. \A u \in Tasks \ {t} : canceller'[u] = canceller[u]
        BY <1>2, <1>0 DEF request_cancel_task
    <2> QED
        BY <1>2, <2>1, StatusStep DEF request_cancel_task
  <1> QED
      BY <1>1, <1>2

LEMMA ReserveStep ==
    ASSUME Inv, Strays, NEW t \in Tasks, reserve_task(t)
    PROVE  Shape'
  <1> DEFINE n == task[t].try + 1
             k == <<t, n>>
             new == [status |-> "attaching", try |-> n, launch |-> Never, run |-> Never]
  <1>0. Fresh /\ ThreadShape /\ RowShape /\ ClaimShape /\ Settling /\ Accounted
        /\ task \in [Tasks -> Rows] /\ claims \in [Tokens -> Claims]
        /\ thread \in [Tokens -> {"none", "claim", "mark", "ssh", "failed", "ack", "done", "dead"}]
      BY DEF Inv, Shape, TypeOK
  <1>k. k \in Tokens /\ k[1] = t /\ k[2] = n /\ n > task[t].try /\ task[t].try \in Nat
      BY <1>0, Constants DEF reserve_task, Rows, Tokens
  <1>old. task[t].status = "queued" /\ ~claims[k].on /\ thread[k] = "none"
          /\ worker[k].state = "none"
      BY <1>0, <1>k DEF reserve_task, Fresh
  <1>same. /\ clock' = clock /\ canceller' = canceller
           /\ worker' = worker /\ snapshot' = snapshot /\ query' = query
      BY DEF reserve_task
  <1>seen. Sighted' \subseteq Sighted /\ Sighted \subseteq Tokens
      BY <1>same, StrayFacts DEF Sighted, Live, In
  <1>row. /\ \A u \in Tasks \ {t} : task'[u] = task[u] /\ Token(u)' = Token(u)
          /\ task'[t] = new /\ Token(t)' = k
      BY <1>0 DEF reserve_task, Token
  <1>new. new.status = "attaching" /\ new.try = n /\ new.launch = Never /\ new.run = Never
      OBVIOUS
  <1>claim. (\A j \in Tokens \ {k} : claims'[j] = claims[j]) /\ claims'[k] = NewClaim
      BY <1>0, <1>k DEF reserve_task
  <1>thread. (\A j \in Tokens \ {k} : thread'[j] = thread[j]) /\ thread'[k] = "claim"
      BY <1>0, <1>k DEF reserve_task
  <1> HIDE DEF n, k, new
  <1>1. Fresh'
    <2> SUFFICES ASSUME NEW j \in Tokens, j[2] > task'[j[1]].try
                 PROVE  ~claims'[j].on /\ thread'[j] = "none" /\ worker'[j].state = "none"
        BY DEF Fresh
    <2>0. j[1] \in Tasks /\ j[2] \in Nat
        BY TokenFacts, Constants
    <2>1. j # k /\ j[2] > task[j[1]].try
        BY <2>0, <1>k, <1>row, <1>new DEF n
    <2> QED
        BY <2>1, <1>0, <1>claim, <1>thread, <1>same DEF Fresh
  <1>2. ThreadShape'
    <2> SUFFICES ASSUME NEW j \in Tokens
                 PROVE  /\ thread'[j] \in {"none", "claim"} => worker[j].state = "none"
                        /\ thread'[j] \in {"mark", "ssh"} <=> worker[j].state = "launching"
                        /\ thread'[j] \in {"claim", "mark"} =>
                              j = Token(j[1])' /\ task'[j[1]].status \in {"attaching", "ended"}
        BY <1>same DEF ThreadShape
    <2>0. j[1] \in Tasks
        BY TokenFacts
    <2>1. CASE j = k
        BY <2>1, <1>old, <1>k, <1>row, <1>new, <1>thread, <1>0
    <2>2. CASE j # k
      <3>1. thread'[j] = thread[j]
          BY <2>2, <1>thread
      <3>2. thread[j] \in {"claim", "mark"} => j[1] # t
          BY <1>0, <1>old DEF ThreadShape
      <3>3. thread[j] \in {"claim", "mark"} =>
                task'[j[1]] = task[j[1]] /\ Token(j[1])' = Token(j[1])
          BY <2>0, <3>2, <1>row
      <3> QED
          BY <3>1, <3>3, <1>0 DEF ThreadShape
    <2> QED
        BY <2>1, <2>2
  <1>3. RowShape'
    <2>1. ASSUME NEW u \in Tasks \ {t}
          PROVE  /\ task'[u] = task[u] /\ Token(u)' = Token(u) /\ canceller'[u] = canceller[u]
                 /\ Token(u) \in Tokens => /\ claims'[Token(u)] = claims[Token(u)]
                                           /\ thread'[Token(u)] = thread[Token(u)]
      <3>1. Token(u) # k
          BY DEF Token, k
      <3> QED
          BY <3>1, <1>row, <1>same, <1>claim, <1>thread
    <2>2. /\ canceller'[t] = 0 /\ Token(t)' \in Tokens /\ task'[t].launch = Never
          /\ task'[t].run = Never /\ task'[t].status = "attaching"
          /\ claims'[Token(t)'].on /\ claims'[Token(t)'].state = "attaching"
          /\ thread'[Token(t)'] = "claim"
        BY <1>0, <1>old, <1>same, <1>row, <1>k, <1>new, <1>claim, <1>thread, Records DEF RowShape
    <2> QED
        BY <2>1, <2>2, <1>0, <1>same DEF RowShape
  <1>4. ClaimShape'
    <2>1. Unlaunched(claims'[k])
        BY <1>claim, Records
    <2>2. claims'[k].launch = Never /\ claims'[k].run = Never
        BY <2>1 DEF Unlaunched
    <2> QED
        BY <2>1, <2>2, <1>0, <1>same, <1>claim, <1>thread DEF ClaimShape
  <1>5. Settling'
      BY <1>0, <1>same DEF Settling
  <1>6. Accounted'
      BY <1>0, <1>same, <1>seen, <1>claim, <1>k, Records DEF Accounted
  <1> QED
      BY <1>1, <1>2, <1>3, <1>4, <1>5, <1>6 DEF Shape

(* The durable launch mark: from here on there may be a worker.            *)
LEMMA LaunchStep ==
    ASSUME Inv, Strays, NEW k \in Tokens, claim_launch(k), OwnsRow(k)
    PROVE  Shape'
  <1> DEFINE t == k[1]
  <1>0. Fresh /\ ThreadShape /\ RowShape /\ ClaimShape /\ Settling /\ Accounted
        /\ task \in [Tasks -> Rows] /\ worker \in [Tokens -> Workers] /\ clock \in 0..MaxTime
        /\ thread \in [Tokens -> {"none", "claim", "mark", "ssh", "failed", "ack", "done", "dead"}]
        /\ query.start \in Nat
      BY Constants DEF Inv, Shape, TypeOK, Queries
  <1>k. /\ t \in Tasks /\ k = Token(t) /\ task[t].status = "attaching" /\ thread[k] = "claim"
        /\ worker[k].state = "none"
      BY <1>0, TokenFacts DEF claim_launch, OwnsRow, ThreadShape
  <1>claimed. claims[k].on /\ claims[k].launch = Never /\ claims[k].run = Never
              /\ task[t].run = Never /\ claims[k].state = "attaching"
      BY <1>0, <1>k DEF RowShape, ClaimShape, Unlaunched
  <1>same. /\ clock' = clock /\ canceller' = canceller
           /\ claims' = claims /\ snapshot' = snapshot /\ query' = query
      BY DEF claim_launch
  <1>t. t \in Tasks /\ task[t] \in Rows
      BY <1>k, <1>0
  <1>row. /\ \A u \in Tasks \ {t} : task'[u] = task[u]
          /\ task'[t].status = task[t].status /\ task'[t].try = task[t].try
          /\ task'[t].launch = clock /\ task'[t].run = task[t].run
    <2>1. task' = [task EXCEPT ![t] = [task[t] EXCEPT !.launch = clock]]
        BY DEF claim_launch
    <2> QED
        BY <2>1, <1>0, <1>t, RowFields
  <1>tok. \A u \in Tasks : Token(u)' = Token(u) /\ task'[u].try = task[u].try
                           /\ task'[u].status = task[u].status /\ task'[u].run = task[u].run
      BY <1>row DEF Token
  <1>worker. /\ \A j \in Tokens \ {k} : worker'[j] = worker[j]
             /\ worker'[k].state = "launching" /\ worker'[k].since = worker[k].since
      BY <1>0 DEF claim_launch, Workers
  <1>thread. (\A j \in Tokens \ {k} : thread'[j] = thread[j]) /\ thread'[k] = "mark"
      BY <1>0 DEF claim_launch, Goto
  <1>live. \A j \in Sighted' : j \in Tokens /\ (j = k \/ j \in Sighted)
      BY <1>worker, StrayFacts DEF Sighted, Live, In
  <1>num. clock # Never
      BY <1>0, Constants
  <1> HIDE DEF t
  <1>1. Fresh'
    <2> SUFFICES ASSUME NEW j \in Tokens, j[2] > task'[j[1]].try
                 PROVE  ~claims'[j].on /\ thread'[j] = "none" /\ worker'[j].state = "none"
        BY DEF Fresh
    <2>1. j # k /\ j[2] > task[j[1]].try
        BY <1>k, <1>tok, <1>0, <1>claimed, TokenFacts DEF Fresh
    <2> QED
        BY <2>1, <1>0, <1>same, <1>thread, <1>worker DEF Fresh
  <1>2. ThreadShape'
    <2> SUFFICES ASSUME NEW j \in Tokens
                 PROVE  /\ thread'[j] \in {"none", "claim"} => worker'[j].state = "none"
                        /\ thread'[j] \in {"mark", "ssh"} <=> worker'[j].state = "launching"
                        /\ thread'[j] \in {"claim", "mark"} =>
                              j = Token(j[1])' /\ task'[j[1]].status \in {"attaching", "ended"}
        BY <1>same DEF ThreadShape
    <2>0. j[1] \in Tasks
        BY TokenFacts
    <2>1. CASE j = k
      <3>1. j[1] = t /\ Token(t)' = k /\ task'[t].status = "attaching"
          BY <2>1, <1>k, <1>tok DEF t
      <3> QED
          BY <3>1, <2>1, <1>thread, <1>worker
    <2>2. CASE j # k
        BY <2>0, <2>2, <1>0, <1>thread, <1>worker, <1>tok DEF ThreadShape
    <2> QED
        BY <2>1, <2>2
  <1>3. RowShape'
    <2>1. ASSUME NEW u \in Tasks \ {t}
          PROVE  /\ task'[u] = task[u] /\ Token(u)' = Token(u) /\ canceller'[u] = canceller[u]
                 /\ Token(u) \in Tokens => /\ worker'[Token(u)] = worker[Token(u)]
                                           /\ thread'[Token(u)] = thread[Token(u)]
      <3>1. Token(u) # k
          BY DEF Token, t
      <3> QED
          BY <3>1, <1>row, <1>tok, <1>same, <1>worker, <1>thread
    <2>2. /\ canceller'[t] = 0 /\ Token(t)' = k /\ task'[t].launch = clock
          /\ task'[t].run = Never /\ task'[t].status = "attaching"
          /\ claims'[k].on /\ claims'[k].state = "attaching" /\ thread'[k] = "mark"
        BY <1>0, <1>k, <1>same, <1>row, <1>tok, <1>claimed, <1>thread, <1>worker DEF RowShape
    <2> QED
        BY <2>1, <2>2, <1>0, <1>same, <1>num DEF RowShape
  <1>4. ClaimShape'
      BY <1>0, <1>same, <1>claimed, <1>thread, <1>worker DEF ClaimShape
  <1>5. Settling'
      BY <1>0, <1>same, <1>worker DEF Settling
  <1>6. Accounted'
      BY <1>0, <1>same, <1>live, <1>claimed, <1>worker DEF Accounted
  <1> QED
      BY <1>1, <1>2, <1>3, <1>4, <1>5, <1>6 DEF Shape

(* The mark on the claim, which a cancel may have let go before.           *)
LEMMA MarkStep ==
    ASSUME Inv, Strays, NEW k \in Tokens, mark_launch_started(k)
    PROVE  Shape'
  <1>0. Fresh /\ ThreadShape /\ RowShape /\ ClaimShape /\ Settling /\ Accounted
        /\ claims \in [Tokens -> Claims] /\ clock \in Times /\ clock # Never
        /\ thread \in [Tokens -> {"none", "claim", "mark", "ssh", "failed", "ack", "done", "dead"}]
      BY Constants DEF Inv, Shape, TypeOK
  <1>k. k[1] \in Tasks /\ k = Token(k[1]) /\ thread[k] = "mark" /\ worker[k].state = "launching"
      BY <1>0, TokenFacts DEF mark_launch_started, ThreadShape
  <1>same. /\ clock' = clock /\ canceller' = canceller /\ task' = task
           /\ worker' = worker /\ snapshot' = snapshot /\ query' = query
           /\ \A u : Token(u)' = Token(u)
      BY DEF mark_launch_started, Token
  <1>seen. Sighted' \subseteq Sighted /\ Sighted \subseteq Tokens
      BY <1>same, StrayFacts DEF Sighted, Live, In
  <1>thread. (\A j \in Tokens \ {k} : thread'[j] = thread[j]) /\ thread'[k] = "ssh"
      BY <1>0 DEF mark_launch_started, Goto
  <1>claim. \A j \in Tokens :
               /\ claims'[j].on = claims[j].on /\ claims'[j].state = claims[j].state
               /\ claims'[j].run = claims[j].run
               /\ claims'[j].launch = claims[j].launch
                  \/ (claims'[j].launch = clock /\ j[1] = k[1] /\ claims[j].on)
               /\ j = k /\ claims[j].on => claims'[j].launch # Never
    <2> SUFFICES ASSUME NEW j \in Tokens
                 PROVE  /\ claims'[j].on = claims[j].on /\ claims'[j].state = claims[j].state
                        /\ claims'[j].run = claims[j].run
                        /\ claims'[j].launch = claims[j].launch
                           \/ (claims'[j].launch = clock /\ j[1] = k[1] /\ claims[j].on)
                        /\ j = k /\ claims[j].on => claims'[j].launch # Never
        OBVIOUS
    <2>1. claims[j] \in Claims
        BY <1>0
    <2>2. /\ [claims[j] EXCEPT !.launch = clock].on = claims[j].on
          /\ [claims[j] EXCEPT !.launch = clock].state = claims[j].state
          /\ [claims[j] EXCEPT !.launch = clock].run = claims[j].run
          /\ [claims[j] EXCEPT !.launch = clock].launch = clock
        BY <2>1 DEF Claims
    <2>3. \/ claims'[j] = claims[j] /\ (j = k /\ claims[j].on => claims[j].launch # Never)
          \/ /\ j[1] = k[1] /\ claims[j].on /\ claims[j].launch = Never
             /\ claims'[j] = [claims[j] EXCEPT !.launch = clock]
        BY <1>0, LaunchedClaims DEF mark_launch_started
    <2> QED
        BY <2>2, <2>3, <1>0
  <1>1. Fresh'
      BY <1>0, <1>k, <1>same, <1>claim, <1>thread DEF Fresh
  <1>2. ThreadShape'
      BY <1>0, <1>k, <1>same, <1>thread DEF ThreadShape
  <1>3. RowShape'
    <2>1. ASSUME NEW u \in Tasks, task[u].status \in {"attaching", "running"}
          PROVE  /\ Token(u) \in Tokens
                 /\ claims[Token(u)].on => claims'[Token(u)].on
                 /\ claims'[Token(u)].state = claims[Token(u)].state
                 /\ \/ thread'[Token(u)] = thread[Token(u)]
                    \/ thread[Token(u)] = "mark" /\ thread'[Token(u)] = "ssh"
        BY <2>1, <1>0, <1>claim, <1>thread, <1>k DEF RowShape
    <2> QED
        BY <2>1, <1>0, <1>same DEF RowShape
  <1>4. ClaimShape'
    <2> SUFFICES ASSUME NEW j \in Tokens, claims'[j].on
                 PROVE  /\ Unlaunched(claims'[j]) => thread'[j] \in {"claim", "mark"}
                        /\ thread'[j] = "claim" => Unlaunched(claims'[j])
                        /\ claims'[j].run # Never =>
                              worker'[j].since <= claims'[j].run /\ worker'[j].state # "launching"
        BY DEF ClaimShape
    <2>1. claims[j].on
        BY <1>claim
    <2>2. Unlaunched(claims'[j]) => Unlaunched(claims[j]) /\ j # k
        BY <1>claim, <1>0, <2>1 DEF Unlaunched
    <2>3. thread'[j] = "claim" => j # k /\ j[1] # k[1] /\ thread[j] = "claim"
        BY <1>thread, <1>k, <1>0 DEF ThreadShape
    <2>4. thread'[j] = "claim" => Unlaunched(claims'[j])
        BY <2>1, <2>3, <1>claim, <1>0 DEF ClaimShape, Unlaunched
    <2> QED
        BY <2>1, <2>2, <2>4, <1>0, <1>same, <1>claim, <1>thread DEF ClaimShape
  <1>5. Settling'
      BY <1>0, <1>same DEF Settling
  <1>6. Accounted'
      BY <1>0, <1>same, <1>seen, <1>claim DEF Accounted
  <1> QED
      BY <1>1, <1>2, <1>3, <1>4, <1>5, <1>6 DEF Shape

LEMMA AcknowledgeStep ==
    ASSUME Inv, Strays, NEW k \in Tokens, acknowledge(k), OwnsRow(k)
    PROVE  Shape'
  <1> DEFINE t == k[1]
  <1>0. Fresh /\ ThreadShape /\ RowShape /\ ClaimShape /\ Settling /\ Accounted
        /\ claims \in [Tokens -> Claims] /\ clock \in Times /\ clock # Never
        /\ task \in [Tasks -> Rows]
        /\ thread \in [Tokens -> {"none", "claim", "mark", "ssh", "failed", "ack", "done", "dead"}]
      BY Constants DEF Inv, Shape, TypeOK
  <1>k. /\ t \in Tasks /\ k = Token(t) /\ task[t].status = "attaching" /\ thread[k] = "ack"
      BY <1>0, TokenFacts DEF acknowledge, OwnsRow
  <1>claimed. claims[k].on /\ task[t].launch # Never /\ ~Unlaunched(claims[k])
      BY <1>0, <1>k DEF RowShape, ClaimShape
  <1>same. /\ clock' = clock /\ canceller' = canceller
           /\ worker' = worker /\ snapshot' = snapshot /\ query' = query
      BY DEF acknowledge
  <1>seen. Sighted' \subseteq Sighted /\ Sighted \subseteq Tokens
      BY <1>same, StrayFacts DEF Sighted, Live, In
  <1>thread. (\A j \in Tokens \ {k} : thread'[j] = thread[j]) /\ thread'[k] = "done"
      BY <1>0 DEF acknowledge, Goto
  <1>claim. /\ \A j \in Tokens \ {k} : claims'[j] = claims[j]
            /\ claims'[k].on /\ claims'[k].launch = claims[k].launch
            /\ claims'[k].run # Never
            /\ claims'[k].run = claims[k].run \/ claims'[k].run = clock
    <2>1. claims[k] \in Claims
        BY <1>0
    <2> DEFINE c == [claims[k] EXCEPT !.state = "running", !.run = IF @ = Never THEN clock ELSE @]
    <2>2. /\ c.on = claims[k].on /\ c.launch = claims[k].launch
          /\ c.run = IF claims[k].run = Never THEN clock ELSE claims[k].run
        BY <2>1 DEF Claims
    <2>3. (\A j \in Tokens \ {k} : claims'[j] = claims[j]) /\ claims'[k] = c
      <3>1. claims' = MarkedRunning(k)
          BY DEF acknowledge
      <3> HIDE DEF c
      <3>2. MarkedRunning(k)[k] = c
          BY <1>0, <1>claimed, RunningClaim DEF c
      <3>3. \A j \in Tokens \ {k} : MarkedRunning(k)[j] = claims[j]
          BY <1>0, <1>claimed, RunningClaim
      <3> QED
          BY <3>1, <3>2, <3>3
    <2> HIDE DEF c
    <2> QED
        BY <2>2, <2>3, <1>0, <1>claimed
  <1>row. /\ \A u \in Tasks \ {t} : task'[u] = task[u]
          /\ task'[t].status = "running" /\ task'[t].try = task[t].try
          /\ task'[t].launch = task[t].launch /\ task'[t].run = clock
    <2>1. task' = [task EXCEPT ![t] = [task[t] EXCEPT !.status = "running", !.run = clock]]
        BY DEF acknowledge
    <2> QED
        BY <2>1, <1>0, <1>k, RowFields
  <1>tok. \A u \in Tasks : Token(u)' = Token(u) /\ task'[u].try = task[u].try
      BY <1>row DEF Token
  <1>num. worker[k].since <= clock /\ worker[k].state # "launching"
      BY <1>0, <1>k DEF Settling, ThreadShape
  <1> HIDE DEF t
  <1>1. Fresh'
    <2> SUFFICES ASSUME NEW j \in Tokens, j[2] > task'[j[1]].try
                 PROVE  ~claims'[j].on /\ thread'[j] = "none" /\ worker'[j].state = "none"
        BY DEF Fresh
    <2>1. ~claims[j].on /\ thread[j] = "none" /\ worker[j].state = "none"
        BY <1>tok, <1>0, TokenFacts DEF Fresh
    <2> QED
        BY <2>1, <1>claimed, <1>claim, <1>same, <1>thread
  <1>2. ThreadShape'
    <2> SUFFICES ASSUME NEW j \in Tokens
                 PROVE  /\ thread'[j] \in {"none", "claim"} => worker[j].state = "none"
                        /\ thread'[j] \in {"mark", "ssh"} <=> worker[j].state = "launching"
                        /\ thread'[j] \in {"claim", "mark"} =>
                              j = Token(j[1])' /\ task'[j[1]].status \in {"attaching", "ended"}
        BY <1>same DEF ThreadShape
    <2>0. j[1] \in Tasks /\ Token(j[1])' = Token(j[1])
        BY TokenFacts, <1>tok
    <2>1. CASE j = k
        BY <2>1, <1>0, <1>k, <1>thread DEF ThreadShape
    <2>2. CASE j # k
      <3>1. thread[j] \in {"claim", "mark"} => j[1] # t
          BY <2>2, <1>0, <1>k DEF ThreadShape
      <3>2. thread[j] \in {"claim", "mark"} => task'[j[1]] = task[j[1]]
          BY <2>0, <3>1, <1>row
      <3> QED
          BY <2>0, <2>2, <3>2, <1>0, <1>thread DEF ThreadShape
    <2> QED
        BY <2>1, <2>2
  <1>3. RowShape'
    <2>1. ASSUME NEW u \in Tasks \ {t}
          PROVE  /\ task'[u] = task[u] /\ Token(u)' = Token(u) /\ canceller'[u] = canceller[u]
                 /\ Token(u) \in Tokens => /\ claims'[Token(u)] = claims[Token(u)]
                                           /\ thread'[Token(u)] = thread[Token(u)]
      <3>1. Token(u) # k
          BY DEF Token, t
      <3> QED
          BY <3>1, <1>row, <1>tok, <1>same, <1>claim, <1>thread
    <2>2. /\ canceller'[t] = 0 /\ Token(t)' = k /\ task'[t].launch = task[t].launch
          /\ task'[t].run = clock /\ task'[t].status = "running" /\ thread'[k] = "done"
        BY <1>0, <1>k, <1>same, <1>row, <1>tok, <1>thread DEF RowShape
    <2> QED
        BY <2>1, <2>2, <1>0, <1>same, <1>num, <1>claimed DEF RowShape
  <1>4. ClaimShape'
      BY <1>0, <1>same, <1>claimed, <1>claim, <1>thread, <1>num DEF ClaimShape, Unlaunched
  <1>5. Settling'
      BY <1>0, <1>same DEF Settling
  <1>6. Accounted'
      BY <1>0, <1>same, <1>seen, <1>claim DEF Accounted
  <1> QED
      BY <1>1, <1>2, <1>3, <1>4, <1>5, <1>6 DEF Shape

(* A restart works from the rows; what no row names and has not checked    *)
(* out is astray.                                                          *)
LEMMA RestartStep ==
    ASSUME Inv, restart
    PROVE  Shape'
  <1>0. Fresh /\ ThreadShape /\ RowShape /\ ClaimShape /\ Settling /\ Accounted
        /\ worker \in [Tokens -> Workers] /\ task \in [Tasks -> Rows]
        /\ thread \in [Tokens -> {"none", "claim", "mark", "ssh", "failed", "ack", "done", "dead"}]
      BY DEF Inv, Shape, TypeOK
  <1>same. clock' = clock /\ (\A t \in Tasks : canceller'[t] = 0) /\ ~query'.on /\ ~snapshot'.ok
      BY Records, Constants DEF restart
  <1>worker. \A k \in Tokens :
               /\ worker[k].state = "launching" =>
                     \/ worker'[k].state = "started" /\ worker'[k].since = clock
                     \/ worker'[k].state = "gone" /\ worker'[k].since = 0
               /\ worker[k].state # "launching" => worker'[k] = worker[k]
      BY DEF restart, Started, Gone
  <1>row. \A t \in Tasks :
             /\ task'[t].try = task[t].try
             /\ \/ task'[t] = task[t] /\ (task[t].status = "attaching" => task[t].launch # Never)
                \/ task'[t].status = "queued"
      BY <1>0 DEF restart, Rows
  <1>tok. \A t \in Tasks : Token(t)' = Token(t)
      BY <1>row DEF Token
  <1>claim. \A k \in Tokens :
      LET row == task[k[1]]
          kept == /\ Token(k[1]) = k /\ row.launch # Never
                  /\ row.status \in {"attaching", "running"}
      IN  /\ claims'[k].on <=> kept
          /\ kept => /\ claims'[k].state = row.status
                     /\ claims'[k].launch = row.launch /\ claims'[k].run = row.run
      BY Records DEF restart
  <1>thread. \A k \in Tokens : \/ thread[k] \in {"none", "done"} /\ thread'[k] = thread[k]
                               \/ thread[k] \notin {"none", "done"} /\ thread'[k] = "dead"
      BY DEF restart
  <1>types. clock \in Nat /\ clock < clock + Settlement
      BY Constants DEF Inv, TypeOK
  <1>astray. \A k \in Sighted' : /\ k \in Tokens /\ worker'[k].state \in {"started", "holding"}
                                 /\ worker'[k].state = "started" => claims'[k].on
      BY <1>worker DEF Sighted, Live, In, restart
  <1>1. Fresh'
    <2> SUFFICES ASSUME NEW k \in Tokens, k[2] > task'[k[1]].try
                 PROVE  ~claims'[k].on /\ thread'[k] = "none" /\ worker'[k].state = "none"
        BY DEF Fresh
    <2>1. k[1] \in Tasks /\ k[2] > task[k[1]].try /\ k[2] \in Nat /\ task[k[1]].try \in Nat
        BY TokenFacts, <1>row, <1>0, Constants DEF Rows
    <2>2. Token(k[1]) # k
        BY <2>1 DEF Token
    <2> QED
        BY <2>1, <2>2, <1>0, <1>claim, <1>thread, <1>worker DEF Fresh
  <1>2. ThreadShape'
    <2> SUFFICES ASSUME NEW k \in Tokens
                 PROVE  /\ thread'[k] \in {"none", "dead", "done"}
                        /\ thread'[k] = "none" => worker'[k].state = "none"
                        /\ worker'[k].state # "launching"
        BY DEF ThreadShape
    <2> QED
        BY <1>0, <1>thread, <1>worker DEF ThreadShape
  <1>3. RowShape'
    <2>1. ASSUME NEW t \in Tasks, task'[t].status \in {"attaching", "running"}
          PROVE  /\ task'[t] = task[t] /\ Token(t)' = Token(t) /\ Token(t) \in Tokens
                 /\ task[t].launch # Never /\ Token(t)[1] = t
                 /\ task[t].status = "running" => worker'[Token(t)] = worker[Token(t)]
                 /\ thread'[Token(t)] \in {"done", "dead"}
                 /\ task[t].status = "attaching" => thread'[Token(t)] = "dead"
      <3>1. task'[t] = task[t] /\ Token(t)' = Token(t) /\ task[t].launch # Never
          BY <2>1, <1>row, <1>tok, <1>0 DEF RowShape
      <3>2. Token(t) \in Tokens /\ Token(t)[1] = t
          BY <2>1, <3>1, <1>0 DEF RowShape, Token
      <3>3. task[t].status = "running" => worker[Token(t)].state # "launching"
          BY <3>2, <1>0 DEF RowShape, ThreadShape
      <3> QED
          BY <2>1, <3>1, <3>2, <3>3, <1>0, <1>worker, <1>thread DEF RowShape
    <2>2. ASSUME NEW t \in Tasks, task'[t].status = "attaching"
          PROVE  claims'[Token(t)].on /\ claims'[Token(t)].state = "attaching"
        BY <2>1, <2>2, <1>claim
    <2> QED
        BY <2>1, <2>2, <1>0, <1>same DEF RowShape
  <1>4. ClaimShape'
    <2> SUFFICES ASSUME NEW k \in Tokens, claims'[k].on
                 PROVE  /\ ~Unlaunched(claims'[k]) /\ thread'[k] # "claim"
                        /\ claims'[k].run # Never =>
                              worker'[k].since <= claims'[k].run /\ worker'[k].state # "launching"
        BY DEF ClaimShape
    <2>1. /\ k[1] \in Tasks /\ Token(k[1]) = k /\ task[k[1]].launch # Never
          /\ task[k[1]].status \in {"attaching", "running"}
          /\ claims'[k].launch = task[k[1]].launch /\ claims'[k].run = task[k[1]].run
        BY <1>claim, TokenFacts
    <2>2. task[k[1]].run # Never => /\ task[k[1]].status = "running"
                                    /\ worker[k].state # "launching"
        BY <2>1, <1>0 DEF RowShape, ThreadShape
    <2> QED
        BY <2>1, <2>2, <1>0, <1>worker, <1>thread DEF RowShape, Unlaunched
  <1>5. Settling'
      BY <1>0, <1>same, <1>worker, <1>types DEF Settling
  <1>6. Accounted'
      BY <1>same, <1>astray DEF Accounted
  <1> QED
      BY <1>1, <1>2, <1>3, <1>4, <1>5, <1>6 DEF Shape

-----------------------------------------------------------------------------
(* Every step.                                                             *)

LEMMA InitShape ==
    ASSUME Init
    PROVE  Inv
  <1>0. TypeOK
      BY Records, Constants DEF Init, TypeOK, Rows, Workers
  <1>1. /\ \A k \in Tokens : /\ ~claims[k].on /\ thread[k] = "none"
                             /\ worker[k].state = "none" /\ worker[k].since = 0
        /\ \A t \in Tasks : canceller[t] = 0 /\ task[t].status \in {"none", "queued"}
        /\ ~query.on /\ clock = 0
      BY Records, Constants DEF Init
  <1>2. Live = {}
      BY <1>1 DEF Live, In
  <1>4. Fresh /\ ThreadShape /\ RowShape /\ ClaimShape /\ Accounted
      BY <1>1, <1>2 DEF Fresh, ThreadShape, RowShape, ClaimShape, Accounted, Sighted
  <1>5. Settling
      BY <1>1, <1>2, Constants DEF Settling
  <1> QED
      BY <1>0, <1>4, <1>5 DEF Inv, Shape

LEMMA StutterStep ==
    ASSUME Inv, UNCHANGED vars
    PROVE  Inv'
  BY DEF Inv, TypeOK, Shape, vars, Fresh, ThreadShape, RowShape, ClaimShape, Settling, Accounted,
         Sighted, Live, In, Token, OwnsRow

LEMMA NextShape ==
    ASSUME Inv, [Next]_vars
    PROVE  Inv'
  <1>0. TypeOK'
      BY TypeStep
  <1>1. ASSUME Strays, NEW t \in Tasks,
               \/ warm_spare_admission(t) \/ reserve_task(t) \/ request_cancel_task(t)
               \/ finish_cancel(t) \/ requeue_task(t) \/ probe_task(t)
               \/ finalize_timed_out_task(t)
        PROVE  Shape'
    <2>1. CASE warm_spare_admission(t) \/ request_cancel_task(t)
        BY <1>1, <2>1, StatusActions
    <2>2. CASE reserve_task(t)
        BY <1>1, <2>2, ReserveStep
    <2>3. CASE \/ finish_cancel(t) \/ requeue_task(t) \/ probe_task(t)
               \/ finalize_timed_out_task(t)
        BY <1>0, <1>1, <2>3, EndActions, EndStep
    <2> QED
        BY <1>1, <2>1, <2>2, <2>3
  <1>2. ASSUME Strays, NEW k \in Tokens, Launch(k) \/ checkout(k) \/ worker_ends(k)
        PROVE  Shape'
    <2>1. CASE claim_launch(k)
        BY <1>0, <1>2, <2>1, LaunchStep, EndActions, EndStep
    <2>2. CASE mark_launch_started(k)
        BY <1>2, <2>2, MarkStep
    <2>3. CASE attach_failed(k)
        BY <1>0, <1>2, <2>3, EndActions, EndStep, MoveActions, MoveStep
    <2>4. CASE acknowledge(k)
        BY <1>2, <2>4, AcknowledgeStep, MoveActions, MoveStep
    <2>5. CASE attach_remote(k) \/ checkout(k) \/ worker_ends(k)
        BY <1>2, <2>5, MoveActions, MoveStep
    <2> QED
        BY <1>2, <2>1, <2>2, <2>3, <2>4, <2>5 DEF Launch
  <1>3. ASSUME Strays, tick \/ Monitor
        PROVE  Shape'
      BY <1>3, TickStep, QueryStep, PublishStep DEF Monitor
  <1>4. CASE restart
      BY <1>0, <1>4, RestartStep DEF Inv
  <1>5. CASE UNCHANGED vars
      BY <1>5, StutterStep
  <1> QED
      BY <1>0, <1>1, <1>2, <1>3, <1>4, <1>5 DEF Next, Inv, Strays

(* The relation of rows, claims, threads, workers and counts.              *)
THEOREM Invariance ==
    Spec => []Inv
  BY InitShape, NextShape, PTL DEF Spec

(* However launches, queries, cancels, requeues and a restart interleave,  *)
(* a worker in sight that holds seats or is about to take them has a claim *)
(* or was counted by the snapshot admission reads.                         *)
THEOREM LiveWorkersAccounted ==
    Spec => []LiveIsAccounted
  <1>1. Inv => LiveIsAccounted
      BY DEF Inv, Shape, Accounted, LiveIsAccounted, Sighted, Live, In, Claimed
  <1> QED
      BY <1>1, Invariance, PTL

-----------------------------------------------------------------------------
(* The seats.                                                              *)

Taking == Sighted \cup Pending
Ordinary(K) == {k \in K : k[1] \notin Exempt}

(* What is live, or owns its row and is about to be, fits.                 *)
WithinSeats ==
    /\ Seats(Taking) <= Total
    /\ Seats(Ordinary(Taking)) <= Total - Reserve

LEMMA FiniteSeats ==
    ASSUME NEW K \in SUBSET Tokens
    PROVE  IsFiniteSet(UNION {SeatsOf(k) : k \in K}) /\ Seats(K) \in Nat
  <1>1. IsFiniteSet(Tokens)
    <2>1. IsFiniteSet(1..MaxAttempts)
        BY Constants, FS_Interval
    <2>2. IsFiniteSet(Tasks)
        BY LicenseAssumptions
    <2> QED
        BY <2>1, <2>2, FS_Product, Zenon DEF Tokens
  <1>2. IsFiniteSet(K)
      BY <1>1, FS_Subset
  <1> DEFINE F == {SeatsOf(k) : k \in K}
             f == [k \in K |-> SeatsOf(k)]
  <1>3. f \in Surjection(K, F)
      BY DEF Surjection
  <1>4. IsFiniteSet(F)
      BY <1>2, <1>3, FS_Surjection
  <1>5. ASSUME NEW k \in K
        PROVE  IsFiniteSet(SeatsOf(k))
    <2>1. Cost[k[1]] \in Int
        BY LicenseAssumptions, TokenFacts
    <2>2. IsFiniteSet({k})
        BY FS_Singleton
    <2>3. IsFiniteSet(1..Cost[k[1]])
        BY <2>1, FS_Interval
    <2>4. IsFiniteSet({k} \X (1..Cost[k[1]]))
        BY <2>2, <2>3, FS_Product, Zenon
    <2> QED
        BY <2>4 DEF SeatsOf
  <1>6. IsFiniteSet(UNION F)
      BY <1>4, <1>5, FS_UNION
  <1> QED
      BY <1>6, FS_CardinalityType DEF Seats

LEMMA FewerSeats ==
    ASSUME NEW K \in SUBSET Tokens, NEW J \in SUBSET K
    PROVE  Seats(J) <= Seats(K)
  <1>1. UNION {SeatsOf(k) : k \in J} \in SUBSET UNION {SeatsOf(k) : k \in K}
      OBVIOUS
  <1> QED
      BY <1>1, FiniteSeats, FS_Subset DEF Seats

LEMMA SeatsTogether ==
    ASSUME NEW J \in SUBSET Tokens, NEW K \in SUBSET Tokens
    PROVE  Seats(J \cup K) <= Seats(J) + Seats(K)
  <1> DEFINE A == UNION {SeatsOf(k) : k \in J}
             B == UNION {SeatsOf(k) : k \in K}
  <1>1. UNION {SeatsOf(k) : k \in J \cup K} = A \cup B
      OBVIOUS
  <1>2. IsFiniteSet(A) /\ IsFiniteSet(B)
      BY FiniteSeats
  <1>3. Cardinality(A \cup B) = Cardinality(A) + Cardinality(B) - Cardinality(A \cap B)
      BY <1>2, FS_Union
  <1>4. Cardinality(A) \in Nat /\ Cardinality(B) \in Nat /\ Cardinality(A \cap B) \in Nat
      BY <1>2, FS_CardinalityType, FS_Intersection
  <1>5. Seats(J \cup K) = Cardinality(A \cup B) /\ Seats(J) = Cardinality(A)
        /\ Seats(K) = Cardinality(B)
      BY <1>1 DEF Seats
  <1> HIDE DEF A, B
  <1> QED
      BY <1>3, <1>4, <1>5

LEMMA OneAttempt ==
    ASSUME NEW k \in Tokens
    PROVE  Seats({k}) = Cost[k[1]]
  <1>1. UNION {SeatsOf(j) : j \in {k}} = {k} \X (1..Cost[k[1]])
      BY DEF SeatsOf
  <1>2. Cost[k[1]] \in Nat \ {0}
      BY LicenseAssumptions, TokenFacts
  <1>3. IsFiniteSet({k}) /\ Cardinality({k}) = 1
      BY FS_Singleton
  <1>4. IsFiniteSet(1..Cost[k[1]]) /\ Cardinality(1..Cost[k[1]]) = Cost[k[1]]
    <2>1. 1 \in Int /\ Cost[k[1]] \in Int /\ ~(1 > Cost[k[1]])
          /\ Cost[k[1]] - 1 + 1 = Cost[k[1]]
        BY <1>2
    <2> QED
        BY <2>1, FS_Interval
  <1>5. Cardinality({k} \X (1..Cost[k[1]])) = Cardinality({k}) * Cardinality(1..Cost[k[1]])
      BY <1>3, <1>4, FS_Product, Zenon
  <1>6. Cardinality({k} \X (1..Cost[k[1]])) = Cost[k[1]]
      BY <1>2, <1>3, <1>4, <1>5
  <1> QED
      BY <1>1, <1>6 DEF Seats

(* Only a reservation adds to what takes seats: a worker comes from a      *)
(* thread that owns its row, and a row is attaching from there on.         *)
LEMMA NoNewTaker ==
    ASSUME Inv, [Next]_vars, \A t \in Tasks : ~reserve_task(t)
    PROVE  Taking' \subseteq Taking
  <1>0. /\ ThreadShape /\ RowShape /\ worker \in [Tokens -> Workers] /\ task \in [Tasks -> Rows]
        /\ thread \in [Tokens -> {"none", "claim", "mark", "ssh", "failed", "ack", "done", "dead"}]
        /\ canceller \in [Tasks -> 0..MaxAttempts]
      BY DEF Inv, Shape, TypeOK
  <1>astray. astray \subseteq astray'
      BY DEF Next, restart, vars
  <1> DEFINE L == {"launching", "started", "holding"}
             Calm == /\ \A k \in Tokens : worker'[k].state \in L => worker[k].state \in L
                     /\ \A k \in Tokens : thread'[k] = "claim" => thread[k] = "claim"
                     /\ \A t \in Tasks : /\ task'[t].try = task[t].try
                                         /\ task'[t].status = "attaching" =>
                                               task[t].status = "attaching"
  <1>calm. ASSUME Calm
           PROVE  Taking' \subseteq Taking
    <2> SUFFICES ASSUME NEW k \in Taking'
                 PROVE  k \in Taking
        OBVIOUS
    <2>1. k \in Tokens /\ k[1] \in Tasks
        BY TokenFacts DEF Taking, Sighted, Live, Pending, In
    <2>2. OwnsRow(k)' => OwnsRow(k)
        BY <1>calm, <2>1 DEF OwnsRow, Token
    <2> QED
        BY <1>calm, <1>astray, <2>1, <2>2 DEF Taking, Sighted, Live, Pending, In
  <1>kill. ASSUME NEW j \in Tokens, Kill(j)
           PROVE  \A k \in Tokens : worker'[k].state \in L => worker[k].state \in L
      BY <1>kill, <1>0, Killing
  <1>w. \A k \in Tokens, s \in {"started", "holding", "gone"} :
            [worker[k] EXCEPT !.state = s].state = s
      BY <1>0 DEF Workers
  <1>r. \A t \in Tasks, s \in {"ended", "queued"} :
            /\ [task[t] EXCEPT !.status = s].status = s
            /\ [task[t] EXCEPT !.status = s].try = task[t].try
      BY <1>0 DEF Rows
  <1>tok. \A t \in Tasks : task[t].status \in {"attaching", "running"} => Token(t) \in Tokens
      BY <1>0 DEF RowShape
  <1>1. ASSUME NEW t \in Tasks, warm_spare_admission(t) \/ request_cancel_task(t) \/ probe_task(t)
        PROVE  Calm
      BY <1>1, <1>0, <1>r DEF warm_spare_admission, request_cancel_task, probe_task
  <1>2. ASSUME NEW t \in Tasks, finish_cancel(t)
        PROVE  Calm
    <2>1. <<t, canceller[t]>> \in Tokens
        BY <1>2, <1>0, Constants DEF finish_cancel, Tokens
    <2> QED
        BY <1>2, <2>1, <1>kill DEF finish_cancel
  <1>3. ASSUME NEW t \in Tasks, finalize_timed_out_task(t)
        PROVE  Calm
    <2>1. \A k \in Tokens : worker'[k].state \in L => worker[k].state \in L
        BY <1>3, <1>tok, <1>kill DEF finalize_timed_out_task
    <2> QED
        BY <1>3, <2>1, <1>0, <1>r DEF finalize_timed_out_task
  <1>4. ASSUME NEW t \in Tasks, requeue_task(t)
        PROVE  Calm
    <2>1. \A k \in Tokens : worker'[k].state \in L => worker[k].state \in L
        BY <1>4, <1>tok, <1>kill DEF requeue_task
    <2>2. \A u \in Tasks : /\ task'[u].try = task[u].try
                           /\ task'[u].status = "attaching" => task[u].status = "attaching"
        BY <1>4, <1>0 DEF requeue_task, Rows
    <2> QED
        BY <1>4, <2>1, <2>2 DEF requeue_task
  <1>5. ASSUME NEW k \in Tokens, checkout(k) \/ worker_ends(k)
        PROVE  Calm
      BY <1>5, <1>0, <1>w DEF checkout, worker_ends
  <1>6. ASSUME NEW k \in Tokens, attach_remote(k)
        PROVE  Calm
    <2>1. worker[k].state = "launching"
        BY <1>6, <1>0 DEF attach_remote, ThreadShape
    <2>2. \A j \in Tokens : worker'[j].state \in L => worker[j].state \in L
        BY <1>6, <2>1, <1>0 DEF attach_remote, Started, Gone
    <2> QED
        BY <1>6, <2>2, <1>0 DEF attach_remote, Goto
  <1>7. ASSUME NEW k \in Tokens, mark_launch_started(k)
        PROVE  Calm
      BY <1>7, <1>0 DEF mark_launch_started, Goto
  <1>8. ASSUME NEW k \in Tokens, attach_failed(k)
        PROVE  Calm
    <2>1. \A j \in Tokens : thread'[j] = "claim" => thread[j] = "claim"
        BY <1>8, <1>0 DEF attach_failed, Goto
    <2>2. k[1] \in Tasks /\ worker' = worker
        BY <1>8, TokenFacts DEF attach_failed
    <2>3. \A u \in Tasks : /\ task'[u].try = task[u].try
                           /\ task'[u].status = "attaching" => task[u].status = "attaching"
        BY <1>8, <2>2, <1>0, <1>r DEF attach_failed
    <2> QED
        BY <2>1, <2>2, <2>3
  <1>9. ASSUME NEW k \in Tokens, acknowledge(k)
        PROVE  Calm
    <2>0. k[1] \in Tasks
        BY TokenFacts
    <2>1. \A j \in Tokens : worker'[j].state \in L => worker[j].state \in L
        BY <1>9, <1>kill DEF acknowledge
    <2>2. \A u \in Tasks : /\ task'[u].try = task[u].try
                           /\ task'[u].status = "attaching" => task[u].status = "attaching"
        BY <1>9, <2>0, <1>0 DEF acknowledge, Rows
    <2>3. \A j \in Tokens : thread'[j] = "claim" => thread[j] = "claim"
        BY <1>9, <1>0 DEF acknowledge, Goto
    <2> QED
        BY <2>1, <2>2, <2>3
  <1>10. ASSUME NEW k \in Tokens, claim_launch(k)
         PROVE  Taking' \subseteq Taking
    <2>1. CASE ~OwnsRow(k)
      <3>1. Calm
          BY <1>10, <2>1, <1>0 DEF claim_launch, Goto
      <3> QED
          BY <3>1, <1>calm
    <2>2. CASE OwnsRow(k)
      <3>0. k \in Taking /\ k[1] \in Tasks
          BY <1>10, <2>2, TokenFacts DEF claim_launch, Taking, Pending
      <3>1. \A j \in Tokens : j # k => worker'[j] = worker[j] /\ thread'[j] = thread[j]
          BY <1>10, <2>2, <1>0 DEF claim_launch, Goto
      <3>2. \A u \in Tasks : task'[u].try = task[u].try /\ task'[u].status = task[u].status
          BY <1>10, <2>2, <3>0, <1>0 DEF claim_launch, Rows
      <3>3. \A j \in Tokens : OwnsRow(j)' = OwnsRow(j)
          BY <3>2, TokenFacts DEF OwnsRow, Token
      <3> QED
          BY <3>0, <3>1, <3>3, <1>astray DEF Taking, Sighted, Live, Pending, In
    <2> QED
        BY <2>1, <2>2
  <1>11. CASE tick \/ Monitor \/ UNCHANGED vars
      BY <1>11, <1>calm DEF tick, Monitor, refresh_license_usage_if_due, lmstat,
         publish_license_snapshot, query_fails, vars
  <1>12. CASE restart
    <2>1. \A k \in Tokens : thread'[k] # "claim"
        BY <1>12 DEF restart
    <2>2. \A k \in Tokens : worker'[k].state \in L => worker[k].state \in L
        BY <1>12 DEF restart, Gone, Started
    <2> QED
        BY <2>1, <2>2, <1>astray DEF Taking, Sighted, Live, Pending, In
  <1> HIDE DEF Calm
  <1> QED
      BY <1>calm, <1>1, <1>2, <1>3, <1>4, <1>5, <1>6, <1>7, <1>8, <1>9, <1>10, <1>11, <1>12
      DEF Next, Launch

(* At a reservation the claims and the count cover all that takes seats.   *)
LEMMA ReservationFits ==
    ASSUME Inv, WithinSeats, NEW t \in Tasks, reserve_task(t), astray \subseteq astray'
    PROVE  WithinSeats'
  <1> DEFINE k == <<t, task[t].try + 1>>
  <1>0. /\ RowShape /\ Accounted /\ task \in [Tasks -> Rows] /\ snapshot \in Snapshots
        /\ thread \in [Tokens -> {"none", "claim", "mark", "ssh", "failed", "ack", "done", "dead"}]
      BY DEF Inv, Shape, TypeOK
  <1>k. k \in Tokens /\ k[1] = t
      BY <1>0, Constants DEF reserve_task, Rows, Tokens
  <1>1. Taking' \subseteq Taking \cup {k}
    <2>1. \A j \in Tokens \ {k} : thread'[j] = thread[j]
        BY <1>0, <1>k DEF reserve_task
    <2>2. \A u \in Tasks \ {t} : task'[u] = task[u]
        BY <1>0 DEF reserve_task
    <2>3. Token(t)' = k
        BY <1>0 DEF reserve_task, Token
    <2>4. worker' = worker
        BY DEF reserve_task
    <2>5. ASSUME NEW j \in Tokens, j # k, OwnsRow(j)'
          PROVE  OwnsRow(j)
      <3>1. j[1] \in Tasks /\ j[1] # t
          BY <2>5, <2>3, TokenFacts DEF OwnsRow
      <3> QED
          BY <2>5, <3>1, <2>2 DEF OwnsRow, Token
    <2> HIDE DEF k
    <2> QED
        BY <2>1, <2>4, <2>5 DEF Taking, Sighted, Live, Pending, In
  <1> HIDE DEF k
  <1>2. Taking \subseteq Claimed \cup snapshot.seen
    <2>1. snapshot.ok
        BY DEF reserve_task, Fits
    <2>2. Pending \subseteq Claimed
        BY <1>0, TokenFacts DEF Pending, OwnsRow, RowShape, Claimed
    <2>3. Sighted \subseteq Claimed \cup snapshot.seen
        BY <1>0, <2>1 DEF Accounted, Sighted, Live, In, Claimed
    <2> QED
        BY <2>2, <2>3 DEF Taking
  <1>sub. /\ Taking \in SUBSET Tokens /\ Taking' \in SUBSET Tokens /\ Claimed \in SUBSET Tokens
          /\ snapshot.seen \in SUBSET Tokens /\ {k} \in SUBSET Tokens
      BY <1>0, <1>k DEF Taking, Sighted, Live, Pending, In, Claimed, Snapshots
  <1> DEFINE all == (Claimed \cup snapshot.seen) \cup {k}
  <1>3. Seats(all) <= Seats(Claimed \cup snapshot.seen) + Cost[t]
      BY <1>sub, <1>k, SeatsTogether, OneAttempt
  <1>4. Seats(Claimed \cup snapshot.seen) <= Seats(Claimed) + Seats(snapshot.seen)
      BY <1>sub, SeatsTogether
  <1>5. Seats(snapshot.seen) + Seats(Claimed) + Cost[t] <= Capacity(t)
      BY DEF reserve_task, Fits
  <1>6. Seats(Taking') <= Seats(all)
      BY <1>1, <1>2, <1>sub, FewerSeats
  <1>7. /\ Seats(Taking') \in Nat /\ Seats(all) \in Nat /\ Seats(Claimed) \in Nat
        /\ Seats(snapshot.seen) \in Nat /\ Seats(Claimed \cup snapshot.seen) \in Nat
        /\ Cost[t] \in Nat /\ Total \in Nat /\ Reserve \in 0..Total
      BY <1>sub, FiniteSeats, LicenseAssumptions
  <1> HIDE DEF all
  <1>8. Seats(Taking') <= Capacity(t)
      BY <1>3, <1>4, <1>5, <1>6, <1>7 DEF Capacity
  <1>9. Seats(Taking') <= Total
      BY <1>7, <1>8 DEF Capacity
  <1>10. Ordinary(Taking') \in SUBSET Taking' /\ Ordinary(Taking) \in SUBSET Taking
      BY DEF Ordinary
  <1>11. CASE t \notin Exempt
    <2>1. Seats(Ordinary(Taking')) <= Seats(Taking') /\ Seats(Ordinary(Taking')) \in Nat
        BY <1>10, <1>sub, FewerSeats, FiniteSeats
    <2>2. Seats(Ordinary(Taking')) <= Total - Reserve
        BY <2>1, <1>7, <1>8, <1>11 DEF Capacity
    <2> QED
        BY <1>9, <2>2 DEF WithinSeats, Seats, SeatsOf, Ordinary
  <1>12. CASE t \in Exempt
    <2>1. Ordinary(Taking') \in SUBSET Ordinary(Taking)
        BY <1>1, <1>k, <1>12 DEF Ordinary
    <2>2. /\ Seats(Ordinary(Taking')) <= Seats(Ordinary(Taking))
          /\ Seats(Ordinary(Taking')) \in Nat /\ Seats(Ordinary(Taking)) \in Nat
        BY <2>1, <1>10, <1>sub, FewerSeats, FiniteSeats
    <2>3. Seats(Ordinary(Taking')) <= Total - Reserve
        BY <2>2, <1>7 DEF WithinSeats
    <2> QED
        BY <1>9, <2>3 DEF WithinSeats, Seats, SeatsOf, Ordinary
  <1> QED
      BY <1>11, <1>12

(* The attempts in sight never take more seats than there are, and leave   *)
(* the reserve to the projects that may use it, for any costs, settings,   *)
(* faults and number of tasks and attempts.                                *)
THEOREM SeatsNeverOversold ==
    Spec => []SeatsNotOversold
  <1>1. ASSUME Init
        PROVE  WithinSeats
    <2>1. Taking = {} /\ Ordinary(Taking) = {}
        BY <1>1 DEF Init, Taking, Sighted, Live, Pending, In, Ordinary
    <2>2. Seats({}) = 0
      <3>1. UNION {SeatsOf(k) : k \in {}} = {}
          OBVIOUS
      <3> QED
          BY <3>1, FS_EmptySet DEF Seats
    <2> QED
        BY <2>1, <2>2, LicenseAssumptions DEF WithinSeats
  <1>2. ASSUME Inv, WithinSeats, [Next]_vars
        PROVE  WithinSeats'
    <2>1. CASE \E t \in Tasks : reserve_task(t)
      <3>1. astray \subseteq astray'
          BY <1>2 DEF Next, restart, vars
      <3> QED
          BY <1>2, <2>1, <3>1, ReservationFits
    <2>2. CASE \A t \in Tasks : ~reserve_task(t)
      <3>1. Taking' \subseteq Taking
          BY <1>2, <2>2, NoNewTaker
      <3>2. Taking \in SUBSET Tokens
          BY DEF Taking, Sighted, Live, Pending, In
      <3>3. /\ Taking' \in SUBSET Taking /\ Ordinary(Taking) \in SUBSET Tokens
            /\ Ordinary(Taking') \in SUBSET Ordinary(Taking) /\ Taking' \in SUBSET Tokens
            /\ Ordinary(Taking') \in SUBSET Tokens
          BY <3>1, <3>2 DEF Ordinary
      <3>4. Seats(Taking') <= Seats(Taking) /\ Seats(Ordinary(Taking')) <= Seats(Ordinary(Taking))
          BY <3>2, <3>3, FewerSeats
      <3>5. /\ Seats(Taking) \in Nat /\ Seats(Taking') \in Nat /\ Total \in Nat
            /\ Seats(Ordinary(Taking)) \in Nat /\ Seats(Ordinary(Taking')) \in Nat
            /\ Reserve \in 0..Total
          BY <3>2, <3>3, FiniteSeats, LicenseAssumptions
      <3>6. Seats(Taking') <= Total /\ Seats(Ordinary(Taking')) <= Total - Reserve
          BY <1>2, <3>4, <3>5 DEF WithinSeats
      <3> QED
          BY <3>6 DEF WithinSeats, Seats, SeatsOf, Ordinary
    <2> QED
        BY <2>1, <2>2
  <1>3. ASSUME WithinSeats
        PROVE  SeatsNotOversold
    <2> DEFINE live == In({"launching", "started", "holding"}) \ astray
               ordinary == {k \in live : k[1] \notin Exempt}
    <2>1. /\ Taking \in SUBSET Tokens /\ live \in SUBSET Taking
          /\ Ordinary(Taking) \in SUBSET Tokens /\ ordinary \in SUBSET Ordinary(Taking)
          /\ live \in SUBSET Tokens /\ ordinary \in SUBSET Tokens
        BY DEF Taking, Sighted, Live, Pending, In, Ordinary
    <2> HIDE DEF live, ordinary
    <2>2. Seats(live) <= Seats(Taking) /\ Seats(ordinary) <= Seats(Ordinary(Taking))
        BY <2>1, FewerSeats
    <2>3. /\ Seats(Taking) \in Nat /\ Seats(live) \in Nat /\ Total \in Nat
          /\ Seats(Ordinary(Taking)) \in Nat /\ Seats(ordinary) \in Nat
          /\ Reserve \in 0..Total
        BY <2>1, FiniteSeats, LicenseAssumptions
    <2>4. Seats(live) <= Total /\ Seats(ordinary) <= Total - Reserve
        BY <1>3, <2>2, <2>3 DEF WithinSeats
    <2> QED
        BY <2>4 DEF SeatsNotOversold, live, ordinary
  <1> QED
      BY <1>1, <1>2, <1>3, Invariance, PTL DEF Spec
=============================================================================
