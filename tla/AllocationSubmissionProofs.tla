--------------------- MODULE AllocationSubmissionProofs ---------------------
(***************************************************************************)
(* What holds of the opening of pool allocations for any number of rows    *)
(* and of restarts, whichever thread opens them and whoever closes them.   *)
(* The argument: the row records the claim before sbatch runs (Claimed), a *)
(* job comes only from the worker that was started after the claim         *)
(* (Created), a row knows a job id only when that worker is over           *)
(* (Recorded), and every way the opener loses sight of its worker or a     *)
(* close loses sight of the job is accounted for (Watched).  A job the     *)
(* sweep found and does not spare has a row that is never PENDING again    *)
(* (SweepView).                                                            *)
(***************************************************************************)
EXTENDS AllocationSubmission, TLAPS

\* Once a worker was started, a PENDING row shows it: by the job id or by the
\* phase that recovery looks for.  Before, nothing was submitted.
Claimed(a) ==
    /\ opener[a] \in {"none", "reserved"} => worker[a] = "none"
    /\ worker[a] # "none" /\ row[a].state = "pending"
          => row[a].id \/ row[a].phase = "in_progress"

\* A job is the doing of a worker that returned something other than
\* NotCreated.
Created(a) ==
    /\ job[a] = "live" => worker[a] \in {"ok", "unknown"}
    /\ opener[a] = "not_created" => worker[a] = "not_created"

\* An id is written only after the worker is over, by the opener or by a
\* recovery that found the job.
Recorded(a) ==
    /\ job[a] # "none" => worker[a] \notin {"none", "ready"}
    /\ recovery[a] = "match" => worker[a] \notin {"none", "ready"}
    /\ opener[a] \in {"ok", "reap"} => worker[a] = "ok"
    /\ sweep.pc = "cancel" /\ a \in sweep.allocs => worker[a] \notin {"none", "ready"}
    /\ row[a].id => worker[a] \notin {"none", "ready"}

\* A close that cancels holds the id of a row that only it can move; when it
\* has cancelled nothing, it has not seen the id that is there.
Closer(a) ==
    /\ closer[a] = "mark" => row[a].state = "pending" /\ row[a].id
    /\ closer[a] = "scancel" => row[a].state = "closing" /\ row[a].id
    /\ closer[a] = "finish" => row[a].state = "closing"
    /\ (closer[a] = "finish" \/ row[a].state = "closed") /\ row[a].id /\ job[a] = "live"
          => a \in overtaken

\* The opener follows its worker, or the job is recorded, or it is a stray.
Watched(a) ==
    /\ row[a].state = "failed" => ~row[a].id
    /\ worker[a] = "ready" => opener[a] = "waiting" \/ a \in stray
    /\ worker[a] = "unknown" => a \in stray
    /\ worker[a] = "ok" /\ job[a] = "live"
          => opener[a] \in {"waiting", "ok", "reap"} \/ a \in stray \/ row[a].id

RowInv(a) == Claimed(a) /\ Created(a) /\ Recorded(a) /\ Closer(a) /\ Watched(a)

\* No opener, recovery or close can make the row PENDING (again).
Over(a) ==
    /\ row[a].state # "pending"
    /\ opener[a] \notin {"none", "reserved"}
    /\ closer[a] \notin {"mark", "scancel"}

\* So it is with every job that was there when the sweep read the rows, and
\* that it does not spare.
SweepView ==
    \A a \in sweep.old :
        \/ sweep.pc = "read" /\ a \notin sweep.allocs
        \/ sweep.pc = "cancel" /\ a \in sweep.allocs
        => Over(a)

Inv == TypeOK /\ \A a \in Allocs : RowInv(a)

-----------------------------------------------------------------------------
LEMMA InitInv == Init => Inv
BY Parameters DEF Init, Inv, TypeOK, RowInv, Claimed, Created, Recorded, Closer, Watched, Row, NoRow,
    Phase, OpenerPc, WorkerPc, CloserPc, SweepPc, Outcome

\* Every action but a crash and the sweep touches the entries of one row.
LEMMA OpenRecordInv == ASSUME NEW a \in Allocs, Inv, open_allocation_record(a) PROVE Inv'
BY DEF open_allocation_record, OpenerGoto, Inv, TypeOK, RowInv, Claimed, Created, Recorded, Closer, Watched,
    Row, NoRow, Phase, OpenerPc, Outcome

\* The compare-and-set moves one row or none, and a claim keeps its invariant
\* when the row is failed or acknowledged.
LEMMA IfClaimTypes ==
    ASSUME NEW a \in Allocs, NEW phase, NEW r \in Row, TypeOK, r.id => r.phase = "none",
           IfClaim(a, phase, r)
    PROVE  /\ row' \in [Allocs -> Row]
           /\ \A b \in Allocs : row'[b].id => row'[b].phase = "none"
           /\ \A b \in Allocs \ {a} : row'[b] = row[b]
           /\ row'[a] = IF HasClaim(a, phase) THEN r ELSE row[a]
BY DEF IfClaim, TypeOK

LEMMA ClaimedRows ==
    ASSUME NEW a \in Allocs, TypeOK
    PROVE  /\ FailedRow(a) \in Row
           /\ FailedRow(a).state = "failed" /\ FailedRow(a).phase = "none"
           /\ FailedRow(a).id = row[a].id
           /\ AckedRow(a) \in Row
           /\ AckedRow(a).state = row[a].state /\ AckedRow(a).phase = "none" /\ AckedRow(a).id
BY DEF FailedRow, AckedRow, TypeOK, Row, Phase

\* What is left to show of a step that touches one row.
LEMMA OneRow ==
    ASSUME NEW a \in Allocs, Inv, TypeOK', RowInv(a)',
           \A b \in Allocs \ {a} :
              /\ row'[b] = row[b] /\ job'[b] = job[b] /\ opener'[b] = opener[b]
              /\ worker'[b] = worker[b] /\ closer'[b] = closer[b] /\ recovery'[b] = recovery[b]
              /\ b \in stray' <=> b \in stray
              /\ b \in overtaken' <=> b \in overtaken
              /\ sweep' = sweep
    PROVE  Inv'
<1> SUFFICES ASSUME NEW b \in Allocs, b # a PROVE RowInv(b)'
    BY DEF Inv
<1> QED BY DEF Inv, RowInv, Claimed, Created, Recorded, Closer, Watched

LEMMA ClaimInv == ASSUME NEW a \in Allocs, Inv, claim_submission(a) PROVE Inv'
<1> DEFINE r == [row[a] EXCEPT !.phase = "in_progress"]
<1>1. CASE HasClaim(a, "reserved")
    <2>1. /\ r \in Row /\ r.state = "pending" /\ r.phase = "in_progress" /\ r.id = FALSE
          /\ row' = [row EXCEPT ![a] = r]
        BY <1>1 DEF claim_submission, IfClaim, HasClaim, Inv, TypeOK, Row, Phase
    <2> HIDE DEF r
    <2>2. row' \in [Allocs -> Row] /\ row'[a] = r
        BY <2>1 DEF Inv, TypeOK
    <2>3. TypeOK'
        BY <1>1, <2>1, <2>2 DEF claim_submission, OpenerGoto, Inv, TypeOK, OpenerPc, WorkerPc
    <2>4. RowInv(a)'
        BY <1>1, <2>1, <2>2
        DEF claim_submission, OpenerGoto, HasClaim, Inv, TypeOK, RowInv, Claimed, Created,
            Recorded, Closer, Watched
    <2> QED BY <1>1, <2>1, <2>3, <2>4, OneRow DEF claim_submission, OpenerGoto, Inv, TypeOK
<1>2. CASE ~HasClaim(a, "reserved")
    BY <1>2
    DEF claim_submission, IfClaim, OpenerGoto, Inv, TypeOK, RowInv, Claimed, Created, Recorded, Closer,
        Watched, OpenerPc
<1> QED BY <1>1, <1>2

LEMMA SubmitInv == ASSUME NEW a \in Allocs, Inv, submit_allocation(a) PROVE Inv'
BY DEF submit_allocation, Inv, TypeOK, RowInv, Claimed, Created, Recorded, Closer, Watched, WorkerPc, Outcome

LEMMA CollectInv == ASSUME NEW a \in Allocs, Inv, collect_outcome(a) PROVE Inv'
BY DEF collect_outcome, OpenerGoto, Inv, TypeOK, RowInv, Claimed, Created, Recorded, Closer, Watched,
    OpenerPc, Outcome

LEMMA BudgetInv == ASSUME NEW a \in Allocs, Inv, budget_expires(a) PROVE Inv'
BY DEF budget_expires, OpenerGoto, Inv, TypeOK, RowInv, Claimed, Created, Recorded, Closer, Watched,
    OpenerPc, Outcome

LEMMA SettleInv == ASSUME NEW a \in Allocs, Inv, settle_outcome(a) PROVE Inv'
<1>1. /\ row' \in [Allocs -> Row]
      /\ \A b \in Allocs : row'[b].id => row'[b].phase = "none"
      /\ \A b \in Allocs \ {a} : row'[b] = row[b]
      /\ \/ row'[a] = row[a] /\ (opener[a] = "ok" => ~HasClaim(a, "in_progress"))
         \/ HasClaim(a, "in_progress") /\ opener[a] = "not_created" /\ row'[a] = FailedRow(a)
         \/ HasClaim(a, "in_progress") /\ opener[a] = "ok" /\ row'[a] = AckedRow(a)
    <2>1. CASE opener[a] = "unknown" /\ UNCHANGED row
        BY <2>1 DEF Inv, TypeOK
    <2>2. CASE opener[a] = "not_created" /\ IfClaim(a, "in_progress", FailedRow(a))
        BY <2>2, IfClaimTypes, ClaimedRows DEF Inv
    <2>3. CASE opener[a] = "ok" /\ IfClaim(a, "in_progress", AckedRow(a))
        BY <2>3, IfClaimTypes, ClaimedRows DEF Inv
    <2> QED BY <2>1, <2>2, <2>3 DEF settle_outcome
<1>2. /\ opener[a] \in Outcome /\ opener'[a] \in {"done", "reap"}
      /\ opener' = [opener EXCEPT ![a] = opener'[a]]
      /\ opener'[a] = "done" /\ opener[a] = "ok" => HasClaim(a, "in_progress")
      /\ opener'[a] = "reap" => opener[a] = "ok"
      /\ UNCHANGED <<job, worker, recovery, closer, sweep, stray, overtaken, crashes>>
    BY DEF settle_outcome, OpenerGoto, Outcome, Inv, TypeOK
<1>3. TypeOK'
    BY <1>1, <1>2 DEF Inv, TypeOK, OpenerPc
<1>4. RowInv(a)'
    <2>1. CASE row'[a] = row[a] /\ (opener[a] = "ok" => ~HasClaim(a, "in_progress"))
        BY <1>2, <2>1 DEF Inv, RowInv, Claimed, Created, Recorded, Closer, Watched, Outcome
    <2>2. CASE HasClaim(a, "in_progress") /\ opener[a] = "not_created" /\ row'[a] = FailedRow(a)
        <3>1. row'[a].state = "failed" /\ row'[a].id = FALSE
            BY <2>2, ClaimedRows DEF HasClaim, Inv, TypeOK, Row
        <3> QED BY <1>2, <2>2, <3>1 DEF HasClaim, Inv, RowInv, Claimed, Created, Recorded, Closer, Watched
    <2>3. CASE HasClaim(a, "in_progress") /\ opener[a] = "ok" /\ row'[a] = AckedRow(a)
        <3>1. row'[a].state = "pending" /\ row'[a].id
            BY <2>3, ClaimedRows DEF HasClaim, Inv
        <3> QED BY <1>2, <2>3, <3>1 DEF HasClaim, Inv, RowInv, Claimed, Created, Recorded, Closer, Watched
    <2> QED BY <1>1, <2>1, <2>2, <2>3
<1> QED BY <1>1, <1>2, <1>3, <1>4, OneRow DEF Inv, TypeOK

LEMMA ReapInv == ASSUME NEW a \in Allocs, Inv, reap_unacknowledged(a) PROVE Inv'
<1>1. /\ opener[a] = "reap" /\ opener' = [opener EXCEPT ![a] = "done"]
      /\ \/ job' = [job EXCEPT ![a] = "gone"] /\ stray' = stray
         \/ job' = job /\ stray' = stray \cup {a}
      /\ UNCHANGED <<row, worker, recovery, closer, sweep, overtaken, crashes>>
    BY DEF reap_unacknowledged, OpenerGoto
<1>2. TypeOK'
    BY <1>1 DEF Inv, TypeOK, OpenerPc
<1>3. RowInv(a)'
    BY <1>1 DEF Inv, TypeOK, RowInv, Claimed, Created, Recorded, Closer, Watched
<1> QED BY <1>1, <1>2, <1>3, OneRow DEF Inv, TypeOK

LEMMA RecoverInv ==
    ASSUME NEW a \in Allocs, Inv,
           \/ recover_reserved(a) \/ recover_query(a) \/ recover_settle(a) \/ recover_hold(a)
    PROVE  Inv'
<1>1. CASE recover_query(a) \/ recover_hold(a)
    BY <1>1
    DEF recover_query, recover_hold, Inv, TypeOK, RowInv, Claimed, Created, Recorded, Closer, Watched
<1>2. CASE recover_reserved(a) \/ recover_settle(a)
    <2>1. /\ row' \in [Allocs -> Row]
          /\ \A b \in Allocs : row'[b].id => row'[b].phase = "none"
          /\ \A b \in Allocs \ {a} : row'[b] = row[b]
          /\ \/ row'[a] = row[a]
             \/ row[a].state = "pending" /\ row[a].id = FALSE /\ row'[a] = FailedRow(a)
             \/ /\ row[a].state = "pending" /\ row[a].id = FALSE /\ row'[a] = AckedRow(a)
                /\ recovery[a] = "match"
        <3>1. CASE recover_reserved(a)
            BY <3>1, ClaimedRows DEF recover_reserved, HasClaim, Inv, TypeOK
        <3>2. CASE recover_settle(a)
            BY <3>2, IfClaimTypes, ClaimedRows DEF recover_settle, HasClaim, Inv
        <3> QED BY <1>2, <3>1, <3>2
    <2>2. /\ recovery' \in [Allocs -> {"none", "match", "no_match"}]
          /\ \A b \in Allocs \ {a} : recovery'[b] = recovery[b]
          /\ recovery'[a] \in {recovery[a], "none"}
          /\ UNCHANGED <<job, opener, worker, closer, sweep, stray, overtaken, crashes>>
        BY <1>2 DEF recover_reserved, recover_settle, Inv, TypeOK
    <2>3. TypeOK'
        BY <2>1, <2>2 DEF Inv, TypeOK
    <2>4. RowInv(a)'
        <3>1. CASE row'[a] = row[a]
            BY <2>2, <3>1 DEF Inv, RowInv, Claimed, Created, Recorded, Closer, Watched
        <3>2. CASE /\ row[a].state = "pending" /\ row[a].id = FALSE
                   /\ \/ row'[a] = FailedRow(a)
                      \/ row'[a] = AckedRow(a) /\ recovery[a] = "match"
            <4>1. \/ row'[a].state = "failed" /\ row'[a].id = FALSE
                  \/ row'[a].state = "pending" /\ row'[a].id /\ recovery[a] = "match"
                BY <3>2, ClaimedRows DEF Inv
            <4> QED BY <2>2, <3>2, <4>1 DEF Inv, RowInv, Claimed, Created, Recorded, Closer, Watched
        <3> QED BY <2>1, <3>1, <3>2
    <2> QED BY <2>1, <2>2, <2>3, <2>4, OneRow
<1> QED BY <1>1, <1>2

LEMMA CloseInv ==
    ASSUME NEW a \in Allocs, Inv, close_read(a) \/ CloseStep(a)
    PROVE  Inv'
<1>1. CASE close_read(a)
    BY <1>1
    DEF close_read, CloserGoto, Inv, TypeOK, RowInv, Claimed, Created, Recorded, Closer, Watched, CloserPc
<1>2. CASE CloseStep(a)
    <2> DEFINE r(st) == [row[a] EXCEPT !.state = st]
    <2>1. \A st \in {"pending", "closing", "closed"} :
             /\ r(st) \in Row /\ r(st).state = st /\ r(st).id = row[a].id
             /\ r(st).phase = row[a].phase
        BY DEF Inv, TypeOK, Row
    <2>2. PICK st \in {"pending", "closing", "closed"} :
             \/ /\ closer[a] = "mark" /\ st = "closing"
                /\ row' = [row EXCEPT ![a] = r(st)]
                /\ job' = job /\ closer' = [closer EXCEPT ![a] = "scancel"]
             \/ /\ closer[a] = "mark_no_id" /\ st = "closing"
                /\ row' = [row EXCEPT ![a] = r(st)]
                /\ job' = job /\ closer' = [closer EXCEPT ![a] = "finish"]
                /\ row[a].id => a \in overtaken'
             \/ /\ closer[a] = "scancel" /\ st = "pending"
                /\ row' = [row EXCEPT ![a] = r(st)]
                /\ job' = job /\ closer' = [closer EXCEPT ![a] = "none"]
             \/ /\ closer[a] = "scancel"
                /\ row' = row
                /\ job' = [job EXCEPT ![a] = "gone"] /\ closer' = [closer EXCEPT ![a] = "finish"]
             \/ /\ closer[a] = "finish" /\ st = "closed"
                /\ row' = [row EXCEPT ![a] = r(st)]
                /\ job' = job /\ closer' = [closer EXCEPT ![a] = "none"]
        BY <1>2 DEF CloseStep, close_mark, close_scancel, close_finish, CloserGoto
    <2> HIDE DEF r
    <2>3. /\ UNCHANGED <<opener, worker, recovery, sweep, stray, crashes>>
          /\ overtaken \subseteq overtaken' /\ overtaken' \subseteq overtaken \cup {a}
        BY <1>2 DEF CloseStep, close_mark, close_scancel, close_finish
    <2>4. TypeOK'
        BY <2>1, <2>2, <2>3 DEF Inv, TypeOK, CloserPc
    <2>5. RowInv(a)'
        BY <2>1, <2>2, <2>3 DEF Inv, TypeOK, RowInv, Claimed, Created, Recorded, Closer, Watched
    <2> QED BY <2>2, <2>3, <2>4, <2>5, OneRow DEF Inv, TypeOK
<1> QED BY <1>1, <1>2

LEMMA SweepInv ==
    ASSUME Inv, reconcile_read \/ reconcile_squeue \/ reconcile_cancel \/ reconcile_skip
    PROVE  Inv'
<1>1. /\ \A a \in Allocs :
            \/ job'[a] = job[a]
            \/ job'[a] = "gone" /\ sweep.pc = "cancel" /\ a \in sweep.allocs
      /\ job' \in [Allocs -> {"none", "live", "gone"}]
      /\ sweep' \in [pc : SweepPc, allocs : SUBSET Allocs, old : SUBSET Allocs]
      /\ sweep'.pc = "cancel" => \A a \in sweep'.allocs :
            job[a] = "live" \/ (sweep.pc = "cancel" /\ a \in sweep.allocs)
      /\ UNCHANGED <<row, opener, worker, recovery, closer, stray, overtaken, crashes>>
    <2>1. CASE reconcile_read
        BY <2>1 DEF reconcile_read, Spared, SweepPc, Inv, TypeOK
    <2>2. CASE reconcile_squeue
        <3>1. /\ sweep.old \in SUBSET Allocs
              /\ {b \in Allocs : job[b] = "live"} \ sweep.allocs \in SUBSET Allocs
            BY DEF Inv, TypeOK
        <3>2. sweep' = [pc |-> "cancel", old |-> sweep.old,
                        allocs |-> {b \in Allocs : job[b] = "live"} \ sweep.allocs]
            BY <2>2 DEF reconcile_squeue, Inv, TypeOK
        <3>3. sweep' \in [pc : SweepPc, allocs : SUBSET Allocs, old : SUBSET Allocs]
            BY <3>1, <3>2 DEF SweepPc
        <3> QED BY <2>2, <3>2, <3>3 DEF reconcile_squeue, Inv, TypeOK
    <2>3. CASE reconcile_cancel
        BY <2>3 DEF reconcile_cancel, NoSweep, SweepPc, Inv, TypeOK
    <2>4. CASE reconcile_skip
        BY <2>4 DEF reconcile_skip, NoSweep, SweepPc, Inv, TypeOK
    <2> QED BY <2>1, <2>2, <2>3, <2>4
<1>2. TypeOK'
    BY <1>1 DEF Inv, TypeOK
<1>3. ASSUME NEW a \in Allocs PROVE RowInv(a)'
    <2>1. Claimed(a)' /\ Created(a)' /\ Closer(a)' /\ Watched(a)'
        BY <1>1 DEF Inv, RowInv, Claimed, Created, Closer, Watched
    <2>2. Recorded(a)'
        BY <1>1 DEF Inv, RowInv, Recorded
    <2> QED BY <2>1, <2>2 DEF RowInv
<1> QED BY <1>2, <1>3 DEF Inv

LEMMA JobEndsInv == ASSUME NEW a \in Allocs, Inv, JobEnds(a) PROVE Inv'
BY DEF JobEnds, Inv, TypeOK, RowInv, Claimed, Created, Recorded, Closer, Watched

\* A crash forgets the threads; the jobs they may have created are strays.
LEMMA CrashInv == ASSUME Inv, Crash PROVE Inv'
<1>1. TypeOK'
    BY Parameters DEF Crash, Inv, TypeOK, OpenerPc, WorkerPc, Outcome, CloserPc, SweepPc
<1>2. ASSUME NEW a \in Allocs PROVE RowInv(a)'
    BY <1>2 DEF Crash, Inv, TypeOK, RowInv, Claimed, Created, Recorded, Closer, Watched
<1> QED BY <1>1, <1>2 DEF Inv

LEMMA NextInv == Inv /\ [Next]_vars => Inv'
<1> SUFFICES ASSUME Inv, [Next]_vars PROVE Inv'
    OBVIOUS
<1>1. CASE UNCHANGED vars
    BY <1>1 DEF vars, Inv, TypeOK, RowInv, Claimed, Created, Recorded, Closer, Watched
<1>2. ASSUME NEW a \in Allocs, open_allocation_record(a) \/ OpenStep(a) \/ budget_expires(a)
      PROVE  Inv'
    BY <1>2, OpenRecordInv, ClaimInv, SubmitInv, CollectInv, BudgetInv, SettleInv, ReapInv
    DEF OpenStep
<1>3. ASSUME NEW a \in Allocs,
             \/ recover_reserved(a) \/ recover_query(a) \/ recover_settle(a) \/ recover_hold(a)
      PROVE  Inv'
    BY <1>3, RecoverInv
<1>4. ASSUME NEW a \in Allocs, close_read(a) \/ CloseStep(a) \/ JobEnds(a)
      PROVE  Inv'
    BY <1>4, CloseInv, JobEndsInv
<1> QED BY <1>1, <1>2, <1>3, <1>4, SweepInv, CrashInv DEF Next

\* The types, the claim that precedes every sbatch, and the accounting of the
\* jobs nobody follows hold in every reachable state.
THEOREM Invariance == Spec => []Inv
BY InitInv, NextInv, PTL DEF Spec

\* Rows, threads and the sweep keep their types, and an acknowledged row
\* carries no submission phase, in every behaviour.
THEOREM TypeCorrect == Spec => []TypeOK
<1>1. Inv => TypeOK
    BY DEF Inv
<1> QED BY <1>1, Invariance, PTL

\* However sbatch, crashes, closes and the recovery interleave, a PENDING row
\* whose job lives carries the id or the phase by which it is found again.
THEOREM DiscoverableJob == Spec => []JobIsDiscoverable
<1>1. Inv => JobIsDiscoverable
    BY DEF Inv, RowInv, Claimed, Created, JobIsDiscoverable
<1> QED BY <1>1, Invariance, PTL

\* Whoever opens, closes and recovers rows, a job whose row is closed or
\* failed is about to be acknowledged or reaped, escaped by a fault nobody can
\* observe, or belongs to a row closed by somebody who read it before the id.
THEOREM JobsAccounted == Spec => []UnownedJobIsAccounted
<1>1. Inv => UnownedJobIsAccounted
    BY DEF Inv, RowInv, Created, Closer, Watched, UnownedJobIsAccounted
<1> QED BY <1>1, Invariance, PTL

-----------------------------------------------------------------------------
(* The orphan sweep.                                                       *)

\* What a step may do to the row of a job that is over: nothing that makes it
\* PENDING or lets it become so.
StaysOver(a) == Over(a) => Over(a)'

LEMMA OpenOver ==
    ASSUME Inv, NEW a \in Allocs, open_allocation_record(a) \/ OpenStep(a) \/ budget_expires(a)
    PROVE  sweep' = sweep /\ \A b \in Allocs : StaysOver(b)
<1>1. CASE open_allocation_record(a)
    BY <1>1 DEF open_allocation_record, OpenerGoto, StaysOver, Over, Inv, TypeOK
<1>2. CASE claim_submission(a)
    BY <1>2 DEF claim_submission, IfClaim, HasClaim, OpenerGoto, StaysOver, Over, Inv, TypeOK
<1>3. CASE submit_allocation(a)
    BY <1>3 DEF submit_allocation, StaysOver, Over
<1>4. CASE collect_outcome(a) \/ budget_expires(a) \/ reap_unacknowledged(a)
    BY <1>4 DEF collect_outcome, budget_expires, reap_unacknowledged, OpenerGoto, Outcome,
                StaysOver, Over, Inv, TypeOK
<1>5. CASE settle_outcome(a)
    BY <1>5 DEF settle_outcome, IfClaim, HasClaim, OpenerGoto, StaysOver, Over, Inv, TypeOK
<1> QED BY <1>1, <1>2, <1>3, <1>4, <1>5 DEF OpenStep

LEMMA RecoverOver ==
    ASSUME Inv, NEW a \in Allocs,
           \/ recover_reserved(a) \/ recover_query(a) \/ recover_settle(a) \/ recover_hold(a)
    PROVE  sweep' = sweep /\ \A b \in Allocs : StaysOver(b)
BY DEF recover_reserved, recover_query, recover_settle, recover_hold, IfClaim, HasClaim,
       StaysOver, Over, Inv, TypeOK

\* A close moves a row back to PENDING only when it holds its id.
LEMMA CloseOver ==
    ASSUME Inv, NEW a \in Allocs, close_read(a) \/ CloseStep(a)
    PROVE  sweep' = sweep /\ \A b \in Allocs : StaysOver(b)
<1>1. CASE close_read(a)
    BY <1>1 DEF close_read, CloserGoto, StaysOver, Over, Inv, TypeOK
<1>2. CASE close_mark(a)
    BY <1>2 DEF close_mark, CloserGoto, StaysOver, Over, Inv, TypeOK, Row
<1>3. CASE close_scancel(a)
    BY <1>3 DEF close_scancel, CloserGoto, StaysOver, Over, Inv, TypeOK
<1>4. CASE close_finish(a)
    BY <1>4 DEF close_finish, CloserGoto, StaysOver, Over, Inv, TypeOK, Row
<1> QED BY <1>1, <1>2, <1>3, <1>4 DEF CloseStep

LEMMA SweepOver ==
    ASSUME Inv, SweepView, reconcile_read \/ reconcile_squeue \/ reconcile_cancel \/ reconcile_skip
    PROVE  SweepView'
<1>0. UNCHANGED <<row, opener, closer>>
    BY DEF reconcile_read, reconcile_squeue, reconcile_cancel, reconcile_skip
<1>1. CASE reconcile_read
    <2> SUFFICES ASSUME NEW a \in Allocs, job[a] = "live", a \notin Spared PROVE Over(a)
        BY <1>0, <1>1 DEF reconcile_read, SweepView, Over
    <2> QED BY DEF Spared, HasClaim, Over, Inv, TypeOK, RowInv, Claimed, Created, Closer
<1>2. CASE reconcile_squeue
    BY <1>0, <1>2 DEF reconcile_squeue, SweepView, Over, Inv, TypeOK
<1>3. CASE reconcile_cancel
    BY <1>0, <1>3 DEF reconcile_cancel, NoSweep, SweepView, Over, Inv, TypeOK
<1>4. CASE reconcile_skip
    BY <1>4 DEF reconcile_skip, NoSweep, SweepView
<1> QED BY <1>1, <1>2, <1>3, <1>4

LEMMA NextSweepView == Inv /\ SweepView /\ [Next]_vars => SweepView'
<1> SUFFICES ASSUME Inv, SweepView, [Next]_vars PROVE SweepView'
    OBVIOUS
<1>1. ASSUME sweep' = sweep, \A b \in Allocs : StaysOver(b) PROVE SweepView'
    BY <1>1 DEF StaysOver, SweepView, Inv, TypeOK
<1>2. CASE UNCHANGED vars
    BY <1>2 DEF vars, SweepView, Over
<1>3. CASE Crash
    BY <1>3 DEF Crash, SweepView
<1>4. ASSUME NEW a \in Allocs, JobEnds(a) PROVE SweepView'
    BY <1>4 DEF JobEnds, SweepView, Over
<1> QED BY <1>1, <1>2, <1>3, <1>4, OpenOver, RecoverOver, CloseOver, SweepOver DEF Next

\* With the AEDT pool thread opening rows, closes and the recovery at work
\* between its read and its scancel, the sweep never cancels a job that was
\* there when it read the rows and that a PENDING row tracks.
THEOREM SweepSpares == Spec => SweepSparesTracked
<1> DEFINE Spares == \A a \in Allocs : Swept(a) /\ a \in sweep.old => row[a].state # "pending"
<1>1. Init => SweepView
    BY DEF Init, SweepView
<1>2. SweepView /\ [Next]_vars => [Spares]_vars
    BY DEF SweepView, Over, Swept
<1> QED BY <1>1, <1>2, Invariance, NextSweepView, PTL DEF Spec, SweepSparesTracked
=============================================================================
