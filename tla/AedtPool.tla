------------------------------ MODULE AedtPool ------------------------------
(***************************************************************************)
(* The AEDT pool service (aedt_pool.AedtPoolService): project leases on    *)
(* the slots of shared AEDT Desktops ("sessions").  Clients ask for a      *)
(* lease, accept the offered slot, open a project, wait for the Desktop's  *)
(* one solve permit, solve and release; a session host on the node         *)
(* registers the Desktop, heartbeats, closes the projects of releasing     *)
(* leases and acknowledges; a background tick reconciles what went silent. *)
(*                                                                         *)
(* Every call of the service is one SQLite writer transaction, so the      *)
(* database is one variable, db, every SQL pass is an operator from        *)
(* databases to databases, and a call is one action.  The exceptions keep  *)
(* their steps: session heartbeats and release acknowledgements read the   *)
(* clock before their transaction, the reap of a dead session probes       *)
(* between two, and a fault report of a client is several.  Time is        *)
(* abstracted to what the code compares: a timestamp becomes the fact that *)
(* its window has passed.  Only protocol version 2 is modelled, and one    *)
(* lease row and one reservation row per task.                             *)
(***************************************************************************)
EXTENDS Naturals, FiniteSets

CONSTANTS
    Leases,         \* lease requests; a lease and its scheduler task share a name
    Pinned,         \* those whose task may be pre-admitted with a reservation
    Exclusive,      \* those with isolation policy "exclusive"
    Family,         \* the workload family of each
    Sessions,       \* rows of aedt_sessions
    Allocs,         \* rows of allocations
    Node,           \* the allocation a session is planned on
    NoSession,      \* a NULL session_id
    Slots,          \* slots_total
    Target,         \* target_projects
    FaultMixes      \* the sets of circumstances a behaviour may meet: faults of
                    \* the environment, "reserved" (some of Pinned are
                    \* pre-admitted) and "one_slot" (Desktops with one slot)

ASSUME AedtPoolAssumptions ==
    /\ Pinned \subseteq Leases /\ Exclusive \subseteq Leases
    /\ Node \in [Sessions -> Allocs]
    /\ NoSession \notin Sessions
    /\ Slots \in Nat \ {0} /\ Target \in Nat
    /\ IsFiniteSet(Leases)

VARIABLES
    faults,    \* the circumstances this behaviour meets
    db,        \* the tables tasks, reservations, leases, sessions, allocations
    enabled,   \* the setting aedt_pool_enabled
    beating,   \* sessions with a heartbeat under way that has read the clock
    acks,      \* release acknowledgements under way that have read the clock
    probed,    \* the state in which a reap saw a session before its probe
    up,        \* sessions whose Desktop process exists
    project,   \* where the Desktop project of a lease is open
    solving,   \* where the native pipeline of a lease is running
    unproven,  \* history: does the last release of a session wait for a
               \* heartbeat to begin ("fresh"), or for it to commit ("set")?
    lifted     \* history: sessions whose quarantine a native-suspect report
               \* overwrote

outside == <<beating, acks, probed>>
vars == <<faults, db, enabled, outside, up, project, solving, unproven, lifted>>

slots_total == IF "one_slot" \in faults THEN 1 ELSE Slots

OwnerStates == {"attaching", "active", "releasing"}
SlotStates == OwnerStates \cup {"offered"}
LiveStates == SlotStates \cup {"queued"}
EndStates == {"released", "failed", "cancelled", "expired"}
Windows == {"quiet", "expires", "deadline", "offer", "release"}
PendingRsv == {"reserved", "claimed"}
LiveRsv == PendingRsv \cup {"consumed"}
Assignable == {"ready", "busy"}
Visible == Assignable \cup {"starting", "draining", "unhealthy"}

Quarantines == {"", "lease", "ack_lost", "death", "cleanup"}
Faulty == {"timeout", "suspect", "native", "start", "other"}

LeaseRows == [state : LiveStates \cup EndStates \cup {"none"},
              on : Sessions \cup {NoSession}, exact : BOOLEAN,
              permit : Nat, native : (Sessions \cup {NoSession}) \X Nat,
              aged : SUBSET Windows]
RsvRows == [state : LiveRsv \cup {"none", "released", "failed", "expired"},
            on : Sessions \cup {NoSession}, key : Leases, auto : BOOLEAN,
            over : BOOLEAN]
SessionRows == [state : Visible \cup {"none", "closed", "failed"},
                host : BOOLEAN, token : BOOLEAN, sealed : BOOLEAN,
                gen : Nat, blocked : {"no", "set", "fresh"},
                drain : BOOLEAN,
                quar : Quarantines, why : Faulty \cup {""},
                silent : 0..2, over : BOOLEAN]
DrainReasons == {"demand", "unhealthy", "faulted", "age", "other"}
(* passed: a heartbeat of the session has begun since the clock was read.  *)
Acks == [on : Sessions, lease : Leases, ok : BOOLEAN, passed : BOOLEAN]
AllocRows == [state : {"active", "draining", "closed"},
              why : DrainReasons,
              old : BOOLEAN]
Databases == [task : [Leases -> {"queued", "running", "ended"}],
              rsv : [Leases -> RsvRows], lease : [Leases -> LeaseRows],
              sess : [Sessions -> SessionRows], alloc : [Allocs -> AllocRows]]

-----------------------------------------------------------------------------
(* Reading the tables.                                                     *)

Occupants(d, s) ==
    {l \in Leases : d.lease[l].on = s /\ d.lease[l].state \in SlotStates}

Held(d, s) ==
    {l \in Leases : d.rsv[l].on = s /\ d.rsv[l].state \in PendingRsv}

Cohort(d, k) == {l \in Leases : d.rsv[l].key = k /\ d.rsv[l].state \in LiveRsv}

Granted(d, s, g) ==
    {l \in Leases : d.lease[l].on = s /\ g > 0 /\ d.lease[l].permit = g}

Open(d, a) == d.alloc[a].state = "active"

(* A session that a reservation or an acceptance may still count on.       *)
Usable(d, s) ==
    /\ d.sess[s].state \in Assignable
    /\ Open(d, Node[s])
    /\ ~d.sess[s].sealed /\ ~d.sess[s].drain /\ d.sess[s].silent = 0

admitted_project_count(d) ==
    Cardinality({l \in Leases : d.lease[l].state \in SlotStates
                                \/ d.rsv[l].state \in PendingRsv})

Compatible(l, m) ==
    l \notin Exclusive /\ m \notin Exclusive /\ Family[l] = Family[m]

-----------------------------------------------------------------------------
(* Rows and how the passes rewrite them.                                   *)

(* UPDATE ... SET ... WHERE: f with the rows of g.                         *)
f \oplus g == [x \in DOMAIN f |-> IF x \in DOMAIN g THEN g[x] ELSE f[x]]

Blocked(b) == IF b = "no" THEN "fresh" ELSE b      \* COALESCE(reuse_blocked_at, now)

(* Mutant: the offer is taken back and the permit is not.                  *)
Requeued_keeps_permit(r) == [r EXCEPT !.state = "queued", !.on = NoSession,
                                      !.aged = @ \ {"offer", "release"}]

Requeued(r) == [r EXCEPT !.state = "queued", !.on = NoSession, !.permit = 0,
                         !.aged = @ \ {"offer", "release"}]
Dropped(r, to) == [r EXCEPT !.state = to, !.on = NoSession]
Ended(r, to) == [r EXCEPT !.state = to]
Releasing(r) == [r EXCEPT !.state = "releasing"]

Draining(r, reason) ==
    [r EXCEPT !.state = "draining", !.why = reason, !.over = r.drain /\ @,
              !.drain = TRUE]

(* drain_requested_at = COALESCE(drain_requested_at, now)                  *)
Unhealthy(r, reason) == [Draining(r, reason) EXCEPT !.state = "unhealthy"]

(* Assignable, or out of it for no other reason than a missed heartbeat.   *)
Recoverable(r) ==
    \/ r.state \in Assignable
    \/ r.state = "unhealthy" /\ r.why = "timeout" /\ r.quar = ""

BlockReuse(d, S) ==
    LET hit == {s \in S \cap Sessions : d.sess[s].state \notin {"closed", "failed"}}
    IN  [d EXCEPT !.sess = @ \oplus [s \in hit |-> [d.sess[s] EXCEPT !.blocked = Blocked(@)]]]

(* _refresh_session_state for every session of S.                          *)
refresh_session_state(d, S) ==
    LET Live(s) == Occupants(d, s) # {}
        hit == {s \in S \cap Sessions : d.sess[s].state \in Assignable}
    IN  [d EXCEPT !.sess = @ \oplus [s \in hit |->
            [d.sess[s] EXCEPT !.state = IF Live(s) THEN "busy"
                                   ELSE IF d.sess[s].drain THEN "draining" ELSE "ready",
                         !.sealed = @ /\ Live(s)]]]

refresh_zero_owner_draining_sessions(d) ==
    refresh_session_state(d, {s \in Sessions : /\ d.sess[s].state = "busy"
                                               /\ d.sess[s].drain
                                               /\ Occupants(d, s) = {}})

-----------------------------------------------------------------------------
(* Reservations: the cohort of a Desktop stands or falls together.         *)

(* _fail_exact_session_reservation_cohort for every key of K; settle is    *)
(* settle_project_owners.                                                  *)
fail_cohorts(d, K, settle) ==
    LET rows == {l \in Leases : d.rsv[l].key \in K /\ d.rsv[l].state \in LiveRsv}
        member == {l \in Leases : /\ d.rsv[l].key \in K /\ d.rsv[l].state # "none"
                                  /\ d.lease[l].exact /\ d.lease[l].state \in LiveStates}
        owner == {l \in member : settle /\ d.lease[l].state \in OwnerStates}
        d1 == [d EXCEPT
                !.lease = @ \oplus [l \in member |-> IF l \in owner THEN Releasing(d.lease[l])
                                            ELSE Ended(d.lease[l], "failed")],
                !.rsv = @ \oplus [l \in rows |-> [d.rsv[l] EXCEPT !.state = "failed"]]]
    IN  BlockReuse(d1, {d.lease[l].on : l \in owner})

(* _expire_exact_session_reservation_cohort for every key of K.            *)
expire_cohorts(d, K) ==
    LET member == {l \in Leases : d.rsv[l].key \in K /\ d.rsv[l].state # "none"}
        loser == {l \in member : d.lease[l].exact /\ d.lease[l].permit = 0
                                 /\ d.lease[l].state \in LiveStates}
        rows == {l \in member : d.rsv[l].state \in LiveRsv /\ d.lease[l].permit = 0}
        d1 == [d EXCEPT
                !.lease = @ \oplus [l \in loser |->
                    IF d.lease[l].state \in OwnerStates THEN Releasing(d.lease[l])
                    ELSE Ended(d.lease[l], "expired")],
                !.rsv = @ \oplus [l \in rows |-> [d.rsv[l] EXCEPT !.state = "expired"]]]
    IN  BlockReuse(d1, {d1.lease[l].on : l \in {m \in member :
                                                   d1.lease[m].state = "releasing"}})

(* Rows whose task or lease is over give their slot back.                  *)
release_finished(d) ==
    LET over == {l \in Leases :
                   \/ d.rsv[l].state \in LiveRsv /\ d.task[l] = "ended"
                   \/ d.rsv[l].state \in {"claimed", "consumed"} /\ d.lease[l].state \in EndStates}
    IN  [d EXCEPT !.rsv = @ \oplus [l \in over |-> [d.rsv[l] EXCEPT !.state = "released"]]]

(* The target of l's reservation can no longer serve its cohort.           *)
InvalidTarget(d, l) ==
    LET s == d.rsv[l].on
        r == d.sess[s]
        C == Cohort(d, d.rsv[l].key)
    IN  /\ \/ r.state \notin Assignable
           \/ /\ r.drain
              /\ ~(/\ r.state = "busy"
                   /\ \A m \in C : /\ d.rsv[m].state = "consumed"
                                   /\ m \in Occupants(d, s))
           \/ /\ ~Open(d, Node[s])
              /\ ~(/\ r.sealed /\ r.host /\ r.token
                   /\ d.rsv[l].state = "consumed"
                   /\ d.lease[l].on = s /\ d.lease[l].state = "active")
           \/ /\ r.sealed
              /\ \E m \in C : \/ d.rsv[m].state \in PendingRsv
                              \/ d.lease[m].permit = 0 /\ d.lease[m].state # "active"
        /\ \E m \in C : d.rsv[m].state \in PendingRsv \/ d.lease[m].permit = 0

LiveRows(d) == {l \in Leases : d.rsv[l].state \in LiveRsv}
UnsealedRows(d) == {l \in LiveRows(d) : ~d.sess[d.rsv[l].on].sealed}

(* The three cohort passes of _refresh_exact_session_reservations: a member *)
(* of an unsealed cohort ended, an unsealed cohort is overdue, or a target  *)
(* is no longer valid.                                                      *)
fail_ended_cohorts(d) ==
    fail_cohorts(d, {d.rsv[l].key : l \in {m \in UnsealedRows(d) :
                       d.task[m] = "ended" /\ Cohort(d, d.rsv[m].key) # {m}}}, TRUE)

expire_overdue_cohorts(d) ==
    expire_cohorts(d, {d.rsv[l].key : l \in {m \in UnsealedRows(d) :
                         d.rsv[m].over /\ d.lease[m].permit = 0}})

fail_invalid_cohorts(d) ==
    LET K == {d.rsv[l].key : l \in {m \in LiveRows(d) : InvalidTarget(d, m)}}
        S == {d.rsv[l].on : l \in {m \in Leases : d.rsv[m].key \in K
                                                /\ d.rsv[m].state # "none"}}
    IN  refresh_session_state(fail_cohorts(d, K, FALSE), S)

refresh_exact_session_reservations(d) ==
    fail_invalid_cohorts(release_finished(expire_overdue_cohorts(fail_ended_cohorts(d))))

(* _exact_session_reservations_are_active                                  *)
exact_session_reservations_are_active(d, s) ==
    \A l \in Leases : d.rsv[l].on = s /\ d.rsv[l].state \in LiveRsv =>
        /\ d.rsv[l].state = "consumed"
        /\ d.lease[l].on = s /\ d.lease[l].state = "active"

-----------------------------------------------------------------------------
(* Placement.  The loop over the queue is greedy, so what it commits is a  *)
(* maximal assignment that keeps slots, isolation and the target; which    *)
(* one depends on the order of the ids and the cursor, left open here.     *)

Placeable(d, l, s) ==
    /\ d.lease[l].state = "queued" /\ d.task[l] # "ended"
    /\ d.lease[l].aged \cap {"quiet", "deadline"} = {}
    /\ d.sess[s].state \in Assignable /\ d.sess[s].silent = 0
    /\ ~d.sess[s].sealed /\ d.sess[s].blocked = "no"
    /\ Open(d, Node[s]) /\ ~d.alloc[Node[s]].old
    /\ d.lease[l].exact => d.rsv[l].on = s /\ d.rsv[l].state = "claimed"

(* The rows after the leases of DOMAIN f were offered slots.               *)
Offer(d, f) ==
    [d EXCEPT
        !.lease = @ \oplus [l \in DOMAIN f |-> [d.lease[l] EXCEPT !.state = "offered", !.on = f[l],
                                                   !.aged = @ \ {"offer"}]],
        !.rsv = @ \oplus [l \in {m \in DOMAIN f : d.lease[m].exact} |->
                    [d.rsv[l] EXCEPT !.state = "consumed"]]]

(* _lease_fits_session for every lease of f at once: siblings of the same  *)
(* cohort are no obstacle to each other, strangers must be compatible.     *)
FitsSession(d, f) ==
    LET e == Offer(d, f)
    IN  /\ \A l \in DOMAIN f : Placeable(d, l, f[l])
        /\ \A l \in DOMAIN f :
            /\ Cardinality(Occupants(e, f[l])) + Cardinality(Held(e, f[l])) <= slots_total
            /\ \A m \in Occupants(e, f[l]) \ {l} : Compatible(l, m)
            /\ \A m \in Held(e, f[l]) :
                  \/ d.lease[l].exact /\ d.rsv[m].key = d.rsv[l].key
                  \/ Compatible(l, m)
        /\ DOMAIN f # {} => admitted_project_count(e) <= Target

Placements(d, L) ==
    LET Q == {l \in L : d.lease[l].state = "queued"}
        All == {f \in UNION {[M -> Sessions] : M \in SUBSET Q} : FitsSession(d, f)}
    IN  {f \in All : \A g \in All : DOMAIN f \subseteq DOMAIN g => DOMAIN g = DOMAIN f}

(* _place_queued_leases: the databases it may commit.                      *)
place_queued_leases(d, L) ==
    IF ~enabled THEN {d}
    ELSE {refresh_session_state(Offer(d, f), {f[l] : l \in DOMAIN f}) :
             f \in Placements(d, L)}

-----------------------------------------------------------------------------
(* The solve permit.                                                       *)

Waiting(d, s) ==
    {l \in Occupants(d, s) : d.lease[l].state = "active" /\ d.lease[l].permit = 0}

Permit(d, s, l) ==
    [d EXCEPT !.sess[s].gen = @ + 1, !.sess[s].sealed = TRUE,
              !.lease[l].permit = d.sess[s].gen + 1]

(* The predecessors of the sealed generation all attested and released.    *)
WaveIsOver(d, s) ==
    \A l \in Granted(d, s, d.sess[s].gen) :
        /\ d.lease[l].state = "released"
        /\ d.lease[l].native = <<s, d.sess[s].gen>>

(* Mutant: a batch is ready whoever of the cohort is still on the way.     *)
BatchReady_without_cohort(d, s, allow_underfilled) ==
    LET O == Occupants(d, s)
    IN  /\ O # {} /\ \A l \in O : d.lease[l].state = "active"
        /\ Cardinality(O) >= slots_total \/ allow_underfilled

(* Every owner is attached and nobody is expected: the batch may start.    *)
BatchReady(d, s, allow_underfilled) ==
    LET O == Occupants(d, s)
    IN  /\ exact_session_reservations_are_active(d, s)
        /\ O # {} /\ \A l \in O : d.lease[l].state = "active"
        /\ \/ Cardinality(O) >= slots_total \/ allow_underfilled
           \/ O \cap Exclusive # {}

(* The current generation was lost without attestation: nobody is let in.  *)
FailedWave(d, s) ==
    [d EXCEPT !.sess[s] = [Draining(d.sess[s], "other") EXCEPT !.blocked = Blocked(@)],
              !.lease = @ \oplus [l \in Waiting(d, s) |-> Releasing(d.lease[l])]]

Grants(d, s) == {Permit(d, s, l) : l \in Waiting(d, s)}

(* Mutant: the seal of the running generation is not looked at.            *)
GrantOn_unsealed(d, s, allow_underfilled) ==
    IF d.sess[s].state \in Assignable /\ BatchReady(d, s, allow_underfilled)
    THEN Grants(d, s) ELSE {d}

(* At most one waiting lease gets the permit.                              *)
GrantOn(d, s, allow_underfilled) ==
    LET r == d.sess[s]
        G == Granted(d, s, r.gen)
    IN  IF r.state \notin Assignable THEN {d}
        ELSE IF ~r.sealed
        THEN IF BatchReady(d, s, allow_underfilled) THEN Grants(d, s) ELSE {d}
        ELSE IF G = {} \/ \E l \in G : d.lease[l].state \in LiveStates THEN {d}
        ELSE IF ~WaveIsOver(d, s) THEN {FailedWave(d, s)}
        ELSE IF Waiting(d, s) = {} THEN {d} ELSE Grants(d, s)

(* _grant_solve_batch_if_ready                                             *)
grant_solve_batch_if_ready(d, s, allow_underfilled) ==
    IF s = NoSession THEN {d}
    ELSE GrantOn(refresh_exact_session_reservations(d), s, allow_underfilled)

-----------------------------------------------------------------------------
(* The passes of reconcile, in the order of its transaction.               *)

(* Starts of a storage-blocked account that no host has taken.             *)
fail_blocked_starts(d, accounts) ==
    LET hit == {s \in Sessions : /\ Node[s] \in accounts
                                 /\ d.sess[s].state = "starting" /\ ~d.sess[s].host}
    IN  [d EXCEPT !.sess = @ \oplus [s \in hit |-> [d.sess[s] EXCEPT !.state = "failed",
                                                       !.why = "other"]]]

(* One more session of every pressured account drains, unless one already  *)
(* does; a ready one before a busy one, the least occupied first.          *)
storage_pressure_drain(d, accounts) ==
    LET On(a) == {s \in Sessions : Node[s] = a /\ d.sess[s].state \in Visible}
        Cost(s) == Cardinality(Occupants(d, s))
        Usables(a) == {s \in On(a) : d.sess[s].state \in Assignable}
        Pick(a) == CHOOSE s \in Usables(a) :
                      \A t \in Usables(a) :
                         \/ d.sess[s].state = "ready"
                         \/ d.sess[t].state = "busy" /\ Cost(s) <= Cost(t)
        hit == {Pick(a) : a \in {b \in accounts : /\ Usables(b) # {}
                                                  /\ \A s \in On(b) : ~d.sess[s].drain}}
        d1 == [d EXCEPT !.sess = @ \oplus [s \in hit |->
                 [d.sess[s] EXCEPT !.state = IF @ = "ready" THEN "draining" ELSE @,
                              !.why = "other", !.drain = TRUE, !.over = FALSE]]]
    IN  IF hit = {} THEN d
        ELSE refresh_zero_owner_draining_sessions(refresh_exact_session_reservations(d1))

(* _request_sessions_drain on the allocations of A.                        *)
request_sessions_drain(d, A) ==
    LET hit == {s \in Sessions : Node[s] \in A /\ Recoverable(d.sess[s])}
    IN  [d EXCEPT !.sess = @ \oplus [s \in hit |-> Draining(d.sess[s], "other")]]

(* Allocations past their maximum age rotate.                              *)
age_rotation(d) ==
    LET old == {a \in Allocs : d.alloc[a].old /\ Open(d, a)}
        d1 == [d EXCEPT !.alloc = @ \oplus [a \in old |-> [d.alloc[a] EXCEPT !.state = "draining",
                                                              !.why = "age"]]]
    IN  request_sessions_drain(d1, {a \in Allocs : d1.alloc[a].state = "draining"
                                                    /\ d1.alloc[a].why = "age"})

(* A terminal task owns no admission.                                      *)
end_terminal_task_leases(d) ==
    LET In(S) == {l \in Leases : d.task[l] = "ended" /\ d.lease[l].state \in S}
        On(L) == {d.lease[l].on : l \in L}
        owner == In({"attaching", "active"})
        asker == In({"queued", "offered"})
        d1 == [d EXCEPT !.lease =
                 @ \oplus [l \in owner |-> Releasing(d.lease[l])]
                   \oplus [l \in asker |-> Dropped(d.lease[l], "cancelled")]]
    IN  refresh_session_state(BlockReuse(d1, On(owner)), On(asker))

(* An offer that was not acknowledged in time goes back to the queue.      *)
requeue_stale_offers(d) ==
    LET stale == {l \in Leases : /\ d.lease[l].state = "offered"
                                 /\ d.lease[l].aged \cap {"offer", "deadline", "expires"} = {"offer"}}
        back == {l \in stale : d.rsv[l].state = "consumed"}
        d1 == [d EXCEPT !.lease = @ \oplus [l \in stale |-> Requeued(d.lease[l])],
                        !.rsv = @ \oplus [l \in back |-> [d.rsv[l] EXCEPT !.state = "claimed"]]]
    IN  refresh_session_state(d1, {d.lease[l].on : l \in stale})

(* Leases whose client stopped heartbeating or missed its deadline.  An    *)
(* active one may still be solving: its Desktop is quarantined.            *)
expire_leases(d) ==
    LET Gone(l) == \/ "expires" \in d.lease[l].aged
                   \/ "deadline" \in d.lease[l].aged
                      /\ d.lease[l].state \in {"queued", "offered"}
        In(S) == {l \in Leases : d.lease[l].state \in S /\ Gone(l)}
        On(L) == {d.lease[l].on : l \in L}
        d1 == [d EXCEPT !.lease =
                 @ \oplus [l \in In({"queued"}) |-> Ended(d.lease[l], "expired")]
                   \oplus [l \in In({"offered"}) |-> Dropped(d.lease[l], "expired")]
                   \oplus [l \in In({"attaching", "active"}) |-> Releasing(d.lease[l])]]
        d2 == refresh_session_state(BlockReuse(d1, On(In({"attaching", "active"}))),
                                    On(In({"offered"})))
        hit == {s \in On(In({"active"})) : Recoverable(d2.sess[s])}
    IN  [d2 EXCEPT !.sess = @ \oplus [s \in hit |-> [Draining(d2.sess[s], "other") EXCEPT
                                                !.quar = "lease"]]]

(* Sessions whose host is silent.                                          *)
expire_session_heartbeats(d) ==
    LET hit == {s \in Sessions : /\ d.sess[s].state \in Assignable \cup {"draining"}
                                 /\ d.sess[s].silent > 0}
    IN  [d EXCEPT !.sess = @ \oplus [s \in hit |->
            Unhealthy(d.sess[s], IF d.sess[s].state = "draining" THEN "other" ELSE "timeout")]]

(* Mutant: the lease is terminal and its Desktop is not quarantined.       *)
fail_unacknowledged_without_quarantine(d) ==
    LET failed == {l \in Leases :
                     /\ d.lease[l].state = "releasing" /\ "release" \in d.lease[l].aged
                     /\ d.lease[l].on \in Sessions => d.sess[d.lease[l].on].silent > 0}
    IN  [d EXCEPT !.lease = @ \oplus [l \in failed |-> Ended(d.lease[l], "failed")]]

(* A release that its vanished host can never acknowledge is terminal; the *)
(* Desktop that may still hold the project is quarantined.                 *)
fail_unacknowledged_releases(d) ==
    LET lost == {l \in Leases : d.lease[l].state = "releasing" /\ "release" \in d.lease[l].aged}
        silent == {s \in Sessions : d.sess[s].state = "unhealthy" /\ d.sess[s].silent > 0}
        gone == {s \in Sessions : d.sess[s].state \in {"closed", "failed"}}
        tainted == {s \in silent : \E l \in lost : d.lease[l].on = s}
        failed == {l \in lost : d.lease[l].on \in silent \cup gone \cup {NoSession}}
    IN  [d EXCEPT
          !.sess = @ \oplus [s \in tainted |-> [Unhealthy(d.sess[s], "other") EXCEPT
                                          !.quar = "ack_lost", !.blocked = Blocked(@)]],
          !.lease = @ \oplus [l \in failed |-> Ended(d.lease[l], "failed")]]

expire_session_starts(d) ==
    LET hit == {s \in Sessions : d.sess[s].state = "starting" /\ d.sess[s].silent > 0}
    IN  [d EXCEPT !.sess = @ \oplus [s \in hit |-> Unhealthy(d.sess[s], "start")]]

(* The allocation of a tainted or long unhealthy session is recycled.      *)
recycle_allocations(d) ==
    LET Tainted(s) == /\ d.sess[s].state # "none"
                      /\ \/ d.sess[s].quar # ""
                         \/ d.sess[s].state = "unhealthy" /\ d.sess[s].over
        hit == {a \in Allocs : d.alloc[a].state # "closed"
                               /\ \E s \in Sessions : Node[s] = a /\ Tainted(s)}
    IN  [d EXCEPT !.alloc = @ \oplus [a \in hit |->
            [d.alloc[a] EXCEPT !.why = IF ~Open(d, a) /\ @ # "demand" THEN @ ELSE "unhealthy",
                         !.state = "draining"]]]

(* Unhealthy sessions whose host will never call close_session.            *)
reap_stale_unhealthy(d) ==
    LET stale == {s \in Sessions :
                    /\ d.sess[s].state = "unhealthy" /\ d.sess[s].over
                    /\ \/ /\ d.sess[s].why = "native" \/ d.sess[s].quar = "death"
                          /\ Occupants(d, s) = {}
                       \/ d.sess[s].silent = 2}
    IN  [d EXCEPT
          !.lease = @ \oplus [l \in UNION {Occupants(d, s) : s \in stale} |-> Ended(d.lease[l], "failed")],
          !.sess = @ \oplus [s \in stale |-> [d.sess[s] EXCEPT !.state = "failed"]]]

(* An allocation drained for a fault that healthy sessions outlived serves *)
(* again, and they with it.                                                *)
recover_allocations(d) ==
    LET On(a) == {s \in Sessions : Node[s] = a}
        Sick(s) == \/ d.sess[s].state = "unhealthy"
                   \/ d.sess[s].state \in Visible /\ d.sess[s].quar # ""
        back == {a \in Allocs : /\ d.alloc[a].state = "draining"
                                /\ d.alloc[a].why \in {"faulted", "unhealthy"}
                                /\ \E s \in On(a) : d.sess[s].state \in Assignable
                                /\ \A s \in On(a) : ~Sick(s)}
        hit == {s \in Sessions : Node[s] \in back /\ d.sess[s].state \in Assignable}
    IN  [d EXCEPT
          !.alloc = @ \oplus [a \in back |-> [d.alloc[a] EXCEPT !.state = "active", !.why = "demand"]],
          !.sess = @ \oplus [s \in hit |-> [d.sess[s] EXCEPT !.drain = FALSE]]]

(* An idle session of an allocation that takes no more work drains.        *)
drain_idle_on_closed_nodes(d) ==
    LET hit == {s \in Sessions : d.sess[s].state = "ready" /\ ~Open(d, Node[s])}
    IN  [d EXCEPT !.sess = @ \oplus [s \in hit |-> [d.sess[s] EXCEPT !.state = "draining",
                                                       !.drain = TRUE]]]

(* What the plan adds: drains without pending reservations, and starts on  *)
(* open allocations.  How many is the business of _plan, not modelled here.*)
carry_out_plan(d, drains, starts) ==
    [d EXCEPT !.sess =
        @ \oplus [s \in drains |-> [d.sess[s] EXCEPT !.state = "draining", !.drain = TRUE,
                                                      !.over = FALSE]]
          \oplus [s \in starts |-> [d.sess[s] EXCEPT !.state = "starting"]]]

Drainable(d) == {s \in Sessions : /\ "excess" \in faults
                                  /\ d.sess[s].state \in Assignable /\ Held(d, s) = {}}
Startable(d) == {s \in Sessions : d.sess[s].state = "none" /\ Open(d, Node[s])}

(* Ownership passes of one reconcile, before placement.                    *)
ReapOwnership(d, blocked, pressed) ==
    LET repair(e) == refresh_zero_owner_draining_sessions(e)
        d1 == repair(refresh_exact_session_reservations(repair(d)))
        d2 == IF enabled THEN fail_blocked_starts(d1, blocked) ELSE d1
        d3 == IF enabled THEN storage_pressure_drain(d2, pressed) ELSE d2
        d4 == end_terminal_task_leases(age_rotation(d3))
        d5 == expire_leases(requeue_stale_offers(d4))
        d6 == fail_unacknowledged_releases(expire_session_heartbeats(d5))
        d7 == reap_stale_unhealthy(recycle_allocations(expire_session_starts(d6)))
    IN  drain_idle_on_closed_nodes(recover_allocations(d7))

(* reconcile(execute=True): the databases it may commit.                   *)
reconcile(d, blocked, pressed) ==
    UNION {IF enabled
           THEN {carry_out_plan(e, R, P) : R \in SUBSET Drainable(e),
                                           P \in SUBSET Startable(e)}
           ELSE {e} :
           e \in place_queued_leases(ReapOwnership(d, blocked, pressed), Leases)}

-----------------------------------------------------------------------------
(* Actions.                                                                *)

(* What a committed transaction means for the Desktops: a permit starts a  *)
(* native pipeline.                                                        *)
Commit(d) ==
    /\ db' = d
    /\ solving' = solving \oplus
          [l \in {m \in Leases : d.lease[m].permit > db.lease[m].permit} |-> d.lease[l].on]

(* A transaction that touches nothing but the database.                    *)
Rest == UNCHANGED <<enabled, outside, up, project, unproven, lifted>>

(* The Desktop of s is gone, and with it what ran inside.                  *)
Without(f, s) == [l \in Leases |-> IF f[l] = s THEN NoSession ELSE f[l]]

NewLease(to, pinned) ==
    [state |-> to, on |-> NoSession, exact |-> pinned, permit |-> 0,
     native |-> <<NoSession, 0>>, aged |-> {}]

Fresh(r) == [r EXCEPT !.aged = @ \ {"quiet", "expires", "offer"}]

Init ==
    /\ faults \in FaultMixes
    /\ \E P \in SUBSET Pinned :
          /\ "reserved" \notin faults => P = {}
          /\ db = [
             task |-> [l \in Leases |-> IF l \in P THEN "queued" ELSE "running"],
             rsv |-> [l \in Leases |-> [state |-> "none", on |-> NoSession, key |-> l,
                                       auto |-> FALSE, over |-> FALSE]],
             lease |-> [l \in Leases |-> NewLease("none", FALSE)],
             sess |-> [s \in Sessions |->
                         [state |-> "none", host |-> FALSE, token |-> FALSE,
                          sealed |-> FALSE, gen |-> 0, blocked |-> "no", drain |-> FALSE,
                          quar |-> "", why |-> "", silent |-> 0, over |-> FALSE]],
             alloc |-> [a \in Allocs |-> [state |-> "active", why |-> "demand", old |-> FALSE]]]
    /\ enabled = TRUE
    /\ beating = {} /\ acks = {} /\ probed = [s \in Sessions |-> "no"]
    /\ up = {} /\ lifted = {}
    /\ project = [l \in Leases |-> NoSession]
    /\ solving = [l \in Leases |-> NoSession]
    /\ unproven = [s \in Sessions |-> "no"]

(* The scheduler: a pre-admitted task is launched; any task may end.       *)
launch_task(l) ==
    /\ db.task[l] = "queued" /\ db.rsv[l].state = "reserved"
    /\ Commit([db EXCEPT !.task[l] = "running"])
    /\ Rest

end_task(l) ==
    /\ "task_ends" \in faults /\ db.task[l] # "ended"
    /\ Commit([db EXCEPT !.task[l] = "ended"])
    /\ Rest

(* Mutant: slots promised to other pre-admitted tasks are not counted.     *)
prepare_pooled_task_session_twice(l, s) ==
    LET d == refresh_exact_session_reservations(db)
    IN  /\ enabled /\ db.task[l] = "queued"
        /\ admitted_project_count(d) < Target
        /\ d.rsv[l].state = "none"
        /\ Usable(d, s) /\ d.sess[s].blocked = "no"
        /\ Cardinality(Occupants(d, s)) < slots_total
        /\ Commit([d EXCEPT !.rsv[l] = [state |-> "reserved", on |-> s, key |-> l,
                                        auto |-> TRUE, over |-> FALSE]])
        /\ Rest

(* prepare_pooled_task_session: one slot of a usable Desktop is reserved   *)
(* before the task can launch, in the cohort already gathering there.      *)
FreeFor(d, l, s) ==
    /\ Usable(d, s) /\ d.sess[s].blocked = "no"
    /\ Cardinality(Occupants(d, s)) + Cardinality(Held(d, s)) < slots_total
    /\ \A m \in Occupants(d, s) \cup Held(d, s) :
          Compatible(l, m) /\ (m \in Held(d, s) => d.rsv[m].auto)

Reserved(d, l, s) ==
    LET mates == {m \in Leases : /\ d.rsv[m].on = s /\ d.rsv[m].auto
                                 /\ d.rsv[m].state \in LiveRsv}
        key == IF mates = {} THEN l ELSE d.rsv[CHOOSE m \in mates : TRUE].key
    IN  [d EXCEPT !.rsv[l] = [state |-> "reserved", on |-> s, key |-> key,
                              auto |-> TRUE, over |-> d.rsv[key].over]]

prepare_pooled_task_session(l, s) ==
    LET d == refresh_exact_session_reservations(db)
    IN  /\ enabled /\ db.task[l] = "queued"
        /\ admitted_project_count(d) < Target
        /\ d.rsv[l].state = "none"
        /\ FreeFor(d, l, s)
        /\ Commit(Reserved(d, l, s))
        /\ Rest

(* The same call finds the target of an automatic reservation unusable.    *)
abandon_reservation(l) ==
    LET d == refresh_exact_session_reservations(db)
    IN  /\ enabled /\ db.task[l] = "queued"
        /\ d.rsv[l].state \in PendingRsv /\ d.rsv[l].auto
        /\ ~Usable(d, d.rsv[l].on) \/ d.sess[d.rsv[l].on].blocked # "no"
        /\ Commit(fail_cohorts(d, {d.rsv[l].key}, FALSE))
        /\ Rest

(* create_exact_session_reservation: an operator reserves for a cohort.    *)
create_exact_session_reservation(T, k, s) ==
    LET d == refresh_exact_session_reservations(db)
    IN  /\ "operator" \in faults
        /\ k \in T /\ \A l \in T : /\ db.task[l] # "ended" /\ d.rsv[l].state = "none"
                                  /\ d.lease[l].state \notin LiveStates
        /\ admitted_project_count(d) + Cardinality(T) <= Target
        /\ d.sess[s].state \in Assignable /\ Open(d, Node[s])
        /\ ~d.sess[s].sealed /\ ~d.sess[s].drain
        /\ Cardinality(T) + Cardinality(Occupants(d, s)) + Cardinality(Held(d, s)) <= slots_total
        /\ Commit([d EXCEPT !.rsv = @ \oplus [l \in T |->
               [state |-> "reserved", on |-> s, key |-> k,
                auto |-> FALSE, over |-> FALSE]]])
        /\ Rest

(* _authorize_exact_session_reservation: a task with a reservation is      *)
(* served by it or not at all.                                             *)
authorize_exact_session_reservation(d, l) ==
    d.rsv[l].state # "none" => /\ d.rsv[l].state = "reserved" /\ ~d.rsv[l].over
                               /\ Usable(d, d.rsv[l].on)

request_lease(l) ==
    LET d == refresh_exact_session_reservations(db)
        pinned == d.rsv[l].state # "none"
        new == [d EXCEPT !.lease[l] = NewLease("queued", pinned),
                         !.rsv[l].state = IF pinned THEN "claimed" ELSE @]
    IN  /\ db.task[l] = "running" /\ d.lease[l].state = "none"
        /\ authorize_exact_session_reservation(d, l)
        /\ \E e \in place_queued_leases(new, {l}) : Commit(e)
        /\ Rest

heartbeat_lease(l) ==
    LET d == [db EXCEPT !.lease[l] = Fresh(@)]
    IN  /\ db.lease[l].state \in LiveStates
        /\ IF db.lease[l].state = "queued" /\ enabled
           THEN \E e \in place_queued_leases(refresh_exact_session_reservations(d), {l}) : Commit(e)
           ELSE Commit(d)
        /\ Rest

(* What may be wrong with the offer of l when it is accepted: its Desktop  *)
(* is lost for it, or it is only not free right now.                       *)
OfferIsLost(d, l) ==
    ~Usable(d, d.lease[l].on) \/ (d.lease[l].exact /\ d.rsv[l].state # "consumed")

OfferIsEarly(d, l) ==
    LET s == d.lease[l].on
    IN  \/ "offer" \in d.lease[l].aged \/ d.sess[s].blocked # "no"
        \/ \E m \in Occupants(d, s) : d.lease[m].state = "releasing"

(* A lost reservation fails with its cohort; any other offer is revoked.   *)
OfferRefused(d, l) ==
    refresh_session_state([fail_cohorts(d, {d.rsv[l].key}, FALSE)
                              EXCEPT !.lease[l] = Ended(d.lease[l], "failed")],
                          {d.lease[l].on})

OfferRevoked(d, l) ==
    refresh_session_state([d EXCEPT !.lease[l] = Fresh(Requeued(@)),
                                    !.rsv[l].state = IF d.lease[l].exact THEN "claimed" ELSE @],
                          {d.lease[l].on})

(* accept_lease: the slot is taken only if the Desktop still qualifies.    *)
accept_lease(l) ==
    LET r == db.lease[l]
        refused == OfferIsLost(db, l) /\ r.exact
        free == ~OfferIsLost(db, l) /\ ~OfferIsEarly(db, l)
    IN  /\ r.state = "offered"
        /\ \/ /\ free
              /\ Commit([db EXCEPT !.lease[l] = [Fresh(r) EXCEPT !.state = "attaching"]])
              /\ project' = [project EXCEPT ![l] = r.on]
           \/ refused /\ Commit(OfferRefused(db, l)) /\ UNCHANGED project
           \/ ~free /\ ~refused /\ Commit(OfferRevoked(db, l)) /\ UNCHANGED project
        /\ UNCHANGED <<enabled, outside, up, unproven, lifted>>

activate_lease(l) ==
    /\ db.lease[l].state = "attaching"
    /\ \E e \in grant_solve_batch_if_ready(
                 [db EXCEPT !.lease[l] = [Fresh(@) EXCEPT !.state = "active"]],
                 db.lease[l].on, FALSE) : Commit(e)
    /\ Rest

request_solve_permit(l, seal_underfilled) ==
    /\ db.lease[l].state = "active"
    /\ \E e \in grant_solve_batch_if_ready([db EXCEPT !.lease[l] = Fresh(@)],
                                            db.lease[l].on, seal_underfilled) : Commit(e)
    /\ Rest

(* The final Analyze of the native pipeline has ended and is attested.     *)
complete_native_pipeline(l) ==
    LET r == db.lease[l]
    IN  /\ r.state = "active" /\ r.permit > 0
        /\ db' = [db EXCEPT !.lease[l] = [Fresh(r) EXCEPT !.native = <<r.on, r.permit>>]]
        /\ solving' = [solving EXCEPT ![l] = NoSession]
        /\ Rest

(* cancel_lease, also release_lease and the project-local faults.          *)
Cancelled(d, l) ==
    LET r == d.lease[l]
    IN  IF r.state \in {"attaching", "active", "releasing"}
        THEN BlockReuse([d EXCEPT !.lease[l] = [Releasing(r) EXCEPT !.aged = @ \ {"release"}]],
                        {r.on})
        ELSE refresh_session_state([d EXCEPT !.lease[l] = Dropped(r, "cancelled")], {r.on})

cancel_lease(l) ==
    /\ db.lease[l].state \in LiveStates
    /\ Commit(Cancelled(db, l))
    /\ Rest

TaintAlloc(d, a, reason) ==
    [d EXCEPT !.alloc[a] = IF @.state = "closed" THEN @
                           ELSE [@ EXCEPT !.state = "draining", !.why = reason]]

(* report_project_fault reads the lease, notes the fault and acts on its   *)
(* session in transactions of their own, so s is where the lease was when  *)
(* it was read, and where it is by now is anybody's guess.  A lost         *)
(* transport makes the session suspect; its cancel_lease comes after, as a *)
(* step of its own.                                                        *)
report_transport_death(l, s) ==
    /\ "suspect" \in faults
    /\ db.lease[l].state # "none" /\ db.sess[s].state \in Assignable
    /\ Commit([db EXCEPT !.sess[s] = [@ EXCEPT !.state = "unhealthy", !.why = "suspect",
                                               !.drain = FALSE, !.over = FALSE]])
    /\ Rest

(* A solver timeout quarantines the whole Desktop.                         *)
report_solver_timeout(l, s) ==
    LET d1 == IF db.lease[l].state \in {"attaching", "active"}
              THEN [db EXCEPT !.lease[l] = Releasing(@)] ELSE db
        d2 == IF db.sess[s].state \in Assignable \cup {"draining"}
              THEN [d1 EXCEPT !.sess[s] = [Draining(db.sess[s], "other") EXCEPT
                                             !.quar = "lease", !.blocked = Blocked(@)]]
              ELSE d1
    IN  /\ "solver" \in faults
        /\ db.lease[l].state # "none" /\ db.sess[s].state # "none"
        /\ Commit(TaintAlloc(d2, Node[s], "other"))
        /\ Rest

-----------------------------------------------------------------------------
(* The session host.                                                       *)

claim_start(s) ==
    /\ db.sess[s].state = "starting" /\ ~db.sess[s].host
    /\ Commit([db EXCEPT !.sess[s] = [@ EXCEPT !.host = TRUE, !.silent = 0]])
    /\ Rest

(* An allocation drained for sick sessions serves again without any.       *)
NodeIsSafe(d, a) ==
    \A t \in Sessions : Node[t] = a => d.sess[t].state # "unhealthy" /\ d.sess[t].quar = ""

Undrained(d, a) ==
    IF NodeIsSafe(d, a) /\ d.alloc[a].state = "draining" /\ d.alloc[a].why = "unhealthy"
    THEN [d EXCEPT !.alloc[a].state = "active", !.alloc[a].why = "demand"] ELSE d

(* register_session, also of a host that missed the start window, and the  *)
(* reconcile it ends with.                                                 *)
register_session(s) ==
    LET r == db.sess[s]
        a == db.alloc[Node[s]]
        late == r.state = "unhealthy" /\ r.why = "start"
        foreign == late /\ a.state = "draining" /\ a.why # "unhealthy"
        to == IF enabled /\ ~foreign THEN "ready" ELSE "draining"
        d == [db EXCEPT !.sess[s] = [r EXCEPT !.state = to, !.token = TRUE, !.why = "",
                                              !.drain = FALSE, !.silent = 0, !.over = FALSE]]
    IN  /\ r.host /\ ~r.token
        /\ \/ r.state = "starting"
           \/ late /\ a.state # "closed"
        /\ \E e \in reconcile(IF late /\ to = "ready" THEN Undrained(d, Node[s]) ELSE d,
                              {}, {}) : Commit(e)
        /\ up' = up \cup {s}
        /\ UNCHANGED <<enabled, outside, project, unproven, lifted>>

(* fail_session_start by the host, fail_unclaimed_session_start without.   *)
fail_session_start(s) ==
    /\ db.sess[s].state = "starting"
    /\ Commit([db EXCEPT !.sess[s] = [@ EXCEPT !.state = "failed", !.why = "other"]])
    /\ Rest

(* heartbeat_session reads the clock first: whatever is blocked by now was *)
(* blocked before this heartbeat, and so was what an acknowledgement under *)
(* way will write.                                                         *)
begin_heartbeat(s) ==
    /\ s \in up \ beating
    /\ db.sess[s].token /\ db.sess[s].state \in Visible
    /\ beating' = beating \cup {s}
    /\ acks' = {[a EXCEPT !.passed = @ \/ a.on = s] : a \in acks}
    /\ Commit([db EXCEPT !.sess[s].blocked = IF @ = "fresh" THEN "set" ELSE @])
    /\ unproven' = [unproven EXCEPT ![s] = IF @ = "fresh" THEN "set" ELSE @]
    /\ UNCHANGED <<enabled, probed, up, project, lifted>>

(* Mutant: any heartbeat lifts the barrier.                                *)
heartbeat_session_of_any_age(s) ==
    LET clear == /\ db.sess[s].state \in Assignable
                 /\ \A l \in Occupants(db, s) : db.lease[l].state # "releasing"
    IN  /\ s \in beating /\ db.sess[s].token /\ db.sess[s].state \in Visible
        /\ beating' = beating \ {s}
        /\ Commit([db EXCEPT !.sess[s] = [@ EXCEPT !.silent = 0,
                                          !.blocked = IF clear THEN "no" ELSE @]])
        /\ unproven' = [unproven EXCEPT ![s] = IF @ = "set" THEN "no" ELSE @]
        /\ UNCHANGED <<enabled, acks, probed, up, project, lifted>>

(* The barrier falls to a heartbeat that began after it was raised.        *)
BarrierFalls(d, s) ==
    LET r == d.sess[s]
    IN  /\ r.blocked = "set" /\ r.state \in Assignable
        /\ r.why = "" /\ r.quar = ""
        /\ \A l \in Occupants(d, s) : d.lease[l].state # "releasing"

(* An unhealthy session that is only suspected is taken back.              *)
MayRecover(d, s) ==
    LET r == d.sess[s]
        a == d.alloc[Node[s]]
    IN  /\ enabled /\ r.state = "unhealthy"
        /\ r.why \in {"timeout", "suspect", "native"} /\ r.quar = ""
        /\ a.state = "active" \/ (a.state = "draining" /\ a.why = "unhealthy")

SessionRecovered(d, s) ==
    Undrained([d EXCEPT !.sess[s] =
                 [@ EXCEPT !.state = IF Occupants(d, s) # {} THEN "busy" ELSE "ready",
                           !.why = "", !.drain = FALSE, !.over = FALSE]], Node[s])

(* The request commits, also when its host has died since.                 *)
heartbeat_session(s) ==
    LET cleared == BarrierFalls(db, s)
        d1 == [db EXCEPT !.sess[s].silent = 0,
                         !.sess[s].blocked = IF cleared THEN "no" ELSE @]
        d2 == IF MayRecover(db, s) THEN SessionRecovered(d1, s) ELSE d1
    IN  /\ s \in beating
        /\ db.sess[s].token /\ db.sess[s].state \in Visible
        /\ beating' = beating \ {s}
        /\ IF cleared /\ enabled
           THEN \E e \in place_queued_leases(refresh_exact_session_reservations(d2), Leases) :
                   Commit(e)
           ELSE Commit(d2)
        /\ unproven' = [unproven EXCEPT ![s] = IF @ = "set" THEN "no" ELSE @]
        /\ UNCHANGED <<enabled, acks, probed, up, project, lifted>>

(* report_session_fault("native_probe_suspect")                            *)
report_native_suspect(s) ==
    LET r == db.sess[s]
        owned == \E l \in Occupants(db, s) : /\ db.lease[l].state # "offered"
                                             /\ "expires" \notin db.lease[l].aged
    IN  /\ "native" \in faults
        /\ s \in up /\ r.token /\ r.state \in Assignable \cup {"unhealthy"}
        /\ Commit([db EXCEPT !.sess[s] =
               [r EXCEPT !.state = "unhealthy", !.quar = "", !.why = "native",
                         !.drain = ~owned, !.silent = IF owned THEN 0 ELSE @,
                         !.over = ~owned /\ r.drain /\ @]])
        /\ lifted' = IF r.quar # "" THEN lifted \cup {s} ELSE lifted
        /\ UNCHANGED <<enabled, outside, up, project, unproven>>

(* report_session_fault("confirmed_aedt_death"): the Desktop is gone.      *)
report_confirmed_death(s) ==
    LET r == db.sess[s]
    IN  /\ "crash" \in faults
        /\ s \in up /\ r.token /\ r.state \in Visible
        /\ db' = TaintAlloc([db EXCEPT !.sess[s] =
                     [r EXCEPT !.state = "unhealthy", !.quar = "death", !.why = "other",
                               !.over = r.drain /\ @, !.drain = TRUE]], Node[s], "faulted")
        /\ project' = Without(project, s) /\ solving' = Without(solving, s)
        /\ UNCHANGED <<enabled, outside, up, unproven, lifted>>

(* session_commands names the projects to close.  An owner that timed out  *)
(* on a quarantined Desktop is deferred to the recycling of the Desktop;   *)
(* which these are hangs on the words of failure texts that clients write  *)
(* and on when the host fetched its commands, so any may be left or not.   *)
close_projects(d, s) == {l \in Occupants(d, s) : d.lease[l].state = "releasing"}

close_project(s, l) ==
    /\ s \in up /\ project[l] = s
    /\ l \in close_projects(db, s)
    /\ project' = [project EXCEPT ![l] = NoSession]
    /\ solving' = [solving EXCEPT ![l] = NoSession]
    /\ UNCHANGED <<db, enabled, outside, up, unproven, lifted>>

(* complete_release reads the clock, which will be the barrier's origin,   *)
(* before its transaction.  The host sends one acknowledgement at a time.  *)
begin_release(s, l, success) ==
    /\ s \in up /\ db.sess[s].token
    /\ l \in close_projects(db, s)
    /\ IF success THEN project[l] # s ELSE project[l] = s /\ "cleanup" \in faults
    /\ \A a \in acks : a.on # s
    /\ acks' = acks \cup {[on |-> s, lease |-> l, ok |-> success, passed |-> FALSE]}
    /\ UNCHANGED <<db, enabled, beating, probed, up, project, solving, unproven, lifted>>

(* Its transaction; a lease that is not releasing there any more refuses   *)
(* it, or was acknowledged already.  What the host closed stays closed.    *)
Acknowledged(s, l, success, origin) ==
    LET r == db.sess[s]
        d1 == [db EXCEPT !.lease[l] = Ended(@, IF success THEN "released" ELSE "failed")]
        d2 == IF r.state \in {"closed", "failed"} THEN d1
              ELSE [d1 EXCEPT !.sess[s] = [@ EXCEPT !.blocked = origin]]
        d3 == IF success \/ r.state \in {"closed", "failed"} THEN d2
              ELSE [d2 EXCEPT !.sess[s] = [@ EXCEPT !.state = "unhealthy", !.drain = TRUE,
                                             !.over = FALSE, !.quar = "cleanup", !.why = "other"]]
    IN  refresh_exact_session_reservations(refresh_session_state(d3, {s}))

complete_release(a) ==
    LET s == a.on
        l == a.lease
        origin == IF a.passed THEN "set" ELSE "fresh"
    IN  /\ acks' = acks \ {a}
        /\ \/ /\ l \in close_projects(db, s)
              /\ s \in up => (a.ok <=> project[l] # s)
              /\ \E e \in place_queued_leases(Acknowledged(s, l, a.ok, origin), Leases) :
                    Commit(e)
              /\ unproven' = [unproven EXCEPT ![s] = origin]
           \/ l \notin close_projects(db, s) /\ Commit(db) /\ UNCHANGED unproven
        /\ UNCHANGED <<enabled, beating, probed, up, project, lifted>>

(* Reservations of the target s that are live, or whose lease is.          *)
KeysOn(s) == {db.rsv[l].key : l \in {m \in Leases : /\ db.rsv[m].on = s
                /\ \/ db.rsv[m].state \in LiveRsv
                   \/ db.lease[m].exact /\ db.lease[m].state \in LiveStates}}

(* close_session: after a drain, or because the Desktop failed or had to   *)
(* be stopped; then its unreserved leases are queued again, or all fail.   *)
close_session(s, success, requeue_siblings) ==
    LET O == Occupants(db, s)
        d1 == fail_cohorts(db, KeysOn(s), FALSE)
        left == {m \in Occupants(d1, s) : requeue_siblings => ~d1.lease[m].exact}
        d2 == [d1 EXCEPT !.lease =
                 @ \oplus [l \in left |->
                    IF requeue_siblings
                    THEN [Requeued(d1.lease[l]) EXCEPT !.aged = @ \ {"quiet", "expires"}]
                    ELSE Ended(d1.lease[l], "failed")]]
        d3 == [d2 EXCEPT !.sess[s] = [@ EXCEPT !.state = IF success THEN "closed" ELSE "failed",
                                               !.why = IF success THEN "" ELSE "other"]]
    IN  /\ s \in up /\ db.sess[s].token /\ db.sess[s].state \in Visible
        /\ \/ success /\ O = {} /\ db.sess[s].state \in {"draining", "unhealthy"}
           \/ ~success /\ (db.sess[s].quar # "" \/ "crash" \in faults)
        /\ db' = IF success THEN d3 ELSE TaintAlloc(d3, Node[s], "faulted")
        /\ up' = up \ {s}
        /\ project' = Without(project, s) /\ solving' = Without(solving, s)
        /\ UNCHANGED <<enabled, outside, unproven, lifted>>

(* The host and its Desktop vanish without a word (the job was killed);    *)
(* what they sent may still be under way.                                  *)
host_dies(s) ==
    /\ "crash" \in faults /\ s \in up
    /\ up' = up \ {s}
    /\ project' = Without(project, s) /\ solving' = Without(solving, s)
    /\ UNCHANGED <<db, enabled, outside, unproven, lifted>>

-----------------------------------------------------------------------------
(* The tick, the operator, and time.                                       *)

Pressable == IF "storage" \in faults THEN Allocs ELSE {}

reconcile_tick ==
    /\ \E blocked \in SUBSET Pressable, pressed \in SUBSET Pressable :
          \E e \in reconcile(db, blocked, pressed) : Commit(e)
    /\ Rest

(* reap_dead_session validates, probes the processes outside a transaction *)
(* and validates again.  The task of the host is terminal some time after  *)
(* its job, and with it every process, has gone: s \notin up stands for    *)
(* both, and a probe that finds a process ends the call.                   *)
DeadSessionCandidate(s) ==
    /\ s \notin up /\ db.sess[s].token
    /\ db.sess[s].state \in {"unhealthy", "draining"} /\ Occupants(db, s) = {}

probe_dead_session(s) ==
    /\ probed[s] = "no" /\ DeadSessionCandidate(s)
    /\ probed' = [probed EXCEPT ![s] = db.sess[s].state]
    /\ UNCHANGED <<db, enabled, beating, acks, up, project, solving, unproven, lifted>>

(* Mutant: what the probe was told is not validated again.                 *)
reap_dead_session_unchecked(s) ==
    /\ probed[s] # "no" /\ probed' = [probed EXCEPT ![s] = "no"]
    /\ \E e \in reconcile([db EXCEPT !.sess[s].state = "closed"], {}, {}) : Commit(e)
    /\ UNCHANGED <<enabled, beating, acks, up, project, unproven, lifted>>

(* The close and the reconcile after it; a row that changed ends the call. *)
(* The other columns compared could only refuse more.                      *)
reap_dead_session(s) ==
    /\ probed[s] # "no" /\ probed' = [probed EXCEPT ![s] = "no"]
    /\ IF DeadSessionCandidate(s) /\ db.sess[s].state = probed[s]
       THEN \E e \in reconcile([db EXCEPT !.sess[s].state = "closed"], {}, {}) : Commit(e)
       ELSE Commit(db)
    /\ UNCHANGED <<enabled, beating, acks, up, project, unproven, lifted>>

(* _close_empty: a draining allocation without a counted session.          *)
close_empty_allocation(a) ==
    /\ db.alloc[a].state = "draining"
    /\ \A s \in Sessions : Node[s] = a => db.sess[s].state \notin Visible
    /\ Commit([db EXCEPT !.alloc[a].state = "closed"])
    /\ Rest

set_enabled(on) ==
    /\ "switch" \in faults /\ on # enabled
    /\ enabled' = on
    /\ Commit(IF on THEN db ELSE request_sessions_drain(db, Allocs))
    /\ UNCHANGED <<outside, up, project, unproven, lifted>>

(* A window the code compares with the clock passes.                       *)
lease_window_passes(l, w) ==
    /\ w \notin db.lease[l].aged
    /\ CASE w = "quiet" -> db.lease[l].state = "queued" /\ "quiet" \in faults
         [] w = "expires" -> db.lease[l].state \in LiveStates /\ "silent_client" \in faults
         [] w = "deadline" -> db.lease[l].state \in {"queued", "offered"} /\ "deadline" \in faults
         [] w = "offer" -> db.lease[l].state = "offered"
         [] w = "release" -> db.lease[l].state = "releasing"
    /\ Commit([db EXCEPT !.lease[l].aged = @ \cup {w}])
    /\ Rest

reservation_expires(k) ==
    /\ \E l \in Cohort(db, k) : ~db.rsv[l].over
    /\ Commit([db EXCEPT !.rsv = @ \oplus [l \in Cohort(db, k) |-> [db.rsv[l] EXCEPT !.over = TRUE]]])
    /\ Rest

session_goes_silent(s) ==
    /\ db.sess[s].state \in Visible /\ db.sess[s].silent < 2
    /\ "silence" \in faults \/ s \notin up
    /\ Commit([db EXCEPT !.sess[s].silent = @ + 1])
    /\ Rest

recycle_grace_passes(s) ==
    /\ db.sess[s].state = "unhealthy" /\ ~db.sess[s].over
    /\ Commit([db EXCEPT !.sess[s].over = TRUE])
    /\ Rest

allocation_ages(a) ==
    /\ "age" \in faults /\ ~db.alloc[a].old
    /\ Commit([db EXCEPT !.alloc[a].old = TRUE])
    /\ Rest

ClientStep(l) ==
    \/ request_lease(l) \/ heartbeat_lease(l) \/ accept_lease(l) \/ activate_lease(l)
    \/ \E b \in BOOLEAN : request_solve_permit(l, b)
    \/ complete_native_pipeline(l) \/ cancel_lease(l)
    \/ \E s \in Sessions : report_transport_death(l, s) \/ report_solver_timeout(l, s)

HostStep(s) ==
    \/ claim_start(s) \/ register_session(s) \/ fail_session_start(s)
    \/ begin_heartbeat(s) \/ heartbeat_session(s)
    \/ report_native_suspect(s) \/ report_confirmed_death(s)
    \/ \E l \in Leases : close_project(s, l) \/ \E b \in BOOLEAN : begin_release(s, l, b)
    \/ \E b, requeue \in BOOLEAN : close_session(s, b, requeue)
    \/ host_dies(s)

ServiceStep ==
    \/ reconcile_tick
    \/ \E l \in Leases : launch_task(l) \/ end_task(l) \/ abandon_reservation(l)
    \/ \E l \in Leases, s \in Sessions : prepare_pooled_task_session(l, s)
    \/ \E T \in SUBSET Pinned, k \in Pinned, s \in Sessions :
          create_exact_session_reservation(T, k, s)
    \/ \E a \in acks : complete_release(a)
    \/ \E s \in Sessions : probe_dead_session(s) \/ reap_dead_session(s)
    \/ \E a \in Allocs : close_empty_allocation(a)
    \/ \E b \in BOOLEAN : set_enabled(b)

Time ==
    \/ \E l \in Leases, w \in Windows : lease_window_passes(l, w)
    \/ \E k \in Leases : reservation_expires(k)
    \/ \E s \in Sessions : session_goes_silent(s) \/ recycle_grace_passes(s)
    \/ \E a \in Allocs : allocation_ages(a)

Next == /\ UNCHANGED faults
        /\ \/ \E l \in Leases : ClientStep(l)
           \/ \E s \in Sessions : HostStep(s)
           \/ ServiceStep \/ Time

Spec == Init /\ [][Next]_vars

-----------------------------------------------------------------------------
(* Properties.                                                             *)

(* Every row keeps the domain of its columns.                              *)
TypeOK ==
    /\ faults \in FaultMixes /\ db \in Databases /\ enabled \in BOOLEAN
    /\ beating \subseteq Sessions /\ acks \subseteq Acks
    /\ probed \in [Sessions -> {"no", "draining", "unhealthy"}]
    /\ up \subseteq Sessions /\ lifted \subseteq Sessions
    /\ project \in [Leases -> Sessions \cup {NoSession}]
    /\ solving \in [Leases -> Sessions \cup {NoSession}]
    /\ unproven \in [Sessions -> {"no", "set", "fresh"}]

Permitted(s) == {l \in Occupants(db, s) : db.lease[l].permit > 0}

(* The permits of _grant_solve_batch_if_ready implement one turn per       *)
(* Desktop: whatever clients ask, cancel or lose, whatever the tick        *)
(* expires, a permit is granted only after its predecessor left.           *)
Turn == INSTANCE DesktopTurn WITH turn <- [s \in Sessions |-> Permitted(s)]
PermitsAreTurns == Turn!Spec

(* A live permit belongs to the generation its Desktop is sealed for, and  *)
(* nobody who is not attached holds one: an unsealed or reopened Desktop   *)
(* has no permit outstanding.                                              *)
PermitIsCurrent ==
    \A l \in Leases :
        /\ db.lease[l].state \in SlotStates /\ db.lease[l].permit > 0 =>
              LET r == db.sess[db.lease[l].on]
              IN  r.sealed /\ db.lease[l].permit = r.gen
        /\ db.lease[l].state \in {"queued", "offered", "attaching"} => db.lease[l].permit = 0

(* Two native pipelines never run in one Desktop, whatever the rows say of *)
(* them: a pipeline runs until it is attested, its project is closed by    *)
(* the host, or its Desktop is gone.  Leases without a reservation only,   *)
(* and Desktops whose quarantine was never overwritten by a native-suspect *)
(* report:                                                                 *)
SerialSolve ==
    \A l, m \in Leases : /\ solving[l] \in up \ lifted /\ solving[l] = solving[m]
                         /\ ~db.lease[l].exact /\ ~db.lease[m].exact
                         => l = m

(* the same of every lease, which the code does not keep: the failure of a *)
(* cohort ends the lease of a member whose pipeline runs, and once a       *)
(* heartbeat has lowered the barrier the next client is given the permit.  *)
EverySolveIsSerial ==
    \A l, m \in Leases : solving[l] \in up /\ solving[l] = solving[m] => l = m

(* Leases in a slot and reservations still to be claimed never exceed the  *)
(* slots of a Desktop: two clients placed by different calls, or a client  *)
(* and a pre-admitted task, never share a slot.                            *)
SlotsNotOversold ==
    \A s \in Sessions : Cardinality(Occupants(db, s)) + Cardinality(Held(db, s)) <= slots_total

(* complete_release: "a heartbeat that was sent before cleanup completed   *)
(* must not clear" the barrier.  After a release its Desktop takes nobody  *)
(* until a heartbeat has committed that reached the service later than the *)
(* acknowledgement did, in the order in which they read the clock; in      *)
(* which order they commit does not count.                                 *)
BarrierHolds ==
    \A s \in Sessions : unproven[s] # "no" /\ db.sess[s].state \in Assignable
                          => db.sess[s].blocked # "no"

(* The Desktop s still has the project of l, which has no slot there, and  *)
(* it may be offered to others.                                            *)
ReusedUnclosed(l, s) ==
    /\ project[l] = s /\ l \notin Occupants(db, s)
    /\ db.sess[s].state \in Assignable /\ db.sess[s].blocked = "no"

(* cancel_lease: "only the session host can confirm that the project is    *)
(* closed and make this slot reusable".  A Desktop that still has the      *)
(* project of a lease without a slot is offered to nobody, whichever       *)
(* clients and hosts fall silent, die or are late.  Leases without a       *)
(* reservation only, and Desktops whose quarantine was never overwritten   *)
(* by a native-suspect report:                                             *)
UnclosedNotReused ==
    \A l \in Leases, s \in up \ lifted : ~db.lease[l].exact => ~ReusedUnclosed(l, s)

(* the same of every Desktop, which the code does not keep: the report     *)
(* clears a quarantine that a failed cleanup or a lost release has set;    *)
QuarantineOutlivesSuspicion ==
    \A l \in Leases, s \in up : ~db.lease[l].exact => ~ReusedUnclosed(l, s)

(* and of every lease, which the code does not keep either: the failure of *)
(* a cohort ends the leases of its members without asking the host.        *)
ReleaseIsTwoPhase == \A l \in Leases, s \in up \ lifted : ~ReusedUnclosed(l, s)

(* reap_dead_session: "a heartbeat, lease, task transition, or session     *)
(* identity change that races the probe makes the operation fail closed":  *)
(* a session is closed only when nobody has a slot on it.                  *)
ClosedIsEmpty == \A s \in Sessions : db.sess[s].state = "closed" => Occupants(db, s) = {}

(* Those who ever gathered in a cohort that is alive on s.                 *)
Gathered(d, s) ==
    {m \in Leases : \E l \in Leases : /\ d.rsv[l].on = s /\ d.rsv[l].state \in LiveRsv
                                      /\ d.rsv[m].state # "none"
                                      /\ d.rsv[m].key = d.rsv[l].key}

(* A Desktop is sealed for a cohort that is complete: everyone admitted    *)
(* with it is attached, or left by itself; nobody was expired, refused or  *)
(* is still on the way.                                                    *)
CohortSealsWhole ==
    [][\A s \in Sessions : ~db.sess[s].sealed /\ db'.sess[s].sealed =>
         \A m \in Gathered(db', s) :
            \/ db'.rsv[m].state = "released"
            \/ db'.rsv[m].state = "consumed" /\ db'.lease[m].state = "active"]_vars
=============================================================================
