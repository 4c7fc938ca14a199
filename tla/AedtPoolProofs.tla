--------------------------- MODULE AedtPoolProofs ---------------------------
(***************************************************************************)
(* Proofs about the AEDT pool service, for every number of leases,         *)
(* Desktops and allocations.  The passes of a transaction are related to   *)
(* the database they start from by one relation, Quiet, that is kept by    *)
(* composition; a placement keeps the weaker relation Calm.  Every action  *)
(* is then one of seven kinds of step (StepKind), and an invariant is      *)
(* shown kind by kind: Tables about the rows alone, Desktops and Pipelines *)
(* about what is open and running where.                                   *)
(***************************************************************************)
EXTENDS AedtPool, TLAPS, FiniteSetTheorems

-----------------------------------------------------------------------------
(* The inductive invariant of the tables.                                  *)

Gone(r) == r.state \in {"closed", "failed"}

(* A quarantine that only the end of the Desktop lifts.                    *)
Confined(r) == r.state \in {"unhealthy", "draining"} /\ r.quar # ""

(* A slot is on a Desktop, and only an attached owner has a permit; a row  *)
(* that was never requested has no reservation behind it.                  *)
LeaseSound(d, l) ==
    LET r == d.lease[l]
    IN  /\ r.state \in SlotStates => r.on \in Sessions
        /\ r.state \in {"none", "queued", "offered", "attaching"} => r.permit = 0
        /\ r.state = "none" => ~r.exact
        /\ r.state # "none" => d.task[l] # "queued"

(* The permit of a slot is the one its Desktop is sealed for.              *)
PermitSound(d, l) ==
    LET r == d.lease[l]
    IN  r.state \in SlotStates /\ r.permit > 0 =>
            d.sess[r.on].sealed /\ d.sess[r.on].gen = r.permit

(* A reservation and its lease never hold two slots.                       *)
RsvSound(d, l) ==
    LET r == d.lease[l]
        v == d.rsv[l]
    IN  /\ v.state = "consumed" => r.exact
        /\ v.state = "consumed" /\ r.state \in SlotStates => r.on = v.on
        /\ v.state \in PendingRsv => r.state \notin SlotStates
        /\ r.state \in LiveStates /\ ~r.exact => v.state = "none"

(* Nobody shares a Desktop's permit.                                       *)
OnePermit(d) ==
    \A l, m \in Leases :
        /\ d.lease[l].state \in SlotStates /\ d.lease[l].permit > 0
        /\ d.lease[m].state \in SlotStates /\ d.lease[m].permit > 0
        /\ d.lease[l].on = d.lease[m].on
        => l = m

Sound(d) ==
    /\ d \in Databases
    /\ \A l \in Leases : LeaseSound(d, l) /\ PermitSound(d, l) /\ RsvSound(d, l)
    /\ OnePermit(d)
    /\ \A s \in Sessions : d.sess[s].state \in Assignable => d.sess[s].token

-----------------------------------------------------------------------------
(* What a pass may do to the rows.                                         *)

(* No lease gains a slot or a permit, and an owner keeps its Desktop.      *)
LeaseKept(r, q) ==
    /\ q.exact <=> r.exact
    /\ q.permit = 0 \/ q.permit = r.permit
    /\ q.state = "none" <=> r.state = "none"
    /\ q.state \in LiveStates => r.state \in LiveStates
    /\ q.state \in SlotStates => /\ r.state \in SlotStates
                                 /\ q.on = r.on /\ q.permit = r.permit
    /\ q.state \in {"offered", "attaching", "active"} => q.state = r.state
    /\ q.state = "releasing" => r.state \in OwnerStates
    /\ q.state = "queued" => q.permit = 0 \/ r.state = "queued"

(* A reservation is pending again only in place of its lease's slot.       *)
RsvKept(v, w, r, q) ==
    /\ w.on = v.on
    /\ w.state = "none" <=> v.state = "none"
    /\ w.state = "consumed" => v.state = "consumed"
    /\ w.state \in PendingRsv =>
          \/ v.state \in PendingRsv
          \/ (v.state = "consumed" /\ r.state \in SlotStates /\ q.state \notin SlotStates)

(* No Desktop is reopened, unblocked, heard from or sealed.                *)
SessionKept(r, q) ==
    /\ q.gen = r.gen /\ (q.token <=> r.token) /\ q.silent = r.silent
    /\ q.sealed => r.sealed
    /\ q.blocked = r.blocked \/ q.blocked = Blocked(r.blocked)
    /\ q.state \in Assignable => r.state \in Assignable
    /\ Gone(r) => Gone(q)
    /\ Confined(r) => Confined(q) \/ Gone(q)

(* An owner without reservation loses its slot only with its Desktop, or   *)
(* on a quarantined Desktop that is silent.                                *)
OwnerKept(d, e, l) ==
    LET r == d.lease[l]
    IN  ~r.exact /\ r.state \in OwnerStates =>
            \/ e.lease[l].state \in OwnerStates
            \/ Gone(e.sess[r.on])
            \/ (Confined(e.sess[r.on]) /\ d.sess[r.on].silent > 0)

Quiet(d, e) ==
    /\ e.task = d.task
    /\ \A l \in Leases : LeaseKept(d.lease[l], e.lease[l])
    /\ \A l \in Leases : RsvKept(d.rsv[l], e.rsv[l], d.lease[l], e.lease[l])
    /\ \A s \in Sessions : SessionKept(d.sess[s], e.sess[s])
    /\ \A s \in Sessions : d.sess[s].sealed /\ ~e.sess[s].sealed => Occupants(e, s) = {}
    /\ \A l \in Leases : OwnerKept(d, e, l)

-----------------------------------------------------------------------------
(* The relation composes and keeps the invariant.                          *)

USE AedtPoolAssumptions

LEMMA RowTypes ==
    ASSUME NEW d \in Databases
    PROVE  /\ \A l \in Leases : d.lease[l] \in LeaseRows /\ d.rsv[l] \in RsvRows
           /\ \A s \in Sessions : d.sess[s] \in SessionRows
           /\ \A a \in Allocs : d.alloc[a] \in AllocRows
BY DEF Databases

LEMMA LeaseKeptComposes ==
    ASSUME NEW r, NEW q, NEW t, LeaseKept(r, q), LeaseKept(q, t)
    PROVE  LeaseKept(r, t)
BY DEF LeaseKept, SlotStates, LiveStates, OwnerStates

LEMMA RsvKeptComposes ==
    ASSUME NEW u, NEW v, NEW w, NEW r, NEW q, NEW t,
           LeaseKept(r, q), LeaseKept(q, t),
           RsvKept(u, v, r, q), RsvKept(v, w, q, t)
    PROVE  RsvKept(u, w, r, t)
<1>1. q.state \notin SlotStates => t.state \notin SlotStates
  BY DEF LeaseKept
<1>2. q.state \in SlotStates => r.state \in SlotStates
  BY DEF LeaseKept
<1> QED
  BY <1>1, <1>2 DEF RsvKept

LEMMA SessionKeptComposes ==
    ASSUME NEW r, NEW q, NEW t, SessionKept(r, q), SessionKept(q, t)
    PROVE  SessionKept(r, t)
BY DEF SessionKept, Blocked

LEMMA Shrinks ==
    ASSUME NEW d, NEW e, Quiet(d, e), NEW s
    PROVE  Occupants(e, s) \subseteq Occupants(d, s)
BY DEF Quiet, LeaseKept, Occupants

LEMMA QuietComposes ==
    ASSUME NEW d, NEW e, NEW f, Quiet(d, e), Quiet(e, f),
           \A l \in Leases : d.lease[l].state \in SlotStates => d.lease[l].on \in Sessions
    PROVE  Quiet(d, f)
<1>1. \A l \in Leases : LeaseKept(d.lease[l], f.lease[l])
  BY LeaseKeptComposes DEF Quiet
<1>2. \A l \in Leases : RsvKept(d.rsv[l], f.rsv[l], d.lease[l], f.lease[l])
  BY RsvKeptComposes DEF Quiet
<1>3. \A s \in Sessions : SessionKept(d.sess[s], f.sess[s])
  BY SessionKeptComposes DEF Quiet
<1>4. \A s \in Sessions : d.sess[s].sealed /\ ~f.sess[s].sealed => Occupants(f, s) = {}
  BY Shrinks DEF Quiet
<1>5. ASSUME NEW l \in Leases, ~d.lease[l].exact, d.lease[l].state \in OwnerStates
      PROVE  \/ f.lease[l].state \in OwnerStates
             \/ Gone(f.sess[d.lease[l].on])
             \/ (Confined(f.sess[d.lease[l].on]) /\ d.sess[d.lease[l].on].silent > 0)
  <2> DEFINE s == d.lease[l].on
  <2>1. s \in Sessions
    BY <1>5 DEF SlotStates
  <2>2. SessionKept(d.sess[s], e.sess[s]) /\ SessionKept(e.sess[s], f.sess[s])
    BY <2>1 DEF Quiet
  <2>3. \/ e.lease[l].state \in OwnerStates
        \/ Gone(e.sess[s])
        \/ (Confined(e.sess[s]) /\ d.sess[s].silent > 0)
    BY <1>5 DEF Quiet, OwnerKept
  <2>4. CASE e.lease[l].state \in OwnerStates
    <3>1. e.lease[l].on = s /\ ~e.lease[l].exact
      BY <1>5, <2>4 DEF Quiet, LeaseKept, SlotStates
    <3> QED
      BY <2>2, <2>4, <3>1 DEF Quiet, OwnerKept, SessionKept
  <2>5. CASE Gone(e.sess[s])
    BY <2>2, <2>5 DEF SessionKept
  <2>6. CASE Confined(e.sess[s]) /\ d.sess[s].silent > 0
    BY <2>2, <2>6 DEF SessionKept
  <2> QED
    BY <2>3, <2>4, <2>5, <2>6
<1> QED
  BY <1>1, <1>2, <1>3, <1>4, <1>5 DEF Quiet, OwnerKept

LEMMA QuietKeepsSound ==
    ASSUME NEW d, NEW e, Sound(d), e \in Databases, Quiet(d, e)
    PROVE  Sound(e)
<1> USE DEF Quiet
<1>1. ASSUME NEW l \in Leases PROVE LeaseSound(e, l)
  <2>1. LeaseSound(d, l) /\ LeaseKept(d.lease[l], e.lease[l])
    BY DEF Sound
  <2>2. e.lease[l].state \in SlotStates => e.lease[l].on \in Sessions
    BY <2>1 DEF LeaseSound, LeaseKept
  <2>3. e.lease[l].state \in {"none", "queued", "offered", "attaching"} => e.lease[l].permit = 0
    BY <2>1 DEF LeaseSound, LeaseKept
  <2>4. e.lease[l].state = "none" => ~e.lease[l].exact
    BY <2>1 DEF LeaseSound, LeaseKept
  <2>5. e.lease[l].state # "none" => e.task[l] # "queued"
    BY <2>1 DEF LeaseSound, LeaseKept
  <2> QED BY <2>2, <2>3, <2>4, <2>5 DEF LeaseSound
<1>2. ASSUME NEW l \in Leases PROVE PermitSound(e, l)
  <2> SUFFICES ASSUME e.lease[l].state \in SlotStates, e.lease[l].permit > 0
               PROVE  e.sess[e.lease[l].on].sealed /\ e.sess[e.lease[l].on].gen = e.lease[l].permit
    BY DEF PermitSound
  <2> DEFINE s == d.lease[l].on
  <2>1. d.lease[l].state \in SlotStates /\ e.lease[l].on = s /\ e.lease[l].permit = d.lease[l].permit
    BY DEF LeaseKept
  <2>2. s \in Sessions /\ d.sess[s].sealed /\ d.sess[s].gen = d.lease[l].permit
    BY <2>1 DEF Sound, LeaseSound, PermitSound
  <2>3. l \in Occupants(e, s)
    BY <2>1 DEF Occupants
  <2> QED
    BY <2>1, <2>2, <2>3 DEF SessionKept
<1>3. ASSUME NEW l \in Leases PROVE RsvSound(e, l)
  <2>1. /\ RsvSound(d, l) /\ LeaseKept(d.lease[l], e.lease[l])
        /\ RsvKept(d.rsv[l], e.rsv[l], d.lease[l], e.lease[l])
    BY DEF Sound
  <2> QED BY <2>1 DEF RsvSound, LeaseKept, RsvKept
<1>4. OnePermit(e)
  <2>1. OnePermit(d) BY DEF Sound
  <2> QED BY <2>1 DEF OnePermit, LeaseKept
<1>5. \A s \in Sessions : e.sess[s].state \in Assignable => e.sess[s].token
  BY DEF Sound, SessionKept
<1> QED
  BY <1>1, <1>2, <1>3, <1>4, <1>5 DEF Sound

-----------------------------------------------------------------------------
(* Rewriting tables.                                                       *)

(* A pass that keeps the invariant and is quiet.                           *)
Passes(d, e) == Sound(e) /\ Quiet(d, e)

LEMMA PassesByQuiet ==
    ASSUME NEW d, NEW e, Sound(d), e \in Databases, Quiet(d, e)
    PROVE  Passes(d, e)
BY QuietKeepsSound DEF Passes

LEMMA PassesCompose ==
    ASSUME NEW d, NEW e, NEW f, Sound(d), Passes(d, e), Passes(e, f)
    PROVE  Passes(d, f)
<1>1. \A l \in Leases : d.lease[l].state \in SlotStates => d.lease[l].on \in Sessions
  BY DEF Sound, LeaseSound
<1>2. Quiet(d, f)
  BY <1>1, QuietComposes DEF Passes
<1> QED
  BY <1>2 DEF Passes

LEMMA PassesNothing ==
    ASSUME NEW d, Sound(d)
    PROVE  Passes(d, d)
<1>1. \A l \in Leases : LeaseKept(d.lease[l], d.lease[l])
  BY DEF LeaseKept, OwnerStates
<1>2. Quiet(d, d)
  BY <1>1 DEF Quiet, RsvKept, SessionKept, OwnerKept
<1> QED
  BY <1>2 DEF Passes

(* Only rows of sessions change.                                           *)
LEMMA SessionPass ==
    ASSUME NEW d, Sound(d), NEW H, NEW h, DOMAIN h = H,
           \A s \in H \cap Sessions : h[s] \in SessionRows,
           \A s \in H \cap Sessions : SessionKept(d.sess[s], h[s]),
           \A s \in H \cap Sessions : d.sess[s].sealed /\ ~h[s].sealed => Occupants(d, s) = {}
    PROVE  Passes(d, [d EXCEPT !.sess = @ \oplus h])
<1> DEFINE e == [d EXCEPT !.sess = @ \oplus h]
<1>1. d \in Databases
  BY DEF Sound
<1>2. /\ d.sess \oplus h \in [Sessions -> SessionRows]
      /\ \A s \in Sessions : (d.sess \oplus h)[s] = IF s \in H THEN h[s] ELSE d.sess[s]
  <2>1. d.sess \in [Sessions -> SessionRows]
    BY <1>1 DEF Databases
  <2> QED
    BY <2>1 DEF \oplus
<1>3. e \in Databases
  BY <1>1, <1>2 DEF Databases
<1>4. e.task = d.task /\ e.lease = d.lease /\ e.rsv = d.rsv
  BY <1>1 DEF Databases
<1>5. \A s \in Sessions : e.sess[s] = IF s \in H THEN h[s] ELSE d.sess[s]
  BY <1>1, <1>2 DEF Databases
<1>6. Quiet(d, d)
  BY PassesNothing DEF Passes
<1> HIDE DEF e
<1>7. \A s \in Sessions : SessionKept(d.sess[s], e.sess[s])
  BY <1>5, <1>6 DEF Quiet
<1>8. \A s \in Sessions : Occupants(e, s) = Occupants(d, s)
  BY <1>4 DEF Occupants
<1>9. \A s \in Sessions : d.sess[s].sealed /\ ~e.sess[s].sealed => Occupants(e, s) = {}
  BY <1>5, <1>8
<1>10. \A l \in Leases : OwnerKept(d, e, l)
  BY <1>4 DEF OwnerKept
<1>11. Quiet(d, e)
  BY <1>4, <1>6, <1>7, <1>9, <1>10 DEF Quiet
<1> QED
  BY <1>3, <1>11, PassesByQuiet DEF e

(* Rows of leases and of their reservations change.                        *)
LeaseUpdate(d, F, f, G, g) ==
    /\ f \in [F -> LeaseRows] /\ g \in [G -> RsvRows]
    /\ \A l \in F \cap Leases : LeaseKept(d.lease[l], f[l])
    /\ \A l \in F \cap Leases : ~d.lease[l].exact /\ d.lease[l].state \in OwnerStates =>
          LET r == d.sess[d.lease[l].on]
          IN  f[l].state \in OwnerStates \/ Gone(r) \/ (Confined(r) /\ r.silent > 0)
    /\ \A l \in G \cap Leases : /\ g[l].on = d.rsv[l].on
                               /\ d.rsv[l].state # "none" /\ g[l].state # "none"
                               /\ g[l].state # "consumed"
    /\ \A l \in G \cap Leases : g[l].state \in PendingRsv =>
          /\ d.rsv[l].state = "consumed" /\ d.lease[l].state \in SlotStates
          /\ l \in F /\ f[l].state \notin SlotStates

Rewritten(d, f, g) == [d EXCEPT !.lease = @ \oplus f, !.rsv = @ \oplus g]

LEMMA LeasePass ==
    ASSUME NEW d, Sound(d), NEW F, NEW f, NEW G, NEW g, LeaseUpdate(d, F, f, G, g)
    PROVE  /\ Passes(d, Rewritten(d, f, g))
           /\ \A l \in Leases :
                 Rewritten(d, f, g).lease[l] = IF l \in F THEN f[l] ELSE d.lease[l]
<1> USE DEF LeaseUpdate
<1> DEFINE e == [d EXCEPT !.lease = @ \oplus f, !.rsv = @ \oplus g]
<1>1. d \in Databases
  BY DEF Sound
<1>2. /\ d.lease \oplus f \in [Leases -> LeaseRows]
      /\ \A l \in Leases : (d.lease \oplus f)[l] = IF l \in F THEN f[l] ELSE d.lease[l]
  <2>1. d.lease \in [Leases -> LeaseRows]
    BY <1>1 DEF Databases
  <2> QED
    BY <2>1 DEF \oplus
<1>3. /\ d.rsv \oplus g \in [Leases -> RsvRows]
      /\ \A l \in Leases : (d.rsv \oplus g)[l] = IF l \in G THEN g[l] ELSE d.rsv[l]
  <2>1. d.rsv \in [Leases -> RsvRows]
    BY <1>1 DEF Databases
  <2> QED
    BY <2>1 DEF \oplus
<1>4. e \in Databases
  BY <1>1, <1>2, <1>3 DEF Databases
<1>5. e.task = d.task /\ e.sess = d.sess
  BY <1>1 DEF Databases
<1>6. \A l \in Leases : e.lease[l] = IF l \in F THEN f[l] ELSE d.lease[l]
  BY <1>1, <1>2 DEF Databases
<1>7. \A l \in Leases : e.rsv[l] = IF l \in G THEN g[l] ELSE d.rsv[l]
  BY <1>1, <1>3 DEF Databases
<1> HIDE DEF e
<1>8. Quiet(d, d)
  BY PassesNothing DEF Passes
<1>9. \A l \in Leases : LeaseKept(d.lease[l], e.lease[l])
  BY <1>6, <1>8 DEF Quiet
<1>10. ASSUME NEW l \in Leases
       PROVE  RsvKept(d.rsv[l], e.rsv[l], d.lease[l], e.lease[l])
  <2>1. CASE l \in G
    BY <2>1, <1>6, <1>7 DEF RsvKept
  <2>2. CASE l \notin G
    BY <2>2, <1>7 DEF RsvKept
  <2> QED BY <2>1, <2>2
<1>11. \A s \in Sessions : SessionKept(d.sess[s], e.sess[s]) /\ (d.sess[s].sealed => e.sess[s].sealed)
  BY <1>5, <1>8 DEF Quiet
<1>12. \A l \in Leases : OwnerKept(d, e, l)
  BY <1>5, <1>6 DEF OwnerKept
<1>13. Quiet(d, e)
  BY <1>5, <1>9, <1>10, <1>11, <1>12 DEF Quiet
<1> QED
  BY <1>4, <1>6, <1>13, PassesByQuiet DEF e, Rewritten

-----------------------------------------------------------------------------
(* The passes.                                                             *)

LEMMA BlockedRow ==
    ASSUME NEW r \in SessionRows
    PROVE  LET q == [r EXCEPT !.blocked = Blocked(@)]
           IN  q \in SessionRows /\ (q.sealed <=> r.sealed) /\ SessionKept(r, q)
<1> DEFINE q == [r EXCEPT !.blocked = Blocked(@)]
<1>1. q \in SessionRows
  BY DEF SessionRows, Blocked
<1>2. /\ q.gen = r.gen /\ q.token = r.token /\ q.silent = r.silent /\ q.sealed = r.sealed
      /\ q.state = r.state /\ q.quar = r.quar /\ q.blocked = Blocked(r.blocked)
  BY DEF SessionRows
<1> HIDE DEF q
<1> QED
  BY <1>1, <1>2 DEF SessionKept, Gone, Confined, q

LEMMA BlockReusePasses ==
    ASSUME NEW d, Sound(d), NEW S
    PROVE  Passes(d, BlockReuse(d, S))
<1> DEFINE hit == {s \in S \cap Sessions : d.sess[s].state \notin {"closed", "failed"}}
           h == [s \in hit |-> [d.sess[s] EXCEPT !.blocked = Blocked(@)]]
<1>1. \A s \in Sessions : d.sess[s] \in SessionRows
  BY RowTypes DEF Sound
<1>2. \A s \in hit : /\ h[s] \in SessionRows /\ SessionKept(d.sess[s], h[s])
                     /\ d.sess[s].sealed => h[s].sealed
  BY <1>1, BlockedRow
<1>3. h \in [hit -> SessionRows]
  BY <1>2
<1>4. BlockReuse(d, S) = [d EXCEPT !.sess = @ \oplus h]
  BY DEF BlockReuse
<1> HIDE DEF h
<1> QED
  BY <1>2, <1>3, <1>4, SessionPass

LEMMA RefreshedRow ==
    ASSUME NEW r \in SessionRows, r.state \in Assignable, NEW live \in BOOLEAN
    PROVE  LET q == [r EXCEPT !.state = IF live THEN "busy"
                                   ELSE IF r.drain THEN "draining" ELSE "ready",
                              !.sealed = @ /\ live]
           IN  /\ q \in SessionRows /\ SessionKept(r, q)
               /\ r.sealed /\ ~q.sealed => ~live
<1> DEFINE q == [r EXCEPT !.state = IF live THEN "busy"
                               ELSE IF r.drain THEN "draining" ELSE "ready",
                          !.sealed = @ /\ live]
<1>1. q \in SessionRows
  BY DEF SessionRows, Visible, Assignable
<1>2. /\ q.gen = r.gen /\ q.token = r.token /\ q.silent = r.silent
      /\ q.quar = r.quar /\ q.blocked = r.blocked
  BY DEF SessionRows
<1>3. q.state \in {"busy", "ready", "draining"} /\ (q.sealed <=> r.sealed /\ live)
  BY DEF SessionRows
<1> HIDE DEF q
<1>4. SessionKept(r, q)
  BY <1>2, <1>3 DEF SessionKept, Gone, Confined, Assignable
<1> QED
  BY <1>1, <1>3, <1>4 DEF q

LEMMA RefreshPasses ==
    ASSUME NEW d, Sound(d), NEW S
    PROVE  Passes(d, refresh_session_state(d, S))
<1> DEFINE Live(s) == Occupants(d, s) # {}
           hit == {s \in S \cap Sessions : d.sess[s].state \in Assignable}
           h == [s \in hit |->
                   [d.sess[s] EXCEPT !.state = IF Live(s) THEN "busy"
                                          ELSE IF d.sess[s].drain THEN "draining" ELSE "ready",
                                     !.sealed = @ /\ Live(s)]]
<1>1. \A s \in Sessions : d.sess[s] \in SessionRows
  BY RowTypes DEF Sound
<1>2. \A s \in hit : /\ h[s] \in SessionRows /\ SessionKept(d.sess[s], h[s])
                     /\ d.sess[s].sealed /\ ~h[s].sealed => ~Live(s)
  <2> TAKE s \in hit
  <2>1. d.sess[s] \in SessionRows /\ d.sess[s].state \in Assignable /\ Live(s) \in BOOLEAN
    BY <1>1
  <2> QED
    BY <2>1, RefreshedRow
<1>3. h \in [hit -> SessionRows]
  BY <1>2
<1>4. refresh_session_state(d, S) = [d EXCEPT !.sess = @ \oplus h]
  BY DEF refresh_session_state
<1>5. \A s \in hit : SessionKept(d.sess[s], h[s])
  BY <1>2
<1>6. \A s \in hit : d.sess[s].sealed /\ ~h[s].sealed => Occupants(d, s) = {}
  BY <1>2
<1> HIDE DEF h
<1> QED
  BY <1>3, <1>4, <1>5, <1>6, SessionPass

LEMMA ZeroOwnerPasses ==
    ASSUME NEW d, Sound(d)
    PROVE  Passes(d, refresh_zero_owner_draining_sessions(d))
BY RefreshPasses DEF refresh_zero_owner_draining_sessions

-----------------------------------------------------------------------------
(* Rows of leases and reservations.                                        *)

LEMMA EndedRow ==
    ASSUME NEW r \in LeaseRows, r.state \in LiveStates, NEW to \in EndStates
    PROVE  /\ Ended(r, to) \in LeaseRows /\ LeaseKept(r, Ended(r, to))
           /\ Ended(r, to).state = to /\ Ended(r, to).on = r.on
           /\ Ended(r, to).permit = r.permit
<1> DEFINE q == Ended(r, to)
<1>1. q \in LeaseRows
  BY DEF LeaseRows, Ended
<1>2. q.state = to /\ q.on = r.on /\ q.exact = r.exact /\ q.permit = r.permit
  BY DEF LeaseRows, Ended
<1> HIDE DEF q
<1>3. LeaseKept(r, q)
  BY <1>2 DEF LeaseKept, LiveStates, SlotStates, OwnerStates, EndStates
<1> QED
  BY <1>1, <1>2, <1>3 DEF q

LEMMA ReleasingRow ==
    ASSUME NEW r \in LeaseRows, r.state \in OwnerStates
    PROVE  /\ Releasing(r) \in LeaseRows /\ LeaseKept(r, Releasing(r))
           /\ Releasing(r).state = "releasing" /\ Releasing(r).on = r.on
           /\ Releasing(r).permit = r.permit
<1> DEFINE q == Releasing(r)
<1>1. q \in LeaseRows
  BY DEF LeaseRows, Releasing, LiveStates, SlotStates, OwnerStates
<1>2. q.state = "releasing" /\ q.on = r.on /\ q.exact = r.exact /\ q.permit = r.permit
  BY DEF LeaseRows, Releasing
<1> HIDE DEF q
<1>3. LeaseKept(r, q)
  BY <1>2 DEF LeaseKept, LiveStates, SlotStates, OwnerStates
<1> QED
  BY <1>1, <1>2, <1>3 DEF q

LEMMA DroppedRow ==
    ASSUME NEW r \in LeaseRows, r.state \in LiveStates, NEW to \in EndStates
    PROVE  /\ Dropped(r, to) \in LeaseRows /\ LeaseKept(r, Dropped(r, to))
           /\ Dropped(r, to).state = to
<1> DEFINE q == Dropped(r, to)
<1>1. q \in LeaseRows
  BY DEF LeaseRows, Dropped
<1>2. q.state = to /\ q.exact = r.exact /\ q.permit = r.permit
  BY DEF LeaseRows, Dropped
<1> HIDE DEF q
<1>3. LeaseKept(r, q)
  BY <1>2 DEF LeaseKept, LiveStates, SlotStates, OwnerStates, EndStates
<1> QED
  BY <1>1, <1>2, <1>3 DEF q

LEMMA RequeuedRow ==
    ASSUME NEW r \in LeaseRows, r.state \in LiveStates
    PROVE  /\ Requeued(r) \in LeaseRows /\ LeaseKept(r, Requeued(r))
           /\ Requeued(r).state = "queued"
<1> DEFINE q == Requeued(r)
<1>1. q \in LeaseRows
  BY DEF LeaseRows, Requeued, LiveStates
<1>2. q.state = "queued" /\ q.exact = r.exact /\ q.permit = 0
  BY DEF LeaseRows, Requeued
<1> HIDE DEF q
<1>3. LeaseKept(r, q)
  BY <1>2 DEF LeaseKept, LiveStates, SlotStates, OwnerStates
<1> QED
  BY <1>1, <1>2, <1>3 DEF q

LEMMA RsvRow ==
    ASSUME NEW v \in RsvRows, NEW to \in {"claimed", "consumed", "released", "failed", "expired"}
    PROVE  LET w == [v EXCEPT !.state = to]
           IN  w \in RsvRows /\ w.state = to /\ w.on = v.on /\ w.key = v.key
BY DEF RsvRows, LiveRsv, PendingRsv

-----------------------------------------------------------------------------
(* The passes of _refresh_exact_session_reservations leave every lease     *)
(* where it was, with its permit, and release nobody.                      *)

Still(d, e) ==
    \A l \in Leases : /\ e.lease[l].on = d.lease[l].on
                      /\ e.lease[l].permit = d.lease[l].permit
                      /\ e.lease[l].state = "released" => d.lease[l].state = "released"

LEMMA StillComposes ==
    ASSUME NEW d, NEW e, NEW f, Still(d, e), Still(e, f)
    PROVE  Still(d, f)
BY DEF Still

LEMMA SameLeases ==
    ASSUME NEW d \in Databases, NEW S
    PROVE  /\ BlockReuse(d, S).lease = d.lease
           /\ refresh_session_state(d, S).lease = d.lease
           /\ refresh_session_state(d, S).rsv = d.rsv
BY DEF BlockReuse, refresh_session_state, Databases

LEMMA FailCohorts ==
    ASSUME NEW d, Sound(d), NEW K, NEW settle \in BOOLEAN
    PROVE  Passes(d, fail_cohorts(d, K, settle)) /\ Still(d, fail_cohorts(d, K, settle))
<1> DEFINE rows == {l \in Leases : d.rsv[l].key \in K /\ d.rsv[l].state \in LiveRsv}
           member == {l \in Leases : /\ d.rsv[l].key \in K /\ d.rsv[l].state # "none"
                                     /\ d.lease[l].exact /\ d.lease[l].state \in LiveStates}
           owner == {l \in member : settle /\ d.lease[l].state \in OwnerStates}
           f == [l \in member |-> IF l \in owner THEN Releasing(d.lease[l])
                                                 ELSE Ended(d.lease[l], "failed")]
           g == [l \in rows |-> [d.rsv[l] EXCEPT !.state = "failed"]]
           d1 == Rewritten(d, f, g)
           S == {d.lease[l].on : l \in owner}
<1>0. d \in Databases
  BY DEF Sound
<1>1. \A l \in Leases : d.lease[l] \in LeaseRows /\ d.rsv[l] \in RsvRows
  BY <1>0, RowTypes
<1>2. \A l \in member : /\ f[l] \in LeaseRows /\ LeaseKept(d.lease[l], f[l])
                        /\ d.lease[l].exact
                        /\ f[l].on = d.lease[l].on /\ f[l].permit = d.lease[l].permit
                        /\ f[l].state # "released"
  <2> TAKE l \in member
  <2>1. d.lease[l] \in LeaseRows /\ d.lease[l].exact /\ d.lease[l].state \in LiveStates
    BY <1>1
  <2>2. CASE l \in owner
    <3>1. f[l] = Releasing(d.lease[l]) /\ d.lease[l].state \in OwnerStates
      BY <2>2
    <3> HIDE DEF f
    <3> QED BY <2>1, <3>1, ReleasingRow
  <2>3. CASE l \notin owner
    <3>1. f[l] = Ended(d.lease[l], "failed") /\ "failed" \in EndStates
      BY <2>3 DEF EndStates
    <3> HIDE DEF f
    <3> QED BY <2>1, <3>1, EndedRow
  <2> QED BY <2>2, <2>3
<1>3. f \in [member -> LeaseRows]
  BY <1>2
<1>4. \A l \in rows : g[l] \in RsvRows /\ g[l].on = d.rsv[l].on /\ g[l].state = "failed"
  BY <1>1, RsvRow
<1>5. g \in [rows -> RsvRows]
  BY <1>4
<1>6. \A l \in rows : d.rsv[l].state # "none"
  BY DEF LiveRsv, PendingRsv
<1>7. fail_cohorts(d, K, settle) = BlockReuse(d1, S)
  BY DEF fail_cohorts, Rewritten
<1> HIDE DEF f, g, rows, member, S
<1>8. LeaseUpdate(d, member, f, rows, g)
  BY <1>2, <1>3, <1>4, <1>5, <1>6 DEF LeaseUpdate, PendingRsv
<1>9. /\ Passes(d, d1)
      /\ \A l \in Leases : d1.lease[l] = IF l \in member THEN f[l] ELSE d.lease[l]
  BY <1>8, LeasePass
<1> HIDE DEF d1
<1>10. Still(d, d1)
  BY <1>2, <1>9 DEF Still
<1>11. Sound(d1)
  BY <1>9 DEF Passes
<1>12. Passes(d, BlockReuse(d1, S))
  BY <1>9, <1>11, BlockReusePasses, PassesCompose
<1>13. BlockReuse(d1, S).lease = d1.lease
  BY <1>11, SameLeases DEF Sound
<1>14. Still(d, BlockReuse(d1, S))
  BY <1>10, <1>13 DEF Still
<1> QED
  BY <1>7, <1>12, <1>14

LEMMA ExpireCohorts ==
    ASSUME NEW d, Sound(d), NEW K
    PROVE  Passes(d, expire_cohorts(d, K)) /\ Still(d, expire_cohorts(d, K))
<1> DEFINE member == {l \in Leases : d.rsv[l].key \in K /\ d.rsv[l].state # "none"}
           loser == {l \in member : d.lease[l].exact /\ d.lease[l].permit = 0
                                    /\ d.lease[l].state \in LiveStates}
           rows == {l \in member : d.rsv[l].state \in LiveRsv /\ d.lease[l].permit = 0}
           f == [l \in loser |-> IF d.lease[l].state \in OwnerStates
                                 THEN Releasing(d.lease[l])
                                 ELSE Ended(d.lease[l], "expired")]
           g == [l \in rows |-> [d.rsv[l] EXCEPT !.state = "expired"]]
           d1 == Rewritten(d, f, g)
           S == {d1.lease[l].on : l \in {m \in member : d1.lease[m].state = "releasing"}}
<1>1. \A l \in Leases : d.lease[l] \in LeaseRows /\ d.rsv[l] \in RsvRows
  BY RowTypes DEF Sound
<1>2. \A l \in loser : /\ f[l] \in LeaseRows /\ LeaseKept(d.lease[l], f[l])
                       /\ d.lease[l].exact
                       /\ f[l].on = d.lease[l].on /\ f[l].permit = d.lease[l].permit
                       /\ f[l].state # "released"
  <2> TAKE l \in loser
  <2>1. d.lease[l] \in LeaseRows /\ d.lease[l].exact /\ d.lease[l].state \in LiveStates
    BY <1>1
  <2>2. CASE d.lease[l].state \in OwnerStates
    <3>1. f[l] = Releasing(d.lease[l])
      BY <2>2
    <3> HIDE DEF f, loser
    <3> QED BY <2>1, <2>2, <3>1, ReleasingRow
  <2>3. CASE d.lease[l].state \notin OwnerStates
    <3>1. f[l] = Ended(d.lease[l], "expired") /\ "expired" \in EndStates
      BY <2>3 DEF EndStates
    <3> HIDE DEF f
    <3> QED BY <2>1, <3>1, EndedRow
  <2> QED BY <2>2, <2>3
<1>3. f \in [loser -> LeaseRows]
  BY <1>2
<1>4. \A l \in rows : g[l] \in RsvRows /\ g[l].on = d.rsv[l].on /\ g[l].state = "expired"
  BY <1>1, RsvRow
<1>5. g \in [rows -> RsvRows]
  BY <1>4
<1>6. \A l \in rows : d.rsv[l].state # "none"
  BY DEF LiveRsv, PendingRsv
<1>7. expire_cohorts(d, K) = BlockReuse(d1, S)
  BY DEF expire_cohorts, Rewritten
<1> HIDE DEF f, g, rows, loser, S
<1>8. LeaseUpdate(d, loser, f, rows, g)
  BY <1>2, <1>3, <1>4, <1>5, <1>6 DEF LeaseUpdate, PendingRsv
<1>9. /\ Passes(d, d1)
      /\ \A l \in Leases : d1.lease[l] = IF l \in loser THEN f[l] ELSE d.lease[l]
  BY <1>8, LeasePass
<1> HIDE DEF d1
<1>10. Still(d, d1)
  BY <1>2, <1>9 DEF Still
<1>11. Sound(d1)
  BY <1>9 DEF Passes
<1>12. Passes(d, BlockReuse(d1, S))
  BY <1>9, <1>11, BlockReusePasses, PassesCompose
<1>13. BlockReuse(d1, S).lease = d1.lease
  BY <1>11, SameLeases DEF Sound
<1>14. Still(d, BlockReuse(d1, S))
  BY <1>10, <1>13 DEF Still
<1> QED
  BY <1>7, <1>12, <1>14

LEMMA ReleaseFinished ==
    ASSUME NEW d, Sound(d)
    PROVE  Passes(d, release_finished(d)) /\ Still(d, release_finished(d))
<1> DEFINE over == {l \in Leases :
                      \/ d.rsv[l].state \in LiveRsv /\ d.task[l] = "ended"
                      \/ d.rsv[l].state \in {"claimed", "consumed"} /\ d.lease[l].state \in EndStates}
           f == [l \in {} |-> d.lease[l]]
           g == [l \in over |-> [d.rsv[l] EXCEPT !.state = "released"]]
<1>1. /\ d \in Databases /\ d.lease \in [Leases -> LeaseRows]
      /\ \A l \in Leases : d.rsv[l] \in RsvRows
  BY RowTypes DEF Sound, Databases
<1>2. \A l \in over : g[l] \in RsvRows /\ g[l].on = d.rsv[l].on /\ g[l].state = "released"
  BY <1>1, RsvRow
<1>3. g \in [over -> RsvRows]
  BY <1>2
<1>4. \A l \in over : d.rsv[l].state # "none"
  BY DEF LiveRsv, PendingRsv
<1>5. d.lease \oplus f = d.lease
  BY <1>1 DEF \oplus
<1>6. [d EXCEPT !.lease = d.lease] = d
  BY <1>1 DEF Databases
<1>7. release_finished(d) = [d EXCEPT !.rsv = @ \oplus g]
  BY DEF release_finished
<1> HIDE DEF g, over
<1>8. release_finished(d) = Rewritten(d, f, g)
  <2> HIDE DEF f
  <2> QED BY <1>1, <1>5, <1>7 DEF Rewritten, Databases
<1>9. LeaseUpdate(d, {}, f, over, g)
  BY <1>2, <1>3, <1>4 DEF LeaseUpdate, PendingRsv
<1>10. /\ Passes(d, Rewritten(d, f, g))
       /\ \A l \in Leases : Rewritten(d, f, g).lease[l] = d.lease[l]
  <2> HIDE DEF f
  <2> QED BY <1>9, LeasePass
<1> QED
  BY <1>8, <1>10 DEF Still

LEMMA RefreshExact ==
    ASSUME NEW d, Sound(d)
    PROVE  /\ Passes(d, refresh_exact_session_reservations(d))
           /\ Still(d, refresh_exact_session_reservations(d))
<1> DEFINE d1 == fail_ended_cohorts(d)
           d2 == expire_overdue_cohorts(d1)
           d3 == release_finished(d2)
           d4 == fail_invalid_cohorts(d3)
<1>1. Passes(d, d1) /\ Still(d, d1)
  BY FailCohorts DEF fail_ended_cohorts
<1> HIDE DEF d1
<1>2. Passes(d1, d2) /\ Still(d1, d2)
  BY <1>1, ExpireCohorts DEF expire_overdue_cohorts, Passes
<1> HIDE DEF d2
<1>3. Passes(d2, d3) /\ Still(d2, d3)
  BY <1>2, ReleaseFinished DEF Passes
<1> HIDE DEF d3
<1>4. Passes(d3, d4) /\ Still(d3, d4)
  <2> DEFINE K == {d3.rsv[l].key : l \in {m \in LiveRows(d3) : InvalidTarget(d3, m)}}
             S == {d3.rsv[l].on : l \in {m \in Leases : d3.rsv[m].key \in K
                                                       /\ d3.rsv[m].state # "none"}}
             e == fail_cohorts(d3, K, FALSE)
  <2>1. Sound(d3)
    BY <1>3 DEF Passes
  <2>2. Passes(d3, e) /\ Still(d3, e)
    BY <2>1, FailCohorts
  <2>3. d4 = refresh_session_state(e, S)
    BY DEF fail_invalid_cohorts
  <2> HIDE DEF d4, e, S, K
  <2>4. Passes(e, d4) /\ e \in Databases
    BY <2>2, <2>3, RefreshPasses DEF Passes, Sound
  <2>5. Still(e, d4)
    BY <2>3, <2>4, SameLeases DEF Still
  <2> QED
    BY <2>1, <2>2, <2>4, <2>5, PassesCompose, StillComposes
<1> HIDE DEF d4
<1>5. Passes(d, d2) /\ Still(d, d2)
  BY <1>1, <1>2, PassesCompose, StillComposes
<1>6. Passes(d, d3) /\ Still(d, d3)
  BY <1>3, <1>5, PassesCompose, StillComposes
<1>7. Passes(d, d4) /\ Still(d, d4)
  BY <1>4, <1>6, PassesCompose, StillComposes
<1> QED
  BY <1>7 DEF refresh_exact_session_reservations, d1, d2, d3, d4

-----------------------------------------------------------------------------
(* The passes of reconcile.                                                *)

LEMMA AllocPass ==
    ASSUME NEW d, Sound(d), NEW A \in [Allocs -> AllocRows]
    PROVE  Passes(d, [d EXCEPT !.alloc = A])
<1> DEFINE e == [d EXCEPT !.alloc = A]
<1>1. d \in Databases
  BY DEF Sound
<1>2. e \in Databases /\ e.task = d.task /\ e.lease = d.lease /\ e.rsv = d.rsv /\ e.sess = d.sess
  BY <1>1 DEF Databases
<1> HIDE DEF e
<1>3. Quiet(d, d)
  BY PassesNothing DEF Passes
<1>4. Quiet(d, e)
  BY <1>2, <1>3 DEF Quiet, OwnerKept, Occupants
<1> QED
  BY <1>2, <1>4, PassesByQuiet DEF e

LEMMA DrainingRow ==
    ASSUME NEW r \in SessionRows, ~Gone(r), NEW why \in Faulty
    PROVE  /\ Draining(r, why) \in SessionRows
           /\ SessionKept(r, Draining(r, why))
           /\ Draining(r, why).sealed <=> r.sealed
           /\ Draining(r, why).state = "draining" /\ Draining(r, why).quar = r.quar
<1> DEFINE q == Draining(r, why)
<1>1. q \in SessionRows
  BY DEF SessionRows, Draining, Visible
<1>2. /\ q.gen = r.gen /\ q.token = r.token /\ q.silent = r.silent /\ q.sealed = r.sealed
      /\ q.state = "draining" /\ q.quar = r.quar /\ q.blocked = r.blocked
  BY DEF SessionRows, Draining
<1> HIDE DEF q
<1>3. SessionKept(r, q)
  BY <1>2 DEF SessionKept, Gone, Confined, Assignable
<1> QED
  BY <1>1, <1>2, <1>3 DEF q

LEMMA UnhealthyRow ==
    ASSUME NEW r \in SessionRows, ~Gone(r), NEW why \in Faulty
    PROVE  /\ Unhealthy(r, why) \in SessionRows
           /\ SessionKept(r, Unhealthy(r, why))
           /\ Unhealthy(r, why).sealed <=> r.sealed
           /\ Unhealthy(r, why).state = "unhealthy"
           /\ Unhealthy(r, why).silent = r.silent
           /\ Unhealthy(r, why).blocked = r.blocked
<1> DEFINE q == Unhealthy(r, why)
<1>1. q \in SessionRows
  BY DEF SessionRows, Unhealthy, Draining, Visible
<1>2. /\ q.gen = r.gen /\ q.token = r.token /\ q.silent = r.silent /\ q.sealed = r.sealed
      /\ q.state = "unhealthy" /\ q.quar = r.quar /\ q.blocked = r.blocked
  BY DEF SessionRows, Unhealthy, Draining
<1> HIDE DEF q
<1>3. SessionKept(r, q)
  BY <1>2 DEF SessionKept, Gone, Confined, Assignable
<1> QED
  BY <1>1, <1>2, <1>3 DEF q

LEMMA FailBlockedStarts ==
    ASSUME NEW d, Sound(d), NEW accounts
    PROVE  Passes(d, fail_blocked_starts(d, accounts))
<1> DEFINE hit == {s \in Sessions : /\ Node[s] \in accounts
                                    /\ d.sess[s].state = "starting" /\ ~d.sess[s].host}
           h == [s \in hit |-> [d.sess[s] EXCEPT !.state = "failed", !.why = "other"]]
<1>1. \A s \in Sessions : d.sess[s] \in SessionRows
  BY RowTypes DEF Sound
<1>2. ASSUME NEW s \in hit
      PROVE  h[s] \in SessionRows /\ SessionKept(d.sess[s], h[s]) /\ (d.sess[s].sealed => h[s].sealed)
  <2> DEFINE r == d.sess[s]
             q == [r EXCEPT !.state = "failed", !.why = "other"]
  <2>1. r \in SessionRows /\ r.state = "starting" /\ h[s] = q
    BY <1>1
  <2> HIDE DEF r
  <2>2. q \in SessionRows
    BY <2>1 DEF SessionRows, Faulty
  <2>3. /\ q.gen = r.gen /\ q.token = r.token /\ q.silent = r.silent /\ q.sealed = r.sealed
        /\ q.state = "failed" /\ q.quar = r.quar /\ q.blocked = r.blocked
    BY <2>1 DEF SessionRows
  <2> HIDE DEF q
  <2>4. SessionKept(r, q)
    BY <2>1, <2>3 DEF SessionKept, Gone, Confined, Assignable
  <2> QED BY <2>1, <2>2, <2>3, <2>4 DEF r
<1>3. fail_blocked_starts(d, accounts) = [d EXCEPT !.sess = @ \oplus h] /\ DOMAIN h = hit
  BY DEF fail_blocked_starts
<1> HIDE DEF h, hit
<1> QED
  BY <1>2, <1>3, SessionPass

LEMMA StoragePressureDrain ==
    ASSUME NEW d, Sound(d), NEW accounts
    PROVE  Passes(d, storage_pressure_drain(d, accounts))
<1> DEFINE On(a) == {s \in Sessions : Node[s] = a /\ d.sess[s].state \in Visible}
           Cost(s) == Cardinality(Occupants(d, s))
           Usables(a) == {s \in On(a) : d.sess[s].state \in Assignable}
           Pick(a) == CHOOSE s \in Usables(a) :
                         \A t \in Usables(a) :
                            \/ d.sess[s].state = "ready"
                            \/ d.sess[t].state = "busy" /\ Cost(s) <= Cost(t)
           hit == {Pick(a) : a \in {b \in accounts : /\ Usables(b) # {}
                                                     /\ \A s \in On(b) : ~d.sess[s].drain}}
           h == [s \in hit |->
                    [d.sess[s] EXCEPT !.state = IF @ = "ready" THEN "draining" ELSE @,
                                      !.why = "other", !.drain = TRUE, !.over = FALSE]]
           d1 == [d EXCEPT !.sess = @ \oplus h]
<1>1. storage_pressure_drain(d, accounts) =
        IF hit = {} THEN d
        ELSE refresh_zero_owner_draining_sessions(refresh_exact_session_reservations(d1))
  BY DEF storage_pressure_drain
<1> HIDE DEF hit
<1>2. ASSUME NEW s \in hit \cap Sessions
      PROVE  h[s] \in SessionRows /\ SessionKept(d.sess[s], h[s]) /\ (d.sess[s].sealed => h[s].sealed)
  <2> DEFINE r == d.sess[s]
             q == [r EXCEPT !.state = IF r.state = "ready" THEN "draining" ELSE r.state,
                            !.why = "other", !.drain = TRUE, !.over = FALSE]
  <2>1. r \in SessionRows
    BY RowTypes DEF Sound
  <2>2. h[s] = q
    OBVIOUS
  <2> HIDE DEF r
  <2>3. q \in SessionRows
    BY <2>1 DEF SessionRows, Faulty, Visible
  <2>4. /\ q.gen = r.gen /\ q.token = r.token /\ q.silent = r.silent /\ q.sealed = r.sealed
        /\ q.quar = r.quar /\ q.blocked = r.blocked
    BY <2>1 DEF SessionRows
  <2>5. q.state = IF r.state = "ready" THEN "draining" ELSE r.state
    BY <2>1 DEF SessionRows
  <2> HIDE DEF q
  <2>6. SessionKept(r, q)
    BY <2>4, <2>5 DEF SessionKept, Gone, Confined, Assignable
  <2> QED BY <2>2, <2>3, <2>4, <2>6 DEF r
<1>3. DOMAIN h = hit
  OBVIOUS
<1> HIDE DEF h
<1>4. Passes(d, d1)
  BY <1>2, <1>3, SessionPass
<1> HIDE DEF d1
<1> DEFINE d2 == refresh_exact_session_reservations(d1)
<1>5. Passes(d1, d2)
  BY <1>4, RefreshExact DEF Passes
<1> HIDE DEF d2
<1>6. Passes(d2, refresh_zero_owner_draining_sessions(d2))
  BY <1>5, ZeroOwnerPasses DEF Passes
<1>7. Passes(d, d2)
  BY <1>4, <1>5, PassesCompose
<1>8. Passes(d, refresh_zero_owner_draining_sessions(d2))
  BY <1>6, <1>7, PassesCompose
<1> QED
  BY <1>1, <1>8, PassesNothing DEF d2

LEMMA RequestSessionsDrain ==
    ASSUME NEW d, Sound(d), NEW A
    PROVE  Passes(d, request_sessions_drain(d, A))
<1> DEFINE hit == {s \in Sessions : Node[s] \in A /\ Recoverable(d.sess[s])}
           h == [s \in hit |-> Draining(d.sess[s], "other")]
<1>1. \A s \in Sessions : d.sess[s] \in SessionRows
  BY RowTypes DEF Sound
<1>2. \A s \in hit : ~Gone(d.sess[s])
  BY DEF Recoverable, Gone, Assignable
<1>3. \A s \in hit : /\ h[s] \in SessionRows /\ SessionKept(d.sess[s], h[s])
                     /\ d.sess[s].sealed => h[s].sealed
  BY <1>1, <1>2, DrainingRow DEF Faulty
<1>4. request_sessions_drain(d, A) = [d EXCEPT !.sess = @ \oplus h] /\ DOMAIN h = hit
  BY DEF request_sessions_drain
<1> HIDE DEF h, hit
<1> QED
  BY <1>3, <1>4, SessionPass

LEMMA AgeRotation ==
    ASSUME NEW d, Sound(d)
    PROVE  Passes(d, age_rotation(d))
<1> DEFINE old == {a \in Allocs : d.alloc[a].old /\ Open(d, a)}
           g == [a \in old |-> [d.alloc[a] EXCEPT !.state = "draining", !.why = "age"]]
           d1 == [d EXCEPT !.alloc = @ \oplus g]
           A == {a \in Allocs : d1.alloc[a].state = "draining" /\ d1.alloc[a].why = "age"}
<1>1. d.alloc \in [Allocs -> AllocRows]
  BY DEF Sound, Databases
<1>2. \A a \in old : g[a] \in AllocRows
  BY <1>1 DEF AllocRows, DrainReasons
<1>3. d.alloc \oplus g \in [Allocs -> AllocRows]
  <2> HIDE DEF g
  <2>1. DOMAIN g = old
    BY DEF g
  <2> QED BY <1>1, <1>2, <2>1 DEF \oplus
<1>4. age_rotation(d) = request_sessions_drain(d1, A)
  BY DEF age_rotation
<1> HIDE DEF g, A
<1>5. Passes(d, d1)
  BY <1>3, AllocPass
<1> HIDE DEF d1
<1> QED
  BY <1>4, <1>5, RequestSessionsDrain, PassesCompose DEF Passes

(* A pass that changes rows of leases only.                                *)
LEMMA LeaseOnlyPass ==
    ASSUME NEW d, Sound(d), NEW F, NEW f,
           LeaseUpdate(d, F, f, {}, [l \in {} |-> d.rsv[l]])
    PROVE  /\ Passes(d, [d EXCEPT !.lease = @ \oplus f])
           /\ \A l \in Leases :
                [d EXCEPT !.lease = @ \oplus f].lease[l] = IF l \in F THEN f[l] ELSE d.lease[l]
<1> DEFINE g == [l \in {} |-> d.rsv[l]]
<1>1. d \in Databases /\ d.rsv \in [Leases -> RsvRows]
  BY DEF Sound, Databases
<1>2. d.rsv \oplus g = d.rsv
  BY <1>1 DEF \oplus
<1> HIDE DEF g
<1>3. Rewritten(d, f, g) = [d EXCEPT !.lease = @ \oplus f]
  BY <1>1, <1>2 DEF Rewritten, Databases
<1>4. LeaseUpdate(d, F, f, {}, g)
  BY DEF g
<1>5. /\ Passes(d, Rewritten(d, f, g))
      /\ \A l \in Leases :
           Rewritten(d, f, g).lease[l] = IF l \in F THEN f[l] ELSE d.lease[l]
  BY <1>4, LeasePass
<1> QED
  BY <1>3, <1>5

LEMMA EndTerminalTaskLeases ==
    ASSUME NEW d, Sound(d)
    PROVE  Passes(d, end_terminal_task_leases(d))
<1> DEFINE In(S) == {l \in Leases : d.task[l] = "ended" /\ d.lease[l].state \in S}
           On(L) == {d.lease[l].on : l \in L}
           owner == In({"attaching", "active"})
           asker == In({"queued", "offered"})
           f1 == [l \in owner |-> Releasing(d.lease[l])]
           f2 == [l \in asker |-> Dropped(d.lease[l], "cancelled")]
           F == owner \cup asker
           f == [l \in F |-> IF l \in asker THEN f2[l] ELSE f1[l]]
           d1 == [d EXCEPT !.lease = @ \oplus f1 \oplus f2]
           d2 == BlockReuse(d1, On(owner))
<1>1. d \in Databases /\ d.lease \in [Leases -> LeaseRows]
  BY DEF Sound, Databases
<1>2. d.lease \oplus f1 \oplus f2 = d.lease \oplus f
  <2>1. DOMAIN f1 = owner /\ DOMAIN f2 = asker
    OBVIOUS
  <2>2. DOMAIN f = F /\ \A l \in F : f[l] = IF l \in asker THEN f2[l] ELSE f1[l]
    OBVIOUS
  <2> HIDE DEF f, f1, f2, owner, asker
  <2> QED BY <1>1, <2>1, <2>2 DEF \oplus
<1>3. \A l \in asker : f[l] = Dropped(d.lease[l], "cancelled")
  OBVIOUS
<1>4. \A l \in owner : f[l] = Releasing(d.lease[l])
  OBVIOUS
<1>5. \A l \in asker : /\ l \in Leases /\ d.lease[l] \in LeaseRows
                       /\ d.lease[l].state \in LiveStates \ OwnerStates
  BY <1>1 DEF LiveStates, SlotStates, OwnerStates
<1>6. \A l \in owner : /\ l \in Leases /\ d.lease[l] \in LeaseRows
                       /\ d.lease[l].state \in OwnerStates
  BY <1>1 DEF OwnerStates
<1>7. DOMAIN f = F /\ end_terminal_task_leases(d) = refresh_session_state(d2, On(asker))
  BY DEF end_terminal_task_leases
<1>8. d1 = [d EXCEPT !.lease = @ \oplus f]
  BY <1>2
<1>8a. f = [l \in F |-> f[l]]
  OBVIOUS
<1> HIDE DEF f, f1, f2, owner, asker
<1>9. \A l \in asker : /\ f[l] \in LeaseRows /\ LeaseKept(d.lease[l], f[l])
  BY <1>3, <1>5, DroppedRow DEF EndStates
<1>10. \A l \in owner : /\ f[l] \in LeaseRows /\ LeaseKept(d.lease[l], f[l])
                        /\ f[l].state = "releasing"
  <2> TAKE l \in owner
  <2>1. /\ f[l] = Releasing(d.lease[l]) /\ d.lease[l] \in LeaseRows
        /\ d.lease[l].state \in OwnerStates
    BY <1>4, <1>6
  <2> QED BY <2>1, ReleasingRow
<1>11. f \in [F -> LeaseRows]
  BY <1>8a, <1>9, <1>10
<1>12. LeaseUpdate(d, F, f, {}, [l \in {} |-> d.rsv[l]])
  BY <1>5, <1>9, <1>10, <1>11 DEF LeaseUpdate, OwnerStates
<1>13. Passes(d, d1)
  BY <1>8, <1>12, LeaseOnlyPass
<1> HIDE DEF d1
<1>14. Passes(d1, d2)
  BY <1>13, BlockReusePasses DEF Passes
<1> HIDE DEF d2
<1>15. Passes(d2, end_terminal_task_leases(d))
  BY <1>7, <1>14, RefreshPasses DEF Passes
<1> QED
  BY <1>13, <1>14, <1>15, PassesCompose

LEMMA RequeueStaleOffers ==
    ASSUME NEW d, Sound(d)
    PROVE  Passes(d, requeue_stale_offers(d))
<1> DEFINE stale == {l \in Leases :
                       /\ d.lease[l].state = "offered"
                       /\ d.lease[l].aged \cap {"offer", "deadline", "expires"} = {"offer"}}
           back == {l \in stale : d.rsv[l].state = "consumed"}
           f == [l \in stale |-> Requeued(d.lease[l])]
           g == [l \in back |-> [d.rsv[l] EXCEPT !.state = "claimed"]]
           d1 == Rewritten(d, f, g)
           S == {d.lease[l].on : l \in stale}
<1>1. \A l \in Leases : d.lease[l] \in LeaseRows /\ d.rsv[l] \in RsvRows
  BY RowTypes DEF Sound
<1>2. \A l \in stale : d.lease[l].state = "offered" /\ "offered" \in LiveStates
  BY DEF LiveStates, SlotStates
<1>3. \A l \in stale : /\ f[l] \in LeaseRows /\ LeaseKept(d.lease[l], f[l])
                       /\ f[l].state = "queued"
  BY <1>1, <1>2, RequeuedRow
<1>4. \A l \in back : /\ g[l] \in RsvRows /\ g[l].on = d.rsv[l].on /\ g[l].state = "claimed"
                      /\ d.rsv[l].state = "consumed" /\ l \in stale
  BY <1>1, RsvRow
<1>5. f \in [stale -> LeaseRows] /\ g \in [back -> RsvRows]
  BY <1>3, <1>4
<1>6. requeue_stale_offers(d) = refresh_session_state(d1, S)
  BY DEF requeue_stale_offers, Rewritten
<1> HIDE DEF f, g, stale, back, S
<1>7. LeaseUpdate(d, stale, f, back, g)
  BY <1>2, <1>3, <1>4, <1>5 DEF LeaseUpdate, SlotStates, OwnerStates, PendingRsv
<1>8. Passes(d, d1)
  BY <1>7, LeasePass
<1> HIDE DEF d1
<1> QED
  BY <1>6, <1>8, RefreshPasses, PassesCompose DEF Passes

LEMMA LeaseQuarantineRow ==
    ASSUME NEW r \in SessionRows, ~Gone(r)
    PROVE  LET q == [Draining(r, "other") EXCEPT !.quar = "lease"]
           IN  q \in SessionRows /\ SessionKept(r, q) /\ (q.sealed <=> r.sealed)
<1> DEFINE p == Draining(r, "other")
           q == [p EXCEPT !.quar = "lease"]
<1>1. p \in SessionRows /\ SessionKept(r, p) /\ p.state = "draining" /\ (p.sealed <=> r.sealed)
  BY DrainingRow DEF Faulty
<1> HIDE DEF p
<1>2. q \in SessionRows
  BY <1>1 DEF SessionRows, Quarantines
<1>3. /\ q.gen = p.gen /\ q.token = p.token /\ q.silent = p.silent /\ q.sealed = p.sealed
      /\ q.state = "draining" /\ q.quar = "lease" /\ q.blocked = p.blocked
  BY <1>1 DEF SessionRows
<1> HIDE DEF q
<1>4. SessionKept(r, q)
  BY <1>1, <1>3 DEF SessionKept, Gone, Confined, Assignable
<1> QED
  BY <1>1, <1>2, <1>3, <1>4 DEF p, q

LEMMA ExpireLeases ==
    ASSUME NEW d, Sound(d)
    PROVE  Passes(d, expire_leases(d))
<1> DEFINE Expired(l) == \/ "expires" \in d.lease[l].aged
                         \/ "deadline" \in d.lease[l].aged
                            /\ d.lease[l].state \in {"queued", "offered"}
           In(S) == {l \in Leases : d.lease[l].state \in S /\ Expired(l)}
           On(L) == {d.lease[l].on : l \in L}
           f1 == [l \in In({"queued"}) |-> Ended(d.lease[l], "expired")]
           f2 == [l \in In({"offered"}) |-> Dropped(d.lease[l], "expired")]
           f3 == [l \in In({"attaching", "active"}) |-> Releasing(d.lease[l])]
           F == In({"queued"}) \cup In({"offered"}) \cup In({"attaching", "active"})
           f == [l \in F |-> IF d.lease[l].state = "queued" THEN f1[l]
                             ELSE IF d.lease[l].state = "offered" THEN f2[l] ELSE f3[l]]
           d1 == [d EXCEPT !.lease = @ \oplus f1 \oplus f2 \oplus f3]
           d2 == refresh_session_state(BlockReuse(d1, On(In({"attaching", "active"}))),
                                       On(In({"offered"})))
           hit == {s \in On(In({"active"})) : Recoverable(d2.sess[s])}
           h == [s \in hit |-> [Draining(d2.sess[s], "other") EXCEPT !.quar = "lease"]]
<1>1. d \in Databases /\ d.lease \in [Leases -> LeaseRows]
  BY DEF Sound, Databases
<1>2. d.lease \oplus f1 \oplus f2 \oplus f3 = d.lease \oplus f
  <2>1. DOMAIN f1 = In({"queued"}) /\ DOMAIN f2 = In({"offered"})
        /\ DOMAIN f3 = In({"attaching", "active"}) /\ DOMAIN f = F
    OBVIOUS
  <2>2. \A l \in In({"queued"}) : f[l] = f1[l] /\ l \notin In({"offered"}) /\ l \notin In({"attaching", "active"})
    OBVIOUS
  <2>3. \A l \in In({"offered"}) : f[l] = f2[l] /\ l \notin In({"attaching", "active"})
    OBVIOUS
  <2>4. \A l \in In({"attaching", "active"}) : f[l] = f3[l]
    OBVIOUS
  <2> HIDE DEF f, f1, f2, f3, In
  <2> QED BY <1>1, <2>1, <2>2, <2>3, <2>4 DEF \oplus
<1>3. ASSUME NEW l \in F
      PROVE  /\ f[l] \in LeaseRows /\ LeaseKept(d.lease[l], f[l])
             /\ d.lease[l].state \in OwnerStates => f[l].state \in OwnerStates
  <2>1. d.lease[l] \in LeaseRows
    BY <1>1
  <2>2. CASE d.lease[l].state = "queued"
    <3>1. f[l] = Ended(d.lease[l], "expired")
      BY <2>2
    <3> HIDE DEF f, F
    <3> QED BY <2>1, <2>2, <3>1, EndedRow DEF EndStates, LiveStates, SlotStates, OwnerStates
  <2>3. CASE d.lease[l].state = "offered"
    <3>1. f[l] = Dropped(d.lease[l], "expired")
      BY <2>3
    <3> HIDE DEF f, F
    <3> QED BY <2>1, <2>3, <3>1, DroppedRow DEF EndStates, LiveStates, SlotStates, OwnerStates
  <2>4. CASE d.lease[l].state \in {"attaching", "active"}
    <3>1. f[l] = Releasing(d.lease[l])
      BY <2>4
    <3> HIDE DEF f, F
    <3> QED BY <2>1, <2>4, <3>1, ReleasingRow DEF OwnerStates
  <2> QED BY <2>2, <2>3, <2>4
<1>4. f \in [F -> LeaseRows]
  BY <1>3
<1>5. d1 = [d EXCEPT !.lease = @ \oplus f]
  BY <1>2
<1>6. expire_leases(d) = [d2 EXCEPT !.sess = @ \oplus h] /\ DOMAIN h = hit
  BY DEF expire_leases
<1>7. LeaseUpdate(d, F, f, {}, [l \in {} |-> d.rsv[l]])
  <2> HIDE DEF f, F
  <2> QED BY <1>3, <1>4 DEF LeaseUpdate
<1> HIDE DEF f, f1, f2, f3, F
<1>8. Passes(d, d1)
  BY <1>5, <1>7, LeaseOnlyPass
<1> HIDE DEF d1, In
<1>9. Passes(d1, BlockReuse(d1, On(In({"attaching", "active"}))))
  BY <1>8, BlockReusePasses DEF Passes
<1>10. Passes(BlockReuse(d1, On(In({"attaching", "active"}))), d2)
  BY <1>9, RefreshPasses DEF Passes
<1>11. Passes(d, d2)
  BY <1>8, <1>9, <1>10, PassesCompose
<1> HIDE DEF d2
<1>12. \A s \in hit \cap Sessions : d2.sess[s] \in SessionRows /\ ~Gone(d2.sess[s])
  BY <1>11, RowTypes DEF Passes, Sound, Recoverable, Gone, Assignable
<1>13. \A s \in hit \cap Sessions : /\ h[s] \in SessionRows /\ SessionKept(d2.sess[s], h[s])
                                    /\ d2.sess[s].sealed => h[s].sealed
  BY <1>12, LeaseQuarantineRow
<1> HIDE DEF h, hit
<1>14. Passes(d2, expire_leases(d))
  BY <1>6, <1>11, <1>13, SessionPass DEF Passes
<1> QED
  BY <1>11, <1>14, PassesCompose

LEMMA ExpireSessionHeartbeats ==
    ASSUME NEW d, Sound(d)
    PROVE  Passes(d, expire_session_heartbeats(d))
<1> DEFINE hit == {s \in Sessions : /\ d.sess[s].state \in Assignable \cup {"draining"}
                                    /\ d.sess[s].silent > 0}
           h == [s \in hit |-> Unhealthy(d.sess[s], IF d.sess[s].state = "draining"
                                                    THEN "other" ELSE "timeout")]
<1>1. \A s \in Sessions : d.sess[s] \in SessionRows
  BY RowTypes DEF Sound
<1>2. \A s \in hit : /\ h[s] \in SessionRows /\ SessionKept(d.sess[s], h[s])
                     /\ d.sess[s].sealed => h[s].sealed
  <2> TAKE s \in hit
  <2> DEFINE why == IF d.sess[s].state = "draining" THEN "other" ELSE "timeout"
  <2>1. /\ d.sess[s] \in SessionRows /\ ~Gone(d.sess[s]) /\ why \in Faulty
        /\ h[s] = Unhealthy(d.sess[s], why)
    BY <1>1 DEF Gone, Assignable, Faulty
  <2> HIDE DEF why, h
  <2> QED BY <2>1, UnhealthyRow
<1>3. expire_session_heartbeats(d) = [d EXCEPT !.sess = @ \oplus h] /\ DOMAIN h = hit
  BY DEF expire_session_heartbeats
<1> HIDE DEF h, hit
<1> QED
  BY <1>2, <1>3, SessionPass

LEMMA ExpireSessionStarts ==
    ASSUME NEW d, Sound(d)
    PROVE  Passes(d, expire_session_starts(d))
<1> DEFINE hit == {s \in Sessions : d.sess[s].state = "starting" /\ d.sess[s].silent > 0}
           h == [s \in hit |-> Unhealthy(d.sess[s], "start")]
<1>1. \A s \in Sessions : d.sess[s] \in SessionRows
  BY RowTypes DEF Sound
<1>2. \A s \in hit : /\ h[s] \in SessionRows /\ SessionKept(d.sess[s], h[s])
                     /\ d.sess[s].sealed => h[s].sealed
  BY <1>1, UnhealthyRow DEF Gone, Faulty
<1>3. expire_session_starts(d) = [d EXCEPT !.sess = @ \oplus h] /\ DOMAIN h = hit
  BY DEF expire_session_starts
<1> HIDE DEF h, hit
<1> QED
  BY <1>2, <1>3, SessionPass

LEMMA LostAckRow ==
    ASSUME NEW r \in SessionRows, ~Gone(r)
    PROVE  LET q == [Unhealthy(r, "other") EXCEPT !.quar = "ack_lost", !.blocked = Blocked(@)]
           IN  /\ q \in SessionRows /\ SessionKept(r, q) /\ (q.sealed <=> r.sealed)
               /\ Confined(q) /\ q.silent = r.silent
<1> DEFINE p == Unhealthy(r, "other")
           q == [p EXCEPT !.quar = "ack_lost", !.blocked = Blocked(@)]
<1>1. /\ p \in SessionRows /\ SessionKept(r, p) /\ p.state = "unhealthy"
      /\ (p.sealed <=> r.sealed) /\ p.blocked = r.blocked
  BY UnhealthyRow DEF Faulty
<1> HIDE DEF p
<1>2. q \in SessionRows
  BY <1>1 DEF SessionRows, Quarantines, Blocked
<1>3. /\ q.gen = p.gen /\ q.token = p.token /\ q.silent = p.silent /\ q.sealed = p.sealed
      /\ q.state = "unhealthy" /\ q.quar = "ack_lost" /\ q.blocked = Blocked(p.blocked)
  BY <1>1 DEF SessionRows
<1> HIDE DEF q
<1>4. SessionKept(r, q)
  BY <1>1, <1>3 DEF SessionKept, Gone, Confined, Assignable
<1> QED
  BY <1>1, <1>2, <1>3, <1>4 DEF p, q, Confined, SessionKept

LEMMA FailUnacknowledgedReleases ==
    ASSUME NEW d, Sound(d)
    PROVE  Passes(d, fail_unacknowledged_releases(d))
<1> DEFINE lost == {l \in Leases : d.lease[l].state = "releasing" /\ "release" \in d.lease[l].aged}
           silent == {s \in Sessions : d.sess[s].state = "unhealthy" /\ d.sess[s].silent > 0}
           gone == {s \in Sessions : d.sess[s].state \in {"closed", "failed"}}
           tainted == {s \in silent : \E l \in lost : d.lease[l].on = s}
           failed == {l \in lost : d.lease[l].on \in silent \cup gone \cup {NoSession}}
           h == [s \in tainted |-> [Unhealthy(d.sess[s], "other") EXCEPT
                                      !.quar = "ack_lost", !.blocked = Blocked(@)]]
           f == [l \in failed |-> Ended(d.lease[l], "failed")]
           d1 == [d EXCEPT !.sess = @ \oplus h]
<1>1. d \in Databases
  BY DEF Sound
<1>2. \A l \in Leases : d.lease[l] \in LeaseRows
  BY <1>1, RowTypes
<1>3. \A s \in tainted : /\ h[s] \in SessionRows /\ SessionKept(d.sess[s], h[s])
                         /\ d.sess[s].sealed => h[s].sealed
                         /\ Confined(h[s]) /\ h[s].silent > 0
  <2> TAKE s \in tainted
  <2>1. d.sess[s] \in SessionRows /\ ~Gone(d.sess[s]) /\ d.sess[s].silent > 0
    BY <1>1, RowTypes DEF Gone
  <2> QED BY <2>1, LostAckRow
<1>4. DOMAIN h = tainted
  OBVIOUS
<1>5. fail_unacknowledged_releases(d) = [d EXCEPT !.sess = @ \oplus h, !.lease = @ \oplus f]
  BY DEF fail_unacknowledged_releases
<1>6. \A s \in Sessions : d1.sess[s] = IF s \in tainted THEN h[s] ELSE d.sess[s]
  <2>1. d1.sess = d.sess \oplus h /\ d.sess \in [Sessions -> SessionRows]
    BY <1>1 DEF Databases
  <2> HIDE DEF d1, h, tainted
  <2> QED BY <1>4, <2>1 DEF \oplus
<1>7. d1.lease = d.lease /\ d1.rsv = d.rsv
  BY <1>1 DEF Databases
<1>8. \A l \in failed : /\ f[l] \in LeaseRows /\ LeaseKept(d.lease[l], f[l])
                        /\ f[l].state = "failed"
  BY <1>2, EndedRow DEF EndStates, LiveStates, SlotStates, OwnerStates
<1>9. f \in [failed -> LeaseRows]
  BY <1>8
<1>10. \A l \in failed : \/ Gone(d1.sess[d.lease[l].on])
                         \/ (Confined(d1.sess[d.lease[l].on]) /\ d1.sess[d.lease[l].on].silent > 0)
  <2> SUFFICES ASSUME NEW l \in failed
               PROVE  \/ Gone(d1.sess[d.lease[l].on])
                      \/ (Confined(d1.sess[d.lease[l].on]) /\ d1.sess[d.lease[l].on].silent > 0)
    OBVIOUS
  <2>1. d.lease[l].on \in Sessions
    BY DEF Sound, LeaseSound, SlotStates, OwnerStates
  <2>2. d.lease[l].on \in silent \/ d.lease[l].on \in gone
    BY <2>1
  <2>3. CASE d.lease[l].on \in silent
    <3>1. d.lease[l].on \in tainted
      BY <2>3
    <3> HIDE DEF h, d1, tainted
    <3> QED BY <1>3, <1>6, <2>1, <3>1
  <2>4. CASE d.lease[l].on \in gone
    <3>1. d.lease[l].on \notin tainted
      BY <2>4
    <3> HIDE DEF h, d1, tainted
    <3> QED BY <1>6, <2>1, <2>4, <3>1 DEF Gone
  <2> QED BY <2>2, <2>3, <2>4
<1>11. [d1 EXCEPT !.lease = @ \oplus f] = fail_unacknowledged_releases(d)
  <2> HIDE DEF h, f
  <2> QED BY <1>1, <1>5 DEF Databases
<1> HIDE DEF h, f, tainted, failed
<1>12. Passes(d, d1)
  BY <1>3, <1>4, SessionPass
<1> HIDE DEF d1
<1>13. LeaseUpdate(d1, failed, f, {}, [l \in {} |-> d1.rsv[l]])
  BY <1>7, <1>8, <1>9, <1>10 DEF LeaseUpdate
<1>14. Passes(d1, fail_unacknowledged_releases(d))
  BY <1>11, <1>12, <1>13, LeaseOnlyPass DEF Passes
<1> QED
  BY <1>12, <1>14, PassesCompose

LEMMA RecycleAllocations ==
    ASSUME NEW d, Sound(d)
    PROVE  Passes(d, recycle_allocations(d))
<1> DEFINE Tainted(s) == /\ d.sess[s].state # "none"
                         /\ \/ d.sess[s].quar # ""
                            \/ d.sess[s].state = "unhealthy" /\ d.sess[s].over
           hit == {a \in Allocs : d.alloc[a].state # "closed"
                                  /\ \E s \in Sessions : Node[s] = a /\ Tainted(s)}
           g == [a \in hit |->
                   [d.alloc[a] EXCEPT !.why = IF ~Open(d, a) /\ @ # "demand" THEN @ ELSE "unhealthy",
                                      !.state = "draining"]]
<1>1. d.alloc \in [Allocs -> AllocRows]
  BY DEF Sound, Databases
<1>2. \A a \in hit : g[a] \in AllocRows
  BY <1>1 DEF AllocRows, DrainReasons
<1>3. recycle_allocations(d) = [d EXCEPT !.alloc = @ \oplus g] /\ DOMAIN g = hit
  BY DEF recycle_allocations
<1> HIDE DEF g, hit
<1>4. d.alloc \oplus g \in [Allocs -> AllocRows]
  BY <1>1, <1>2, <1>3 DEF \oplus
<1> QED
  BY <1>3, <1>4, AllocPass

LEMMA ReapStaleUnhealthy ==
    ASSUME NEW d, Sound(d)
    PROVE  Passes(d, reap_stale_unhealthy(d))
<1> DEFINE stale == {s \in Sessions :
                       /\ d.sess[s].state = "unhealthy" /\ d.sess[s].over
                       /\ \/ /\ d.sess[s].why = "native" \/ d.sess[s].quar = "death"
                             /\ Occupants(d, s) = {}
                          \/ d.sess[s].silent = 2}
           F == UNION {Occupants(d, s) : s \in stale}
           f == [l \in F |-> Ended(d.lease[l], "failed")]
           h == [s \in stale |-> [d.sess[s] EXCEPT !.state = "failed"]]
           d1 == [d EXCEPT !.sess = @ \oplus h]
<1>1. d \in Databases
  BY DEF Sound
<1>2. \A s \in stale : /\ h[s] \in SessionRows /\ SessionKept(d.sess[s], h[s])
                       /\ d.sess[s].sealed => h[s].sealed
                       /\ Gone(h[s])
  <2> SUFFICES ASSUME NEW s \in stale
               PROVE  /\ h[s] \in SessionRows /\ SessionKept(d.sess[s], h[s])
                      /\ d.sess[s].sealed => h[s].sealed
                      /\ Gone(h[s])
    OBVIOUS
  <2> DEFINE r == d.sess[s]
             q == [r EXCEPT !.state = "failed"]
  <2>1. r \in SessionRows /\ h[s] = q
    BY <1>1, RowTypes
  <2> HIDE DEF r, h
  <2>2. q \in SessionRows
    BY <2>1 DEF SessionRows
  <2>3. /\ q.gen = r.gen /\ q.token = r.token /\ q.silent = r.silent /\ q.sealed = r.sealed
        /\ q.state = "failed" /\ q.quar = r.quar /\ q.blocked = r.blocked
    BY <2>1 DEF SessionRows
  <2> HIDE DEF q
  <2>4. SessionKept(r, q) /\ Gone(q)
    BY <2>3 DEF SessionKept, Gone, Confined, Assignable
  <2> QED BY <2>1, <2>2, <2>3, <2>4 DEF r
<1>3. DOMAIN h = stale
  OBVIOUS
<1>4. \A l \in F : /\ l \in Leases /\ d.lease[l] \in LeaseRows
                   /\ d.lease[l].state \in SlotStates /\ d.lease[l].on \in stale
  BY <1>1, RowTypes DEF Occupants
<1>5. \A l \in F : /\ f[l] \in LeaseRows /\ LeaseKept(d.lease[l], f[l])
  <2> TAKE l \in F
  <2>1. f[l] = Ended(d.lease[l], "failed") /\ d.lease[l] \in LeaseRows /\ d.lease[l].state \in LiveStates
    BY <1>4 DEF LiveStates
  <2> HIDE DEF f, F
  <2> QED BY <2>1, EndedRow DEF EndStates
<1>6. f \in [F -> LeaseRows]
  BY <1>5
<1>7. reap_stale_unhealthy(d) = [d EXCEPT !.lease = @ \oplus f, !.sess = @ \oplus h]
  BY DEF reap_stale_unhealthy
<1> HIDE DEF f, h, F, stale
<1>8. \A s \in Sessions : d1.sess[s] = IF s \in stale THEN h[s] ELSE d.sess[s]
  <2>1. d1.sess = d.sess \oplus h /\ d.sess \in [Sessions -> SessionRows]
    BY <1>1 DEF Databases
  <2> HIDE DEF d1
  <2> QED BY <1>3, <2>1 DEF \oplus
<1>9. d1.lease = d.lease
  BY <1>1 DEF Databases
<1>10. \A l \in F : Gone(d1.sess[d.lease[l].on])
  <2>1. \A l \in F : d.lease[l].on \in Sessions
    BY <1>4 DEF Sound, LeaseSound
  <2> HIDE DEF d1
  <2> QED BY <1>2, <1>4, <1>8, <2>1
<1>11. [d1 EXCEPT !.lease = @ \oplus f] = reap_stale_unhealthy(d)
  BY <1>1, <1>7 DEF Databases
<1>12. Passes(d, d1)
  BY <1>2, <1>3, SessionPass
<1> HIDE DEF d1
<1>13. LeaseUpdate(d1, F, f, {}, [l \in {} |-> d1.rsv[l]])
  BY <1>5, <1>6, <1>9, <1>10 DEF LeaseUpdate
<1>14. Passes(d1, reap_stale_unhealthy(d))
  BY <1>11, <1>12, <1>13, LeaseOnlyPass DEF Passes
<1> QED
  BY <1>12, <1>14, PassesCompose

LEMMA RecoverAllocations ==
    ASSUME NEW d, Sound(d)
    PROVE  Passes(d, recover_allocations(d))
<1> DEFINE On(a) == {s \in Sessions : Node[s] = a}
           Sick(s) == \/ d.sess[s].state = "unhealthy"
                      \/ d.sess[s].state \in Visible /\ d.sess[s].quar # ""
           back == {a \in Allocs : /\ d.alloc[a].state = "draining"
                                   /\ d.alloc[a].why \in {"faulted", "unhealthy"}
                                   /\ \E s \in On(a) : d.sess[s].state \in Assignable
                                   /\ \A s \in On(a) : ~Sick(s)}
           hit == {s \in Sessions : Node[s] \in back /\ d.sess[s].state \in Assignable}
           g == [a \in back |-> [d.alloc[a] EXCEPT !.state = "active", !.why = "demand"]]
           h == [s \in hit |-> [d.sess[s] EXCEPT !.drain = FALSE]]
           d1 == [d EXCEPT !.alloc = @ \oplus g]
<1>1. d \in Databases /\ d.alloc \in [Allocs -> AllocRows]
  BY DEF Sound, Databases
<1>2. \A a \in back : g[a] \in AllocRows
  BY <1>1 DEF AllocRows, DrainReasons
<1>3. DOMAIN g = back /\ DOMAIN h = hit
  OBVIOUS
<1>4. recover_allocations(d) = [d EXCEPT !.alloc = @ \oplus g, !.sess = @ \oplus h]
  BY DEF recover_allocations
<1>5. \A s \in hit : /\ h[s] \in SessionRows /\ SessionKept(d.sess[s], h[s])
                     /\ d.sess[s].sealed => h[s].sealed
  <2> SUFFICES ASSUME NEW s \in hit
               PROVE  /\ h[s] \in SessionRows /\ SessionKept(d.sess[s], h[s])
                      /\ d.sess[s].sealed => h[s].sealed
    OBVIOUS
  <2> DEFINE r == d.sess[s]
             q == [r EXCEPT !.drain = FALSE]
  <2>1. r \in SessionRows /\ h[s] = q
    BY <1>1, RowTypes
  <2> HIDE DEF r, h
  <2>2. q \in SessionRows
    BY <2>1 DEF SessionRows
  <2>3. /\ q.gen = r.gen /\ q.token = r.token /\ q.silent = r.silent /\ q.sealed = r.sealed
        /\ q.state = r.state /\ q.quar = r.quar /\ q.blocked = r.blocked
    BY <2>1 DEF SessionRows
  <2> HIDE DEF q
  <2>4. SessionKept(r, q)
    BY <2>3 DEF SessionKept, Gone, Confined
  <2> QED BY <2>1, <2>2, <2>3, <2>4 DEF r
<1> HIDE DEF g, h, back, hit
<1>6. d.alloc \oplus g \in [Allocs -> AllocRows]
  BY <1>1, <1>2, <1>3 DEF \oplus
<1>7. Passes(d, d1)
  BY <1>6, AllocPass
<1>8. d1.sess = d.sess /\ d1.lease = d.lease /\ recover_allocations(d) = [d1 EXCEPT !.sess = @ \oplus h]
  BY <1>1, <1>4 DEF Databases
<1> HIDE DEF d1
<1>9. Passes(d1, recover_allocations(d))
  BY <1>3, <1>5, <1>7, <1>8, SessionPass DEF Passes
<1> QED
  BY <1>7, <1>9, PassesCompose

(* A row that only leaves the ready or the planned state.                  *)
LEMMA LeavingRow ==
    ASSUME NEW r \in SessionRows, NEW q, q \in SessionRows,
           ~Gone(r), ~Confined(r), q.state \notin Assignable,
           q.gen = r.gen /\ q.token = r.token /\ q.silent = r.silent
             /\ q.sealed = r.sealed /\ q.blocked = r.blocked
    PROVE  SessionKept(r, q)
BY DEF SessionKept

LEMMA DrainIdle ==
    ASSUME NEW d, Sound(d)
    PROVE  Passes(d, drain_idle_on_closed_nodes(d))
<1> DEFINE hit == {s \in Sessions : d.sess[s].state = "ready" /\ ~Open(d, Node[s])}
           h == [s \in hit |-> [d.sess[s] EXCEPT !.state = "draining", !.drain = TRUE]]
<1>1. drain_idle_on_closed_nodes(d) = [d EXCEPT !.sess = @ \oplus h] /\ DOMAIN h = hit
  BY DEF drain_idle_on_closed_nodes
<1>2. ASSUME NEW s \in hit
      PROVE  h[s] \in SessionRows /\ SessionKept(d.sess[s], h[s]) /\ (d.sess[s].sealed => h[s].sealed)
  <2> DEFINE r == d.sess[s]
             q == [r EXCEPT !.state = "draining", !.drain = TRUE]
  <2>1. r \in SessionRows /\ r.state = "ready" /\ h[s] = q
    BY RowTypes DEF Sound
  <2> HIDE DEF r, h
  <2>2. q \in SessionRows
    BY <2>1 DEF SessionRows, Visible
  <2>3. /\ q.gen = r.gen /\ q.token = r.token /\ q.silent = r.silent /\ q.sealed = r.sealed
        /\ q.blocked = r.blocked /\ q.state = "draining"
    BY <2>1 DEF SessionRows
  <2> HIDE DEF q
  <2>4. SessionKept(r, q)
    BY <2>1, <2>2, <2>3, LeavingRow DEF Gone, Confined, Assignable
  <2> QED BY <2>1, <2>2, <2>3, <2>4 DEF r
<1> HIDE DEF h, hit
<1> QED
  BY <1>1, <1>2, SessionPass

LEMMA CarryOutPlan ==
    ASSUME NEW d, Sound(d), NEW R \in SUBSET Drainable(d), NEW P \in SUBSET Startable(d)
    PROVE  Passes(d, carry_out_plan(d, R, P))
<1> DEFINE h1 == [s \in R |-> [d.sess[s] EXCEPT !.state = "draining", !.drain = TRUE, !.over = FALSE]]
           h2 == [s \in P |-> [d.sess[s] EXCEPT !.state = "starting"]]
           H == R \cup P
           h == [s \in H |-> IF s \in P THEN h2[s] ELSE h1[s]]
<1>1. carry_out_plan(d, R, P) = [d EXCEPT !.sess = @ \oplus h1 \oplus h2]
  BY DEF carry_out_plan
<1>2. /\ \A s \in R : s \in Sessions /\ d.sess[s].state \in Assignable
      /\ \A s \in P : s \in Sessions /\ d.sess[s].state = "none"
  BY DEF Drainable, Startable
<1>3. d \in Databases /\ d.sess \in [Sessions -> SessionRows]
  BY DEF Sound, Databases
<1>4. ASSUME NEW s \in H
      PROVE  h[s] \in SessionRows /\ SessionKept(d.sess[s], h[s]) /\ (d.sess[s].sealed => h[s].sealed)
  <2> DEFINE r == d.sess[s]
             q1 == [r EXCEPT !.state = "draining", !.drain = TRUE, !.over = FALSE]
             q2 == [r EXCEPT !.state = "starting"]
  <2>1. r \in SessionRows /\ ~Gone(r) /\ ~Confined(r)
    BY <1>2, <1>3 DEF Gone, Confined, Assignable
  <2>2. h[s] = q1 \/ h[s] = q2
    OBVIOUS
  <2> HIDE DEF r, h
  <2>3. q1 \in SessionRows /\ q2 \in SessionRows
    BY <2>1 DEF SessionRows, Visible
  <2>4. /\ q1.gen = r.gen /\ q1.token = r.token /\ q1.silent = r.silent /\ q1.sealed = r.sealed
        /\ q1.blocked = r.blocked /\ q1.state = "draining"
    BY <2>1 DEF SessionRows
  <2>5. /\ q2.gen = r.gen /\ q2.token = r.token /\ q2.silent = r.silent /\ q2.sealed = r.sealed
        /\ q2.blocked = r.blocked /\ q2.state = "starting"
    BY <2>1 DEF SessionRows
  <2> HIDE DEF q1, q2
  <2>6. SessionKept(r, q1) /\ SessionKept(r, q2)
    BY <2>1, <2>3, <2>4, <2>5, LeavingRow DEF Assignable
  <2> QED BY <2>2, <2>3, <2>4, <2>5, <2>6 DEF r
<1>5. d.sess \oplus h1 \oplus h2 = d.sess \oplus h
  <2>1. DOMAIN h1 = R /\ DOMAIN h2 = P /\ DOMAIN h = H
    OBVIOUS
  <2>2. \A s \in H : h[s] = IF s \in P THEN h2[s] ELSE h1[s]
    OBVIOUS
  <2> HIDE DEF h, h1, h2
  <2> QED BY <1>3, <2>1, <2>2 DEF \oplus
<1>6. DOMAIN h = H
  OBVIOUS
<1> HIDE DEF h, h1, h2, H
<1>7. Passes(d, [d EXCEPT !.sess = @ \oplus h])
  BY <1>4, <1>6, SessionPass
<1> QED
  BY <1>1, <1>5, <1>7

LEMMA ReapOwnershipPasses ==
    ASSUME NEW d, Sound(d), NEW blocked, NEW pressed
    PROVE  Passes(d, ReapOwnership(d, blocked, pressed))
<1> DEFINE e0 == refresh_zero_owner_draining_sessions(d)
           e1 == refresh_exact_session_reservations(e0)
           d1 == refresh_zero_owner_draining_sessions(e1)
           d2 == IF enabled THEN fail_blocked_starts(d1, blocked) ELSE d1
           d3 == IF enabled THEN storage_pressure_drain(d2, pressed) ELSE d2
           e3 == age_rotation(d3)
           d4 == end_terminal_task_leases(e3)
           e4 == requeue_stale_offers(d4)
           d5 == expire_leases(e4)
           e5 == expire_session_heartbeats(d5)
           d6 == fail_unacknowledged_releases(e5)
           e6 == expire_session_starts(d6)
           f6 == recycle_allocations(e6)
           d7 == reap_stale_unhealthy(f6)
           e7 == recover_allocations(d7)
           d8 == drain_idle_on_closed_nodes(e7)
<1>1. Passes(d, e0)
  BY ZeroOwnerPasses
<1>2. ReapOwnership(d, blocked, pressed) = d8
  BY DEF ReapOwnership
<1> HIDE DEF d8
<1>3. Passes(e0, e1)
  BY <1>1, RefreshExact DEF Passes
<1>4. Passes(e1, d1)
  BY <1>3, ZeroOwnerPasses DEF Passes
<1> HIDE DEF e0, e1, d1
<1>5. Passes(d1, d2)
  BY <1>4, FailBlockedStarts, PassesNothing DEF Passes
<1> HIDE DEF d2
<1>6. Passes(d2, d3)
  BY <1>5, StoragePressureDrain, PassesNothing DEF Passes
<1> HIDE DEF d3
<1>7. Passes(d3, e3)
  BY <1>6, AgeRotation DEF Passes
<1> HIDE DEF e3
<1>8. Passes(e3, d4)
  BY <1>7, EndTerminalTaskLeases DEF Passes
<1> HIDE DEF d4
<1>9. Passes(d4, e4)
  BY <1>8, RequeueStaleOffers DEF Passes
<1> HIDE DEF e4
<1>10. Passes(e4, d5)
  BY <1>9, ExpireLeases DEF Passes
<1> HIDE DEF d5
<1>11. Passes(d5, e5)
  BY <1>10, ExpireSessionHeartbeats DEF Passes
<1> HIDE DEF e5
<1>12. Passes(e5, d6)
  BY <1>11, FailUnacknowledgedReleases DEF Passes
<1> HIDE DEF d6
<1>13. Passes(d6, e6)
  BY <1>12, ExpireSessionStarts DEF Passes
<1> HIDE DEF e6
<1>14. Passes(e6, f6)
  BY <1>13, RecycleAllocations DEF Passes
<1> HIDE DEF f6
<1>15. Passes(f6, d7)
  BY <1>14, ReapStaleUnhealthy DEF Passes
<1> HIDE DEF d7
<1>16. Passes(d7, e7)
  BY <1>15, RecoverAllocations DEF Passes
<1> HIDE DEF e7
<1>17. Passes(e7, d8)
  BY <1>16, DrainIdle DEF Passes, d8
<1>18. Passes(d, d1)
  BY <1>1, <1>3, <1>4, PassesCompose
<1>19. Passes(d, d3)
  BY <1>5, <1>6, <1>18, PassesCompose
<1>20. Passes(d, d4)
  BY <1>7, <1>8, <1>19, PassesCompose
<1>21. Passes(d, d5)
  BY <1>9, <1>10, <1>20, PassesCompose
<1>22. Passes(d, d6)
  BY <1>11, <1>12, <1>21, PassesCompose
<1>23. Passes(d, d7)
  <2>1. Passes(d, e6)
    BY <1>13, <1>22, PassesCompose
  <2>2. Passes(d, f6)
    BY <2>1, <1>14, PassesCompose
  <2> QED BY <2>2, <1>15, PassesCompose
<1>24. Passes(d, e7)
  BY <1>16, <1>23, PassesCompose
<1> QED
  BY <1>2, <1>17, <1>24, PassesCompose

-----------------------------------------------------------------------------
(* What outlives a pass: slots, permits and owners.                        *)

(* Everyone who counts against the slots of a Desktop.                     *)
Load(d, s) == Occupants(d, s) \cup Held(d, s)

Fits(d) == \A s \in Sessions : Cardinality(Load(d, s)) <= slots_total

Permits(d, s) == {l \in Occupants(d, s) : d.lease[l].permit > 0}

(* No slot is taken and no permit granted; requests and offers are         *)
(* possible.                                                               *)
CalmLease(r, q) ==
    /\ r.exact => q.exact
    /\ r.state # "none" => (q.exact <=> r.exact)
    /\ q.permit = 0 \/ q.permit = r.permit
    /\ q.state \in OwnerStates => /\ r.state \in OwnerStates
                                  /\ q.on = r.on /\ q.permit = r.permit
    /\ q.state \in {"attaching", "active"} => r.state \in {"attaching", "active"}
    /\ q.state = "none" => r.state = "none"

Calm(d, e) ==
    /\ \A l \in Leases : CalmLease(d.lease[l], e.lease[l])
    /\ \A s \in Sessions : SessionKept(d.sess[s], e.sess[s])
    /\ \A l \in Leases : OwnerKept(d, e, l)

Calms(d, e) == Sound(e) /\ Calm(d, e) /\ (Fits(d) => Fits(e))

LEMMA LoadIsSum ==
    ASSUME NEW d, Sound(d), NEW s
    PROVE  /\ IsFiniteSet(Load(d, s))
           /\ Cardinality(Load(d, s)) = Cardinality(Occupants(d, s)) + Cardinality(Held(d, s))
<1>1. IsFiniteSet(Occupants(d, s)) /\ IsFiniteSet(Held(d, s))
  BY FS_Subset DEF Occupants, Held
<1>2. Occupants(d, s) \cap Held(d, s) = {}
  BY DEF Sound, RsvSound, Occupants, Held
<1>3. Cardinality(Occupants(d, s) \cap Held(d, s)) = 0
  BY <1>2, FS_EmptySet
<1>4. Cardinality(Occupants(d, s)) \in Nat /\ Cardinality(Held(d, s)) \in Nat
  BY <1>1, FS_CardinalityType
<1> QED
  <2>1. IsFiniteSet(Occupants(d, s) \cup Held(d, s))
    BY <1>1, FS_Union
  <2>2. Cardinality(Occupants(d, s) \cup Held(d, s))
          = Cardinality(Occupants(d, s)) + Cardinality(Held(d, s))
              - Cardinality(Occupants(d, s) \cap Held(d, s))
    BY <1>1, FS_Union
  <2> QED
    BY <1>3, <1>4, <2>1, <2>2 DEF Load

LEMMA PassesLoad ==
    ASSUME NEW d, Sound(d), NEW e, Passes(d, e), NEW s
    PROVE  Load(e, s) \subseteq Load(d, s)
<1>1. Occupants(e, s) \subseteq Occupants(d, s)
  BY Shrinks DEF Passes
<1>2. ASSUME NEW l \in Held(e, s)
      PROVE  l \in Load(d, s)
  <2>1. l \in Leases /\ e.rsv[l].on = s /\ e.rsv[l].state \in PendingRsv
    BY DEF Held
  <2>2. RsvKept(d.rsv[l], e.rsv[l], d.lease[l], e.lease[l]) /\ RsvSound(d, l)
    BY <2>1 DEF Passes, Quiet, Sound
  <2> QED
    BY <2>1, <2>2 DEF RsvKept, RsvSound, Load, Held, Occupants
<1> QED
  BY <1>1, <1>2 DEF Load

LEMMA FitsByLoad ==
    ASSUME NEW d, Sound(d), NEW e, Fits(d),
           \A s \in Sessions : Load(e, s) \subseteq Load(d, s)
    PROVE  Fits(e)
<1> SUFFICES ASSUME NEW s \in Sessions PROVE Cardinality(Load(e, s)) <= slots_total
  BY DEF Fits
<1>1. IsFiniteSet(Load(d, s))
  BY LoadIsSum
<1>2. Cardinality(Load(e, s)) <= Cardinality(Load(d, s)) /\ IsFiniteSet(Load(e, s))
  BY <1>1, FS_Subset
<1>3. Cardinality(Load(e, s)) \in Nat /\ Cardinality(Load(d, s)) \in Nat
  BY <1>1, <1>2, FS_CardinalityType
<1>4. Cardinality(Load(d, s)) <= slots_total
  BY DEF Fits
<1>5. slots_total \in Nat
  BY DEF slots_total
<1> QED
  BY <1>2, <1>3, <1>4, <1>5

LEMMA PassesAreCalm ==
    ASSUME NEW d, Sound(d), NEW e, Passes(d, e)
    PROVE  Calms(d, e)
<1>1. Fits(d) => Fits(e)
  BY PassesLoad, FitsByLoad
<1>2. \A l \in Leases : CalmLease(d.lease[l], e.lease[l])
  <2> TAKE l \in Leases
  <2>1. LeaseKept(d.lease[l], e.lease[l])
    BY DEF Passes, Quiet
  <2> QED BY <2>1 DEF LeaseKept, CalmLease, SlotStates, OwnerStates
<1> QED
  BY <1>1, <1>2 DEF Calms, Calm, Passes, Quiet

LEMMA CalmComposes ==
    ASSUME NEW d, Sound(d), NEW e, Sound(e), NEW f, Calms(d, e), Calms(e, f)
    PROVE  Calms(d, f)
<1>1. ASSUME NEW l \in Leases PROVE CalmLease(d.lease[l], f.lease[l])
  <2>1. CalmLease(d.lease[l], e.lease[l]) /\ CalmLease(e.lease[l], f.lease[l])
    BY DEF Calms, Calm
  <2>2. LeaseSound(e, l)
    BY DEF Sound
  <2> QED BY <2>1, <2>2 DEF CalmLease, LeaseSound, OwnerStates, SlotStates
<1>2. \A s \in Sessions : SessionKept(d.sess[s], f.sess[s])
  BY SessionKeptComposes DEF Calms, Calm
<1>3. ASSUME NEW l \in Leases, ~d.lease[l].exact, d.lease[l].state \in OwnerStates
      PROVE  \/ f.lease[l].state \in OwnerStates
             \/ Gone(f.sess[d.lease[l].on])
             \/ (Confined(f.sess[d.lease[l].on]) /\ d.sess[d.lease[l].on].silent > 0)
  <2> DEFINE s == d.lease[l].on
  <2>1. s \in Sessions
    BY <1>3 DEF SlotStates, Sound, LeaseSound
  <2>2. SessionKept(d.sess[s], e.sess[s]) /\ SessionKept(e.sess[s], f.sess[s])
    BY <2>1 DEF Calms, Calm
  <2>3. \/ e.lease[l].state \in OwnerStates
        \/ Gone(e.sess[s])
        \/ (Confined(e.sess[s]) /\ d.sess[s].silent > 0)
    BY <1>3 DEF Calms, Calm, OwnerKept
  <2>4. CASE e.lease[l].state \in OwnerStates
    <3>1. e.lease[l].on = s /\ ~e.lease[l].exact
      BY <1>3, <2>4 DEF Calms, Calm, CalmLease, OwnerStates
    <3> QED
      BY <2>2, <2>4, <3>1 DEF Calms, Calm, OwnerKept, SessionKept
  <2>5. CASE Gone(e.sess[s])
    BY <2>2, <2>5 DEF SessionKept
  <2>6. CASE Confined(e.sess[s]) /\ d.sess[s].silent > 0
    BY <2>2, <2>6 DEF SessionKept
  <2> QED
    BY <2>3, <2>4, <2>5, <2>6
<1> QED
  BY <1>1, <1>2, <1>3 DEF Calms, Calm, OwnerKept

-----------------------------------------------------------------------------
(* Placement.                                                              *)

LEMMA RewrittenRows ==
    ASSUME NEW d \in Databases,
           NEW F, NEW f \in [F -> LeaseRows], NEW G, NEW g \in [G -> RsvRows]
    PROVE  LET e == Rewritten(d, f, g)
           IN  /\ e \in Databases
               /\ e.task = d.task /\ e.sess = d.sess
               /\ \A l \in Leases : e.lease[l] = IF l \in F THEN f[l] ELSE d.lease[l]
               /\ \A l \in Leases : e.rsv[l] = IF l \in G THEN g[l] ELSE d.rsv[l]
<1> DEFINE e == [d EXCEPT !.lease = @ \oplus f, !.rsv = @ \oplus g]
<1>1. d.lease \in [Leases -> LeaseRows] /\ d.rsv \in [Leases -> RsvRows]
  BY DEF Databases
<1>2. /\ d.lease \oplus f \in [Leases -> LeaseRows]
      /\ \A l \in Leases : (d.lease \oplus f)[l] = IF l \in F THEN f[l] ELSE d.lease[l]
  BY <1>1 DEF \oplus
<1>3. /\ d.rsv \oplus g \in [Leases -> RsvRows]
      /\ \A l \in Leases : (d.rsv \oplus g)[l] = IF l \in G THEN g[l] ELSE d.rsv[l]
  BY <1>1 DEF \oplus
<1>4. e \in Databases
  BY <1>2, <1>3 DEF Databases
<1>5. /\ e.task = d.task /\ e.sess = d.sess
      /\ e.lease = d.lease \oplus f /\ e.rsv = d.rsv \oplus g
  BY DEF Databases
<1> HIDE DEF e
<1> QED
  BY <1>2, <1>3, <1>4, <1>5 DEF e, Rewritten

LEMMA OfferRows ==
    ASSUME NEW d, Sound(d), NEW M \in SUBSET Leases, NEW f \in [M -> Sessions]
    PROVE  LET e == Offer(d, f)
           IN  /\ e \in Databases
               /\ e.task = d.task /\ e.sess = d.sess
               /\ \A l \in Leases \ M : e.lease[l] = d.lease[l] /\ e.rsv[l] = d.rsv[l]
               /\ \A l \in M : /\ e.lease[l].state = "offered" /\ e.lease[l].on = f[l]
                               /\ e.lease[l].permit = d.lease[l].permit
                               /\ e.lease[l].exact <=> d.lease[l].exact
               /\ \A l \in M : d.lease[l].exact =>
                                  e.rsv[l].state = "consumed" /\ e.rsv[l].on = d.rsv[l].on
               /\ \A l \in M : ~d.lease[l].exact => e.rsv[l] = d.rsv[l]
<1> DEFINE G == {m \in M : d.lease[m].exact}
           h == [l \in M |-> [d.lease[l] EXCEPT !.state = "offered", !.on = f[l],
                                                !.aged = @ \ {"offer"}]]
           g == [l \in G |-> [d.rsv[l] EXCEPT !.state = "consumed"]]
           e == Rewritten(d, h, g)
<1>1. d \in Databases /\ \A l \in Leases : d.lease[l] \in LeaseRows /\ d.rsv[l] \in RsvRows
  BY RowTypes DEF Sound
<1>2. ASSUME NEW l \in M
      PROVE  /\ h[l] \in LeaseRows /\ h[l].state = "offered" /\ h[l].on = f[l]
             /\ h[l].permit = d.lease[l].permit /\ (h[l].exact <=> d.lease[l].exact)
  <2> DEFINE r == d.lease[l]
             q == [r EXCEPT !.state = "offered", !.on = f[l], !.aged = r.aged \ {"offer"}]
  <2>1. r \in LeaseRows /\ h[l] = q /\ f[l] \in Sessions
    BY <1>1
  <2> HIDE DEF r, h
  <2>2. q \in LeaseRows
    BY <2>1 DEF LeaseRows, LiveStates, SlotStates
  <2>3. q.state = "offered" /\ q.on = f[l] /\ q.permit = r.permit /\ q.exact = r.exact
    BY <2>1 DEF LeaseRows
  <2> HIDE DEF q
  <2> QED BY <2>1, <2>2, <2>3 DEF r
<1>3. \A l \in G : g[l] \in RsvRows /\ g[l].state = "consumed" /\ g[l].on = d.rsv[l].on
  BY <1>1, RsvRow
<1>4. h \in [M -> LeaseRows] /\ g \in [G -> RsvRows]
  BY <1>2, <1>3
<1>5. DOMAIN f = M /\ Offer(d, f) = e
  BY DEF Offer, Rewritten
<1>6. \A l \in M : d.lease[l].exact <=> l \in G
  OBVIOUS
<1>7. G \subseteq M
  OBVIOUS
<1> HIDE DEF h, g, G
<1>8. /\ e \in Databases
      /\ e.task = d.task /\ e.sess = d.sess
      /\ \A l \in Leases : e.lease[l] = IF l \in M THEN h[l] ELSE d.lease[l]
      /\ \A l \in Leases : e.rsv[l] = IF l \in G THEN g[l] ELSE d.rsv[l]
  BY <1>1, <1>4, RewrittenRows
<1> HIDE DEF e
<1>9. \A l \in Leases \ M : e.lease[l] = d.lease[l] /\ e.rsv[l] = d.rsv[l]
  BY <1>7, <1>8
<1>10. \A l \in M : /\ e.lease[l].state = "offered" /\ e.lease[l].on = f[l]
                    /\ e.lease[l].permit = d.lease[l].permit
                    /\ e.lease[l].exact <=> d.lease[l].exact
  BY <1>2, <1>8
<1>11. \A l \in M : d.lease[l].exact => e.rsv[l].state = "consumed" /\ e.rsv[l].on = d.rsv[l].on
  BY <1>3, <1>6, <1>8
<1>12. \A l \in M : ~d.lease[l].exact => e.rsv[l] = d.rsv[l]
  BY <1>6, <1>8
<1> QED
  BY <1>5, <1>8, <1>9, <1>10, <1>11, <1>12

LEMMA OfferIsCalm ==
    ASSUME NEW d, Sound(d), NEW M \in SUBSET Leases, NEW f \in [M -> Sessions],
           \A l \in M : d.lease[l].state = "queued", FitsSession(d, f)
    PROVE  Calms(d, Offer(d, f))
<1> DEFINE e == Offer(d, f)
<1>1. /\ e \in Databases
      /\ e.task = d.task /\ e.sess = d.sess
      /\ \A l \in Leases \ M : e.lease[l] = d.lease[l] /\ e.rsv[l] = d.rsv[l]
  BY OfferRows
<1>2. \A l \in M : /\ e.lease[l].state = "offered" /\ e.lease[l].on = f[l]
                   /\ e.lease[l].permit = d.lease[l].permit
                   /\ e.lease[l].exact <=> d.lease[l].exact
  BY OfferRows
<1>3. \A l \in M : d.lease[l].exact => e.rsv[l].state = "consumed" /\ e.rsv[l].on = d.rsv[l].on
  BY OfferRows
<1>4. \A l \in M : ~d.lease[l].exact => e.rsv[l] = d.rsv[l]
  BY OfferRows
<1>5. DOMAIN f = M
  OBVIOUS
<1>6. \A l \in M : d.lease[l].exact => d.rsv[l].on = f[l] /\ d.rsv[l].state = "claimed"
  BY <1>5 DEF FitsSession, Placeable
<1>7. \A l \in M : Cardinality(Occupants(e, f[l])) + Cardinality(Held(e, f[l])) <= slots_total
  BY <1>5 DEF FitsSession
<1> HIDE DEF e
<1>8. \A l \in M : d.lease[l].permit = 0
  BY DEF Sound, LeaseSound
<1>9. Sound(e)
  <2>1. ASSUME NEW l \in Leases PROVE LeaseSound(e, l)
    <3>1. LeaseSound(d, l)
      BY DEF Sound
    <3>2. CASE l \in M
      <4>1. f[l] \in Sessions /\ d.lease[l].state = "queued"
        BY <3>2
      <4> QED BY <1>1, <1>2, <1>8, <3>1, <3>2, <4>1 DEF LeaseSound
    <3>3. CASE l \notin M
      BY <1>1, <3>1, <3>3 DEF LeaseSound
    <3> QED BY <3>2, <3>3
  <2>2. ASSUME NEW l \in Leases PROVE PermitSound(e, l)
    <3>1. PermitSound(d, l)
      BY DEF Sound
    <3>2. CASE l \in M
      BY <1>2, <1>8, <3>2 DEF PermitSound
    <3>3. CASE l \notin M
      BY <1>1, <3>1, <3>3 DEF PermitSound
    <3> QED BY <3>2, <3>3
  <2>3. ASSUME NEW l \in Leases PROVE RsvSound(e, l)
    <3>1. RsvSound(d, l)
      BY DEF Sound
    <3>2. CASE l \in M /\ d.lease[l].exact
      BY <1>2, <1>3, <1>6, <3>2 DEF RsvSound, PendingRsv
    <3>3. CASE l \in M /\ ~d.lease[l].exact
      <4>1. d.rsv[l].state = "none"
        BY <3>1, <3>3 DEF RsvSound, LiveStates
      <4> QED BY <1>2, <1>4, <3>3, <4>1 DEF RsvSound, PendingRsv
    <3>4. CASE l \notin M
      BY <1>1, <3>1, <3>4 DEF RsvSound
    <3> QED BY <3>2, <3>3, <3>4
  <2>4. OnePermit(e)
    <3>1. \A l \in Leases : e.lease[l].permit > 0 => e.lease[l] = d.lease[l]
      BY <1>1, <1>2, <1>8
    <3>2. OnePermit(d)
      BY DEF Sound
    <3> QED BY <3>1, <3>2 DEF OnePermit
  <2> QED BY <1>1, <2>1, <2>2, <2>3, <2>4 DEF Sound
<1>10. \A l \in Leases : CalmLease(d.lease[l], e.lease[l])
  <2> TAKE l \in Leases
  <2>1. CASE l \in M
    BY <1>2, <2>1 DEF CalmLease, OwnerStates
  <2>2. CASE l \notin M
    BY <1>1, <2>2 DEF CalmLease
  <2> QED BY <2>1, <2>2
<1>11. \A s \in Sessions : SessionKept(d.sess[s], e.sess[s])
  BY <1>1 DEF SessionKept
<1>12. \A l \in Leases : OwnerKept(d, e, l)
  BY <1>1 DEF OwnerKept, OwnerStates
<1>13. ASSUME Fits(d) PROVE Fits(e)
  <2> SUFFICES ASSUME NEW s \in Sessions PROVE Cardinality(Load(e, s)) <= slots_total
    BY DEF Fits
  <2>1. CASE \E l \in M : f[l] = s
    BY <1>7, <1>9, <2>1, LoadIsSum
  <2>2. CASE \A l \in M : f[l] # s
    <3>1. Occupants(e, s) \subseteq Occupants(d, s)
      BY <1>1, <1>2, <2>2 DEF Occupants
    <3>2. Held(e, s) \subseteq Held(d, s)
      BY <1>1, <1>3, <1>4 DEF Held, PendingRsv
    <3>3. Load(e, s) \subseteq Load(d, s)
      BY <3>1, <3>2 DEF Load
    <3>4. IsFiniteSet(Load(d, s)) /\ IsFiniteSet(Load(e, s))
      BY <1>9, LoadIsSum
    <3>5. Cardinality(Load(e, s)) <= Cardinality(Load(d, s))
      BY <3>3, <3>4, FS_Subset
    <3>6. Cardinality(Load(e, s)) \in Nat /\ Cardinality(Load(d, s)) \in Nat
      BY <3>4, FS_CardinalityType
    <3>7. Cardinality(Load(d, s)) <= slots_total /\ slots_total \in Nat
      BY <1>13 DEF Fits, slots_total
    <3> QED BY <3>5, <3>6, <3>7
  <2> QED BY <2>1, <2>2
<1> QED
  BY <1>9, <1>10, <1>11, <1>12, <1>13 DEF Calms, Calm, e

LEMMA NothingIsCalm ==
    ASSUME NEW d, Sound(d)
    PROVE  Calms(d, d)
BY PassesNothing, PassesAreCalm

LEMMA PlaceIsCalm ==
    ASSUME NEW d, Sound(d), NEW L \in SUBSET Leases, NEW e \in place_queued_leases(d, L)
    PROVE  Calms(d, e)
<1>1. CASE ~enabled
  BY <1>1, NothingIsCalm DEF place_queued_leases
<1>2. CASE enabled
  <2>1. PICK f \in Placements(d, L) :
               e = refresh_session_state(Offer(d, f), {f[l] : l \in DOMAIN f})
    BY <1>2 DEF place_queued_leases
  <2>2. PICK M \in SUBSET {l \in L : d.lease[l].state = "queued"} : f \in [M -> Sessions]
    BY DEF Placements
  <2>3. FitsSession(d, f)
    BY DEF Placements
  <2>4. M \in SUBSET Leases /\ \A l \in M : d.lease[l].state = "queued"
    BY <2>2
  <2>5. Calms(d, Offer(d, f))
    BY <2>2, <2>3, <2>4, OfferIsCalm
  <2>6. Sound(Offer(d, f))
    BY <2>5 DEF Calms
  <2>7. Passes(Offer(d, f), e)
    BY <2>1, <2>6, RefreshPasses
  <2> QED
    BY <2>5, <2>6, <2>7, PassesAreCalm, CalmComposes
<1> QED
  BY <1>1, <1>2

LEMMA ReconcileIsCalm ==
    ASSUME NEW d, Sound(d), NEW blocked, NEW pressed, NEW e \in reconcile(d, blocked, pressed)
    PROVE  Calms(d, e)
<1> DEFINE d1 == ReapOwnership(d, blocked, pressed)
<1>1. PICK d2 \in place_queued_leases(d1, Leases) :
         e \in IF enabled THEN {carry_out_plan(d2, R, P) : R \in SUBSET Drainable(d2),
                                                           P \in SUBSET Startable(d2)}
               ELSE {d2}
  BY DEF reconcile
<1>2. Calms(d, d1) /\ Sound(d1)
  BY ReapOwnershipPasses, PassesAreCalm DEF Calms
<1> HIDE DEF d1
<1>3. Calms(d1, d2) /\ Sound(d2)
  BY <1>2, PlaceIsCalm DEF Calms
<1>4. Calms(d2, e)
  <2>1. CASE enabled
    <3>1. PICK R \in SUBSET Drainable(d2), P \in SUBSET Startable(d2) :
                 e = carry_out_plan(d2, R, P)
      BY <1>1, <2>1
    <3> QED BY <1>3, <3>1, CarryOutPlan, PassesAreCalm
  <2>2. CASE ~enabled
    BY <1>1, <1>3, <2>2, NothingIsCalm
  <2> QED BY <2>1, <2>2
<1> QED
  BY <1>2, <1>3, <1>4, CalmComposes

-----------------------------------------------------------------------------
(* Single rows.                                                            *)

LEMMA SessionEdit ==
    ASSUME NEW d, Sound(d), NEW s \in Sessions, NEW q \in SessionRows,
           SessionKept(d.sess[s], q), d.sess[s].sealed => q.sealed
    PROVE  Passes(d, [d EXCEPT !.sess[s] = q])
<1> DEFINE e == [d EXCEPT !.sess[s] = q]
<1>1. d \in Databases
  BY DEF Sound
<1>2. /\ e \in Databases /\ e.task = d.task /\ e.lease = d.lease /\ e.rsv = d.rsv
      /\ e.sess = [d.sess EXCEPT ![s] = q] /\ d.sess \in [Sessions -> SessionRows]
  BY <1>1 DEF Databases
<1> HIDE DEF e
<1>3. \A t \in Sessions : e.sess[t] = IF t = s THEN q ELSE d.sess[t]
  BY <1>2
<1>4. Quiet(d, d)
  BY PassesNothing DEF Passes
<1>5. \A t \in Sessions : SessionKept(d.sess[t], e.sess[t])
  BY <1>3, <1>4 DEF Quiet
<1>6. \A t \in Sessions : d.sess[t].sealed => e.sess[t].sealed
  BY <1>3
<1>7. \A l \in Leases : OwnerKept(d, e, l)
  BY <1>2 DEF OwnerKept
<1>8. Quiet(d, e)
  BY <1>2, <1>4, <1>5, <1>6, <1>7 DEF Quiet
<1> QED
  BY <1>2, <1>8, PassesByQuiet DEF e

LEMMA LeaseEdit ==
    ASSUME NEW d, Sound(d), NEW l \in Leases, NEW q \in LeaseRows,
           LeaseKept(d.lease[l], q),
           ~d.lease[l].exact /\ d.lease[l].state \in OwnerStates => q.state \in OwnerStates
    PROVE  Passes(d, [d EXCEPT !.lease[l] = q])
<1> DEFINE e == [d EXCEPT !.lease[l] = q]
<1>1. d \in Databases
  BY DEF Sound
<1>2. /\ e \in Databases /\ e.task = d.task /\ e.sess = d.sess /\ e.rsv = d.rsv
      /\ e.lease = [d.lease EXCEPT ![l] = q] /\ d.lease \in [Leases -> LeaseRows]
  BY <1>1 DEF Databases
<1> HIDE DEF e
<1>3. \A m \in Leases : e.lease[m] = IF m = l THEN q ELSE d.lease[m]
  BY <1>2
<1>4. Quiet(d, d)
  BY PassesNothing DEF Passes
<1>5. \A m \in Leases : LeaseKept(d.lease[m], e.lease[m])
  BY <1>3, <1>4 DEF Quiet
<1>6. \A m \in Leases : RsvKept(d.rsv[m], e.rsv[m], d.lease[m], e.lease[m])
  BY <1>2 DEF RsvKept
<1>7. \A m \in Leases : OwnerKept(d, e, m)
  BY <1>3 DEF OwnerKept
<1>8. Quiet(d, e)
  BY <1>2, <1>4, <1>5, <1>6, <1>7 DEF Quiet
<1> QED
  BY <1>2, <1>8, PassesByQuiet DEF e

LEMMA TaskEdit ==
    ASSUME NEW d, Sound(d), NEW l \in Leases, NEW t \in {"running", "ended"}
    PROVE  Calms(d, [d EXCEPT !.task[l] = t])
<1> DEFINE e == [d EXCEPT !.task[l] = t]
<1>1. d \in Databases
  BY DEF Sound
<1>2. /\ e \in Databases /\ e.lease = d.lease /\ e.sess = d.sess /\ e.rsv = d.rsv
      /\ \A m \in Leases : e.task[m] = d.task[m] \/ e.task[m] = t
  BY <1>1 DEF Databases
<1> HIDE DEF e
<1>3. Sound(e)
  <2>1. \A m \in Leases : LeaseSound(e, m)
    BY <1>2 DEF Sound, LeaseSound
  <2>2. \A m \in Leases : PermitSound(e, m) /\ RsvSound(e, m)
    BY <1>2 DEF Sound, PermitSound, RsvSound
  <2>3. OnePermit(e)
    BY <1>2 DEF Sound, OnePermit
  <2> QED BY <1>2, <2>1, <2>2, <2>3 DEF Sound
<1>4. Fits(d) => Fits(e)
  BY <1>2 DEF Fits, Load, Occupants, Held
<1>5. Calm(d, e)
  <2>1. Calm(d, d)
    BY NothingIsCalm DEF Calms
  <2> QED BY <1>2, <2>1 DEF Calm, OwnerKept
<1> QED
  BY <1>3, <1>4, <1>5 DEF Calms, e

LEMMA AllocEdit ==
    ASSUME NEW d, Sound(d), NEW a \in Allocs, NEW q \in AllocRows
    PROVE  Passes(d, [d EXCEPT !.alloc[a] = q])
<1>1. d \in Databases /\ [d.alloc EXCEPT ![a] = q] \in [Allocs -> AllocRows]
  BY DEF Sound, Databases
<1>2. [d EXCEPT !.alloc[a] = q] = [d EXCEPT !.alloc = [d.alloc EXCEPT ![a] = q]]
  OBVIOUS
<1> QED
  BY <1>1, <1>2, AllocPass

LEMMA FreshRow ==
    ASSUME NEW r \in LeaseRows
    PROVE  Fresh(r) \in LeaseRows /\ LeaseKept(r, Fresh(r)) /\ Fresh(r).state = r.state
             /\ Fresh(r).on = r.on /\ Fresh(r).permit = r.permit
             /\ (Fresh(r).exact <=> r.exact)
<1> DEFINE q == Fresh(r)
<1>1. q \in LeaseRows
  BY DEF Fresh, LeaseRows
<1>2. q.state = r.state /\ q.on = r.on /\ q.permit = r.permit /\ q.exact = r.exact
  BY DEF Fresh, LeaseRows
<1> HIDE DEF q
<1>3. LeaseKept(r, q)
  BY <1>2 DEF LeaseKept, OwnerStates
<1> QED
  BY <1>1, <1>2, <1>3 DEF q

-----------------------------------------------------------------------------
(* The grant.                                                              *)

(* Nobody holds a permit of s when a permit of s is granted.               *)
LEMMA GrantIsFree ==
    ASSUME NEW d, Sound(d), NEW e, Passes(d, e), Still(d, e), NEW s \in Sessions,
           NEW b,
           \/ ~e.sess[s].sealed /\ BatchReady(e, s, b)
           \/ e.sess[s].sealed /\ WaveIsOver(e, s)
    PROVE  Permits(d, s) = {}
<1> SUFFICES ASSUME NEW a \in Permits(d, s) PROVE FALSE
  OBVIOUS
<1>1. /\ a \in Leases /\ d.lease[a].on = s /\ d.lease[a].state \in SlotStates
      /\ d.lease[a].permit > 0
  BY DEF Permits, Occupants
<1>2. d.sess[s].sealed /\ d.sess[s].gen = d.lease[a].permit
  BY <1>1 DEF Sound, PermitSound
<1>3. CASE ~e.sess[s].sealed /\ BatchReady(e, s, b)
  <2>1. Occupants(e, s) = {}
    BY <1>2, <1>3 DEF Passes, Quiet
  <2> QED BY <1>3, <2>1 DEF BatchReady
<1>4. CASE e.sess[s].sealed /\ WaveIsOver(e, s)
  <2>1. e.sess[s].gen = d.sess[s].gen
    BY DEF Passes, Quiet, SessionKept
  <2>2. e.lease[a].on = s /\ e.lease[a].permit = d.lease[a].permit
    BY <1>1 DEF Still
  <2>3. a \in Granted(e, s, e.sess[s].gen)
    BY <1>1, <1>2, <2>1, <2>2 DEF Granted
  <2>4. e.lease[a].state = "released"
    BY <1>4, <2>3 DEF WaveIsOver
  <2>5. d.lease[a].state = "released"
    BY <1>1, <2>4 DEF Still
  <2> QED BY <1>1, <2>5 DEF SlotStates, OwnerStates
<1> QED
  BY <1>3, <1>4

Permitting(d, s, l, e) ==
    /\ e \in Databases /\ e.task = d.task /\ e.rsv = d.rsv
    /\ \A m \in Leases \ {l} : e.lease[m] = d.lease[m]
    /\ e.lease[l].permit = d.sess[s].gen + 1
    /\ e.lease[l].state = d.lease[l].state /\ e.lease[l].on = d.lease[l].on
    /\ e.lease[l].exact <=> d.lease[l].exact
    /\ \A t \in Sessions \ {s} : e.sess[t] = d.sess[t]
    /\ e.sess[s].gen = d.sess[s].gen + 1 /\ e.sess[s].sealed
    /\ e.sess[s].state = d.sess[s].state /\ (e.sess[s].token <=> d.sess[s].token)
    /\ e.sess[s].blocked = d.sess[s].blocked /\ e.sess[s].silent = d.sess[s].silent
    /\ e.sess[s].quar = d.sess[s].quar

LEMMA PermitRows ==
    ASSUME NEW d, Sound(d), NEW s \in Sessions, NEW l \in Waiting(d, s)
    PROVE  Permitting(d, s, l, Permit(d, s, l))
<1> DEFINE r == d.lease[l]
           q == [r EXCEPT !.permit = d.sess[s].gen + 1]
           p == [d.sess[s] EXCEPT !.gen = @ + 1, !.sealed = TRUE]
           e == Permit(d, s, l)
<1>1. l \in Leases /\ d \in Databases /\ r \in LeaseRows /\ d.sess[s] \in SessionRows
  BY RowTypes DEF Waiting, Occupants, Sound
<1>2. q \in LeaseRows /\ p \in SessionRows
  <2>1. d.sess[s].gen \in Nat
    BY <1>1 DEF SessionRows
  <2>2. q \in LeaseRows
    <3> HIDE DEF r
    <3> QED BY <1>1, <2>1 DEF LeaseRows
  <2>3. p \in SessionRows
    <3> DEFINE x == d.sess[s]
               n == x.gen + 1
               y == [x EXCEPT !.gen = n]
    <3>1. n \in Nat /\ x \in SessionRows
      BY <1>1, <2>1
    <3> HIDE DEF x, n
    <3>2. y \in SessionRows
      BY <3>1 DEF SessionRows
    <3>3. [x EXCEPT !.gen = n, !.sealed = TRUE] = [y EXCEPT !.sealed = TRUE]
      BY <3>1 DEF SessionRows
    <3> HIDE DEF y
    <3>4. [y EXCEPT !.sealed = TRUE] \in SessionRows
      BY <3>2 DEF SessionRows
    <3> QED BY <3>3, <3>4 DEF x, n
  <2> QED BY <2>2, <2>3
<1>3. q.permit = d.sess[s].gen + 1 /\ q.state = r.state /\ q.on = r.on /\ q.exact = r.exact
  BY <1>1 DEF LeaseRows
<1>4. /\ p.gen = d.sess[s].gen + 1 /\ p.sealed
      /\ p.state = d.sess[s].state /\ p.token = d.sess[s].token
      /\ p.blocked = d.sess[s].blocked /\ p.silent = d.sess[s].silent
      /\ p.quar = d.sess[s].quar
  BY <1>1 DEF SessionRows
<1>5. d.lease \in [Leases -> LeaseRows] /\ d.sess \in [Sessions -> SessionRows]
  BY <1>1 DEF Databases
<1>6. /\ e.task = d.task /\ e.rsv = d.rsv /\ e.alloc = d.alloc
      /\ e.lease = [d.lease EXCEPT ![l] = q]
  BY <1>1 DEF Permit, Databases
<1>7. e.sess = [d.sess EXCEPT ![s] = p]
  BY <1>1, <1>5 DEF Permit, Databases, SessionRows
<1>8. e = [d EXCEPT !.lease = [d.lease EXCEPT ![l] = q], !.sess = [d.sess EXCEPT ![s] = p]]
  BY <1>1, <1>6, <1>7 DEF Permit, Databases
<1>9. e \in Databases
  <2>1. [d.lease EXCEPT ![l] = q] \in [Leases -> LeaseRows]
    BY <1>2, <1>5
  <2>2. [d.sess EXCEPT ![s] = p] \in [Sessions -> SessionRows]
    BY <1>2, <1>5
  <2> HIDE DEF e, q, p
  <2> QED BY <1>1, <1>8, <2>1, <2>2 DEF Databases
<1> HIDE DEF e, q, p
<1>10. e.lease[l] = q /\ \A m \in Leases \ {l} : e.lease[m] = d.lease[m]
  BY <1>1, <1>5, <1>6
<1>11. e.sess[s] = p /\ \A t \in Sessions \ {s} : e.sess[t] = d.sess[t]
  BY <1>5, <1>7
<1> QED
  BY <1>3, <1>4, <1>6, <1>9, <1>10, <1>11 DEF e, Permitting

LEMMA CalmPermits ==
    ASSUME NEW d, NEW e, Sound(e), NEW s,
           \A l \in Leases : CalmLease(d.lease[l], e.lease[l])
    PROVE  Permits(e, s) \subseteq Permits(d, s)
<1> SUFFICES ASSUME NEW l \in Permits(e, s) PROVE l \in Permits(d, s)
  OBVIOUS
<1>1. /\ l \in Leases /\ e.lease[l].on = s /\ e.lease[l].state \in SlotStates
      /\ e.lease[l].permit > 0
  BY DEF Permits, Occupants
<1>2. e.lease[l].state # "offered"
  BY <1>1 DEF Sound, LeaseSound
<1>3. e.lease[l].state \in OwnerStates
  BY <1>1, <1>2 DEF SlotStates
<1>4. d.lease[l].state \in OwnerStates /\ d.lease[l].on = s /\ d.lease[l].permit = e.lease[l].permit
  BY <1>1, <1>3 DEF CalmLease
<1> QED
  BY <1>1, <1>4 DEF Permits, Occupants, SlotStates

LEMMA PermitIsSound ==
    ASSUME NEW d, Sound(d), NEW s \in Sessions, NEW l \in Waiting(d, s), Permits(d, s) = {},
           d.sess[s].state \in Assignable
    PROVE  Sound(Permit(d, s, l)) /\ (Fits(d) => Fits(Permit(d, s, l)))
<1> DEFINE e == Permit(d, s, l)
<1>0. Permitting(d, s, l, e)
  BY PermitRows
<1> HIDE DEF e
<1>1. /\ e \in Databases /\ e.task = d.task /\ e.rsv = d.rsv
      /\ \A m \in Leases \ {l} : e.lease[m] = d.lease[m]
      /\ \A t \in Sessions \ {s} : e.sess[t] = d.sess[t]
  BY <1>0 DEF Permitting
<1>2. /\ e.lease[l].permit = d.sess[s].gen + 1
      /\ e.lease[l].state = d.lease[l].state /\ e.lease[l].on = d.lease[l].on
      /\ e.lease[l].exact <=> d.lease[l].exact
  BY <1>0 DEF Permitting
<1>3. /\ e.sess[s].gen = d.sess[s].gen + 1 /\ e.sess[s].sealed
      /\ e.sess[s].state = d.sess[s].state /\ (e.sess[s].token <=> d.sess[s].token)
  BY <1>0 DEF Permitting
<1>4. /\ l \in Leases /\ d.lease[l].on = s /\ d.lease[l].state = "active"
      /\ d.lease[l].permit = 0
  BY DEF Waiting, Occupants
<1>5. \A m \in Leases : /\ e.lease[m].state = d.lease[m].state /\ e.lease[m].on = d.lease[m].on
                        /\ e.lease[m].exact <=> d.lease[m].exact
  BY <1>1, <1>2
<1>6. \A m \in Leases \ {l} : ~(d.lease[m].state \in SlotStates /\ d.lease[m].permit > 0
                                  /\ d.lease[m].on = s)
  BY DEF Permits, Occupants
<1>7. ASSUME NEW m \in Leases PROVE LeaseSound(e, m)
  <2>1. LeaseSound(d, m)
    BY DEF Sound
  <2>2. CASE m = l
    BY <1>1, <1>4, <1>5, <2>1, <2>2 DEF LeaseSound
  <2>3. CASE m # l
    BY <1>1, <2>1, <2>3 DEF LeaseSound
  <2> QED BY <2>2, <2>3
<1>8. ASSUME NEW m \in Leases PROVE PermitSound(e, m)
  <2>1. PermitSound(d, m) /\ LeaseSound(d, m)
    BY DEF Sound
  <2>2. CASE m = l
    BY <1>2, <1>3, <1>4, <2>2 DEF PermitSound
  <2>3. CASE m # l
    <3> SUFFICES ASSUME d.lease[m].state \in SlotStates, d.lease[m].permit > 0
                 PROVE  PermitSound(e, m)
      BY <1>1, <2>3 DEF PermitSound
    <3>1. d.lease[m].on \in Sessions \ {s}
      BY <1>6, <2>1, <2>3 DEF LeaseSound
    <3> QED BY <1>1, <2>1, <2>3, <3>1 DEF PermitSound
  <2> QED BY <2>2, <2>3
<1>9. \A m \in Leases : RsvSound(e, m)
  <2> TAKE m \in Leases
  <2>1. RsvSound(d, m)
    BY DEF Sound
  <2> QED BY <1>1, <1>5, <2>1 DEF RsvSound
<1>10. OnePermit(e)
  <2>1. OnePermit(d)
    BY DEF Sound
  <2> SUFFICES ASSUME NEW m \in Leases, NEW k \in Leases,
                      e.lease[m].state \in SlotStates, e.lease[m].permit > 0,
                      e.lease[k].state \in SlotStates, e.lease[k].permit > 0,
                      e.lease[m].on = e.lease[k].on
               PROVE  m = k
    BY DEF OnePermit
  <2>2. CASE m # l /\ k # l
    BY <1>1, <2>1, <2>2 DEF OnePermit
  <2>3. CASE m = l /\ k # l
    BY <1>1, <1>4, <1>5, <1>6, <2>3
  <2>4. CASE k = l /\ m # l
    BY <1>1, <1>4, <1>5, <1>6, <2>4
  <2> QED BY <2>2, <2>3, <2>4
<1>11. \A t \in Sessions : e.sess[t].state \in Assignable => e.sess[t].token
  BY <1>1, <1>3 DEF Sound
<1>12. \A t \in Sessions : Load(e, t) = Load(d, t)
  BY <1>1, <1>5 DEF Load, Occupants, Held
<1>13. Fits(d) => Fits(e)
  BY <1>12 DEF Fits
<1> QED
  BY <1>1, <1>7, <1>8, <1>9, <1>10, <1>11, <1>13 DEF Sound, e

LEMMA BlockedDrainRow ==
    ASSUME NEW r \in SessionRows, ~Gone(r)
    PROVE  LET q == [Draining(r, "other") EXCEPT !.blocked = Blocked(@)]
           IN  q \in SessionRows /\ SessionKept(r, q) /\ (q.sealed <=> r.sealed)
<1> DEFINE p == Draining(r, "other")
<1>1. p \in SessionRows /\ SessionKept(r, p) /\ (p.sealed <=> r.sealed)
  BY DrainingRow DEF Faulty
<1> HIDE DEF p
<1> DEFINE q == [p EXCEPT !.blocked = Blocked(@)]
<1>2. q \in SessionRows /\ (q.sealed <=> p.sealed) /\ SessionKept(p, q)
  BY <1>1, BlockedRow
<1> HIDE DEF q
<1>3. SessionKept(r, q)
  BY <1>1, <1>2, SessionKeptComposes
<1> QED
  BY <1>1, <1>2, <1>3 DEF p, q

LEMMA FailedWavePasses ==
    ASSUME NEW d, Sound(d), NEW s \in Sessions, d.sess[s].state \in Assignable
    PROVE  Passes(d, FailedWave(d, s))
<1> DEFINE q == [Draining(d.sess[s], "other") EXCEPT !.blocked = Blocked(@)]
           F == Waiting(d, s)
           f == [l \in F |-> Releasing(d.lease[l])]
           d1 == [d EXCEPT !.sess[s] = q]
<1>1. d \in Databases /\ d.sess[s] \in SessionRows /\ ~Gone(d.sess[s])
  BY RowTypes DEF Sound, Gone, Assignable
<1>2. q \in SessionRows /\ SessionKept(d.sess[s], q) /\ (q.sealed <=> d.sess[s].sealed)
  BY <1>1, BlockedDrainRow
<1>3. FailedWave(d, s) = [d EXCEPT !.sess[s] = q, !.lease = @ \oplus f]
  BY DEF FailedWave
<1>4. \A l \in F : /\ l \in Leases /\ f[l] \in LeaseRows /\ LeaseKept(d.lease[l], f[l])
                   /\ f[l].state \in OwnerStates
  <2> TAKE l \in F
  <2>1. l \in Leases /\ d.lease[l] \in LeaseRows /\ d.lease[l].state \in OwnerStates
    BY <1>1, RowTypes DEF Waiting, Occupants, OwnerStates
  <2>2. f[l] = Releasing(d.lease[l])
    OBVIOUS
  <2> HIDE DEF f, F
  <2> QED BY <2>1, <2>2, ReleasingRow DEF OwnerStates
<1>5. f \in [F -> LeaseRows]
  BY <1>4
<1> HIDE DEF q, f, F
<1>6. Passes(d, d1)
  BY <1>2, SessionEdit
<1>7. d1.lease = d.lease /\ [d1 EXCEPT !.lease = @ \oplus f] = FailedWave(d, s)
  BY <1>1, <1>3 DEF Databases
<1> HIDE DEF d1
<1>8. LeaseUpdate(d1, F, f, {}, [l \in {} |-> d1.rsv[l]])
  BY <1>4, <1>5, <1>7 DEF LeaseUpdate
<1>9. Passes(d1, FailedWave(d, s))
  BY <1>6, <1>7, <1>8, LeaseOnlyPass DEF Passes
<1> QED
  BY <1>6, <1>9, PassesCompose

(* What _grant_solve_batch_if_ready does: nothing that disturbs anybody,   *)
(* or one permit on a Desktop without any.                                 *)
Grant(d, e, s) ==
    \E d1 : \E l \in Waiting(d1, s) :
        /\ Calms(d, d1) /\ e = Permit(d1, s, l)
        /\ d1.sess[s].state \in Assignable
        /\ Permits(d, s) = {}

LEMMA GrantOutcome ==
    ASSUME NEW d, Sound(d), NEW s \in Sessions, NEW b \in BOOLEAN,
           NEW e \in grant_solve_batch_if_ready(d, s, b)
    PROVE  Calms(d, e) \/ Grant(d, e, s)
<1> DEFINE d1 == refresh_exact_session_reservations(d)
           r == d1.sess[s]
           G == Granted(d1, s, r.gen)
<1>1. Passes(d, d1) /\ Still(d, d1)
  BY RefreshExact
<1>2. e \in GrantOn(d1, s, b)
  BY DEF grant_solve_batch_if_ready
<1> HIDE DEF d1
<1>3. Sound(d1) /\ Calms(d, d1)
  BY <1>1, PassesAreCalm DEF Passes
<1>4. ASSUME e \in Grants(d1, s), r.state \in Assignable, Permits(d, s) = {}
      PROVE  Grant(d, e, s)
  BY <1>3, <1>4 DEF Grant, Grants
<1>5. CASE r.state \notin Assignable
  BY <1>2, <1>3, <1>5 DEF GrantOn
<1>6. CASE r.state \in Assignable /\ ~r.sealed
  <2>1. CASE BatchReady(d1, s, b)
    <3>1. Permits(d, s) = {}
      BY <1>1, <1>6, <2>1, GrantIsFree
    <3>2. e \in Grants(d1, s)
      BY <1>2, <1>6, <2>1 DEF GrantOn
    <3> QED BY <1>4, <1>6, <3>1, <3>2
  <2>2. CASE ~BatchReady(d1, s, b)
    BY <1>2, <1>3, <1>6, <2>2 DEF GrantOn
  <2> QED BY <2>1, <2>2
<1>7. CASE r.state \in Assignable /\ r.sealed
  <2>1. CASE G = {} \/ \E l \in G : d1.lease[l].state \in LiveStates
    BY <1>2, <1>3, <1>7, <2>1 DEF GrantOn
  <2>2. CASE ~(G = {} \/ \E l \in G : d1.lease[l].state \in LiveStates) /\ ~WaveIsOver(d1, s)
    <3>1. e = FailedWave(d1, s)
      BY <1>2, <1>7, <2>2 DEF GrantOn
    <3>2. Calms(d1, e)
      BY <1>3, <1>7, <3>1, FailedWavePasses, PassesAreCalm
    <3> QED BY <1>3, <3>2, CalmComposes
  <2>3. CASE ~(G = {} \/ \E l \in G : d1.lease[l].state \in LiveStates) /\ WaveIsOver(d1, s)
    <3>1. Permits(d, s) = {}
      BY <1>1, <1>7, <2>3, GrantIsFree
    <3>2. e = d1 \/ e \in Grants(d1, s)
      BY <1>2, <1>7, <2>3 DEF GrantOn
    <3> QED BY <1>3, <1>4, <1>7, <3>1, <3>2
  <2> QED BY <2>1, <2>2, <2>3
<1> QED
  BY <1>5, <1>6, <1>7

LEMMA GrantIsSound ==
    ASSUME NEW d, Sound(d), NEW s \in Sessions, NEW e, Grant(d, e, s)
    PROVE  Sound(e) /\ (Fits(d) => Fits(e))
<1>1. PICK d1 : \E l \in Waiting(d1, s) :
                   /\ Calms(d, d1) /\ e = Permit(d1, s, l)
                   /\ d1.sess[s].state \in Assignable
                   /\ Permits(d, s) = {}
  BY DEF Grant
<1>2. PICK l \in Waiting(d1, s) : e = Permit(d1, s, l)
  BY <1>1
<1>3. Sound(d1) /\ (Fits(d) => Fits(d1)) /\ \A m \in Leases : CalmLease(d.lease[m], d1.lease[m])
  BY <1>1 DEF Calms, Calm
<1>4. Permits(d1, s) = {}
  BY <1>1, <1>3, CalmPermits
<1> QED
  BY <1>1, <1>2, <1>3, <1>4, PermitIsSound

-----------------------------------------------------------------------------
(* The invariant of the tables.  A Desktop that heard of an unproven        *)
(* release is blocked, and only a Desktop with a registered host is up.     *)

Barrier(r, u) == ~Gone(r) => /\ u = "fresh" => r.blocked = "fresh"
                             /\ u = "set" => r.blocked # "no"

Hosted(d, U) == \A s \in U : d.sess[s].token

Tables == /\ TypeOK /\ Sound(db) /\ Fits(db)
          /\ \A s \in Sessions : Barrier(db.sess[s], unproven[s])
          /\ Hosted(db, up)

(* A step that takes no slot, grants no permit and leaves the Desktops     *)
(* alone.                                                                  *)
CalmStep == Calms(db, db') /\ UNCHANGED <<up, project, solving, unproven, lifted>>

LEMMA CommitCalmly ==
    ASSUME Tables, NEW e, Calms(db, e), Commit(e)
    PROVE  Calms(db, db') /\ solving' = solving
<1>1. db' = e
  BY DEF Commit
<1>2. \A m \in Leases : ~(e.lease[m].permit > db.lease[m].permit)
  <2> TAKE m \in Leases
  <2>1. db.lease[m].permit \in Nat
    BY RowTypes DEF Tables, TypeOK, LeaseRows
  <2>2. e.lease[m].permit = 0 \/ e.lease[m].permit = db.lease[m].permit
    BY DEF Calms, Calm, CalmLease
  <2> QED BY <2>1, <2>2
<1>3. solving \in [Leases -> Sessions \cup {NoSession}]
  BY DEF Tables, TypeOK
<1>4. solving' = solving
  <2>1. {m \in Leases : e.lease[m].permit > db.lease[m].permit} = {}
    BY <1>2
  <2>2. solving' = solving \oplus [l \in {} |-> e.lease[l].on]
    BY <2>1 DEF Commit
  <2> QED BY <1>3, <2>2 DEF \oplus
<1> QED
  BY <1>1, <1>4

LEMMA RestIsCalm ==
    ASSUME Tables, NEW e, Calms(db, e), Commit(e), Rest
    PROVE  CalmStep
BY CommitCalmly DEF CalmStep, Rest

LEMMA PassIsCalm ==
    ASSUME Tables, NEW e, Passes(db, e), Commit(e), Rest
    PROVE  CalmStep
BY PassesAreCalm, RestIsCalm DEF Tables

LEMMA TableRows ==
    ASSUME Tables
    PROVE  /\ Sound(db) /\ db \in Databases
           /\ \A l \in Leases : db.lease[l] \in LeaseRows /\ db.rsv[l] \in RsvRows
           /\ \A s \in Sessions : db.sess[s] \in SessionRows
           /\ \A a \in Allocs : db.alloc[a] \in AllocRows
BY RowTypes DEF Tables, TypeOK

-----------------------------------------------------------------------------
(* The scheduler's side.                                                   *)

LEMMA LaunchTask ==
    ASSUME Tables, NEW l \in Leases, launch_task(l)
    PROVE  CalmStep
<1>1. Calms(db, [db EXCEPT !.task[l] = "running"])
  BY TableRows, TaskEdit
<1> QED
  BY <1>1, RestIsCalm DEF launch_task

LEMMA EndTask ==
    ASSUME Tables, NEW l \in Leases, end_task(l)
    PROVE  CalmStep
<1>1. Calms(db, [db EXCEPT !.task[l] = "ended"])
  BY TableRows, TaskEdit
<1> QED
  BY <1>1, RestIsCalm DEF end_task

(* New reservations on s for the tasks of T.                               *)
Reserves(d, e, T, s) ==
    /\ e \in Databases /\ e.task = d.task /\ e.lease = d.lease /\ e.sess = d.sess
    /\ \A l \in Leases \ T : e.rsv[l] = d.rsv[l]
    /\ \A l \in T : /\ e.rsv[l].on = s /\ e.rsv[l].state = "reserved"
                    /\ d.rsv[l].state = "none" /\ d.lease[l].state \notin LiveStates

LEMMA ReserveIsCalm ==
    ASSUME NEW d, Sound(d), NEW e, NEW T \in SUBSET Leases, NEW s \in Sessions,
           Reserves(d, e, T, s),
           Cardinality(T) + Cardinality(Occupants(d, s)) + Cardinality(Held(d, s)) <= slots_total
    PROVE  Calms(d, e)
<1>1. \A l \in Leases : LeaseSound(e, l) /\ PermitSound(e, l)
  BY DEF Reserves, Sound, LeaseSound, PermitSound
<1>2. ASSUME NEW l \in Leases PROVE RsvSound(e, l)
  <2>1. RsvSound(d, l)
    BY DEF Sound
  <2>2. CASE l \in T
    BY <2>2 DEF Reserves, RsvSound, PendingRsv, LiveStates
  <2>3. CASE l \notin T
    BY <2>1, <2>3 DEF Reserves, RsvSound
  <2> QED BY <2>2, <2>3
<1>3. OnePermit(e)
  BY DEF Reserves, Sound, OnePermit
<1>4. Sound(e)
  BY <1>1, <1>2, <1>3 DEF Sound, Reserves
<1>5. ASSUME NEW t \in Sessions \ {s} PROVE Load(e, t) \subseteq Load(d, t)
  BY <1>5 DEF Load, Occupants, Held, Reserves
<1>6. Load(e, s) \subseteq Load(d, s) \cup T
  BY DEF Load, Occupants, Held, Reserves
<1>7. ASSUME Fits(d), NEW t \in Sessions PROVE Cardinality(Load(e, t)) <= slots_total
  <2>1. CASE t # s
    <3>1. IsFiniteSet(Load(d, t)) /\ Load(e, t) \subseteq Load(d, t)
      BY <1>5, <2>1, LoadIsSum
    <3>2. Cardinality(Load(e, t)) <= Cardinality(Load(d, t)) /\ IsFiniteSet(Load(e, t))
      BY <3>1, FS_Subset
    <3>3. Cardinality(Load(e, t)) \in Nat /\ Cardinality(Load(d, t)) \in Nat
      BY <3>1, <3>2, FS_CardinalityType
    <3>4. slots_total \in Nat
      BY DEF slots_total
    <3> QED BY <1>7, <3>2, <3>3, <3>4 DEF Fits
  <2>2. CASE t = s
    <3>1. /\ IsFiniteSet(Load(d, s)) /\ IsFiniteSet(T)
          /\ Cardinality(Load(d, s)) = Cardinality(Occupants(d, s)) + Cardinality(Held(d, s))
      BY LoadIsSum, FS_Subset
    <3>2. /\ IsFiniteSet(Load(d, s) \cup T)
          /\ Cardinality(Load(d, s) \cup T)
               = Cardinality(Load(d, s)) + Cardinality(T) - Cardinality(Load(d, s) \cap T)
      BY <3>1, FS_Union
    <3>3. IsFiniteSet(Load(d, s) \cap T)
      BY <3>1, FS_Subset
    <3>4. IsFiniteSet(Load(e, s)) /\ Cardinality(Load(e, s)) <= Cardinality(Load(d, s) \cup T)
      BY <1>6, <3>2, FS_Subset
    <3>5. IsFiniteSet(Occupants(d, s)) /\ IsFiniteSet(Held(d, s))
      BY FS_Subset DEF Occupants, Held
    <3>6. /\ Cardinality(Load(e, s)) \in Nat /\ Cardinality(Load(d, s)) \in Nat
          /\ Cardinality(T) \in Nat /\ Cardinality(Load(d, s) \cap T) \in Nat
          /\ Cardinality(Occupants(d, s)) \in Nat /\ Cardinality(Held(d, s)) \in Nat
      BY <3>1, <3>3, <3>4, <3>5, FS_CardinalityType
    <3>7. slots_total \in Nat
      BY DEF slots_total
    <3> QED BY <2>2, <3>1, <3>2, <3>4, <3>6, <3>7
  <2> QED BY <2>1, <2>2
<1>8. Fits(d) => Fits(e)
  BY <1>7 DEF Fits
<1>9. Calm(d, e)
  <2>1. Calm(d, d)
    BY NothingIsCalm DEF Calms
  <2> QED BY <2>1 DEF Calm, OwnerKept, Reserves
<1> QED
  BY <1>4, <1>8, <1>9 DEF Calms

LEMMA PrepareTask ==
    ASSUME Tables, NEW l \in Leases, NEW s \in Sessions, prepare_pooled_task_session(l, s)
    PROVE  CalmStep
<1> DEFINE d == refresh_exact_session_reservations(db)
           e == Reserved(d, l, s)
<1>1. Passes(db, d)
  BY TableRows, RefreshExact
<1>2. /\ db.task[l] = "queued" /\ d.rsv[l].state = "none" /\ FreeFor(d, l, s)
      /\ Commit(e) /\ Rest
  BY DEF prepare_pooled_task_session
<1> HIDE DEF d
<1>3. Sound(d) /\ d \in Databases /\ d.task = db.task
  BY <1>1 DEF Passes, Quiet, Sound
<1>4. d.lease[l].state = "none"
  BY <1>2, <1>3 DEF Sound, LeaseSound
<1> DEFINE mates == {m \in Leases : /\ d.rsv[m].on = s /\ d.rsv[m].auto
                                    /\ d.rsv[m].state \in LiveRsv}
           key == IF mates = {} THEN l ELSE d.rsv[CHOOSE m \in mates : TRUE].key
           w == [state |-> "reserved", on |-> s, key |-> key,
                 auto |-> TRUE, over |-> d.rsv[key].over]
<1>5. e = [d EXCEPT !.rsv[l] = w]
  BY DEF Reserved
<1>6. key \in Leases
  <2>1. CASE mates = {}
    BY <2>1
  <2>2. CASE mates # {}
    <3>1. (CHOOSE m \in mates : TRUE) \in mates
      BY <2>2
    <3> DEFINE c == CHOOSE m \in mates : TRUE
    <3>2. c \in Leases
      BY <3>1
    <3> HIDE DEF c
    <3>3. d.rsv[c].key \in Leases
      BY <1>3, <3>2, RowTypes DEF RsvRows
    <3> QED BY <2>2, <3>3 DEF c
  <2> QED BY <2>1, <2>2
<1> HIDE DEF key
<1>7. w \in RsvRows
  <2>1. d.rsv[key].over \in BOOLEAN
    BY <1>3, <1>6, RowTypes DEF RsvRows
  <2> QED BY <1>6, <2>1 DEF RsvRows, LiveRsv, PendingRsv
<1>8. w.on = s /\ w.state = "reserved"
  OBVIOUS
<1> HIDE DEF w, e
<1>9. Reserves(d, e, {l}, s)
  <2>1. d.rsv \in [Leases -> RsvRows]
    BY <1>3 DEF Databases
  <2>2. /\ e \in Databases /\ e.task = d.task /\ e.lease = d.lease /\ e.sess = d.sess
        /\ e.rsv = [d.rsv EXCEPT ![l] = w]
    BY <1>3, <1>5, <1>7 DEF Databases
  <2>3. e.rsv[l] = w /\ \A m \in Leases \ {l} : e.rsv[m] = d.rsv[m]
    BY <2>1, <2>2
  <2>4. d.lease[l].state \notin LiveStates
    BY <1>4 DEF LiveStates, SlotStates, OwnerStates
  <2> QED BY <1>2, <1>8, <2>2, <2>3, <2>4 DEF Reserves
<1>10. Cardinality({l}) + Cardinality(Occupants(d, s)) + Cardinality(Held(d, s)) <= slots_total
  <2>1. Cardinality({l}) = 1
    BY FS_Singleton
  <2>2. IsFiniteSet(Occupants(d, s)) /\ IsFiniteSet(Held(d, s))
    BY FS_Subset DEF Occupants, Held
  <2>3. Cardinality(Occupants(d, s)) \in Nat /\ Cardinality(Held(d, s)) \in Nat
    BY <2>2, FS_CardinalityType
  <2>4. slots_total \in Nat
    BY DEF slots_total
  <2> QED BY <1>2, <2>1, <2>3, <2>4 DEF FreeFor
<1>11. Calms(d, e)
  BY <1>3, <1>9, <1>10, ReserveIsCalm
<1>12. Calms(db, e)
  BY <1>1, <1>3, <1>11, PassesAreCalm, CalmComposes, TableRows
<1> QED
  BY <1>2, <1>12, RestIsCalm

LEMMA CreateReservation ==
    ASSUME Tables, NEW T \in SUBSET Pinned, NEW k \in Pinned, NEW s \in Sessions,
           create_exact_session_reservation(T, k, s)
    PROVE  CalmStep
<1> DEFINE d == refresh_exact_session_reservations(db)
           w == [state |-> "reserved", on |-> s, key |-> k, auto |-> FALSE, over |-> FALSE]
           g == [l \in T |-> w]
           e == [d EXCEPT !.rsv = @ \oplus g]
<1>1. Passes(db, d)
  BY TableRows, RefreshExact
<1>2. /\ \A l \in T : d.rsv[l].state = "none" /\ d.lease[l].state \notin LiveStates
      /\ Cardinality(T) + Cardinality(Occupants(d, s)) + Cardinality(Held(d, s)) <= slots_total
      /\ Commit(e) /\ Rest
  BY DEF create_exact_session_reservation
<1> HIDE DEF d
<1>3. Sound(d) /\ d \in Databases /\ d.rsv \in [Leases -> RsvRows]
  BY <1>1 DEF Passes, Sound, Databases
<1>4. T \subseteq Leases /\ k \in Leases
  OBVIOUS
<1>5. w \in RsvRows /\ w.on = s /\ w.state = "reserved"
  BY <1>4 DEF RsvRows, LiveRsv, PendingRsv
<1> HIDE DEF w
<1>6. /\ d.rsv \oplus g \in [Leases -> RsvRows]
      /\ \A l \in Leases : (d.rsv \oplus g)[l] = IF l \in T THEN w ELSE d.rsv[l]
  BY <1>3, <1>5 DEF \oplus
<1> HIDE DEF g
<1>7. /\ e \in Databases /\ e.task = d.task /\ e.lease = d.lease /\ e.sess = d.sess
      /\ e.rsv = d.rsv \oplus g
  BY <1>3, <1>6 DEF Databases
<1> HIDE DEF e
<1>8. Reserves(d, e, T, s)
  BY <1>2, <1>4, <1>5, <1>6, <1>7 DEF Reserves
<1>9. Calms(d, e)
  BY <1>2, <1>3, <1>4, <1>8, ReserveIsCalm
<1>10. Calms(db, e)
  BY <1>1, <1>3, <1>9, PassesAreCalm, CalmComposes, TableRows
<1> QED
  BY <1>2, <1>10, RestIsCalm

LEMMA AbandonReservation ==
    ASSUME Tables, NEW l \in Leases, abandon_reservation(l)
    PROVE  CalmStep
<1> DEFINE d == refresh_exact_session_reservations(db)
           e == fail_cohorts(d, {d.rsv[l].key}, FALSE)
<1>1. Passes(db, d)
  BY TableRows, RefreshExact
<1>2. Commit(e) /\ Rest
  BY DEF abandon_reservation
<1> HIDE DEF d
<1>3. Passes(d, e)
  BY <1>1, FailCohorts DEF Passes
<1> HIDE DEF e
<1>4. Passes(db, e)
  BY <1>1, <1>3, PassesCompose, TableRows
<1> QED
  BY <1>2, <1>4, PassIsCalm

-----------------------------------------------------------------------------
(* The clients' side.                                                      *)

LEMMA NewLeaseRow ==
    ASSUME NEW b \in BOOLEAN
    PROVE  LET q == NewLease("queued", b)
           IN  /\ q \in LeaseRows /\ q.state = "queued" /\ q.on = NoSession
               /\ q.permit = 0 /\ (q.exact <=> b)
BY DEF NewLease, LeaseRows, LiveStates

LEMMA RequestRows ==
    ASSUME NEW d, Sound(d), NEW l \in Leases, d.lease[l].state = "none",
           d.task[l] # "queued",
           NEW q \in LeaseRows, NEW w \in RsvRows,
           q.state = "queued", q.permit = 0, w.on = d.rsv[l].on,
           \/ q.exact /\ d.rsv[l].state = "reserved" /\ w.state = "claimed"
           \/ ~q.exact /\ d.rsv[l].state = "none" /\ w.state = "none"
    PROVE  Calms(d, [d EXCEPT !.lease[l] = q, !.rsv[l] = w])
<1> DEFINE e == [d EXCEPT !.lease[l] = q, !.rsv[l] = w]
<1>1. d \in Databases /\ d.lease \in [Leases -> LeaseRows] /\ d.rsv \in [Leases -> RsvRows]
  BY DEF Sound, Databases
<1>2. /\ e \in Databases /\ e.task = d.task /\ e.sess = d.sess
      /\ e.lease = [d.lease EXCEPT ![l] = q] /\ e.rsv = [d.rsv EXCEPT ![l] = w]
  BY <1>1 DEF Databases
<1> HIDE DEF e
<1>3. /\ e.lease[l] = q /\ e.rsv[l] = w
      /\ \A m \in Leases \ {l} : e.lease[m] = d.lease[m] /\ e.rsv[m] = d.rsv[m]
  BY <1>1, <1>2
<1>4. q.state \notin SlotStates /\ d.lease[l].state \notin SlotStates
        /\ q.state \notin OwnerStates /\ d.lease[l].state \notin OwnerStates
  BY DEF SlotStates, OwnerStates
<1>5. ASSUME NEW m \in Leases PROVE LeaseSound(e, m) /\ PermitSound(e, m)
  <2>1. LeaseSound(d, m) /\ PermitSound(d, m)
    BY DEF Sound
  <2>2. CASE m = l
    BY <1>2, <1>3, <1>4, <2>2 DEF LeaseSound, PermitSound
  <2>3. CASE m # l
    BY <1>2, <1>3, <2>1, <2>3 DEF LeaseSound, PermitSound
  <2> QED BY <2>2, <2>3
<1>6. ASSUME NEW m \in Leases PROVE RsvSound(e, m)
  <2>1. RsvSound(d, m)
    BY DEF Sound
  <2>2. CASE m = l
    BY <1>3, <1>4, <2>2 DEF RsvSound, PendingRsv
  <2>3. CASE m # l
    BY <1>3, <2>1, <2>3 DEF RsvSound
  <2> QED BY <2>2, <2>3
<1>7. OnePermit(e)
  <2>1. OnePermit(d)
    BY DEF Sound
  <2> QED BY <1>3, <1>4, <2>1 DEF OnePermit
<1>8. Sound(e)
  BY <1>2, <1>5, <1>6, <1>7 DEF Sound
<1>9. \A s \in Sessions : Load(e, s) \subseteq Load(d, s)
  <2> SUFFICES ASSUME NEW s \in Sessions, NEW m \in Load(e, s) PROVE m \in Load(d, s)
    OBVIOUS
  <2>1. m \in Leases
    BY DEF Load, Occupants, Held
  <2>2. CASE m = l
    BY <1>3, <1>4, <2>2 DEF Load, Occupants, Held, PendingRsv
  <2>3. CASE m # l
    BY <1>3, <2>1, <2>3 DEF Load, Occupants, Held
  <2> QED BY <2>2, <2>3
<1>10. Fits(d) => Fits(e)
  BY <1>9, FitsByLoad
<1>11. Calm(d, e)
  <2>1. Calm(d, d) /\ LeaseSound(d, l)
    BY NothingIsCalm DEF Calms, Sound
  <2>2. CalmLease(d.lease[l], q)
    BY <1>4, <2>1 DEF CalmLease, LeaseSound
  <2>3. \A m \in Leases : CalmLease(d.lease[m], e.lease[m])
    BY <1>3, <2>1, <2>2 DEF Calm
  <2>4. ASSUME NEW m \in Leases PROVE OwnerKept(d, e, m)
    <3>1. CASE m = l
      BY <1>4, <3>1 DEF OwnerKept
    <3>2. CASE m # l
      BY <1>3, <3>2 DEF OwnerKept
    <3> QED BY <3>1, <3>2
  <2> QED BY <1>2, <2>1, <2>3, <2>4 DEF Calm
<1> QED
  BY <1>8, <1>10, <1>11 DEF Calms, e

LEMMA RequestLease ==
    ASSUME Tables, NEW l \in Leases, request_lease(l)
    PROVE  CalmStep
<1> DEFINE d == refresh_exact_session_reservations(db)
           pinned == d.rsv[l].state # "none"
           q == NewLease("queued", pinned)
           w == [d.rsv[l] EXCEPT !.state = IF pinned THEN "claimed" ELSE @]
           new == [d EXCEPT !.lease[l] = q,
                            !.rsv[l].state = IF pinned THEN "claimed" ELSE @]
<1>1. Passes(db, d)
  BY TableRows, RefreshExact
<1>2. /\ db.task[l] = "running" /\ d.lease[l].state = "none"
      /\ authorize_exact_session_reservation(d, l)
      /\ \E e \in place_queued_leases(new, {l}) : Commit(e)
      /\ Rest
  BY DEF request_lease
<1> HIDE DEF d
<1>3. /\ Sound(d) /\ d \in Databases /\ d.task = db.task
      /\ d.rsv[l] \in RsvRows /\ d.rsv \in [Leases -> RsvRows]
  <2>1. Sound(d) /\ d \in Databases /\ d.task = db.task
    BY <1>1 DEF Passes, Quiet, Sound
  <2> QED BY <2>1 DEF Databases
<1>4. q \in LeaseRows /\ q.state = "queued" /\ q.permit = 0 /\ (q.exact <=> pinned)
  BY NewLeaseRow
<1>5. w \in RsvRows /\ w.on = d.rsv[l].on /\ w.state = IF pinned THEN "claimed" ELSE "none"
  <2>1. CASE pinned
    <3>1. w = [d.rsv[l] EXCEPT !.state = "claimed"]
      BY <2>1
    <3> HIDE DEF w
    <3> QED BY <1>3, <2>1, <3>1 DEF RsvRows, LiveRsv, PendingRsv
  <2>2. CASE ~pinned
    <3>1. w = d.rsv[l]
      BY <1>3, <2>2 DEF RsvRows
    <3> QED BY <1>3, <2>2, <3>1
  <2> QED BY <2>1, <2>2
<1>6. pinned => d.rsv[l].state = "reserved"
  BY <1>2 DEF authorize_exact_session_reservation
<1>7. new = [d EXCEPT !.lease[l] = q, !.rsv[l] = w]
  BY <1>3 DEF Databases, RsvRows
<1> HIDE DEF q, w
<1>8. Calms(d, new)
  BY <1>2, <1>3, <1>4, <1>5, <1>6, <1>7, RequestRows
<1> HIDE DEF new
<1>9. Calms(db, new) /\ Sound(new)
  BY <1>1, <1>3, <1>8, PassesAreCalm, CalmComposes, TableRows DEF Calms
<1>10. PICK e \in place_queued_leases(new, {l}) : Commit(e)
  BY <1>2
<1>11. Calms(new, e) /\ Sound(e)
  BY <1>9, PlaceIsCalm DEF Calms
<1>12. Calms(db, e)
  BY <1>9, <1>11, CalmComposes, TableRows
<1> QED
  BY <1>2, <1>10, <1>12, RestIsCalm

LEMMA HeartbeatLease ==
    ASSUME Tables, NEW l \in Leases, heartbeat_lease(l)
    PROVE  CalmStep
<1> DEFINE q == Fresh(db.lease[l])
           d == [db EXCEPT !.lease[l] = q]
           d1 == refresh_exact_session_reservations(d)
<1>1. /\ IF db.lease[l].state = "queued" /\ enabled
         THEN \E e \in place_queued_leases(d1, {l}) : Commit(e)
         ELSE Commit(d)
      /\ Rest
  BY DEF heartbeat_lease
<1>2. q \in LeaseRows /\ LeaseKept(db.lease[l], q) /\ q.state = db.lease[l].state
  BY TableRows, FreshRow
<1> HIDE DEF q
<1>3. Passes(db, d)
  BY <1>2, TableRows, LeaseEdit
<1> HIDE DEF d
<1>4. CASE db.lease[l].state = "queued" /\ enabled
  <2>1. PICK e \in place_queued_leases(d1, {l}) : Commit(e)
    BY <1>1, <1>4
  <2>2. Passes(d, d1)
    BY <1>3, RefreshExact DEF Passes
  <2>3. Passes(db, d1) /\ Sound(d1)
    BY <1>3, <2>2, PassesCompose, TableRows DEF Passes
  <2> HIDE DEF d1
  <2>4. Calms(d1, e) /\ Sound(e)
    BY <2>3, PlaceIsCalm DEF Calms
  <2>5. Calms(db, e)
    BY <2>3, <2>4, PassesAreCalm, CalmComposes, TableRows
  <2> QED BY <1>1, <2>1, <2>5, RestIsCalm
<1>5. CASE ~(db.lease[l].state = "queued" /\ enabled)
  BY <1>1, <1>3, <1>5, PassIsCalm
<1> QED
  BY <1>4, <1>5

LEMMA CancelledPasses ==
    ASSUME NEW d, Sound(d), NEW l \in Leases, d.lease[l].state \in LiveStates
    PROVE  Passes(d, Cancelled(d, l))
<1> DEFINE r == d.lease[l]
<1>1. r \in LeaseRows
  BY RowTypes DEF Sound
<1>2. CASE r.state \in OwnerStates
  <2> DEFINE p == Releasing(r)
             q == [p EXCEPT !.aged = @ \ {"release"}]
             e == [d EXCEPT !.lease[l] = q]
  <2>1. p \in LeaseRows /\ LeaseKept(r, p) /\ p.state = "releasing"
    BY <1>1, <1>2, ReleasingRow
  <2>2. Cancelled(d, l) = BlockReuse(e, {r.on})
    BY <1>2 DEF Cancelled, OwnerStates
  <2> HIDE DEF p
  <2>3. /\ q \in LeaseRows /\ q.state = p.state /\ q.on = p.on /\ q.permit = p.permit
        /\ q.exact = p.exact
    BY <2>1 DEF LeaseRows
  <2> HIDE DEF q
  <2>4. LeaseKept(p, q)
    BY <2>3, <2>1 DEF LeaseKept, OwnerStates
  <2>5. LeaseKept(r, q)
    BY <2>1, <2>4, LeaseKeptComposes
  <2>6. Passes(d, e)
    BY <2>1, <2>3, <2>5, LeaseEdit DEF OwnerStates
  <2> HIDE DEF e
  <2>7. Passes(e, Cancelled(d, l))
    BY <2>2, <2>6, BlockReusePasses DEF Passes
  <2> QED BY <2>6, <2>7, PassesCompose
<1>3. CASE r.state \notin OwnerStates
  <2> DEFINE q == Dropped(r, "cancelled")
             e == [d EXCEPT !.lease[l] = q]
  <2>1. q \in LeaseRows /\ LeaseKept(r, q)
    BY <1>1, DroppedRow DEF EndStates
  <2>2. Cancelled(d, l) = refresh_session_state(e, {r.on})
    BY <1>3 DEF Cancelled, OwnerStates
  <2> HIDE DEF q
  <2>3. Passes(d, e)
    BY <1>3, <2>1, LeaseEdit
  <2> HIDE DEF e
  <2>4. Passes(e, Cancelled(d, l))
    BY <2>2, <2>3, RefreshPasses DEF Passes
  <2> QED BY <2>3, <2>4, PassesCompose
<1> QED
  BY <1>2, <1>3

LEMMA CancelLease ==
    ASSUME Tables, NEW l \in Leases, cancel_lease(l)
    PROVE  CalmStep
<1>1. Passes(db, Cancelled(db, l))
  BY TableRows, CancelledPasses DEF cancel_lease
<1> QED
  BY <1>1, PassIsCalm DEF cancel_lease

LEMMA TransportDeath ==
    ASSUME Tables, NEW l \in Leases, NEW s \in Sessions, report_transport_death(l, s)
    PROVE  CalmStep
<1> DEFINE r == db.sess[s]
           q == [r EXCEPT !.state = "unhealthy", !.why = "suspect",
                          !.drain = FALSE, !.over = FALSE]
<1>1. r.state \in Assignable /\ Commit([db EXCEPT !.sess[s] = q]) /\ Rest
  BY DEF report_transport_death
<1>2. r \in SessionRows
  BY TableRows
<1>3. /\ q \in SessionRows /\ q.state = "unhealthy" /\ q.gen = r.gen /\ q.token = r.token
      /\ q.silent = r.silent /\ q.sealed = r.sealed /\ q.blocked = r.blocked
  <2> HIDE DEF r
  <2> QED BY <1>2 DEF SessionRows, Visible, Faulty
<1> HIDE DEF q
<1>4. SessionKept(r, q)
  BY <1>1, <1>2, <1>3, LeavingRow DEF Gone, Confined, Assignable
<1>5. Passes(db, [db EXCEPT !.sess[s] = q])
  BY <1>3, <1>4, TableRows, SessionEdit
<1> QED
  BY <1>1, <1>5, PassIsCalm

LEMMA TaintPasses ==
    ASSUME NEW d, Sound(d), NEW a \in Allocs, NEW why \in DrainReasons
    PROVE  Passes(d, TaintAlloc(d, a, why))
<1> DEFINE q == IF d.alloc[a].state = "closed" THEN d.alloc[a]
                ELSE [d.alloc[a] EXCEPT !.state = "draining", !.why = why]
<1>1. d.alloc[a] \in AllocRows
  BY RowTypes DEF Sound
<1>2. q \in AllocRows
  BY <1>1 DEF AllocRows
<1>3. TaintAlloc(d, a, why) = [d EXCEPT !.alloc[a] = q]
  BY DEF TaintAlloc
<1> QED
  BY <1>2, <1>3, AllocEdit

LEMMA SolverTimeout ==
    ASSUME Tables, NEW l \in Leases, NEW s \in Sessions, report_solver_timeout(l, s)
    PROVE  CalmStep
<1> DEFINE p == Releasing(db.lease[l])
           d1 == IF db.lease[l].state \in {"attaching", "active"}
                 THEN [db EXCEPT !.lease[l] = p] ELSE db
           q0 == Draining(db.sess[s], "other")
           q1 == [q0 EXCEPT !.quar = "lease"]
           q == [q0 EXCEPT !.quar = "lease", !.blocked = Blocked(@)]
           d2 == IF db.sess[s].state \in Assignable \cup {"draining"}
                 THEN [d1 EXCEPT !.sess[s] = q] ELSE d1
           e == TaintAlloc(d2, Node[s], "other")
<1>1. Commit(e) /\ Rest
  BY DEF report_solver_timeout
<1>2. /\ db.sess[s] \in SessionRows /\ db.lease[l] \in LeaseRows
      /\ Node[s] \in Allocs
  BY TableRows
<1>3. Passes(db, d1) /\ d1.sess = db.sess
  <2>1. CASE db.lease[l].state \in {"attaching", "active"}
    <3>1. p \in LeaseRows /\ LeaseKept(db.lease[l], p) /\ p.state = "releasing"
      BY <1>2, <2>1, ReleasingRow DEF OwnerStates
    <3> HIDE DEF p
    <3>2. Passes(db, [db EXCEPT !.lease[l] = p])
      BY <3>1, TableRows, LeaseEdit DEF OwnerStates
    <3> QED BY <2>1, <3>2, TableRows DEF Databases
  <2>2. CASE db.lease[l].state \notin {"attaching", "active"}
    BY <2>2, PassesNothing, TableRows
  <2> QED BY <2>1, <2>2
<1> HIDE DEF d1
<1>4. Passes(d1, d2)
  <2>1. CASE db.sess[s].state \in Assignable \cup {"draining"}
    <3>1. ~Gone(db.sess[s])
      BY <2>1 DEF Gone, Assignable
    <3>2. q1 \in SessionRows /\ SessionKept(db.sess[s], q1) /\ (q1.sealed <=> db.sess[s].sealed)
      BY <1>2, <3>1, LeaseQuarantineRow
    <3>3. q = [q1 EXCEPT !.blocked = Blocked(@)]
      <4>1. q0 \in SessionRows
        BY <1>2, <3>1, DrainingRow DEF Faulty
      <4> HIDE DEF q0
      <4> QED BY <4>1 DEF SessionRows
    <3> HIDE DEF q, q1
    <3>4. q \in SessionRows /\ (q.sealed <=> q1.sealed) /\ SessionKept(q1, q)
      BY <3>2, <3>3, BlockedRow
    <3>5. SessionKept(d1.sess[s], q) /\ (d1.sess[s].sealed => q.sealed)
      BY <1>3, <3>2, <3>4, SessionKeptComposes
    <3>6. Passes(d1, [d1 EXCEPT !.sess[s] = q])
      BY <1>2, <1>3, <3>4, <3>5, SessionEdit DEF Passes
    <3> QED BY <2>1, <3>6
  <2>2. CASE db.sess[s].state \notin Assignable \cup {"draining"}
    BY <1>3, <2>2, PassesNothing DEF Passes
  <2> QED BY <2>1, <2>2
<1> HIDE DEF d2
<1>5. Passes(d2, e)
  BY <1>2, <1>4, TaintPasses DEF Passes, DrainReasons
<1> HIDE DEF e
<1>6. Passes(db, e)
  BY <1>3, <1>4, <1>5, PassesCompose, TableRows
<1> QED
  BY <1>1, <1>6, PassIsCalm

LEMMA OfferIsRefused ==
    ASSUME NEW d, Sound(d), NEW l \in Leases, d.lease[l].state = "offered"
    PROVE  Passes(d, OfferRefused(d, l))
<1> DEFINE d1 == fail_cohorts(d, {d.rsv[l].key}, FALSE)
           q == Ended(d.lease[l], "failed")
           d2 == [d1 EXCEPT !.lease[l] = q]
<1>1. Passes(d, d1)
  BY FailCohorts
<1>2. OfferRefused(d, l) = refresh_session_state(d2, {d.lease[l].on})
  BY DEF OfferRefused
<1>3. /\ q \in LeaseRows /\ q.state = "failed" /\ q.permit = d.lease[l].permit
      /\ LeaseKept(d.lease[l], q)
  BY RowTypes, EndedRow DEF Sound, LiveStates, SlotStates, EndStates
<1>4. d.lease[l].permit = 0
  BY DEF Sound, LeaseSound
<1> HIDE DEF d1, q
<1>5. LeaseKept(d.lease[l], d1.lease[l]) /\ Sound(d1)
  BY <1>1 DEF Passes, Quiet
<1>6. d1.lease[l].state \notin OwnerStates
  BY <1>5 DEF LeaseKept, OwnerStates
<1>7. LeaseKept(d1.lease[l], q)
  BY <1>3, <1>4, <1>5 DEF LeaseKept, LiveStates, SlotStates, OwnerStates
<1>8. Passes(d1, d2)
  BY <1>3, <1>5, <1>6, <1>7, LeaseEdit
<1> HIDE DEF d2
<1>9. Passes(d2, OfferRefused(d, l))
  BY <1>2, <1>8, RefreshPasses DEF Passes
<1> QED
  BY <1>1, <1>8, <1>9, PassesCompose

LEMMA OfferIsRevoked ==
    ASSUME NEW d, Sound(d), NEW l \in Leases, d.lease[l].state = "offered",
           d.lease[l].exact => d.rsv[l].state = "consumed"
    PROVE  Passes(d, OfferRevoked(d, l))
<1> DEFINE r == d.lease[l]
           p == Requeued(r)
           q == Fresh(p)
           v == d.rsv[l]
           w == [v EXCEPT !.state = "claimed"]
           f == [m \in {l} |-> q]
           G == IF r.exact THEN {l} ELSE {}
           g == [m \in G |-> w]
           e == [d EXCEPT !.lease[l] = q,
                          !.rsv[l].state = IF r.exact THEN "claimed" ELSE @]
<1>1. d \in Databases /\ r \in LeaseRows /\ v \in RsvRows
        /\ d.lease \in [Leases -> LeaseRows] /\ d.rsv \in [Leases -> RsvRows]
  BY RowTypes DEF Sound, Databases
<1>2. p \in LeaseRows /\ LeaseKept(r, p) /\ p.state = "queued"
  BY <1>1, RequeuedRow DEF LiveStates, SlotStates
<1> HIDE DEF p
<1>3. q \in LeaseRows /\ LeaseKept(p, q) /\ q.state = "queued"
  BY <1>2, FreshRow
<1> HIDE DEF q
<1>4. LeaseKept(r, q)
  BY <1>2, <1>3, LeaseKeptComposes
<1>5. w \in RsvRows /\ w.state = "claimed" /\ w.on = v.on
  <2> HIDE DEF v
  <2> QED BY <1>1 DEF RsvRows, LiveRsv, PendingRsv
<1>6. OfferRevoked(d, l) = refresh_session_state(e, {r.on})
  BY DEF OfferRevoked, q, p
<1>7. e = Rewritten(d, f, g)
  <2>1. d.lease \oplus f = [d.lease EXCEPT ![l] = q]
    BY <1>1 DEF \oplus
  <2>2. CASE r.exact
    <3>1. d.rsv \oplus g = [d.rsv EXCEPT ![l] = w]
      BY <1>1, <2>2 DEF \oplus
    <3>2. e = [d EXCEPT !.lease = [d.lease EXCEPT ![l] = q], !.rsv = [d.rsv EXCEPT ![l] = w]]
      BY <1>1, <2>2 DEF Databases
    <3> QED BY <2>1, <3>1, <3>2 DEF Rewritten
  <2>3. CASE ~r.exact
    <3>1. d.rsv \oplus g = d.rsv
      BY <1>1, <2>3 DEF \oplus
    <3>2. e = [d EXCEPT !.lease = [d.lease EXCEPT ![l] = q], !.rsv = d.rsv]
      <4>1. [d.rsv[l] EXCEPT !.state = d.rsv[l].state] = d.rsv[l]
        BY <1>1 DEF RsvRows
      <4>2. [d.rsv EXCEPT ![l].state = d.rsv[l].state] = d.rsv
        BY <1>1, <4>1
      <4>3. e = [d EXCEPT !.lease[l] = q, !.rsv[l].state = d.rsv[l].state]
        BY <2>3
      <4> QED BY <1>1, <4>2, <4>3 DEF Databases
    <3> QED BY <2>1, <3>1, <3>2 DEF Rewritten
  <2> QED BY <2>2, <2>3
<1> HIDE DEF w
<1>8. LeaseUpdate(d, {l}, f, G, g)
  <2>1. f \in [{l} -> LeaseRows] /\ g \in [G -> RsvRows] /\ G \subseteq {l}
    BY <1>3, <1>5
  <2>2. r.state \notin OwnerStates /\ r.state \in SlotStates /\ q.state \notin SlotStates
    BY <1>3 DEF OwnerStates, SlotStates
  <2>3. \A m \in {l} \cap Leases : LeaseKept(d.lease[m], f[m])
    BY <1>4
  <2>4. \A m \in G \cap Leases : /\ g[m].on = d.rsv[m].on
                                 /\ d.rsv[m].state = "consumed" /\ g[m].state = "claimed"
    BY <1>5
  <2>5. \A m \in G \cap Leases : m \in {l} /\ f[m].state \notin SlotStates
                                   /\ d.lease[m].state \in SlotStates
    BY <2>2
  <2>6. \A m \in {l} \cap Leases : d.lease[m].state \notin OwnerStates
    BY <2>2
  <2> HIDE DEF f, g, G
  <2> QED BY <2>1, <2>3, <2>4, <2>5, <2>6 DEF LeaseUpdate
<1> HIDE DEF e, f, g, G
<1>9. Passes(d, e)
  BY <1>7, <1>8, LeasePass
<1>10. Passes(e, OfferRevoked(d, l))
  BY <1>6, <1>9, RefreshPasses DEF Passes
<1> QED
  BY <1>9, <1>10, PassesCompose

(* An offer is accepted on a Desktop that still takes projects.            *)
Attach(d, e, l, s) ==
    /\ e \in Databases /\ e.task = d.task /\ e.rsv = d.rsv /\ e.sess = d.sess
    /\ \A m \in Leases \ {l} : e.lease[m] = d.lease[m]
    /\ d.lease[l].state = "offered" /\ d.lease[l].on = s
    /\ e.lease[l].state = "attaching" /\ e.lease[l].on = s
    /\ e.lease[l].permit = 0 /\ (e.lease[l].exact <=> d.lease[l].exact)
    /\ s \in Sessions /\ d.sess[s].state \in Assignable

AttachStep(l) ==
    /\ Attach(db, db', l, db.lease[l].on)
    /\ project' = [project EXCEPT ![l] = db.lease[l].on]
    /\ UNCHANGED <<up, solving, unproven, lifted>>

LEMMA AcceptLease ==
    ASSUME Tables, NEW l \in Leases, accept_lease(l)
    PROVE  CalmStep \/ AttachStep(l)
<1> DEFINE r == db.lease[l]
           q == [Fresh(r) EXCEPT !.state = "attaching"]
           e == [db EXCEPT !.lease[l] = q]
<1>1. /\ r.state = "offered" /\ r \in LeaseRows /\ Sound(db) /\ db \in Databases
      /\ UNCHANGED <<up, unproven, lifted>>
  BY TableRows DEF accept_lease
<1>2. r.on \in Sessions /\ r.permit = 0
  BY <1>1 DEF Sound, LeaseSound, SlotStates
<1>3. CASE OfferIsLost(db, l) /\ r.exact
  <2>1. Commit(OfferRefused(db, l)) /\ UNCHANGED project
    BY <1>3 DEF accept_lease
  <2>2. Calms(db, OfferRefused(db, l))
    BY <1>1, OfferIsRefused, PassesAreCalm
  <2> QED BY <1>1, <2>1, <2>2, CommitCalmly DEF CalmStep
<1>4. CASE ~OfferIsLost(db, l) /\ ~OfferIsEarly(db, l)
  <2>1. Commit(e) /\ project' = [project EXCEPT ![l] = r.on]
    BY <1>4 DEF accept_lease
  <2>2. Fresh(r) \in LeaseRows /\ Fresh(r).on = r.on /\ Fresh(r).permit = r.permit
          /\ (Fresh(r).exact <=> r.exact)
    BY <1>1, FreshRow
  <2>3. q \in LeaseRows /\ q.state = "attaching" /\ q.on = r.on /\ q.permit = 0
          /\ (q.exact <=> r.exact)
    <3> DEFINE p == Fresh(r)
    <3> HIDE DEF p
    <3>1. [p EXCEPT !.state = "attaching"] \in LeaseRows
      BY <2>2 DEF p, LeaseRows, LiveStates, SlotStates, OwnerStates
    <3>2. LET t == [p EXCEPT !.state = "attaching"]
          IN  t.state = "attaching" /\ t.on = p.on /\ t.permit = p.permit /\ t.exact = p.exact
      BY <2>2 DEF p, LeaseRows
    <3> QED BY <1>2, <2>2, <3>1, <3>2 DEF p
  <2> HIDE DEF q
  <2>4. /\ e \in Databases /\ e.task = db.task /\ e.rsv = db.rsv /\ e.sess = db.sess
        /\ e.lease = [db.lease EXCEPT ![l] = q]
    BY <1>1, <2>3 DEF Databases
  <2>5. db.lease \in [Leases -> LeaseRows]
    BY <1>1 DEF Databases
  <2> HIDE DEF e
  <2>6. e.lease[l] = q /\ \A m \in Leases \ {l} : e.lease[m] = db.lease[m]
    BY <2>4, <2>5
  <2>7. db.sess[r.on].state \in Assignable
    BY <1>4 DEF OfferIsLost, Usable
  <2>8. Attach(db, e, l, r.on)
    BY <1>1, <1>2, <2>3, <2>4, <2>6, <2>7 DEF Attach
  <2>9. db' = e
    BY <2>1 DEF Commit
  <2>10. solving' = solving
    <3>1. \A m \in Leases : ~(e.lease[m].permit > db.lease[m].permit)
      <4> TAKE m \in Leases
      <4>1. db.lease[m].permit \in Nat
        BY TableRows DEF LeaseRows
      <4>2. e.lease[m].permit = 0 \/ e.lease[m].permit = db.lease[m].permit
        BY <2>3, <2>6
      <4> QED BY <4>1, <4>2
    <3>2. {m \in Leases : e.lease[m].permit > db.lease[m].permit} = {}
      BY <3>1
    <3>3. solving' = solving \oplus [m \in {} |-> e.lease[m].on]
      BY <2>1, <3>2 DEF Commit
    <3>4. solving \in [Leases -> Sessions \cup {NoSession}]
      BY DEF Tables, TypeOK
    <3> QED BY <3>3, <3>4 DEF \oplus
  <2> QED BY <1>1, <2>1, <2>8, <2>9, <2>10 DEF AttachStep
<1>5. CASE /\ ~(OfferIsLost(db, l) /\ r.exact)
           /\ ~(~OfferIsLost(db, l) /\ ~OfferIsEarly(db, l))
  <2>1. Commit(OfferRevoked(db, l)) /\ UNCHANGED project
    BY <1>5 DEF accept_lease
  <2>2. r.exact => db.rsv[l].state = "consumed"
    BY <1>5 DEF OfferIsLost
  <2>3. Calms(db, OfferRevoked(db, l))
    BY <1>1, <2>2, OfferIsRevoked, PassesAreCalm
  <2> QED BY <1>1, <2>1, <2>3, CommitCalmly DEF CalmStep
<1> QED
  BY <1>3, <1>4, <1>5

(* An owner is activated, heard from or attests; it keeps its permit.      *)
LEMMA OwnerEdit ==
    ASSUME NEW d, Sound(d), NEW l \in Leases, NEW q \in LeaseRows,
           d.lease[l].state \in {"attaching", "active"}, q.state = "active",
           q.on = d.lease[l].on, q.permit = d.lease[l].permit, q.exact <=> d.lease[l].exact
    PROVE  /\ Calms(d, [d EXCEPT !.lease[l] = q])
           /\ \A s : Permits([d EXCEPT !.lease[l] = q], s) = Permits(d, s)
<1> DEFINE e == [d EXCEPT !.lease[l] = q]
<1>1. d \in Databases /\ d.lease \in [Leases -> LeaseRows]
  BY DEF Sound, Databases
<1>2. /\ e \in Databases /\ e.task = d.task /\ e.sess = d.sess /\ e.rsv = d.rsv
      /\ e.lease = [d.lease EXCEPT ![l] = q]
  BY <1>1 DEF Databases
<1> HIDE DEF e
<1>3. e.lease[l] = q /\ \A m \in Leases \ {l} : e.lease[m] = d.lease[m]
  BY <1>1, <1>2
<1>4. ASSUME NEW m \in Leases
      PROVE  /\ e.lease[m].state \in SlotStates <=> d.lease[m].state \in SlotStates
             /\ e.lease[m].state \in OwnerStates <=> d.lease[m].state \in OwnerStates
             /\ e.lease[m].state \in LiveStates <=> d.lease[m].state \in LiveStates
             /\ e.lease[m].state = "none" <=> d.lease[m].state = "none"
             /\ e.lease[m].on = d.lease[m].on /\ e.lease[m].permit = d.lease[m].permit
             /\ e.lease[m].exact <=> d.lease[m].exact
             /\ e.lease[m].state \in {"attaching", "active"}
                  <=> d.lease[m].state \in {"attaching", "active"}
             /\ e.lease[m].state = d.lease[m].state \/ e.lease[m].state = "active"
  <2>1. CASE m = l
    BY <1>3, <2>1 DEF SlotStates, OwnerStates, LiveStates
  <2>2. CASE m # l
    BY <1>3, <2>2
  <2> QED BY <2>1, <2>2
<1>5. ASSUME NEW m \in Leases PROVE LeaseSound(e, m)
  <2>1. LeaseSound(d, m)
    BY DEF Sound
  <2> QED BY <1>2, <1>4, <2>1 DEF LeaseSound
<1>6. ASSUME NEW m \in Leases PROVE PermitSound(e, m) /\ RsvSound(e, m)
  <2>1. PermitSound(d, m) /\ RsvSound(d, m)
    BY DEF Sound
  <2> QED BY <1>2, <1>4, <2>1 DEF PermitSound, RsvSound
<1>7. OnePermit(e)
  BY <1>4 DEF Sound, OnePermit
<1>8. Sound(e)
  BY <1>2, <1>5, <1>6, <1>7 DEF Sound
<1>9. \A s : Occupants(e, s) = Occupants(d, s) /\ Permits(e, s) = Permits(d, s)
  BY <1>4 DEF Occupants, Permits
<1>10. Fits(d) => Fits(e)
  BY <1>2, <1>9 DEF Fits, Load, Held
<1>11. Calm(d, e)
  <2>1. Calm(d, d)
    BY NothingIsCalm DEF Calms
  <2>2. \A m \in Leases : CalmLease(d.lease[m], e.lease[m])
    BY <1>4 DEF CalmLease
  <2>3. \A m \in Leases : OwnerKept(d, e, m)
    BY <1>4 DEF OwnerKept
  <2> QED BY <1>2, <2>1, <2>2, <2>3 DEF Calm
<1> QED
  BY <1>8, <1>9, <1>10, <1>11 DEF Calms, e

(* One permit is granted, on a Desktop that has none.                      *)
GrantStep ==
    \E s \in Sessions, l \in Leases : \E d :
        /\ Calms(db, d) /\ Permits(db, s) = {}
        /\ l \in Waiting(d, s) /\ d.sess[s].state \in Assignable
        /\ Permitting(d, s, l, db')
        /\ Sound(db') /\ (Fits(db) => Fits(db'))
        /\ solving' = [solving EXCEPT ![l] = s]
        /\ UNCHANGED <<up, project, unproven, lifted>>

LEMMA GrantCommits ==
    ASSUME Tables, NEW s \in Sessions, NEW d0, Calms(db, d0),
           \A t : Permits(d0, t) = Permits(db, t),
           NEW b \in BOOLEAN, NEW e \in grant_solve_batch_if_ready(d0, s, b),
           Commit(e), Rest
    PROVE  CalmStep \/ GrantStep
<1>1. Sound(d0) /\ Sound(db) /\ db \in Databases
  BY TableRows DEF Calms
<1>2. Calms(d0, e) \/ Grant(d0, e, s)
  BY <1>1, GrantOutcome
<1>3. CASE Calms(d0, e)
  <2>1. Calms(db, e)
    BY <1>1, <1>3, CalmComposes DEF Calms
  <2> QED BY <2>1, RestIsCalm
<1>4. CASE Grant(d0, e, s)
  <2>1. PICK d : \E l \in Waiting(d, s) :
                   /\ Calms(d0, d) /\ e = Permit(d, s, l)
                   /\ d.sess[s].state \in Assignable
                   /\ Permits(d0, s) = {}
    BY <1>4 DEF Grant
  <2>2. PICK l \in Waiting(d, s) : e = Permit(d, s, l)
    BY <2>1
  <2>3. Sound(d) /\ Calms(db, d) /\ Permits(db, s) = {}
    BY <1>1, <2>1, CalmComposes DEF Calms
  <2>4. l \in Leases /\ d.lease[l].on = s /\ d.lease[l].state = "active" /\ d.lease[l].permit = 0
    BY <2>2 DEF Waiting, Occupants
  <2>5. Permitting(d, s, l, e)
    BY <2>2, <2>3, PermitRows
  <2>6. Sound(e) /\ (Fits(db) => Fits(e))
    BY <1>1, <1>4, GrantIsSound DEF Calms
  <2>7. db' = e
    BY DEF Commit
  <2>8. solving' = [solving EXCEPT ![l] = s]
    <3>1. \A m \in Leases : CalmLease(db.lease[m], d.lease[m])
      BY <2>3 DEF Calms, Calm
    <3>2. \A m \in Leases : db.lease[m].permit \in Nat
      BY TableRows DEF LeaseRows
    <3>3. d.sess[s].gen \in Nat
      BY <2>3, RowTypes DEF Sound, SessionRows
    <3>4. db.lease[l].permit = 0
      BY <2>4, <3>1 DEF CalmLease, OwnerStates
    <3>5. e.lease[l].permit > db.lease[l].permit /\ e.lease[l].on = s
      BY <2>4, <2>5, <3>3, <3>4 DEF Permitting
    <3>6. \A m \in Leases \ {l} : ~(e.lease[m].permit > db.lease[m].permit)
      <4> TAKE m \in Leases \ {l}
      <4>1. e.lease[m].permit = 0 \/ e.lease[m].permit = db.lease[m].permit
        BY <2>5, <3>1 DEF Permitting, CalmLease
      <4> QED BY <3>2, <4>1
    <3>7. {m \in Leases : e.lease[m].permit > db.lease[m].permit} = {l}
      BY <2>4, <3>5, <3>6
    <3>8. solving' = solving \oplus [m \in {l} |-> e.lease[m].on]
      BY <3>7 DEF Commit
    <3>9. solving \in [Leases -> Sessions \cup {NoSession}]
      BY DEF Tables, TypeOK
    <3> QED BY <2>4, <3>5, <3>8, <3>9 DEF \oplus
  <2> QED BY <2>1, <2>2, <2>3, <2>4, <2>5, <2>6, <2>7, <2>8 DEF GrantStep, Rest
<1> QED
  BY <1>2, <1>3, <1>4

LEMMA ActiveRow ==
    ASSUME NEW r \in LeaseRows
    PROVE  LET q == [Fresh(r) EXCEPT !.state = "active"]
           IN  /\ q \in LeaseRows /\ q.state = "active" /\ q.on = r.on
               /\ q.permit = r.permit /\ (q.exact <=> r.exact)
<1> DEFINE p == Fresh(r)
           q == [p EXCEPT !.state = "active"]
<1>1. p \in LeaseRows /\ p.on = r.on /\ p.permit = r.permit /\ (p.exact <=> r.exact)
  BY FreshRow
<1> HIDE DEF p
<1>2. q \in LeaseRows
  BY <1>1 DEF LeaseRows, LiveStates, SlotStates, OwnerStates
<1>3. q.state = "active" /\ q.on = p.on /\ q.permit = p.permit /\ q.exact = p.exact
  BY <1>1 DEF LeaseRows
<1> HIDE DEF q
<1> QED BY <1>1, <1>2, <1>3 DEF q, p

LEMMA ActivateLease ==
    ASSUME Tables, NEW l \in Leases, activate_lease(l)
    PROVE  CalmStep \/ GrantStep
<1> DEFINE q == [Fresh(db.lease[l]) EXCEPT !.state = "active"]
           d0 == [db EXCEPT !.lease[l] = q]
           s == db.lease[l].on
<1>1. db.lease[l].state = "attaching" /\ Rest
  BY DEF activate_lease
<1>2. PICK e \in grant_solve_batch_if_ready(d0, s, FALSE) : Commit(e)
  BY DEF activate_lease
<1>3. /\ q \in LeaseRows /\ q.state = "active" /\ q.on = db.lease[l].on
      /\ q.permit = db.lease[l].permit /\ (q.exact <=> db.lease[l].exact)
  BY TableRows, ActiveRow
<1>4. s \in Sessions
  BY <1>1, TableRows DEF Sound, LeaseSound, SlotStates, OwnerStates
<1> HIDE DEF q
<1>5. Calms(db, d0) /\ \A t : Permits(d0, t) = Permits(db, t)
  BY <1>1, <1>3, TableRows, OwnerEdit
<1> HIDE DEF d0
<1> QED
  BY <1>1, <1>2, <1>4, <1>5, GrantCommits

LEMMA RequestSolvePermit ==
    ASSUME Tables, NEW l \in Leases, NEW b \in BOOLEAN, request_solve_permit(l, b)
    PROVE  CalmStep \/ GrantStep
<1> DEFINE q == Fresh(db.lease[l])
           d0 == [db EXCEPT !.lease[l] = q]
           s == db.lease[l].on
<1>1. db.lease[l].state = "active" /\ Rest
  BY DEF request_solve_permit
<1>2. PICK e \in grant_solve_batch_if_ready(d0, s, b) : Commit(e)
  BY DEF request_solve_permit
<1>3. /\ q \in LeaseRows /\ q.state = "active" /\ q.on = db.lease[l].on
      /\ q.permit = db.lease[l].permit /\ (q.exact <=> db.lease[l].exact)
  BY <1>1, TableRows, FreshRow
<1>4. s \in Sessions
  BY <1>1, TableRows DEF Sound, LeaseSound, SlotStates, OwnerStates
<1> HIDE DEF q
<1>5. Calms(db, d0) /\ \A t : Permits(d0, t) = Permits(db, t)
  BY <1>1, <1>3, TableRows, OwnerEdit
<1> HIDE DEF d0
<1> QED
  BY <1>1, <1>2, <1>4, <1>5, GrantCommits

(* The pipeline of l is attested or its project is closed.                 *)
SettleStep(l) ==
    /\ Calms(db, db')
    /\ solving' = [solving EXCEPT ![l] = NoSession]
    /\ \/ UNCHANGED project
       \/ project' = [project EXCEPT ![l] = NoSession] /\ db'.lease[l].state = "releasing"
    /\ UNCHANGED <<up, unproven, lifted>>

LEMMA CompleteNative ==
    ASSUME Tables, NEW l \in Leases, complete_native_pipeline(l)
    PROVE  SettleStep(l)
<1> DEFINE r == db.lease[l]
           p == Fresh(r)
           n == <<r.on, r.permit>>
           q == [p EXCEPT !.native = n]
<1>1. /\ r.state = "active" /\ db' = [db EXCEPT !.lease[l] = q]
      /\ solving' = [solving EXCEPT ![l] = NoSession] /\ Rest
  BY DEF complete_native_pipeline
<1>2. r \in LeaseRows
  BY TableRows
<1>3. /\ p \in LeaseRows /\ p.state = r.state /\ p.on = r.on /\ p.permit = r.permit
      /\ (p.exact <=> r.exact)
  BY <1>2, FreshRow
<1>4. n \in (Sessions \cup {NoSession}) \X Nat
  BY <1>2 DEF LeaseRows
<1> HIDE DEF p, n
<1>5. q \in LeaseRows
  BY <1>3, <1>4 DEF LeaseRows
<1>6. q.state = p.state /\ q.on = p.on /\ q.permit = p.permit /\ q.exact = p.exact
  BY <1>3 DEF LeaseRows
<1> HIDE DEF q
<1>7. Calms(db, [db EXCEPT !.lease[l] = q])
  BY <1>1, <1>3, <1>5, <1>6, TableRows, OwnerEdit
<1> QED
  BY <1>1, <1>7 DEF SettleStep, Rest

-----------------------------------------------------------------------------
(* The tick, the operator and time.                                        *)

LEMMA FailSessionStart ==
    ASSUME Tables, NEW s \in Sessions, fail_session_start(s)
    PROVE  CalmStep
<1> DEFINE r == db.sess[s]
           q == [r EXCEPT !.state = "failed", !.why = "other"]
<1>1. r.state = "starting" /\ Commit([db EXCEPT !.sess[s] = q]) /\ Rest
  BY DEF fail_session_start
<1>2. r \in SessionRows
  BY TableRows
<1>3. /\ q \in SessionRows /\ q.state = "failed" /\ q.gen = r.gen /\ q.token = r.token
      /\ q.silent = r.silent /\ q.sealed = r.sealed /\ q.blocked = r.blocked
  <2> HIDE DEF r
  <2> QED BY <1>2 DEF SessionRows, Faulty
<1> HIDE DEF q
<1>4. SessionKept(r, q)
  BY <1>1, <1>2, <1>3, LeavingRow DEF Gone, Confined, Assignable
<1>5. Passes(db, [db EXCEPT !.sess[s] = q])
  BY <1>3, <1>4, TableRows, SessionEdit
<1> QED
  BY <1>1, <1>5, PassIsCalm

LEMMA ReconcileTick ==
    ASSUME Tables, reconcile_tick
    PROVE  CalmStep
<1>1. PICK blocked, pressed : \E e \in reconcile(db, blocked, pressed) : Commit(e)
  BY DEF reconcile_tick
<1>2. PICK e \in reconcile(db, blocked, pressed) : Commit(e)
  BY <1>1
<1>3. Calms(db, e)
  BY TableRows, ReconcileIsCalm
<1> QED
  BY <1>2, <1>3, RestIsCalm DEF reconcile_tick

LEMMA ProbeDeadSession ==
    ASSUME Tables, NEW s \in Sessions, probe_dead_session(s)
    PROVE  CalmStep
<1>1. Calms(db, db)
  BY TableRows, NothingIsCalm
<1> QED
  BY <1>1 DEF probe_dead_session, CalmStep

LEMMA ReapDeadSession ==
    ASSUME Tables, NEW s \in Sessions, reap_dead_session(s)
    PROVE  CalmStep
<1> DEFINE r == db.sess[s]
           q == [r EXCEPT !.state = "closed"]
           d == [db EXCEPT !.sess[s].state = "closed"]
<1>0. (\E e \in reconcile(d, {}, {}) : Commit(e)) \/ Commit(db)
  BY DEF reap_dead_session
<1>0a. UNCHANGED <<up, project, unproven, lifted>>
  BY DEF reap_dead_session
<1>0b. CASE Commit(db)
  <2>1. Calms(db, db)
    BY TableRows, NothingIsCalm
  <2> QED BY <1>0a, <1>0b, <2>1, CommitCalmly DEF CalmStep
<1> SUFFICES ASSUME \E e \in reconcile(d, {}, {}) : Commit(e)
             PROVE  CalmStep
  BY <1>0, <1>0b
<1>1. PICK e \in reconcile(d, {}, {}) : Commit(e)
  OBVIOUS
<1>2. r \in SessionRows
  BY TableRows
<1>3. /\ q \in SessionRows /\ q.state = "closed" /\ q.gen = r.gen /\ q.token = r.token
      /\ q.silent = r.silent /\ q.sealed = r.sealed /\ q.blocked = r.blocked
  <2> HIDE DEF r
  <2> QED BY <1>2 DEF SessionRows
<1>4. d = [db EXCEPT !.sess[s] = q]
  BY TableRows DEF Databases
<1> HIDE DEF q
<1>5. SessionKept(r, q)
  BY <1>3 DEF SessionKept, Gone, Assignable
<1>6. Passes(db, d)
  BY <1>3, <1>4, <1>5, TableRows, SessionEdit
<1> HIDE DEF d
<1>7. Calms(d, e) /\ Sound(d) /\ Sound(e)
  BY <1>6, ReconcileIsCalm DEF Passes, Calms
<1>8. Calms(db, e)
  BY <1>6, <1>7, PassesAreCalm, CalmComposes, TableRows
<1> QED
  BY <1>0a, <1>1, <1>8, CommitCalmly DEF CalmStep

LEMMA CloseEmptyAllocation ==
    ASSUME Tables, NEW a \in Allocs, close_empty_allocation(a)
    PROVE  CalmStep
<1> DEFINE q == [db.alloc[a] EXCEPT !.state = "closed"]
<1>1. Commit([db EXCEPT !.alloc[a].state = "closed"]) /\ Rest
  BY DEF close_empty_allocation
<1>2. q \in AllocRows
  BY TableRows DEF AllocRows
<1>3. [db EXCEPT !.alloc[a].state = "closed"] = [db EXCEPT !.alloc[a] = q]
  BY TableRows DEF Databases
<1> HIDE DEF q
<1>4. Passes(db, [db EXCEPT !.alloc[a] = q])
  BY <1>2, TableRows, AllocEdit
<1> QED
  BY <1>1, <1>3, <1>4, PassIsCalm

LEMMA AllocationAges ==
    ASSUME Tables, NEW a \in Allocs, allocation_ages(a)
    PROVE  CalmStep
<1> DEFINE q == [db.alloc[a] EXCEPT !.old = TRUE]
<1>1. Commit([db EXCEPT !.alloc[a].old = TRUE]) /\ Rest
  BY DEF allocation_ages
<1>2. q \in AllocRows
  BY TableRows DEF AllocRows
<1>3. [db EXCEPT !.alloc[a].old = TRUE] = [db EXCEPT !.alloc[a] = q]
  BY TableRows DEF Databases
<1> HIDE DEF q
<1>4. Passes(db, [db EXCEPT !.alloc[a] = q])
  BY <1>2, TableRows, AllocEdit
<1> QED
  BY <1>1, <1>3, <1>4, PassIsCalm

LEMMA SetEnabled ==
    ASSUME Tables, NEW on \in BOOLEAN, set_enabled(on)
    PROVE  CalmStep
<1> DEFINE e == IF on THEN db ELSE request_sessions_drain(db, Allocs)
<1>1. Commit(e) /\ UNCHANGED <<up, project, unproven, lifted>>
  BY DEF set_enabled
<1>2. Passes(db, e)
  BY TableRows, PassesNothing, RequestSessionsDrain
<1> HIDE DEF e
<1>3. Calms(db, e)
  BY <1>2, TableRows, PassesAreCalm
<1> QED
  BY <1>1, <1>3, CommitCalmly DEF CalmStep

LEMMA LeaseWindowPasses ==
    ASSUME Tables, NEW l \in Leases, NEW w \in Windows, lease_window_passes(l, w)
    PROVE  CalmStep
<1> DEFINE r == db.lease[l]
           q == [r EXCEPT !.aged = @ \cup {w}]
<1>1. Commit([db EXCEPT !.lease[l].aged = @ \cup {w}]) /\ Rest
  BY DEF lease_window_passes
<1>2. r \in LeaseRows
  BY TableRows
<1>3. [db EXCEPT !.lease[l].aged = @ \cup {w}] = [db EXCEPT !.lease[l] = q]
  BY TableRows DEF Databases
<1>4. q \in LeaseRows
  BY <1>2 DEF LeaseRows
<1>5. q.state = r.state /\ q.on = r.on /\ q.permit = r.permit /\ q.exact = r.exact
  BY <1>2 DEF LeaseRows
<1> HIDE DEF q
<1>6. LeaseKept(r, q)
  BY <1>5 DEF LeaseKept, OwnerStates
<1>7. Passes(db, [db EXCEPT !.lease[l] = q])
  BY <1>4, <1>5, <1>6, TableRows, LeaseEdit
<1> QED
  BY <1>1, <1>3, <1>7, PassIsCalm

LEMMA ReservationExpires ==
    ASSUME Tables, NEW k \in Leases, reservation_expires(k)
    PROVE  CalmStep
<1> DEFINE C == Cohort(db, k)
           g == [l \in C |-> [db.rsv[l] EXCEPT !.over = TRUE]]
           e == [db EXCEPT !.rsv = @ \oplus g]
<1>1. Commit(e) /\ Rest
  BY DEF reservation_expires
<1>2. C \subseteq Leases
  BY DEF Cohort
<1>3. db.rsv \in [Leases -> RsvRows] /\ db \in Databases
  BY TableRows DEF Databases
<1>4. ASSUME NEW l \in C
      PROVE  g[l] \in RsvRows /\ g[l].on = db.rsv[l].on /\ g[l].state = db.rsv[l].state
  <2> DEFINE v == db.rsv[l]
  <2>1. v \in RsvRows /\ g[l] = [v EXCEPT !.over = TRUE]
    BY <1>2, <1>3
  <2> HIDE DEF v, g
  <2> QED BY <2>1 DEF RsvRows, v
<1>5. DOMAIN g = C
  OBVIOUS
<1> HIDE DEF g, C
<1>6. /\ db.rsv \oplus g \in [Leases -> RsvRows]
      /\ \A l \in Leases : (db.rsv \oplus g)[l] = IF l \in C THEN g[l] ELSE db.rsv[l]
  BY <1>2, <1>3, <1>4, <1>5 DEF \oplus
<1>7. /\ e \in Databases /\ e.task = db.task /\ e.lease = db.lease /\ e.sess = db.sess
      /\ e.rsv = db.rsv \oplus g
  BY <1>3, <1>6 DEF Databases
<1> HIDE DEF e
<1>8. \A l \in Leases : e.rsv[l].on = db.rsv[l].on /\ e.rsv[l].state = db.rsv[l].state
  BY <1>4, <1>6, <1>7
<1>9. Quiet(db, e)
  <2>1. Quiet(db, db)
    BY TableRows, PassesNothing DEF Passes
  <2>2. \A l \in Leases : RsvKept(db.rsv[l], e.rsv[l], db.lease[l], e.lease[l])
    BY <1>8 DEF RsvKept
  <2>3. \A l \in Leases : OwnerKept(db, e, l)
    BY <1>7, <2>1 DEF Quiet, OwnerKept
  <2> QED BY <1>7, <2>1, <2>2, <2>3 DEF Quiet
<1>10. Passes(db, e)
  BY <1>7, <1>9, PassesByQuiet, TableRows
<1> QED
  BY <1>1, <1>10, PassIsCalm

LEMMA RecycleGracePasses ==
    ASSUME Tables, NEW s \in Sessions, recycle_grace_passes(s)
    PROVE  CalmStep
<1> DEFINE r == db.sess[s]
           q == [r EXCEPT !.over = TRUE]
<1>1. Commit([db EXCEPT !.sess[s].over = TRUE]) /\ Rest
  BY DEF recycle_grace_passes
<1>2. r \in SessionRows
  BY TableRows
<1>3. [db EXCEPT !.sess[s].over = TRUE] = [db EXCEPT !.sess[s] = q]
  BY TableRows DEF Databases
<1>4. /\ q \in SessionRows /\ q.state = r.state /\ q.gen = r.gen /\ q.token = r.token
      /\ q.silent = r.silent /\ q.sealed = r.sealed /\ q.blocked = r.blocked /\ q.quar = r.quar
  <2> HIDE DEF r
  <2> QED BY <1>2 DEF SessionRows
<1> HIDE DEF q
<1>5. SessionKept(r, q)
  BY <1>4 DEF SessionKept, Gone, Confined
<1>6. Passes(db, [db EXCEPT !.sess[s] = q])
  BY <1>4, <1>5, TableRows, SessionEdit
<1> QED
  BY <1>1, <1>3, <1>6, PassIsCalm

-----------------------------------------------------------------------------
(* The session host.                                                       *)

(* Only the row of s changes, and neither its seal nor its generation.     *)
SessionMoved(d, e, s) ==
    /\ e \in Databases /\ e.task = d.task /\ e.rsv = d.rsv /\ e.lease = d.lease
    /\ \A t \in Sessions \ {s} : e.sess[t] = d.sess[t]
    /\ e.sess[s].gen = d.sess[s].gen /\ (e.sess[s].sealed <=> d.sess[s].sealed)
    /\ e.sess[s].state \in Assignable => e.sess[s].token

(* What the host of s reports may end a quarantine only if it was never    *)
(* registered, or by a native-suspect report, which is noted in lifted;    *)
(* and the barrier stands.                                                 *)
HostMove(s) ==
    \E d :
        /\ SessionMoved(db, d, s) /\ Calms(d, db')
        /\ ~Gone(db.sess[s]) /\ (db.sess[s].token => d.sess[s].token)
        /\ Confined(db.sess[s]) => \/ Confined(d.sess[s]) \/ ~db.sess[s].token
                                   \/ s \in lifted'
        /\ lifted \subseteq lifted'
        /\ \E u \in {"no", "set", "fresh"} : /\ unproven' = [unproven EXCEPT ![s] = u]
                                             /\ Barrier(d.sess[s], u)
        /\ \/ up' = up
           \/ up' = up \cup {s} /\ ~db.sess[s].token /\ d.sess[s].token
        /\ UNCHANGED <<project, solving>>

LEMMA MovedIsSound ==
    ASSUME NEW d, Sound(d), NEW e, NEW s \in Sessions, SessionMoved(d, e, s)
    PROVE  /\ Sound(e) /\ (Fits(d) => Fits(e))
           /\ \A t : Permits(e, t) = Permits(d, t)
<1> USE DEF SessionMoved
<1>1. \A l \in Leases : LeaseSound(e, l) /\ RsvSound(e, l)
  BY DEF Sound, LeaseSound, RsvSound
<1>2. ASSUME NEW l \in Leases PROVE PermitSound(e, l)
  <2>1. PermitSound(d, l) /\ LeaseSound(d, l)
    BY DEF Sound
  <2> QED BY <2>1 DEF PermitSound, LeaseSound
<1>3. OnePermit(e)
  BY DEF Sound, OnePermit
<1>4. \A t \in Sessions : e.sess[t].state \in Assignable => e.sess[t].token
  BY DEF Sound
<1>5. Sound(e)
  BY <1>1, <1>2, <1>3, <1>4 DEF Sound
<1>6. \A t : Occupants(e, t) = Occupants(d, t) /\ Held(e, t) = Held(d, t)
  BY DEF Occupants, Held
<1> QED
  BY <1>5, <1>6 DEF Fits, Load, Permits

LEMMA MoveRow ==
    ASSUME NEW d \in Databases, NEW s \in Sessions, NEW q \in SessionRows,
           q.gen = d.sess[s].gen, q.sealed <=> d.sess[s].sealed,
           q.state \in Assignable => q.token
    PROVE  LET e == [d EXCEPT !.sess[s] = q]
           IN  SessionMoved(d, e, s) /\ e.sess[s] = q /\ e.alloc = d.alloc
<1> DEFINE e == [d EXCEPT !.sess[s] = q]
<1>1. d.sess \in [Sessions -> SessionRows]
  BY DEF Databases
<1>2. /\ e \in Databases /\ e.task = d.task /\ e.rsv = d.rsv /\ e.lease = d.lease
      /\ e.alloc = d.alloc /\ e.sess = [d.sess EXCEPT ![s] = q]
  BY DEF Databases
<1> HIDE DEF e
<1> QED
  BY <1>1, <1>2 DEF SessionMoved, e

LEMMA MoveAlloc ==
    ASSUME NEW d, NEW e, NEW s, SessionMoved(d, e, s),
           NEW f, f \in Databases, f.task = e.task, f.rsv = e.rsv, f.lease = e.lease, f.sess = e.sess
    PROVE  SessionMoved(d, f, s)
BY DEF SessionMoved

LEMMA CommitMoved ==
    ASSUME Tables, NEW s \in Sessions, NEW d, SessionMoved(db, d, s),
           NEW e, Calms(d, e), Commit(e)
    PROVE  Calms(d, db') /\ solving' = solving
<1>1. db' = e
  BY DEF Commit
<1>2. \A m \in Leases : ~(e.lease[m].permit > db.lease[m].permit)
  <2> TAKE m \in Leases
  <2>1. db.lease[m].permit \in Nat
    BY TableRows DEF LeaseRows
  <2>2. e.lease[m].permit = 0 \/ e.lease[m].permit = db.lease[m].permit
    BY DEF Calms, Calm, CalmLease, SessionMoved
  <2> QED BY <2>1, <2>2
<1>3. solving \in [Leases -> Sessions \cup {NoSession}]
  BY DEF Tables, TypeOK
<1>4. solving' = solving
  <2>1. {m \in Leases : e.lease[m].permit > db.lease[m].permit} = {}
    BY <1>2
  <2>2. solving' = solving \oplus [l \in {} |-> e.lease[l].on]
    BY <2>1 DEF Commit
  <2> QED BY <1>3, <2>2 DEF \oplus
<1> QED
  BY <1>1, <1>4

LEMMA SilentRow ==
    ASSUME NEW r \in SessionRows, NEW n \in 0..2
    PROVE  LET q == [r EXCEPT !.silent = n]
           IN  /\ q \in SessionRows /\ q.state = r.state /\ q.gen = r.gen /\ q.token = r.token
               /\ q.silent = n /\ q.sealed = r.sealed /\ q.blocked = r.blocked
               /\ q.quar = r.quar /\ q.drain = r.drain /\ q.over = r.over
BY DEF SessionRows

LEMMA SameProof ==
    ASSUME Tables, NEW s \in Sessions
    PROVE  /\ unproven[s] \in {"no", "set", "fresh"}
           /\ unproven = [unproven EXCEPT ![s] = unproven[s]]
           /\ Barrier(db.sess[s], unproven[s])
BY DEF Tables, TypeOK

LEMMA ClaimStart ==
    ASSUME Tables, NEW s \in Sessions, claim_start(s)
    PROVE  HostMove(s)
<1> DEFINE r == db.sess[s]
           q == [r EXCEPT !.host = TRUE, !.silent = 0]
           d == [db EXCEPT !.sess[s] = q]
<1>1. r.state = "starting" /\ Commit(d) /\ Rest
  BY DEF claim_start
<1>2. r \in SessionRows
  BY TableRows
<1>3. /\ q \in SessionRows /\ q.state = r.state /\ q.gen = r.gen /\ q.token = r.token
      /\ q.silent = 0 /\ q.sealed = r.sealed /\ q.blocked = r.blocked
  <2> DEFINE x == [r EXCEPT !.host = TRUE]
  <2>1. q = [x EXCEPT !.silent = 0]
    BY <1>2 DEF SessionRows
  <2> HIDE DEF r, q
  <2>2. /\ x \in SessionRows /\ x.state = r.state /\ x.gen = r.gen /\ x.token = r.token
        /\ x.sealed = r.sealed /\ x.blocked = r.blocked
    BY <1>2 DEF SessionRows
  <2> HIDE DEF x
  <2>3. 0 \in 0..2
    OBVIOUS
  <2> QED BY <2>1, <2>2, <2>3, SilentRow
<1> HIDE DEF q
<1>4. SessionMoved(db, d, s) /\ d.sess[s] = q
  BY <1>1, <1>3, TableRows, MoveRow DEF Assignable
<1> HIDE DEF d
<1>5. Calms(d, d)
  BY <1>4, TableRows, MovedIsSound, NothingIsCalm
<1>6. Calms(d, db') /\ solving' = solving
  BY <1>1, <1>4, <1>5, CommitMoved
<1>7. ~Gone(r) /\ ~Confined(r) /\ Barrier(q, unproven[s])
  BY <1>1, <1>3, SameProof DEF Gone, Confined, Barrier
<1> QED
  BY <1>1, <1>3, <1>4, <1>6, <1>7, SameProof DEF HostMove, Rest

LEMMA SessionGoesSilent ==
    ASSUME Tables, NEW s \in Sessions, session_goes_silent(s)
    PROVE  HostMove(s)
<1> DEFINE r == db.sess[s]
           q == [r EXCEPT !.silent = @ + 1]
           d == [db EXCEPT !.sess[s] = q]
<1>1. /\ r.state \in Visible /\ r.silent < 2 /\ Commit([db EXCEPT !.sess[s].silent = @ + 1])
      /\ Rest
  BY DEF session_goes_silent
<1>2. r \in SessionRows
  BY TableRows
<1>3. [db EXCEPT !.sess[s].silent = @ + 1] = d
  BY TableRows DEF Databases
<1>4. r.silent + 1 \in 0..2
  <2>1. r.silent \in 0..2
    <3> HIDE DEF r
    <3> QED BY <1>2 DEF SessionRows
  <2> QED BY <1>1, <2>1
<1>5. /\ q \in SessionRows /\ q.state = r.state /\ q.gen = r.gen /\ q.token = r.token
      /\ q.sealed = r.sealed /\ q.blocked = r.blocked /\ q.quar = r.quar
  <2> DEFINE n == r.silent + 1
  <2>1. q = [r EXCEPT !.silent = n]
    OBVIOUS
  <2>2. n \in 0..2
    BY <1>4
  <2> HIDE DEF r, n, q
  <2> QED BY <1>2, <2>1, <2>2, SilentRow
<1> HIDE DEF q
<1>6. SessionMoved(db, d, s) /\ d.sess[s] = q
  <2>1. r.state \in Assignable => r.token
    BY TableRows DEF Sound
  <2> QED BY <1>5, <2>1, TableRows, MoveRow
<1> HIDE DEF d
<1>7. Calms(d, d)
  BY <1>6, TableRows, MovedIsSound, NothingIsCalm
<1>8. Calms(d, db') /\ solving' = solving
  BY <1>1, <1>3, <1>6, <1>7, CommitMoved
<1>9. ~Gone(r) /\ (Confined(r) => Confined(q)) /\ Barrier(q, unproven[s])
  BY <1>1, <1>5, SameProof DEF Gone, Confined, Barrier, Visible, Assignable
<1> QED
  BY <1>1, <1>5, <1>6, <1>8, <1>9, SameProof DEF HostMove, Rest

LEMMA BeginHeartbeat ==
    ASSUME Tables, NEW s \in Sessions, begin_heartbeat(s)
    PROVE  HostMove(s)
<1> DEFINE r == db.sess[s]
           b == IF r.blocked = "fresh" THEN "set" ELSE r.blocked
           q == [r EXCEPT !.blocked = b]
           d == [db EXCEPT !.sess[s] = q]
           u == IF unproven[s] = "fresh" THEN "set" ELSE unproven[s]
<1>1. /\ r.state \in Visible /\ r.token
      /\ Commit([db EXCEPT !.sess[s].blocked = IF @ = "fresh" THEN "set" ELSE @])
      /\ UNCHANGED <<up, project, lifted>>
      /\ unproven' = [unproven EXCEPT ![s] = IF @ = "fresh" THEN "set" ELSE @]
  BY DEF begin_heartbeat
<1>2. r \in SessionRows /\ unproven[s] \in {"no", "set", "fresh"}
  BY TableRows DEF Tables, TypeOK
<1>3. [db EXCEPT !.sess[s].blocked = IF @ = "fresh" THEN "set" ELSE @] = d
  BY TableRows DEF Databases
<1>4. b \in {"no", "set", "fresh"} /\ (r.blocked # "no" => b # "no")
  BY <1>2 DEF SessionRows
<1> HIDE DEF b
<1>5. /\ q \in SessionRows /\ q.state = r.state /\ q.gen = r.gen /\ q.token = r.token
      /\ q.sealed = r.sealed /\ q.blocked = b /\ q.quar = r.quar /\ q.silent = r.silent
  <2> HIDE DEF r
  <2> QED BY <1>2, <1>4 DEF SessionRows
<1> HIDE DEF q
<1>6. SessionMoved(db, d, s) /\ d.sess[s] = q
  BY <1>1, <1>5, TableRows, MoveRow
<1> HIDE DEF d
<1>7. Calms(d, d)
  BY <1>6, TableRows, MovedIsSound, NothingIsCalm
<1>8. Calms(d, db') /\ solving' = solving
  BY <1>1, <1>3, <1>6, <1>7, CommitMoved
<1>9. ~Gone(r) /\ (Confined(r) => Confined(q))
  BY <1>1, <1>5 DEF Gone, Confined, Visible, Assignable
<1>10. unproven' = [unproven EXCEPT ![s] = u] /\ u \in {"no", "set", "fresh"}
  BY <1>1, <1>2
<1>11. Barrier(q, u)
  BY <1>2, <1>4, <1>5, <1>9, SameProof DEF Barrier
<1> HIDE DEF u
<1> QED
  BY <1>1, <1>5, <1>6, <1>8, <1>9, <1>10, <1>11 DEF HostMove

NativeRow(r, drain, over) ==
    [r EXCEPT !.state = "unhealthy", !.quar = "", !.why = "native", !.drain = drain, !.over = over]

LEMMA NativeRowIs ==
    ASSUME NEW r \in SessionRows, NEW a \in BOOLEAN, NEW b \in BOOLEAN
    PROVE  LET q == NativeRow(r, a, b)
           IN  /\ q \in SessionRows /\ q.state = "unhealthy" /\ q.gen = r.gen
               /\ q.token = r.token /\ q.sealed = r.sealed /\ q.blocked = r.blocked
               /\ q.silent = r.silent
BY DEF NativeRow, SessionRows, Visible, Faulty, Quarantines

LEMMA NativeSuspect ==
    ASSUME Tables, NEW s \in Sessions, report_native_suspect(s)
    PROVE  HostMove(s)
<1> DEFINE r == db.sess[s]
           owned == \E l \in Occupants(db, s) : /\ db.lease[l].state # "offered"
                                                /\ "expires" \notin db.lease[l].aged
           q == [r EXCEPT !.state = "unhealthy", !.quar = "", !.why = "native",
                          !.drain = ~owned, !.silent = IF owned THEN 0 ELSE @,
                          !.over = ~owned /\ r.drain /\ @]
           d == [db EXCEPT !.sess[s] = q]
<1>1. /\ r.state \in Assignable \cup {"unhealthy"} /\ Commit(d)
      /\ lifted' = (IF r.quar # "" THEN lifted \cup {s} ELSE lifted)
      /\ UNCHANGED <<up, project, unproven>>
  BY DEF report_native_suspect
<1>2. r \in SessionRows /\ owned \in BOOLEAN
  BY TableRows
<1>3. /\ q \in SessionRows /\ q.state = "unhealthy" /\ q.gen = r.gen /\ q.token = r.token
      /\ q.sealed = r.sealed /\ q.blocked = r.blocked /\ q.silent \in {0, r.silent}
  <2>1. CASE owned
    <3> DEFINE x == NativeRow(r, FALSE, FALSE)
    <3>1. q = [x EXCEPT !.silent = 0]
      BY <1>2, <2>1 DEF NativeRow, SessionRows
    <3> HIDE DEF q, r
    <3>2. /\ x \in SessionRows /\ x.state = "unhealthy" /\ x.gen = r.gen /\ x.token = r.token
          /\ x.sealed = r.sealed /\ x.blocked = r.blocked
      BY <1>2, NativeRowIs
    <3> HIDE DEF x
    <3>3. 0 \in 0..2
      OBVIOUS
    <3> QED BY <3>1, <3>2, <3>3, SilentRow
  <2>2. CASE ~owned
    <3> DEFINE o == r.drain /\ r.over
               x == NativeRow(r, TRUE, o)
    <3>1. q = x
      BY <1>2, <2>2 DEF NativeRow, SessionRows
    <3>2. o \in BOOLEAN
      BY <1>2 DEF SessionRows
    <3> HIDE DEF q, r, o
    <3> QED BY <1>2, <3>1, <3>2, NativeRowIs
  <2> QED BY <2>1, <2>2
<1> HIDE DEF q
<1>4. SessionMoved(db, d, s) /\ d.sess[s] = q
  BY <1>3, TableRows, MoveRow DEF Assignable
<1> HIDE DEF d
<1>5. Calms(d, d)
  BY <1>4, TableRows, MovedIsSound, NothingIsCalm
<1>6. Calms(d, db') /\ solving' = solving
  BY <1>1, <1>4, <1>5, CommitMoved
<1>7. ~Gone(r) /\ Barrier(q, unproven[s])
  BY <1>1, <1>3, SameProof DEF Gone, Barrier, Assignable
<1>8. lifted \subseteq lifted' /\ (Confined(r) => s \in lifted')
  BY <1>1 DEF Confined
<1> QED
  BY <1>1, <1>3, <1>4, <1>6, <1>7, <1>8, SameProof DEF HostMove

LEMMA UndrainedRows ==
    ASSUME NEW d \in Databases, NEW a \in Allocs
    PROVE  LET e == Undrained(d, a)
           IN  /\ e \in Databases /\ e.task = d.task /\ e.rsv = d.rsv
               /\ e.lease = d.lease /\ e.sess = d.sess
<1> DEFINE q == [d.alloc[a] EXCEPT !.state = "active", !.why = "demand"]
           f == [d EXCEPT !.alloc[a] = q]
           g == [d EXCEPT !.alloc[a].state = "active", !.alloc[a].why = "demand"]
<1>1. d.alloc[a] \in AllocRows /\ d.alloc \in [Allocs -> AllocRows]
  BY DEF Databases
<1>2. q \in AllocRows
  BY <1>1 DEF AllocRows, DrainReasons
<1>3. g = f
  BY <1>1 DEF Databases, AllocRows
<1> HIDE DEF q
<1>4. /\ f \in Databases /\ f.task = d.task /\ f.rsv = d.rsv
      /\ f.lease = d.lease /\ f.sess = d.sess
  BY <1>1, <1>2 DEF Databases
<1>5. Undrained(d, a) = d \/ Undrained(d, a) = g
  BY DEF Undrained
<1> HIDE DEF f, g
<1> QED
  BY <1>3, <1>4, <1>5

LEMMA RegisterSession ==
    ASSUME Tables, NEW s \in Sessions, register_session(s)
    PROVE  HostMove(s)
<1> DEFINE r == db.sess[s]
           a == db.alloc[Node[s]]
           late == r.state = "unhealthy" /\ r.why = "start"
           foreign == late /\ a.state = "draining" /\ a.why # "unhealthy"
           to == IF enabled /\ ~foreign THEN "ready" ELSE "draining"
           q == [r EXCEPT !.state = to, !.token = TRUE, !.why = "",
                          !.drain = FALSE, !.silent = 0, !.over = FALSE]
           d == [db EXCEPT !.sess[s] = q]
           d1 == IF late /\ to = "ready" THEN Undrained(d, Node[s]) ELSE d
<1>1. /\ ~r.token /\ r.state \in {"starting", "unhealthy"}
      /\ \E e \in reconcile(d1, {}, {}) : Commit(e)
      /\ up' = up \cup {s}
      /\ UNCHANGED <<project, unproven, lifted>>
  BY DEF register_session
<1>2. r \in SessionRows /\ to \in {"ready", "draining"}
  BY TableRows
<1> HIDE DEF to
<1>3. /\ q \in SessionRows /\ q.state = to /\ q.gen = r.gen /\ q.token
      /\ q.sealed = r.sealed /\ q.blocked = r.blocked /\ q.silent = 0
  <2> DEFINE x == [r EXCEPT !.state = to, !.token = TRUE, !.why = "", !.drain = FALSE, !.over = FALSE]
  <2>1. q = [x EXCEPT !.silent = 0]
    BY <1>2 DEF SessionRows
  <2> HIDE DEF r, q
  <2>2. x \in SessionRows
    BY <1>2 DEF SessionRows, Visible, Assignable
  <2>3. /\ x.state = to /\ x.gen = r.gen /\ x.token = TRUE
        /\ x.sealed = r.sealed /\ x.blocked = r.blocked
    BY <1>2 DEF SessionRows
  <2> HIDE DEF x
  <2>4. 0 \in 0..2
    OBVIOUS
  <2> QED BY <2>1, <2>2, <2>3, <2>4, SilentRow
<1> HIDE DEF q
<1>4. SessionMoved(db, d, s) /\ d.sess[s] = q
  BY <1>3, TableRows, MoveRow
<1>5. d \in Databases /\ Node[s] \in Allocs
  BY <1>4 DEF SessionMoved
<1> HIDE DEF d
<1>6. SessionMoved(db, d1, s) /\ d1.sess[s] = q
  <2>1. CASE late /\ to = "ready"
    <3>1. /\ d1 \in Databases /\ d1.task = d.task /\ d1.rsv = d.rsv
          /\ d1.lease = d.lease /\ d1.sess = d.sess
      BY <1>5, <2>1, UndrainedRows
    <3> HIDE DEF d1
    <3> QED BY <1>4, <3>1, MoveAlloc
  <2>2. CASE ~(late /\ to = "ready")
    BY <1>4, <2>2
  <2> QED BY <2>1, <2>2
<1>7. PICK e \in reconcile(d1, {}, {}) : Commit(e)
  BY <1>1
<1> HIDE DEF d1
<1>8. Sound(d1)
  BY <1>6, TableRows, MovedIsSound
<1>9. Calms(d1, e)
  BY <1>8, ReconcileIsCalm
<1>10. Calms(d1, db') /\ solving' = solving
  BY <1>6, <1>7, <1>9, CommitMoved
<1>11. ~Gone(r) /\ Barrier(q, unproven[s])
  BY <1>1, <1>3, SameProof DEF Gone, Barrier
<1> QED
  BY <1>1, <1>3, <1>6, <1>10, <1>11, SameProof DEF HostMove

LEMMA HeartbeatSession ==
    ASSUME Tables, NEW s \in Sessions, heartbeat_session(s)
    PROVE  HostMove(s)
<1> DEFINE r == db.sess[s]
           cleared == BarrierFalls(db, s)
           b == IF cleared THEN "no" ELSE r.blocked
           x == [r EXCEPT !.blocked = b]
           q1 == [x EXCEPT !.silent = 0]
           d1 == [db EXCEPT !.sess[s] = q1]
           to == IF Occupants(d1, s) # {} THEN "busy" ELSE "ready"
           q2 == [q1 EXCEPT !.state = to, !.why = "", !.drain = FALSE, !.over = FALSE]
           d1r == [d1 EXCEPT !.sess[s] = q2]
           d2 == IF MayRecover(db, s) THEN Undrained(d1r, Node[s]) ELSE d1
           u == IF unproven[s] = "set" THEN "no" ELSE unproven[s]
<1>1. /\ r.token /\ r.state \in Visible
      /\ unproven' = [unproven EXCEPT ![s] = IF @ = "set" THEN "no" ELSE @]
      /\ UNCHANGED <<up, project, lifted>>
  BY DEF heartbeat_session
<1>2. r \in SessionRows /\ r.token /\ db \in Databases /\ Sound(db)
  BY <1>1, TableRows
<1>3. [db EXCEPT !.sess[s].silent = 0,
                 !.sess[s].blocked = IF cleared THEN "no" ELSE @] = d1
  <2>1. q1 = [r EXCEPT !.silent = 0, !.blocked = b]
    BY <1>2 DEF SessionRows
  <2> HIDE DEF q1, cleared
  <2> QED BY <1>2, <2>1 DEF Databases, SessionRows
<1>4. b \in {"no", "set", "fresh"}
  BY <1>2 DEF SessionRows
<1>5. (b = r.blocked) \/ (b = "no" /\ r.blocked = "set")
  BY DEF BarrierFalls
<1> HIDE DEF b
<1>6. /\ q1 \in SessionRows /\ q1.state = r.state /\ q1.gen = r.gen /\ q1.token = r.token
      /\ q1.sealed = r.sealed /\ q1.blocked = b /\ q1.quar = r.quar /\ q1.silent = 0
  <2> HIDE DEF r
  <2>1. /\ x \in SessionRows /\ x.state = r.state /\ x.gen = r.gen /\ x.token = r.token
        /\ x.sealed = r.sealed /\ x.blocked = b /\ x.quar = r.quar
    BY <1>2, <1>4 DEF SessionRows
  <2> HIDE DEF x
  <2>2. 0 \in 0..2
    OBVIOUS
  <2> QED BY <2>1, <2>2, SilentRow
<1> HIDE DEF q1, x
<1>7. SessionMoved(db, d1, s) /\ d1.sess[s] = q1 /\ d1 \in Databases
  <2>1. SessionMoved(db, d1, s) /\ d1.sess[s] = q1
    BY <1>2, <1>6, MoveRow
  <2> QED BY <2>1 DEF SessionMoved
<1> HIDE DEF d1
<1>8. (IF MayRecover(db, s) THEN SessionRecovered(d1, s) ELSE d1) = d2
  <2>1. [d1.sess[s] EXCEPT !.state = IF Occupants(d1, s) # {} THEN "busy" ELSE "ready",
                           !.why = "", !.drain = FALSE, !.over = FALSE] = q2
    BY <1>7
  <2>2. SessionRecovered(d1, s) =
          Undrained([d1 EXCEPT !.sess[s] =
            [d1.sess[s] EXCEPT !.state = IF Occupants(d1, s) # {} THEN "busy" ELSE "ready",
                               !.why = "", !.drain = FALSE, !.over = FALSE]], Node[s])
    BY DEF SessionRecovered
  <2>3. SessionRecovered(d1, s) = Undrained(d1r, Node[s])
    BY <2>1, <2>2
  <2> QED BY <2>3
<1>9. to \in {"busy", "ready"}
  OBVIOUS
<1> HIDE DEF to
<1>10. /\ q2 \in SessionRows /\ q2.gen = r.gen /\ q2.token = r.token
       /\ q2.sealed = r.sealed /\ q2.blocked = b /\ q2.silent = 0 /\ q2.state = to
  <2>1. q2 \in SessionRows
    BY <1>6, <1>9 DEF SessionRows, Visible, Assignable
  <2>2. /\ q2.gen = q1.gen /\ q2.token = q1.token
        /\ q2.sealed = q1.sealed /\ q2.blocked = q1.blocked /\ q2.silent = q1.silent
        /\ q2.state = to
    BY <1>6 DEF SessionRows
  <2> QED BY <1>6, <2>1, <2>2
<1> HIDE DEF q2
<1>11. SessionMoved(d1, d1r, s) /\ d1r.sess[s] = q2 /\ d1r \in Databases
  <2>0. /\ d1 \in Databases /\ q2 \in SessionRows /\ q2.gen = d1.sess[s].gen
        /\ (q2.sealed <=> d1.sess[s].sealed) /\ (q2.state \in Assignable => q2.token)
    BY <1>2, <1>6, <1>7, <1>10
  <2>1. SessionMoved(d1, d1r, s) /\ d1r.sess[s] = q2
    BY <2>0, MoveRow
  <2> QED BY <2>1 DEF SessionMoved
<1> HIDE DEF d1r
<1>12. SessionMoved(db, d1r, s)
  BY <1>7, <1>11 DEF SessionMoved
<1>13. /\ SessionMoved(db, d2, s)
       /\ d2.sess[s] = IF MayRecover(db, s) THEN q2 ELSE q1
  <2>1. CASE MayRecover(db, s)
    <3>1. /\ d2 \in Databases /\ d2.task = d1r.task /\ d2.rsv = d1r.rsv
          /\ d2.lease = d1r.lease /\ d2.sess = d1r.sess
      BY <1>11, <2>1, UndrainedRows
    <3> HIDE DEF d2
    <3> QED BY <1>11, <1>12, <2>1, <3>1, MoveAlloc
  <2>2. CASE ~MayRecover(db, s)
    BY <1>7, <2>2
  <2> QED BY <2>1, <2>2
<1>14. IF cleared /\ enabled
       THEN \E e \in place_queued_leases(refresh_exact_session_reservations(d2), Leases) :
               Commit(e)
       ELSE Commit(d2)
  BY <1>3, <1>8 DEF heartbeat_session
<1> HIDE DEF d2
<1>15. Sound(d2)
  BY <1>2, <1>13, MovedIsSound
<1>16. Calms(d2, db') /\ solving' = solving
  <2>1. CASE cleared /\ enabled
    <3> DEFINE d3 == refresh_exact_session_reservations(d2)
    <3>1. PICK e \in place_queued_leases(d3, Leases) : Commit(e)
      BY <1>14, <2>1
    <3>2. Calms(d2, d3) /\ Sound(d3)
      BY <1>15, RefreshExact, PassesAreCalm DEF Passes
    <3> HIDE DEF d3
    <3>3. Calms(d3, e) /\ Sound(e)
      BY <3>2, PlaceIsCalm DEF Calms
    <3>4. Calms(d2, e)
      BY <1>15, <3>2, <3>3, CalmComposes
    <3> QED BY <1>13, <3>1, <3>4, CommitMoved
  <2>2. CASE ~(cleared /\ enabled)
    BY <1>13, <1>14, <1>15, <2>2, NothingIsCalm, CommitMoved
  <2> QED BY <2>1, <2>2
<1>17. /\ ~Gone(r) /\ d2.sess[s].token /\ d2.sess[s].silent = 0
       /\ d2.sess[s].blocked = b
  BY <1>1, <1>2, <1>6, <1>10, <1>13 DEF Gone, Visible, Assignable
<1>18. Confined(r) => Confined(d2.sess[s])
  BY <1>6, <1>13 DEF Confined, MayRecover
<1>19. unproven' = [unproven EXCEPT ![s] = u] /\ u \in {"no", "set", "fresh"}
  BY <1>1, SameProof
<1>20. Barrier(d2.sess[s], u)
  BY <1>5, <1>17, SameProof DEF Barrier
<1> HIDE DEF u
<1> QED
  BY <1>1, <1>2, <1>13, <1>16, <1>17, <1>18, <1>19, <1>20 DEF HostMove

(* The Desktop of s is gone, with the projects and pipelines in it.        *)
DeadStep(s) ==
    /\ Passes(db, db')
    /\ project' = Without(project, s) /\ solving' = Without(solving, s)
    /\ UNCHANGED <<unproven, lifted>> /\ up' \subseteq up
    /\ s \notin up' \/ Confined(db'.sess[s])

LEMMA HostDies ==
    ASSUME Tables, NEW s \in Sessions, host_dies(s)
    PROVE  DeadStep(s)
<1>1. Passes(db, db)
  BY TableRows, PassesNothing
<1> QED
  BY <1>1 DEF host_dies, DeadStep

LEMMA DeathRow ==
    ASSUME NEW r \in SessionRows, r.state \in Visible
    PROVE  LET q == [r EXCEPT !.state = "unhealthy", !.quar = "death", !.why = "other",
                              !.over = r.drain /\ @, !.drain = TRUE]
           IN  /\ q \in SessionRows /\ SessionKept(r, q) /\ Confined(q)
               /\ (q.sealed <=> r.sealed)
<1> DEFINE o == r.drain /\ r.over
           q == [r EXCEPT !.state = "unhealthy", !.quar = "death", !.why = "other",
                          !.over = o, !.drain = TRUE]
<1>1. o \in BOOLEAN
  BY DEF SessionRows
<1> HIDE DEF o
<1>2. q \in SessionRows
  BY <1>1 DEF SessionRows, Visible, Faulty, Quarantines
<1>3. /\ q.state = "unhealthy" /\ q.quar = "death" /\ q.gen = r.gen /\ q.token = r.token
      /\ q.silent = r.silent /\ q.sealed = r.sealed /\ q.blocked = r.blocked
  BY DEF SessionRows
<1> HIDE DEF q
<1>4. SessionKept(r, q) /\ Confined(q)
  BY <1>3 DEF SessionKept, Confined, Gone, Visible, Assignable
<1> QED
  BY <1>2, <1>3, <1>4 DEF q, o

LEMMA ConfirmedDeath ==
    ASSUME Tables, NEW s \in Sessions, report_confirmed_death(s)
    PROVE  DeadStep(s)
<1> DEFINE r == db.sess[s]
           q == [r EXCEPT !.state = "unhealthy", !.quar = "death", !.why = "other",
                          !.over = r.drain /\ @, !.drain = TRUE]
           d == [db EXCEPT !.sess[s] = q]
<1>1. /\ r.state \in Visible
      /\ db' = TaintAlloc(d, Node[s], "faulted")
      /\ project' = Without(project, s) /\ solving' = Without(solving, s)
      /\ UNCHANGED <<up, unproven, lifted>>
  BY DEF report_confirmed_death
<1>2. q \in SessionRows /\ SessionKept(r, q) /\ Confined(q) /\ (q.sealed <=> r.sealed)
  BY <1>1, TableRows, DeathRow
<1> HIDE DEF q
<1>3. Passes(db, d)
  BY <1>2, TableRows, SessionEdit
<1>4. d.sess[s] = q
  BY TableRows DEF Databases
<1> HIDE DEF d
<1>5. Passes(d, db')
  BY <1>1, <1>3, TaintPasses DEF Passes, DrainReasons
<1>6. Passes(db, db')
  BY <1>3, <1>5, PassesCompose, TableRows
<1>7. db'.sess = d.sess
  <2>1. d \in Databases
    BY <1>3 DEF Passes, Sound
  <2> QED BY <1>1, <2>1 DEF TaintAlloc, Databases
<1> QED
  BY <1>1, <1>2, <1>4, <1>6, <1>7 DEF DeadStep

LEMMA CloseProject ==
    ASSUME Tables, NEW s \in Sessions, NEW l \in Leases, close_project(s, l)
    PROVE  SettleStep(l)
<1>1. Calms(db, db)
  BY TableRows, NothingIsCalm
<1>2. /\ db' = db /\ l \in close_projects(db, s)
      /\ project' = [project EXCEPT ![l] = NoSession]
      /\ solving' = [solving EXCEPT ![l] = NoSession]
      /\ UNCHANGED <<up, unproven, lifted>>
  BY DEF close_project
<1>3. db.lease[l].state = "releasing"
  BY <1>2 DEF close_projects
<1> QED
  BY <1>1, <1>2, <1>3 DEF SettleStep

LEMMA RequeuedAfresh ==
    ASSUME NEW r \in LeaseRows, r.state \in LiveStates
    PROVE  LET q == [Requeued(r) EXCEPT !.aged = @ \ {"quiet", "expires"}]
           IN  q \in LeaseRows /\ LeaseKept(r, q)
<1> DEFINE q == [Requeued(r) EXCEPT !.aged = @ \ {"quiet", "expires"}]
<1>1. q \in LeaseRows
  BY DEF LeaseRows, Requeued, LiveStates
<1>2. q.state = "queued" /\ q.exact = r.exact /\ q.permit = 0
  BY DEF LeaseRows, Requeued
<1> HIDE DEF q
<1>3. LeaseKept(r, q)
  BY <1>2 DEF LeaseKept, LiveStates, SlotStates, OwnerStates
<1> QED
  BY <1>1, <1>3 DEF q

LEMMA CloseSession ==
    ASSUME Tables, NEW s \in Sessions, NEW success \in BOOLEAN, NEW requeue \in BOOLEAN,
           close_session(s, success, requeue)
    PROVE  DeadStep(s)
<1> DEFINE d1 == fail_cohorts(db, KeysOn(s), FALSE)
           F == {m \in Occupants(d1, s) : requeue => ~d1.lease[m].exact}
           f == [l \in F |-> IF requeue
                             THEN [Requeued(d1.lease[l]) EXCEPT !.aged = @ \ {"quiet", "expires"}]
                             ELSE Ended(d1.lease[l], "failed")]
           r == d1.sess[s]
           q == [r EXCEPT !.state = IF success THEN "closed" ELSE "failed",
                          !.why = IF success THEN "" ELSE "other"]
           e1 == [d1 EXCEPT !.sess[s] = q]
           e2 == [e1 EXCEPT !.lease = @ \oplus f]
           d2 == [d1 EXCEPT !.lease = @ \oplus f]
           d3 == [d2 EXCEPT !.sess[s] = [@ EXCEPT !.state = IF success THEN "closed" ELSE "failed",
                                                  !.why = IF success THEN "" ELSE "other"]]
<1>1. /\ db' = IF success THEN d3 ELSE TaintAlloc(d3, Node[s], "faulted")
      /\ up' = up \ {s}
      /\ project' = Without(project, s) /\ solving' = Without(solving, s)
      /\ UNCHANGED <<unproven, lifted>>
  BY DEF close_session
<1>2. Passes(db, d1)
  BY TableRows, FailCohorts
<1> HIDE DEF d1
<1>3. Sound(d1) /\ d1 \in Databases /\ r \in SessionRows
        /\ \A l \in Leases : d1.lease[l] \in LeaseRows
  <2>1. Sound(d1) /\ d1 \in Databases
    BY <1>2 DEF Passes, Sound
  <2> QED BY <2>1, RowTypes
<1>4. /\ q \in SessionRows /\ Gone(q) /\ q.gen = r.gen /\ q.token = r.token
      /\ q.silent = r.silent /\ q.sealed = r.sealed /\ q.blocked = r.blocked
  <2> DEFINE to == IF success THEN "closed" ELSE "failed"
             why == IF success THEN "" ELSE "other"
  <2>1. to \in {"closed", "failed"} /\ why \in {"", "other"}
    OBVIOUS
  <2>2. q = [r EXCEPT !.state = to, !.why = why]
    OBVIOUS
  <2> HIDE DEF to, why, q, r
  <2>3. q \in SessionRows
    BY <1>3, <2>1, <2>2 DEF SessionRows, Faulty
  <2> QED BY <1>3, <2>1, <2>2, <2>3 DEF SessionRows, Gone
<1>5. e2 = d3
  BY <1>3 DEF Databases
<1> HIDE DEF q
<1>6. SessionKept(r, q)
  BY <1>4 DEF SessionKept, Gone, Assignable
<1>7. Passes(d1, e1)
  BY <1>3, <1>4, <1>6, SessionEdit
<1>8. e1.sess[s] = q /\ e1.lease = d1.lease
  BY <1>3 DEF Databases
<1> HIDE DEF e1
<1>9. LeaseUpdate(e1, F, f, {}, [l \in {} |-> e1.rsv[l]])
  <2>1. ASSUME NEW l \in F
        PROVE  /\ l \in Leases /\ f[l] \in LeaseRows /\ LeaseKept(e1.lease[l], f[l])
               /\ e1.lease[l].on = s
    <3>1. l \in Leases /\ d1.lease[l] \in LeaseRows /\ d1.lease[l].state \in LiveStates
            /\ d1.lease[l].on = s
      BY <1>3 DEF Occupants, LiveStates
    <3>2. CASE requeue
      <4>1. f[l] = [Requeued(d1.lease[l]) EXCEPT !.aged = @ \ {"quiet", "expires"}]
        BY <3>2
      <4> HIDE DEF f
      <4> QED BY <1>8, <3>1, <4>1, RequeuedAfresh
    <3>3. CASE ~requeue
      <4>1. f[l] = Ended(d1.lease[l], "failed") /\ "failed" \in EndStates
        BY <3>3 DEF EndStates
      <4> HIDE DEF f
      <4> QED BY <1>8, <3>1, <4>1, EndedRow
    <3> QED BY <3>2, <3>3
  <2>2. f \in [F -> LeaseRows]
    BY <2>1
  <2> HIDE DEF f, F
  <2> QED BY <1>4, <1>8, <2>1, <2>2 DEF LeaseUpdate
<1>10. Passes(e1, e2)
  BY <1>7, <1>9, LeaseOnlyPass DEF Passes
<1> HIDE DEF e2, d3
<1>11. Passes(db, d3)
  BY <1>2, <1>5, <1>7, <1>10, PassesCompose, TableRows
<1>12. Passes(db, db')
  <2>1. CASE success
    BY <1>1, <1>11, <2>1
  <2>2. CASE ~success
    <3>1. Passes(d3, db')
      BY <1>1, <1>11, <2>2, TaintPasses DEF Passes, DrainReasons
    <3> QED BY <1>11, <3>1, PassesCompose, TableRows
  <2> QED BY <2>1, <2>2
<1> QED
  BY <1>1, <1>12 DEF DeadStep

(* The release of l is acknowledged on s.                                  *)
Release(d, e, l, s) ==
    /\ e \in Databases /\ e.task = d.task /\ e.rsv = d.rsv
    /\ \A m \in Leases \ {l} : e.lease[m] = d.lease[m]
    /\ d.lease[l].state = "releasing" /\ d.lease[l].on = s
    /\ e.lease[l].state \in {"released", "failed"}
    /\ e.lease[l].permit = d.lease[l].permit /\ (e.lease[l].exact <=> d.lease[l].exact)
    /\ \A t \in Sessions \ {s} : e.sess[t] = d.sess[t]
    /\ e.sess[s].gen = d.sess[s].gen /\ (e.sess[s].sealed <=> d.sess[s].sealed)
    /\ (e.sess[s].token <=> d.sess[s].token) /\ e.sess[s].silent = d.sess[s].silent
    /\ e.sess[s].state \in Assignable => d.sess[s].state \in Assignable
    /\ Gone(d.sess[s]) => Gone(e.sess[s])
    /\ Confined(d.sess[s]) => Confined(e.sess[s])

ReleaseStep(s, l) ==
    /\ \E d : /\ Release(db, d, l, s) /\ Calms(d, db')
              /\ s \in up => project[l] # s \/ Gone(d.sess[s]) \/ Confined(d.sess[s])
              /\ \E u \in {"set", "fresh"} : /\ unproven' = [unproven EXCEPT ![s] = u]
                                             /\ Barrier(d.sess[s], u)
    /\ UNCHANGED <<up, project, solving, lifted>>

LEMMA ReleaseIsSound ==
    ASSUME NEW d, Sound(d), NEW e, NEW l \in Leases, NEW s \in Sessions, Release(d, e, l, s)
    PROVE  /\ Sound(e) /\ (Fits(d) => Fits(e))
           /\ \A t : Permits(e, t) \subseteq Permits(d, t)
<1> USE DEF Release
<1>1. /\ e.lease[l].state \notin LiveStates /\ e.lease[l].state \notin SlotStates
      /\ e.lease[l].state \notin {"none", "queued", "offered", "attaching"}
  BY DEF LiveStates, SlotStates, OwnerStates
<1>2. ASSUME NEW m \in Leases PROVE LeaseSound(e, m)
  <2>1. LeaseSound(d, m)
    BY DEF Sound
  <2>2. CASE m = l
    BY <1>1, <2>1, <2>2 DEF LeaseSound
  <2>3. CASE m # l
    BY <2>1, <2>3 DEF LeaseSound
  <2> QED BY <2>2, <2>3
<1>3. ASSUME NEW m \in Leases PROVE PermitSound(e, m)
  <2>1. PermitSound(d, m) /\ LeaseSound(d, m)
    BY DEF Sound
  <2>2. CASE m = l
    BY <1>1, <2>2 DEF PermitSound
  <2>3. CASE m # l
    BY <2>1, <2>3 DEF PermitSound, LeaseSound
  <2> QED BY <2>2, <2>3
<1>4. ASSUME NEW m \in Leases PROVE RsvSound(e, m)
  <2>1. RsvSound(d, m)
    BY DEF Sound
  <2>2. CASE m = l
    BY <1>1, <2>1, <2>2 DEF RsvSound
  <2>3. CASE m # l
    BY <2>1, <2>3 DEF RsvSound
  <2> QED BY <2>2, <2>3
<1>5. OnePermit(e)
  <2>1. OnePermit(d)
    BY DEF Sound
  <2> QED BY <1>1, <2>1 DEF OnePermit
<1>6. \A t \in Sessions : e.sess[t].state \in Assignable => e.sess[t].token
  BY DEF Sound
<1>7. Sound(e)
  BY <1>2, <1>3, <1>4, <1>5, <1>6 DEF Sound
<1>8. \A t : Occupants(e, t) = Occupants(d, t) \ {l} /\ Held(e, t) = Held(d, t)
  BY <1>1 DEF Occupants, Held
<1>9. \A t \in Sessions : Load(e, t) \subseteq Load(d, t)
  BY <1>8 DEF Load
<1>10. Fits(d) => Fits(e)
  BY <1>9, FitsByLoad
<1>11. \A t : Permits(e, t) \subseteq Permits(d, t)
  BY <1>8 DEF Permits, Occupants
<1> QED
  BY <1>7, <1>10, <1>11

(* The row of a Desktop after the acknowledgement.                         *)
AckedRow(r, success, origin) ==
    LET p == [r EXCEPT !.blocked = origin]
    IN  IF success THEN p
        ELSE [p EXCEPT !.state = "unhealthy", !.drain = TRUE, !.over = FALSE,
                       !.quar = "cleanup", !.why = "other"]

LEMMA AcknowledgedRow ==
    ASSUME NEW r \in SessionRows, ~Gone(r), NEW success \in BOOLEAN,
           NEW origin \in {"set", "fresh"}
    PROVE  LET q == AckedRow(r, success, origin)
           IN  /\ q \in SessionRows /\ q.gen = r.gen /\ (q.sealed <=> r.sealed)
               /\ (q.token <=> r.token) /\ q.silent = r.silent /\ q.blocked = origin
               /\ q.state \in Assignable => r.state \in Assignable
               /\ Confined(r) => Confined(q)
               /\ ~success => Confined(q)
<1> DEFINE p == [r EXCEPT !.blocked = origin]
           x == [p EXCEPT !.state = "unhealthy", !.drain = TRUE, !.over = FALSE,
                          !.quar = "cleanup", !.why = "other"]
<1>1. /\ p \in SessionRows /\ p.gen = r.gen /\ p.sealed = r.sealed /\ p.token = r.token
      /\ p.silent = r.silent /\ p.blocked = origin /\ p.state = r.state /\ p.quar = r.quar
  BY DEF SessionRows
<1> HIDE DEF p
<1>2. x \in SessionRows
  BY <1>1 DEF SessionRows, Visible, Faulty, Quarantines
<1>3. /\ x.gen = p.gen /\ x.sealed = p.sealed /\ x.token = p.token /\ x.silent = p.silent
      /\ x.blocked = p.blocked /\ x.state = "unhealthy" /\ x.quar = "cleanup"
  BY <1>1 DEF SessionRows
<1> HIDE DEF x
<1>4. Confined(x) /\ x.state \notin Assignable /\ (Confined(r) => Confined(p))
  BY <1>1, <1>3 DEF Confined, Assignable
<1>5. AckedRow(r, success, origin) = IF success THEN p ELSE x
  BY DEF AckedRow, p, x
<1>6. CASE success
  BY <1>1, <1>4, <1>5, <1>6
<1>7. CASE ~success
  BY <1>1, <1>2, <1>3, <1>4, <1>5, <1>7
<1> QED
  BY <1>6, <1>7

LEMMA BeginRelease ==
    ASSUME Tables, NEW s \in Sessions, NEW l \in Leases, NEW b \in BOOLEAN,
           begin_release(s, l, b)
    PROVE  CalmStep
<1>1. Calms(db, db)
  BY TableRows, NothingIsCalm
<1> QED
  BY <1>1 DEF begin_release, CalmStep

LEMMA CompleteRelease ==
    ASSUME Tables, NEW a \in acks, complete_release(a)
    PROVE  CalmStep \/ ReleaseStep(a.on, a.lease)
<1>0. a.on \in Sessions /\ a.lease \in Leases /\ a.ok \in BOOLEAN
  BY DEF Tables, TypeOK, Acks
<1> DEFINE s == a.on
           l == a.lease
           success == a.ok
           origin == IF a.passed THEN "set" ELSE "fresh"
           r == db.sess[s]
           to == IF success THEN "released" ELSE "failed"
           w == Ended(db.lease[l], to)
           d1 == [db EXCEPT !.lease[l] = w]
           p == [r EXCEPT !.blocked = origin]
           q == AckedRow(r, success, origin)
           d == IF Gone(r) THEN d1 ELSE [d1 EXCEPT !.sess[s] = q]
           d4 == refresh_exact_session_reservations(refresh_session_state(d, {s}))
<1>0a. UNCHANGED <<up, project, lifted>>
  BY DEF complete_release
<1>0b. CASE Commit(db) /\ UNCHANGED unproven
  <2>1. Calms(db, db)
    BY TableRows, NothingIsCalm
  <2> QED BY <1>0a, <1>0b, <2>1, CommitCalmly DEF CalmStep
<1>0c. \/ /\ l \in close_projects(db, s)
          /\ s \in up => (success <=> project[l] # s)
          /\ \E e \in place_queued_leases(Acknowledged(s, l, success, origin), Leases) : Commit(e)
          /\ unproven' = [unproven EXCEPT ![s] = origin]
       \/ Commit(db) /\ UNCHANGED unproven
  BY DEF complete_release
<1>0d. origin \in {"set", "fresh"}
  OBVIOUS
<1> HIDE DEF s, l, success, origin
<1> SUFFICES ASSUME l \in close_projects(db, s), s \in up => (success <=> project[l] # s),
                    \E e \in place_queued_leases(Acknowledged(s, l, success, origin), Leases) :
                       Commit(e),
                    unproven' = [unproven EXCEPT ![s] = origin]
             PROVE  ReleaseStep(s, l)
  BY <1>0b, <1>0c DEF s, l
<1>0e. s \in Sessions /\ l \in Leases /\ success \in BOOLEAN
  BY <1>0 DEF s, l, success
<1>1. db.lease[l].state = "releasing" /\ db.lease[l].on = s
  BY DEF close_projects, Occupants
<1>2. db \in Databases /\ r \in SessionRows /\ db.lease[l] \in LeaseRows /\ Sound(db)
        /\ to \in EndStates
  BY <1>0e, TableRows DEF EndStates
<1>3. \E e \in place_queued_leases(d4, Leases) : Commit(e)
  <2> DEFINE c2 == IF r.state \in {"closed", "failed"} THEN d1
                   ELSE [d1 EXCEPT !.sess[s] = [@ EXCEPT !.blocked = origin]]
             c3 == IF success \/ r.state \in {"closed", "failed"} THEN c2
                   ELSE [c2 EXCEPT !.sess[s] = [@ EXCEPT !.state = "unhealthy", !.drain = TRUE,
                                             !.over = FALSE, !.quar = "cleanup", !.why = "other"]]
  <2>1. \E e \in place_queued_leases(refresh_exact_session_reservations(
                                        refresh_session_state(c3, {s})), Leases) : Commit(e)
    BY DEF Acknowledged
  <2>2. c3 = d
    <3>1. CASE Gone(r)
      BY <3>1 DEF Gone
    <3>2. CASE ~Gone(r)
      <4>1. /\ d1.sess = db.sess /\ DOMAIN db.sess = Sessions /\ "sess" \in DOMAIN d1
            /\ s \in Sessions
        BY <1>0e, <1>2 DEF Databases
      <4>2. c2 = [d1 EXCEPT !.sess[s] = p]
        BY <3>2, <4>1 DEF Gone
      <4>0. q = IF success THEN p
                ELSE [p EXCEPT !.state = "unhealthy", !.drain = TRUE, !.over = FALSE,
                               !.quar = "cleanup", !.why = "other"]
        BY DEF AckedRow
      <4> HIDE DEF d1, p, q
      <4>3. c2.sess[s] = p
        BY <4>1, <4>2
      <4>4. CASE success
        BY <3>2, <4>0, <4>2, <4>4
      <4>5. CASE ~success
        <5> DEFINE x == [p EXCEPT !.state = "unhealthy", !.drain = TRUE, !.over = FALSE,
                                  !.quar = "cleanup", !.why = "other"]
        <5>1. c3 = [c2 EXCEPT !.sess[s] = [c2.sess[s] EXCEPT !.state = "unhealthy",
                      !.drain = TRUE, !.over = FALSE, !.quar = "cleanup", !.why = "other"]]
          BY <3>2, <4>5 DEF Gone
        <5>2. c3 = [c2 EXCEPT !.sess[s] = x]
          BY <4>3, <5>1
        <5> HIDE DEF c2, c3, x
        <5>3. c3 = [d1 EXCEPT !.sess[s] = x]
          BY <4>2, <5>2
        <5> QED BY <3>2, <4>0, <4>5, <5>3 DEF x
      <4> QED BY <4>4, <4>5
    <3> QED BY <3>1, <3>2
  <2> QED BY <2>1, <2>2
<1>4. /\ w \in LeaseRows /\ w.state = to /\ w.permit = db.lease[l].permit
      /\ (w.exact <=> db.lease[l].exact)
  BY <1>0e, <1>1, <1>2, EndedRow DEF LeaseKept, LiveStates, SlotStates, OwnerStates
<1>5. to \in {"released", "failed"}
  OBVIOUS
<1> HIDE DEF w, to
<1>6. db.lease \in [Leases -> LeaseRows] /\ db.sess \in [Sessions -> SessionRows]
  BY <1>2 DEF Databases
<1>7. /\ d1 \in Databases /\ d1.task = db.task /\ d1.rsv = db.rsv /\ d1.sess = db.sess
      /\ d1.lease = [db.lease EXCEPT ![l] = w]
  BY <1>0e, <1>2, <1>4 DEF Databases
<1> HIDE DEF d1
<1>8. d1.lease[l] = w /\ \A m \in Leases \ {l} : d1.lease[m] = db.lease[m]
  BY <1>0e, <1>6, <1>7
<1>9. /\ Release(db, d, l, s) /\ (~success => Gone(d.sess[s]) \/ Confined(d.sess[s]))
      /\ Barrier(d.sess[s], origin)
  <2>1. CASE Gone(r)
    BY <1>1, <1>4, <1>5, <1>7, <1>8, <2>1 DEF Release, Barrier
  <2>2. CASE ~Gone(r)
    <3>1. /\ q \in SessionRows /\ q.gen = r.gen /\ (q.sealed <=> r.sealed)
          /\ (q.token <=> r.token) /\ q.silent = r.silent /\ q.blocked = origin
          /\ q.state \in Assignable => r.state \in Assignable
          /\ Confined(r) => Confined(q)
          /\ ~success => Confined(q)
      BY <1>0d, <1>0e, <1>2, <2>2, AcknowledgedRow
    <3> HIDE DEF q
    <3>2. /\ d \in Databases /\ d.task = d1.task /\ d.rsv = d1.rsv /\ d.lease = d1.lease
          /\ d.sess = [d1.sess EXCEPT ![s] = q]
      BY <1>0e, <1>7, <2>2, <3>1 DEF Databases
    <3> HIDE DEF d
    <3>3. d.sess[s] = q /\ \A t \in Sessions \ {s} : d.sess[t] = db.sess[t]
      BY <1>0e, <1>6, <1>7, <3>2
    <3>4. Release(db, d, l, s)
      BY <1>1, <1>4, <1>5, <1>7, <1>8, <2>2, <3>1, <3>2, <3>3 DEF Release
    <3>5. Barrier(d.sess[s], origin)
      BY <1>0d, <3>1, <3>3 DEF Barrier
    <3> QED BY <3>1, <3>3, <3>4, <3>5
  <2> QED BY <2>1, <2>2
<1> HIDE DEF d
<1>10. Sound(d)
  BY <1>0e, <1>2, <1>9, ReleaseIsSound
<1>11. Calms(d, d4) /\ Sound(d4)
  <2> DEFINE c == refresh_session_state(d, {s})
  <2>1. Passes(d, c)
    BY <1>10, RefreshPasses
  <2> HIDE DEF c
  <2>2. Passes(c, d4)
    BY <2>1, RefreshExact DEF Passes, c
  <2> QED BY <1>10, <2>1, <2>2, PassesCompose, PassesAreCalm DEF Passes
<1> HIDE DEF d4
<1>12. PICK e \in place_queued_leases(d4, Leases) : Commit(e)
  BY <1>3
<1>13. Calms(d4, e) /\ Sound(e)
  BY <1>11, PlaceIsCalm DEF Calms
<1>14. Calms(d, e)
  BY <1>10, <1>11, <1>13, CalmComposes
<1>15. db' = e
  BY <1>12 DEF Commit
<1>16. solving' = solving
  <2>1. \A m \in Leases : ~(e.lease[m].permit > db.lease[m].permit)
    <3> TAKE m \in Leases
    <3>1. db.lease[m].permit \in Nat
      BY TableRows DEF LeaseRows
    <3>2. e.lease[m].permit = 0 \/ e.lease[m].permit = d.lease[m].permit
      BY <1>14 DEF Calms, Calm, CalmLease
    <3>3. d.lease[m].permit = db.lease[m].permit
      BY <1>9 DEF Release
    <3> QED BY <3>1, <3>2, <3>3
  <2>2. {m \in Leases : e.lease[m].permit > db.lease[m].permit} = {}
    BY <2>1
  <2>3. solving' = solving \oplus [m \in {} |-> e.lease[m].on]
    BY <1>12, <2>2 DEF Commit
  <2>4. solving \in [Leases -> Sessions \cup {NoSession}]
    BY DEF Tables, TypeOK
  <2> QED BY <2>3, <2>4 DEF \oplus
<1> QED
  BY <1>0a, <1>0d, <1>9, <1>14, <1>15, <1>16 DEF ReleaseStep

-----------------------------------------------------------------------------
(* Every step is one of seven kinds.                                       *)

StepKind ==
    \/ CalmStep \/ GrantStep
    \/ \E l \in Leases : AttachStep(l) \/ SettleStep(l)
    \/ \E s \in Sessions : HostMove(s) \/ DeadStep(s)
    \/ \E s \in Sessions, l \in Leases : ReleaseStep(s, l)

LEMMA NextKinds ==
    ASSUME Tables, [Next]_vars
    PROVE  StepKind
<1>1. CASE UNCHANGED vars
  <2>1. Calms(db, db')
    BY <1>1, TableRows, NothingIsCalm DEF vars
  <2> QED BY <1>1, <2>1 DEF vars, StepKind, CalmStep
<1>2. ASSUME NEW l \in Leases, ClientStep(l) PROVE StepKind
  <2>1. CASE request_lease(l)
    BY <2>1, RequestLease DEF StepKind
  <2>2. CASE heartbeat_lease(l)
    BY <2>2, HeartbeatLease DEF StepKind
  <2>3. CASE accept_lease(l)
    BY <2>3, AcceptLease DEF StepKind
  <2>4. CASE activate_lease(l)
    BY <2>4, ActivateLease DEF StepKind
  <2>5. CASE \E b \in BOOLEAN : request_solve_permit(l, b)
    BY <2>5, RequestSolvePermit DEF StepKind
  <2>6. CASE complete_native_pipeline(l)
    BY <2>6, CompleteNative DEF StepKind
  <2>7. CASE cancel_lease(l)
    BY <2>7, CancelLease DEF StepKind
  <2>8. CASE \E s \in Sessions : report_transport_death(l, s)
    BY <2>8, TransportDeath DEF StepKind
  <2>9. CASE \E s \in Sessions : report_solver_timeout(l, s)
    BY <2>9, SolverTimeout DEF StepKind
  <2> QED
    BY <1>2, <2>1, <2>2, <2>3, <2>4, <2>5, <2>6, <2>7, <2>8, <2>9 DEF ClientStep
<1>3. ASSUME NEW s \in Sessions, HostStep(s) PROVE StepKind
  <2>1. CASE claim_start(s)
    BY <2>1, ClaimStart DEF StepKind
  <2>2. CASE register_session(s)
    BY <2>2, RegisterSession DEF StepKind
  <2>3. CASE fail_session_start(s)
    BY <2>3, FailSessionStart DEF StepKind
  <2>4. CASE begin_heartbeat(s)
    BY <2>4, BeginHeartbeat DEF StepKind
  <2>5. CASE heartbeat_session(s)
    BY <2>5, HeartbeatSession DEF StepKind
  <2>6. CASE report_native_suspect(s)
    BY <2>6, NativeSuspect DEF StepKind
  <2>7. CASE report_confirmed_death(s)
    BY <2>7, ConfirmedDeath DEF StepKind
  <2>8. CASE \E l \in Leases : close_project(s, l)
    BY <2>8, CloseProject DEF StepKind
  <2>9. CASE \E l \in Leases, b \in BOOLEAN : begin_release(s, l, b)
    BY <2>9, BeginRelease DEF StepKind
  <2>10. CASE \E b, requeue \in BOOLEAN : close_session(s, b, requeue)
    BY <2>10, CloseSession DEF StepKind
  <2>11. CASE host_dies(s)
    BY <2>11, HostDies DEF StepKind
  <2> QED
    BY <1>3, <2>1, <2>2, <2>3, <2>4, <2>5, <2>6, <2>7, <2>8, <2>9, <2>10, <2>11 DEF HostStep
<1>4. CASE ServiceStep
  <2>1. CASE reconcile_tick
    BY <2>1, ReconcileTick DEF StepKind
  <2>2. CASE \E l \in Leases : launch_task(l) \/ end_task(l) \/ abandon_reservation(l)
    BY <2>2, LaunchTask, EndTask, AbandonReservation DEF StepKind
  <2>3. CASE \E l \in Leases, s \in Sessions : prepare_pooled_task_session(l, s)
    BY <2>3, PrepareTask DEF StepKind
  <2>4. CASE \E T \in SUBSET Pinned, k \in Pinned, s \in Sessions :
                create_exact_session_reservation(T, k, s)
    BY <2>4, CreateReservation DEF StepKind
  <2>5. CASE \E s \in Sessions : probe_dead_session(s) \/ reap_dead_session(s)
    BY <2>5, ProbeDeadSession, ReapDeadSession DEF StepKind
  <2>6. CASE \E a \in Allocs : close_empty_allocation(a)
    BY <2>6, CloseEmptyAllocation DEF StepKind
  <2>7. CASE \E b \in BOOLEAN : set_enabled(b)
    BY <2>7, SetEnabled DEF StepKind
  <2>8. CASE \E a \in acks : complete_release(a)
    <3>1. PICK a \in acks : complete_release(a)
      BY <2>8
    <3>2. a.on \in Sessions /\ a.lease \in Leases
      BY DEF Tables, TypeOK, Acks
    <3>3. CalmStep \/ ReleaseStep(a.on, a.lease)
      BY <3>1, CompleteRelease
    <3> QED BY <3>2, <3>3 DEF StepKind
  <2> QED
    BY <1>4, <2>1, <2>2, <2>3, <2>4, <2>5, <2>6, <2>7, <2>8 DEF ServiceStep
<1>5. CASE Time
  <2>1. CASE \E l \in Leases, w \in Windows : lease_window_passes(l, w)
    BY <2>1, LeaseWindowPasses DEF StepKind
  <2>2. CASE \E k \in Leases : reservation_expires(k)
    BY <2>2, ReservationExpires DEF StepKind
  <2>3. CASE \E s \in Sessions : session_goes_silent(s) \/ recycle_grace_passes(s)
    BY <2>3, SessionGoesSilent, RecycleGracePasses DEF StepKind
  <2>4. CASE \E a \in Allocs : allocation_ages(a)
    BY <2>4, AllocationAges DEF StepKind
  <2> QED
    BY <1>5, <2>1, <2>2, <2>3, <2>4 DEF Time
<1> QED
  BY <1>1, <1>2, <1>3, <1>4, <1>5 DEF Next

(* What the kinds do not speak of.                                         *)
Frame == /\ faults' = faults /\ enabled' \in BOOLEAN /\ beating' \subseteq Sessions
         /\ acks' \subseteq Acks /\ lifted' \subseteq Sessions
         /\ probed' \in [Sessions -> {"no", "draining", "unhealthy"}]

LEMMA PassedAcks ==
    ASSUME acks \subseteq Acks, NEW s
    PROVE  {[a EXCEPT !.passed = @ \/ a.on = s] : a \in acks} \subseteq Acks
<1> SUFFICES ASSUME NEW a \in Acks PROVE [a EXCEPT !.passed = @ \/ a.on = s] \in Acks
  OBVIOUS
<1> DEFINE p == a.passed \/ a.on = s
<1>1. p \in BOOLEAN
  BY DEF Acks
<1> HIDE DEF p
<1>2. [a EXCEPT !.passed = p] \in Acks
  BY <1>1 DEF Acks
<1> QED
  BY <1>2 DEF p

LEMMA HostFrame ==
    ASSUME Tables, NEW s \in Sessions, HostStep(s)
    PROVE  /\ enabled' = enabled /\ probed' = probed
           /\ \/ beating' = beating \/ beating' = beating \cup {s} \/ beating' = beating \ {s}
           /\ lifted' = lifted \/ lifted' = lifted \cup {s}
           /\ acks' \subseteq Acks
<1>0. acks \subseteq Acks
  BY DEF Tables, TypeOK
<1>1. CASE begin_heartbeat(s)
  BY <1>0, <1>1, PassedAcks DEF begin_heartbeat
<1>2. CASE \E l \in Leases, b \in BOOLEAN : begin_release(s, l, b)
  <2>1. PICK l \in Leases, b \in BOOLEAN : begin_release(s, l, b)
    BY <1>2
  <2>2. [on |-> s, lease |-> l, ok |-> b, passed |-> FALSE] \in Acks
    BY DEF Acks
  <2> QED BY <1>0, <2>1, <2>2 DEF begin_release
<1>3. CASE \/ heartbeat_session(s) \/ report_native_suspect(s)
           \/ claim_start(s) \/ register_session(s) \/ fail_session_start(s)
           \/ report_confirmed_death(s) \/ host_dies(s)
           \/ \E l \in Leases : close_project(s, l)
           \/ \E b, requeue \in BOOLEAN : close_session(s, b, requeue)
  BY <1>0, <1>3 DEF claim_start, register_session, fail_session_start, heartbeat_session,
          report_native_suspect, report_confirmed_death, close_project, close_session,
          host_dies, Rest, outside
<1> QED
  BY <1>1, <1>2, <1>3 DEF HostStep

LEMMA ServiceFrame ==
    ASSUME Tables, ServiceStep
    PROVE  /\ enabled' \in BOOLEAN /\ UNCHANGED <<beating, lifted>> /\ acks' \subseteq acks
           /\ probed' \in [Sessions -> {"no", "draining", "unhealthy"}]
<1>0. /\ enabled \in BOOLEAN /\ probed \in [Sessions -> {"no", "draining", "unhealthy"}]
  BY DEF Tables, TypeOK
<1>1. CASE \E s \in Sessions : probe_dead_session(s)
  BY <1>0, <1>1 DEF probe_dead_session, DeadSessionCandidate
<1>2. CASE \E s \in Sessions : reap_dead_session(s)
  BY <1>0, <1>2 DEF reap_dead_session
<1>3. CASE \E a \in acks : complete_release(a)
  BY <1>0, <1>3 DEF complete_release
<1>4. CASE \E b \in BOOLEAN : set_enabled(b)
  BY <1>0, <1>4 DEF set_enabled, outside
<1>5. CASE \/ reconcile_tick
           \/ \E l \in Leases : launch_task(l) \/ end_task(l) \/ abandon_reservation(l)
           \/ \E l \in Leases, s \in Sessions : prepare_pooled_task_session(l, s)
           \/ \E T \in SUBSET Pinned, k \in Pinned, s \in Sessions :
                 create_exact_session_reservation(T, k, s)
           \/ \E a \in Allocs : close_empty_allocation(a)
  <2>1. Rest
    BY <1>5 DEF reconcile_tick, launch_task, end_task, abandon_reservation,
                prepare_pooled_task_session, create_exact_session_reservation,
                close_empty_allocation
  <2> QED BY <1>0, <2>1 DEF Rest, outside
<1> QED
  BY <1>1, <1>2, <1>3, <1>4, <1>5 DEF ServiceStep

LEMMA NextFrame ==
    ASSUME Tables, [Next]_vars
    PROVE  Frame
<1>0. /\ enabled \in BOOLEAN /\ beating \subseteq Sessions /\ acks \subseteq Acks
      /\ lifted \subseteq Sessions /\ probed \in [Sessions -> {"no", "draining", "unhealthy"}]
  BY DEF Tables, TypeOK
<1>1. CASE UNCHANGED vars
  BY <1>0, <1>1 DEF vars, outside, Frame
<1>2. ASSUME Next, NEW l \in Leases, ClientStep(l) PROVE Frame
  <2>1. UNCHANGED <<enabled, outside, lifted>>
    BY <1>2 DEF ClientStep, request_lease, heartbeat_lease, accept_lease, activate_lease,
                request_solve_permit, complete_native_pipeline, cancel_lease,
                report_transport_death, report_solver_timeout, Rest
  <2> QED BY <1>0, <1>2, <2>1 DEF Next, outside, Frame
<1>3. ASSUME Next, NEW s \in Sessions, HostStep(s) PROVE Frame
  BY <1>0, <1>3, HostFrame DEF Next, Frame
<1>4. ASSUME Next, ServiceStep PROVE Frame
  BY <1>0, <1>4, ServiceFrame DEF Next, Frame
<1>5. ASSUME Next, Time PROVE Frame
  <2>1. Rest
    BY <1>5 DEF Time, lease_window_passes, reservation_expires, session_goes_silent,
                recycle_grace_passes, allocation_ages
  <2> QED BY <1>0, <1>5, <2>1 DEF Next, Rest, outside, Frame
<1> QED
  BY <1>1, <1>2, <1>3, <1>4, <1>5 DEF Next

LEMMA AttachIsSound ==
    ASSUME NEW d, Sound(d), NEW e, NEW l \in Leases, NEW s, Attach(d, e, l, s)
    PROVE  /\ Sound(e) /\ (Fits(d) => Fits(e))
           /\ \A t : Permits(e, t) = Permits(d, t)
<1> USE DEF Attach
<1>1. /\ d.lease[l].state \in SlotStates /\ e.lease[l].state \in SlotStates
      /\ d.lease[l].state \in LiveStates /\ d.lease[l].permit = 0
  BY DEF SlotStates, OwnerStates, LiveStates, Sound, LeaseSound
<1>2. ASSUME NEW m \in Leases PROVE LeaseSound(e, m)
  <2>1. LeaseSound(d, m)
    BY DEF Sound
  <2>2. CASE m = l
    BY <1>1, <2>1, <2>2 DEF LeaseSound
  <2>3. CASE m # l
    BY <2>1, <2>3 DEF LeaseSound
  <2> QED BY <2>2, <2>3
<1>3. ASSUME NEW m \in Leases PROVE PermitSound(e, m)
  <2>1. PermitSound(d, m)
    BY DEF Sound
  <2>2. CASE m = l
    BY <2>2 DEF PermitSound
  <2>3. CASE m # l
    BY <2>1, <2>3 DEF PermitSound
  <2> QED BY <2>2, <2>3
<1>4. ASSUME NEW m \in Leases PROVE RsvSound(e, m)
  <2>1. RsvSound(d, m)
    BY DEF Sound
  <2>2. CASE m = l
    BY <1>1, <2>1, <2>2 DEF RsvSound
  <2>3. CASE m # l
    BY <2>1, <2>3 DEF RsvSound
  <2> QED BY <2>2, <2>3
<1>5. OnePermit(e)
  <2>1. OnePermit(d)
    BY DEF Sound
  <2> QED BY <2>1 DEF OnePermit
<1>6. Sound(e)
  BY <1>2, <1>3, <1>4, <1>5 DEF Sound
<1>7. \A t : Occupants(e, t) = Occupants(d, t) /\ Held(e, t) = Held(d, t)
  BY <1>1 DEF Occupants, Held
<1>8. \A m \in Leases : e.lease[m].permit = d.lease[m].permit
  BY <1>1
<1>9. \A t : Occupants(d, t) \subseteq Leases
  BY DEF Occupants
<1> HIDE DEF Attach
<1>10. \A t : Permits(e, t) = Permits(d, t)
  BY <1>7, <1>8, <1>9 DEF Permits
<1> QED
  BY <1>6, <1>7, <1>10 DEF Fits, Load

LEMMA BarrierKept ==
    ASSUME NEW r, NEW q, NEW u, SessionKept(r, q), Barrier(r, u)
    PROVE  Barrier(q, u)
BY DEF SessionKept, Barrier, Blocked

LEMMA CalmBarrier ==
    ASSUME NEW d, NEW e, Calms(d, e), NEW u,
           \A s \in Sessions : Barrier(d.sess[s], u[s])
    PROVE  \A s \in Sessions : Barrier(e.sess[s], u[s])
BY BarrierKept DEF Calms, Calm

LEMMA CalmHosted ==
    ASSUME NEW d, NEW e, Calms(d, e), NEW U \in SUBSET Sessions, Hosted(d, U)
    PROVE  Hosted(e, U)
BY DEF Calms, Calm, SessionKept, Hosted

-----------------------------------------------------------------------------
(* The invariant of the tables.                                            *)

LEMMA TablesPrimed ==
    ASSUME TypeOK, Frame, Sound(db'), Fits(db'), up' \subseteq Sessions,
           project' \in [Leases -> Sessions \cup {NoSession}],
           solving' \in [Leases -> Sessions \cup {NoSession}],
           unproven' \in [Sessions -> {"no", "set", "fresh"}],
           \A s \in Sessions : Barrier(db'.sess[s], unproven'[s]),
           Hosted(db', up')
    PROVE  Tables'
<1>1. TypeOK'
  BY DEF TypeOK, Frame, Sound
<1>2. Sound(db)'
  BY DEF Sound
<1>3. slots_total' = slots_total
  BY DEF slots_total, Frame
<1>4. Fits(db)'
  BY <1>3 DEF Fits
<1>5. (\A s \in Sessions : Barrier(db.sess[s], unproven[s]))'
  OBVIOUS
<1>6. Hosted(db, up)'
  OBVIOUS
<1> QED BY <1>1, <1>2, <1>4, <1>5, <1>6 DEF Tables

(* The tables after a step that left the Desktops alone.                   *)
LEMMA TablesKept ==
    ASSUME Tables, Frame, Calms(db, db'), up' = up, unproven' = unproven,
           project' \in [Leases -> Sessions \cup {NoSession}],
           solving' \in [Leases -> Sessions \cup {NoSession}]
    PROVE  Tables'
<1>1. TypeOK /\ Fits(db) /\ Hosted(db, up) /\ \A s \in Sessions : Barrier(db.sess[s], unproven[s])
  BY DEF Tables
<1>2. /\ up \subseteq Sessions /\ up \in SUBSET Sessions
      /\ unproven \in [Sessions -> {"no", "set", "fresh"}]
  BY <1>1 DEF TypeOK
<1>3. \A s \in Sessions : Barrier(db'.sess[s], unproven[s])
  BY <1>1, CalmBarrier
<1>4. Hosted(db', up)
  BY <1>1, <1>2, CalmHosted
<1>5. Sound(db') /\ Fits(db')
  BY <1>1 DEF Calms
<1> QED BY <1>1, <1>2, <1>3, <1>4, <1>5, TablesPrimed

LEMMA TablesStep ==
    ASSUME Tables, [Next]_vars
    PROVE  Tables'
<1>1. TypeOK /\ Sound(db) /\ Fits(db) /\ Hosted(db, up)
      /\ \A s \in Sessions : Barrier(db.sess[s], unproven[s])
  BY DEF Tables
<1>2. Frame
  BY NextFrame
<1>3. /\ up \in SUBSET Sessions
      /\ project \in [Leases -> Sessions \cup {NoSession}]
      /\ solving \in [Leases -> Sessions \cup {NoSession}]
      /\ unproven \in [Sessions -> {"no", "set", "fresh"}]
  BY <1>1 DEF TypeOK
<1>4. CASE CalmStep
  BY <1>2, <1>3, <1>4, TablesKept DEF CalmStep
<1>5. CASE GrantStep
  <2>1. PICK s \in Sessions, l \in Leases : \E d :
            /\ Calms(db, d) /\ Permitting(d, s, l, db')
            /\ Sound(db') /\ (Fits(db) => Fits(db'))
            /\ solving' = [solving EXCEPT ![l] = s]
            /\ UNCHANGED <<up, project, unproven>>
    BY <1>5 DEF GrantStep
  <2>2. PICK d : Calms(db, d) /\ Permitting(d, s, l, db')
    BY <2>1
  <2>3. \A t \in Sessions : Barrier(d.sess[t], unproven[t])
    BY <1>1, <2>2, CalmBarrier
  <2>4. Hosted(d, up)
    BY <1>1, <1>3, <2>2, CalmHosted
  <2>5. \A t \in Sessions : Barrier(db'.sess[t], unproven[t])
    BY <2>2, <2>3 DEF Permitting, Barrier, Gone
  <2>6. Hosted(db', up)
    BY <1>3, <2>2, <2>4 DEF Permitting, Hosted
  <2>7. solving' \in [Leases -> Sessions \cup {NoSession}]
    BY <1>3, <2>1
  <2> QED BY <1>1, <1>2, <1>3, <2>1, <2>5, <2>6, <2>7, TablesPrimed
<1>6. ASSUME NEW l \in Leases, AttachStep(l) PROVE Tables'
  <2>1. /\ Attach(db, db', l, db.lease[l].on)
        /\ project' = [project EXCEPT ![l] = db.lease[l].on]
        /\ UNCHANGED <<up, solving, unproven>>
    BY <1>6 DEF AttachStep
  <2>2. db'.sess = db.sess /\ db.lease[l].on \in Sessions
    BY <2>1 DEF Attach
  <2>3. Sound(db') /\ Fits(db')
    BY <1>1, <2>1, AttachIsSound
  <2>4. project' \in [Leases -> Sessions \cup {NoSession}]
    BY <1>3, <2>1, <2>2
  <2>5. Hosted(db', up')
    BY <1>1, <2>1, <2>2 DEF Hosted
  <2> QED BY <1>1, <1>2, <1>3, <2>1, <2>2, <2>3, <2>4, <2>5, TablesPrimed
<1>7. ASSUME NEW l \in Leases, SettleStep(l) PROVE Tables'
  <2>1. solving' \in [Leases -> Sessions \cup {NoSession}]
    BY <1>3, <1>7 DEF SettleStep
  <2>2. project' \in [Leases -> Sessions \cup {NoSession}]
    BY <1>3, <1>7 DEF SettleStep
  <2> QED BY <1>2, <1>7, <2>1, <2>2, TablesKept DEF SettleStep
<1>8. ASSUME NEW s \in Sessions, HostMove(s) PROVE Tables'
  <2>1. PICK d :
          /\ SessionMoved(db, d, s) /\ Calms(d, db')
          /\ db.sess[s].token => d.sess[s].token
          /\ \E u \in {"no", "set", "fresh"} : /\ unproven' = [unproven EXCEPT ![s] = u]
                                               /\ Barrier(d.sess[s], u)
          /\ \/ up' = up
             \/ up' = up \cup {s} /\ d.sess[s].token
          /\ UNCHANGED <<project, solving>>
    BY <1>8 DEF HostMove
  <2>2. Fits(d)
    BY <1>1, <2>1, MovedIsSound
  <2>3. \A t \in Sessions \ {s} : d.sess[t] = db.sess[t]
    BY <2>1 DEF SessionMoved
  <2>4. unproven' \in [Sessions -> {"no", "set", "fresh"}]
    BY <1>3, <2>1
  <2>5. \A t \in Sessions : Barrier(d.sess[t], unproven'[t])
    BY <1>1, <1>3, <2>1, <2>3
  <2>6. up' \in SUBSET Sessions
    BY <1>3, <2>1
  <2>7. Hosted(d, up')
    BY <1>1, <1>3, <2>1, <2>3 DEF Hosted
  <2>8. Sound(db') /\ Fits(db')
    BY <2>1, <2>2 DEF Calms
  <2>9. Hosted(db', up')
    BY <2>1, <2>6, <2>7, CalmHosted
  <2>10. \A t \in Sessions : Barrier(db'.sess[t], unproven'[t])
    BY <2>1, <2>5, CalmBarrier
  <2> QED BY <1>1, <1>2, <1>3, <2>1, <2>4, <2>6, <2>8, <2>9, <2>10, TablesPrimed
<1>9. ASSUME NEW s \in Sessions, DeadStep(s) PROVE Tables'
  <2>1. /\ Passes(db, db') /\ unproven' = unproven /\ up' \subseteq up
        /\ project' = Without(project, s) /\ solving' = Without(solving, s)
    BY <1>9 DEF DeadStep
  <2>2. Calms(db, db')
    BY <1>1, <2>1, PassesAreCalm
  <2>3. Hosted(db', up)
    BY <1>1, <1>3, <2>2, CalmHosted
  <2>4. Hosted(db', up')
    BY <2>1, <2>3 DEF Hosted
  <2>5. \A t \in Sessions : Barrier(db'.sess[t], unproven[t])
    BY <1>1, <2>2, CalmBarrier
  <2>6. /\ project' \in [Leases -> Sessions \cup {NoSession}]
        /\ solving' \in [Leases -> Sessions \cup {NoSession}]
    BY <1>3, <2>1 DEF Without
  <2>7. Sound(db') /\ Fits(db')
    BY <1>1, <2>2 DEF Calms
  <2> QED BY <1>1, <1>2, <1>3, <2>1, <2>4, <2>5, <2>6, <2>7, TablesPrimed
<1>10. ASSUME NEW s \in Sessions, NEW l \in Leases, ReleaseStep(s, l) PROVE Tables'
  <2>0. PICK d : /\ Release(db, d, l, s) /\ Calms(d, db')
                 /\ \E u \in {"set", "fresh"} : /\ unproven' = [unproven EXCEPT ![s] = u]
                                                /\ Barrier(d.sess[s], u)
    BY <1>10 DEF ReleaseStep
  <2>1. PICK u \in {"set", "fresh"} : /\ unproven' = [unproven EXCEPT ![s] = u]
                                      /\ Barrier(d.sess[s], u)
    BY <2>0
  <2>2. UNCHANGED <<up, project, solving>>
    BY <1>10 DEF ReleaseStep
  <2>3. Fits(d)
    BY <1>1, <2>0, ReleaseIsSound
  <2>4. Sound(db') /\ Fits(db')
    BY <2>0, <2>3 DEF Calms
  <2>5. \A t \in Sessions : Barrier(d.sess[t], unproven'[t])
    <3> TAKE t \in Sessions
    <3>1. CASE t = s
      BY <1>3, <2>1, <3>1
    <3>2. CASE t # s
      BY <1>1, <1>3, <2>0, <2>1, <3>2 DEF Release
    <3> QED BY <3>1, <3>2
  <2>6. \A t \in Sessions : Barrier(db'.sess[t], unproven'[t])
    BY <2>0, <2>5, CalmBarrier
  <2>7. Hosted(d, up)
    BY <1>1, <1>3, <2>0 DEF Hosted, Release
  <2>8. Hosted(db', up)
    BY <1>3, <2>0, <2>7, CalmHosted
  <2>9. unproven' \in [Sessions -> {"no", "set", "fresh"}]
    BY <1>3, <2>1
  <2> QED BY <1>1, <1>2, <1>3, <2>2, <2>4, <2>6, <2>8, <2>9, TablesPrimed
<1>11. StepKind
  BY NextKinds
<1> QED
  BY <1>4, <1>5, <1>6, <1>7, <1>8, <1>9, <1>10, <1>11 DEF StepKind

LEMMA InitRows ==
    ASSUME Init
    PROVE  /\ db \in Databases
           /\ \A l \in Leases : /\ db.lease[l].state = "none" /\ db.lease[l].permit = 0
                                /\ ~db.lease[l].exact /\ db.rsv[l].state = "none"
           /\ \A s \in Sessions : /\ db.sess[s].state = "none" /\ db.sess[s].silent = 0
                                  /\ db.sess[s].blocked = "no" /\ db.sess[s].quar = ""
<1>0. PICK T \in SUBSET Pinned :
         db = [
             task |-> [l \in Leases |-> IF l \in T THEN "queued" ELSE "running"],
             rsv |-> [l \in Leases |-> [state |-> "none", on |-> NoSession, key |-> l,
                                       auto |-> FALSE, over |-> FALSE]],
             lease |-> [l \in Leases |-> NewLease("none", FALSE)],
             sess |-> [s \in Sessions |->
                         [state |-> "none", host |-> FALSE, token |-> FALSE,
                          sealed |-> FALSE, gen |-> 0, blocked |-> "no", drain |-> FALSE,
                          quar |-> "", why |-> "", silent |-> 0, over |-> FALSE]],
             alloc |-> [a \in Allocs |-> [state |-> "active", why |-> "demand", old |-> FALSE]]]
  BY DEF Init
<1>1. \A l \in Leases : NewLease("none", FALSE) \in LeaseRows
  BY DEF NewLease, LeaseRows, LiveStates, SlotStates, OwnerStates, EndStates
<1>2. \A l \in Leases : [state |-> "none", on |-> NoSession, key |-> l,
                         auto |-> FALSE, over |-> FALSE] \in RsvRows
  BY DEF RsvRows, LiveRsv, PendingRsv
<1>3. [state |-> "none", host |-> FALSE, token |-> FALSE,
       sealed |-> FALSE, gen |-> 0, blocked |-> "no", drain |-> FALSE,
       quar |-> "", why |-> "", silent |-> 0, over |-> FALSE] \in SessionRows
  BY DEF SessionRows, Visible, Assignable, Quarantines, Faulty
<1>4. [state |-> "active", why |-> "demand", old |-> FALSE] \in AllocRows
  BY DEF AllocRows, DrainReasons
<1>5. db \in Databases
  BY <1>0, <1>1, <1>2, <1>3, <1>4 DEF Databases
<1>6. \A l \in Leases : db.lease[l] = NewLease("none", FALSE)
  BY <1>0
<1>7. \A l \in Leases : /\ db.lease[l].state = "none" /\ db.lease[l].permit = 0
                        /\ ~db.lease[l].exact
  BY <1>6 DEF NewLease
<1>8. \A l \in Leases : db.rsv[l].state = "none"
  BY <1>0
<1>9. \A s \in Sessions : /\ db.sess[s].state = "none" /\ db.sess[s].silent = 0
                          /\ db.sess[s].blocked = "no" /\ db.sess[s].quar = ""
  BY <1>0
<1> QED BY <1>5, <1>7, <1>8, <1>9

LEMMA InitTables ==
    ASSUME Init
    PROVE  Tables
<1>1. TypeOK
  BY InitRows DEF Init, TypeOK
<1>2. Sound(db)
  <2>1. \A l \in Leases : LeaseSound(db, l) /\ PermitSound(db, l) /\ RsvSound(db, l)
    BY InitRows DEF LeaseSound, PermitSound, RsvSound, LiveStates, SlotStates, OwnerStates, PendingRsv
  <2>2. OnePermit(db)
    BY InitRows DEF OnePermit, SlotStates, OwnerStates
  <2>3. \A s \in Sessions : db.sess[s].state \notin Assignable
    BY InitRows DEF Assignable
  <2> QED BY <2>1, <2>2, <2>3, InitRows DEF Sound
<1>3. Fits(db)
  <2>1. \A s \in Sessions : Load(db, s) = {}
    BY InitRows DEF Load, Occupants, Held, SlotStates, OwnerStates, PendingRsv
  <2>2. slots_total \in Nat
    BY AedtPoolAssumptions DEF slots_total
  <2> QED BY <2>1, <2>2, FS_EmptySet DEF Fits
<1>4. \A s \in Sessions : Barrier(db.sess[s], unproven[s])
  BY DEF Init, Barrier
<1>5. Hosted(db, up)
  BY DEF Init, Hosted
<1> QED BY <1>1, <1>2, <1>3, <1>4, <1>5 DEF Tables

(* Whatever the clients, the hosts, the tick and the operator do, in any   *)
(* order: the rows keep the domains of their columns, the permits fit the  *)
(* generations of the Desktops, slots are not oversold and a release       *)
(* leaves the reuse barrier standing.                                      *)
THEOREM TablesHold == Spec => []Tables
<1>1. Tables /\ [Next]_vars => Tables'
  BY TablesStep
<1> QED BY <1>1, InitTables, PTL DEF Spec

(* A live permit belongs to the generation its Desktop is sealed for, and  *)
(* nobody who is not attached holds one (_grant_solve_batch_if_ready and   *)
(* the passes that requeue, fail and expire leases).                       *)
THEOREM PermitsAreCurrent == Spec => []PermitIsCurrent
<1>1. Tables => PermitIsCurrent
  BY DEF Tables, Sound, LeaseSound, PermitSound, PermitIsCurrent
<1> QED BY <1>1, TablesHold, PTL

(* No call places or reserves more than a Desktop has slots: neither       *)
(* _place_queued_leases nor prepare_pooled_task_session, nor a requeued    *)
(* lease whose reservation becomes pending again.                          *)
THEOREM SlotsAreNotOversold == Spec => []SlotsNotOversold
<1>1. Tables => SlotsNotOversold
  BY LoadIsSum DEF Tables, Fits, SlotsNotOversold
<1> QED BY <1>1, TablesHold, PTL

(* complete_release raises reuse_blocked_at, and only a heartbeat that read *)
(* the clock after the acknowledgement had read it takes it down, in       *)
(* whichever order the two commit and whatever dies in between.            *)
THEOREM BarrierStands == Spec => []BarrierHolds
<1>1. Tables => BarrierHolds
  <2> SUFFICES ASSUME Tables, NEW s \in Sessions, unproven[s] # "no",
                      db.sess[s].state \in Assignable
               PROVE  db.sess[s].blocked # "no"
    BY DEF BarrierHolds
  <2>1. unproven[s] \in {"set", "fresh"}
    BY DEF Tables, TypeOK
  <2>2. ~Gone(db.sess[s])
    BY DEF Gone, Assignable
  <2> QED BY <2>1, <2>2 DEF Tables, Barrier
<1> QED BY <1>1, TablesHold, PTL

-----------------------------------------------------------------------------
(* Permits are turns.                                                      *)

LEMMA AtMostOnePermit ==
    ASSUME NEW d, Sound(d), NEW s, NEW l \in Permits(d, s)
    PROVE  Permits(d, s) = {l}
<1>1. \A m \in Permits(d, s) : m = l
  BY DEF Sound, OnePermit, Permits, Occupants
<1> QED BY <1>1

(* A grant is the only step that adds a permit, and it finds none.         *)
LEMMA PermitStep ==
    ASSUME Tables, [Next]_vars, NEW s \in Sessions
    PROVE  \/ Permits(db', s) \subseteq Permits(db, s)
           \/ Permits(db, s) = {} /\ \E l \in Leases : Permits(db', s) = {l}
<1> DEFINE Goal == \/ Permits(db', s) \subseteq Permits(db, s)
                   \/ Permits(db, s) = {} /\ \E l \in Leases : Permits(db', s) = {l}
<1>0. Sound(db)
  BY DEF Tables
<1>1. ASSUME NEW d, NEW e, Calms(d, e) PROVE Permits(e, s) \subseteq Permits(d, s)
  BY <1>1, CalmPermits DEF Calms, Calm
<1>2. CASE CalmStep
  BY <1>1, <1>2 DEF CalmStep
<1>3. CASE GrantStep
  <2>1. PICK t \in Sessions, l \in Leases : \E d :
            /\ Calms(db, d) /\ Permits(db, t) = {}
            /\ l \in Waiting(d, t) /\ Permitting(d, t, l, db') /\ Sound(db')
    BY <1>3 DEF GrantStep
  <2>2. PICK d : /\ Calms(db, d) /\ l \in Waiting(d, t)
                 /\ Permitting(d, t, l, db')
    BY <2>1
  <2>3. Permits(d, s) \subseteq Permits(db, s)
    BY <1>1, <2>2
  <2>4. \A m \in Leases : /\ db'.lease[m].state = d.lease[m].state
                          /\ db'.lease[m].on = d.lease[m].on
                          /\ m # l => db'.lease[m].permit = d.lease[m].permit
    BY <2>2 DEF Permitting
  <2>5. Permits(db', s) \subseteq Permits(d, s) \cup {l}
    BY <2>4 DEF Permits, Occupants
  <2>6. d.lease[l].on = t
    BY <2>2 DEF Waiting, Occupants
  <2>7. CASE s # t
    <3>1. l \notin Permits(db', s)
      BY <2>4, <2>6, <2>7 DEF Permits, Occupants
    <3> QED BY <2>3, <2>5, <3>1
  <2>8. CASE s = t
    BY <2>1, <2>3, <2>5, <2>8
  <2> QED BY <2>7, <2>8
<1>4. ASSUME NEW l \in Leases, AttachStep(l) PROVE Goal
  BY <1>0, <1>4, AttachIsSound DEF AttachStep
<1>5. ASSUME NEW l \in Leases, SettleStep(l) PROVE Goal
  BY <1>1, <1>5 DEF SettleStep
<1>6. ASSUME NEW t \in Sessions, HostMove(t) PROVE Goal
  <2>1. PICK d : SessionMoved(db, d, t) /\ Calms(d, db')
    BY <1>6 DEF HostMove
  <2>2. Permits(d, s) = Permits(db, s)
    BY <1>0, <2>1, MovedIsSound
  <2> QED BY <1>1, <2>1, <2>2
<1>7. ASSUME NEW t \in Sessions, DeadStep(t) PROVE Goal
  BY <1>0, <1>1, <1>7, PassesAreCalm DEF DeadStep
<1>8. ASSUME NEW t \in Sessions, NEW l \in Leases, ReleaseStep(t, l) PROVE Goal
  <2>1. PICK d : Release(db, d, l, t) /\ Calms(d, db')
    BY <1>8 DEF ReleaseStep
  <2>3. Permits(d, s) \subseteq Permits(db, s)
    BY <1>0, <2>1, ReleaseIsSound
  <2>4. Permits(db', s) \subseteq Permits(d, s)
    BY <1>1, <2>1
  <2> QED BY <2>3, <2>4
<1>9. StepKind
  BY NextKinds
<1> QED
  BY <1>2, <1>3, <1>4, <1>5, <1>6, <1>7, <1>8, <1>9 DEF StepKind

(* The solve permits implement one turn per Desktop: the detailed          *)
(* specification of the pool implements DesktopTurn, with the permit of a  *)
(* slot as the turn.                                                       *)
THEOREM PermitsImplementTurns == Spec => PermitsAreTurns
<1> DEFINE T == [s \in Sessions |-> Permitted(s)]
<1>0. \A s : Permitted(s) = Permits(db, s)
  BY DEF Permitted, Permits
<1>1. Init => Turn!Init
  <2> SUFFICES ASSUME Init PROVE \A s \in Sessions : Permitted(s) = {}
    BY DEF Turn!Init
  <2> QED BY InitRows DEF Permitted, Occupants, SlotStates, OwnerStates
<1>2. Tables /\ [Next]_vars => [Turn!Next]_T
  <2> SUFFICES ASSUME Tables, [Next]_vars PROVE Turn!Next
    OBVIOUS
  <2>1. Sound(db)
    BY DEF Tables
  <2>2. Tables'
    BY TablesStep
  <2>3. \A s \in Sessions : T[s] = Permits(db, s) /\ T'[s] = Permits(db', s)
    BY DEF Permitted, Permits, Occupants
  <2>4. ASSUME NEW s \in Sessions
        PROVE  Turn!Take(s) \/ Turn!Leave(s) \/ Turn!Keep(s)
    <3>1. CASE Permits(db, s) = {} /\ \E l \in Leases : Permits(db', s) = {l}
      BY <2>3, <3>1 DEF Turn!Take, Turn!Free
    <3>2. CASE Permits(db', s) \subseteq Permits(db, s)
      <4>1. CASE Permits(db, s) = {}
        BY <2>3, <3>2, <4>1 DEF Turn!Keep
      <4>2. CASE Permits(db, s) # {}
        <5>1. PICK l : Permits(db, s) = {l}
          BY <2>1, <4>2, AtMostOnePermit
        <5>2. Permits(db', s) = {} \/ Permits(db', s) = {l}
          BY <3>2, <5>1
        <5> QED BY <2>3, <4>2, <5>1, <5>2 DEF Turn!Leave, Turn!Keep, Turn!Free
      <4> QED BY <4>1, <4>2
    <3> QED BY <3>1, <3>2, PermitStep
  <2> QED BY <2>4 DEF Turn!Next
<1> QED
  BY <1>1, <1>2, TablesHold, PTL DEF Spec, PermitsAreTurns, Turn!Spec

-----------------------------------------------------------------------------
(* What really runs on the Desktops: U are the Desktops that exist and      *)
(* whose quarantine was never overwritten, P where the projects are open   *)
(* and S where the pipelines run.                                          *)

Trusted == up \ lifted

(* A Desktop that serves nobody any more.                                  *)
Lost(d, s) == Gone(d.sess[s]) \/ Confined(d.sess[s])

Owns(d, l, s) == d.lease[l].on = s /\ d.lease[l].state \in OwnerStates

(* Nothing is open or running on a Desktop that was never registered.      *)
HostSound(d, P, S) ==
    \A l \in Leases, s \in Sessions : P[l] = s \/ S[l] = s \/ Owns(d, l, s) => d.sess[s].token

(* An open project belongs to an owner, or its Desktop is lost.            *)
ProjectSound(d, U, P) ==
    \A l \in Leases, s \in U : P[l] = s /\ ~d.lease[l].exact => Owns(d, l, s) \/ Lost(d, s)

(* Who was attached still has the project open, or its Desktop is lost.    *)
AttachSound(d, U, P) ==
    \A l \in Leases, s \in U :
        d.lease[l].on = s /\ d.lease[l].state \in {"attaching", "active"}
        => P[l] = s \/ Lost(d, s)

(* A pipeline belongs to an owner with a permit, or its Desktop is lost.   *)
Running(d, P, l, s) == Owns(d, l, s) /\ d.lease[l].permit > 0 /\ P[l] = s

SolveSound(d, U, P, S) ==
    \A l \in Leases, s \in U :
        S[l] = s /\ ~d.lease[l].exact => Running(d, P, l, s) \/ Lost(d, s)

Serial(d, U, S) ==
    \A l, m \in Leases : /\ S[l] \in U /\ S[l] = S[m]
                         /\ ~d.lease[l].exact /\ ~d.lease[m].exact
                         => l = m

(* Calm changes of the rows.                                               *)

LEMMA CalmLost ==
    ASSUME NEW d, NEW e, Calms(d, e), NEW s \in Sessions, Lost(d, s)
    PROVE  Lost(e, s)
BY DEF Calms, Calm, SessionKept, Lost

LEMMA CalmOwner ==
    ASSUME NEW d, NEW e, Calms(d, e), NEW l \in Leases, ~e.lease[l].exact,
           NEW s \in Sessions, Owns(d, l, s)
    PROVE  Lost(e, s) \/ (Owns(e, l, s) /\ e.lease[l].permit = d.lease[l].permit)
<1>1. CalmLease(d.lease[l], e.lease[l]) /\ OwnerKept(d, e, l)
  BY DEF Calms, Calm
<1>2. ~d.lease[l].exact /\ d.lease[l].on = s /\ d.lease[l].state \in OwnerStates
  BY <1>1 DEF CalmLease, Owns
<1>3. CASE e.lease[l].state \in OwnerStates
  BY <1>1, <1>2, <1>3 DEF CalmLease, Owns
<1>4. CASE Gone(e.sess[s])
  BY <1>4 DEF Lost
<1>5. CASE Confined(e.sess[s])
  BY <1>5 DEF Lost
<1> QED
  BY <1>1, <1>2, <1>3, <1>4, <1>5 DEF OwnerKept

LEMMA CalmHost ==
    ASSUME NEW d, NEW e, Calms(d, e), NEW P, NEW S, HostSound(d, P, S)
    PROVE  HostSound(e, P, S)
<1>1. \A s \in Sessions : e.sess[s].token <=> d.sess[s].token
  BY DEF Calms, Calm, SessionKept
<1>2. \A l \in Leases, s \in Sessions : Owns(e, l, s) => Owns(d, l, s)
  BY DEF Calms, Calm, CalmLease, Owns
<1> QED BY <1>1, <1>2 DEF HostSound

LEMMA CalmProject ==
    ASSUME NEW d, NEW e, Calms(d, e), NEW U \in SUBSET Sessions, NEW P, ProjectSound(d, U, P)
    PROVE  ProjectSound(e, U, P)
<1> SUFFICES ASSUME NEW l \in Leases, NEW s \in U, P[l] = s, ~e.lease[l].exact
             PROVE  Owns(e, l, s) \/ Lost(e, s)
  BY DEF ProjectSound
<1>1. ~d.lease[l].exact
  BY DEF Calms, Calm, CalmLease
<1>2. Owns(d, l, s) \/ Lost(d, s)
  BY <1>1 DEF ProjectSound
<1> QED BY <1>2, CalmLost, CalmOwner

LEMMA CalmAttached ==
    ASSUME NEW d, NEW e, Calms(d, e), NEW U \in SUBSET Sessions, NEW P, AttachSound(d, U, P)
    PROVE  AttachSound(e, U, P)
<1> SUFFICES ASSUME NEW l \in Leases, NEW s \in U, e.lease[l].on = s,
                    e.lease[l].state \in {"attaching", "active"}
             PROVE  P[l] = s \/ Lost(e, s)
  BY DEF AttachSound
<1>1. d.lease[l].on = s /\ d.lease[l].state \in {"attaching", "active"}
  BY DEF Calms, Calm, CalmLease, OwnerStates
<1>2. P[l] = s \/ Lost(d, s)
  BY <1>1 DEF AttachSound
<1> QED BY <1>2, CalmLost

LEMMA CalmSolve ==
    ASSUME NEW d, NEW e, Calms(d, e), NEW U \in SUBSET Sessions, NEW P, NEW S,
           SolveSound(d, U, P, S)
    PROVE  SolveSound(e, U, P, S)
<1> SUFFICES ASSUME NEW l \in Leases, NEW s \in U, S[l] = s, ~e.lease[l].exact
             PROVE  Running(e, P, l, s) \/ Lost(e, s)
  BY DEF SolveSound
<1>1. ~d.lease[l].exact
  BY DEF Calms, Calm, CalmLease
<1>2. Running(d, P, l, s) \/ Lost(d, s)
  BY <1>1 DEF SolveSound
<1>3. CASE Running(d, P, l, s)
  <2>1. Owns(d, l, s) /\ d.lease[l].permit > 0 /\ P[l] = s
    BY <1>3 DEF Running
  <2>2. Lost(e, s) \/ (Owns(e, l, s) /\ e.lease[l].permit = d.lease[l].permit)
    BY <2>1, CalmOwner
  <2> QED BY <2>1, <2>2 DEF Running
<1> QED BY <1>2, <1>3, CalmLost

LEMMA CalmSerial ==
    ASSUME NEW d, NEW e, Calms(d, e), NEW U, NEW S, Serial(d, U, S)
    PROVE  Serial(e, U, S)
<1>1. \A l \in Leases : ~e.lease[l].exact => ~d.lease[l].exact
  BY DEF Calms, Calm, CalmLease
<1> QED BY <1>1 DEF Serial

(* A grant.                                                                *)

LEMMA PermittedRows ==
    ASSUME NEW d, NEW e, NEW s \in Sessions, NEW l \in Leases, Permitting(d, s, l, e)
    PROVE  /\ \A t \in Sessions : /\ (e.sess[t].token <=> d.sess[t].token)
                                  /\ e.sess[t].silent = d.sess[t].silent
                                  /\ e.sess[t].state = d.sess[t].state
                                  /\ e.sess[t].quar = d.sess[t].quar
           /\ \A m \in Leases : /\ (e.lease[m].exact <=> d.lease[m].exact)
                                /\ e.lease[m].state = d.lease[m].state
                                /\ e.lease[m].on = d.lease[m].on
                                /\ m # l => e.lease[m].permit = d.lease[m].permit
BY DEF Permitting

LEMMA PermittedLost ==
    ASSUME NEW d, NEW e, NEW s \in Sessions, NEW l \in Leases, Permitting(d, s, l, e)
    PROVE  /\ \A t \in Sessions : Lost(e, t) <=> Lost(d, t)
           /\ \A m \in Leases, t \in Sessions : Owns(e, m, t) <=> Owns(d, m, t)
<1>1. \A t \in Sessions : e.sess[t].state = d.sess[t].state /\ e.sess[t].quar = d.sess[t].quar
  BY DEF Permitting
<1>2. \A m \in Leases : e.lease[m].state = d.lease[m].state /\ e.lease[m].on = d.lease[m].on
  BY DEF Permitting
<1>3. \A t \in Sessions : Lost(e, t) <=> Lost(d, t)
  BY <1>1 DEF Lost, Gone, Confined
<1> QED BY <1>2, <1>3 DEF Owns

LEMMA AssignableIsNotLost ==
    ASSUME NEW d, NEW s, d.sess[s].state \in Assignable
    PROVE  ~Lost(d, s)
BY DEF Lost, Gone, Confined, Assignable

LEMMA GrantDesktops ==
    ASSUME NEW d, Sound(d), NEW e, NEW s \in Sessions, NEW l \in Leases, Permitting(d, s, l, e),
           d.sess[s].state \in Assignable,
           NEW U \in SUBSET Sessions, NEW P, NEW S \in [Leases -> Sessions \cup {NoSession}],
           HostSound(d, P, S), ProjectSound(d, U, P)
    PROVE  HostSound(e, P, [S EXCEPT ![l] = s]) /\ ProjectSound(e, U, P)
<1>1. d.sess[s].token
  BY DEF Sound
<1>2. HostSound(e, P, [S EXCEPT ![l] = s])
  <2>1. \A t \in Sessions : e.sess[t].token <=> d.sess[t].token
    BY DEF Permitting
  <2>2. \A m \in Leases, t \in Sessions : Owns(e, m, t) <=> Owns(d, m, t)
    BY PermittedLost
  <2> QED BY <1>1, <2>1, <2>2 DEF HostSound
<1>3. ProjectSound(e, U, P)
  BY PermittedRows, PermittedLost DEF ProjectSound
<1> QED BY <1>2, <1>3

LEMMA GrantPipelines ==
    ASSUME NEW d, Sound(d), NEW e, NEW s \in Sessions, NEW l \in Leases, Permitting(d, s, l, e),
           d.sess[s].state \in Assignable, l \in Waiting(d, s), Permits(d, s) = {},
           NEW U \in SUBSET Sessions, NEW P, NEW S \in [Leases -> Sessions \cup {NoSession}],
           AttachSound(d, U, P), SolveSound(d, U, P, S), Serial(d, U, S)
    PROVE  /\ AttachSound(e, U, P) /\ SolveSound(e, U, P, [S EXCEPT ![l] = s])
           /\ Serial(e, U, [S EXCEPT ![l] = s])
<1> DEFINE Z == [S EXCEPT ![l] = s]
<1>1. Z[l] = s /\ \A m \in Leases \ {l} : Z[m] = S[m]
  OBVIOUS
<1> HIDE DEF Z
<1>2. d.lease[l].on = s /\ d.lease[l].state = "active"
  BY DEF Waiting, Occupants
<1>3. ~Lost(d, s)
  BY AssignableIsNotLost
<1>4. s \in U => P[l] = s
  BY <1>2, <1>3 DEF AttachSound
<1>5. AttachSound(e, U, P)
  <2>1. \A m \in Leases : e.lease[m].state = d.lease[m].state /\ e.lease[m].on = d.lease[m].on
    BY DEF Permitting
  <2>2. \A t \in Sessions : Lost(e, t) <=> Lost(d, t)
    BY PermittedLost
  <2> QED BY <2>1, <2>2 DEF AttachSound
<1>6. e.lease[l].permit > 0
  <2>1. d.sess[s].gen \in Nat
    BY DEF Sound, Databases, SessionRows
  <2> QED BY <2>1 DEF Permitting
<1>7. s \in U => Running(e, P, l, s)
  <2>1. Owns(d, l, s)
    BY <1>2 DEF Owns, OwnerStates
  <2>2. Owns(e, l, s)
    BY <2>1, PermittedLost
  <2> QED BY <1>4, <1>6, <2>2 DEF Running
<1>8. SolveSound(e, U, P, Z)
  <2> SUFFICES ASSUME NEW m \in Leases, NEW t \in U, Z[m] = t, ~e.lease[m].exact
               PROVE  Running(e, P, m, t) \/ Lost(e, t)
    BY DEF SolveSound
  <2>1. CASE m = l
    BY <1>1, <1>7, <2>1
  <2>2. CASE m # l
    <3>0. e.lease[m] = d.lease[m]
      BY <2>2 DEF Permitting
    <3>1. S[m] = t /\ ~d.lease[m].exact /\ e.lease[m].permit = d.lease[m].permit
      BY <1>1, <2>2, <3>0
    <3>2. Running(d, P, m, t) \/ Lost(d, t)
      BY <3>1 DEF SolveSound
    <3> QED BY <3>1, <3>2, PermittedLost DEF Running
  <2> QED BY <2>1, <2>2
<1>9. ASSUME NEW m \in Leases, s \in U, S[m] = s, ~d.lease[m].exact PROVE FALSE
  <2>1. Running(d, P, m, s)
    BY <1>3, <1>9 DEF SolveSound
  <2>2. m \in Permits(d, s)
    BY <2>1 DEF Running, Owns, Permits, Occupants, SlotStates
  <2> QED BY <2>2
<1>10. Serial(e, U, Z)
  <2> SUFFICES ASSUME NEW m \in Leases, NEW n \in Leases, Z[m] \in U, Z[m] = Z[n],
                      ~e.lease[m].exact, ~e.lease[n].exact
               PROVE  m = n
    BY DEF Serial
  <2>1. ~d.lease[m].exact /\ ~d.lease[n].exact
    BY PermittedRows
  <2>2. CASE m = l /\ n # l
    BY <1>1, <1>9, <2>1, <2>2
  <2>3. CASE n = l /\ m # l
    BY <1>1, <1>9, <2>1, <2>3
  <2>4. CASE n # l /\ m # l
    BY <1>1, <2>1, <2>4 DEF Serial
  <2> QED BY <2>2, <2>3, <2>4
<1> QED BY <1>5, <1>8, <1>10 DEF Z

(* An acceptance.                                                          *)

LEMMA AttachedRows ==
    ASSUME NEW d, NEW e, NEW s, NEW l \in Leases, Attach(d, e, l, s)
    PROVE  /\ s \in Sessions /\ e.sess = d.sess
           /\ \A t \in Sessions : Lost(e, t) <=> Lost(d, t)
           /\ \A m \in Leases : e.lease[m].exact <=> d.lease[m].exact
           /\ \A m \in Leases \ {l} : e.lease[m] = d.lease[m]
           /\ Owns(e, l, s) /\ \A t : ~Owns(d, l, t)
<1>1. /\ s \in Sessions /\ e.sess = d.sess
      /\ \A m \in Leases \ {l} : e.lease[m] = d.lease[m]
      /\ \A m \in Leases : e.lease[m].exact <=> d.lease[m].exact
  BY DEF Attach
<1>2. Owns(e, l, s) /\ \A t : ~Owns(d, l, t)
  BY DEF Attach, Owns, OwnerStates
<1>3. \A t \in Sessions : Lost(e, t) <=> Lost(d, t)
  BY <1>1 DEF Lost
<1> QED BY <1>1, <1>2, <1>3

LEMMA AttachDesktops ==
    ASSUME NEW d, Sound(d), NEW e, NEW s, NEW l \in Leases, Attach(d, e, l, s),
           NEW U \in SUBSET Sessions, NEW P \in [Leases -> Sessions \cup {NoSession}], NEW S,
           HostSound(d, P, S), ProjectSound(d, U, P)
    PROVE  /\ HostSound(e, [P EXCEPT ![l] = s], S)
           /\ ProjectSound(e, U, [P EXCEPT ![l] = s])
<1> DEFINE Q == [P EXCEPT ![l] = s]
<1>1. Q[l] = s /\ \A m \in Leases \ {l} : Q[m] = P[m]
  OBVIOUS
<1> HIDE DEF Q
<1>2. d.sess[s].token
  BY DEF Sound, Attach
<1>3. e.lease[l].on = s
  BY DEF Attach
<1>4. HostSound(e, Q, S)
  <2>2. ASSUME NEW m \in Leases, NEW t \in Sessions, Q[m] = t \/ S[m] = t \/ Owns(e, m, t)
        PROVE  e.sess[t].token
    <3>1. e.sess[t] = d.sess[t]
      BY AttachedRows
    <3>2. CASE m # l
      BY <1>1, <2>2, <3>1, <3>2, AttachedRows DEF HostSound, Owns
    <3>3. CASE m = l /\ S[m] = t
      BY <3>1, <3>3 DEF HostSound
    <3>4. CASE m = l /\ S[m] # t
      BY <1>1, <1>2, <1>3, <2>2, <3>1, <3>4 DEF Owns
    <3> QED BY <3>2, <3>3, <3>4
  <2> QED BY <2>2 DEF HostSound
<1>5. ProjectSound(e, U, Q)
  <2> SUFFICES ASSUME NEW m \in Leases, NEW t \in U, Q[m] = t, ~e.lease[m].exact
               PROVE  Owns(e, m, t) \/ Lost(e, t)
    BY DEF ProjectSound
  <2>1. CASE m = l
    BY <1>1, <2>1, AttachedRows
  <2>2. CASE m # l
    <3>1. e.lease[m] = d.lease[m] /\ P[m] = t /\ (Lost(d, t) => Lost(e, t))
      BY <1>1, <2>2, AttachedRows
    <3> QED BY <3>1 DEF ProjectSound, Owns
  <2> QED BY <2>1, <2>2
<1> QED BY <1>4, <1>5 DEF Q

LEMMA AttachPipelines ==
    ASSUME NEW d, NEW e, NEW s, NEW l \in Leases, Attach(d, e, l, s),
           NEW U \in SUBSET Sessions, NEW P \in [Leases -> Sessions \cup {NoSession}], NEW S,
           AttachSound(d, U, P), SolveSound(d, U, P, S), Serial(d, U, S)
    PROVE  /\ AttachSound(e, U, [P EXCEPT ![l] = s])
           /\ SolveSound(e, U, [P EXCEPT ![l] = s], S) /\ Serial(e, U, S)
<1> DEFINE Q == [P EXCEPT ![l] = s]
<1>1. Q[l] = s /\ \A m \in Leases \ {l} : Q[m] = P[m]
  OBVIOUS
<1> HIDE DEF Q
<1>2. e.lease[l].on = s
  BY DEF Attach
<1>3. AttachSound(e, U, Q)
  <2> SUFFICES ASSUME NEW m \in Leases, NEW t \in U, e.lease[m].on = t,
                      e.lease[m].state \in {"attaching", "active"}
               PROVE  Q[m] = t \/ Lost(e, t)
    BY DEF AttachSound
  <2>1. CASE m = l
    BY <1>1, <1>2, <2>1
  <2>2. CASE m # l
    <3>1. e.lease[m] = d.lease[m] /\ Q[m] = P[m] /\ (Lost(d, t) => Lost(e, t))
      BY <1>1, <2>2, AttachedRows
    <3> QED BY <3>1 DEF AttachSound
  <2> QED BY <2>1, <2>2
<1>4. SolveSound(e, U, Q, S)
  <2> SUFFICES ASSUME NEW m \in Leases, NEW t \in U, S[m] = t, ~e.lease[m].exact
               PROVE  Running(e, Q, m, t) \/ Lost(e, t)
    BY DEF SolveSound
  <2>1. (Lost(d, t) => Lost(e, t)) /\ ~d.lease[m].exact
    BY AttachedRows
  <2>2. Running(d, P, m, t) \/ Lost(d, t)
    BY <2>1 DEF SolveSound
  <2>3. CASE m = l
    BY <2>1, <2>2, <2>3, AttachedRows DEF Running
  <2>4. CASE m # l
    <3>1. e.lease[m] = d.lease[m] /\ Q[m] = P[m]
      BY <1>1, <2>4, AttachedRows
    <3> QED BY <2>1, <2>2, <3>1 DEF Running, Owns
  <2> QED BY <2>3, <2>4
<1>5. Serial(e, U, S)
  BY AttachedRows DEF Serial
<1> QED BY <1>3, <1>4, <1>5 DEF Q

(* Projects are closed and pipelines end, on Desktops that may disappear.  *)

Fewer(P, Q) == \A l \in Leases : Q[l] = P[l] \/ Q[l] = NoSession

LEMMA FewerDesktops ==
    ASSUME NEW d, NEW U \in SUBSET Sessions, NEW V \in SUBSET U,
           NEW P, NEW S, NEW Q, NEW Z, Fewer(P, Q), Fewer(S, Z),
           HostSound(d, P, S), ProjectSound(d, U, P)
    PROVE  HostSound(d, Q, Z) /\ ProjectSound(d, V, Q)
<1>1. \A l \in Leases, s \in Sessions : (Q[l] = s => P[l] = s) /\ (Z[l] = s => S[l] = s)
  BY AedtPoolAssumptions DEF Fewer
<1>2. HostSound(d, Q, Z)
  BY <1>1 DEF HostSound
<1>3. ProjectSound(d, V, Q)
  BY <1>1 DEF ProjectSound
<1> QED BY <1>2, <1>3

LEMMA FewerSerial ==
    ASSUME NEW d, NEW U \in SUBSET Sessions, NEW V \in SUBSET U, NEW S, NEW Z, Fewer(S, Z),
           Serial(d, U, S)
    PROVE  Serial(d, V, Z)
<1>1. \A l \in Leases, s \in Sessions : Z[l] = s => S[l] = s
  BY AedtPoolAssumptions DEF Fewer
<1> QED BY <1>1 DEF Serial

LEMMA SettlePipelines ==
    ASSUME NEW d, NEW l \in Leases,
           NEW U \in SUBSET Sessions, NEW P \in [Leases -> Sessions \cup {NoSession}], NEW Q,
           NEW S \in [Leases -> Sessions \cup {NoSession}],
           AttachSound(d, U, P), SolveSound(d, U, P, S), Serial(d, U, S),
           \/ Q = P
           \/ Q = [P EXCEPT ![l] = NoSession] /\ d.lease[l].state = "releasing"
    PROVE  /\ AttachSound(d, U, Q) /\ SolveSound(d, U, Q, [S EXCEPT ![l] = NoSession])
           /\ Serial(d, U, [S EXCEPT ![l] = NoSession])
<1> DEFINE Z == [S EXCEPT ![l] = NoSession]
<1>1. Z[l] = NoSession /\ \A m \in Leases \ {l} : Z[m] = S[m] /\ Q[m] = P[m]
  OBVIOUS
<1>2. Q[l] = P[l] \/ d.lease[l].state = "releasing"
  OBVIOUS
<1> HIDE DEF Z
<1>3. AttachSound(d, U, Q)
  <2> SUFFICES ASSUME NEW m \in Leases, NEW t \in U, d.lease[m].on = t,
                      d.lease[m].state \in {"attaching", "active"}
               PROVE  Q[m] = t \/ Lost(d, t)
    BY DEF AttachSound
  <2>1. Q[m] = P[m]
    BY <1>1, <1>2
  <2> QED BY <2>1 DEF AttachSound
<1>4. SolveSound(d, U, Q, Z)
  <2> SUFFICES ASSUME NEW m \in Leases, NEW t \in U, Z[m] = t, ~d.lease[m].exact
               PROVE  Running(d, Q, m, t) \/ Lost(d, t)
    BY DEF SolveSound
  <2>1. m # l
    BY <1>1, AedtPoolAssumptions
  <2>2. S[m] = t /\ Q[m] = P[m]
    BY <1>1, <2>1
  <2>3. Running(d, P, m, t) \/ Lost(d, t)
    BY <2>2 DEF SolveSound
  <2> QED BY <2>2, <2>3 DEF Running
<1>5. Serial(d, U, Z)
  BY <1>1, FewerSerial DEF Fewer
<1> QED BY <1>3, <1>4, <1>5 DEF Z

LEMMA DeadPipelines ==
    ASSUME NEW d, NEW s \in Sessions,
           NEW U \in SUBSET Sessions, NEW V \in SUBSET U, NEW P, NEW S,
           AttachSound(d, U, P), SolveSound(d, U, P, S), Serial(d, U, S),
           s \in V => Lost(d, s)
    PROVE  /\ AttachSound(d, V, Without(P, s)) /\ SolveSound(d, V, Without(P, s), Without(S, s))
           /\ Serial(d, V, Without(S, s))
<1> DEFINE Q == Without(P, s)
           Z == Without(S, s)
<1>1. \A l \in Leases : /\ Q[l] = IF P[l] = s THEN NoSession ELSE P[l]
                        /\ Z[l] = IF S[l] = s THEN NoSession ELSE S[l]
  BY DEF Without
<1> HIDE DEF Q, Z
<1>3. AttachSound(d, V, Q)
  <2> SUFFICES ASSUME NEW m \in Leases, NEW t \in V, d.lease[m].on = t,
                      d.lease[m].state \in {"attaching", "active"}
               PROVE  Q[m] = t \/ Lost(d, t)
    BY DEF AttachSound
  <2>1. P[m] = t \/ Lost(d, t)
    BY DEF AttachSound
  <2> QED BY <1>1, <2>1
<1>4. SolveSound(d, V, Q, Z)
  <2> SUFFICES ASSUME NEW m \in Leases, NEW t \in V, Z[m] = t, ~d.lease[m].exact
               PROVE  Running(d, Q, m, t) \/ Lost(d, t)
    BY DEF SolveSound
  <2>1. S[m] = t /\ t # s
    BY <1>1, AedtPoolAssumptions
  <2>2. Running(d, P, m, t) \/ Lost(d, t)
    BY <2>1 DEF SolveSound
  <2>3. P[m] = t => Q[m] = t
    BY <1>1, <2>1
  <2> QED BY <2>2, <2>3 DEF Running
<1>5. Serial(d, V, Z)
  BY <1>1, FewerSerial DEF Fewer
<1> QED BY <1>3, <1>4, <1>5 DEF Q, Z

(* A report of the host of s.                                              *)

HostRow(d, e, s, U, V) ==
    /\ SessionMoved(d, e, s)
    /\ ~Gone(d.sess[s]) /\ (d.sess[s].token => e.sess[s].token)
    /\ Confined(d.sess[s]) => Confined(e.sess[s]) \/ ~d.sess[s].token \/ s \notin V
    /\ V \subseteq U \cup {s} /\ (s \in V /\ d.sess[s].token => s \in U)

LEMMA MovedLost ==
    ASSUME NEW d, NEW e, NEW s \in Sessions, NEW U, NEW V, HostRow(d, e, s, U, V),
           NEW t \in Sessions, d.sess[t].token
    PROVE  /\ t \in V /\ Lost(d, t) => Lost(e, t)
           /\ t \in V => t \in U
           /\ e.sess[t].token
<1>1. CASE t # s
  <2>1. e.sess[t] = d.sess[t]
    BY <1>1 DEF HostRow, SessionMoved
  <2>2. t \in V => t \in U
    BY <1>1 DEF HostRow
  <2> QED BY <2>1, <2>2 DEF Lost
<1>2. CASE t = s
  BY <1>2 DEF HostRow, Lost
<1> QED BY <1>1, <1>2

LEMMA MoveDesktops ==
    ASSUME NEW d, NEW e, NEW s \in Sessions, NEW U \in SUBSET Sessions, NEW V,
           HostRow(d, e, s, U, V), NEW P, NEW S, HostSound(d, P, S), ProjectSound(d, U, P)
    PROVE  HostSound(e, P, S) /\ ProjectSound(e, V, P)
<1>1. e.lease = d.lease
  BY DEF HostRow, SessionMoved
<1>2. V \subseteq Sessions
  BY DEF HostRow
<1>3. \A l \in Leases, t \in Sessions : P[l] = t \/ S[l] = t \/ Owns(d, l, t) => d.sess[t].token
  BY DEF HostSound
<1>4. ASSUME NEW l \in Leases, NEW t \in Sessions, P[l] = t \/ S[l] = t \/ Owns(e, l, t)
      PROVE  e.sess[t].token
  <2>1. d.sess[t].token
    BY <1>1, <1>3, <1>4 DEF Owns
  <2> QED BY <2>1, MovedLost
<1>5. ASSUME NEW l \in Leases, NEW t \in V, P[l] = t, ~e.lease[l].exact
      PROVE  Owns(e, l, t) \/ Lost(e, t)
  <2>1. t \in Sessions
    BY <1>2
  <2>2. d.sess[t].token
    BY <1>3, <1>5, <2>1
  <2>3. t \in U /\ (Lost(d, t) => Lost(e, t))
    BY <2>1, <2>2, MovedLost
  <2> QED BY <1>1, <1>5, <2>3 DEF ProjectSound, Owns
<1> QED BY <1>4, <1>5 DEF HostSound, ProjectSound

LEMMA MovePipelines ==
    ASSUME NEW d, NEW e, NEW s \in Sessions, NEW U \in SUBSET Sessions, NEW V,
           HostRow(d, e, s, U, V), NEW P, NEW S,
           HostSound(d, P, S), AttachSound(d, U, P), SolveSound(d, U, P, S), Serial(d, U, S)
    PROVE  AttachSound(e, V, P) /\ SolveSound(e, V, P, S) /\ Serial(e, V, S)
<1>1. e.lease = d.lease
  BY DEF HostRow, SessionMoved
<1>2. V \subseteq Sessions
  BY DEF HostRow
<1>3. \A l \in Leases, t \in Sessions : P[l] = t \/ S[l] = t \/ Owns(d, l, t) => d.sess[t].token
  BY DEF HostSound
<1>4. ASSUME NEW l \in Leases, NEW t \in V, e.lease[l].on = t,
             e.lease[l].state \in {"attaching", "active"}
      PROVE  P[l] = t \/ Lost(e, t)
  <2>1. t \in Sessions /\ Owns(d, l, t)
    BY <1>1, <1>2, <1>4 DEF Owns, OwnerStates
  <2>2. t \in U /\ (Lost(d, t) => Lost(e, t))
    BY <1>3, <2>1, MovedLost
  <2> QED BY <1>1, <1>4, <2>2 DEF AttachSound
<1>5. ASSUME NEW l \in Leases, NEW t \in V, S[l] = t
      PROVE  t \in U /\ (Lost(d, t) => Lost(e, t))
  <2>1. t \in Sessions
    BY <1>2
  <2>2. d.sess[t].token
    BY <1>3, <1>5, <2>1
  <2> QED BY <2>1, <2>2, MovedLost
<1>6. ASSUME NEW l \in Leases, NEW t \in V, S[l] = t, ~e.lease[l].exact
      PROVE  Running(e, P, l, t) \/ Lost(e, t)
  <2>1. t \in U /\ (Lost(d, t) => Lost(e, t))
    BY <1>5, <1>6
  <2>2. Running(d, P, l, t) \/ Lost(d, t)
    BY <1>1, <1>6, <2>1 DEF SolveSound
  <2> QED BY <1>1, <2>1, <2>2 DEF Running, Owns
<1>7. Serial(e, V, S)
  BY <1>1, <1>5 DEF Serial
<1> QED BY <1>4, <1>6, <1>7 DEF AttachSound, SolveSound

(* An acknowledged release.                                                *)

Released(d, e, s, l) ==
    /\ \A t \in Sessions : /\ Lost(d, t) => Lost(e, t)
                           /\ (e.sess[t].token <=> d.sess[t].token)
    /\ \A m \in Leases : e.lease[m].exact <=> d.lease[m].exact
    /\ \A m \in Leases \ {l} : e.lease[m] = d.lease[m]
    /\ \A t \in Sessions : ~Owns(e, l, t)
    /\ \A t \in Sessions : Owns(d, l, t) => t = s

LEMMA ReleasedRows ==
    ASSUME NEW d, NEW e, NEW s \in Sessions, NEW l \in Leases, Release(d, e, l, s)
    PROVE  Released(d, e, s, l)
<1>1. ASSUME NEW t \in Sessions
      PROVE  /\ Lost(d, t) => Lost(e, t)
             /\ (e.sess[t].token <=> d.sess[t].token)
  <2>1. CASE t # s
    BY <2>1 DEF Release, Lost
  <2>2. CASE t = s
    BY <2>2 DEF Release, Lost
  <2> QED BY <2>1, <2>2
<1>2. /\ \A m \in Leases : e.lease[m].exact <=> d.lease[m].exact
      /\ \A m \in Leases \ {l} : e.lease[m] = d.lease[m]
  BY DEF Release
<1>3. /\ \A t \in Sessions : ~Owns(e, l, t)
      /\ \A t \in Sessions : Owns(d, l, t) => t = s
  BY DEF Release, Owns, OwnerStates
<1> QED BY <1>1, <1>2, <1>3 DEF Released

LEMMA ReleaseDesktops ==
    ASSUME NEW d, NEW e, NEW s \in Sessions, NEW l \in Leases, Release(d, e, l, s),
           NEW U \in SUBSET Sessions, NEW P, NEW S, s \in U => P[l] # s \/ Lost(e, s),
           HostSound(d, P, S), ProjectSound(d, U, P)
    PROVE  HostSound(e, P, S) /\ ProjectSound(e, U, P)
<1>0. Released(d, e, s, l)
  BY ReleasedRows
<1>1. HostSound(e, P, S)
  <2>1. \A m \in Leases, t \in Sessions : Owns(e, m, t) => Owns(d, m, t)
    BY <1>0 DEF Released, Owns
  <2>2. \A t \in Sessions : e.sess[t].token <=> d.sess[t].token
    BY <1>0 DEF Released
  <2> QED BY <2>1, <2>2 DEF HostSound
<1>2. ASSUME NEW m \in Leases, NEW t \in U, P[m] = t, ~e.lease[m].exact
      PROVE  Owns(e, m, t) \/ Lost(e, t)
  <2>1. ~d.lease[m].exact /\ t \in Sessions
    BY <1>0, <1>2 DEF Released
  <2>2. Lost(d, t) => Lost(e, t)
    BY <1>0, <2>1 DEF Released
  <2>3. Owns(d, m, t) \/ Lost(d, t)
    BY <1>2, <2>1 DEF ProjectSound
  <2>4. CASE m = l
    <3>1. Owns(d, m, t) => t = s
      BY <1>0, <2>4 DEF Released
    <3> QED BY <1>2, <2>2, <2>3, <2>4, <3>1
  <2>5. CASE m # l
    <3>1. e.lease[m] = d.lease[m]
      BY <1>0, <2>5 DEF Released
    <3> QED BY <2>2, <2>3, <3>1 DEF Owns
  <2> QED BY <2>4, <2>5
<1> QED BY <1>1, <1>2 DEF ProjectSound

LEMMA ReleasePipelines ==
    ASSUME NEW d, NEW e, NEW s \in Sessions, NEW l \in Leases, Release(d, e, l, s),
           NEW U \in SUBSET Sessions, NEW P, NEW S, s \in U => P[l] # s \/ Lost(e, s),
           AttachSound(d, U, P), SolveSound(d, U, P, S), Serial(d, U, S)
    PROVE  AttachSound(e, U, P) /\ SolveSound(e, U, P, S) /\ Serial(e, U, S)
<1>0. Released(d, e, s, l)
  BY ReleasedRows
<1>1. ASSUME NEW m \in Leases, NEW t \in U, e.lease[m].on = t,
             e.lease[m].state \in {"attaching", "active"}
      PROVE  P[m] = t \/ Lost(e, t)
  <2>1. Owns(e, m, t)
    BY <1>1 DEF Owns, OwnerStates
  <2>2. m # l
    BY <1>0, <2>1 DEF Released
  <2>3. e.lease[m] = d.lease[m] /\ (Lost(d, t) => Lost(e, t))
    BY <1>0, <2>2 DEF Released
  <2> QED BY <1>1, <2>3 DEF AttachSound
<1>2. ASSUME NEW m \in Leases, NEW t \in U, S[m] = t, ~e.lease[m].exact
      PROVE  Running(e, P, m, t) \/ Lost(e, t)
  <2>1. ~d.lease[m].exact /\ (Lost(d, t) => Lost(e, t))
    BY <1>0, <1>2 DEF Released
  <2>2. Running(d, P, m, t) \/ Lost(d, t)
    BY <1>2, <2>1 DEF SolveSound
  <2>3. CASE m = l
    <3>1. Running(d, P, m, t) => t = s
      BY <1>0, <2>3 DEF Released, Running
    <3> QED BY <2>1, <2>2, <2>3, <3>1 DEF Running
  <2>4. CASE m # l
    <3>1. e.lease[m] = d.lease[m]
      BY <1>0, <2>4 DEF Released
    <3> QED BY <2>1, <2>2, <3>1 DEF Running, Owns
  <2> QED BY <2>3, <2>4
<1>3. Serial(e, U, S)
  BY <1>0 DEF Released, Serial
<1> QED BY <1>1, <1>2, <1>3 DEF AttachSound, SolveSound

-----------------------------------------------------------------------------
(* The Desktops of the specification.                                      *)

Desktops == HostSound(db, project, solving) /\ ProjectSound(db, Trusted, project)

Pipelines == /\ AttachSound(db, Trusted, project) /\ SolveSound(db, Trusted, project, solving)
             /\ Serial(db, Trusted, solving)

LEMMA DesktopsPrimed ==
    ASSUME HostSound(db', project', solving'),
           ProjectSound(db', Trusted', project')
    PROVE  Desktops'
<1>1. HostSound(db, project, solving)'
  BY DEF HostSound, Owns
<1>2. ProjectSound(db, Trusted, project)'
  BY DEF ProjectSound, Lost, Owns, Gone, Confined
<1> QED BY <1>1, <1>2 DEF Desktops

LEMMA PipelinesPrimed ==
    ASSUME AttachSound(db', Trusted', project'),
           SolveSound(db', Trusted', project', solving'), Serial(db', Trusted', solving')
    PROVE  Pipelines'
<1>1. AttachSound(db, Trusted, project)'
  BY DEF AttachSound, Lost, Gone, Confined
<1>2. SolveSound(db, Trusted, project, solving)'
  BY DEF SolveSound, Running, Lost, Owns, Gone, Confined
<1>3. Serial(db, Trusted, solving)'
  BY DEF Serial
<1> QED BY <1>1, <1>2, <1>3 DEF Pipelines

LEMMA MoveIsRow ==
    ASSUME NEW s \in Sessions, HostMove(s)
    PROVE  /\ \E d : HostRow(db, d, s, Trusted, Trusted') /\ Calms(d, db')
           /\ UNCHANGED <<project, solving>>
<1>1. PICK d :
        /\ SessionMoved(db, d, s) /\ Calms(d, db')
        /\ ~Gone(db.sess[s]) /\ (db.sess[s].token => d.sess[s].token)
        /\ Confined(db.sess[s]) => Confined(d.sess[s]) \/ ~db.sess[s].token \/ s \in lifted'
        /\ lifted \subseteq lifted'
        /\ up' = up \/ (up' = up \cup {s} /\ ~db.sess[s].token)
        /\ UNCHANGED <<project, solving>>
  BY DEF HostMove
<1>2. /\ Trusted' \subseteq Trusted \cup {s}
      /\ s \in Trusted' /\ db.sess[s].token => s \in Trusted
      /\ s \in lifted' => s \notin Trusted'
  BY <1>1 DEF Trusted
<1>3. HostRow(db, d, s, Trusted, Trusted')
  BY <1>1, <1>2 DEF HostRow
<1> QED BY <1>1, <1>3

LEMMA ReleaseIsLost ==
    ASSUME NEW s \in Sessions, NEW l \in Leases, ReleaseStep(s, l)
    PROVE  \E d : /\ Release(db, d, l, s) /\ Calms(d, db')
                  /\ s \in Trusted => project[l] # s \/ Lost(d, s)
BY DEF ReleaseStep, Trusted, Lost

LEMMA DesktopsStep ==
    ASSUME Tables, Desktops, [Next]_vars
    PROVE  Desktops'
<1> DEFINE Goal == /\ HostSound(db', project', solving')
                   /\ ProjectSound(db', Trusted', project')
<1>1. /\ Sound(db) /\ Trusted \in SUBSET Sessions
      /\ project \in [Leases -> Sessions \cup {NoSession}]
      /\ solving \in [Leases -> Sessions \cup {NoSession}]
  BY DEF Tables, TypeOK, Trusted
<1>2. HostSound(db, project, solving) /\ ProjectSound(db, Trusted, project)
  BY DEF Desktops
<1>3. ASSUME NEW e, Calms(db, e)
      PROVE  HostSound(e, project, solving) /\ ProjectSound(e, Trusted, project)
  BY <1>1, <1>2, <1>3, CalmHost, CalmProject
<1>4. ASSUME CalmStep PROVE Goal
  BY <1>3, <1>4 DEF CalmStep, Trusted
<1>5. ASSUME GrantStep PROVE Goal
  <2>1. PICK s \in Sessions, l \in Leases : \E d :
            /\ Calms(db, d) /\ Permitting(d, s, l, db') /\ d.sess[s].state \in Assignable
            /\ solving' = [solving EXCEPT ![l] = s]
            /\ Trusted' = Trusted /\ project' = project
    BY <1>5 DEF GrantStep, Trusted
  <2>2. PICK d : Calms(db, d) /\ Permitting(d, s, l, db') /\ d.sess[s].state \in Assignable
    BY <2>1
  <2>3. Sound(d)
    BY <2>2 DEF Calms
  <2>4. HostSound(d, project, solving) /\ ProjectSound(d, Trusted, project)
    BY <1>3, <2>2
  <2>5. /\ HostSound(db', project, [solving EXCEPT ![l] = s])
        /\ ProjectSound(db', Trusted, project)
    BY <1>1, <2>2, <2>3, <2>4, GrantDesktops
  <2> QED BY <2>1, <2>5
<1>6. ASSUME NEW l \in Leases, AttachStep(l) PROVE Goal
  <2>1. /\ Attach(db, db', l, db.lease[l].on)
        /\ project' = [project EXCEPT ![l] = db.lease[l].on]
        /\ Trusted' = Trusted /\ solving' = solving
    BY <1>6 DEF AttachStep, Trusted
  <2>2. /\ HostSound(db', [project EXCEPT ![l] = db.lease[l].on], solving)
        /\ ProjectSound(db', Trusted, [project EXCEPT ![l] = db.lease[l].on])
    BY <1>1, <1>2, <2>1, AttachDesktops
  <2> QED BY <2>1, <2>2
<1>7. ASSUME NEW l \in Leases, SettleStep(l) PROVE Goal
  <2>1. HostSound(db', project, solving) /\ ProjectSound(db', Trusted, project)
    BY <1>3, <1>7 DEF SettleStep
  <2>2. Fewer(project, project') /\ Fewer(solving, solving') /\ Trusted' = Trusted
    BY <1>1, <1>7 DEF SettleStep, Fewer, Trusted
  <2> QED BY <1>1, <2>1, <2>2, FewerDesktops
<1>8. ASSUME NEW s \in Sessions, HostMove(s) PROVE Goal
  <2>1. PICK d : HostRow(db, d, s, Trusted, Trusted') /\ Calms(d, db')
    BY <1>8, MoveIsRow
  <2>2. project' = project /\ solving' = solving
    BY <1>8, MoveIsRow
  <2>4. HostSound(d, project, solving) /\ ProjectSound(d, Trusted', project)
    BY <1>1, <1>2, <2>1, MoveDesktops
  <2>5. Trusted' \in SUBSET Sessions
    BY <1>1, <2>1 DEF HostRow
  <2>6. HostSound(db', project, solving) /\ ProjectSound(db', Trusted', project)
    BY <2>1, <2>4, <2>5, CalmHost, CalmProject
  <2> QED BY <2>2, <2>6
<1>9. ASSUME NEW s \in Sessions, DeadStep(s) PROVE Goal
  <2>1. Calms(db, db') /\ Trusted' \in SUBSET Trusted
    BY <1>1, <1>9, PassesAreCalm DEF DeadStep, Trusted
  <2>2. HostSound(db', project, solving) /\ ProjectSound(db', Trusted, project)
    BY <1>3, <2>1
  <2>3. Fewer(project, project') /\ Fewer(solving, solving')
    BY <1>9 DEF DeadStep, Fewer, Without
  <2> QED BY <1>1, <2>1, <2>2, <2>3, FewerDesktops
<1>10. ASSUME NEW s \in Sessions, NEW l \in Leases, ReleaseStep(s, l) PROVE Goal
  <2>1. PICK d : /\ Release(db, d, l, s) /\ Calms(d, db')
                 /\ s \in Trusted => project[l] # s \/ Lost(d, s)
    BY <1>10, ReleaseIsLost
  <2>2. Trusted' = Trusted /\ UNCHANGED <<project, solving>>
    BY <1>10 DEF ReleaseStep, Trusted
  <2>3. HostSound(d, project, solving) /\ ProjectSound(d, Trusted, project)
    BY <1>1, <1>2, <2>1, ReleaseDesktops
  <2>4. HostSound(db', project, solving) /\ ProjectSound(db', Trusted, project)
    BY <1>1, <2>1, <2>3, CalmHost, CalmProject
  <2> QED BY <2>2, <2>4
<1>11. StepKind
  BY NextKinds
<1>12. Goal
  BY <1>4, <1>5, <1>6, <1>7, <1>8, <1>9, <1>10, <1>11 DEF StepKind
<1> QED BY <1>12, DesktopsPrimed

LEMMA PipelinesStep ==
    ASSUME Tables, Desktops, Pipelines, [Next]_vars
    PROVE  Pipelines'
<1> DEFINE Goal == /\ AttachSound(db', Trusted', project')
                   /\ SolveSound(db', Trusted', project', solving') /\ Serial(db', Trusted', solving')
<1>1. /\ Sound(db) /\ Trusted \in SUBSET Sessions
      /\ project \in [Leases -> Sessions \cup {NoSession}]
      /\ solving \in [Leases -> Sessions \cup {NoSession}]
  BY DEF Tables, TypeOK, Trusted
<1>2. /\ HostSound(db, project, solving) /\ AttachSound(db, Trusted, project)
      /\ SolveSound(db, Trusted, project, solving) /\ Serial(db, Trusted, solving)
  BY DEF Desktops, Pipelines
<1>3. ASSUME NEW e, Calms(db, e)
      PROVE  /\ AttachSound(e, Trusted, project) /\ SolveSound(e, Trusted, project, solving)
             /\ Serial(e, Trusted, solving)
  BY <1>1, <1>2, <1>3, CalmAttached, CalmSolve, CalmSerial
<1>4. ASSUME CalmStep PROVE Goal
  BY <1>3, <1>4 DEF CalmStep, Trusted
<1>5. ASSUME GrantStep PROVE Goal
  <2>1. PICK s \in Sessions, l \in Leases : \E d :
            /\ Calms(db, d) /\ Permits(db, s) = {}
            /\ Permitting(d, s, l, db') /\ d.sess[s].state \in Assignable
            /\ l \in Waiting(d, s) /\ solving' = [solving EXCEPT ![l] = s]
            /\ Trusted' = Trusted /\ project' = project
    BY <1>5 DEF GrantStep, Trusted
  <2>2. PICK d : /\ Calms(db, d) /\ Permitting(d, s, l, db') /\ d.sess[s].state \in Assignable
                 /\ l \in Waiting(d, s)
    BY <2>1
  <2>3. Sound(d)
    BY <2>2 DEF Calms
  <2>4. Permits(d, s) \subseteq Permits(db, s)
    BY <2>2, <2>3, CalmPermits DEF Calms, Calm
  <2>5. Permits(d, s) = {}
    BY <2>1, <2>4
  <2>6. /\ AttachSound(d, Trusted, project) /\ SolveSound(d, Trusted, project, solving)
        /\ Serial(d, Trusted, solving)
    BY <1>3, <2>2
  <2>7. /\ AttachSound(db', Trusted, project)
        /\ SolveSound(db', Trusted, project, [solving EXCEPT ![l] = s])
        /\ Serial(db', Trusted, [solving EXCEPT ![l] = s])
    BY <1>1, <2>2, <2>3, <2>5, <2>6, GrantPipelines
  <2> QED BY <2>1, <2>7
<1>6. ASSUME NEW l \in Leases, AttachStep(l) PROVE Goal
  <2>1. /\ Attach(db, db', l, db.lease[l].on)
        /\ project' = [project EXCEPT ![l] = db.lease[l].on]
        /\ Trusted' = Trusted /\ solving' = solving
    BY <1>6 DEF AttachStep, Trusted
  <2>2. /\ AttachSound(db', Trusted, [project EXCEPT ![l] = db.lease[l].on])
        /\ SolveSound(db', Trusted, [project EXCEPT ![l] = db.lease[l].on], solving)
        /\ Serial(db', Trusted, solving)
    BY <1>1, <1>2, <2>1, AttachPipelines
  <2> QED BY <2>1, <2>2
<1>7. ASSUME NEW l \in Leases, SettleStep(l) PROVE Goal
  <2>1. /\ AttachSound(db', Trusted, project) /\ SolveSound(db', Trusted, project, solving)
        /\ Serial(db', Trusted, solving)
    BY <1>3, <1>7 DEF SettleStep
  <2>2. /\ solving' = [solving EXCEPT ![l] = NoSession] /\ Trusted' = Trusted
        /\ \/ project' = project
           \/ project' = [project EXCEPT ![l] = NoSession] /\ db'.lease[l].state = "releasing"
    BY <1>7 DEF SettleStep, Trusted
  <2>3. /\ AttachSound(db', Trusted, project')
        /\ SolveSound(db', Trusted, project', [solving EXCEPT ![l] = NoSession])
        /\ Serial(db', Trusted, [solving EXCEPT ![l] = NoSession])
    BY <1>1, <2>1, <2>2, SettlePipelines
  <2> QED BY <2>2, <2>3
<1>8. ASSUME NEW s \in Sessions, HostMove(s) PROVE Goal
  <2>1. PICK d : HostRow(db, d, s, Trusted, Trusted') /\ Calms(d, db')
    BY <1>8, MoveIsRow
  <2>2. project' = project /\ solving' = solving
    BY <1>8, MoveIsRow
  <2>3. /\ AttachSound(d, Trusted', project) /\ SolveSound(d, Trusted', project, solving)
        /\ Serial(d, Trusted', solving)
    BY <1>1, <1>2, <2>1, MovePipelines
  <2>5. Trusted' \in SUBSET Sessions
    BY <1>1, <2>1 DEF HostRow
  <2>6. /\ AttachSound(db', Trusted', project) /\ SolveSound(db', Trusted', project, solving)
        /\ Serial(db', Trusted', solving)
    BY <2>1, <2>3, <2>5, CalmAttached, CalmSolve, CalmSerial
  <2> QED BY <2>2, <2>6
<1>9. ASSUME NEW s \in Sessions, DeadStep(s) PROVE Goal
  <2>1. Calms(db, db') /\ Trusted' \in SUBSET Trusted
    BY <1>1, <1>9, PassesAreCalm DEF DeadStep, Trusted
  <2>2. /\ AttachSound(db', Trusted, project) /\ SolveSound(db', Trusted, project, solving)
        /\ Serial(db', Trusted, solving)
    BY <1>3, <2>1
  <2>3. s \in Trusted' => Lost(db', s)
    BY <1>9 DEF DeadStep, Lost, Trusted
  <2>4. project' = Without(project, s) /\ solving' = Without(solving, s)
    BY <1>9 DEF DeadStep
  <2>5. /\ AttachSound(db', Trusted', Without(project, s))
        /\ SolveSound(db', Trusted', Without(project, s), Without(solving, s))
        /\ Serial(db', Trusted', Without(solving, s))
    BY <1>1, <2>1, <2>2, <2>3, DeadPipelines
  <2> QED BY <2>4, <2>5
<1>10. ASSUME NEW s \in Sessions, NEW l \in Leases, ReleaseStep(s, l) PROVE Goal
  <2>1. PICK d : /\ Release(db, d, l, s) /\ Calms(d, db')
                 /\ s \in Trusted => project[l] # s \/ Lost(d, s)
    BY <1>10, ReleaseIsLost
  <2>2. Trusted' = Trusted /\ UNCHANGED <<project, solving>>
    BY <1>10 DEF ReleaseStep, Trusted
  <2>3. /\ AttachSound(d, Trusted, project) /\ SolveSound(d, Trusted, project, solving)
        /\ Serial(d, Trusted, solving)
    BY <1>1, <1>2, <2>1, ReleasePipelines
  <2>5. /\ AttachSound(db', Trusted, project) /\ SolveSound(db', Trusted, project, solving)
        /\ Serial(db', Trusted, solving)
    BY <1>1, <2>1, <2>3, CalmAttached, CalmSolve, CalmSerial
  <2> QED BY <2>2, <2>5
<1>11. StepKind
  BY NextKinds
<1>12. Goal
  BY <1>4, <1>5, <1>6, <1>7, <1>8, <1>9, <1>10, <1>11 DEF StepKind
<1> QED BY <1>12, PipelinesPrimed

LEMMA InitDesktops ==
    ASSUME Init
    PROVE  Desktops /\ Pipelines
<1>1. /\ up = {} /\ \A l \in Leases : project[l] = NoSession /\ solving[l] = NoSession
  BY DEF Init
<1>2. \A l \in Leases, s \in Sessions : ~Owns(db, l, s)
  BY InitRows DEF Owns, OwnerStates
<1>3. \A l \in Leases, s \in Sessions : project[l] # s /\ solving[l] # s
  BY <1>1, AedtPoolAssumptions
<1>4. Desktops
  BY <1>1, <1>2, <1>3 DEF Desktops, HostSound, ProjectSound, Trusted
<1>5. Pipelines
  BY <1>1, <1>3 DEF Pipelines, AttachSound, SolveSound, Serial, Trusted
<1> QED BY <1>4, <1>5

(* cancel_lease and complete_release: only the session host makes a slot   *)
(* reusable.  However many clients and Desktops there are and in whatever  *)
(* order they, the tick and the operator act, a Desktop that exists and    *)
(* still has the project of a lease without a slot takes nobody, unless a  *)
(* native-suspect report overwrote the quarantine that a failed cleanup, a *)
(* silent client or a silent host had left.                                *)
THEOREM UnclosedIsNotReused == Spec => []UnclosedNotReused
<1>1. Tables /\ Desktops /\ [Next]_vars => Desktops'
  BY DesktopsStep
<1>2. Init => Desktops
  BY InitDesktops
<1>3. Desktops => UnclosedNotReused
  <2> SUFFICES ASSUME Desktops, NEW l \in Leases, NEW s \in up \ lifted, ~db.lease[l].exact,
                      project[l] = s, l \notin Occupants(db, s),
                      db.sess[s].state \in Assignable
               PROVE  FALSE
    BY DEF UnclosedNotReused, ReusedUnclosed
  <2>1. Owns(db, l, s) \/ Lost(db, s)
    BY DEF Desktops, ProjectSound, Trusted
  <2>2. ~Owns(db, l, s)
    BY DEF Owns, Occupants, SlotStates
  <2> QED BY <2>1, <2>2, AssignableIsNotLost
<1> QED BY <1>1, <1>2, <1>3, TablesHold, PTL DEF Spec

(* Two native pipelines of leases without a reservation never run in one   *)
(* Desktop: the permit of _grant_solve_batch_if_ready is given only when   *)
(* every earlier pipeline is attested, closed by the host or gone with its *)
(* Desktop, whatever the rows say of its lease; again except on Desktops   *)
(* whose quarantine a native-suspect report overwrote.                     *)
THEOREM SolvesAreSerial == Spec => []SerialSolve
<1>1. Tables /\ Desktops /\ [Next]_vars => Desktops'
  BY DesktopsStep
<1>2. Tables /\ Desktops /\ Pipelines /\ [Next]_vars => Pipelines'
  BY PipelinesStep
<1>3. Init => Desktops /\ Pipelines
  BY InitDesktops
<1>4. Pipelines => SerialSolve
  BY DEF Pipelines, Serial, SerialSolve, Trusted
<1> QED BY <1>1, <1>2, <1>3, <1>4, TablesHold, PTL DEF Spec

=============================================================================
