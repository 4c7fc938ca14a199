------------------------------ MODULE WebProofs ------------------------------
(***************************************************************************)
(* The web worker towards the compute nodes, for any constants and any     *)
(* faults: the slots of the relay and of the bridge are neither lost nor   *)
(* given back twice (WebFront), and the relay thread trusts and signals    *)
(* its own relays only (ControlPlaneRelay).                                *)
(*                                                                         *)
(* The slots.  Every step of the way moves one request, and with it the    *)
(* count of those who use a slot changes by one or not at all; the guard   *)
(* does not touch the way.                                                 *)
(*                                                                         *)
(* The relay thread.  Only the owner of the port writes marker and pid, so *)
(* a relay that serves is the one the files name, or a late unlink has     *)
(* taken them away (Named); one that has not published its files yet was   *)
(* launched by this worker, or is late (Newest).  So a relay of another    *)
(* worker that serves has served since before the marker was read, and the *)
(* marker that was read is its own (Noticed): what inspect or await_ready  *)
(* found holds of whoever serves when the probe is made (Vetted), but of a *)
(* late relay.  What the thread is about to signal has its own marker      *)
(* (Aimed).                                                                *)
(***************************************************************************)
EXTENDS WebFront, FiniteSetTheorems, TLAPS

(* Those with a slot of the relay, and with one of the bridge.             *)
AtRelay == Hops \ {"node", "over"}
AtBridge == {"channel", "bridge"}
Users(h, S) == {c \in Control : h[c] \in S}

SlotsInv ==
    /\ hop \in [Control -> Hops] /\ relayFree \in Nat /\ channelFree \in Nat
    /\ relayFree + Cardinality(Users(hop, AtRelay)) = RelaySlots
    /\ channelFree + Cardinality(Users(hop, AtBridge)) = ChannelSlots

(* What the way of one request changes in such a count.                    *)
Change(from, to, S) == (IF to \in S THEN 1 ELSE 0) - (IF from \in S THEN 1 ELSE 0)

(* One request that moves changes who uses a slot by itself at most.       *)
LEMMA OneMoves ==
    ASSUME NEW h \in [Control -> Hops], NEW c \in Control, NEW to \in Hops, NEW S
    PROVE  /\ Cardinality(Users(h, S)) \in Nat
           /\ Cardinality(Users([h EXCEPT ![c] = to], S))
                 = Cardinality(Users(h, S)) + Change(h[c], to, S)
  <1> DEFINE k == [h EXCEPT ![c] = to]
  <1>1. IsFiniteSet(Users(h, S))
      <2>1. Users(h, S) \subseteq Control
          BY DEF Users
      <2> QED
          BY <2>1, FS_Subset, WebAssumptions
  <1>2. Cardinality(Users(h, S)) \in Nat
      BY <1>1, FS_CardinalityType
  <1>3. CASE h[c] \notin S /\ to \in S
      <2>1. Users(k, S) = Users(h, S) \cup {c} /\ c \notin Users(h, S)
          BY <1>3 DEF Users
      <2>2. Cardinality(Users(k, S)) = Cardinality(Users(h, S)) + 1
          BY <2>1, <1>1, FS_AddElement
      <2> QED
          BY <2>2, <1>2, <1>3 DEF Change
  <1>4. CASE h[c] \in S /\ to \notin S
      <2>1. Users(k, S) = Users(h, S) \ {c} /\ c \in Users(h, S)
          BY <1>4 DEF Users
      <2>2. Cardinality(Users(k, S)) = Cardinality(Users(h, S)) - 1
          BY <2>1, <1>1, FS_RemoveElement
      <2> QED
          BY <2>2, <1>2, <1>4 DEF Change
  <1>5. CASE h[c] \in S <=> to \in S
      <2>1. Users(k, S) = Users(h, S)
          BY <1>5 DEF Users
      <2> QED
          BY <2>1, <1>2, <1>5 DEF Change
  <1> QED
      BY <1>3, <1>4, <1>5

LEMMA SlotsInit == Init => SlotsInv
  <1> SUFFICES ASSUME Init PROVE SlotsInv
      OBVIOUS
  <1>1. hop \in [Control -> {"node", "over"}]
      BY DEF Init
  <1>2. Users(hop, AtRelay) = {} /\ Users(hop, AtBridge) = {}
      BY <1>1 DEF Users, AtRelay, AtBridge
  <1>3. Cardinality({}) = 0
      BY FS_EmptySet
  <1> QED
      BY <1>1, <1>2, <1>3, WebAssumptions DEF Init, SlotsInv, Hops

(* What a move of hop means for the two counts.                            *)
Relayed == Cardinality(Users(hop, AtRelay))
Bridged == Cardinality(Users(hop, AtBridge))

LEMMA HopMoves ==
    ASSUME SlotsInv, NEW c \in Control, NEW to \in Hops, HopTo(c, to)
    PROVE  /\ hop' \in [Control -> Hops]
           /\ Relayed \in Nat /\ Bridged \in Nat
           /\ Relayed' = Relayed + Change(hop[c], to, AtRelay)
           /\ Bridged' = Bridged + Change(hop[c], to, AtBridge)
  <1>1. hop \in [Control -> Hops] /\ hop' = [hop EXCEPT ![c] = to]
      BY DEF SlotsInv, HopTo
  <1>2. hop' \in [Control -> Hops]
      BY <1>1
  <1>3. ASSUME NEW S
        PROVE  /\ Cardinality(Users(hop, S)) \in Nat
               /\ Cardinality(Users(hop', S)) = Cardinality(Users(hop, S)) + Change(hop[c], to, S)
      BY <1>1, OneMoves
  <1>4. Relayed \in Nat /\ Relayed' = Relayed + Change(hop[c], to, AtRelay)
      BY <1>3 DEF Relayed, AtRelay
  <1>5. Bridged \in Nat /\ Bridged' = Bridged + Change(hop[c], to, AtBridge)
      BY <1>3 DEF Bridged, AtBridge
  <1> QED
      BY <1>2, <1>4, <1>5

(* The steps of a request on its way.                                      *)
LEMMA SlotsPass == ASSUME SlotsInv, NEW c \in Control, Pass(c) PROVE SlotsInv'
  <1> DEFINE Step(from, to) ==
          /\ hop[c] = from /\ HopTo(c, to)
          /\ relayFree' \in Nat /\ relayFree' = relayFree - Change(from, to, AtRelay)
          /\ channelFree' \in Nat /\ channelFree' = channelFree - Change(from, to, AtBridge)
  <1>0. relayFree \in Nat /\ channelFree \in Nat
      BY DEF SlotsInv
  <1>1. ASSUME NEW from \in Hops, NEW to \in Hops, Step(from, to) PROVE SlotsInv'
      <2>1. /\ hop' \in [Control -> Hops]
            /\ Relayed \in Nat /\ Bridged \in Nat
            /\ Relayed' = Relayed + Change(from, to, AtRelay)
            /\ Bridged' = Bridged + Change(from, to, AtBridge)
          BY <1>1, HopMoves
      <2>2. Change(from, to, AtRelay) \in Int /\ Change(from, to, AtBridge) \in Int
          BY DEF Change
      <2>3. relayFree + Relayed = RelaySlots /\ channelFree + Bridged = ChannelSlots
          BY DEF SlotsInv, Relayed, Bridged
      <2>4. relayFree' + Relayed' = RelaySlots /\ channelFree' + Bridged' = ChannelSlots
          BY <1>0, <1>1, <2>1, <2>2, <2>3
      <2> QED
          BY <1>1, <2>1, <2>4 DEF SlotsInv, Relayed, Bridged
  <1> USE DEF Change, AtRelay, AtBridge, Hops
  <1>2. CASE process_request(c)
      <2>1. Step("node", "accepted") \/ Step("node", "over")
          BY <1>0, <1>2 DEF process_request
      <2> QED
          BY <1>1, <2>1
  <1>8. CASE process_request_starts(c)
      <2>1. Step("accepted", "relay") \/ Step("accepted", "over")
          BY <1>0, <1>8 DEF process_request_starts
      <2> QED
          BY <1>1, <2>1
  <1>9. CASE bridge_starts(c)
      <2>1. Step("channel", "bridge")
          BY <1>0, <1>9 DEF bridge_starts
      <2> QED
          BY <1>1, <2>1
  <1>10. CASE bridge_does_not_start(c)
      <2>1. Step("channel", "back")
          BY <1>0, <1>10 DEF bridge_does_not_start
      <2> QED
          BY <1>1, <2>1
  <1>3. CASE refuse(c)
      <2>1. Step("relay", "over")
          BY <1>0, <1>3 DEF refuse
      <2> QED
          BY <1>1, <2>1 DEF Hops
  <1>4. CASE handle_forwarded_channel(c)
      <2>1. Step("relay", "channel") \/ Step("relay", "back")
          BY <1>0, <1>4 DEF handle_forwarded_channel
      <2> QED
          BY <1>1, <2>1 DEF Hops
  <1>5. CASE bridge_channel(c)
      BY <1>5 DEF bridge_channel, way, SlotsInv, Users
  <1>6. CASE bridge_ends(c)
      <2>1. Step("bridge", "back")
          BY <1>0, <1>6 DEF bridge_ends
      <2> QED
          BY <1>1, <2>1 DEF Hops
  <1>7. CASE process_request_thread_ends(c)
      <2>1. Step("back", "over")
          BY <1>0, <1>7 DEF process_request_thread_ends
      <2> QED
          BY <1>1, <2>1 DEF Hops
  <1> QED
      BY <1>2, <1>3, <1>4, <1>5, <1>6, <1>7, <1>8, <1>9, <1>10 DEF Pass

(* Everything else leaves the way alone.                                   *)
LEMMA SlotsNext == SlotsInv /\ [Next]_vars => SlotsInv'
  <1> SUFFICES ASSUME SlotsInv, [Next]_vars PROVE SlotsInv'
      OBVIOUS
  <1> DEFINE Untouched == UNCHANGED <<hop, relayFree, channelFree>>
  <1>1. Untouched => SlotsInv'
      BY DEF SlotsInv, Users
  <1>2. ASSUME NEW r \in Requests, Serve(r) PROVE Untouched
      BY <1>2 DEF Serve, turn_away, bulk_read, detail_read, plain_read, follow, bounded_call,
                  take_thread, respond, raise, way
  <1>3. ASSUME NEW r \in Reads, hang(r) PROVE Untouched
      BY <1>3 DEF hang, way
  <1>4. expire \/ tunnel_drops \/ tunnel_returns \/ UNCHANGED vars => Untouched
      BY DEF expire, tunnel_drops, tunnel_returns, vars, way
  <1>5. ASSUME NEW r, cancel(r) \/ cancel_follower(r) PROVE Untouched
      BY <1>5 DEF cancel, cancel_follower, way
  <1> QED
      BY <1>1, <1>2, <1>3, <1>4, <1>5, SlotsPass DEF Next

(* The slots of the relay and the bridge (BoundedSemaphore) come back, for *)
(* every load and every fault.                                             *)
THEOREM SlotsComeBack == Spec => []SlotsAreReturned
  <1>1. SlotsInv => SlotsAreReturned
      <2> SUFFICES ASSUME SlotsInv PROVE SlotsAreReturned
          OBVIOUS
      <2>1. \A c \in Control : hop[c] \in Hops
          BY DEF SlotsInv
      <2>2. /\ Users(hop, AtRelay) = {c \in Control : hop[c] \notin {"node", "over"}}
            /\ Users(hop, AtBridge) = {c \in Control : hop[c] \in {"channel", "bridge"}}
          BY <2>1 DEF Users, AtRelay, AtBridge
      <2> QED
          BY <2>2 DEF SlotsInv, SlotsAreReturned
  <1> QED
      BY <1>1, SlotsInit, SlotsNext, PTL DEF Spec

-----------------------------------------------------------------------------
(* The relay thread.  The theorems about it do not speak of the slots; of  *)
(* RelayAssumptions they need that None names no process.                  *)

CONSTANTS Procs, None, ProbeThreshold, TunnelChecks, ListenThreshold, MaxGen, FaultMixes
VARIABLES web, conf, relay, url, proc, port, marker, pidfile, desired

Relay == INSTANCE ControlPlaneRelay

(* Records, without the bounds of an instance.                             *)
WebRecords == [gen : Nat \ {0}, up : BOOLEAN, listening : BOOLEAN, wedged : BOOLEAN, aged : BOOLEAN,
               strikes : Nat, stopping : BOOLEAN]
RelaySteps == {"idle", "marker", "pid", "check", "probe", "failed", "retire", "term", "kill",
               "clean", "stopped", "establish", "deploy", "wait", "first_probe", "abandon"}
RelayTasks == {"tick", "inspect", "rebuild", "retired", "discard", "give_up", "shut_down"}
RelayRecords ==
    [pc : RelaySteps, task : RelayTasks, seen : Nat, pid : Procs \cup {None}, session : BOOLEAN, owned : BOOLEAN, adopted : BOOLEAN, expected : Nat,
     failures : Nat, state : {"up", "down"}, told : {"unknown", "up", "down"}]

ProcRecords == [at : Relay!Stages, gen : Nat, misses : Nat, late : BOOLEAN]

Shapes ==
    /\ web \in WebRecords /\ relay \in RelayRecords
    /\ marker \in Nat /\ pidfile \in Procs \cup {None}
    /\ proc \in [Procs -> ProcRecords] /\ None \notin Procs

(* Who has not published its files yet was launched by this worker, or is  *)
(* late.                                                                   *)
Newest == \A p \in Procs : proc[p].at \in Relay!Publishing =>
                               proc[p].gen = Relay!gen \/ proc[p].late

(* The port has one owner, from its bind to its close.                     *)
Holding == {"bound", "marked", "serving", "stopping"}
Binding ==
    /\ port \in Procs \cup {None}
    /\ \A p \in Procs : proc[p].at \in Holding <=> port = p

(* Only the owner of the port writes marker and pid: the files of one that *)
(* serves are its own, or a late unlink has taken them away.               *)
Named ==
    \A p \in Procs :
        /\ proc[p].at \in {"marked", "serving"} => marker \in {proc[p].gen, 0}
        /\ proc[p].at = "serving" => pidfile \in {p, None}

(* Whoever serves when the thread is about to probe has its configuration. *)
Ours == \A p \in Procs : proc[p].at = "serving" /\ ~proc[p].late =>
                              conf[proc[p].gen] = conf[Relay!gen]
Vetted == relay.pc = "first_probe" => Ours

(* The marker that was read is that of any other worker's relay that still *)
(* serves.                                                                 *)
Noticed == relay.seen # 0 =>
    \A p \in Procs : proc[p].at = "serving" /\ ~proc[p].late =>
                        proc[p].gen = Relay!gen \/ proc[p].gen = relay.seen

(* Only a marker of this worker is acted upon.                             *)
Aiming == {"term", "kill", "clean"}
Aimed == relay.pc \in Aiming => relay.seen = Relay!gen

Login == Newest /\ Binding /\ Named

-----------------------------------------------------------------------------
(* The relay processes and their files.                                    *)

LEMMA LoginAtRest == ASSUME Login, UNCHANGED Relay!remote, web'.gen = web.gen PROVE Login'
  BY DEF Login, Newest, Binding, Named, Relay!remote, Relay!gen

LEMMA GoneType == Relay!Gone \in ProcRecords /\ Relay!Gone.at = "none"
  BY DEF Relay!Gone, Relay!Stages, ProcRecords

(* What is left when a process has gone, with the files or without.        *)
LEMMA Removed ==
    ASSUME Shapes, Login, NEW p \in Procs, web'.gen = web.gen,
           proc' = [proc EXCEPT ![p] = Relay!Gone],
           port' = IF port = p THEN None ELSE port,
           marker' \in {marker, 0}, pidfile' \in {pidfile, None}
    PROVE  Login' /\ proc' \in [Procs -> ProcRecords]
  <1>1. /\ proc' \in [Procs -> ProcRecords]
        /\ \A q \in Procs : proc'[q] = IF q = p THEN Relay!Gone ELSE proc[q]
      BY GoneType DEF Shapes
  <1>2. Newest'
      BY GoneType, <1>1 DEF Login, Newest, Relay!gen, Relay!Publishing
  <1>3. Binding'
      BY GoneType, <1>1 DEF Shapes, Login, Binding, Holding
  <1>4. Named'
      BY GoneType, <1>1 DEF Login, Named
  <1> QED
      BY <1>1, <1>2, <1>3, <1>4 DEF Login

(* A process goes on.                                                      *)
LEMMA Goes ==
    ASSUME Shapes, NEW p \in Procs, NEW stage \in Relay!Stages, Relay!Go(p, stage)
    PROVE  /\ proc' \in [Procs -> ProcRecords]
           /\ \A q \in Procs \ {p} : proc'[q] = proc[q]
           /\ proc'[p].at = stage
           /\ stage # "none" => proc'[p].gen = proc[p].gen /\ proc'[p].late = proc[p].late
  <1> DEFINE new == [proc[p] EXCEPT !.at = stage, !.misses = 0]
  <1>1. proc[p] \in ProcRecords
      BY DEF Shapes
  <1>2. /\ new \in ProcRecords /\ new.at = stage
        /\ new.gen = proc[p].gen /\ new.late = proc[p].late
      BY <1>1 DEF ProcRecords
  <1>3. proc' = [proc EXCEPT ![p] = IF stage = "none" THEN Relay!Gone ELSE new]
      BY DEF Relay!Go
  <1> HIDE DEF new
  <1> QED
      BY GoneType, <1>2, <1>3 DEF Shapes

(* What a step of process p means for the others and for the worker.       *)
Alone(p) ==
    /\ Login' /\ marker' \in Nat /\ pidfile' \in Procs \cup {None}
    /\ proc' \in [Procs -> ProcRecords]
    /\ UNCHANGED <<web, conf, relay>>
    /\ \A q \in Procs \ {p} : proc'[q] = proc[q]
    /\ proc'[p].at = "serving" =>
          /\ proc[p].at \in {"marked", "serving"}
          /\ proc'[p].gen = proc[p].gen /\ proc'[p].late = proc[p].late

LEMMA ProcessSteps ==
    ASSUME Shapes, Login, NEW p \in Procs,
           Relay!Process(p) \/ Relay!watch_tunnel_target(p) \/ Relay!relay_dies(p)
    PROVE  Alone(p)
  <1> USE DEF Relay!At, Relay!Local, Relay!files
  <1> DEFINE Moves(stage) ==
        /\ proc' \in [Procs -> ProcRecords]
        /\ \A q \in Procs \ {p} : proc'[q] = proc[q]
        /\ proc'[p].at = stage
        /\ stage # "none" => proc'[p].gen = proc[p].gen /\ proc'[p].late = proc[p].late
  <1>0. /\ None \notin Procs /\ marker \in Nat /\ pidfile \in Procs \cup {None}
        /\ \A q \in Procs : proc[q].gen \in Nat
      BY DEF Shapes, ProcRecords
  <1>a. ASSUME NEW stage \in Relay!Stages, Relay!Go(p, stage) PROVE Moves(stage)
      BY <1>a, Goes
  <1>1. CASE Relay!bind(p)
      <2>1. PICK stage \in {"bound", "none"} : Relay!Go(p, stage) /\
                IF stage = "bound" THEN port = None /\ port' = p ELSE UNCHANGED port
          BY <1>1 DEF Relay!bind
      <2>2. Moves(stage)
          BY <2>1, <1>a DEF Relay!Stages
      <2>3. proc[p].at = "starting" /\ UNCHANGED <<web, conf, relay, marker, pidfile>>
          BY <1>1 DEF Relay!bind
      <2>4. Newest' /\ Binding'
          BY <1>0, <2>1, <2>2, <2>3 DEF Login, Newest, Binding, Holding, Relay!gen, Relay!Publishing
      <2>5. Named'
          BY <1>0, <2>1, <2>2, <2>3 DEF Login, Binding, Named, Holding
      <2> QED
          BY <1>0, <2>1, <2>2, <2>3, <2>4, <2>5 DEF Alone, Login
  <1>2. CASE Relay!write_marker(p)
      <2>1. PICK stage \in {"marked"} : Relay!Go(p, stage) /\ marker' = proc[p].gen
          BY <1>2 DEF Relay!write_marker
      <2>2. Moves(stage)
          BY <2>1, <1>a DEF Relay!Stages
      <2>3. proc[p].at = "bound" /\ UNCHANGED <<web, conf, relay, port, pidfile>>
          BY <1>2 DEF Relay!write_marker
      <2>4. Newest' /\ Binding'
          BY <1>0, <2>1, <2>2, <2>3 DEF Login, Newest, Binding, Holding, Relay!gen, Relay!Publishing
      <2>5. Named'
          BY <1>0, <2>1, <2>2, <2>3 DEF Login, Binding, Named, Holding
      <2> QED
          BY <1>0, <2>1, <2>2, <2>3, <2>4, <2>5 DEF Alone, Login
  <1>3. CASE Relay!write_pid(p)
      <2>1. PICK stage \in {"serving"} : Relay!Go(p, stage) /\ pidfile' = p
          BY <1>3 DEF Relay!write_pid
      <2>2. Moves(stage)
          BY <2>1, <1>a DEF Relay!Stages
      <2>3. proc[p].at = "marked" /\ UNCHANGED <<web, conf, relay, port, marker>>
          BY <1>3 DEF Relay!write_pid
      <2>4. Newest' /\ Binding'
          BY <1>0, <2>1, <2>2, <2>3 DEF Login, Newest, Binding, Holding, Relay!gen, Relay!Publishing
      <2>5. Named'
          BY <1>0, <2>1, <2>2, <2>3 DEF Login, Binding, Named, Holding
      <2> QED
          BY <1>0, <2>1, <2>2, <2>3, <2>4, <2>5 DEF Alone, Login
  <1>4. CASE Relay!watch_desired_generation(p)
      <2>1. PICK stage \in {"stopping"} : Relay!Go(p, stage)
          BY <1>4 DEF Relay!watch_desired_generation
      <2>2. Moves(stage)
          BY <2>1, <1>a DEF Relay!Stages
      <2>3. proc[p].at = "serving" /\ UNCHANGED <<web, conf, relay, port, marker, pidfile>>
          BY <1>4 DEF Relay!watch_desired_generation
      <2>4. Newest' /\ Binding'
          BY <1>0, <2>1, <2>2, <2>3 DEF Login, Newest, Binding, Holding, Relay!gen, Relay!Publishing
      <2>5. Named'
          BY <1>0, <2>1, <2>2, <2>3 DEF Login, Binding, Named, Holding
      <2> QED
          BY <1>0, <2>1, <2>2, <2>3, <2>4, <2>5 DEF Alone, Login
  <1>5. CASE Relay!watch_tunnel_target(p)
      <2>1. PICK stage \in {"serving", "stopping"} : Moves(stage)
          <3>1. ASSUME NEW n \in Nat, proc' = [proc EXCEPT ![p].misses = n] PROVE Moves("serving")
              <4>1. proc[p] \in ProcRecords /\ proc[p].at = "serving"
                  BY <1>5 DEF Relay!watch_tunnel_target, Shapes
              <4>2. /\ [proc[p] EXCEPT !.misses = n] \in ProcRecords
                    /\ [proc[p] EXCEPT !.misses = n].at = "serving"
                    /\ [proc[p] EXCEPT !.misses = n].gen = proc[p].gen
                    /\ [proc[p] EXCEPT !.misses = n].late = proc[p].late
                  BY <4>1 DEF ProcRecords
              <4> QED
                  BY <3>1, <4>2 DEF Shapes
          <3>2. CASE Relay!Go(p, "stopping")
              BY <3>2, <1>a DEF Relay!Stages
          <3>3. proc[p].misses + 1 \in Nat
              BY DEF Shapes, ProcRecords
          <3> QED
              BY <1>5, <3>1, <3>2, <3>3 DEF Relay!watch_tunnel_target
      <2>2. Moves(stage)
          BY <2>1
      <2>3. proc[p].at = "serving" /\ UNCHANGED <<web, conf, relay, port, marker, pidfile>>
          BY <1>5 DEF Relay!watch_tunnel_target
      <2>4. Newest' /\ Binding'
          BY <1>0, <2>1, <2>2, <2>3 DEF Login, Newest, Binding, Holding, Relay!gen, Relay!Publishing
      <2>5. Named'
          BY <1>0, <2>1, <2>2, <2>3 DEF Login, Binding, Named, Holding
      <2> QED
          BY <1>0, <2>1, <2>2, <2>3, <2>4, <2>5 DEF Alone, Login
  <1>6. CASE Relay!server_close(p)
      <2>1. PICK stage \in {"closed"} : Relay!Go(p, stage) /\ port' = None
          BY <1>6 DEF Relay!server_close
      <2>2. Moves(stage)
          BY <2>1, <1>a DEF Relay!Stages
      <2>3. proc[p].at = "stopping" /\ UNCHANGED <<web, conf, relay, marker, pidfile>>
          BY <1>6 DEF Relay!server_close
      <2>4. Newest' /\ Binding'
          BY <1>0, <2>1, <2>2, <2>3 DEF Login, Newest, Binding, Holding, Relay!gen, Relay!Publishing
      <2>5. Named'
          BY <1>0, <2>1, <2>2, <2>3 DEF Login, Binding, Named, Holding
      <2> QED
          BY <1>0, <2>1, <2>2, <2>3, <2>4, <2>5 DEF Alone, Login
  <1>7. CASE Relay!check_marker(p)
      <2>1. PICK stage \in {"checked", "none"} : Relay!Go(p, stage) /\
                pidfile' = IF marker # proc[p].gen /\ pidfile = p THEN None ELSE pidfile
          BY <1>7 DEF Relay!check_marker
      <2>2. Moves(stage)
          BY <2>1, <1>a DEF Relay!Stages
      <2>3. proc[p].at = "closed" /\ UNCHANGED <<web, conf, relay, port, marker>>
          BY <1>7 DEF Relay!check_marker
      <2>4. Newest' /\ Binding'
          BY <1>0, <2>1, <2>2, <2>3 DEF Login, Newest, Binding, Holding, Relay!gen, Relay!Publishing
      <2>5. Named'
          BY <1>0, <2>1, <2>2, <2>3 DEF Login, Binding, Named, Holding
      <2> QED
          BY <1>0, <2>1, <2>2, <2>3, <2>4, <2>5 DEF Alone, Login
  <1>8. CASE Relay!unlink_pid(p)
      <2>1. PICK stage \in {"unlinked"} : Relay!Go(p, stage) /\ pidfile' = None
          BY <1>8 DEF Relay!unlink_pid
      <2>2. Moves(stage)
          BY <2>1, <1>a DEF Relay!Stages
      <2>3. proc[p].at = "checked" /\ UNCHANGED <<web, conf, relay, port, marker>>
          BY <1>8 DEF Relay!unlink_pid
      <2>4. Newest' /\ Binding'
          BY <1>0, <2>1, <2>2, <2>3 DEF Login, Newest, Binding, Holding, Relay!gen, Relay!Publishing
      <2>5. Named'
          BY <1>0, <2>1, <2>2, <2>3 DEF Login, Binding, Named, Holding
      <2> QED
          BY <1>0, <2>1, <2>2, <2>3, <2>4, <2>5 DEF Alone, Login
  <1>9. CASE Relay!unlink_marker(p)
      <2>1. PICK stage \in {"none"} : Relay!Go(p, stage) /\ marker' = 0
          BY <1>9 DEF Relay!unlink_marker
      <2>2. Moves(stage)
          BY <2>1, <1>a DEF Relay!Stages
      <2>3. proc[p].at = "unlinked" /\ UNCHANGED <<web, conf, relay, port, pidfile>>
          BY <1>9 DEF Relay!unlink_marker
      <2>4. Newest' /\ Binding'
          BY <1>0, <2>1, <2>2, <2>3 DEF Login, Newest, Binding, Holding, Relay!gen, Relay!Publishing
      <2>5. Named'
          BY <1>0, <2>1, <2>2, <2>3 DEF Login, Binding, Named, Holding
      <2> QED
          BY <1>0, <2>1, <2>2, <2>3, <2>4, <2>5 DEF Alone, Login
  <1>10. CASE Relay!relay_dies(p)
      <2>1. Moves("none")
          BY <1>10, <1>a DEF Relay!relay_dies, Relay!Stages
      <2>2. /\ port' = IF port = p THEN None ELSE port
            /\ pidfile' = IF pidfile = p THEN None ELSE pidfile
            /\ UNCHANGED <<web, conf, relay, marker>>
          BY <1>10 DEF Relay!relay_dies
      <2>3. Newest' /\ Binding'
          BY <1>0, <2>1, <2>2 DEF Login, Newest, Binding, Holding, Relay!gen, Relay!Publishing
      <2>4. Named'
          BY <1>0, <2>1, <2>2 DEF Login, Named
      <2> QED
          BY <1>0, <2>1, <2>2, <2>3, <2>4 DEF Alone, Login
  <1> QED
      BY <1>1, <1>2, <1>3, <1>4, <1>5, <1>6, <1>7, <1>8, <1>9, <1>10 DEF Relay!Process

-----------------------------------------------------------------------------
(* The thread of the worker.                                               *)

LEMMA Published ==
    ASSUME NEW on \in BOOLEAN, NEW r \in RelayRecords, NEW bad \in RelayRecords,
           Relay!Publish(on, r, bad)
    PROVE  /\ relay' \in RelayRecords /\ relay'.pc \in {r.pc, bad.pc}
           /\ relay'.seen \in {r.seen, bad.seen}
           /\ relay'.state = "up" => on \/ bad.state = "up"
  <1>1. CASE relay' = bad
      BY <1>1
  <1>2. CASE relay' = [r EXCEPT !.state = IF on THEN "up" ELSE "down",
                                !.told = IF on THEN "up" ELSE "down"]
      BY <1>2 DEF RelayRecords
  <1> QED
      BY <1>1, <1>2 DEF Relay!Publish

LEMMA MarkedDown ==
    ASSUME NEW r \in RelayRecords, Relay!MarkDown(r)
    PROVE  relay' \in RelayRecords /\ relay'.pc = r.pc /\ relay'.seen = r.seen /\ relay'.state = "down"
  <1> DEFINE bad == [r EXCEPT !.state = "down"]
  <1>1. bad \in RelayRecords /\ bad.pc = r.pc /\ bad.seen = r.seen /\ bad.state = "down"
      BY DEF RelayRecords
  <1>2. /\ relay' \in RelayRecords /\ relay'.pc = r.pc /\ relay'.seen = r.seen
        /\ relay'.state # "up"
      BY <1>1, Published DEF Relay!MarkDown
  <1> QED
      BY <1>2 DEF RelayRecords

LEMMA NewRelayType ==
    /\ Relay!NewRelay \in RelayRecords /\ Relay!NewRelay.pc = "idle"
    /\ Relay!NewRelay.seen = 0 /\ Relay!NewRelay.state = "down"
  BY DEF Relay!NewRelay, RelayRecords, RelaySteps, RelayTasks

(* The relay of the thread after a step that reads nothing it will rely    *)
(* on, but the marker: it does not go to the first probe, does not declare *)
(* the relay up and aims at a marker of its own only.                      *)
Safe(r) ==
    /\ r \in RelayRecords /\ r.pc # "first_probe"
    /\ r.state = "up" => relay.state = "up"
    /\ r.seen # 0 => r.seen = relay.seen \/ r.seen = marker
    /\ r.pc \in Aiming => r.seen = Relay!gen
Harmless == Safe(relay') /\ UNCHANGED <<web, conf>>

LEMMA SafeDown ==
    ASSUME NEW r, Safe(r), Relay!MarkDown(r) PROVE Safe(relay')
  <1>1. r \in RelayRecords
      BY DEF Safe
  <1>2. /\ relay' \in RelayRecords /\ relay'.pc = r.pc /\ relay'.seen = r.seen
        /\ relay'.state = "down"
      BY <1>1, MarkedDown
  <1> QED
      BY <1>2 DEF Safe

(* The ends of a look at the files and of a stop.                          *)
LEMMA SafeEnds ==
    ASSUME relay \in RelayRecords, NEW r \in RelayRecords, r.state = relay.state
    PROVE  /\ Safe(Relay!Stopped(r))
           /\ \A pc \in RelaySteps \ (Aiming \cup {"first_probe"}) :
                 Safe([Relay!Forget(r) EXCEPT !.pc = pc])
           /\ \A pc \in RelaySteps \ (Aiming \cup {"first_probe"}) :
                 r.seen = relay.seen => Safe([Relay!TornDown(r) EXCEPT !.pc = pc])
  <1> USE DEF RelayRecords, RelaySteps, RelayTasks, Safe, Aiming
  <1>1. Relay!Forget(r) \in RelayRecords /\ Relay!Forget(r).seen = 0 /\ Relay!Forget(r).state = r.state
      BY DEF Relay!Forget
  <1>2. Safe(Relay!Stopped(r))
      <2> DEFINE pc == IF r.task = "give_up" THEN "abandon" ELSE "stopped"
      <2>1. pc \in {"abandon", "stopped"}
          OBVIOUS
      <2>2. Relay!Stopped(r) = [Relay!Forget(r) EXCEPT !.owned = FALSE, !.pc = pc]
          BY DEF Relay!Stopped
      <2> HIDE DEF pc
      <2> QED
          BY <1>1, <2>1, <2>2
  <1>3. ASSUME NEW pc \in RelaySteps \ (Aiming \cup {"first_probe"})
        PROVE  Safe([Relay!Forget(r) EXCEPT !.pc = pc])
      BY <1>1
  <1>4. ASSUME NEW pc \in RelaySteps \ (Aiming \cup {"first_probe"}), r.seen = relay.seen
        PROVE  Safe([Relay!TornDown(r) EXCEPT !.pc = pc])
      <2>1. /\ Relay!TornDown(r) \in RelayRecords /\ Relay!TornDown(r).seen = r.seen
            /\ Relay!TornDown(r).state = r.state
          BY DEF Relay!TornDown
      <2> QED
          BY <1>4, <2>1
  <1> QED
      BY <1>2, <1>3, <1>4

Other == RelaySteps \ (Aiming \cup {"first_probe"})

LEMMA HarmlessSteps ==
    ASSUME Shapes, Aimed,
           \/ Relay!tick \/ Relay!read_marker \/ Relay!read_pid \/ Relay!verify \/ Relay!probe
           \/ Relay!rebuild \/ Relay!retire \/ Relay!terminate \/ Relay!kill \/ Relay!clean
           \/ Relay!teardown \/ Relay!connect \/ Relay!deploy \/ Relay!await_times_out
           \/ Relay!lose_connection \/ Relay!abandon
    PROVE  Harmless
  <1>0. relay \in RelayRecords /\ marker \in Nat /\ pidfile \in Procs \cup {None}
      BY DEF Shapes
  <1>a. ASSUME NEW pc \in Other, NEW task \in RelayTasks, NEW n \in Nat, NEW b \in BOOLEAN,
               NEW o \in BOOLEAN
        PROVE  Safe([relay EXCEPT !.pc = pc, !.task = task, !.failures = n, !.session = b, !.owned = o])
      BY <1>0 DEF Safe, RelayRecords, RelaySteps, Other, Aiming
  <1>b. ASSUME NEW pc \in Other PROVE Safe([relay EXCEPT !.pc = pc])
      BY <1>0 DEF Safe, RelayRecords, RelaySteps, Other, Aiming
  <1>c. Safe(Relay!Stopped(relay)) /\ \A pc \in Other : /\ Safe([Relay!Forget(relay) EXCEPT !.pc = pc])
                                                        /\ Safe([Relay!TornDown(relay) EXCEPT !.pc = pc])
      BY <1>0, SafeEnds DEF Other
  <1>d. /\ {"idle", "marker", "pid", "check", "probe", "failed", "retire", "stopped", "establish",
            "deploy", "wait", "abandon"} \subseteq Other
        /\ {"tick", "inspect", "rebuild", "retired", "discard", "give_up", "shut_down"} \subseteq RelayTasks
      BY DEF Other, RelaySteps, Aiming, RelayTasks
  <1>1. CASE Relay!tick
      <2>1. Safe(Relay!Look(relay, "tick"))
          BY <1>0, <1>d DEF Relay!Look, Safe, RelayRecords, RelaySteps, RelayTasks, Other, Aiming
      <2> QED
          BY <1>1, <1>b, <1>d, <2>1 DEF Relay!tick, Harmless
  <1>2. CASE Relay!read_marker
      <2>1. PICK m \in {marker, 0} : relay' = [relay EXCEPT !.pc = "pid", !.seen = m]
          BY <1>2 DEF Relay!read_marker
      <2> DEFINE r == [relay EXCEPT !.pc = "pid", !.seen = m]
      <2>m. m \in Nat
          BY <1>0, <2>1
      <2>p. \A k \in Nat : [relay EXCEPT !.pc = "pid", !.seen = k] \in RelayRecords
          BY <1>0 DEF RelayRecords, RelaySteps
      <2>r. r \in RelayRecords
          BY <2>m, <2>p
      <2>2. r \in RelayRecords /\ r.pc = "pid" /\ r.seen = m /\ r.state = relay.state
          BY <1>0, <2>r DEF RelayRecords
      <2> HIDE DEF r
      <2>3. Safe(r)
          BY <2>1, <2>2 DEF Safe, Aiming
      <2> QED
          BY <1>2, <2>1, <2>3 DEF Relay!read_marker, Harmless, r
  <1>3. CASE Relay!read_pid
      <2>1. PICK q \in {pidfile, None} :
                LET r == [relay EXCEPT !.pid = q]
                IN  relay' = IF relay.task \in {"tick", "inspect"} THEN [r EXCEPT !.pc = "check"]
                             ELSE IF r.seen = Relay!gen /\ r.pid # None THEN [r EXCEPT !.pc = "term"]
                             ELSE Relay!Stopped(r)
          BY <1>3 DEF Relay!read_pid
      <2> DEFINE r == [relay EXCEPT !.pid = q]
      <2>2. r \in RelayRecords /\ r.seen = relay.seen /\ r.state = relay.state
          BY <1>0, <2>1 DEF RelayRecords
      <2>3. \/ relay' = [r EXCEPT !.pc = "check"]
            \/ relay' = [r EXCEPT !.pc = "term"] /\ r.seen = Relay!gen
            \/ relay' = Relay!Stopped(r)
          BY <2>1
      <2> HIDE DEF r
      <2>4. Safe(Relay!Stopped(r))
          BY <1>0, <2>2, SafeEnds
      <2>5. Safe([r EXCEPT !.pc = "check"])
          BY <2>2 DEF Safe, RelayRecords, RelaySteps, Aiming
      <2>6. r.seen = Relay!gen => Safe([r EXCEPT !.pc = "term"])
          BY <2>2 DEF Safe, RelayRecords, RelaySteps, Aiming
      <2> QED
          BY <1>3, <2>3, <2>4, <2>5, <2>6 DEF Relay!read_pid, Harmless
  <1>4. CASE Relay!verify
      <2>1. PICK pc \in {"probe", "failed"} : relay' = [Relay!Forget(relay) EXCEPT !.pc = pc]
          BY <1>4 DEF Relay!verify
      <2> QED
          BY <1>4, <1>c, <1>d, <2>1 DEF Relay!verify, Harmless
  <1>5. CASE Relay!probe
      <2>1. relay.failures + 1 \in Nat
          BY <1>0 DEF RelayRecords
      <2>2. PICK n \in Nat : \/ relay' = [relay EXCEPT !.pc = "idle", !.failures = n]
                             \/ relay' = [relay EXCEPT !.pc = "failed"]
          BY <1>5, <2>1 DEF Relay!probe, Relay!Missed
      <2>3. Safe([relay EXCEPT !.pc = "idle", !.failures = n])
          BY <1>0 DEF Safe, RelayRecords, RelaySteps, Aiming
      <2> QED
          BY <1>5, <1>b, <1>d, <2>2, <2>3 DEF Relay!probe, Harmless
  <1>6. CASE Relay!rebuild
      <2>1. Safe([relay EXCEPT !.failures = 0, !.pc = "retire", !.task = "rebuild"])
          BY <1>0 DEF Safe, RelayRecords, RelaySteps, RelayTasks, Aiming
      <2> QED
          BY <1>6, <2>1, SafeDown DEF Relay!rebuild, Harmless
  <1>7. CASE Relay!retire
      <2>1. PICK pc \in {"marker", "stopped"}, task \in RelayTasks :
                relay' = [relay EXCEPT !.pc = pc, !.task = task]
          BY <1>0, <1>7 DEF Relay!retire, RelayRecords, RelayTasks
      <2>2. Safe(relay')
          BY <1>0, <2>1 DEF Safe, RelayRecords, RelaySteps, Aiming
      <2> QED
          BY <1>7, <2>2 DEF Relay!retire, Harmless
  <1>8. CASE Relay!terminate
      <2>1. relay.seen = Relay!gen
          BY <1>8 DEF Relay!terminate, Aimed, Aiming
      <2>2. Safe([relay EXCEPT !.pc = "kill"])
          BY <1>0, <2>1 DEF Safe, RelayRecords, RelaySteps, Aiming
      <2> QED
          BY <1>8, <1>c, <2>2 DEF Relay!terminate, Harmless
  <1>9. CASE Relay!kill
      <2>1. relay.seen = Relay!gen
          BY <1>9 DEF Relay!kill, Aimed, Aiming
      <2>2. Safe([relay EXCEPT !.pc = "clean"])
          BY <1>0, <2>1 DEF Safe, RelayRecords, RelaySteps, Aiming
      <2> QED
          BY <1>9, <2>2 DEF Relay!kill, Harmless
  <1>10. CASE Relay!clean
      BY <1>10, <1>c DEF Relay!clean, Harmless
  <1>11. CASE Relay!teardown
      <2>1. PICK pc \in {"idle", "establish"} :
                LET r == [Relay!TornDown(relay) EXCEPT !.pc = pc]
                IN  relay' = r \/ Relay!MarkDown(r)
          BY <1>11 DEF Relay!teardown
      <2>2. Safe([Relay!TornDown(relay) EXCEPT !.pc = pc])
          BY <1>c, <1>d
      <2>3. Safe(relay')
          BY <2>1, <2>2, SafeDown
      <2> QED
          BY <1>11, <2>3 DEF Relay!teardown, Harmless
  <1>12. CASE Relay!connect
      <2>1. Safe([Relay!Look(relay, "inspect") EXCEPT !.session = TRUE])
          BY <1>0 DEF Relay!Look, Safe, RelayRecords, RelaySteps, RelayTasks, Aiming
      <2> QED
          BY <1>12, <1>b, <1>d, <2>1 DEF Relay!connect, Harmless
  <1>13. CASE Relay!deploy
      BY <1>13, <1>b, <1>d DEF Relay!deploy, Harmless
  <1>14. CASE Relay!await_times_out
      <2>1. Safe([Relay!Look(relay, "give_up") EXCEPT !.owned = TRUE])
          BY <1>0 DEF Relay!Look, Safe, RelayRecords, RelaySteps, RelayTasks, Aiming
      <2> QED
          BY <1>14, <2>1 DEF Relay!await_times_out, Harmless
  <1>15. CASE Relay!lose_connection
      BY <1>15, <1>c, <1>d DEF Relay!lose_connection, Harmless
  <1>16. CASE Relay!abandon
      <2>1. Safe([Relay!TornDown(relay) EXCEPT !.pc = "idle"])
          BY <1>c, <1>d
      <2> QED
          BY <1>16, <2>1, SafeDown DEF Relay!abandon, Harmless
  <1> QED
      BY <1>1, <1>2, <1>3, <1>4, <1>5, <1>6, <1>7, <1>8, <1>9, <1>10, <1>11, <1>12, <1>13,
         <1>14, <1>15, <1>16

(* The relay that serves is the one that the files name, or nobody.        *)
LEMMA FilesTell ==
    ASSUME Shapes, Login, NEW p \in Procs, proc[p].at = "serving", marker # 0
    PROVE  proc[p].gen = marker
  BY DEF Login, Named

(* What inspect takes over has the configuration of this generation.       *)
LEMMA Inspected ==
    ASSUME Shapes, Login, Noticed, Relay!inspect
    PROVE  /\ relay' \in RelayRecords /\ relay'.state = relay.state /\ relay'.seen = 0
           /\ relay'.pc \notin Aiming
           /\ relay'.pc = "first_probe" => Ours
           /\ UNCHANGED <<web, conf, proc, port, marker, pidfile>>
  <1> DEFINE same == Relay!Active /\ conf[relay.seen] = conf[Relay!gen]
             taken == same /\ desired \in {None, conf[Relay!gen]}
             next == IF ~Relay!Active THEN "deploy" ELSE IF taken THEN "first_probe" ELSE "abandon"
             r == Relay!Forget(relay)
  <1>0. relay \in RelayRecords /\ relay.seen \in Nat
      BY DEF Shapes, RelayRecords
  <1>1. relay' = [r EXCEPT
             !.pc = next,
             !.owned = IF taken THEN relay.seen = Relay!gen ELSE @,
             !.adopted = IF taken THEN relay.seen # Relay!gen ELSE @,
             !.expected = IF taken THEN relay.seen ELSE @]
      BY DEF Relay!inspect
  <1>2. next \in {"deploy", "first_probe", "abandon"} /\ (next = "first_probe" => taken)
      OBVIOUS
  <1>a. r \in RelayRecords /\ r.seen = 0 /\ r.state = relay.state
      BY <1>0 DEF RelayRecords, Relay!Forget
  <1>3. /\ relay' \in RelayRecords /\ relay'.state = relay.state /\ relay'.pc = next
        /\ relay'.seen = 0
      <2> DEFINE own == IF taken THEN relay.seen = Relay!gen ELSE r.owned
                 other == IF taken THEN relay.seen # Relay!gen ELSE r.adopted
                 marked == IF taken THEN relay.seen ELSE r.expected
      <2>1. relay' = [r EXCEPT !.pc = next, !.owned = own, !.adopted = other, !.expected = marked]
          BY <1>1
      <2>2. own \in BOOLEAN /\ other \in BOOLEAN
          <3> HIDE DEF taken, r
          <3> QED
              BY <1>a DEF RelayRecords
      <2>3. marked \in Nat
          <3> HIDE DEF taken, r
          <3> QED
              BY <1>0, <1>a DEF RelayRecords
      <2> HIDE DEF next, taken, r, own, other, marked
      <2> QED
          BY <2>1, <2>2, <2>3, <1>2, <1>a DEF RelayRecords, RelaySteps
  <1>4. taken => Ours
      BY DEF Ours, Noticed, Relay!Active
  <1> QED
      BY <1>2, <1>3, <1>4 DEF Relay!inspect, Aiming

(* What the launch command waited for is the relay of this generation.     *)
LEMMA Awaited ==
    ASSUME Shapes, Login, Relay!await_ready
    PROVE  /\ relay' \in RelayRecords /\ relay'.state = relay.state /\ relay'.seen = relay.seen
           /\ relay'.pc \notin Aiming /\ Ours
           /\ UNCHANGED <<web, conf, Relay!remote>>
  <1>0. relay \in RelayRecords /\ Relay!gen \in Nat \ {0}
      BY DEF Shapes, WebRecords, Relay!gen
  <1>1. /\ relay' \in RelayRecords /\ relay'.state = relay.state /\ relay'.seen = relay.seen
        /\ relay'.pc \notin Aiming
      BY <1>0 DEF Relay!await_ready, RelayRecords, RelaySteps, Aiming
  <1>2. Ours
      <2>1. marker = Relay!gen
          BY DEF Relay!await_ready, Relay!Ready
      <2> QED
          BY <1>0, <2>1, FilesTell DEF Ours
  <1> QED
      BY <1>1, <1>2 DEF Relay!await_ready

LEMMA FirstProbed ==
    ASSUME Shapes, Relay!first_probe
    PROVE  /\ relay' \in RelayRecords /\ relay'.pc \notin Aiming \cup {"first_probe"}
           /\ relay'.seen = relay.seen
           /\ relay'.state = "up" => relay.state = "up" \/ Relay!EndToEnd
           /\ UNCHANGED <<web, conf, Relay!remote>>
  <1> DEFINE good == [relay EXCEPT !.pc = "idle", !.task = "tick", !.failures = 0]
             bad == [relay EXCEPT !.pc = "retire", !.task = "discard"]
  <1>1. /\ good \in RelayRecords /\ good.pc = "idle" /\ good.state = relay.state
        /\ good.seen = relay.seen /\ bad.seen = relay.seen
        /\ bad \in RelayRecords /\ bad.pc = "retire" /\ bad.state = relay.state
      BY DEF Shapes, RelayRecords, RelaySteps, RelayTasks
  <1>2. CASE Relay!EndToEnd /\ Relay!Publish(TRUE, good, bad)
      <2> HIDE DEF good, bad
      <2>1. relay' \in RelayRecords /\ relay'.pc \in {good.pc, bad.pc} /\ relay'.seen = relay.seen
          BY <1>1, <1>2, Published
      <2> QED
          BY <1>1, <1>2, <2>1 DEF Relay!first_probe, Aiming
  <1>3. CASE relay' = bad
      <2> HIDE DEF bad
      <2> QED
          BY <1>1, <1>3 DEF Relay!first_probe, Aiming
  <1> QED
      BY <1>2, <1>3 DEF Relay!first_probe

-----------------------------------------------------------------------------
(* The worker and its parent.                                              *)

LEMMA WorkerSteps ==
    ASSUME Shapes,
           Relay!Worker \/ Relay!crash \/ Relay!lose_listener \/ Relay!drop_tunnel
    PROVE  /\ web' \in WebRecords /\ relay' \in RelayRecords /\ UNCHANGED conf
           /\ relay'.state = "up" => relay.state = "up"
           /\ relay'.seen \in {0, relay.seen}
           /\ relay'.pc \in Aiming \cup {"first_probe"} => relay' = relay
           /\ (UNCHANGED Relay!remote /\ web'.gen = web.gen) \/ Relay!start_worker
  <1>0. web \in WebRecords /\ relay \in RelayRecords
      BY DEF Shapes
  <1> USE DEF Aiming
  <1>1. ASSUME Relay!WorkerEnds(web)
        PROVE  /\ web' \in WebRecords /\ relay' \in RelayRecords /\ web'.gen = web.gen
               /\ relay'.pc = "idle" /\ relay'.state = "down" /\ relay'.seen = 0
      BY <1>0, <1>1, NewRelayType DEF Relay!WorkerEnds, WebRecords
  <1>2. CASE Relay!start_worker
      <2>1. /\ relay' \in RelayRecords /\ relay'.pc = "idle" /\ relay'.state # "up"
            /\ relay'.seen = 0
          BY <1>2, NewRelayType, Published DEF Relay!start_worker
      <2>2. web' \in WebRecords
          BY <1>0, <1>2 DEF Relay!start_worker, Relay!NewWeb, WebRecords, Relay!gen
      <2> QED
          BY <1>2, <2>1, <2>2 DEF Relay!start_worker
  <1>3. CASE Relay!listen
      BY <1>0, <1>3 DEF Relay!listen, WebRecords
  <1>4. CASE Relay!startup_grace_ends
      BY <1>0, <1>4 DEF Relay!startup_grace_ends, WebRecords
  <1>5. CASE Relay!observe
      <2>1. web.strikes + 1 \in Nat
          BY <1>0 DEF WebRecords
      <2>2. CASE web' = [web EXCEPT !.strikes = 0]
          BY <1>0, <1>5, <2>2 DEF Relay!observe, WebRecords
      <2>3. ASSUME NEW n \in Nat, web' = [web EXCEPT !.strikes = n, !.stopping = TRUE]
            PROVE  web' \in WebRecords /\ web'.gen = web.gen
          BY <1>0, <2>3 DEF WebRecords
      <2>4. ASSUME NEW n \in Nat, web' = [web EXCEPT !.strikes = n, !.stopping = FALSE]
            PROVE  web' \in WebRecords /\ web'.gen = web.gen
          BY <1>0, <2>4 DEF WebRecords
      <2>5. CASE web' = [web EXCEPT !.strikes = web.strikes + 1,
                                    !.stopping = web.strikes + 1 = ListenThreshold]
          <3>1. web' \in WebRecords /\ web'.gen = web.gen
              BY <2>1, <2>3, <2>4, <2>5
          <3> QED
              BY <1>0, <1>5, <3>1 DEF Relay!observe
      <2> QED
          BY <1>5, <2>2, <2>5 DEF Relay!observe
  <1>6. CASE Relay!shut_down
      <2>1. PICK pc \in {"marker", "stopped"} :
                relay' = [relay EXCEPT !.task = "shut_down", !.pc = pc]
          BY <1>6 DEF Relay!shut_down
      <2>2. relay' \in RelayRecords /\ relay'.pc = pc /\ relay'.state = relay.state
            /\ relay'.seen = relay.seen
          BY <1>0, <2>1 DEF RelayRecords, RelaySteps, RelayTasks
      <2> QED
          BY <1>0, <1>6, <2>2 DEF Relay!shut_down
  <1>7. CASE Relay!kill_worker
      BY <1>1, <1>7 DEF Relay!kill_worker
  <1>8. CASE Relay!crash
      BY <1>1, <1>8 DEF Relay!crash
  <1>9. CASE Relay!lose_listener
      BY <1>0, <1>9 DEF Relay!lose_listener, WebRecords
  <1>10. CASE Relay!drop_tunnel
      BY <1>0, <1>10 DEF Relay!drop_tunnel
  <1>11. CASE Relay!shut_down_ends
      BY <1>1, <1>11 DEF Relay!shut_down_ends
  <1> QED
      BY <1>2, <1>3, <1>4, <1>5, <1>6, <1>7, <1>8, <1>9, <1>10, <1>11 DEF Relay!Worker

-----------------------------------------------------------------------------
(* Everything together.                                                    *)

RelayInv == Shapes /\ Login /\ Vetted /\ Noticed /\ Aimed

LEMMA RelayInit == ASSUME None \notin Procs, Relay!Init PROVE RelayInv
  <1>2. web \in WebRecords
      BY DEF Relay!Init, Relay!NewWeb, WebRecords
  <1>3. relay \in RelayRecords /\ relay.pc = "idle" /\ relay.seen = 0
      BY NewRelayType DEF Relay!Init, RelayRecords
  <1>4. \A p \in Procs : proc[p] = Relay!Gone
      BY DEF Relay!Init
  <1>5. Shapes
      BY GoneType, <1>2, <1>3 DEF Relay!Init, Shapes
  <1>6. Login
      BY GoneType, <1>4 DEF Relay!Init, Login, Newest, Binding, Named, Holding, Relay!Publishing
  <1> QED
      BY <1>3, <1>5, <1>6 DEF RelayInv, Vetted, Noticed, Aimed, Aiming

(* What a step of the thread leaves on the login node: it touches only     *)
(* what this generation launched, and no relay begins to serve by it.      *)
Left ==
    /\ Login' /\ marker' \in Nat /\ pidfile' \in Procs \cup {None}
    /\ proc' \in [Procs -> ProcRecords]
    /\ \A p \in Procs : /\ proc[p].at # "none" /\ proc'[p] # proc[p] => proc[p].gen = Relay!gen
                        /\ proc'[p].at = "serving" => proc'[p] = proc[p]

LEMMA LeftRemoved ==
    ASSUME Shapes, Login, NEW p \in Procs, web'.gen = web.gen, proc[p].gen = Relay!gen,
           proc' = [proc EXCEPT ![p] = Relay!Gone],
           port' = IF port = p THEN None ELSE port,
           marker' \in {marker, 0}, pidfile' \in {pidfile, None}
    PROVE  Left
  <1>1. Login' /\ proc' \in [Procs -> ProcRecords]
      BY Removed
  <1>2. \A q \in Procs : proc'[q] = IF q = p THEN Relay!Gone ELSE proc[q]
      BY DEF Shapes
  <1>3. marker \in Nat /\ pidfile \in Procs \cup {None}
      BY DEF Shapes
  <1> QED
      BY GoneType, <1>1, <1>2, <1>3 DEF Left

LEMMA ThreadAtLogin ==
    ASSUME Shapes, Login, Aimed, Relay!RelayThread
    PROVE  Left
  <1>0. /\ marker \in Nat /\ pidfile \in Procs \cup {None} /\ None \notin Procs
        /\ proc \in [Procs -> ProcRecords] /\ relay \in RelayRecords
        /\ \A p \in Procs : proc[p] \in ProcRecords
      BY DEF Shapes
  <1>b. web' = web
      BY DEF Relay!RelayThread, Relay!tick, Relay!read_marker, Relay!read_pid, Relay!verify,
             Relay!probe, Relay!rebuild, Relay!retire, Relay!terminate, Relay!kill, Relay!clean,
             Relay!teardown, Relay!connect, Relay!inspect, Relay!deploy, Relay!await_ready,
             Relay!await_times_out, Relay!lose_connection, Relay!first_probe, Relay!abandon
  <1>c. web'.gen = web.gen
      BY <1>b
  <1>1. CASE UNCHANGED <<proc, port>> /\ marker' \in {marker, 0} /\ pidfile' \in {pidfile, None}
      BY <1>0, <1>1, <1>c DEF Left, Login, Newest, Binding, Named, Relay!gen, Relay!Publishing
  <1>2. ASSUME relay.pc \in Aiming, Relay!Ownership
        PROVE  /\ relay.pid \in Procs /\ proc[relay.pid].gen = Relay!gen
      <2>1. relay.pid \in Procs \cup {None}
          BY <1>0 DEF RelayRecords
      <2> QED
          BY <1>2, <2>1 DEF Aimed, Relay!Ownership, Relay!Carries
  <1>3. CASE Relay!deploy
      <2> DEFINE new == [Relay!Gone EXCEPT !.at = "starting", !.gen = Relay!gen]
      <2>1. PICK p \in Procs : proc[p].at = "none" /\ proc' = [proc EXCEPT ![p] = new]
          BY <1>3 DEF Relay!deploy, Relay!Live
      <2>2. Relay!gen \in Nat
          BY DEF Shapes, WebRecords, Relay!gen
      <2>3. new \in ProcRecords /\ new.at = "starting" /\ new.gen = Relay!gen
          BY <2>2 DEF Relay!Gone, Relay!Stages, ProcRecords
      <2> HIDE DEF new
      <2>4. /\ proc' \in [Procs -> ProcRecords]
            /\ proc'[p].at = "starting" /\ proc'[p].gen = Relay!gen
            /\ \A q \in Procs \ {p} : proc'[q] = proc[q]
          BY <1>0, <2>1, <2>3
      <2>5. UNCHANGED <<port, marker, pidfile>>
          BY <1>3 DEF Relay!deploy, Relay!files
      <2>6. Newest' /\ Binding'
          BY <1>c, <2>1, <2>4, <2>5 DEF Login, Newest, Binding, Holding, Relay!gen, Relay!Publishing
      <2>7. Named'
          BY <2>4, <2>5 DEF Login, Named
      <2> QED
          BY <1>0, <2>1, <2>4, <2>5, <2>6, <2>7 DEF Login, Left
  <1>4. CASE Relay!terminate
      <2>0. relay.pc \in Aiming /\ UNCHANGED <<marker, pidfile>>
          BY <1>4 DEF Relay!terminate, Aiming, Relay!files
      <2>1. CASE UNCHANGED <<proc, port>>
          BY <1>1, <2>0, <2>1
      <2>2. CASE /\ Relay!Ownership
                 /\ proc' = [proc EXCEPT ![relay.pid] = Relay!Terminated(relay.pid)]
                 /\ port' = IF port = relay.pid /\ Relay!Terminated(relay.pid) = Relay!Gone
                            THEN None ELSE port
          <3> DEFINE p == relay.pid
                     slow == [proc[p] EXCEPT !.at = "stopping", !.misses = 0]
          <3>1. p \in Procs /\ proc[p].gen = Relay!gen
              BY <1>2, <2>0, <2>2
          <3>2. CASE Relay!Terminated(p) = Relay!Gone
              BY <1>c, <2>0, <2>2, <3>1, <3>2, LeftRemoved
          <3>3. CASE Relay!Terminated(p) # Relay!Gone /\ proc[p].at = "serving"
              <4>1. /\ slow \in ProcRecords /\ slow.at = "stopping"
                    /\ slow.gen = proc[p].gen
                  BY <1>0, <3>1 DEF ProcRecords, Relay!Stages
              <4>2. Relay!Terminated(p) = slow
                  BY <3>3 DEF Relay!Terminated
              <4> HIDE DEF slow
              <4>3. /\ proc' \in [Procs -> ProcRecords] /\ UNCHANGED port
                    /\ proc'[p].at = "stopping"
                    /\ \A q \in Procs \ {p} : proc'[q] = proc[q]
                  BY <1>0, <2>2, <3>1, <3>3, <4>1, <4>2
              <4> HIDE DEF p
              <4>4. Newest' /\ Binding'
                  BY <1>c, <3>1, <3>3, <4>3
                     DEF Login, Newest, Binding, Holding, Relay!gen, Relay!Publishing
              <4>5. Named'
                  BY <2>0, <3>1, <4>3 DEF Login, Named
              <4> QED
                  BY <1>0, <2>0, <3>1, <3>3, <4>3, <4>4, <4>5 DEF Login, Left
          <3>4. CASE Relay!Terminated(p) # Relay!Gone /\ proc[p].at # "serving"
              <4>1. Relay!Terminated(p) = proc[p]
                  BY <3>4 DEF Relay!Terminated
              <4>2. UNCHANGED <<proc, port>>
                  BY <1>0, <2>2, <3>4, <4>1
              <4> QED
                  BY <1>1, <2>0, <4>2
          <3> QED
              BY <3>2, <3>3, <3>4
      <2> QED
          BY <1>4, <2>1, <2>2 DEF Relay!terminate
  <1>5. CASE Relay!kill
      <2>0. relay.pc \in Aiming /\ UNCHANGED marker
          BY <1>5 DEF Relay!kill, Aiming
      <2>1. CASE UNCHANGED <<proc, port, pidfile>>
          BY <1>1, <2>0, <2>1
      <2>2. CASE /\ Relay!Ownership
                 /\ proc' = [proc EXCEPT ![relay.pid] = Relay!Gone]
                 /\ port' = IF port = relay.pid THEN None ELSE port
                 /\ pidfile' = IF pidfile = relay.pid THEN None ELSE pidfile
          <3>1. relay.pid \in Procs /\ proc[relay.pid].gen = Relay!gen
              BY <1>2, <2>0, <2>2
          <3> QED
              BY <1>c, <2>0, <2>2, <3>1, LeftRemoved
      <2> QED
          BY <1>5, <2>1, <2>2 DEF Relay!kill
  <1>6. CASE Relay!clean
      BY <1>1, <1>6 DEF Relay!clean
  <1>7. CASE Relay!retire \/ Relay!inspect
      BY <1>1, <1>7 DEF Relay!retire, Relay!inspect
  <1>8. CASE UNCHANGED Relay!remote
      BY <1>1, <1>8 DEF Relay!remote
  <1> QED
      BY <1>3, <1>4, <1>5, <1>6, <1>7, <1>8
         DEF Relay!RelayThread, Relay!tick, Relay!read_marker, Relay!read_pid, Relay!verify,
             Relay!probe, Relay!rebuild, Relay!teardown, Relay!connect, Relay!await_ready,
             Relay!await_times_out, Relay!lose_connection, Relay!first_probe, Relay!abandon

(* What a step may do to the relays, and when it declares the control      *)
(* plane up.                                                               *)
Careful ==
    /\ relay' # relay /\ web'.gen = web.gen =>
          \A p \in Procs : proc[p].at # "none" /\ proc'[p] # proc[p] => proc[p].gen = Relay!gen
    /\ relay.state = "down" /\ relay'.state = "up" => Relay!EndToEnd /\ relay.pc = "first_probe"

(* A relay that serves after a step of the thread did so before.           *)
LEMMA SightKept ==
    ASSUME Shapes, Login, Noticed, Left, UNCHANGED <<web, conf>>
    PROVE  /\ (relay'.seen # 0 => relay'.seen = relay.seen \/ relay'.seen = marker) => Noticed'
           /\ Ours => Ours'
  <1>1. \A p \in Procs : proc'[p].at = "serving" => proc'[p] = proc[p]
      BY DEF Left
  <1>2. Relay!gen' = Relay!gen
      BY DEF Relay!gen
  <1>3. ASSUME relay'.seen # 0 => relay'.seen = relay.seen \/ relay'.seen = marker
        PROVE  Noticed'
      <2> SUFFICES ASSUME relay'.seen # 0, NEW p \in Procs, proc'[p].at = "serving",
                          ~proc'[p].late
                   PROVE  proc'[p].gen = Relay!gen \/ proc'[p].gen = relay'.seen
          BY <1>2 DEF Noticed
      <2>1. proc'[p] = proc[p] /\ proc[p].at = "serving" /\ ~proc[p].late
          BY <1>1
      <2>2. CASE relay'.seen = relay.seen
          BY <2>1, <2>2 DEF Noticed
      <2>3. CASE relay'.seen = marker
          BY <2>1, <2>3, FilesTell
      <2> QED
          BY <1>3, <2>2, <2>3
  <1>4. Ours => Ours'
      BY <1>1, <1>2 DEF Ours
  <1> QED
      BY <1>3, <1>4

LEMMA RelayNext ==
    RelayInv /\ [Relay!Next]_(Relay!vars) => RelayInv' /\ (Careful \/ UNCHANGED Relay!vars)
  <1> SUFFICES ASSUME RelayInv, [Relay!Next]_(Relay!vars)
               PROVE  RelayInv' /\ (Careful \/ UNCHANGED Relay!vars)
      OBVIOUS
  <1> USE DEF RelayInv
  <1>0. /\ relay \in RelayRecords /\ web \in WebRecords /\ None \notin Procs
        /\ proc \in [Procs -> ProcRecords]
        /\ marker \in Nat /\ pidfile \in Procs \cup {None}
      BY DEF Shapes
  <1>1. CASE UNCHANGED Relay!vars
      BY <1>1 DEF Relay!vars, Shapes, Login, Newest, Binding, Named, Vetted, Ours, Noticed, Aimed,
                  Relay!gen
  <1>2. CASE Relay!RelayThread
      <2>1. Left
          BY <1>2, ThreadAtLogin
      <2>2. ASSUME relay' \in RelayRecords, UNCHANGED <<web, conf>>,
                   relay'.seen # 0 => relay'.seen = relay.seen \/ relay'.seen = marker,
                   relay'.pc \in Aiming => relay'.seen = Relay!gen,
                   relay'.pc = "first_probe" => Ours,
                   relay.state = "down" /\ relay'.state = "up"
                       => Relay!EndToEnd /\ relay.pc = "first_probe"
            PROVE  RelayInv' /\ Careful
          <3>1. Noticed' /\ (Ours => Ours')
              BY <2>1, <2>2, SightKept
          <3>2. Shapes'
              BY <1>0, <2>1, <2>2 DEF Left, Shapes
          <3>3. Aimed' /\ Vetted'
              BY <2>2, <3>1 DEF Aimed, Vetted, Relay!gen
          <3>4. Careful
              BY <2>1, <2>2 DEF Left, Careful
          <3> QED
              BY <2>1, <3>1, <3>2, <3>3, <3>4 DEF Left
      <2>3. ASSUME Harmless PROVE RelayInv' /\ Careful
          BY <2>2, <2>3 DEF Harmless, Safe
      <2>4. CASE Relay!inspect
          BY <2>2, <2>4, Inspected
      <2>5. CASE Relay!await_ready
          BY <2>2, <2>5, Awaited
      <2>6. CASE Relay!first_probe
          <3>1. relay.pc = "first_probe"
              BY <2>6 DEF Relay!first_probe
          <3> QED
              BY <2>2, <2>6, <3>1, FirstProbed
      <2> QED
          BY <1>2, <2>3, <2>4, <2>5, <2>6, HarmlessSteps DEF Relay!RelayThread
  <1>3. ASSUME NEW p \in Procs,
               Relay!Process(p) \/ Relay!watch_tunnel_target(p) \/ Relay!relay_dies(p)
        PROVE  RelayInv' /\ Careful
      <2>1. Alone(p)
          BY <1>3, ProcessSteps
      <2>2. Shapes'
          BY <1>0, <2>1 DEF Alone, Shapes
      <2>3. ASSUME NEW q \in Procs, proc'[q].at = "serving", ~proc'[q].late
            PROVE  /\ proc'[q].gen = proc[q].gen
                   /\ (proc[q].at = "serving" /\ ~proc[q].late) \/ proc[q].gen = Relay!gen
          BY <2>1, <2>3 DEF Alone, Login, Newest, Relay!Publishing
      <2>4. Ours => Ours'
          BY <2>1, <2>3 DEF Ours, Alone, Relay!gen
      <2>5. Noticed'
          BY <2>1, <2>3 DEF Noticed, Alone, Relay!gen
      <2>6. Vetted' /\ Aimed'
          BY <2>1, <2>4 DEF Alone, Vetted, Aimed, Relay!gen
      <2>7. Careful
          BY <1>0, <2>1 DEF Alone, Careful
      <2> QED
          BY <2>1, <2>2, <2>5, <2>6, <2>7 DEF Alone
  <1>4. CASE Relay!Worker \/ Relay!crash \/ Relay!lose_listener \/ Relay!drop_tunnel
      <2>1. /\ web' \in WebRecords /\ relay' \in RelayRecords /\ UNCHANGED conf
            /\ relay'.state = "up" => relay.state = "up"
            /\ relay'.seen \in {0, relay.seen}
            /\ relay'.pc \in Aiming \cup {"first_probe"} => relay' = relay
            /\ (UNCHANGED Relay!remote /\ web'.gen = web.gen) \/ Relay!start_worker
          BY <1>4, WorkerSteps
      <2>2. CASE Relay!start_worker
          <3>1. /\ UNCHANGED <<port, marker, pidfile>> /\ web'.gen = web.gen + 1
                /\ proc' = [p \in Procs |->
                       [proc[p] EXCEPT !.late = @ \/ proc[p].at \in Relay!Publishing]]
              BY <2>2 DEF Relay!start_worker, Relay!files, Relay!NewWeb, Relay!gen
          <3>2. ASSUME NEW p \in Procs
                PROVE  /\ proc'[p] \in ProcRecords
                       /\ proc'[p].at = proc[p].at /\ proc'[p].gen = proc[p].gen
                       /\ proc[p].at \in Relay!Publishing => proc'[p].late
              <4>1. proc[p] \in ProcRecords
                  BY <1>0
              <4>2. proc'[p] = [proc[p] EXCEPT !.late = proc[p].late \/ proc[p].at \in Relay!Publishing]
                  BY <3>1
              <4>3. ASSUME NEW b \in BOOLEAN, proc'[p] = [proc[p] EXCEPT !.late = b]
                    PROVE  /\ proc'[p] \in ProcRecords /\ proc'[p].late = b
                           /\ proc'[p].at = proc[p].at /\ proc'[p].gen = proc[p].gen
                  BY <4>1, <4>3 DEF ProcRecords
              <4>4. (proc[p].late \/ proc[p].at \in Relay!Publishing) \in BOOLEAN
                  OBVIOUS
              <4> QED
                  BY <4>2, <4>3, <4>4
          <3>3. proc' \in [Procs -> ProcRecords]
              BY <3>1, <3>2
          <3>4. Login'
              BY <1>0, <3>1, <3>2 DEF Login, Newest, Binding, Named
          <3>5. relay'.pc = "idle" /\ relay'.seen = 0
              BY <2>2, NewRelayType, Published DEF Relay!start_worker
          <3>6. web'.gen # web.gen
              BY <1>0, <3>1 DEF WebRecords
          <3> QED
              BY <1>0, <2>1, <3>1, <3>3, <3>4, <3>5, <3>6
                 DEF Shapes, Vetted, Noticed, Aimed, Aiming, Careful
      <2>4. CASE UNCHANGED Relay!remote /\ web'.gen = web.gen
          <3>1. Login'
              BY <2>4, LoginAtRest
          <3>2. (Ours' <=> Ours) /\ UNCHANGED <<proc, marker, pidfile>>
              BY <2>1, <2>4 DEF Ours, Relay!remote, Relay!gen
          <3>3. Noticed' /\ Vetted' /\ Aimed'
              BY <2>1, <2>4, <3>2 DEF Noticed, Vetted, Aimed, Relay!gen
          <3>4. Careful
              BY <2>1, <3>2 DEF Careful
          <3> QED
              BY <1>0, <2>1, <3>1, <3>2, <3>3, <3>4 DEF Shapes
      <2> QED
          BY <2>1, <2>2, <2>4
  <1> QED
      BY <1>1, <1>2, <1>3, <1>4 DEF Relay!Next

(* first_probe after inspect and await_ready, for any number of relay      *)
(* processes, generations and faults: the control plane is declared up     *)
(* only through a relay that runs this generation's configuration, or one  *)
(* that came up late.                                                      *)
THEOREM DeclaredUpIsOurs ==
    ASSUME None \notin Procs PROVE Relay!Spec => Relay!UpIsOurs
  <1> DEFINE Declared ==
        relay.state = "down" /\ relay'.state = "up" =>
            Relay!EndToEnd /\ (conf[proc[port].gen] = conf[Relay!gen] \/ proc[port].late)
  <1>1. RelayInv /\ [Relay!Next]_(Relay!vars) => [Declared]_(Relay!vars)
      <2> SUFFICES ASSUME RelayInv, [Relay!Next]_(Relay!vars), Careful,
                          relay.state = "down", relay'.state = "up"
                   PROVE  Relay!EndToEnd /\ (conf[proc[port].gen] = conf[Relay!gen] \/ proc[port].late)
          BY RelayNext
      <2>1. Relay!EndToEnd /\ Ours
          BY DEF Careful, RelayInv, Vetted
      <2>2. port \in Procs
          BY <2>1 DEF Relay!EndToEnd, RelayInv, Login, Binding
      <2> QED
          BY <2>1, <2>2 DEF Relay!EndToEnd, Ours
  <1>2. Relay!Init => RelayInv
      BY RelayInit
  <1>3. Relay!Spec => [][Declared]_(Relay!vars)
      BY <1>1, <1>2, RelayNext, PTL DEF Relay!Spec
  <1> QED
      BY <1>3 DEF Relay!UpIsOurs

(* _stop_remote_relay_locked, for any number of relay processes,           *)
(* generations and faults, however files and processes change between its  *)
(* commands: the thread touches no relay that another worker launched.     *)
THEOREM OtherRelaysAreSpared ==
    ASSUME None \notin Procs PROVE Relay!Spec => Relay!OthersAreSpared
  <1> DEFINE Spared ==
        relay' # relay /\ Relay!gen' = Relay!gen =>
            \A p \in Procs : Relay!Live(p) /\ proc'[p] # proc[p] => proc[p].gen = Relay!gen
  <1>1. RelayInv /\ [Relay!Next]_(Relay!vars) => [Spared]_(Relay!vars)
      BY RelayNext DEF Careful, Relay!Live, Relay!gen
  <1>2. Relay!Init => RelayInv
      BY RelayInit
  <1>3. Relay!Spec => [][Spared]_(Relay!vars)
      BY <1>1, <1>2, RelayNext, PTL DEF Relay!Spec
  <1> QED
      BY <1>3 DEF Relay!OthersAreSpared
==============================================================================
