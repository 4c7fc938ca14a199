-------------------------- MODULE ControlPlaneRelay --------------------------
(***************************************************************************)
(* The way of the compute nodes to the scheduler: a relay process on the   *)
(* login node, an SSH reverse tunnel from there to the web worker, the     *)
(* thread of the worker that keeps both, and the parent process that       *)
(* replaces a worker whose listener is gone.                               *)
(*                                                                         *)
(* Relay processes outlive the worker that launched them.  A worker knows  *)
(* them by two files, the marker and the pid, and talks to them through a  *)
(* third one, the desired generation.  A step is one remote command, one   *)
(* probe, or one system call of a relay process that others can see.       *)
(***************************************************************************)
EXTENDS Naturals, FiniteSets

CONSTANTS
    Procs,            \* slots for relay processes
    None,
    ProbeThreshold,   \* _probe_failure_threshold
    TunnelChecks,     \* checks of the tunnel a relay lets fail in a row (6)
    ListenThreshold,  \* failure_threshold of the parent
    MaxGen,           \* bound on the generations of the worker
    FaultMixes        \* sets of what goes wrong, each once, in one behaviour

ASSUME RelayAssumptions ==
    /\ IsFiniteSet(Procs) /\ None \notin Procs
    /\ ProbeThreshold \in Nat \ {0} /\ TunnelChecks \in Nat \ {0} /\ ListenThreshold \in Nat \ {0}
    /\ MaxGen \in Nat \ {0}

VARIABLES
    faults,   \* what still goes wrong
    web,      \* the worker and what its parent counts
    conf,     \* the fingerprint of each generation's relay configuration
    relay,    \* the ControlPlaneRelay object of the worker
    tunnel,   \* the reverse tunnel is up
    url,      \* the published control-plane URL is set
    proc,     \* the relay processes
    port,     \* the process that listens on relay_port
    marker, pidfile, desired    \* the files next to the relay script; a pid
                                \* that no process has counts as none

vars == <<faults, web, conf, relay, tunnel, url, proc, port, marker, pidfile, desired>>
files == <<marker, pidfile, desired>>
remote == <<proc, port, marker, pidfile, desired>>

Gens == 1..MaxGen
Prints == {1, 2}
gen == web.gen

Webs == [gen : Gens, up : BOOLEAN, listening : BOOLEAN, wedged : BOOLEAN, aged : BOOLEAN,
         strikes : 0..ListenThreshold, stopping : BOOLEAN]
Relays == [pc : {"idle", "marker", "pid", "check", "probe", "failed", "retire", "term", "kill",
                 "clean", "stopped", "establish", "deploy", "wait", "first_probe", "abandon"},
           task : {"tick", "inspect", "rebuild", "retired", "discard", "give_up", "shut_down"},
           seen : {0} \cup Gens, pid : Procs \cup {None},
           session : BOOLEAN, owned : BOOLEAN, adopted : BOOLEAN, expected : {0} \cup Gens,
           failures : 0..ProbeThreshold, state : {"up", "down"}, told : {"unknown", "up", "down"}]

(* A process has the marker of the generation that launched it.  It is     *)
(* late when that worker was replaced before the process had published its *)
(* files (history).                                                        *)
Stages == {"none", "starting", "bound", "marked", "serving", "stopping", "closed",
           "checked", "unlinked"}
Processes == [at : Stages, gen : {0} \cup Gens, misses : 0..TunnelChecks, late : BOOLEAN]

NewRelay == [pc |-> "idle", task |-> "tick", seen |-> 0, pid |-> None, session |-> FALSE, owned |-> FALSE, adopted |-> FALSE,
             expected |-> 0, failures |-> 0, state |-> "down", told |-> "unknown"]
NewWeb(g) == [gen |-> g, up |-> TRUE, listening |-> FALSE, wedged |-> FALSE, aged |-> FALSE,
              strikes |-> 0, stopping |-> FALSE]
Gone == [at |-> "none", gen |-> 0, misses |-> 0, late |-> FALSE]
Publishing == {"starting", "bound", "marked"}

Live(p) == proc[p].at # "none"
Spend(f) == f \in faults /\ faults' = faults \ {f}

-----------------------------------------------------------------------------
(* What the worker reads on the login node: first the marker, then the     *)
(* pid, then the command line of the process with that pid.  Commands over *)
(* a broken connection may fail.                                           *)

Reached == {TRUE, tunnel}
Look(r, task) == [r EXCEPT !.pc = "marker", !.task = task]
Forget(r) == [r EXCEPT !.seen = 0, !.pid = None]

read_marker ==
    /\ relay.pc = "marker"
    /\ \E reached \in Reached :
         relay' = [relay EXCEPT !.pc = "pid", !.seen = IF reached THEN marker ELSE 0]
    /\ UNCHANGED <<faults, web, conf, tunnel, url>> /\ UNCHANGED remote

(* _stop_remote_relay_locked is done: the relay is nobody's any more.      *)
Stopped(r) ==
    [Forget(r) EXCEPT !.owned = FALSE, !.pc = IF r.task = "give_up" THEN "abandon" ELSE "stopped"]

(* _active_managed_relay_marker looks for the process next;                *)
(* _remote_owned_marker gives up on a marker that is not this worker's.    *)
read_pid ==
    /\ relay.pc = "pid"
    /\ \E reached \in Reached :
         LET r == [relay EXCEPT !.pid = IF reached THEN pidfile ELSE None]
         IN  relay' = IF relay.task \in {"tick", "inspect"} THEN [r EXCEPT !.pc = "check"]
                      ELSE IF r.seen = gen /\ r.pid # None THEN [r EXCEPT !.pc = "term"]
                      ELSE Stopped(r)
    /\ UNCHANGED <<faults, web, conf, tunnel, url>> /\ UNCHANGED remote

(* The process with the pid has the marker on its command line.            *)
Carries == relay.pid # None /\ Live(relay.pid) /\ proc[relay.pid].gen = relay.seen
Active == relay.seen # 0 /\ Carries

(* The probe of relay_url/healthz through relay and tunnel.                *)
EndToEnd == tunnel /\ web.listening /\ port # None /\ proc[port].at = "serving"

-----------------------------------------------------------------------------
(* _stop_remote_relay_locked: one remote command, which looks at marker    *)
(* and command line once more, signals, waits and looks again.             *)

Ownership == marker = relay.seen /\ Carries

(* Its handler lets a relay that serves close its port and its files first.*)
Terminated(p) ==
    CASE proc[p].at = "serving" -> [proc[p] EXCEPT !.at = "stopping", !.misses = 0]
      [] proc[p].at \in Publishing -> Gone
      [] OTHER -> proc[p]

(* Mutant: the pid that was read is the pid to signal.                     *)
terminate_unchecked ==
    /\ relay.pc = "term"
    /\ \E reached \in Reached :
         IF reached /\ Live(relay.pid)
         THEN /\ proc' = [proc EXCEPT ![relay.pid] = Gone]
              /\ port' = IF port = relay.pid THEN None ELSE port
              /\ relay' = [relay EXCEPT !.pc = "kill"]
         ELSE UNCHANGED <<proc, port>> /\ relay' = Stopped(relay)
    /\ UNCHANGED <<faults, web, conf, tunnel, url>> /\ UNCHANGED files

terminate ==
    /\ relay.pc = "term"
    /\ \E reached \in Reached :
         IF reached /\ Ownership
         THEN /\ proc' = [proc EXCEPT ![relay.pid] = Terminated(relay.pid)]
              /\ port' = IF port = relay.pid /\ Terminated(relay.pid) = Gone THEN None ELSE port
              /\ relay' = [relay EXCEPT !.pc = "kill"]
         ELSE UNCHANGED <<proc, port>> /\ relay' = Stopped(relay)
    /\ UNCHANGED <<faults, web, conf, tunnel, url>> /\ UNCHANGED files

(* The two seconds are over, or the process is.                            *)
kill ==
    /\ relay.pc = "kill"
    /\ IF Ownership
       THEN /\ proc' = [proc EXCEPT ![relay.pid] = Gone]
            /\ port' = IF port = relay.pid THEN None ELSE port
            /\ pidfile' = IF pidfile = relay.pid THEN None ELSE pidfile
       ELSE UNCHANGED <<proc, port, pidfile>>
    /\ relay' = [relay EXCEPT !.pc = "clean"]
    /\ UNCHANGED <<faults, web, conf, tunnel, url, marker, desired>>

clean ==
    /\ relay.pc = "clean"
    /\ IF marker = relay.seen THEN marker' = 0 /\ pidfile' = None
       ELSE UNCHANGED <<marker, pidfile>>
    /\ relay' = Stopped(relay)
    /\ UNCHANGED <<faults, web, conf, tunnel, url, proc, port, desired>>

-----------------------------------------------------------------------------
(* _publish_locked writes only what changes, and keeps what it could not   *)
(* write for the next time: r is the relay afterwards, or bad.             *)
Publish(on, r, bad) ==
    LET value == IF on THEN "up" ELSE "down"
    IN  \/ /\ url' = IF r.told = value THEN url ELSE on
           /\ relay' = [r EXCEPT !.state = value, !.told = value]
           /\ UNCHANGED faults
        \/ /\ r.told # value /\ \E f \in {"db", "db again"} : Spend(f)
           /\ relay' = bad /\ UNCHANGED url

(* Mutant: only a relay that was up has something to withdraw.             *)
MarkDown_on_change(r) ==
    IF r.state = "up" THEN Publish(FALSE, r, [r EXCEPT !.state = "down"])
    ELSE relay' = r /\ UNCHANGED <<url, faults>>

MarkDown(r) == Publish(FALSE, r, [r EXCEPT !.state = "down"])

(* _teardown_locked forgets tunnel and session.                            *)
TornDown(r) == [r EXCEPT !.session = FALSE, !.owned = FALSE, !.adopted = FALSE, !.expected = 0,
                         !.task = "tick"]

-----------------------------------------------------------------------------
(* tick of the relay thread.                                               *)

(* The tunnel, then the ownership of the remote relay, are looked at first.*)
tick ==
    /\ web.up /\ ~web.stopping /\ relay.pc = "idle"
    /\ relay' = IF ~relay.session THEN [relay EXCEPT !.pc = "establish"]
                ELSE IF tunnel THEN Look(relay, "tick")
                ELSE [relay EXCEPT !.pc = "failed"]
    /\ UNCHANGED <<faults, web, conf, tunnel, url>> /\ UNCHANGED remote

verify ==
    /\ relay.pc = "check" /\ relay.task = "tick"
    /\ \E reached \in Reached :
         relay' = [Forget(relay) EXCEPT !.pc =
             IF reached /\ Active /\ relay.expected = relay.seen THEN "probe" ELSE "failed"]
    /\ UNCHANGED <<faults, web, conf, tunnel, url>> /\ UNCHANGED remote

Missed(n) == IF n < ProbeThreshold THEN [relay EXCEPT !.pc = "idle", !.failures = n]
             ELSE [relay EXCEPT !.pc = "failed"]

(* A probe that fails is counted; the tunnel is kept below the threshold.  *)
(* The URL has been published since the first probe.                       *)
probe ==
    /\ relay.pc = "probe"
    /\ \/ EndToEnd /\ relay' = [relay EXCEPT !.pc = "idle", !.failures = 0]
          /\ UNCHANGED <<faults, url>>
       \/ ~EndToEnd /\ relay' = Missed(relay.failures + 1) /\ UNCHANGED <<faults, url>>
       \/ Spend("slow") /\ relay' = Missed(relay.failures + 1) /\ UNCHANGED url
    /\ UNCHANGED <<web, conf, tunnel>> /\ UNCHANGED remote

rebuild ==
    /\ relay.pc = "failed"
    /\ MarkDown([relay EXCEPT !.failures = 0, !.pc = "retire", !.task = "rebuild"])
    /\ UNCHANGED <<web, conf, tunnel>> /\ UNCHANGED remote

(* A relay that another generation launched is asked to retire, ours is    *)
(* stopped.                                                                *)
retire ==
    /\ relay.pc = "retire"
    /\ \E reached \in Reached :
         /\ desired' = IF relay.adopted /\ reached THEN 0 ELSE desired
         /\ relay' = [relay EXCEPT
              !.pc = IF relay.owned THEN "marker" ELSE "stopped",
              !.task = IF @ = "rebuild" /\ relay.adopted /\ reached THEN "retired" ELSE @]
    /\ UNCHANGED <<faults, web, conf, tunnel, url, proc, port, marker, pidfile>>

(* The rest of _teardown_locked.  A relay that retires is given until the  *)
(* next tick; what failed its first probe is down.                         *)
teardown ==
    /\ relay.pc = "stopped" /\ relay.task \in {"rebuild", "retired", "discard"}
    /\ IF relay.task = "discard" THEN MarkDown([TornDown(relay) EXCEPT !.pc = "idle"])
       ELSE /\ relay' = [TornDown(relay) EXCEPT !.pc = IF relay.task = "retired" THEN "idle"
                                                     ELSE "establish"]
            /\ UNCHANGED <<faults, url>>
    /\ tunnel' = FALSE
    /\ UNCHANGED <<web, conf>> /\ UNCHANGED remote

(* A login node that stays away once its connection is lost.               *)
Outage == {"outage", "ssh"} \cap faults = {"outage"}

(* _establish_locked connects and asks for the port forward first.         *)
connect ==
    /\ relay.pc = "establish"
    /\ \/ /\ ~Outage
          /\ relay' = [Look(relay, "inspect") EXCEPT !.session = TRUE]
          /\ tunnel' = TRUE /\ UNCHANGED faults
       \/ /\ Outage
          /\ relay' = [relay EXCEPT !.pc = "abandon"] /\ UNCHANGED <<tunnel, faults>>
    /\ UNCHANGED <<web, conf, url>> /\ UNCHANGED remote

(* Mutant: any managed relay that lives will do.                           *)
inspect_any_generation ==
    /\ relay.pc = "check" /\ relay.task = "inspect"
    /\ IF Active
       THEN relay' = [relay EXCEPT !.pc = "first_probe", !.owned = relay.seen = gen,
                                   !.adopted = relay.seen # gen, !.expected = relay.seen]
       ELSE relay' = [relay EXCEPT !.pc = "deploy"]
    /\ desired' = conf[gen]
    /\ UNCHANGED <<faults, web, conf, tunnel, url, proc, port, marker, pidfile>>

(* A relay of another configuration is told to go, one that is going is    *)
(* waited for, one of ours or of an earlier worker is taken over.          *)
inspect ==
    LET same == Active /\ conf[relay.seen] = conf[gen]
        taken == same /\ desired \in {None, conf[gen]}
    IN  /\ relay.pc = "check" /\ relay.task = "inspect"
        /\ relay' = [Forget(relay) EXCEPT
             !.pc = IF ~Active THEN "deploy" ELSE IF taken THEN "first_probe" ELSE "abandon",
             !.owned = IF taken THEN relay.seen = gen ELSE @,
             !.adopted = IF taken THEN relay.seen # gen ELSE @,
             !.expected = IF taken THEN relay.seen ELSE @]
        /\ desired' = IF same /\ ~taken THEN desired ELSE conf[gen]
        /\ UNCHANGED <<faults, web, conf, tunnel, url, proc, port, marker, pidfile>>

(* The script is written and started with nohup.                           *)
deploy ==
    /\ relay.pc = "deploy"
    /\ \E p \in Procs :
         /\ ~Live(p)
         /\ proc' = [proc EXCEPT ![p] = [Gone EXCEPT !.at = "starting", !.gen = gen]]
    /\ relay' = [relay EXCEPT !.pc = "wait"]
    /\ UNCHANGED <<faults, web, conf, tunnel, url, port>> /\ UNCHANGED files

(* The launch command waits for marker and pid, for two seconds.  What     *)
(* becomes ready after all is stopped again.                               *)
Ready == marker = gen /\ pidfile # None /\ Live(pidfile)

await_ready ==
    /\ relay.pc = "wait" /\ Ready
    /\ relay' = [relay EXCEPT !.pc = "first_probe", !.owned = TRUE, !.adopted = FALSE,
                              !.expected = gen]
    /\ UNCHANGED <<faults, web, conf, tunnel, url>> /\ UNCHANGED remote

await_times_out ==
    /\ relay.pc = "wait" /\ ~Ready
    /\ IF \E p \in Procs : proc[p].at \in Publishing THEN Spend("late") ELSE UNCHANGED faults
    /\ relay' = [Look(relay, "give_up") EXCEPT !.owned = TRUE]
    /\ UNCHANGED <<web, conf, tunnel, url>> /\ UNCHANGED remote

(* A command of _establish_locked fails with the connection.               *)
lose_connection ==
    /\ relay.pc \in {"check", "deploy", "wait"} /\ relay.task = "inspect" /\ ~tunnel
    /\ relay' = [Forget(relay) EXCEPT !.pc = "abandon"]
    /\ UNCHANGED <<faults, web, conf, tunnel, url>> /\ UNCHANGED remote

(* The first probe of a tunnel has no second try.                          *)
first_probe ==
    /\ relay.pc = "first_probe"
    /\ \/ EndToEnd /\ Publish(TRUE, [relay EXCEPT !.pc = "idle", !.task = "tick", !.failures = 0],
                                   [relay EXCEPT !.pc = "retire", !.task = "discard"])
       \/ /\ ~EndToEnd /\ UNCHANGED <<faults, url>>
          /\ relay' = [relay EXCEPT !.pc = "retire", !.task = "discard"]
       \/ /\ Spend("slow") /\ UNCHANGED url
          /\ relay' = [relay EXCEPT !.pc = "retire", !.task = "discard"]
    /\ UNCHANGED <<web, conf, tunnel>> /\ UNCHANGED remote

(* The except branches: the session is closed, the relay is down.          *)
abandon ==
    /\ relay.pc = "abandon"
    /\ MarkDown([TornDown(relay) EXCEPT !.pc = "idle"])
    /\ tunnel' = FALSE
    /\ UNCHANGED <<web, conf>> /\ UNCHANGED remote

drop_tunnel ==
    /\ tunnel /\ Spend("ssh") /\ tunnel' = FALSE
    /\ UNCHANGED <<web, conf, relay, url>> /\ UNCHANGED remote

-----------------------------------------------------------------------------
(* The relay process.                                                      *)

At(p, stage) == proc[p].at = stage
Go(p, stage) ==
    proc' = [proc EXCEPT ![p] = IF stage = "none" THEN Gone ELSE [@ EXCEPT !.at = stage, !.misses = 0]]
Local == <<faults, web, conf, relay, tunnel, url>>

(* It binds before it publishes its files: a second one just exits.  The   *)
(* start of an interpreter takes longer than the unlinks of a relay that   *)
(* has closed its port, but once.                                          *)
bind(p) ==
    /\ At(p, "starting")
    /\ \/ /\ port = None /\ port' = p /\ Go(p, "bound")
          /\ IF \E q \in Procs : proc[q].at \in {"closed", "checked", "unlinked"}
             THEN Spend("race") ELSE UNCHANGED faults
       \/ port # None /\ Go(p, "none") /\ UNCHANGED <<port, faults>>
    /\ UNCHANGED <<web, conf, relay, tunnel, url>> /\ UNCHANGED files

write_marker(p) ==
    /\ At(p, "bound") /\ Go(p, "marked")
    /\ marker' = proc[p].gen
    /\ UNCHANGED Local /\ UNCHANGED <<port, pidfile, desired>>

write_pid(p) ==
    /\ At(p, "marked") /\ Go(p, "serving")
    /\ pidfile' = p
    /\ UNCHANGED Local /\ UNCHANGED <<port, marker, desired>>

watch_desired_generation(p) ==
    /\ At(p, "serving") /\ desired \notin {None, conf[proc[p].gen]}
    /\ Go(p, "stopping")
    /\ UNCHANGED Local /\ UNCHANGED port /\ UNCHANGED files

(* A look at the tunnel: too many in a row without it end the relay.       *)
watch_tunnel_target(p) ==
    /\ At(p, "serving")
    /\ IF tunnel THEN proc[p].misses # 0 /\ proc' = [proc EXCEPT ![p].misses = 0]
       ELSE IF proc[p].misses + 1 < TunnelChecks THEN proc' = [proc EXCEPT ![p].misses = @ + 1]
       ELSE Go(p, "stopping")
    /\ UNCHANGED Local /\ UNCHANGED port /\ UNCHANGED files

server_close(p) ==
    /\ At(p, "stopping") /\ Go(p, "closed")
    /\ port' = None
    /\ UNCHANGED Local /\ UNCHANGED files

(* _remove_owned_files reads the marker, then unlinks one file after the   *)
(* other.                                                                  *)
check_marker(p) ==
    /\ At(p, "closed") /\ Go(p, IF marker = proc[p].gen THEN "checked" ELSE "none")
    /\ pidfile' = IF marker # proc[p].gen /\ pidfile = p THEN None ELSE pidfile
    /\ UNCHANGED Local /\ UNCHANGED <<port, marker, desired>>

unlink_pid(p) ==
    /\ At(p, "checked") /\ Go(p, "unlinked")
    /\ pidfile' = None
    /\ UNCHANGED Local /\ UNCHANGED <<port, marker, desired>>

unlink_marker(p) ==
    /\ At(p, "unlinked") /\ Go(p, "none")
    /\ marker' = 0
    /\ UNCHANGED Local /\ UNCHANGED <<port, pidfile, desired>>

(* It dies and leaves its marker, and a pid that nobody has.               *)
relay_dies(p) ==
    /\ Live(p) /\ Spend("relay") /\ Go(p, "none")
    /\ port' = IF port = p THEN None ELSE port
    /\ pidfile' = IF pidfile = p THEN None ELSE pidfile
    /\ UNCHANGED <<web, conf, relay, tunnel, url, marker, desired>>

-----------------------------------------------------------------------------
(* The worker and its parent.                                              *)

(* Nothing a worker holds in memory survives it, the files and the URL do. *)
WorkerEnds(w) ==
    /\ web' = [w EXCEPT !.up = FALSE, !.listening = FALSE, !.stopping = FALSE]
    /\ relay' = NewRelay
    /\ tunnel' = FALSE

crash ==
    /\ web.up /\ gen < MaxGen /\ Spend("crash")
    /\ WorkerEnds(web)
    /\ UNCHANGED <<conf, url>> /\ UNCHANGED remote

(* The launcher starts the next generation; its relay is down to begin.    *)
start_worker ==
    /\ ~web.up
    /\ web' = NewWeb(gen + 1)
    /\ Publish(FALSE, NewRelay, NewRelay)
    /\ proc' = [p \in Procs |-> [proc[p] EXCEPT !.late = @ \/ proc[p].at \in Publishing]]
    /\ UNCHANGED <<conf, tunnel, port>> /\ UNCHANGED files

listen ==
    /\ web.up /\ ~web.wedged /\ ~web.listening
    /\ web' = [web EXCEPT !.listening = TRUE]
    /\ UNCHANGED <<faults, conf, relay, tunnel, url>> /\ UNCHANGED remote

(* The accept path breaks: the worker lives on without a listener.         *)
lose_listener ==
    /\ web.up /\ gen < MaxGen /\ Spend("listener")
    /\ web' = [web EXCEPT !.listening = FALSE, !.wedged = TRUE]
    /\ UNCHANGED <<conf, relay, tunnel, url>> /\ UNCHANGED remote

startup_grace_ends ==
    /\ web.up /\ ~web.aged
    /\ web' = [web EXCEPT !.aged = TRUE]
    /\ UNCHANGED <<faults, conf, relay, tunnel, url>> /\ UNCHANGED remote

(* Mutant: a worker whose process lives is left alone.                     *)
observe_exits_only ==
    /\ web.up /\ ~web.stopping /\ web.strikes # 0
    /\ web' = [web EXCEPT !.strikes = 0]
    /\ UNCHANGED <<faults, conf, relay, tunnel, url>> /\ UNCHANGED remote

(* The parent probes; a listener that is missing too often ends the worker.*)
observe ==
    /\ web.up /\ ~web.stopping
    /\ \/ web.listening /\ web.strikes # 0 /\ web' = [web EXCEPT !.strikes = 0]
       \/ /\ ~web.listening /\ web.aged /\ (web.wedged \/ web.strikes + 1 < ListenThreshold)
          /\ web' = [web EXCEPT !.strikes = @ + 1, !.stopping = web.strikes + 1 = ListenThreshold]
    /\ UNCHANGED <<faults, conf, relay, tunnel, url>> /\ UNCHANGED remote

(* _terminate: the worker shuts down in order, relay included ...          *)
shut_down ==
    /\ web.up /\ web.stopping /\ relay.pc = "idle"
    /\ relay' = [relay EXCEPT !.task = "shut_down",
                              !.pc = IF relay.session /\ relay.owned THEN "marker" ELSE "stopped"]
    /\ UNCHANGED <<faults, web, conf, tunnel, url>> /\ UNCHANGED remote

shut_down_ends ==
    /\ relay.pc = "stopped" /\ relay.task = "shut_down"
    /\ WorkerEnds(web)
    /\ \/ url' = FALSE /\ UNCHANGED faults
       \/ relay.told = "up" /\ Spend("db") /\ UNCHANGED url
    /\ UNCHANGED conf /\ UNCHANGED remote

(* ... or is killed when the grace is over, or at once on Windows.         *)
kill_worker ==
    /\ web.up /\ web.stopping
    /\ WorkerEnds(web)
    /\ UNCHANGED <<faults, conf, url>> /\ UNCHANGED remote

-----------------------------------------------------------------------------
Init ==
    /\ faults \in FaultMixes
    /\ web = NewWeb(1)
    /\ conf = [g \in Gens |-> IF g > 1 /\ "config" \in faults THEN 2 ELSE 1]
    /\ relay = [NewRelay EXCEPT !.told = "down"]
    /\ tunnel = FALSE /\ url = FALSE
    /\ proc = [p \in Procs |-> Gone] /\ port = None
    /\ marker = 0 /\ pidfile = None /\ desired = None

RelayThread ==
    \/ tick \/ read_marker \/ read_pid \/ verify \/ probe \/ rebuild \/ retire
    \/ terminate \/ kill \/ clean \/ teardown \/ connect \/ inspect \/ deploy
    \/ await_ready \/ await_times_out \/ lose_connection \/ first_probe \/ abandon

Process(p) ==
    \/ bind(p) \/ write_marker(p) \/ write_pid(p) \/ watch_desired_generation(p)
    \/ server_close(p) \/ check_marker(p) \/ unlink_pid(p) \/ unlink_marker(p)

Worker == start_worker \/ listen \/ startup_grace_ends \/ observe \/ shut_down
          \/ shut_down_ends \/ kill_worker

Next ==
    \/ RelayThread \/ Worker
    \/ \E p \in Procs : Process(p) \/ watch_tunnel_target(p) \/ relay_dies(p)
    \/ crash \/ lose_listener \/ drop_tunnel

Spec == Init /\ [][Next]_vars

(* The threads and processes go on.  A relay looks at its tunnel again and *)
(* again, but when it looks is its own affair: a tunnel that is rebuilt    *)
(* may be there at each look.                                              *)
FairSpec ==
    /\ Spec
    /\ WF_vars(RelayThread) /\ WF_vars(Worker)
    /\ \A p \in Procs : WF_vars(Process(p)) /\ WF_vars(watch_tunnel_target(p))

-----------------------------------------------------------------------------
(* Properties.                                                             *)

(* The shape of the state, for every fault the instance can meet.          *)
TypeOK ==
    /\ web \in Webs /\ conf \in [Gens -> Prints] /\ relay \in Relays
    /\ tunnel \in BOOLEAN /\ url \in BOOLEAN
    /\ proc \in [Procs -> Processes] /\ port \in Procs \cup {None}
    /\ marker \in {0} \cup Gens /\ pidfile \in Procs \cup {None}
    /\ desired \in {None, 0} \cup Prints

(* The control plane is declared up only on a relay that runs this         *)
(* generation's script and allowlist, whichever relays were there before   *)
(* and however they come and go while the worker looks at their files.     *)
(* The one exception is a relay that an earlier worker had launched and    *)
(* that had no files yet when that worker was replaced: it can bind the    *)
(* port between the look at the files and the probe.                       *)
UpIsOurs ==
    [][relay.state = "down" /\ relay'.state = "up" =>
          EndToEnd /\ (conf[proc[port].gen] = conf[gen] \/ proc[port].late)]_vars

(* "Shutdown will never signal a process this supervisor did not launch":  *)
(* marker, pid and process are read one after the other while relays come  *)
(* and go, a pid may have a new owner, and the marker on disk may be that  *)
(* of another process than the pid; no step of the thread touches a relay  *)
(* of another generation.                                                  *)
OthersAreSpared ==
    [][relay' # relay /\ gen' = gen =>
          \A p \in Procs : Live(p) /\ proc'[p] # proc[p] => proc[p].gen = gen]_vars

(* A control plane that is known to be down is withdrawn, even when the    *)
(* withdrawal fails, the worker crashes or the login node stays away: new  *)
(* session hosts are launched on a published URL only.                     *)
UrlIsWithdrawn ==
    (url /\ relay.state = "down") ~> (~url \/ relay.state = "up")

(* A relay whose files another one has removed.                            *)
Orphaned == \E p \in Procs : At(p, "serving") /\ (marker # proc[p].gen \/ pidfile # p)

(* Whatever crashes, wedges or is lost, the relay is up again for good,    *)
(* unless the login node stays away or a relay without its files keeps the *)
(* port: that one leaves when it has missed the tunnel often enough in a   *)
(* row, and the tunnel that the worker rebuilds may be there at each look. *)
RelayComesUp ==
    <>[]((EndToEnd /\ url /\ relay.state = "up") \/ "outage" \in faults \/ Orphaned)
=============================================================================
