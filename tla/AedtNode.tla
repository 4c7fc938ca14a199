------------------------------ MODULE AedtNode ------------------------------
(***************************************************************************)
(* One Desktop seen from its node: the session host that owns it           *)
(* (aedt_session_host), the project clients attached to it                 *)
(* (aedt_attach_client), and the control plane they talk to over HTTP,     *)
(* where any answer may be lost after the call was applied, any call is    *)
(* then repeated, and any outage may outlast a budget.                     *)
(*                                                                         *)
(* The control plane keeps one session row and one row per lease; its      *)
(* handlers are those of AedtPool with everything left out that only other *)
(* sessions, reservations and capacity can tell apart.  The automation     *)
(* lock is one holder here; AutomationLock says why that is right.         *)
(***************************************************************************)
EXTENDS Naturals, FiniteSets

CONSTANTS Leases,       \* project leases, each with its own client process
          FaultMixes    \* the sets of faults a behaviour may meet

ASSUME AedtNodeAssumptions == IsFiniteSet(Leases)

VARIABLES
    faults,    \* the faults this behaviour meets
    row,       \* the session row: its state, its quarantine, is it silent?
    lease,     \* the state of each lease row
    permit,    \* who was granted the solve permit
    expired,   \* leases the tick took from a silent client
    desktop,   \* the Desktop process
    open,      \* leases whose project is open in the Desktop
    holder,    \* who holds the Desktop automation lock
    host,      \* the host process
    client     \* where each client process stands

vars == <<faults, row, lease, permit, expired, desktop, open, holder, host, client>>

Server == <<row, lease, permit, expired>>
Native == <<desktop, open, holder>>

Live == {"offered", "attaching", "active"}
Occupying == Live \cup {"releasing"}
Ended == {"released", "failed", "cancelled", "expired"}
Counted == {"starting", "ready", "draining", "unhealthy"}

Commands == [close : SUBSET Leases, drain : BOOLEAN, siblings : BOOLEAN, stop : BOOLEAN]
NoCommands == [close |-> {}, drain |-> FALSE, siblings |-> TRUE, stop |-> FALSE]

HostSteps == {"claim", "start", "register", "fetch", "prove", "beat", "refetch",
              "release", "offline", "closing", "report", "exit"}
ClientSteps == {"idle", "wait", "attach", "model", "permit", "solve", "release",
                "done", "dead"}

-----------------------------------------------------------------------------
(* The control plane.                                                      *)

In(S) == {l \in Leases : lease[l] \in S}

SetLeases(L, to) == lease' = [l \in Leases |-> IF l \in L THEN to ELSE lease[l]]

(* session_commands: what the host is told to do.  A lease that the tick   *)
(* took from a silent client is left to the recycling of a quarantined     *)
(* Desktop; grace is the bounded time siblings of a quarantine have left.  *)
session_commands(grace) ==
    [close |-> {l \in In({"releasing"}) : ~(row.quar /\ l \in expired)},
     drain |-> row.state \in {"draining", "unhealthy"},
     siblings |-> In(Live) # {},
     stop |-> /\ row.state \in {"draining", "unhealthy"} /\ row.quar
              /\ In(Live) = {} \/ grace]

(* The tick and the operator, as far as this Desktop is concerned.         *)
place(l) ==
    /\ lease[l] = "queued" /\ row.state = "ready" /\ ~row.silent
    /\ In({"releasing"}) = {}
    /\ SetLeases({l}, "offered")
    /\ UNCHANGED <<row, permit, expired, Native, host, client>>

drain_session ==
    /\ row.state = "ready"
    /\ row' = [row EXCEPT !.state = "draining"]
    /\ UNCHANGED <<lease, permit, expired, Native, host, client>>

(* No heartbeat arrives for a while: the host is gone or offline, or it    *)
(* does not send any because its Desktop hangs, or it is only slow.        *)
NoHeartbeat == host.pc \in {"exit", "offline"} \/ (desktop = "hung" /\ In(Live) = {})

go_silent ==
    /\ ~row.silent /\ row.state \in Counted
    /\ "silence" \in faults \/ NoHeartbeat
    /\ row' = [row EXCEPT !.silent = TRUE]
    /\ UNCHANGED <<lease, permit, expired, Native, host, client>>

expire_heartbeat ==
    /\ row.silent /\ row.state \in Counted \ {"unhealthy"}
    /\ row' = [row EXCEPT !.state = "unhealthy",
                          !.suspect = IF row.state = "ready" THEN "silence" ELSE ""]
    /\ UNCHANGED <<lease, permit, expired, Native, host, client>>

(* Releases that a silent host never acknowledged.                         *)
fail_unacknowledged ==
    /\ row.silent /\ row.state = "unhealthy" /\ In({"releasing"}) # {}
    /\ row' = [row EXCEPT !.quar = TRUE, !.suspect = ""]
    /\ SetLeases(In({"releasing"}), "failed")
    /\ UNCHANGED <<permit, expired, Native, host, client>>

(* A session that stayed silent for the whole grace is written off.        *)
reap_session ==
    /\ row.silent /\ row.state = "unhealthy"
    /\ row' = [row EXCEPT !.state = "reaped"]
    /\ SetLeases(In(Occupying), "failed")
    /\ UNCHANGED <<permit, expired, Native, host, client>>

(* The keepalive process beats until its client ends, is cut off for good  *)
(* or is refused.                                                          *)
NoKeepalive(l) == "silent_client" \in faults \/ client[l] \in {"dead", "done"}

(* A lease without heartbeats; an active one quarantines its Desktop.      *)
expire_lease(l) ==
    /\ NoKeepalive(l) /\ lease[l] \in Live \cup {"queued"}
    /\ SetLeases({l}, IF lease[l] \in {"queued", "offered"} THEN "expired" ELSE "releasing")
    /\ row' = IF /\ lease[l] = "active"
                 /\ \/ row.state = "ready"
                    \/ row.state = "unhealthy" /\ row.suspect = "silence" /\ ~row.quar
              THEN [row EXCEPT !.state = "draining", !.quar = TRUE, !.suspect = ""] ELSE row
    /\ expired' = expired \cup {l}
    /\ UNCHANGED <<permit, Native, host, client>>

-----------------------------------------------------------------------------
(* A call of the host.  It is applied or refused; if it was applied, its   *)
(* answer arrives or is lost, and then the host stays where it is and      *)
(* calls again (_control_plane_request).                                   *)

To(pc) == [host EXCEPT !.pc = pc]
Fetching == [host EXCEPT !.pc = "fetch", !.cmd = NoCommands, !.closed = {}, !.unclosed = {}]
Closing(why) == [host EXCEPT !.pc = "closing", !.why = why, !.cmd = NoCommands,
                             !.closed = {}, !.unclosed = {}]
Failing == Closing("error")

Answered(next) == host' = next \/ ("lost" \in faults /\ host' = host)

(* A request with stop_requested set, and one that is refused, raise.      *)
raise_in_call ==
    /\ \/ host.stop /\ host.pc \in {"register", "fetch", "beat", "refetch"}
       \/ host.pc = "register" /\ row.state \notin Counted
       \/ host.pc = "beat" /\ row.state \notin Counted \ {"starting"}
    /\ host' = Failing
    /\ UNCHANGED <<Server, Native, client>>

(* The outage outlasts the budget.  Before the claim the process ends; the *)
(* registration goes on unless the Desktop died; in the loop the host goes *)
(* offline.                                                                *)
control_plane_unavailable ==
    /\ "outage" \in faults /\ ~host.stop
    /\ \/ host.pc \in {"fetch", "beat", "refetch"} /\ host' = To("offline")
       \/ host.pc = "claim" /\ host' = To("exit")
       \/ host.pc = "register" /\ desktop = "gone" /\ host' = Failing
    /\ UNCHANGED <<Server, Native, client>>

(* Offline-safe: nothing native is called, the Desktop is kept.            *)
offline_proof ==
    /\ host.pc = "offline"
    /\ host' = IF desktop = "gone" THEN Failing ELSE Fetching
    /\ UNCHANGED <<Server, Native, client>>

claim_start ==
    /\ host.pc = "claim" /\ row.state = "starting"
    /\ Answered(To("start"))
    /\ UNCHANGED <<Server, Native, client>>

(* A launch.  A Desktop whose process is not provably this host's is       *)
(* refused, and what a failed launch left behind is killed on the same     *)
(* proof only.                                                             *)
create_desktop == desktop' = "up" /\ host' = [host EXCEPT !.pc = "register", !.proxy = TRUE]
cleanup_failed_desktop_launch(owned) == desktop' = IF owned THEN "none" ELSE "leaked"
launch_fails ==
    "start" \in faults /\ host' = Failing /\ \E owned \in BOOLEAN : cleanup_failed_desktop_launch(owned)

start_desktop ==
    /\ host.pc = "start"
    /\ create_desktop \/ launch_fails
    /\ UNCHANGED <<Server, open, holder, client>>

(* register: repeated with the same token until it is answered.            *)
register_session ==
    /\ host.pc = "register" /\ ~host.stop
    /\ row.state \in Counted
    /\ row' = IF row.registered THEN row
              ELSE [row EXCEPT !.state = "ready", !.registered = TRUE, !.silent = FALSE,
                               !.suspect = ""]
    /\ Answered([Fetching EXCEPT !.token = TRUE])
    /\ UNCHANGED <<lease, permit, expired, Native, client>>

fetch_commands ==
    /\ host.pc = "fetch" /\ ~host.stop
    /\ \E grace \in BOOLEAN :
          host' = [host EXCEPT !.pc = "prove", !.cmd = session_commands(grace)]
    /\ UNCHANGED <<Server, Native, client>>

(* The native probe: answered, deferred to whoever holds the lock, or      *)
(* failed; a probe that hangs keeps the lock and counts as failed again.   *)
native_probe == CASE holder \notin {"free", "probe"} -> "deferred"
                  [] holder \in {"free", "probe"} /\ desktop = "hung" -> "failed"
                  [] OTHER -> IF holder = "probe" THEN "failed" ELSE "ok"

(* _desktop_liveness_proof_for_commands.  Without siblings the probe       *)
(* enters the Desktop: under the lock, not at all when the lock is taken,  *)
(* and for ever when the Desktop hangs.                                    *)
prove_gone ==
    /\ host.pc = "prove" /\ desktop = "gone"
    /\ row' = IF row.state \in Counted
              THEN [row EXCEPT !.state = "unhealthy", !.quar = TRUE, !.suspect = ""]
              ELSE row
    /\ host' = Failing
    /\ UNCHANGED <<lease, permit, expired, Native, client>>

prove_alive ==
    /\ host.pc = "prove" /\ desktop \in {"up", "hung"}
    /\ host.cmd.siblings \/ native_probe \in {"ok", "deferred"}
    /\ host' = [To("beat") EXCEPT !.cmd = NoCommands]
    /\ UNCHANGED <<Server, Native, client>>

prove_suspect ==
    /\ host.pc = "prove" /\ desktop = "hung" /\ ~host.cmd.siblings
    /\ native_probe = "failed"
    /\ holder' = "probe"
    /\ row' = IF row.state \in {"ready", "unhealthy"}
              THEN [row EXCEPT !.state = "unhealthy", !.quar = FALSE, !.suspect = "native"]
              ELSE row
    /\ host' = Fetching
    /\ UNCHANGED <<lease, permit, expired, desktop, open, client>>

(* A heartbeat recovers a session that is unhealthy on suspicion only.     *)
Beaten == IF row.state = "unhealthy" /\ row.suspect # "" /\ ~row.quar
          THEN [row EXCEPT !.silent = FALSE, !.state = "ready", !.suspect = ""]
          ELSE [row EXCEPT !.silent = FALSE]

(* Mutant: the commands fetched before the heartbeat are good enough.      *)
heartbeat_session_without_refetch ==
    /\ host.pc = "beat" /\ ~host.stop
    /\ row.state \in Counted \ {"starting"}
    /\ row' = Beaten
    /\ host' = [host EXCEPT !.pc = "release", !.cmd = session_commands(FALSE)]
    /\ UNCHANGED <<lease, permit, expired, Native, client>>

heartbeat_session ==
    /\ host.pc = "beat" /\ ~host.stop
    /\ row.state \in Counted \ {"starting"}
    /\ row' = Beaten
    /\ Answered(To("refetch"))
    /\ UNCHANGED <<lease, permit, expired, Native, client>>

refetch_commands ==
    /\ host.pc = "refetch" /\ ~host.stop
    /\ \E grace \in BOOLEAN :
          host' = [host EXCEPT !.pc = "release", !.cmd = session_commands(grace)]
    /\ UNCHANGED <<Server, Native, client>>

(* The host closes one project after the other, and acknowledges each one  *)
(* before the next.                                                        *)
Turn(l) == host.pc = "release" /\ l \in host.cmd.close /\ host.closed \cup host.unclosed = {}

(* Mutant: a busy lock is taken for a closed project.                      *)
close_project_busy_is_closed(l) ==
    /\ Turn(l)
    /\ desktop = "up"
    /\ open' = IF holder = "free" THEN open \ {l} ELSE open
    /\ host' = [host EXCEPT !.closed = @ \cup {l}]
    /\ UNCHANGED <<Server, desktop, holder, client>>

(* _close_and_prepare_project_release with the lock free.                  *)
close_project(l) ==
    /\ Turn(l)
    /\ desktop = "up" /\ holder = "free"
    /\ open' = open \ {l}
    /\ host' = [host EXCEPT !.closed = @ \cup {l}]
    /\ UNCHANGED <<Server, desktop, holder, client>>

(* The lock stays busy: nothing else of these commands is carried out.     *)
defer_release ==
    /\ \E l \in Leases : Turn(l)
    /\ holder # "free"
    /\ host' = Fetching
    /\ UNCHANGED <<Server, Native, client>>

(* The native close fails, or the project is closed and its workspace      *)
(* cannot be prepared for the client.                                      *)
close_fails(l) ==
    /\ Turn(l) /\ holder = "free"
    /\ \/ desktop # "up" /\ UNCHANGED open
       \/ desktop = "up" /\ "close" \in faults /\ open' \in {open, open \ {l}}
    /\ host' = [host EXCEPT !.unclosed = {l}]
    /\ UNCHANGED <<Server, desktop, holder, client>>

(* release-complete, with success or without: applied once, repeated with  *)
(* the same result (a failed lease only under the same message), refused   *)
(* when the lease ended otherwise, or given up after the outage budget.  A *)
(* failure quarantines the Desktop.                                        *)
complete_release(l) ==
    /\ host.pc = "release" /\ l \in host.cmd.close \cap (host.closed \cup host.unclosed)
    /\ LET next == [host EXCEPT !.closed = {}, !.unclosed = {}, !.cmd.close = @ \ {l}]
           to == IF l \in host.closed THEN "released" ELSE "failed"
       IN  \/ /\ lease[l] = "releasing" /\ SetLeases({l}, to)
              /\ row' = IF to = "failed" /\ row.state \in Counted
                        THEN [row EXCEPT !.state = "unhealthy", !.quar = TRUE, !.suspect = ""]
                        ELSE row
              /\ Answered(next)
           \/ /\ UNCHANGED <<row, lease>>
              /\ \/ lease[l] = to /\ host' = next
                 \/ lease[l] \notin {"releasing", "released"} /\ host' = Failing
                 \/ "outage" \in faults /\ ~host.stop /\ host' = next
                 \/ host.stop /\ host' = Failing
    /\ UNCHANGED <<permit, expired, Native, client>>

(* Mutant: a drain is left to the global stop.                             *)
act_on_commands_without_drain ==
    /\ host.pc = "release" /\ host.cmd.close = {}
    /\ host' = CASE host.cmd.stop -> Closing("global")
                 [] OTHER -> IF host.stop THEN Closing("stop") ELSE Fetching
    /\ UNCHANGED <<Server, Native, client>>

(* The loop's body ends, all releases done: recycle, drain, stop or sleep.  *)
act_on_commands ==
    /\ host.pc = "release" /\ host.cmd.close = {}
    /\ host' = CASE host.cmd.stop -> Closing("global")
                 [] ~host.cmd.stop /\ host.cmd.drain /\ ~host.cmd.siblings
                        -> Closing("drain")
                 [] OTHER -> IF host.stop THEN Closing("stop")
                             ELSE Fetching
    /\ UNCHANGED <<Server, Native, client>>

Gone(d) == IF d = "leaked" THEN d ELSE "gone"

(* Mutant: whatever the kill did, the Desktop is taken for closed.         *)
bounded_close_desktop_unchecked ==
    /\ host.pc = "closing"
    /\ \/ host.proxy /\ desktop' \in {desktop, Gone(desktop)}
       \/ ~host.proxy /\ desktop' = desktop
    /\ open' = IF desktop' = "gone" THEN {} ELSE open
    /\ holder' = IF desktop' = "gone" /\ holder = "probe" THEN "free" ELSE holder
    /\ host' = [To("report") EXCEPT !.proxy = FALSE]
    /\ UNCHANGED <<Server, client>>

(* _bounded_close_desktop: the graceful close may hang or wait for the     *)
(* lock, then the owned process is killed; only a process that is seen     *)
(* gone counts as closed.  Without a Desktop object there is no process to *)
(* look at, and all depends on the graceful attempt itself.                *)
bounded_close_desktop ==
    /\ host.pc = "closing"
    /\ \/ /\ host.proxy /\ desktop' = Gone(desktop)
          /\ host' = [To("report") EXCEPT !.proxy = FALSE]
       \/ /\ "stuck" \in faults /\ host.proxy /\ desktop # "gone" /\ UNCHANGED desktop
          /\ host' = [To("exit") EXCEPT !.proxy = FALSE]
       \/ ~host.proxy /\ UNCHANGED desktop /\ host' = To("report")
       \/ "stuck" \in faults /\ ~host.proxy /\ UNCHANGED desktop /\ host' = To("exit")
    /\ open' = IF desktop' = "gone" THEN {} ELSE open
    /\ holder' = IF desktop' = "gone" /\ holder = "probe" THEN "free" ELSE holder
    /\ UNCHANGED <<Server, client>>

(* _report_closed and start-failed are posted once.  A failure queues the  *)
(* leases of the Desktop again; a success is refused while there are any.  *)
report_closed ==
    /\ host.pc = "report"
    /\ host' = To("exit")
    /\ \/ "lost" \in faults /\ UNCHANGED Server
       \/ host.token /\ row.state \notin Counted /\ UNCHANGED Server
       \/ ~host.token /\ row.state # "starting" /\ UNCHANGED Server
       \/ host.why = "drain" /\ In(Occupying) # {} /\ UNCHANGED Server
       \/ /\ host.token /\ row.state \in Counted
          /\ host.why = "drain" => In(Occupying) = {}
          /\ row' = [row EXCEPT !.state = IF host.why = "drain" THEN "closed" ELSE "failed"]
          /\ SetLeases(In(Occupying), "queued")
          /\ permit' = permit \ In(Occupying)
          /\ UNCHANGED expired
       \/ /\ ~host.token /\ row.state = "starting"
          /\ row' = [row EXCEPT !.state = "start_failed"]
          /\ UNCHANGED <<lease, permit, expired>>
    /\ UNCHANGED <<Native, client>>

request_stop ==
    /\ "stop" \in faults /\ ~host.stop /\ host.pc \notin {"closing", "report", "exit"}
    /\ host' = [host EXCEPT !.stop = TRUE]
    /\ UNCHANGED <<Server, Native, client>>

(* The Desktop hangs or crashes; the host process is killed.               *)
desktop_fails ==
    /\ "desktop" \in faults /\ desktop \in {"up", "hung"}
    /\ desktop' \in {"hung", "gone"} \ {desktop}
    /\ open' = IF desktop' = "gone" THEN {} ELSE open
    /\ holder' = IF desktop' = "gone" /\ holder = "probe" THEN "free" ELSE holder
    /\ UNCHANGED <<Server, host, client>>

host_killed ==
    /\ "killed" \in faults /\ host.pc # "exit"
    /\ host' = To("exit")
    /\ holder' = IF holder = "probe" THEN "free" ELSE holder
    /\ UNCHANGED <<Server, desktop, open, client>>

-----------------------------------------------------------------------------
(* A client.  At(l, p) is where it goes on; a lost answer leaves it where  *)
(* it is (_call_with_retry), a refusal or a wrong state raises, and an     *)
(* exception ends in release or cancel.                                    *)

At(l, p) == client' = [client EXCEPT ![l] = p]
AnsweredTo(l, p) == At(l, p) \/ ("lost" \in faults /\ UNCHANGED client)

Freed(l) == IF holder = l THEN "free" ELSE holder

request_with_retry(l, p) == AnsweredTo(l, p)

(* acquire_project_lease: the request key makes a repeated create a no-op. *)
acquire_project_lease(l) ==
    /\ client[l] = "idle"
    /\ SetLeases({l}, IF lease[l] = "none" THEN "queued" ELSE lease[l])
    /\ request_with_retry(l, "wait")
    /\ UNCHANGED <<row, permit, expired, Native, host>>

(* wait_until_leased: one poll, and the accept of an offer it sees.        *)
accept_lease(l) ==
    /\ client[l] = "wait" /\ lease[l] = "offered"
    /\ LET ok == row.state = "ready" /\ ~row.silent /\ In({"releasing"}) = {}
       IN  /\ SetLeases({l}, IF ok THEN "attaching" ELSE "queued")
           /\ IF ok THEN AnsweredTo(l, "attach") ELSE UNCHANGED client
    /\ UNCHANGED <<row, permit, expired, Native, host>>

poll_admission(l) ==
    /\ client[l] = "wait"
    /\ \/ lease[l] \in {"attaching", "active"} /\ At(l, "attach")
       \/ lease[l] \in Ended \cup {"releasing"} /\ At(l, "done")
       \/ lease[l] \notin Ended /\ At(l, "release")      \* deadline or error: cancel
    /\ UNCHANGED <<Server, Native, host>>

(* connect_desktop: the endpoint is probed, then the wrapper attaches and  *)
(* opens its project inside one automation transaction.                    *)
connect_desktop(l) ==
    /\ client[l] = "attach"
    /\ desktop = "up" /\ holder = "free"
    /\ holder' = l /\ open' = open \cup {l}
    /\ At(l, "model")
    /\ UNCHANGED <<Server, desktop, host>>

attach_fails(l) ==
    /\ client[l] = "attach"
    /\ At(l, "release")
    /\ UNCHANGED <<Server, Native, host>>

(* activate: the transaction is over; the state must be attaching.         *)
activate_lease(l) ==
    /\ client[l] = "model"
    /\ \/ /\ lease[l] = "attaching" /\ SetLeases({l}, "active")
          /\ \/ At(l, "permit") /\ holder' = Freed(l)
             \/ "lost" \in faults /\ UNCHANGED <<client, holder>>
       \/ lease[l] = "active" /\ At(l, "permit") /\ holder' = Freed(l) /\ UNCHANGED lease
       \/ lease[l] \notin {"attaching", "active"} /\ At(l, "release") /\ holder' = Freed(l)
          /\ UNCHANGED lease
    /\ UNCHANGED <<row, permit, expired, desktop, open, host>>

(* wait_for_solve_permit: one pipeline at a time.                          *)
solve_permit(l) ==
    /\ client[l] = "permit"
    /\ \/ /\ lease[l] = "active" /\ row.state = "ready"
          /\ \A m \in permit \ {l} : lease[m] \notin Occupying
          /\ permit' = permit \cup {l}
          /\ AnsweredTo(l, "solve")
       \/ l \in permit /\ At(l, "solve") /\ UNCHANGED permit
       \/ l \notin permit /\ At(l, "release") /\ UNCHANGED permit
    /\ UNCHANGED <<row, lease, expired, Native, host>>

(* The solve ends or fails, wait_for_native_pipeline_barrier, results.     *)
solve_ends(l) ==
    /\ client[l] = "solve"
    /\ At(l, "release")
    /\ UNCHANGED <<Server, Native, host>>

(* release, cancel, report_fault of a project-local kind.                  *)
cancel_lease(l) ==
    /\ client[l] = "release"
    /\ SetLeases({l}, CASE lease[l] \in {"queued", "offered"} -> "cancelled"
                        [] lease[l] \in {"attaching", "active"} -> "releasing"
                        [] OTHER -> lease[l])
    /\ AnsweredTo(l, "done")
    /\ UNCHANGED <<row, permit, expired, Native, host>>

(* The client process ends; the kernel gives its lock back.                *)
client_dies(l) ==
    /\ "client_dies" \in faults /\ client[l] \notin {"idle", "done", "dead"}
    /\ At(l, "dead")
    /\ holder' = Freed(l)
    /\ UNCHANGED <<Server, desktop, open, host>>

-----------------------------------------------------------------------------
Init ==
    /\ faults \in FaultMixes
    /\ row = [state |-> "starting", quar |-> FALSE, silent |-> FALSE,
              suspect |-> "", registered |-> FALSE]
    /\ lease = [l \in Leases |-> "none"]
    /\ permit = {} /\ expired = {} /\ open = {}
    /\ desktop = "none" /\ holder = "free"
    /\ host = [pc |-> "claim", cmd |-> NoCommands, closed |-> {}, unclosed |-> {}, proxy |-> FALSE,
               token |-> FALSE, stop |-> FALSE, why |-> ""]
    /\ client = [l \in Leases |-> "idle"]

HostLoop ==
    \/ claim_start \/ start_desktop \/ register_session
    \/ fetch_commands \/ prove_gone \/ prove_alive \/ prove_suspect
    \/ heartbeat_session \/ refetch_commands
    \/ \E l \in Leases : close_project(l) \/ close_fails(l) \/ complete_release(l)
    \/ defer_release \/ act_on_commands
    \/ bounded_close_desktop \/ report_closed \/ offline_proof \/ raise_in_call

ClientStep(l) ==
    \/ acquire_project_lease(l) \/ accept_lease(l) \/ poll_admission(l)
    \/ connect_desktop(l) \/ attach_fails(l) \/ activate_lease(l) \/ solve_permit(l)
    \/ solve_ends(l) \/ cancel_lease(l)

Tick ==
    \/ expire_heartbeat \/ fail_unacknowledged \/ reap_session
    \/ \E l \in Leases : expire_lease(l)

Environment ==
    \/ control_plane_unavailable \/ request_stop \/ desktop_fails \/ host_killed
    \/ drain_session \/ go_silent
    \/ \E l \in Leases : place(l) \/ client_dies(l)

Next == /\ UNCHANGED faults
        /\ HostLoop \/ Tick \/ Environment \/ \E l \in Leases : ClientStep(l)

Spec == Init /\ [][Next]_vars

(* The host keeps its loop until it exits and a repeated call is answered  *)
(* at last, clients go on or die, the tick runs, and outages of the        *)
(* control plane come to an end.                                           *)
FairSpec ==
    /\ Spec
    /\ WF_vars(HostLoop /\ host' # host /\ UNCHANGED faults)
    /\ \A l \in Leases :
          /\ WF_vars(ClientStep(l) /\ UNCHANGED faults)
          /\ WF_vars(client[l] \in {"dead", "done"} /\ expire_lease(l) /\ UNCHANGED faults)
    /\ WF_vars(NoHeartbeat /\ go_silent /\ UNCHANGED faults)
    /\ WF_vars((expire_heartbeat \/ fail_unacknowledged) /\ UNCHANGED faults)
    /\ WF_vars(reap_session /\ UNCHANGED faults)
    /\ <>[][~control_plane_unavailable]_vars

-----------------------------------------------------------------------------
(* Properties.                                                             *)

(* The shape of the state, for every fault the instance can meet.          *)
TypeOK ==
    /\ row \in [state : Counted \cup {"closed", "failed", "start_failed", "reaped"},
                quar : BOOLEAN, silent : BOOLEAN, suspect : {"", "silence", "native"},
                registered : BOOLEAN]
    /\ lease \in [Leases -> {"none", "queued", "releasing"} \cup Live \cup Ended]
    /\ permit \subseteq Leases /\ expired \subseteq Leases /\ open \subseteq Leases
    /\ desktop \in {"none", "up", "hung", "gone", "leaked"}
    /\ holder \in {"free", "probe"} \cup Leases
    /\ host \in [pc : HostSteps, cmd : Commands, closed : SUBSET Leases, unclosed : SUBSET Leases,
                 proxy : BOOLEAN, token : BOOLEAN, stop : BOOLEAN, why : {"", "global", "drain", "error", "stop"}]
    /\ client \in [Leases -> ClientSteps]

(* A client deletes its workspace when its lease is released.  However     *)
(* often the close, the acknowledgement and the release are repeated, and  *)
(* whoever holds the automation lock meanwhile, its project is closed by   *)
(* then; a client whose heartbeats were cut off may still attach later.    *)
ReleasedIsClosed == \A l \in open : lease[l] = "released" => l \in expired

(* What _bounded_close_desktop promises: a session that its host reported  *)
(* closed or failed has no Desktop process any more, however the graceful  *)
(* close and the kill went; the pool counts its licenses as returned.      *)
ReportedIsGone == row.state \in {"closed", "failed"} => desktop = "gone"

(* "A second command fetch after the heartbeat is required": the host      *)
(* never takes down a Desktop that serves a solving client with an active  *)
(* lease, unless it is quarantined, was told to stop, or lost its session. *)
HealthySolveSurvives ==
    [][host.pc # "closing" /\ host'.pc = "closing" =>
         \A l \in Leases : client[l] = "solve" /\ lease[l] = "active" =>
            \/ row.quar \/ host.stop \/ desktop # "up" \/ row.state \notin Counted]_vars

(* A session that drains leaves the pool's books: its host closes it once  *)
(* its clients have gone, or the tick writes it off, whatever is lost,     *)
(* hangs or dies in between; or a suspicion that came up meanwhile is      *)
(* cleared by a heartbeat, which takes the drain request back with it.     *)
DrainEnds == row.state = "draining" ~> row.state \notin Counted \/ row.state = "ready"
=============================================================================
