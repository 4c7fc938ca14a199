--------------------------- MODULE AedtNodeProofs ---------------------------
(***************************************************************************)
(* For any number of clients and any mix of faults: a released lease has   *)
(* its project closed, a session its host reported has no Desktop, and a   *)
(* healthy Desktop is not taken down under a solve.                        *)
(*                                                                         *)
(* Released leases.  The host closes what it was told to close, and the    *)
(* lease of a client it was told about is on its way out (Told): no client *)
(* that was not cut off attaches again (Leaving), so what was closed stays *)
(* closed until it is acknowledged (ClosedFirst).                          *)
(*                                                                         *)
(* Reported sessions.  A host that has registered owns a Desktop, and it   *)
(* gives its proxy away only when the process is gone or it gives up       *)
(* (Owned).                                                                *)
(*                                                                         *)
(* Solves.  The host closes on what its second fetch told it, and that is  *)
(* still true when it acts on it (Current).                                *)
(***************************************************************************)
EXTENDS AedtNode, TLAPS

Hosts == [pc : HostSteps, cmd : Commands, closed : SUBSET Leases, unclosed : SUBSET Leases,
          proxy : BOOLEAN, token : BOOLEAN, stop : BOOLEAN, why : {"", "global", "drain", "error", "stop"}]
LeaseStates == {"none", "queued", "releasing"} \cup Live \cup Ended

-----------------------------------------------------------------------------
(* Types.                                                                  *)

LEMMA NoCommandsType == NoCommands \in Commands
  BY DEF NoCommands, Commands

LEMMA CommandsType == ASSUME NEW grace \in BOOLEAN PROVE session_commands(grace) \in Commands
  BY DEF session_commands, Commands, In

LEMMA HostType ==
    ASSUME host \in Hosts
    PROVE  /\ \A pc \in HostSteps : To(pc) \in Hosts
           /\ Fetching \in Hosts /\ Failing \in Hosts
           /\ \A why \in {"global", "drain", "error", "stop"} : Closing(why) \in Hosts
  BY NoCommandsType DEF Hosts, To, Fetching, Failing, Closing, HostSteps

LEMMA LeasesType ==
    ASSUME lease \in [Leases -> LeaseStates], NEW L, NEW to \in LeaseStates, SetLeases(L, to)
    PROVE  lease' \in [Leases -> LeaseStates]
  BY DEF SetLeases

Rows == [state : Counted \cup {"closed", "failed", "start_failed", "reaped"},
         quar : BOOLEAN, silent : BOOLEAN, suspect : {"", "silence", "native"},
         registered : BOOLEAN]

(* TypeOK, in three parts.                                                 *)
ServerType ==
    /\ row \in Rows /\ lease \in [Leases -> LeaseStates]
    /\ permit \subseteq Leases /\ expired \subseteq Leases
NativeType ==
    /\ desktop \in {"none", "up", "hung", "gone", "leaked"} /\ open \subseteq Leases
    /\ holder \in {"free", "probe"} \cup Leases
Types == ServerType /\ NativeType /\ host \in Hosts /\ client \in [Leases -> ClientSteps]

LEMMA TypesInit == Init => Types
  <1> SUFFICES ASSUME Init PROVE Types
      OBVIOUS
  <1>1. ServerType
      BY DEF Init, ServerType, Rows, LeaseStates, Counted
  <1>2. NativeType
      BY DEF Init, NativeType
  <1>3. host \in Hosts
      <2>1. {} \in SUBSET Leases /\ "claim" \in HostSteps
          BY DEF HostSteps
      <2> QED
          BY <2>1, NoCommandsType DEF Init, Hosts
  <1>4. client \in [Leases -> ClientSteps]
      BY DEF Init, ClientSteps
  <1> QED
      BY <1>1, <1>2, <1>3, <1>4 DEF Types

LEMMA TypesServer ==
    ASSUME Types,
           \/ expire_heartbeat \/ fail_unacknowledged \/ reap_session
           \/ drain_session \/ go_silent
           \/ \E l \in Leases : expire_lease(l) \/ place(l)
    PROVE  Types'
  <1> USE DEF Types, ServerType, NativeType, Native
  <1>1. CASE expire_heartbeat
      BY <1>1 DEF expire_heartbeat, Rows, Counted
  <1>2. CASE fail_unacknowledged
      <2>1. row' \in Rows
          BY <1>2 DEF fail_unacknowledged, Rows
      <2>2. lease' \in [Leases -> LeaseStates]
          BY <1>2, LeasesType DEF fail_unacknowledged, LeaseStates, Ended
      <2> QED
          BY <1>2, <2>1, <2>2 DEF fail_unacknowledged
  <1>3. CASE reap_session
      <2>1. row' \in Rows
          BY <1>3 DEF reap_session, Rows
      <2>2. lease' \in [Leases -> LeaseStates]
          BY <1>3, LeasesType DEF reap_session, LeaseStates, Ended
      <2> QED
          BY <1>3, <2>1, <2>2 DEF reap_session
  <1>4. CASE drain_session
      BY <1>4 DEF drain_session, Rows, Counted
  <1>5. CASE go_silent
      BY <1>5 DEF go_silent, Rows
  <1>6. ASSUME NEW l \in Leases, expire_lease(l) PROVE Types'
      <2>1. row' \in Rows
          BY <1>6 DEF expire_lease, Rows, Counted
      <2>2. lease' \in [Leases -> LeaseStates]
          BY <1>6, LeasesType DEF expire_lease, LeaseStates, Ended
      <2> QED
          BY <1>6, <2>1, <2>2 DEF expire_lease
  <1>7. ASSUME NEW l \in Leases, place(l) PROVE Types'
      BY <1>7, LeasesType DEF place, LeaseStates, Live
  <1> QED
      BY <1>1, <1>2, <1>3, <1>4, <1>5, <1>6, <1>7

(* The calls and the local steps of the host that leave the rows alone, or *)
(* change the session row only.                                            *)
LEMMA TypesHostCalls ==
    ASSUME Types,
           \/ claim_start \/ start_desktop \/ register_session \/ fetch_commands
           \/ prove_gone \/ prove_alive \/ prove_suspect \/ heartbeat_session
           \/ refetch_commands \/ offline_proof \/ raise_in_call
           \/ control_plane_unavailable \/ request_stop
    PROVE  Types'
  <1> USE DEF Types, Native, Server, Answered
  <1>0. /\ \A pc \in HostSteps : To(pc) \in Hosts
        /\ Fetching \in Hosts /\ Failing \in Hosts
      BY HostType
  <1>1. CASE claim_start
      BY <1>0, <1>1 DEF claim_start, HostSteps, ServerType, NativeType
  <1>2. CASE start_desktop
      <2>0. [host EXCEPT !.pc = "register", !.proxy = TRUE] \in Hosts
          BY DEF Hosts, HostSteps
      <2>1. host' \in Hosts
          BY <1>0, <1>2, <2>0 DEF start_desktop, create_desktop, launch_fails
      <2>2. desktop' \in {"none", "up", "hung", "gone", "leaked"}
          BY <1>2 DEF start_desktop, create_desktop, launch_fails, cleanup_failed_desktop_launch
      <2> QED
          BY <1>2, <2>1, <2>2 DEF start_desktop, ServerType, NativeType
  <1>3. CASE register_session
      <2>1. [Fetching EXCEPT !.token = TRUE] \in Hosts
          BY <1>0 DEF Hosts
      <2>2. host' \in Hosts
          BY <1>3, <2>1 DEF register_session
      <2>3. row' \in Rows
          BY <1>3 DEF register_session, ServerType, Rows, Counted
      <2> QED
          BY <1>3, <2>2, <2>3 DEF register_session, ServerType, NativeType
  <1>4. CASE fetch_commands
      <2>1. host' \in Hosts
          BY <1>4, CommandsType DEF fetch_commands, Hosts, HostSteps
      <2> QED
          BY <1>4, <2>1 DEF fetch_commands, ServerType, NativeType
  <1>5. CASE prove_gone
      <2>1. row' \in Rows
          BY <1>5 DEF prove_gone, ServerType, Rows, Counted
      <2> QED
          BY <1>0, <1>5, <2>1 DEF prove_gone, ServerType, NativeType
  <1>6. CASE prove_alive
      <2>1. host' \in Hosts
          <3>1. To("beat") \in Hosts
              BY <1>0 DEF HostSteps
          <3> QED
              BY <1>6, <3>1, NoCommandsType DEF prove_alive, Hosts
      <2> QED
          BY <1>6, <2>1 DEF prove_alive, ServerType, NativeType
  <1>7. CASE prove_suspect
      <2>1. row' \in Rows
          BY <1>7 DEF prove_suspect, ServerType, Rows, Counted
      <2> QED
          BY <1>0, <1>7, <2>1 DEF prove_suspect, ServerType, NativeType
  <1>8. CASE heartbeat_session
      <2>1. row' \in Rows
          BY <1>8 DEF heartbeat_session, Beaten, ServerType, Rows, Counted
      <2> QED
          BY <1>0, <1>8, <2>1 DEF heartbeat_session, HostSteps, ServerType, NativeType
  <1>9. CASE refetch_commands
      <2>1. host' \in Hosts
          BY <1>9, CommandsType DEF refetch_commands, Hosts, HostSteps
      <2> QED
          BY <1>9, <2>1 DEF refetch_commands, ServerType, NativeType
  <1>10. CASE offline_proof
      BY <1>0, <1>10 DEF offline_proof, ServerType, NativeType
  <1>11. CASE raise_in_call
      BY <1>0, <1>11 DEF raise_in_call, ServerType, NativeType
  <1>12. CASE control_plane_unavailable
      BY <1>0, <1>12 DEF control_plane_unavailable, HostSteps, ServerType, NativeType
  <1>13. CASE request_stop
      <2>1. host' \in Hosts
          BY <1>13 DEF request_stop, Hosts
      <2> QED
          BY <1>13, <2>1 DEF request_stop, ServerType, NativeType
  <1> QED
      BY <1>1, <1>2, <1>3, <1>4, <1>5, <1>6, <1>7, <1>8, <1>9, <1>10, <1>11, <1>12, <1>13

(* Releases, the end of the Desktop, and the end of the host.              *)
LEMMA TypesHostCloses ==
    ASSUME Types,
           \/ \E l \in Leases : close_project(l) \/ close_fails(l) \/ complete_release(l)
           \/ defer_release \/ act_on_commands \/ bounded_close_desktop \/ report_closed
           \/ desktop_fails \/ host_killed
    PROVE  Types'
  <1> USE DEF Types, Native, Server, Answered
  <1>0. /\ \A pc \in HostSteps : To(pc) \in Hosts
        /\ Fetching \in Hosts /\ Failing \in Hosts
        /\ \A why \in {"global", "drain", "error", "stop"} : Closing(why) \in Hosts
      BY HostType
  <1>1. ASSUME NEW l \in Leases, close_project(l) PROVE Types'
      <2>1. host' \in Hosts
          BY <1>1 DEF close_project, Turn, Hosts
      <2> QED
          BY <1>1, <2>1 DEF close_project, ServerType, NativeType
  <1>2. ASSUME NEW l \in Leases, close_fails(l) PROVE Types'
      <2>1. host' \in Hosts
          BY <1>2 DEF close_fails, Turn, Hosts
      <2>2. open' \subseteq open
          BY <1>2 DEF close_fails
      <2> QED
          BY <1>2, <2>1, <2>2 DEF close_fails, ServerType, NativeType
  <1>3. ASSUME NEW l \in Leases, complete_release(l) PROVE Types'
      <2>1. [host EXCEPT !.closed = {}, !.unclosed = {}, !.cmd.close = @ \ {l}] \in Hosts
          BY DEF Hosts, Commands
      <2>2. host' \in Hosts
          BY <1>0, <1>3, <2>1 DEF complete_release
      <2>3. lease' \in [Leases -> LeaseStates]
          BY <1>3, LeasesType DEF complete_release, ServerType, LeaseStates, Ended
      <2>4. row' \in Rows
          BY <1>3 DEF complete_release, ServerType, Rows, Counted
      <2> QED
          BY <1>3, <2>2, <2>3, <2>4 DEF complete_release, ServerType, NativeType
  <1>4. CASE defer_release
      BY <1>0, <1>4 DEF defer_release, ServerType, NativeType
  <1>5. CASE act_on_commands
      <2>1. host' \in Hosts
          BY <1>0, <1>5 DEF act_on_commands
      <2> QED
          BY <1>5, <2>1 DEF act_on_commands, ServerType, NativeType
  <1>6. CASE bounded_close_desktop
      <2>1. To("report") \in Hosts /\ To("exit") \in Hosts
          BY <1>0 DEF HostSteps
      <2>2. host' \in Hosts
          BY <1>6, <2>1 DEF bounded_close_desktop, Hosts
      <2>3. NativeType'
          BY <1>6 DEF bounded_close_desktop, Gone, NativeType
      <2> QED
          BY <1>6, <2>2, <2>3 DEF bounded_close_desktop, ServerType
  <1>7. CASE report_closed
      <2>1. row' \in Rows
          BY <1>7 DEF report_closed, ServerType, Rows
      <2>2. lease' \in [Leases -> LeaseStates]
          BY <1>7, LeasesType DEF report_closed, ServerType, LeaseStates
      <2>3. permit' \subseteq Leases /\ expired' \subseteq Leases
          BY <1>7 DEF report_closed, ServerType
      <2> QED
          BY <1>0, <1>7, <2>1, <2>2, <2>3 DEF report_closed, HostSteps, ServerType, NativeType
  <1>8. CASE desktop_fails
      BY <1>8 DEF desktop_fails, ServerType, NativeType
  <1>9. CASE host_killed
      BY <1>0, <1>9 DEF host_killed, HostSteps, ServerType, NativeType
  <1> QED
      BY <1>1, <1>2, <1>3, <1>4, <1>5, <1>6, <1>7, <1>8, <1>9

LEMMA TypesClient ==
    ASSUME Types, NEW l \in Leases, ClientStep(l) \/ client_dies(l)
    PROVE  Types'
  <1> USE DEF Types, Native, Server, At, AnsweredTo, request_with_retry, Freed, ServerType,
              NativeType
  <1>0. "queued" \in LeaseStates /\ "attaching" \in LeaseStates /\ "active" \in LeaseStates
        /\ "cancelled" \in LeaseStates /\ "releasing" \in LeaseStates
      BY DEF LeaseStates, Live, Ended
  <1>1. CASE acquire_project_lease(l)
      <2>1. lease' \in [Leases -> LeaseStates]
          BY <1>0, <1>1, LeasesType DEF acquire_project_lease
      <2> QED
          BY <1>1, <2>1 DEF acquire_project_lease, ClientSteps
  <1>2. CASE accept_lease(l)
      <2>1. lease' \in [Leases -> LeaseStates]
          BY <1>0, <1>2, LeasesType DEF accept_lease
      <2> QED
          BY <1>2, <2>1 DEF accept_lease, ClientSteps
  <1>3. CASE poll_admission(l)
      BY <1>3 DEF poll_admission, ClientSteps
  <1>4. CASE connect_desktop(l)
      BY <1>4 DEF connect_desktop, ClientSteps
  <1>5. CASE attach_fails(l)
      BY <1>5 DEF attach_fails, ClientSteps
  <1>6. CASE activate_lease(l)
      <2>1. lease' \in [Leases -> LeaseStates]
          BY <1>0, <1>6, LeasesType DEF activate_lease
      <2> QED
          BY <1>6, <2>1 DEF activate_lease, ClientSteps
  <1>7. CASE solve_permit(l)
      BY <1>7 DEF solve_permit, ClientSteps
  <1>8. CASE solve_ends(l)
      BY <1>8 DEF solve_ends, ClientSteps
  <1>9. CASE cancel_lease(l)
      <2>1. lease[l] \in LeaseStates
          OBVIOUS
      <2>2. lease' \in [Leases -> LeaseStates]
          BY <1>0, <1>9, <2>1, LeasesType DEF cancel_lease
      <2> QED
          BY <1>9, <2>2 DEF cancel_lease, ClientSteps
  <1>10. CASE client_dies(l)
      BY <1>10 DEF client_dies, ClientSteps
  <1> QED
      BY <1>1, <1>2, <1>3, <1>4, <1>5, <1>6, <1>7, <1>8, <1>9, <1>10 DEF ClientStep

LEMMA TypesNext == Types /\ [Next]_vars => Types'
  <1> SUFFICES ASSUME Types, [Next]_vars PROVE Types'
      OBVIOUS
  <1>1. CASE UNCHANGED vars
      BY <1>1 DEF vars, Types, ServerType, NativeType
  <1>2. CASE HostLoop
      BY <1>2, TypesHostCalls, TypesHostCloses DEF HostLoop
  <1>3. CASE Tick
      BY <1>3, TypesServer DEF Tick
  <1>4. CASE Environment
      BY <1>4, TypesServer, TypesHostCalls, TypesHostCloses, TypesClient DEF Environment
  <1>5. ASSUME NEW l \in Leases, ClientStep(l) PROVE Types'
      BY <1>5, TypesClient
  <1> QED
      BY <1>1, <1>2, <1>3, <1>4, <1>5 DEF Next

-----------------------------------------------------------------------------
(* The fields of the records the host goes on with.                        *)
LEMMA HostFields ==
    ASSUME host \in Hosts
    PROVE  /\ \A pc \in HostSteps :
                 /\ To(pc).pc = pc /\ To(pc).token = host.token /\ To(pc).proxy = host.proxy
                 /\ To(pc).cmd = host.cmd /\ To(pc).closed = host.closed
           /\ /\ Fetching.pc = "fetch" /\ Fetching.token = host.token
              /\ Fetching.proxy = host.proxy
              /\ Fetching.cmd = NoCommands /\ Fetching.closed = {}
           /\ \A why \in {"global", "drain", "error", "stop"} :
                 /\ Closing(why).pc = "closing" /\ Closing(why).token = host.token
                 /\ Closing(why).proxy = host.proxy
                 /\ Closing(why).cmd = NoCommands /\ Closing(why).closed = {}
  BY DEF Hosts, To, Fetching, Closing

-----------------------------------------------------------------------------
(* Reported sessions.                                                      *)

Owned ==
    /\ host.pc \in {"claim", "start"} => ~host.token
    /\ host.pc = "register" \/ host.token =>
          /\ desktop \in {"up", "hung", "gone"}
          /\ host.pc \notin {"report", "exit"} => host.proxy
    /\ host.pc = "report" /\ host.token => desktop = "gone"
    /\ row.state \in {"closed", "failed"} => desktop = "gone" /\ host.pc = "exit"

Over == {"closed", "failed"}

(* The host goes on in its loop, or goes to close, or exits; the Desktop   *)
(* is as it was, and nobody reports.                                       *)
LEMMA OwnedInLoop ==
    ASSUME Owned, host'.token = host.token, host'.proxy = host.proxy, desktop' = desktop,
           host.pc \notin {"claim", "start", "report", "exit"},
           host'.pc \notin {"claim", "start", "register", "report"},
           row'.state \in Over => row.state \in Over
    PROVE  Owned'
  BY DEF Owned, Over

LEMMA OwnedAtRest ==
    ASSUME Owned, UNCHANGED <<host, desktop>>, row'.state \in Over => row.state \in Over
    PROVE  Owned'
  BY DEF Owned, Over

LEMMA OwnedServer ==
    ASSUME Types, Owned,
           \/ expire_heartbeat \/ fail_unacknowledged \/ reap_session
           \/ drain_session \/ go_silent
           \/ \E l \in Leases : expire_lease(l) \/ place(l)
    PROVE  Owned'
  <1>1. UNCHANGED <<host, desktop>>
      BY DEF expire_heartbeat, fail_unacknowledged, reap_session, drain_session, go_silent,
             expire_lease, place, Native
  <1>2. row'.state \in Over => row.state \in Over
      BY DEF expire_heartbeat, fail_unacknowledged, reap_session, drain_session, go_silent,
             expire_lease, place, Types, ServerType, Rows, Over
  <1> QED
      BY <1>1, <1>2, OwnedAtRest

LEMMA OwnedClient ==
    ASSUME Owned, NEW l \in Leases, ClientStep(l) \/ client_dies(l)
    PROVE  Owned'
  <1>1. UNCHANGED <<host, desktop, row>>
      BY DEF ClientStep, client_dies, acquire_project_lease, accept_lease, poll_admission,
             connect_desktop, attach_fails, activate_lease, solve_permit, solve_ends,
             cancel_lease, Native, Server
  <1> QED
      BY <1>1, OwnedAtRest

LEMMA OwnedHostCalls ==
    ASSUME Types, Owned,
           \/ claim_start \/ start_desktop \/ register_session \/ fetch_commands
           \/ prove_gone \/ prove_alive \/ prove_suspect \/ heartbeat_session
           \/ refetch_commands \/ offline_proof \/ raise_in_call
           \/ control_plane_unavailable \/ request_stop
    PROVE  Owned'
  <1> USE DEF Native, Server, Answered, Failing
  <1>0. host \in Hosts /\ row \in Rows
      BY DEF Types, ServerType
  <1>1. CASE claim_start
      BY <1>0, <1>1, HostFields DEF claim_start, Owned, HostSteps
  <1>2. CASE start_desktop
      <2>1. CASE create_desktop
          <3>1. host'.pc = "register" /\ host'.proxy /\ host'.token = host.token
              BY <1>0, <2>1 DEF create_desktop, Hosts
          <3> QED
              BY <1>2, <2>1, <3>1 DEF start_desktop, create_desktop, Owned
      <2>2. CASE launch_fails
          BY <1>0, <1>2, <2>2, HostFields DEF start_desktop, launch_fails, Owned
      <2> QED
          BY <1>2, <2>1, <2>2 DEF start_desktop
  <1>3. CASE register_session
      <2>1. CASE host' = host
          BY <1>0, <1>3, <2>1 DEF register_session, Owned, Rows, Counted
      <2>2. CASE host' = [Fetching EXCEPT !.token = TRUE]
          <3>1. host'.pc = "fetch" /\ host'.token /\ host'.proxy = host.proxy
              BY <1>0, <2>2, HostFields, HostType DEF Hosts
          <3>2. row'.state \in Counted
              BY <1>0, <1>3 DEF register_session, Rows, Counted
          <3> QED
              BY <1>3, <3>1, <3>2 DEF register_session, Owned, Counted
      <2> QED
          BY <1>3, <2>1, <2>2 DEF register_session
  <1>4. CASE fetch_commands
      <2>1. host'.pc = "prove" /\ host'.token = host.token /\ host'.proxy = host.proxy
          BY <1>0, <1>4 DEF fetch_commands, Hosts
      <2> QED
          BY <1>4, <2>1, OwnedInLoop DEF fetch_commands
  <1>5. CASE prove_gone
      <2>1. row'.state \in Over => row.state \in Over
          BY <1>0, <1>5 DEF prove_gone, Rows, Over
      <2> QED
          BY <1>0, <1>5, <2>1, HostFields, OwnedInLoop DEF prove_gone
  <1>6. CASE prove_alive
      <2>1. host'.pc = "beat" /\ host'.token = host.token /\ host'.proxy = host.proxy
          BY <1>0, <1>6 DEF prove_alive, To, Hosts
      <2> QED
          BY <1>6, <2>1, OwnedInLoop DEF prove_alive
  <1>7. CASE prove_suspect
      <2>1. row'.state \in Over => row.state \in Over
          BY <1>0, <1>7 DEF prove_suspect, Rows, Over
      <2> QED
          BY <1>0, <1>7, <2>1, HostFields, OwnedInLoop DEF prove_suspect
  <1>8. CASE heartbeat_session
      <2>1. row'.state \in Over => row.state \in Over
          BY <1>0, <1>8 DEF heartbeat_session, Beaten, Rows, Over
      <2>2. /\ host'.pc \in {"beat", "refetch"}
            /\ host'.token = host.token /\ host'.proxy = host.proxy
          BY <1>0, <1>8, HostFields DEF heartbeat_session, HostSteps
      <2> QED
          BY <1>8, <2>1, <2>2, OwnedInLoop DEF heartbeat_session
  <1>9. CASE refetch_commands
      <2>1. host'.pc = "release" /\ host'.token = host.token /\ host'.proxy = host.proxy
          BY <1>0, <1>9 DEF refetch_commands, Hosts
      <2> QED
          BY <1>9, <2>1, OwnedInLoop DEF refetch_commands
  <1>10. CASE offline_proof
      BY <1>0, <1>10, HostFields, OwnedInLoop DEF offline_proof
  <1>11. CASE raise_in_call
      BY <1>0, <1>11, HostFields, OwnedInLoop DEF raise_in_call
  <1>12. CASE control_plane_unavailable
      BY <1>0, <1>12, HostFields DEF control_plane_unavailable, Owned, HostSteps
  <1>13. CASE request_stop
      <2>1. host'.pc = host.pc /\ host'.token = host.token /\ host'.proxy = host.proxy
          BY <1>0, <1>13 DEF request_stop, Hosts
      <2> QED
          BY <1>13, <2>1 DEF request_stop, Owned
  <1> QED
      BY <1>1, <1>2, <1>3, <1>4, <1>5, <1>6, <1>7, <1>8, <1>9, <1>10, <1>11, <1>12, <1>13

LEMMA OwnedHostCloses ==
    ASSUME Types, Owned,
           \/ \E l \in Leases : close_project(l) \/ close_fails(l) \/ complete_release(l)
           \/ defer_release \/ act_on_commands \/ bounded_close_desktop \/ report_closed
           \/ desktop_fails \/ host_killed
    PROVE  Owned'
  <1> USE DEF Native, Server, Answered, Failing
  <1>0. host \in Hosts /\ row \in Rows
      BY DEF Types, ServerType
  <1>1. ASSUME NEW l \in Leases, close_project(l) PROVE Owned'
      <2>1. host'.pc = "release" /\ host'.token = host.token /\ host'.proxy = host.proxy
          BY <1>0, <1>1 DEF close_project, Turn, Hosts
      <2> QED
          BY <1>1, <2>1, OwnedInLoop DEF close_project
  <1>2. ASSUME NEW l \in Leases, close_fails(l) PROVE Owned'
      <2>1. host'.pc = "release" /\ host'.token = host.token /\ host'.proxy = host.proxy
          BY <1>0, <1>2 DEF close_fails, Turn, Hosts
      <2> QED
          BY <1>2, <2>1, OwnedInLoop DEF close_fails
  <1>3. ASSUME NEW l \in Leases, complete_release(l) PROVE Owned'
      <2>1. /\ host'.pc \in {"release", "closing"}
            /\ host'.token = host.token /\ host'.proxy = host.proxy
          BY <1>0, <1>3, HostFields DEF complete_release, Hosts
      <2>2. row'.state \in Over => row.state \in Over
          BY <1>0, <1>3 DEF complete_release, Rows, Over
      <2> QED
          BY <1>3, <2>1, <2>2, OwnedInLoop DEF complete_release
  <1>4. CASE defer_release
      BY <1>0, <1>4, HostFields, OwnedInLoop DEF defer_release, Turn
  <1>5. CASE act_on_commands
      <2>1. /\ host'.pc \in {"fetch", "closing"}
            /\ host'.token = host.token /\ host'.proxy = host.proxy
          BY <1>0, <1>5, HostFields DEF act_on_commands
      <2> QED
          BY <1>5, <2>1, OwnedInLoop DEF act_on_commands
  <1>6. CASE bounded_close_desktop
      <2>1. host'.pc \in {"report", "exit"} /\ host'.token = host.token
          BY <1>0, <1>6 DEF bounded_close_desktop, To, Hosts
      <2>2. host.token /\ host'.pc = "report" => desktop' = "gone"
          <3>1. host.token => host.proxy
              BY <1>6 DEF bounded_close_desktop, Owned
          <3>2. host.proxy /\ host'.pc = "report" => desktop' = Gone(desktop)
              <4>1. /\ To("exit").pc = "exit"
                    /\ [To("exit") EXCEPT !.proxy = FALSE].pc = "exit"
                  BY <1>0 DEF To, Hosts
              <4> QED
                  BY <1>6, <4>1 DEF bounded_close_desktop
          <3> QED
              BY <1>6, <3>1, <3>2 DEF bounded_close_desktop, Gone, Owned
      <2>3. host.token => desktop' \in {"up", "hung", "gone"}
          BY <1>6 DEF bounded_close_desktop, Gone, Owned
      <2> QED
          BY <1>6, <2>1, <2>2, <2>3 DEF bounded_close_desktop, Owned
  <1>7. CASE report_closed
      <2>1. host'.pc = "exit" /\ host'.token = host.token
          BY <1>0, <1>7, HostFields DEF report_closed, HostSteps
      <2>2. row'.state \in Over => row.state \in Over \/ host.token
          BY <1>0, <1>7 DEF report_closed, Rows, Over
      <2> QED
          BY <1>7, <2>1, <2>2 DEF report_closed, Owned, Over
  <1>8. CASE desktop_fails
      BY <1>8 DEF desktop_fails, Owned
  <1>9. CASE host_killed
      BY <1>0, <1>9, HostFields DEF host_killed, Owned, HostSteps
  <1> QED
      BY <1>1, <1>2, <1>3, <1>4, <1>5, <1>6, <1>7, <1>8, <1>9

LEMMA OwnedNext == Types /\ Owned /\ [Next]_vars => Owned'
  <1> SUFFICES ASSUME Types, Owned, [Next]_vars PROVE Owned'
      OBVIOUS
  <1>1. CASE UNCHANGED vars
      BY <1>1 DEF vars, Owned
  <1>2. CASE HostLoop
      BY <1>2, OwnedHostCalls, OwnedHostCloses DEF HostLoop
  <1>3. CASE Tick
      BY <1>3, OwnedServer DEF Tick
  <1>4. CASE Environment
      BY <1>4, OwnedServer, OwnedHostCalls, OwnedHostCloses, OwnedClient DEF Environment
  <1>5. ASSUME NEW l \in Leases, ClientStep(l) PROVE Owned'
      BY <1>5, OwnedClient
  <1> QED
      BY <1>1, <1>2, <1>3, <1>4, <1>5 DEF Next

(* _bounded_close_desktop and _report_closed, for any number of clients    *)
(* and any faults: what the host reported as closed or failed has no       *)
(* Desktop process.                                                        *)
THEOREM ReportedSessionIsGone == Spec => []ReportedIsGone
  <1>1. Init => Owned
      <2> SUFFICES ASSUME Init PROVE Owned
          OBVIOUS
      <2>1. host.pc = "claim" /\ ~host.token
          BY DEF Init
      <2>2. row.state = "starting"
          BY DEF Init
      <2> QED
          BY <2>1, <2>2 DEF Owned
  <1>2. Owned => ReportedIsGone
      BY DEF Owned, ReportedIsGone
  <1> QED
      BY <1>1, <1>2, TypesInit, TypesNext, OwnedNext, PTL DEF Spec

-----------------------------------------------------------------------------
(* Released leases.                                                        *)

OnTheWayOut == {"releasing", "released", "failed"}

Leaving ==
    \A l \in Leases : lease[l] \in {"releasing", "released"} /\ l \notin expired
                         => client[l] \in {"release", "done", "dead"}
Told ==
    /\ \A l \in host.cmd.close : lease[l] \in OnTheWayOut
    /\ host.pc \in {"closing", "report"} => host.cmd.close = {}
    /\ host.closed \subseteq host.cmd.close
    /\ host.closed # {} => host.pc \in {"release", "exit"}
ClosedFirst ==
    \A l \in host.closed : lease[l] = "releasing" => l \notin open \/ l \in expired

Handover == Types /\ Leaving /\ Told /\ ClosedFirst /\ ReleasedIsClosed

(* A step of the host that is told nothing new and acknowledges nothing.   *)
LEMMA HandoverHostGoesOn ==
    ASSUME Handover, UNCHANGED <<lease, expired, client>>, open' \subseteq open,
           host'.cmd.close \subseteq host.cmd.close,
           host'.closed \subseteq host.closed,
           host'.closed \subseteq host'.cmd.close,
           host'.closed # {} => host'.pc \in {"release", "exit"},
           host'.pc \in {"closing", "report"} => host'.cmd.close = {}
    PROVE  Leaving' /\ Told' /\ ClosedFirst' /\ ReleasedIsClosed'
  BY DEF Handover, Leaving, Told, ClosedFirst, ReleasedIsClosed

(* A step that moves leases and none of them against its way: what is on   *)
(* its way out stays so and nobody else but the cut off begins to leave.   *)
LEMMA HandoverLeasesMove ==
    ASSUME Handover, UNCHANGED <<host, client, open>>, expired \subseteq expired',
           \A l \in Leases : lease[l] \in OnTheWayOut => lease'[l] \in {lease[l], "failed"},
           \A l \in Leases : lease'[l] \in {"releasing", "released"} =>
                                 lease[l] = lease'[l] \/ l \in expired'
    PROVE  Leaving' /\ Told' /\ ClosedFirst' /\ ReleasedIsClosed'
  <1>1. host.cmd.close \subseteq Leases /\ host.closed \subseteq Leases /\ open \subseteq Leases
      BY DEF Handover, Types, Hosts, Commands, NativeType
  <1>2. Leaving'
      BY DEF Handover, Leaving
  <1>3. Told'
      BY <1>1 DEF Handover, Told, OnTheWayOut
  <1>4. ClosedFirst'
      BY <1>1 DEF Handover, ClosedFirst
  <1>5. ReleasedIsClosed'
      BY <1>1 DEF Handover, ReleasedIsClosed
  <1> QED
      BY <1>2, <1>3, <1>4, <1>5

LEMMA HandoverServer ==
    ASSUME Handover,
           \/ expire_heartbeat \/ fail_unacknowledged \/ reap_session
           \/ drain_session \/ go_silent
           \/ \E l \in Leases : expire_lease(l) \/ place(l)
    PROVE  Leaving' /\ Told' /\ ClosedFirst' /\ ReleasedIsClosed'
  <1> USE DEF Native, SetLeases, In, OnTheWayOut
  <1>1. CASE expire_heartbeat \/ drain_session \/ go_silent
      BY <1>1, HandoverLeasesMove DEF expire_heartbeat, drain_session, go_silent
  <1>2. CASE fail_unacknowledged
      BY <1>2, HandoverLeasesMove DEF fail_unacknowledged
  <1>3. CASE reap_session
      BY <1>3, HandoverLeasesMove DEF reap_session, Occupying, Live
  <1>4. ASSUME NEW l \in Leases, expire_lease(l)
        PROVE  Leaving' /\ Told' /\ ClosedFirst' /\ ReleasedIsClosed'
      BY <1>4, HandoverLeasesMove DEF expire_lease, Live
  <1>5. ASSUME NEW l \in Leases, place(l)
        PROVE  Leaving' /\ Told' /\ ClosedFirst' /\ ReleasedIsClosed'
      BY <1>5, HandoverLeasesMove DEF place
  <1> QED
      BY <1>1, <1>2, <1>3, <1>4, <1>5

(* What session_commands names is being released.                          *)
LEMMA HandoverFetch ==
    ASSUME Handover, UNCHANGED <<lease, expired, client, open>>, NEW grace \in BOOLEAN,
           NEW pc \in {"prove", "release"}, host.pc \in {"fetch", "refetch"},
           host' = [host EXCEPT !.pc = pc, !.cmd = session_commands(grace)]
    PROVE  Leaving' /\ Told' /\ ClosedFirst' /\ ReleasedIsClosed'
  <1>1. /\ host'.pc = pc /\ host'.closed = host.closed
        /\ host'.cmd.close \subseteq In({"releasing"})
      BY DEF Handover, Types, Hosts, session_commands
  <1>2. host.closed = {}
      BY DEF Handover, Told
  <1>3. Told'
      BY <1>1, <1>2 DEF Told, In, OnTheWayOut
  <1> QED
      BY <1>1, <1>2, <1>3 DEF Handover, Leaving, ClosedFirst, ReleasedIsClosed

LEMMA HandoverHostCalls ==
    ASSUME Handover,
           \/ claim_start \/ start_desktop \/ register_session \/ fetch_commands
           \/ prove_gone \/ prove_alive \/ prove_suspect \/ heartbeat_session
           \/ refetch_commands \/ offline_proof \/ raise_in_call
           \/ control_plane_unavailable \/ request_stop
    PROVE  Leaving' /\ Told' /\ ClosedFirst' /\ ReleasedIsClosed'
  <1> USE DEF Native, Server, Answered, Failing
  <1>0. host \in Hosts /\ Told
      BY DEF Handover, Types
  <1>a. NoCommands.close = {}
      BY DEF NoCommands
  <1>1. CASE claim_start
      BY <1>0, <1>1, HostFields, HandoverHostGoesOn DEF claim_start, HostSteps, Told
  <1>2. CASE start_desktop
      <2>1. CASE create_desktop
          <3>1. host'.pc = "register" /\ host'.cmd = host.cmd /\ host'.closed = host.closed
              BY <1>0, <2>1 DEF create_desktop, Hosts
          <3> QED
              BY <1>0, <1>2, <3>1, HandoverHostGoesOn DEF start_desktop, Told
      <2>2. CASE launch_fails
          BY <1>0, <1>a, <1>2, <2>2, HostFields, HandoverHostGoesOn DEF start_desktop, launch_fails
      <2> QED
          BY <1>2, <2>1, <2>2 DEF start_desktop
  <1>3. CASE register_session
      <2>1. CASE host' = host
          BY <1>0, <1>3, <2>1, HandoverHostGoesOn DEF register_session, Told
      <2>2. CASE host' = [Fetching EXCEPT !.token = TRUE]
          <3>1. host'.pc = "fetch" /\ host'.cmd = NoCommands /\ host'.closed = {}
              BY <1>0, <2>2, HostFields, HostType DEF Hosts
          <3> QED
              BY <1>a, <1>3, <3>1, HandoverHostGoesOn DEF register_session
      <2> QED
          BY <1>3, <2>1, <2>2 DEF register_session
  <1>4. CASE fetch_commands
      BY <1>4, HandoverFetch DEF fetch_commands
  <1>5. CASE prove_gone
      BY <1>0, <1>a, <1>5, HostFields, HandoverHostGoesOn DEF prove_gone
  <1>6. CASE prove_alive
      <2>1. host'.pc = "beat" /\ host'.cmd = NoCommands /\ host'.closed = host.closed
          BY <1>0, <1>6 DEF prove_alive, To, Hosts
      <2>2. host.closed = {}
          BY <1>0, <1>6 DEF prove_alive, Told
      <2> QED
          BY <1>a, <1>6, <2>1, <2>2, HandoverHostGoesOn DEF prove_alive
  <1>7. CASE prove_suspect
      BY <1>0, <1>a, <1>7, HostFields, HandoverHostGoesOn DEF prove_suspect
  <1>8. CASE heartbeat_session
      <2>1. host'.pc \in {"beat", "refetch"} /\ host'.cmd = host.cmd /\ host'.closed = host.closed
          BY <1>0, <1>8, HostFields DEF heartbeat_session, HostSteps
      <2> QED
          BY <1>0, <1>8, <2>1, HandoverHostGoesOn DEF heartbeat_session, Told
  <1>9. CASE refetch_commands
      BY <1>9, HandoverFetch DEF refetch_commands
  <1>10. CASE offline_proof
      <2>1. host'.pc \in {"fetch", "closing"} /\ host'.cmd = NoCommands /\ host'.closed = {}
          BY <1>0, <1>10, HostFields DEF offline_proof
      <2> QED
          BY <1>a, <1>10, <2>1, HandoverHostGoesOn DEF offline_proof
  <1>11. CASE raise_in_call
      BY <1>0, <1>a, <1>11, HostFields, HandoverHostGoesOn DEF raise_in_call
  <1>12. CASE control_plane_unavailable
      <2>1. CASE host' = Closing("error")
          BY <1>0, <1>a, <1>12, <2>1, HostFields, HandoverHostGoesOn DEF control_plane_unavailable
      <2>2. CASE host' \in {To("offline"), To("exit")}
          <3>1. /\ host'.pc \in {"offline", "exit"}
                /\ host'.cmd = host.cmd /\ host'.closed = host.closed
              BY <1>0, <2>2, HostFields DEF HostSteps
          <3> QED
              BY <1>0, <1>12, <3>1, HandoverHostGoesOn DEF control_plane_unavailable, Told
      <2> QED
          BY <1>12, <2>1, <2>2 DEF control_plane_unavailable
  <1>13. CASE request_stop
      <2>1. host'.pc = host.pc /\ host'.cmd = host.cmd /\ host'.closed = host.closed
          BY <1>0, <1>13 DEF request_stop, Hosts
      <2> QED
          BY <1>0, <1>13, <2>1, HandoverHostGoesOn DEF request_stop, Told
  <1> QED
      BY <1>1, <1>2, <1>3, <1>4, <1>5, <1>6, <1>7, <1>8, <1>9, <1>10, <1>11, <1>12, <1>13
(* Releases, the end of the Desktop, and the end of the host.              *)
LEMMA HandoverHostCloses ==
    ASSUME Handover,
           \/ \E l \in Leases : close_project(l) \/ close_fails(l) \/ complete_release(l)
           \/ defer_release \/ act_on_commands \/ bounded_close_desktop \/ report_closed
           \/ desktop_fails \/ host_killed
    PROVE  Leaving' /\ Told' /\ ClosedFirst' /\ ReleasedIsClosed'
  <1> USE DEF Native, Server, Answered, Failing
  <1>0. /\ host \in Hosts /\ Told /\ lease \in [Leases -> LeaseStates]
        /\ host.cmd.close \subseteq Leases /\ host.closed \subseteq Leases
        /\ open \subseteq Leases
      BY DEF Handover, Types, Hosts, Commands, ServerType, NativeType
  <1>a. NoCommands.close = {}
      BY DEF NoCommands
  <1>b. /\ Closing("error").pc = "closing" /\ Closing("error").cmd = NoCommands
        /\ Closing("error").closed = {}
      BY <1>0, HostFields
  <1>1. ASSUME NEW l \in Leases, close_project(l)
        PROVE  Leaving' /\ Told' /\ ClosedFirst' /\ ReleasedIsClosed'
      <2>1. /\ host'.pc = "release" /\ host'.cmd = host.cmd
            /\ host'.closed = host.closed \cup {l}
          BY <1>0, <1>1 DEF close_project, Turn, Hosts
      <2>2. Leaving' /\ ReleasedIsClosed'
          BY <1>1 DEF close_project, Handover, Leaving, ReleasedIsClosed
      <2>3. Told'
          BY <1>0, <1>1, <2>1 DEF close_project, Turn, Told
      <2>4. ClosedFirst'
          BY <1>1, <2>1 DEF close_project, Handover, ClosedFirst
      <2> QED
          BY <2>2, <2>3, <2>4
  <1>2. ASSUME NEW l \in Leases, close_fails(l)
        PROVE  Leaving' /\ Told' /\ ClosedFirst' /\ ReleasedIsClosed'
      <2>1. /\ host'.pc = "release" /\ host'.cmd = host.cmd /\ host'.closed = host.closed
            /\ host.pc = "release"
          BY <1>0, <1>2 DEF close_fails, Turn, Hosts
      <2>2. open' \subseteq open
          BY <1>2 DEF close_fails
      <2> QED
          BY <1>0, <1>2, <2>1, <2>2, HandoverHostGoesOn DEF close_fails, Told
  <1>3. ASSUME NEW l \in Leases, complete_release(l)
        PROVE  Leaving' /\ Told' /\ ClosedFirst' /\ ReleasedIsClosed'
      <2> DEFINE next == [host EXCEPT !.closed = {}, !.unclosed = {}, !.cmd.close = @ \ {l}]
      <2>0. /\ next.pc = "release" /\ next.closed = {}
            /\ next.cmd.close = host.cmd.close \ {l}
          BY <1>0, <1>3 DEF complete_release, Hosts, Commands
      <2>1. CASE UNCHANGED lease
          <3>1. host' \in {host, next, Closing("error")}
              BY <1>3 DEF complete_release
          <3>2. CASE host' = Closing("error")
              BY <1>a, <1>b, <1>3, <2>1, <3>2, HandoverHostGoesOn DEF complete_release
          <3>3. CASE host' = next
              <4> HIDE DEF next
              <4> QED
                  BY <1>0, <1>3, <2>0, <2>1, <3>3, HandoverHostGoesOn DEF complete_release, Told
          <3>4. CASE host' = host
              BY <1>0, <1>3, <2>1, <3>4, HandoverHostGoesOn DEF complete_release, Told
          <3> QED
              BY <3>1, <3>2, <3>3, <3>4
      <2>2. CASE /\ lease[l] = "releasing" /\ host' \in {host, next}
                 /\ SetLeases({l}, IF l \in host.closed THEN "released" ELSE "failed")
          <3>1. /\ host'.pc = "release"
                /\ host'.closed \in {host.closed, {}}
                /\ host'.cmd.close \in {host.cmd.close, host.cmd.close \ {l}}
                /\ host'.closed \subseteq host'.cmd.close
              <4> HIDE DEF next
              <4> QED
                  BY <1>0, <1>3, <2>0, <2>2 DEF complete_release, Told
          <3>2. PICK to \in {"released", "failed"} :
                    /\ (to = "released" => l \in host.closed) /\ UNCHANGED <<expired, client, open>>
                    /\ lease' = [m \in Leases |-> IF m = l THEN to ELSE lease[m]]
              BY <1>3, <2>2 DEF complete_release, SetLeases
          <3>3. Told'
              BY <1>0, <3>1, <3>2 DEF Told, OnTheWayOut
          <3>4. Leaving'
              BY <2>2, <3>2 DEF Handover, Leaving
          <3>5. ClosedFirst'
              BY <1>0, <3>1, <3>2 DEF Handover, ClosedFirst
          <3>6. ReleasedIsClosed'
              BY <1>0, <2>2, <3>2 DEF Handover, ClosedFirst, ReleasedIsClosed
          <3> QED
              BY <3>3, <3>4, <3>5, <3>6
      <2> QED
          BY <1>3, <2>1, <2>2 DEF complete_release
  <1>4. CASE defer_release
      BY <1>0, <1>a, <1>4, HostFields, HandoverHostGoesOn DEF defer_release
  <1>5. CASE act_on_commands
      <2>1. host'.pc \in {"fetch", "closing"} /\ host'.cmd = NoCommands /\ host'.closed = {}
          BY <1>0, <1>5, HostFields DEF act_on_commands
      <2> QED
          BY <1>a, <1>5, <2>1, HandoverHostGoesOn DEF act_on_commands
  <1>6. CASE bounded_close_desktop
      <2>1. /\ host'.pc \in {"report", "exit"}
            /\ host'.cmd = host.cmd /\ host'.closed = host.closed
          BY <1>0, <1>6 DEF bounded_close_desktop, To, Hosts
      <2>2. host.cmd.close = {} /\ host.closed = {}
          BY <1>0, <1>6 DEF bounded_close_desktop, Told
      <2>3. open' \subseteq open
          BY <1>6 DEF bounded_close_desktop
      <2> QED
          BY <1>6, <2>1, <2>2, <2>3, HandoverHostGoesOn DEF bounded_close_desktop
  <1>7. CASE report_closed
      <2>1. /\ host'.pc = "exit" /\ host'.cmd = host.cmd /\ host'.closed = host.closed
            /\ host.cmd.close = {} /\ host.closed = {}
          BY <1>0, <1>7, HostFields DEF report_closed, HostSteps, Told
      <2>2. Told' /\ ClosedFirst'
          BY <2>1 DEF Told, ClosedFirst
      <2>3. \A l \in Leases : lease'[l] \in {lease[l], "queued"}
          BY <1>0, <1>7 DEF report_closed, SetLeases
      <2>4. UNCHANGED <<expired, client, open>>
          BY <1>7 DEF report_closed
      <2>5. Leaving' /\ ReleasedIsClosed'
          BY <1>0, <2>3, <2>4 DEF Handover, Leaving, ReleasedIsClosed
      <2> QED
          BY <2>2, <2>5
  <1>8. CASE desktop_fails
      BY <1>0, <1>8, HandoverHostGoesOn DEF desktop_fails, Told
  <1>9. CASE host_killed
      <2>1. host'.pc = "exit" /\ host'.cmd = host.cmd /\ host'.closed = host.closed
          BY <1>0, <1>9, HostFields DEF host_killed, HostSteps
      <2> QED
          BY <1>0, <1>9, <2>1, HandoverHostGoesOn DEF host_killed, Told
  <1> QED
      BY <1>1, <1>2, <1>3, <1>4, <1>5, <1>6, <1>7, <1>8, <1>9

(* A step of a client that opens nothing: its lease does not come back     *)
(* from its way out, and it begins to leave when its lease does.           *)
LEMMA HandoverClientMoves ==
    ASSUME Handover, UNCHANGED <<host, open, expired>>, NEW l \in Leases,
           \A m \in Leases \ {l} : lease'[m] = lease[m] /\ client'[m] = client[m],
           lease[l] \in OnTheWayOut => lease'[l] = lease[l],
           lease'[l] \in {"releasing", "released"} /\ lease'[l] # lease[l]
               => lease'[l] = "releasing" /\ client'[l] \in {"release", "done", "dead"},
           client[l] \in {"release", "done", "dead"}
               => client'[l] \in {"release", "done", "dead"}
    PROVE  Leaving' /\ Told' /\ ClosedFirst' /\ ReleasedIsClosed'
  <1>1. /\ host.cmd.close \subseteq Leases /\ host.closed \subseteq Leases
        /\ open \subseteq Leases /\ host.closed \subseteq host.cmd.close
      BY DEF Handover, Types, Hosts, Commands, NativeType, Told
  <1>2. Leaving'
      BY DEF Handover, Leaving
  <1>3. Told'
      BY <1>1 DEF Handover, Told, OnTheWayOut
  <1>4. ClosedFirst'
      <2> SUFFICES ASSUME NEW m \in host.closed, lease'[m] = "releasing"
                   PROVE  m \notin open \/ m \in expired
          BY DEF ClosedFirst
      <2>1. lease[m] \in OnTheWayOut
          BY <1>1 DEF Handover, Told
      <2>2. lease[m] = "releasing"
          BY <1>1, <2>1
      <2> QED
          BY <2>2 DEF Handover, ClosedFirst
  <1>5. ReleasedIsClosed'
      BY <1>1 DEF Handover, ReleasedIsClosed
  <1> QED
      BY <1>2, <1>3, <1>4, <1>5

LEMMA HandoverClient ==
    ASSUME Handover, NEW l \in Leases, ClientStep(l) \/ client_dies(l)
    PROVE  Leaving' /\ Told' /\ ClosedFirst' /\ ReleasedIsClosed'
  <1> USE DEF Native, Server, At, AnsweredTo, request_with_retry, SetLeases, OnTheWayOut
  <1>0. lease \in [Leases -> LeaseStates] /\ client \in [Leases -> ClientSteps]
      BY DEF Handover, Types, ServerType
  <1>1. CASE acquire_project_lease(l)
      BY <1>0, <1>1, HandoverClientMoves DEF acquire_project_lease
  <1>2. CASE accept_lease(l)
      BY <1>0, <1>2, HandoverClientMoves DEF accept_lease
  <1>3. CASE poll_admission(l)
      BY <1>0, <1>3, HandoverClientMoves DEF poll_admission
  <1>4. CASE connect_desktop(l)
      <2>1. /\ client[l] = "attach" /\ client' = [client EXCEPT ![l] = "model"]
            /\ open' = open \cup {l} /\ UNCHANGED <<lease, expired, host>>
          BY <1>4 DEF connect_desktop
      <2>2. lease[l] \in {"releasing", "released"} => l \in expired
          BY <2>1 DEF Handover, Leaving
      <2>3. Leaving'
          BY <1>0, <2>1, <2>2 DEF Handover, Leaving
      <2>4. Told' /\ ClosedFirst' /\ ReleasedIsClosed'
          BY <2>1, <2>2 DEF Handover, Told, ClosedFirst, ReleasedIsClosed
      <2> QED
          BY <2>3, <2>4
  <1>5. CASE attach_fails(l)
      BY <1>0, <1>5, HandoverClientMoves DEF attach_fails
  <1>6. CASE activate_lease(l)
      BY <1>0, <1>6, HandoverClientMoves DEF activate_lease
  <1>7. CASE solve_permit(l)
      BY <1>0, <1>7, HandoverClientMoves DEF solve_permit
  <1>8. CASE solve_ends(l)
      BY <1>0, <1>8, HandoverClientMoves DEF solve_ends
  <1>9. CASE cancel_lease(l)
      BY <1>0, <1>9, HandoverClientMoves DEF cancel_lease
  <1>10. CASE client_dies(l)
      BY <1>0, <1>10, HandoverClientMoves DEF client_dies
  <1> QED
      BY <1>1, <1>2, <1>3, <1>4, <1>5, <1>6, <1>7, <1>8, <1>9, <1>10 DEF ClientStep

LEMMA HandoverNext == Handover /\ [Next]_vars => Handover'
  <1> SUFFICES ASSUME Handover, [Next]_vars
               PROVE  Leaving' /\ Told' /\ ClosedFirst' /\ ReleasedIsClosed'
      BY TypesNext DEF Handover
  <1>1. CASE UNCHANGED vars
      BY <1>1 DEF vars, Handover, Leaving, Told, ClosedFirst, ReleasedIsClosed
  <1>2. CASE HostLoop
      BY <1>2, HandoverHostCalls, HandoverHostCloses DEF HostLoop
  <1>3. CASE Tick
      BY <1>3, HandoverServer DEF Tick
  <1>4. CASE Environment
      BY <1>4, HandoverServer, HandoverHostCalls, HandoverHostCloses, HandoverClient
         DEF Environment
  <1>5. ASSUME NEW l \in Leases, ClientStep(l)
        PROVE  Leaving' /\ Told' /\ ClosedFirst' /\ ReleasedIsClosed'
      BY <1>5, HandoverClient
  <1> QED
      BY <1>1, <1>2, <1>3, <1>4, <1>5 DEF Next

LEMMA HandoverInit == Init => Handover
  <1> SUFFICES ASSUME Init PROVE Handover
      OBVIOUS
  <1>1. host.cmd.close = {} /\ host.closed = {}
      BY DEF Init, NoCommands
  <1>2. Leaving
      BY DEF Init, Leaving
  <1>3. Told /\ ClosedFirst
      BY <1>1 DEF Told, ClosedFirst
  <1>4. ReleasedIsClosed
      BY DEF Init, ReleasedIsClosed
  <1> QED
      BY <1>2, <1>3, <1>4, TypesInit DEF Handover

(* _close_and_prepare_project_release and release-complete, for any number *)
(* of clients and any faults: when a lease is released, its project is     *)
(* closed in the Desktop, unless its client was cut off and attached late. *)
THEOREM ReleasedProjectIsClosed == Spec => []ReleasedIsClosed
  <1>1. Handover => ReleasedIsClosed
      BY DEF Handover
  <1> QED
      BY <1>1, HandoverInit, HandoverNext, PTL DEF Spec

-----------------------------------------------------------------------------
(* Solves.                                                                 *)

Serving == {"fetch", "prove", "beat", "refetch", "release", "offline"}

Launched ==
    /\ host.pc \in {"claim", "start"} => desktop # "up"
    /\ host.pc \in Serving => row.registered
    /\ row.registered => row.state # "starting"

(* What the second fetch says stays true until the host has acted on it: a *)
(* quarantine is lifted before a heartbeat only, a session that drains is  *)
(* not ready again before the next heartbeat, and a release that ends      *)
(* otherwise leaves a quarantine or the end of the session.                *)
Lost == row.quar \/ row.state \notin Counted

Current ==
    host.pc = "release" =>
        /\ \A l \in host.cmd.close : lease[l] = "failed" => Lost
        /\ host.cmd.stop => row.quar
        /\ host.cmd.drain /\ ~host.cmd.siblings => row.state # "ready" /\ In(Live) = {}

LEMMA LaunchedAtRest ==
    ASSUME Launched, UNCHANGED <<host, desktop>>, row'.registered = row.registered,
           row'.state = "starting" => row.state = "starting"
    PROVE  Launched'
  BY DEF Launched

LEMMA LaunchedInLoop ==
    ASSUME Launched, host.pc \in Serving, host'.pc \notin {"claim", "start"},
           row'.registered = row.registered, row'.state = "starting" => row.state = "starting"
    PROVE  Launched'
  BY DEF Launched

LEMMA LaunchedServer ==
    ASSUME Types, Launched,
           \/ expire_heartbeat \/ fail_unacknowledged \/ reap_session
           \/ drain_session \/ go_silent
           \/ \E l \in Leases : expire_lease(l) \/ place(l)
    PROVE  Launched'
  <1>1. UNCHANGED <<host, desktop>>
      BY DEF expire_heartbeat, fail_unacknowledged, reap_session, drain_session, go_silent,
             expire_lease, place, Native
  <1>2. /\ row'.registered = row.registered
        /\ row'.state = "starting" => row.state = "starting"
      BY DEF expire_heartbeat, fail_unacknowledged, reap_session, drain_session, go_silent,
             expire_lease, place, Types, ServerType, Rows
  <1> QED
      BY <1>1, <1>2, LaunchedAtRest

LEMMA LaunchedClient ==
    ASSUME Launched, NEW l \in Leases, ClientStep(l) \/ client_dies(l)
    PROVE  Launched'
  <1>1. UNCHANGED <<host, desktop, row>>
      BY DEF ClientStep, client_dies, acquire_project_lease, accept_lease, poll_admission,
             connect_desktop, attach_fails, activate_lease, solve_permit, solve_ends,
             cancel_lease, Native, Server
  <1> QED
      BY <1>1, LaunchedAtRest

LEMMA LaunchedHostCalls ==
    ASSUME Types, Launched,
           \/ claim_start \/ start_desktop \/ register_session \/ fetch_commands
           \/ prove_gone \/ prove_alive \/ prove_suspect \/ heartbeat_session
           \/ refetch_commands \/ offline_proof \/ raise_in_call
           \/ control_plane_unavailable \/ request_stop
    PROVE  Launched'
  <1> USE DEF Native, Server, Answered, Failing, Serving
  <1>0. host \in Hosts /\ row \in Rows
      BY DEF Types, ServerType
  <1>1. CASE claim_start
      BY <1>0, <1>1, HostFields DEF claim_start, Launched, HostSteps
  <1>2. CASE start_desktop
      <2>1. host'.pc \in {"register", "closing"}
          <3>1. [host EXCEPT !.pc = "register", !.proxy = TRUE].pc = "register"
              BY <1>0 DEF Hosts
          <3> QED
              BY <1>0, <1>2, <3>1, HostFields DEF start_desktop, create_desktop, launch_fails
      <2> QED
          BY <1>2, <2>1 DEF start_desktop, Launched
  <1>3. CASE register_session
      <2>1. /\ row'.registered /\ row'.state # "starting"
          BY <1>0, <1>3 DEF register_session, Rows, Launched
      <2>2. host'.pc \in {"register", "fetch"}
          BY <1>0, <1>3, HostFields, HostType DEF register_session, Hosts
      <2> QED
          BY <2>1, <2>2 DEF Launched
  <1>4. CASE fetch_commands
      <2>1. host'.pc = "prove"
          BY <1>0, <1>4 DEF fetch_commands, Hosts
      <2> QED
          BY <1>4, <2>1, LaunchedInLoop DEF fetch_commands
  <1>5. CASE prove_gone
      <2>1. row'.registered = row.registered /\ (row'.state = "starting" => row.state = "starting")
          BY <1>0, <1>5 DEF prove_gone, Rows
      <2> QED
          BY <1>0, <1>5, <2>1, HostFields, LaunchedInLoop DEF prove_gone
  <1>6. CASE prove_alive
      <2>1. host'.pc = "beat"
          BY <1>0, <1>6 DEF prove_alive, To, Hosts
      <2> QED
          BY <1>6, <2>1, LaunchedInLoop DEF prove_alive
  <1>7. CASE prove_suspect
      <2>1. row'.registered = row.registered /\ (row'.state = "starting" => row.state = "starting")
          BY <1>0, <1>7 DEF prove_suspect, Rows
      <2> QED
          BY <1>0, <1>7, <2>1, HostFields, LaunchedInLoop DEF prove_suspect
  <1>8. CASE heartbeat_session
      <2>1. row'.registered = row.registered /\ (row'.state = "starting" => row.state = "starting")
          BY <1>0, <1>8 DEF heartbeat_session, Beaten, Rows
      <2>2. host'.pc \in {"beat", "refetch"}
          BY <1>0, <1>8, HostFields DEF heartbeat_session, HostSteps
      <2> QED
          BY <1>8, <2>1, <2>2, LaunchedInLoop DEF heartbeat_session
  <1>9. CASE refetch_commands
      <2>1. host'.pc = "release"
          BY <1>0, <1>9 DEF refetch_commands, Hosts
      <2> QED
          BY <1>9, <2>1, LaunchedInLoop DEF refetch_commands
  <1>10. CASE offline_proof
      BY <1>0, <1>10, HostFields, LaunchedInLoop DEF offline_proof
  <1>11. CASE raise_in_call
      BY <1>0, <1>11, HostFields DEF raise_in_call, Launched
  <1>12. CASE control_plane_unavailable
      BY <1>0, <1>12, HostFields DEF control_plane_unavailable, Launched, HostSteps
  <1>13. CASE request_stop
      <2>1. host'.pc = host.pc
          BY <1>0, <1>13 DEF request_stop, Hosts
      <2> QED
          BY <1>13, <2>1 DEF request_stop, Launched
  <1> QED
      BY <1>1, <1>2, <1>3, <1>4, <1>5, <1>6, <1>7, <1>8, <1>9, <1>10, <1>11, <1>12, <1>13

LEMMA LaunchedHostCloses ==
    ASSUME Types, Launched,
           \/ \E l \in Leases : close_project(l) \/ close_fails(l) \/ complete_release(l)
           \/ defer_release \/ act_on_commands \/ bounded_close_desktop \/ report_closed
           \/ desktop_fails \/ host_killed
    PROVE  Launched'
  <1> USE DEF Native, Server, Answered, Failing, Serving
  <1>0. host \in Hosts /\ row \in Rows
      BY DEF Types, ServerType
  <1>1. ASSUME NEW l \in Leases, close_project(l) PROVE Launched'
      <2>1. host'.pc = "release"
          BY <1>0, <1>1 DEF close_project, Turn, Hosts
      <2> QED
          BY <1>1, <2>1, LaunchedInLoop DEF close_project
  <1>2. ASSUME NEW l \in Leases, close_fails(l) PROVE Launched'
      <2>1. host'.pc = "release"
          BY <1>0, <1>2 DEF close_fails, Turn, Hosts
      <2> QED
          BY <1>2, <2>1, LaunchedInLoop DEF close_fails
  <1>3. ASSUME NEW l \in Leases, complete_release(l) PROVE Launched'
      <2>1. host'.pc \in {"release", "closing"}
          BY <1>0, <1>3, HostFields DEF complete_release, Hosts
      <2>2. row'.registered = row.registered /\ (row'.state = "starting" => row.state = "starting")
          BY <1>0, <1>3 DEF complete_release, Rows
      <2> QED
          BY <1>3, <2>1, <2>2, LaunchedInLoop DEF complete_release
  <1>4. CASE defer_release
      BY <1>0, <1>4, HostFields, LaunchedInLoop DEF defer_release, Turn
  <1>5. CASE act_on_commands
      <2>1. host'.pc \in {"fetch", "closing"}
          BY <1>0, <1>5, HostFields DEF act_on_commands
      <2> QED
          BY <1>5, <2>1, LaunchedInLoop DEF act_on_commands
  <1>6. CASE bounded_close_desktop
      <2>1. host'.pc \in {"report", "exit"}
          BY <1>0, <1>6 DEF bounded_close_desktop, To, Hosts
      <2> QED
          BY <1>6, <2>1 DEF bounded_close_desktop, Launched
  <1>7. CASE report_closed
      <2>1. host'.pc = "exit"
          BY <1>0, <1>7, HostFields DEF report_closed, HostSteps
      <2>2. row'.registered = row.registered /\ (row'.state = "starting" => row.state = "starting")
          BY <1>0, <1>7 DEF report_closed, Rows
      <2> QED
          BY <2>1, <2>2 DEF Launched
  <1>8. CASE desktop_fails
      BY <1>8 DEF desktop_fails, Launched
  <1>9. CASE host_killed
      BY <1>0, <1>9, HostFields DEF host_killed, Launched, HostSteps
  <1> QED
      BY <1>1, <1>2, <1>3, <1>4, <1>5, <1>6, <1>7, <1>8, <1>9

LEMMA LaunchedNext == Types /\ Launched /\ [Next]_vars => Launched'
  <1> SUFFICES ASSUME Types, Launched, [Next]_vars PROVE Launched'
      OBVIOUS
  <1>1. CASE UNCHANGED vars
      BY <1>1 DEF vars, Launched
  <1>2. CASE HostLoop
      BY <1>2, LaunchedHostCalls, LaunchedHostCloses DEF HostLoop
  <1>3. CASE Tick
      BY <1>3, LaunchedServer DEF Tick
  <1>4. CASE Environment
      BY <1>4, LaunchedServer, LaunchedHostCalls, LaunchedHostCloses, LaunchedClient
         DEF Environment
  <1>5. ASSUME NEW l \in Leases, ClientStep(l) PROVE Launched'
      BY <1>5, LaunchedClient
  <1> QED
      BY <1>1, <1>2, <1>3, <1>4, <1>5 DEF Next

(* A step of anyone else: it lifts no quarantine, brings no session back,  *)
(* and gives a session that is not ready no new lease.                     *)
LEMMA CurrentAtRest ==
    ASSUME Types, Current, UNCHANGED host, row.quar => row'.quar,
           row'.state \in Counted => row.state \in Counted,
           row'.state = "ready" => row.state = "ready",
           row.state # "ready" /\ In(Live) = {} => In(Live)' = {},
           \A l \in Leases : lease'[l] = "failed" => lease[l] = "failed" \/ Lost'
    PROVE  Current'
  <1>1. host.cmd.close \subseteq Leases
      BY DEF Types, Hosts, Commands
  <1>2. Lost => Lost'
      BY DEF Lost
  <1> QED
      BY <1>1, <1>2 DEF Current

LEMMA CurrentServer ==
    ASSUME Types, Current,
           \/ expire_heartbeat \/ fail_unacknowledged \/ reap_session
           \/ drain_session \/ go_silent
           \/ \E l \in Leases : expire_lease(l) \/ place(l)
    PROVE  Current'
  <1> USE DEF Native, SetLeases
  <1>0. row \in Rows /\ lease \in [Leases -> LeaseStates]
      BY DEF Types, ServerType
  <1>1. CASE expire_heartbeat
      <2>1. row'.quar = row.quar /\ row'.state = "unhealthy" /\ row.state \in Counted
          BY <1>0, <1>1 DEF expire_heartbeat, Rows
      <2> QED
          BY <1>1, <2>1, CurrentAtRest DEF expire_heartbeat, In
  <1>2. CASE fail_unacknowledged
      <2>1. row'.quar /\ row'.state = row.state
          BY <1>0, <1>2 DEF fail_unacknowledged, Rows
      <2>2. In(Live) = {} => In(Live)' = {}
          BY <1>2 DEF fail_unacknowledged, In, Live
      <2> QED
          BY <1>2, <2>1, <2>2, CurrentAtRest DEF fail_unacknowledged, Lost
  <1>3. CASE reap_session
      <2>1. row'.quar = row.quar /\ row'.state = "reaped"
          BY <1>0, <1>3 DEF reap_session, Rows
      <2>2. In(Live) = {} => In(Live)' = {}
          BY <1>3 DEF reap_session, In, Live
      <2> QED
          BY <1>3, <2>1, <2>2, CurrentAtRest DEF reap_session, Lost, Counted
  <1>4. CASE drain_session
      <2>1. row'.quar = row.quar /\ row'.state = "draining" /\ row.state = "ready"
          BY <1>0, <1>4 DEF drain_session, Rows
      <2> QED
          BY <1>4, <2>1, CurrentAtRest DEF drain_session, In, Counted
  <1>5. CASE go_silent
      <2>1. row'.quar = row.quar /\ row'.state = row.state
          BY <1>0, <1>5 DEF go_silent, Rows
      <2> QED
          BY <1>5, <2>1, CurrentAtRest DEF go_silent, In
  <1>6. ASSUME NEW l \in Leases, expire_lease(l) PROVE Current'
      <2>1. /\ row.quar => row'.quar
            /\ row'.state \in Counted => row.state \in Counted
            /\ row'.state = "ready" => row.state = "ready"
          BY <1>0, <1>6 DEF expire_lease, Rows, Counted
      <2>2. In(Live) = {} => In(Live)' = {}
          BY <1>6 DEF expire_lease, In, Live
      <2>3. \A m \in Leases : lease'[m] = "failed" => lease[m] = "failed"
          BY <1>6 DEF expire_lease
      <2> QED
          BY <1>6, <2>1, <2>2, <2>3, CurrentAtRest DEF expire_lease
  <1>7. ASSUME NEW l \in Leases, place(l) PROVE Current'
      BY <1>7, CurrentAtRest DEF place
  <1> QED
      BY <1>1, <1>2, <1>3, <1>4, <1>5, <1>6, <1>7

LEMMA CurrentClient ==
    ASSUME Types, Current, NEW l \in Leases, ClientStep(l) \/ client_dies(l)
    PROVE  Current'
  <1>1. UNCHANGED <<host, row>>
      BY DEF ClientStep, client_dies, acquire_project_lease, accept_lease, poll_admission,
             connect_desktop, attach_fails, activate_lease, solve_permit, solve_ends,
             cancel_lease, Native, Server
  <1>2. \A m \in Leases : /\ lease'[m] = "failed" => lease[m] = "failed"
                          /\ lease'[m] \in Live => lease[m] \in Live
      <2>0. lease \in [Leases -> LeaseStates]
          BY DEF Types, ServerType
      <2>1. CASE UNCHANGED lease
          BY <2>1
      <2>2. CASE acquire_project_lease(l)
          BY <2>0, <2>2 DEF acquire_project_lease, SetLeases, Live
      <2>3. CASE accept_lease(l)
          BY <2>0, <2>3 DEF accept_lease, SetLeases, Live
      <2>4. CASE activate_lease(l)
          BY <2>0, <2>4 DEF activate_lease, SetLeases, Live
      <2>5. CASE cancel_lease(l)
          BY <2>0, <2>5 DEF cancel_lease, SetLeases, Live
      <2> QED
          BY <2>1, <2>2, <2>3, <2>4, <2>5
             DEF ClientStep, client_dies, poll_admission, connect_desktop, attach_fails,
                 solve_permit, solve_ends, Server
  <1>3. In(Live) = {} => In(Live)' = {}
      BY <1>2 DEF In
  <1> QED
      BY <1>1, <1>2, <1>3, CurrentAtRest

(* The host anywhere but among the releases has nothing to keep true.      *)
LEMMA CurrentElsewhere == ASSUME host'.pc # "release" PROVE Current'
  BY DEF Current

(* The second fetch: what session_commands says is true when it says it.   *)
LEMMA CurrentRefetched == ASSUME Types, refetch_commands PROVE Current'
  <1>1. PICK grace \in BOOLEAN :
            host' = [host EXCEPT !.pc = "release", !.cmd = session_commands(grace)]
      BY DEF refetch_commands
  <1>2. host'.cmd = session_commands(grace)
      BY <1>1 DEF Types, Hosts
  <1>3. \A l \in host'.cmd.close : lease[l] # "failed"
      BY <1>2 DEF session_commands, In
  <1>4. host'.cmd.stop => row.quar
      BY <1>2 DEF session_commands
  <1>5. host'.cmd.drain => row.state # "ready"
      <2>1. session_commands(grace).drain = (row.state \in {"draining", "unhealthy"})
          BY Zenon DEF session_commands
      <2> QED
          BY <1>2, <2>1
  <1>6. ~host'.cmd.siblings => In(Live) = {}
      <2>1. session_commands(grace).siblings = (In(Live) # {})
          BY Zenon DEF session_commands
      <2> QED
          BY <1>2, <2>1
  <1>7. row' = row /\ lease' = lease
      BY DEF refetch_commands, Server
  <1> QED
      BY <1>3, <1>4, <1>5, <1>6, <1>7 DEF Current, In

LEMMA CurrentHostCalls ==
    ASSUME Types, Current,
           \/ claim_start \/ start_desktop \/ register_session \/ fetch_commands
           \/ prove_gone \/ prove_alive \/ prove_suspect \/ heartbeat_session
           \/ refetch_commands \/ offline_proof \/ raise_in_call
           \/ control_plane_unavailable \/ request_stop
    PROVE  Current'
  <1> USE DEF Native, Server, Answered, Failing
  <1>0. host \in Hosts
      BY DEF Types
  <1>1. CASE claim_start
      BY <1>0, <1>1, HostFields, CurrentElsewhere DEF claim_start, HostSteps
  <1>2. CASE start_desktop
      <2>1. [host EXCEPT !.pc = "register", !.proxy = TRUE].pc = "register"
          BY <1>0 DEF Hosts
      <2> QED
          BY <1>0, <1>2, <2>1, HostFields, CurrentElsewhere
             DEF start_desktop, create_desktop, launch_fails
  <1>3. CASE register_session
      <2>1. host'.pc \in {"register", "fetch"}
          BY <1>0, <1>3, HostFields, HostType DEF register_session, Hosts
      <2> QED
          BY <2>1, CurrentElsewhere
  <1>4. CASE fetch_commands
      <2>1. host'.pc = "prove"
          BY <1>0, <1>4 DEF fetch_commands, Hosts
      <2> QED
          BY <2>1, CurrentElsewhere
  <1>5. CASE prove_gone
      BY <1>0, <1>5, HostFields, CurrentElsewhere DEF prove_gone
  <1>6. CASE prove_alive
      <2>1. host'.pc = "beat"
          BY <1>0, <1>6 DEF prove_alive, To, Hosts
      <2> QED
          BY <2>1, CurrentElsewhere
  <1>7. CASE prove_suspect
      BY <1>0, <1>7, HostFields, CurrentElsewhere DEF prove_suspect
  <1>8. CASE heartbeat_session
      <2>1. host'.pc \in {"beat", "refetch"}
          BY <1>0, <1>8, HostFields DEF heartbeat_session, HostSteps
      <2> QED
          BY <2>1, CurrentElsewhere
  <1>9. CASE refetch_commands
      BY <1>9, CurrentRefetched
  <1>10. CASE offline_proof
      BY <1>0, <1>10, HostFields, CurrentElsewhere DEF offline_proof
  <1>11. CASE raise_in_call
      BY <1>0, <1>11, HostFields, CurrentElsewhere DEF raise_in_call
  <1>12. CASE control_plane_unavailable
      BY <1>0, <1>12, HostFields, CurrentElsewhere DEF control_plane_unavailable, HostSteps
  <1>13. CASE request_stop
      <2>1. host'.pc = host.pc /\ host'.cmd = host.cmd
          BY <1>0, <1>13 DEF request_stop, Hosts
      <2> QED
          BY <1>13, <2>1 DEF request_stop, Current, Lost, In
  <1> QED
      BY <1>1, <1>2, <1>3, <1>4, <1>5, <1>6, <1>7, <1>8, <1>9, <1>10, <1>11, <1>12, <1>13

(* A release is one fewer of what the host was told.                       *)
LEMMA CurrentReleases ==
    ASSUME Types, Current, host.pc = "release",
           host'.cmd.close \subseteq host.cmd.close,
           host'.cmd.stop = host.cmd.stop, host'.cmd.drain = host.cmd.drain,
           host'.cmd.siblings = host.cmd.siblings,
           row.quar => row'.quar,
           row'.state \in Counted => row.state \in Counted,
           row'.state = "ready" => row.state = "ready",
           In(Live) = {} => In(Live)' = {},
           \A l \in Leases : lease'[l] = "failed" => lease[l] = "failed" \/ Lost'
    PROVE  Current'
  <1>1. host.cmd.close \subseteq Leases
      BY DEF Types, Hosts, Commands
  <1>2. Lost => Lost'
      BY DEF Lost
  <1> QED
      BY <1>1, <1>2 DEF Current

LEMMA CurrentHostCloses ==
    ASSUME Types, Current,
           \/ \E l \in Leases : close_project(l) \/ close_fails(l) \/ complete_release(l)
           \/ defer_release \/ act_on_commands \/ bounded_close_desktop \/ report_closed
           \/ desktop_fails \/ host_killed
    PROVE  Current'
  <1> USE DEF Native, Server, Answered, Failing
  <1>0. host \in Hosts /\ row \in Rows /\ lease \in [Leases -> LeaseStates]
      BY DEF Types, ServerType
  <1>1. ASSUME NEW l \in Leases, close_project(l) PROVE Current'
      <2>1. host'.cmd = host.cmd
          BY <1>0, <1>1 DEF close_project, Turn, Hosts
      <2> QED
          BY <1>1, <2>1, CurrentReleases DEF close_project, Turn, In
  <1>2. ASSUME NEW l \in Leases, close_fails(l) PROVE Current'
      <2>1. host'.cmd = host.cmd
          BY <1>0, <1>2 DEF close_fails, Turn, Hosts
      <2> QED
          BY <1>2, <2>1, CurrentReleases DEF close_fails, Turn, In
  <1>3. ASSUME NEW l \in Leases, complete_release(l) PROVE Current'
      <2> DEFINE next == [host EXCEPT !.closed = {}, !.unclosed = {}, !.cmd.close = @ \ {l}]
      <2>1. /\ next.cmd.close \subseteq host.cmd.close /\ next.cmd.stop = host.cmd.stop
            /\ next.cmd.drain = host.cmd.drain /\ next.cmd.siblings = host.cmd.siblings
          BY <1>0 DEF Hosts, Commands
      <2>2. CASE host' = Closing("error")
          BY <1>0, <2>2, HostFields, CurrentElsewhere
      <2>3. CASE host' \in {host, next}
          <3>1. In(Live) = {} => In(Live)' = {}
              BY <1>3 DEF complete_release, SetLeases, In, Live
          <3>2. /\ row.quar => row'.quar
                /\ row'.state \in Counted => row.state \in Counted
                /\ row'.state = "ready" => row.state = "ready"
              BY <1>0, <1>3 DEF complete_release, Rows, Counted
          <3>3. \A m \in Leases : lease'[m] = "failed" => lease[m] = "failed" \/ Lost'
              <4>1. CASE UNCHANGED lease
                  BY <4>1
              <4>2. CASE SetLeases({l}, "released")
                  BY <4>2 DEF SetLeases
              <4>3. CASE row' = IF row.state \in Counted
                                THEN [row EXCEPT !.state = "unhealthy", !.quar = TRUE, !.suspect = ""]
                                ELSE row
                  BY <1>0, <4>3 DEF Rows, Lost
              <4> QED
                  BY <1>3, <4>1, <4>2, <4>3 DEF complete_release
          <3>4. host.pc = "release"
              BY <1>3 DEF complete_release
          <3> HIDE DEF next
          <3> QED
              BY <2>1, <2>3, <3>1, <3>2, <3>3, <3>4, CurrentReleases
      <2> QED
          BY <1>3, <2>2, <2>3 DEF complete_release
  <1>4. CASE defer_release
      BY <1>0, <1>4, HostFields, CurrentElsewhere DEF defer_release
  <1>5. CASE act_on_commands
      <2>1. host'.pc \in {"fetch", "closing"}
          BY <1>0, <1>5, HostFields DEF act_on_commands
      <2> QED
          BY <2>1, CurrentElsewhere
  <1>6. CASE bounded_close_desktop
      <2>1. host'.pc \in {"report", "exit"}
          BY <1>0, <1>6 DEF bounded_close_desktop, To, Hosts
      <2> QED
          BY <2>1, CurrentElsewhere
  <1>7. CASE report_closed
      BY <1>0, <1>7, HostFields, CurrentElsewhere DEF report_closed, HostSteps
  <1>8. CASE desktop_fails
      BY <1>8, CurrentAtRest DEF desktop_fails, In
  <1>9. CASE host_killed
      BY <1>0, <1>9, HostFields, CurrentElsewhere DEF host_killed, HostSteps
  <1> QED
      BY <1>1, <1>2, <1>3, <1>4, <1>5, <1>6, <1>7, <1>8, <1>9

LEMMA CurrentNext == Types /\ Current /\ [Next]_vars => Current'
  <1> SUFFICES ASSUME Types, Current, [Next]_vars PROVE Current'
      OBVIOUS
  <1>1. CASE UNCHANGED vars
      BY <1>1 DEF vars, Current, Lost, In
  <1>2. CASE HostLoop
      BY <1>2, CurrentHostCalls, CurrentHostCloses DEF HostLoop
  <1>3. CASE Tick
      BY <1>3, CurrentServer DEF Tick
  <1>4. CASE Environment
      BY <1>4, CurrentServer, CurrentHostCalls, CurrentHostCloses, CurrentClient
         DEF Environment
  <1>5. ASSUME NEW l \in Leases, ClientStep(l) PROVE Current'
      BY <1>5, CurrentClient
  <1> QED
      BY <1>1, <1>2, <1>3, <1>4, <1>5 DEF Next

(* Whoever begins to close the Desktop has a reason, or nobody solves.     *)
Reason == row.quar \/ host.stop \/ desktop # "up" \/ row.state \notin Counted

LEMMA ClosesWithReason ==
    ASSUME Types, Launched, Told, Current, Next, host.pc # "closing", host'.pc = "closing"
    PROVE  Reason \/ In({"active"}) = {}
  <1> USE DEF Native, Server, Answered, Failing
  <1>0. host \in Hosts
      BY DEF Types
  <1>1. CASE raise_in_call
      BY <1>1 DEF raise_in_call, Launched, Serving, Reason, Counted
  <1>2. CASE control_plane_unavailable
      BY <1>0, <1>2, HostFields DEF control_plane_unavailable, HostSteps, Reason
  <1>3. CASE offline_proof
      BY <1>0, <1>3, HostFields DEF offline_proof, Reason
  <1>4. CASE start_desktop
      BY <1>4 DEF start_desktop, Launched, Reason
  <1>5. CASE prove_gone
      BY <1>5 DEF prove_gone, Reason
  <1>6. ASSUME NEW l \in Leases, close_fails(l) PROVE FALSE
      BY <1>0, <1>6 DEF close_fails, Turn, Hosts
  <1>7. ASSUME NEW l \in Leases, complete_release(l) PROVE Reason
      <2> DEFINE next == [host EXCEPT !.closed = {}, !.unclosed = {}, !.cmd.close = @ \ {l}]
      <2>1. next.pc = host.pc
          BY <1>0 DEF Hosts
      <2>2. host' \notin {host, next}
          BY <2>1
      <2>3. host.stop \/ lease[l] \notin {"releasing", "released"}
          BY <1>7, <2>2 DEF complete_release
      <2>4. host.pc = "release" /\ l \in host.cmd.close
          BY <1>7 DEF complete_release, Told
      <2> QED
          BY <2>3, <2>4 DEF Told, OnTheWayOut, Current, Lost, Reason
  <1>8. CASE act_on_commands
      <2>1. CASE host.cmd.stop
          BY <1>8, <2>1 DEF act_on_commands, Current, Reason
      <2>2. CASE host.cmd.drain /\ ~host.cmd.siblings
          BY <1>8, <2>2 DEF act_on_commands, Current, In, Live
      <2>3. CASE ~host.cmd.stop /\ ~(host.cmd.drain /\ ~host.cmd.siblings)
          <3>1. Fetching.pc = "fetch"
              BY <1>0, HostFields
          <3> QED
              BY <1>8, <2>3, <3>1 DEF act_on_commands, Reason
      <2> QED
          BY <2>1, <2>2, <2>3
  <1>9. CASE \/ claim_start \/ register_session \/ fetch_commands \/ prove_alive
              \/ prove_suspect \/ heartbeat_session \/ refetch_commands
      <2>1. [Fetching EXCEPT !.token = TRUE].pc = "fetch"
          BY <1>0, HostFields, HostType DEF Hosts
      <2>2. fetch_commands => host'.pc = "prove"
          BY <1>0 DEF fetch_commands, Hosts
      <2>3. refetch_commands => host'.pc = "release"
          BY <1>0 DEF refetch_commands, Hosts
      <2>4. prove_alive => host'.pc = "beat"
          BY <1>0 DEF prove_alive, Hosts, To
      <2> QED
          BY <1>0, <1>9, <2>1, <2>2, <2>3, <2>4, HostFields
             DEF claim_start, register_session, prove_suspect, heartbeat_session, HostSteps
  <1>10. ASSUME NEW l \in Leases, close_project(l) PROVE FALSE
      BY <1>0, <1>10 DEF close_project, Turn, Hosts
  <1>11. CASE defer_release \/ report_closed \/ host_killed
      BY <1>0, <1>11, HostFields DEF defer_release, report_closed, host_killed, HostSteps
  <1>12. CASE bounded_close_desktop
      BY <1>12 DEF bounded_close_desktop
  <1>13. CASE request_stop
      BY <1>0, <1>13 DEF request_stop, Hosts
  <1>14. CASE UNCHANGED host
      BY <1>14
  <1>15. CASE Tick \/ desktop_fails \/ drain_session \/ go_silent
      BY <1>14, <1>15 DEF Tick, expire_heartbeat, fail_unacknowledged, reap_session,
             expire_lease, desktop_fails, drain_session, go_silent
  <1>16. ASSUME NEW l \in Leases, ClientStep(l) \/ client_dies(l) \/ place(l) PROVE UNCHANGED host
      BY <1>16 DEF ClientStep, client_dies, place, acquire_project_lease, accept_lease,
             poll_admission, connect_desktop, attach_fails, activate_lease, solve_permit,
             solve_ends, cancel_lease
  <1> QED
      BY <1>1, <1>2, <1>3, <1>4, <1>5, <1>6, <1>7, <1>8, <1>9, <1>10, <1>11, <1>12, <1>13,
         <1>14, <1>15, <1>16 DEF Next, HostLoop, Environment

(* _desktop_liveness_proof_for_commands, release-complete and the end of   *)
(* the loop, for any number of clients and any faults: the host never      *)
(* takes down a Desktop under a client that solves with an active lease,   *)
(* unless it is quarantined, was told to stop, or lost its session.        *)
THEOREM SolvesSurvive == Spec => HealthySolveSurvives
  <1> DEFINE Survives ==
        host.pc # "closing" /\ host'.pc = "closing" =>
            \A l \in Leases : client[l] = "solve" /\ lease[l] = "active" =>
                \/ row.quar \/ host.stop \/ desktop # "up" \/ row.state \notin Counted
  <1>1. Init => Handover /\ Launched /\ Current
      <2> SUFFICES ASSUME Init PROVE Launched /\ Current
          BY HandoverInit
      <2>1. host.pc = "claim" /\ desktop = "none" /\ ~row.registered
          BY DEF Init
      <2> QED
          BY <2>1 DEF Launched, Serving, Current
  <1>2. Handover /\ Launched /\ [Next]_vars => Launched'
      BY LaunchedNext DEF Handover
  <1>3. Handover /\ Current /\ [Next]_vars => Current'
      BY CurrentNext DEF Handover
  <1>4. Handover /\ Launched /\ Current /\ [Next]_vars => [Survives]_vars
      BY ClosesWithReason DEF Handover, Reason, In
  <1>5. Spec => [][Survives]_vars
      BY <1>1, <1>2, <1>3, <1>4, HandoverNext, PTL DEF Spec
  <1> QED
      BY <1>5 DEF HealthySolveSurvives
=============================================================================
