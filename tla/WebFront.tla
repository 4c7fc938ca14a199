------------------------------ MODULE WebFront ------------------------------
(***************************************************************************)
(* What a request passes before a worker thread of the scheduler's web     *)
(* process serves it.  Dashboards come directly and meet the read guard:   *)
(* bulk reads with one cache key share one answer, and what is left is     *)
(* bounded.  Compute nodes come through the relay of the login node and    *)
(* the channel that bridges the tunnel, which have slots of their own;     *)
(* their heartbeats pass the guard untouched.                              *)
(*                                                                         *)
(* The guard runs on one event loop: what lies between two awaits is one   *)
(* step.  The bridge is a thread.                                          *)
(***************************************************************************)
EXTENDS Naturals, FiniteSets

CONSTANTS
    Bulk,           \* reads of the dashboard or the task inventory, of one key
    Detail,         \* reads of one task
    Plain,          \* reads of every other page, which the guard lets pass
    Control,        \* requests of the compute nodes, through the relay
    Workers,        \* worker threads for endpoints
    MaxRequests,    \* limit_concurrency: requests the server takes in
    MaxBulk, MaxDetail,         \* max_bulk_concurrency, max_task_detail_concurrency
    RelaySlots, ChannelSlots,   \* the two BoundedSemaphores
    Nobody,         \* no request
    Scenarios       \* what comes in one behaviour, and what may go wrong in it

ASSUME WebAssumptions ==
    /\ \A S \in {Bulk, Detail, Plain, Control} : IsFiniteSet(S)
    /\ \A S, T \in {Bulk, Detail, Plain, Control} : S # T => S \cap T = {}
    /\ Nobody \notin Bulk
    /\ MaxRequests \in Nat \ {0}
    /\ MaxBulk \in Nat \ {0} /\ MaxDetail \in Nat \ {0}
    /\ Workers \in Nat /\ Workers > MaxBulk + MaxDetail
    /\ RelaySlots \in Nat \ {0} /\ ChannelSlots \in Nat \ {0}

Reads == Bulk \cup Detail
Requests == Reads \cup Plain \cup Control

VARIABLES
    faults,     \* what may go wrong in this behaviour
    at,         \* where each request is in the web process
    leader,     \* the request whose answer a bulk read waits for; itself if it leads
    result,     \* the future of each leader
    inflight,   \* the leader that others join, if any
    cached,     \* the cache has an answer that has not expired
    admitted,   \* the permits of the two asyncio semaphores in use
    busy,       \* worker threads in use
    tunnel,     \* the tunnel is up
    hop,        \* where each node's request is on its way
    relayFree, channelFree      \* free slots of the relay and of the bridge

vars == <<faults, at, leader, result, inflight, cached, admitted, busy, tunnel, hop,
          relayFree, channelFree>>
guard == <<leader, result, inflight, cached>>
way == <<tunnel, hop, relayFree, channelFree>>

Places == {"new", "follow", "wait", "thread", "app", "hung", "done", "failed"}
Hops == {"node", "accepted", "relay", "channel", "bridge", "back", "over"}

Kind(r) == IF r \in Bulk THEN "bulk" ELSE "detail"
Limit(k) == IF k = "bulk" THEN MaxBulk ELSE MaxDetail
Ended(r) == at[r] \in {"done", "failed"}
Move(r, place) == at' = [at EXCEPT ![r] = place]

(* uvicorn counts the requests it has taken in, and answers 503 from there *)
(* on.                                                                     *)
Full == Cardinality({r \in Requests : at[r] \in {"follow", "wait", "thread", "app", "hung"}})
            >= MaxRequests

(* A dashboard's request is turned away.                                   *)
turn_away(r) ==
    /\ r \in Reads \cup Plain /\ at[r] = "new" /\ Full /\ Move(r, "failed")
    /\ UNCHANGED <<faults, admitted, busy>> /\ UNCHANGED guard /\ UNCHANGED way

-----------------------------------------------------------------------------
(* The guard.                                                              *)

(* A bulk read finds an answer, joins the read under way, or leads one.    *)
bulk_read(r) ==
    /\ r \in Bulk /\ at[r] = "new" /\ ~Full
    /\ IF cached THEN Move(r, "done") /\ UNCHANGED <<leader, inflight>>
       ELSE IF inflight # Nobody
       THEN /\ Move(r, "follow") /\ leader' = [leader EXCEPT ![r] = inflight]
            /\ UNCHANGED inflight
       ELSE /\ Move(r, "wait") /\ leader' = [leader EXCEPT ![r] = r]
            /\ inflight' = r
    /\ UNCHANGED <<faults, result, cached, admitted, busy>> /\ UNCHANGED way

detail_read(r) ==
    /\ r \in Detail /\ at[r] = "new" /\ ~Full /\ Move(r, "wait")
    /\ UNCHANGED <<faults, admitted, busy>> /\ UNCHANGED guard /\ UNCHANGED way

plain_read(r) ==
    /\ r \in Plain /\ at[r] = "new" /\ ~Full /\ Move(r, "thread")
    /\ UNCHANGED <<faults, admitted, busy>> /\ UNCHANGED guard /\ UNCHANGED way

(* Mutant: who retries after a failed leader passes the bound by.          *)
follow_unbounded(r) ==
    /\ at[r] = "follow" /\ result[leader[r]] # "pending"
    /\ Move(r, CASE result[leader[r]] = "messages" -> "done"
                 [] result[leader[r]] = "none" -> "thread"
                 [] OTHER -> "failed")
    /\ admitted' = IF result[leader[r]] = "none" THEN [admitted EXCEPT !.bulk = @ + 1] ELSE admitted
    /\ UNCHANGED <<faults, busy>> /\ UNCHANGED guard /\ UNCHANGED way

(* A follower takes the leader's answer, or retries within the bound; a    *)
(* future that was cancelled ends it.                                      *)
follow(r) ==
    /\ at[r] = "follow" /\ result[leader[r]] # "pending"
    /\ Move(r, CASE result[leader[r]] = "messages" -> "done"
                 [] result[leader[r]] = "none" -> "wait"
                 [] OTHER -> "failed")
    /\ UNCHANGED <<faults, admitted, busy>> /\ UNCHANGED guard /\ UNCHANGED way

(* _bounded_call.                                                          *)
bounded_call(r) ==
    /\ at[r] = "wait" /\ admitted[Kind(r)] < Limit(Kind(r))
    /\ admitted' = [admitted EXCEPT ![Kind(r)] = @ + 1]
    /\ Move(r, "thread")
    /\ UNCHANGED <<faults, busy>> /\ UNCHANGED guard /\ UNCHANGED way

(* The endpoint gets a thread of the pool.                                 *)
take_thread(r) ==
    /\ at[r] = "thread" /\ busy < Workers
    /\ busy' = busy + 1
    /\ Move(r, "app")
    /\ UNCHANGED <<faults, admitted>> /\ UNCHANGED guard /\ UNCHANGED way

(* The database does not answer for as long as anyone looks.               *)
hang(r) ==
    /\ "hang" \in faults /\ r \in Reads /\ at[r] = "app" /\ Move(r, "hung")
    /\ UNCHANGED <<faults, admitted, busy>> /\ UNCHANGED guard /\ UNCHANGED way

Leads(r) == r \in Bulk /\ leader[r] = r

Returned(r) ==
    /\ busy' = busy - 1
    /\ admitted' = IF r \in Reads THEN [admitted EXCEPT ![Kind(r)] = @ - 1] ELSE admitted

(* The leader lets its future go: an answer, or none.                      *)
Settle(r, answer) ==
    IF Leads(r)
    THEN /\ inflight' = Nobody
         /\ result' = [result EXCEPT ![r] = IF @ = "pending" THEN answer ELSE @]
    ELSE UNCHANGED <<inflight, result>>

(* The answer: the leader stores it, if it may be cached, and wakes the    *)
(* followers.                                                              *)
respond(r) ==
    /\ at[r] = "app" /\ Returned(r) /\ Move(r, "done")
    /\ Settle(r, "messages")
    /\ cached' \in IF Leads(r) THEN {cached, TRUE} ELSE {cached}
    /\ UNCHANGED <<faults, leader>> /\ UNCHANGED way

(* The except branch: nothing was produced, the followers learn so.        *)
raise(r) ==
    /\ "raise" \in faults /\ at[r] = "app" /\ Returned(r) /\ Move(r, "failed")
    /\ Settle(r, "none")
    /\ UNCHANGED <<faults, leader, cached>> /\ UNCHANGED way

(* Mutant: the except branch sees exceptions, not a cancellation.          *)
cancel_forgets_followers(r) ==
    /\ "cancel" \in faults /\ at[r] \in {"wait", "thread"} /\ Move(r, "failed")
    /\ admitted' = IF at[r] = "thread" /\ r \in Reads
                   THEN [admitted EXCEPT ![Kind(r)] = @ - 1] ELSE admitted
    /\ UNCHANGED <<faults, leader, cached, result, inflight, busy>> /\ UNCHANGED way

(* The server cancels a request that waits for a permit or for a thread    *)
(* (an endpoint that runs is not interrupted): BaseException too.          *)
cancel(r) ==
    /\ "cancel" \in faults /\ at[r] \in {"wait", "thread"} /\ Move(r, "failed")
    /\ admitted' = IF at[r] = "thread" /\ r \in Reads
                   THEN [admitted EXCEPT ![Kind(r)] = @ - 1] ELSE admitted
    /\ Settle(r, "none")
    /\ UNCHANGED <<faults, leader, cached, busy>> /\ UNCHANGED way

(* Cancelling a follower cancels the future it awaits, for all of them.    *)
cancel_follower(r) ==
    /\ "cancel" \in faults /\ at[r] = "follow" /\ Move(r, "failed")
    /\ result' = [result EXCEPT ![leader[r]] = IF @ = "pending" THEN "cancelled" ELSE @]
    /\ UNCHANGED <<faults, leader, cached, inflight, admitted, busy>> /\ UNCHANGED way

(* The TTL passes, or another key takes the place.                         *)
expire ==
    /\ cached /\ cached' = FALSE
    /\ UNCHANGED <<faults, at, leader, result, inflight, admitted, busy>> /\ UNCHANGED way

-----------------------------------------------------------------------------
(* The way of a node's request.                                            *)

HopTo(c, place) == hop' = [hop EXCEPT ![c] = place]

(* process_request of the relay: a slot, or 503.                           *)
process_request(c) ==
    /\ hop[c] = "node"
    /\ IF relayFree > 0 THEN relayFree' = relayFree - 1 /\ HopTo(c, "accepted")
       ELSE HopTo(c, "over") /\ UNCHANGED relayFree
    /\ UNCHANGED <<faults, at, admitted, busy, tunnel, channelFree>> /\ UNCHANGED guard

(* Mutant: the slot is left to the thread, which never came to be.         *)
process_request_starts_without_except(c) ==
    /\ hop[c] = "accepted"
    /\ \/ HopTo(c, "relay")
       \/ "thread" \in faults /\ HopTo(c, "over")
    /\ UNCHANGED <<faults, at, admitted, busy, tunnel, relayFree, channelFree>> /\ UNCHANGED guard

(* It starts the thread of the handler, which has the slot from now on, or *)
(* gives it back itself: the system has no thread left.                    *)
process_request_starts(c) ==
    /\ hop[c] = "accepted"
    /\ \/ HopTo(c, "relay") /\ UNCHANGED relayFree
       \/ "thread" \in faults /\ HopTo(c, "over") /\ relayFree' = relayFree + 1
    /\ UNCHANGED <<faults, at, admitted, busy, tunnel, channelFree>> /\ UNCHANGED guard

(* handle: what is not one well-framed request for an allowed path is      *)
(* answered here, and so is everything while the tunnel is down.           *)
refuse(c) ==
    /\ hop[c] = "relay" /\ ("bad" \in faults \/ ~tunnel)
    /\ HopTo(c, "over") /\ relayFree' = relayFree + 1
    /\ UNCHANGED <<faults, at, admitted, busy, tunnel, channelFree>> /\ UNCHANGED guard

(* _handle_forwarded_channel: a slot for the channel, or 503.              *)
handle_forwarded_channel(c) ==
    /\ hop[c] = "relay" /\ tunnel
    /\ IF channelFree > 0
       THEN channelFree' = channelFree - 1 /\ HopTo(c, "channel")
       ELSE HopTo(c, "back") /\ UNCHANGED channelFree
    /\ UNCHANGED <<faults, at, admitted, busy, tunnel, relayFree>> /\ UNCHANGED guard

(* The thread of the bridge, which has the slot from now on.               *)
bridge_starts(c) ==
    /\ hop[c] = "channel" /\ HopTo(c, "bridge")
    /\ UNCHANGED <<faults, at, admitted, busy, tunnel, relayFree, channelFree>> /\ UNCHANGED guard

(* There is no thread for it: the callback gives the slot back and raises  *)
(* in the thread of the transport, which ends with it.                     *)
bridge_does_not_start(c) ==
    /\ hop[c] = "channel" /\ "thread" \in faults
    /\ HopTo(c, "back") /\ channelFree' = channelFree + 1 /\ tunnel' = FALSE
    /\ UNCHANGED <<faults, at, admitted, busy, relayFree>> /\ UNCHANGED guard

(* _bridge_channel checks once more and connects to the listener.          *)
bridge_channel(c) ==
    /\ hop[c] = "bridge" /\ at[c] = "new" /\ tunnel
    /\ Move(c, IF Full THEN "failed" ELSE "thread")
    /\ UNCHANGED <<faults, admitted, busy>> /\ UNCHANGED guard /\ UNCHANGED way

(* The bridge ends with the answer, a refusal of its own, the channel, or  *)
(* a timeout of the local read; the endpoint goes on without it.           *)
bridge_ends(c) ==
    /\ hop[c] = "bridge"
    /\ Ended(c) \/ ~tunnel \/ "timeout" \in faults \/ ("bad" \in faults /\ at[c] = "new")
    /\ HopTo(c, "back")
    /\ channelFree' = channelFree + 1
    /\ UNCHANGED <<faults, at, admitted, busy, tunnel, relayFree>> /\ UNCHANGED guard

process_request_thread_ends(c) ==
    /\ hop[c] = "back" /\ HopTo(c, "over")
    /\ relayFree' = relayFree + 1
    /\ UNCHANGED <<faults, at, admitted, busy, tunnel, channelFree>> /\ UNCHANGED guard

(* _teardown_locked closes every channel; a new tunnel follows.            *)
tunnel_drops ==
    /\ "tunnel" \in faults /\ tunnel
    /\ tunnel' = FALSE /\ faults' = faults \ {"tunnel"}
    /\ UNCHANGED <<at, admitted, busy, hop, relayFree, channelFree>> /\ UNCHANGED guard

tunnel_returns ==
    /\ ~tunnel /\ tunnel' = TRUE
    /\ UNCHANGED <<faults, at, admitted, busy, hop, relayFree, channelFree>> /\ UNCHANGED guard

-----------------------------------------------------------------------------
Init ==
    /\ \E s \in Scenarios :
          /\ faults = s.faults
          /\ at = [r \in Requests |-> IF r \in s.load THEN "new" ELSE "done"]
          /\ hop = [c \in Control |-> IF c \in s.load THEN "node" ELSE "over"]
    /\ leader = [r \in Bulk |-> Nobody]
    /\ result = [r \in Bulk |-> "pending"]
    /\ inflight = Nobody /\ cached = FALSE
    /\ admitted = [bulk |-> 0, detail |-> 0] /\ busy = 0
    /\ tunnel = TRUE
    /\ relayFree = RelaySlots /\ channelFree = ChannelSlots

Serve(r) ==
    \/ turn_away(r) \/ bulk_read(r) \/ detail_read(r) \/ plain_read(r)
    \/ (r \in Bulk /\ follow(r))
    \/ (r \in Reads /\ bounded_call(r)) \/ take_thread(r) \/ respond(r) \/ raise(r)

Pass(c) ==
    \/ process_request(c) \/ process_request_starts(c) \/ refuse(c)
    \/ handle_forwarded_channel(c) \/ bridge_starts(c) \/ bridge_does_not_start(c)
    \/ bridge_channel(c) \/ bridge_ends(c) \/ process_request_thread_ends(c)

Next ==
    \/ \E r \in Requests : Serve(r)
    \/ \E r \in Reads : hang(r)
    \/ \E r \in Reads \cup Plain : cancel(r)
    \/ \E r \in Bulk : cancel_follower(r)
    \/ \E c \in Control : Pass(c)
    \/ expire \/ tunnel_drops \/ tunnel_returns

Spec == Init /\ [][Next]_vars

(* The event loop and the threads go on.                                   *)
FairSpec ==
    /\ Spec
    /\ \A r \in Requests : WF_vars(Serve(r))
    /\ \A c \in Control : WF_vars(Pass(c))
    /\ WF_vars(tunnel_returns)

-----------------------------------------------------------------------------
(* Properties.                                                             *)

(* The shape of the state, for every fault the instance can meet.          *)
TypeOK ==
    /\ at \in [Requests -> Places]
    /\ leader \in [Bulk -> Bulk \cup {Nobody}]
    /\ result \in [Bulk -> {"pending", "messages", "none", "cancelled"}]
    /\ inflight \in Bulk \cup {Nobody} /\ cached \in BOOLEAN
    /\ admitted \in [bulk : 0..MaxBulk, detail : 0..MaxDetail]
    /\ busy \in 0..Workers
    /\ tunnel \in BOOLEAN /\ hop \in [Control -> Hops]
    /\ relayFree \in 0..RelaySlots /\ channelFree \in 0..ChannelSlots

(* A slot of the relay or of the bridge is taken by the thread that        *)
(* accepts and given back by another, or by the first when there is no     *)
(* other: none is lost or given back twice, however a request ends: an     *)
(* answer, a refusal, a full pool, a channel that is closed under it, a    *)
(* timeout, a thread that does not start.                                  *)
SlotsAreReturned ==
    /\ relayFree + Cardinality({c \in Control : hop[c] \notin {"node", "over"}}) = RelaySlots
    /\ channelFree + Cardinality({c \in Control : hop[c] \in {"channel", "bridge"}}) = ChannelSlots

(* A node's request that the server took in gets a worker thread and is    *)
(* served, even when every read of the dashboard, the inventory or a task  *)
(* that has a thread hangs for ever, and those that retry after a failed   *)
(* leader do too.  The pages the guard lets pass only compete with it:     *)
(* they have no bound of their own, so they must not hang.                 *)
ControlIsServed ==
    \A c \in Control : at[c] = "thread" ~> Ended(c)

(* "Keep expensive dashboard reads from starving control-plane traffic"    *)
(* (web_read_guard.py:16).  Refuted by WebStarved.cfg: reads that wait in  *)
(* the guard count as requests of the server, so a node meets its 503.     *)
NodesAreTakenIn ==
    \A c \in Control : hop[c] = "bridge" /\ at[c] = "new" => ~Full

(* No read waits for ever when the endpoints end, with an answer or with   *)
(* an exception: the leader's failure, or its cancellation while it waits  *)
(* for a permit itself, wakes those who follow it.                         *)
ReadsEnd ==
    "hang" \notin faults => <>(\A r \in Reads : Ended(r))
=============================================================================
