--------------------------- MODULE AutomationLock ---------------------------
(***************************************************************************)
(* SessionAutomationLock (aedt_automation_lock): the lock that serialises  *)
(* Desktop-global AEDT automation between the threads of a session host    *)
(* and the clients of several accounts on several nodes.                   *)
(*                                                                         *)
(* Four layers are taken in one order and given back in reverse: the       *)
(* RLock of the instance, the gate of the path in this process, a flock    *)
(* on the open descriptor (seen on one node only) and a POSIX record lock  *)
(* (seen in the whole cluster, but owned by the process: closing any       *)
(* descriptor of the file gives it up).                                    *)
(***************************************************************************)
EXTENDS Naturals

CONSTANTS Threads, Instances, Processes, Nodes,
          InstanceOf,   \* the lock object each thread uses
          ProcessOf,    \* the process each lock object lives in
          NodeOf,       \* the node each process runs on
          MaxDepth,     \* how deep a thread nests its use of the lock
          None

ASSUME LayersAssumption ==
    /\ InstanceOf \in [Threads -> Instances]
    /\ ProcessOf \in [Instances -> Processes]
    /\ NodeOf \in [Processes -> Nodes]
    /\ MaxDepth \in Nat \ {0}
    /\ None \notin Threads \cup Instances \cup Processes

VARIABLES
    pc,       \* where each thread stands
    local,    \* the RLock of each instance: its owner and its count
    depth,    \* _depth of each instance
    gate,     \* the instance that holds the gate of each process
    flock,    \* the thread whose descriptor holds the flock, on each node
    record,   \* the process that owns the record lock
    saved     \* the nesting a thread gave up for a native solve

vars == <<pc, local, depth, gate, flock, record, saved>>

Proc(t) == ProcessOf[InstanceOf[t]]
Node(t) == NodeOf[Proc(t)]

Steps == {"idle", "gate", "open", "flock", "lockf", "held", "unlock", "unflock",
          "close", "ungate", "unlocal", "native", "dead"}

To(t, step) == pc' = [pc EXCEPT ![t] = step]

-----------------------------------------------------------------------------
(* acquire, layer by layer.                                                *)

(* The RLock; it is reentrant, and a nested use stops here.                *)
acquire_local(t) ==
    LET i == InstanceOf[t]
    IN  /\ pc[t] \in {"idle", "native"}
        /\ local[i] = [owner |-> None, count |-> 0]
        /\ local' = [local EXCEPT ![i] = [owner |-> t, count |-> 1]]
        /\ To(t, "gate")
        /\ UNCHANGED <<depth, gate, flock, record, saved>>

acquire_nested(t) ==
    LET i == InstanceOf[t]
    IN  /\ pc[t] = "held" /\ depth[i] < MaxDepth
        /\ local' = [local EXCEPT ![i].count = @ + 1]
        /\ depth' = [depth EXCEPT ![i] = @ + 1]
        /\ UNCHANGED <<pc, gate, flock, record, saved>>

(* Mutant: a second instance of the process may open the file.             *)
acquire_gate_of_each_instance(t) ==
    /\ pc[t] = "gate"
    /\ gate' = [gate EXCEPT ![Proc(t)] = InstanceOf[t]]
    /\ To(t, "open")
    /\ UNCHANGED <<local, depth, flock, record, saved>>

acquire_gate(t) ==
    /\ pc[t] = "gate" /\ gate[Proc(t)] = None
    /\ gate' = [gate EXCEPT ![Proc(t)] = InstanceOf[t]]
    /\ To(t, "open")
    /\ UNCHANGED <<local, depth, flock, record, saved>>

(* _open_existing: the marker may have gone, or may not be the one file    *)
(* the host created.                                                       *)
open_existing(t) ==
    /\ pc[t] = "open"
    /\ To(t, "flock")
    /\ UNCHANGED <<local, depth, gate, flock, record, saved>>

open_fails(t) ==
    /\ pc[t] = "open"
    /\ To(t, "ungate")
    /\ saved' = [saved EXCEPT ![t] = 0]
    /\ UNCHANGED <<local, depth, gate, flock, record>>

(* _try_lock: without blocking, the flock and then the record lock, which  *)
(* the kernel also grants to the process that has it already.              *)
try_flock(t) ==
    /\ pc[t] = "flock" /\ flock[Node(t)] = None
    /\ flock' = [flock EXCEPT ![Node(t)] = t]
    /\ To(t, "lockf")
    /\ UNCHANGED <<local, depth, gate, record, saved>>

try_lockf(t) ==
    /\ pc[t] = "lockf"
    /\ \/ /\ record \in {None, Proc(t)}
          /\ record' = Proc(t)
          /\ depth' = [depth EXCEPT ![InstanceOf[t]] = 1]
          /\ To(t, "held")
          /\ UNCHANGED flock
       \/ /\ record \notin {None, Proc(t)}
          /\ flock' = [flock EXCEPT ![Node(t)] = None]
          /\ To(t, "flock")
          /\ UNCHANGED <<record, depth>>
    /\ UNCHANGED <<local, gate, saved>>

(* Mutant: one acquire per level on top of the first one.                  *)
resume_nested_once_more(t) ==
    LET i == InstanceOf[t]
    IN  /\ pc[t] = "held" /\ saved[t] > 0
        /\ local' = [local EXCEPT ![i].count = 1 + saved[t]]
        /\ depth' = [depth EXCEPT ![i] = 1 + saved[t]]
        /\ saved' = [saved EXCEPT ![t] = 0]
        /\ UNCHANGED <<pc, gate, flock, record>>

(* After suspended() the nesting is taken again, one acquire per level.    *)
resume_nested(t) ==
    LET i == InstanceOf[t]
    IN  /\ pc[t] = "held" /\ saved[t] > 0
        /\ local' = [local EXCEPT ![i].count = saved[t]]
        /\ depth' = [depth EXCEPT ![i] = saved[t]]
        /\ saved' = [saved EXCEPT ![t] = 0]
        /\ UNCHANGED <<pc, gate, flock, record>>

(* A deadline that passes while the thread waits for the gate or polls:    *)
(* what was taken by then is given back, and the caller sees an exception  *)
(* that also ends the suspension it may have been coming from.             *)
time_out(t) ==
    /\ \/ pc[t] = "gate" /\ To(t, "unlocal")
       \/ pc[t] = "flock" /\ To(t, "close")
    /\ saved' = [saved EXCEPT ![t] = 0]
    /\ UNCHANGED <<local, depth, gate, flock, record>>

(* The wait for the RLock itself may end so as well; when it was the       *)
(* reacquisition after a native solve, the caller's own release finds      *)
(* nothing held and raises too.                                            *)
give_up(t) ==
    /\ pc[t] = "native" /\ local[InstanceOf[t]].owner # None
    /\ To(t, "idle")
    /\ saved' = [saved EXCEPT ![t] = 0]
    /\ UNCHANGED <<local, depth, gate, flock, record>>

-----------------------------------------------------------------------------
(* release, in reverse.                                                    *)

release_nested(t) ==
    LET i == InstanceOf[t]
    IN  /\ pc[t] = "held" /\ saved[t] = 0 /\ depth[i] > 1
        /\ depth' = [depth EXCEPT ![i] = @ - 1]
        /\ local' = [local EXCEPT ![i].count = @ - 1]
        /\ UNCHANGED <<pc, gate, flock, record, saved>>

release(t) ==
    LET i == InstanceOf[t]
    IN  /\ pc[t] = "held" /\ saved[t] = 0 /\ depth[i] = 1
        /\ depth' = [depth EXCEPT ![i] = 0]
        /\ To(t, "unlock")
        /\ UNCHANGED <<local, gate, flock, record, saved>>

(* suspended(): every level is released for the time of a native solve.    *)
suspend(t) ==
    LET i == InstanceOf[t]
    IN  /\ pc[t] = "held" /\ saved[t] = 0
        /\ saved' = [saved EXCEPT ![t] = depth[i]]
        /\ depth' = [depth EXCEPT ![i] = 0]
        /\ local' = [local EXCEPT ![i].count = 1]
        /\ To(t, "unlock")
        /\ UNCHANGED <<gate, flock, record>>

unlock_record(t) ==
    /\ pc[t] = "unlock"
    /\ record' = IF record = Proc(t) THEN None ELSE record
    /\ To(t, "unflock")
    /\ UNCHANGED <<local, depth, gate, flock, saved>>

unlock_flock(t) ==
    /\ pc[t] = "unflock"
    /\ flock' = [flock EXCEPT ![Node(t)] = IF @ = t THEN None ELSE @]
    /\ To(t, "close")
    /\ UNCHANGED <<local, depth, gate, record, saved>>

(* The kernel drops every record lock of the process with the descriptor.  *)
close_descriptor(t) ==
    /\ pc[t] = "close"
    /\ record' = IF record = Proc(t) THEN None ELSE record
    /\ flock' = [flock EXCEPT ![Node(t)] = IF @ = t THEN None ELSE @]
    /\ To(t, "ungate")
    /\ UNCHANGED <<local, depth, gate, saved>>

(* Mutant: only what release() took for granted gives the gate back.       *)
release_gate_of_holder(t) ==
    /\ pc[t] = "ungate"
    /\ gate' = [gate EXCEPT ![Proc(t)] = IF record = None THEN None ELSE @]
    /\ To(t, "unlocal")
    /\ UNCHANGED <<local, depth, flock, record, saved>>

release_gate(t) ==
    /\ pc[t] = "ungate"
    /\ gate' = [gate EXCEPT ![Proc(t)] = None]
    /\ To(t, "unlocal")
    /\ UNCHANGED <<local, depth, flock, record, saved>>

release_local(t) ==
    LET i == InstanceOf[t]
    IN  /\ pc[t] = "unlocal"
        /\ local' = [local EXCEPT ![i] =
                        IF @.count = 1 THEN [owner |-> None, count |-> 0]
                        ELSE [@ EXCEPT !.count = @ - 1]]
        /\ To(t, IF saved[t] > 0 THEN "native" ELSE "idle")
        /\ UNCHANGED <<depth, gate, flock, record, saved>>

-----------------------------------------------------------------------------
(* A process is killed: its memory goes, the kernel closes its files.      *)
die(p) ==
    /\ \E t \in Threads : Proc(t) = p /\ pc[t] # "dead"
    /\ pc' = [t \in Threads |-> IF Proc(t) = p THEN "dead" ELSE pc[t]]
    /\ record' = IF record = p THEN None ELSE record
    /\ flock' = [n \in Nodes |->
                    IF flock[n] # None /\ Proc(flock[n]) = p THEN None ELSE flock[n]]
    /\ gate' = [gate EXCEPT ![p] = None]
    /\ local' = [i \in Instances |->
                    IF ProcessOf[i] = p THEN [owner |-> None, count |-> 0] ELSE local[i]]
    /\ depth' = [i \in Instances |-> IF ProcessOf[i] = p THEN 0 ELSE depth[i]]
    /\ saved' = [t \in Threads |-> IF Proc(t) = p THEN 0 ELSE saved[t]]

Init ==
    /\ pc = [t \in Threads |-> "idle"]
    /\ local = [i \in Instances |-> [owner |-> None, count |-> 0]]
    /\ depth = [i \in Instances |-> 0]
    /\ gate = [p \in Processes |-> None]
    /\ flock = [n \in Nodes |-> None]
    /\ record = None
    /\ saved = [t \in Threads |-> 0]

Releasing(t) ==
    \/ release_nested(t) \/ release(t) \/ unlock_record(t) \/ unlock_flock(t)
    \/ close_descriptor(t) \/ release_gate(t) \/ release_local(t)

Acquiring(t) ==
    \/ acquire_gate(t) \/ open_existing(t) \/ try_flock(t) \/ try_lockf(t)
    \/ resume_nested(t)

Next ==
    \/ \E t \in Threads :
          \/ acquire_local(t) \/ acquire_nested(t) \/ suspend(t)
          \/ open_fails(t) \/ time_out(t) \/ give_up(t) \/ Acquiring(t) \/ Releasing(t)
    \/ \E p \in Processes : die(p)

Spec == Init /\ [][Next]_vars

(* Threads that began an acquire or hold the lock go on; nobody has to     *)
(* begin, to nest, to suspend or to die, and callers do not run into their *)
(* deadlines and try again for ever.                                       *)
FairSpec ==
    /\ Spec
    /\ \A t \in Threads : WF_vars(Acquiring(t)) /\ WF_vars(Releasing(t))
    /\ <>[][\A t \in Threads : ~time_out(t) /\ ~open_fails(t)]_vars

-----------------------------------------------------------------------------
(* Properties.                                                             *)

Locals == [owner : Threads \cup {None}, count : 0..MaxDepth]

(* The types of the layers.  The lock is never nested deeper than its      *)
(* callers nest it: suspended() takes back as many levels as it gave up.   *)
TypeOK ==
    /\ pc \in [Threads -> Steps]
    /\ local \in [Instances -> Locals]
    /\ depth \in [Instances -> 0..MaxDepth]
    /\ gate \in [Processes -> Instances \cup {None}]
    /\ flock \in [Nodes -> Threads \cup {None}]
    /\ record \in Processes \cup {None}
    /\ saved \in [Threads -> 0..MaxDepth]

Inside == {t \in Threads : pc[t] = "held"}

Promise == INSTANCE DesktopLock WITH inside <- Inside

(* SessionAutomationLock implements the one lock its callers see: between  *)
(* all threads, instances, processes and nodes at most one is inside, also *)
(* when another thread of the holder's process opens the file, times out   *)
(* and closes it, which would drop the record lock.                        *)
OneAtATime == Promise!Spec

(* A timeout, a failed open, a release or a death in the middle of the     *)
(* layers gives back every layer: once no thread is under way, the RLocks, *)
(* the gates, the flocks and the record lock are all free.                 *)
RestIsFree ==
    (\A t \in Threads : pc[t] \in {"idle", "native", "dead"}) =>
        /\ \A i \in Instances : local[i].owner = None /\ local[i].count = 0 /\ depth[i] = 0
        /\ \A p \in Processes : gate[p] = None
        /\ \A n \in Nodes : flock[n] = None
        /\ record = None

(* The order of the layers leaves nobody waiting on everybody: while any   *)
(* thread waits, some thread gets in, or every waiter has given up.        *)
Waiting == {t \in Threads : pc[t] \in {"gate", "open", "flock", "lockf"}}

SomeoneGetsIn == Waiting # {} ~> (Inside # {} \/ Waiting = {})
=============================================================================
