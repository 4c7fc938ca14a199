------------------------ MODULE AutomationLockProofs ------------------------
(***************************************************************************)
(* For every arrangement of threads, lock objects, processes and nodes:    *)
(* SessionAutomationLock implements DesktopLock, and no layer is left      *)
(* taken when nobody is under way.                                         *)
(*                                                                         *)
(* The argument is Layered: who stands in a layer owns it, and a layer     *)
(* that is owned has exactly that thread in it.  The record lock alone     *)
(* excludes processes, the gate excludes the instances of a process and    *)
(* the RLock the threads of an instance; closing a descriptor cannot drop  *)
(* a record lock in use, because only the gate's owner has one open.       *)
(***************************************************************************)
EXTENDS AutomationLock, TLAPS

InLocal == Steps \ {"idle", "native", "dead"}
InGate == InLocal \ {"gate", "unlocal"}
InFlock == {"lockf", "held", "unlock", "unflock"}
InRecord == {"held", "unlock"}

ThreadOK(t) ==
    /\ pc[t] \in InLocal => local[InstanceOf[t]].owner = t
    /\ pc[t] \in InGate => gate[Proc(t)] = InstanceOf[t]
    /\ pc[t] \in InFlock => flock[Node(t)] = t
    /\ pc[t] \in InRecord => record = Proc(t)
    /\ pc[t] = "held" =>
          /\ local[InstanceOf[t]].count = depth[InstanceOf[t]]
          /\ depth[InstanceOf[t]] > 0
    /\ pc[t] \in InLocal /\ pc[t] # "held" =>
          local[InstanceOf[t]].count = 1 /\ depth[InstanceOf[t]] = 0

InstanceOK(i) ==
    IF local[i].owner = None THEN local[i].count = 0 /\ depth[i] = 0
    ELSE InstanceOf[local[i].owner] = i /\ pc[local[i].owner] \in InLocal

GateOK(p) ==
    gate[p] # None =>
        /\ ProcessOf[gate[p]] = p
        /\ local[gate[p]].owner # None
        /\ pc[local[gate[p]].owner] \in InGate

FlockOK(n) == flock[n] # None => Node(flock[n]) = n /\ pc[flock[n]] \in InFlock

RecordOK == record # None => \E t \in Threads : pc[t] \in InRecord /\ Proc(t) = record

Layered ==
    /\ TypeOK
    /\ \A t \in Threads : ThreadOK(t)
    /\ \A i \in Instances : InstanceOK(i)
    /\ \A p \in Processes : GateOK(p)
    /\ \A n \in Nodes : FlockOK(n)
    /\ RecordOK

(* Where the process and the node of a thread are.                         *)
LEMMA Places ==
    /\ \A t \in Threads : /\ InstanceOf[t] \in Instances
                          /\ Proc(t) \in Processes
                          /\ Node(t) \in Nodes
    /\ \A i \in Instances : ProcessOf[i] \in Processes
    /\ \A p \in Processes : NodeOf[p] \in Nodes
  BY LayersAssumption DEF Proc, Node

LEMMA LayeredInit == Init => Layered
  <1> SUFFICES ASSUME Init PROVE Layered
      OBVIOUS
  <1>1. TypeOK
      BY Places, LayersAssumption DEF Init, TypeOK, Locals, Steps
  <1>2. \A t \in Threads : ThreadOK(t)
      BY Places DEF Init, ThreadOK, InLocal, InGate, InFlock, InRecord
  <1>3. /\ \A i \in Instances : InstanceOK(i)
        /\ \A p \in Processes : GateOK(p)
        /\ \A n \in Nodes : FlockOK(n)
        /\ RecordOK
      BY Places DEF Init, InstanceOK, GateOK, FlockOK, RecordOK
  <1> QED
      BY <1>1, <1>2, <1>3 DEF Layered

(* Two threads in the gate of one process are the same thread.             *)
LEMMA OneInGate ==
    ASSUME Layered, NEW t \in Threads, NEW u \in Threads,
           pc[t] \in InGate, pc[u] \in InGate, Proc(t) = Proc(u)
    PROVE  t = u
  BY DEF Layered, ThreadOK, InGate

(* Mutual exclusion follows: the record lock picks the process.            *)
LEMMA OneInside ==
    ASSUME Layered, NEW t \in Threads, NEW u \in Threads,
           pc[t] = "held", pc[u] = "held"
    PROVE  t = u
  <1>1. pc[t] \in InGate /\ pc[u] \in InGate
      BY DEF InGate, InLocal, Steps
  <1>2. Proc(t) = record /\ Proc(u) = record
      BY DEF Layered, ThreadOK, InRecord
  <1> QED
      BY <1>1, <1>2, OneInGate

(* Every step keeps the types; that a nested release finds a count to      *)
(* lower needs Layered.                                                    *)
LEMMA TypeStep == Layered /\ [Next]_vars => TypeOK'
  <1> SUFFICES ASSUME Layered, [Next]_vars PROVE TypeOK'
      OBVIOUS
  <1>0. TypeOK
      BY DEF Layered
  <1> USE <1>0, Places, LayersAssumption DEF TypeOK, Steps, To
  <1>1. ASSUME NEW t \in Threads, acquire_local(t) PROVE TypeOK'
      BY <1>1 DEF acquire_local, Locals
  <1>2. ASSUME NEW t \in Threads, acquire_nested(t) PROVE TypeOK'
    <2>1. local' \in [Instances -> Locals]
        BY <1>2 DEF acquire_nested, Locals, Layered, ThreadOK
    <2> QED
        BY <1>2, <2>1 DEF acquire_nested
  <1>3. ASSUME NEW t \in Threads, suspend(t) PROVE TypeOK'
    <2>1. local' \in [Instances -> Locals]
        BY <1>3 DEF suspend, Locals
    <2> QED
        BY <1>3, <2>1 DEF suspend
  <1>4. ASSUME NEW t \in Threads, open_fails(t) \/ time_out(t) \/ give_up(t) PROVE TypeOK'
    <2>1. CASE open_fails(t)
        BY <2>1 DEF open_fails
    <2>2. CASE time_out(t)
        BY <2>2 DEF time_out
    <2>3. CASE give_up(t)
        BY <2>3 DEF give_up
    <2> QED
        BY <1>4, <2>1, <2>2, <2>3
  <1>5. ASSUME NEW t \in Threads, acquire_gate(t) \/ open_existing(t) PROVE TypeOK'
      BY <1>5 DEF acquire_gate, open_existing
  <1>6. ASSUME NEW t \in Threads, try_flock(t) \/ try_lockf(t) PROVE TypeOK'
      BY <1>6 DEF try_flock, try_lockf
  <1>7. ASSUME NEW t \in Threads, resume_nested(t) PROVE TypeOK'
    <2>1. local' \in [Instances -> Locals]
        BY <1>7 DEF resume_nested, Locals
    <2> QED
        BY <1>7, <2>1 DEF resume_nested
  <1>8. ASSUME NEW t \in Threads, release_nested(t) PROVE TypeOK'
    <2>1. local[InstanceOf[t]].count - 1 \in 0..MaxDepth
        BY <1>8 DEF release_nested, Layered, ThreadOK, Locals
    <2>2. local' \in [Instances -> Locals]
        BY <1>8, <2>1 DEF release_nested, Locals
    <2> QED
        BY <1>8, <2>2 DEF release_nested
  <1>9. ASSUME NEW t \in Threads, release(t) PROVE TypeOK'
      BY <1>9 DEF release
  <1>10. ASSUME NEW t \in Threads,
               unlock_record(t) \/ unlock_flock(t) \/ close_descriptor(t) \/ release_gate(t)
        PROVE TypeOK'
      BY <1>10 DEF unlock_record, unlock_flock, close_descriptor, release_gate
  <1>11. ASSUME NEW t \in Threads, release_local(t) PROVE TypeOK'
    <2>1. local[InstanceOf[t]].count = 1
        BY <1>11 DEF release_local, Layered, ThreadOK, InLocal
    <2>2. local' \in [Instances -> Locals]
        BY <1>11, <2>1 DEF release_local, Locals
    <2> QED
        BY <1>11, <2>2 DEF release_local
  <1>12. ASSUME NEW p \in Processes, die(p) PROVE TypeOK'
    <2>1. local' \in [Instances -> Locals]
        BY <1>12 DEF die, Locals
    <2> QED
        BY <1>12, <2>1 DEF die
  <1>13. CASE UNCHANGED vars
      BY <1>13 DEF vars
  <1> QED
      BY <1>1, <1>2, <1>3, <1>4, <1>5, <1>6, <1>7, <1>8, <1>9, <1>10, <1>11, <1>12, <1>13
      DEF Next, Acquiring, Releasing
(* Every step keeps Layered: one step per action, one part at a time.      *)
LEMMA LayeredStep == Layered /\ [Next]_vars => Layered'
  <1> SUFFICES ASSUME Layered, [Next]_vars PROVE Layered'
      OBVIOUS
  <1>0. TypeOK' /\ TypeOK
      BY TypeStep DEF Layered
  <1>a. /\ \A t \in Threads : ThreadOK(t)
        /\ \A i \in Instances : InstanceOK(i)
        /\ \A p \in Processes : GateOK(p)
        /\ \A n \in Nodes : FlockOK(n)
        /\ RecordOK
      BY DEF Layered
  <1>b. ASSUME NEW t \in Threads, NEW u \in Threads, pc[t] \in InGate, pc[u] \in InGate,
               Proc(t) = Proc(u)
        PROVE  t = u
      BY <1>b, OneInGate
  <1> DEFINE Goal == /\ \A t \in Threads : ThreadOK(t)'
                     /\ \A i \in Instances : InstanceOK(i)'
                     /\ \A p \in Processes : GateOK(p)'
                     /\ \A n \in Nodes : FlockOK(n)'
                     /\ RecordOK'
  <1> USE <1>0, <1>a, Places, LayersAssumption
      DEF To, InLocal, InGate, InFlock, InRecord, Steps
  <1>1. ASSUME NEW t \in Threads, acquire_local(t) PROVE Goal
    <2>1. \A u \in Threads : ThreadOK(u)'
        BY <1>1, <1>b DEF acquire_local, ThreadOK, InstanceOK, GateOK, TypeOK, Locals, Proc, Node
    <2>2. \A i \in Instances : InstanceOK(i)'
        BY <1>1 DEF acquire_local, ThreadOK, InstanceOK, TypeOK, Locals
    <2>3. \A p \in Processes : GateOK(p)'
        BY <1>1 DEF acquire_local, ThreadOK, InstanceOK, GateOK, TypeOK, Locals, Proc
    <2>4. \A n \in Nodes : FlockOK(n)'
        BY <1>1 DEF acquire_local, ThreadOK, FlockOK, TypeOK, Node, Proc
    <2>5. RecordOK'
        BY <1>1, <1>b DEF acquire_local, ThreadOK, RecordOK, TypeOK, Proc
    <2> QED
        BY <2>1, <2>2, <2>3, <2>4, <2>5
  <1>2. ASSUME NEW t \in Threads, acquire_nested(t) PROVE Goal
    <2>1. \A u \in Threads : ThreadOK(u)'
        BY <1>2, <1>b DEF acquire_nested, ThreadOK, InstanceOK, GateOK, TypeOK, Locals, Proc, Node
    <2>2. \A i \in Instances : InstanceOK(i)'
        BY <1>2 DEF acquire_nested, ThreadOK, InstanceOK, TypeOK, Locals
    <2>3. \A p \in Processes : GateOK(p)'
        BY <1>2 DEF acquire_nested, ThreadOK, InstanceOK, GateOK, TypeOK, Locals, Proc
    <2>4. \A n \in Nodes : FlockOK(n)'
        BY <1>2 DEF acquire_nested, ThreadOK, FlockOK, TypeOK, Node, Proc
    <2>5. RecordOK'
        BY <1>2, <1>b DEF acquire_nested, ThreadOK, RecordOK, TypeOK, Proc
    <2> QED
        BY <2>1, <2>2, <2>3, <2>4, <2>5
  <1>3. ASSUME NEW t \in Threads, suspend(t) PROVE Goal
    <2>1. \A u \in Threads : ThreadOK(u)'
        BY <1>3, <1>b DEF suspend, ThreadOK, InstanceOK, GateOK, TypeOK, Locals, Proc, Node
    <2>2. \A i \in Instances : InstanceOK(i)'
        BY <1>3 DEF suspend, ThreadOK, InstanceOK, TypeOK, Locals
    <2>3. \A p \in Processes : GateOK(p)'
        BY <1>3 DEF suspend, ThreadOK, InstanceOK, GateOK, TypeOK, Locals, Proc
    <2>4. \A n \in Nodes : FlockOK(n)'
        BY <1>3 DEF suspend, ThreadOK, FlockOK, TypeOK, Node, Proc
    <2>5. RecordOK'
        BY <1>3, <1>b DEF suspend, ThreadOK, RecordOK, TypeOK, Proc
    <2> QED
        BY <2>1, <2>2, <2>3, <2>4, <2>5
  <1>4. ASSUME NEW t \in Threads, open_fails(t) PROVE Goal
    <2>1. \A u \in Threads : ThreadOK(u)'
        BY <1>4, <1>b DEF open_fails, ThreadOK, InstanceOK, GateOK, TypeOK, Locals, Proc, Node
    <2>2. \A i \in Instances : InstanceOK(i)'
        BY <1>4 DEF open_fails, ThreadOK, InstanceOK, TypeOK, Locals
    <2>3. \A p \in Processes : GateOK(p)'
        BY <1>4 DEF open_fails, ThreadOK, InstanceOK, GateOK, TypeOK, Locals, Proc
    <2>4. \A n \in Nodes : FlockOK(n)'
        BY <1>4 DEF open_fails, ThreadOK, FlockOK, TypeOK, Node, Proc
    <2>5. RecordOK'
        BY <1>4, <1>b DEF open_fails, ThreadOK, RecordOK, TypeOK, Proc
    <2> QED
        BY <2>1, <2>2, <2>3, <2>4, <2>5
  <1>5. ASSUME NEW t \in Threads, time_out(t) PROVE Goal
    <2>1. \A u \in Threads : ThreadOK(u)'
        BY <1>5, <1>b DEF time_out, ThreadOK, InstanceOK, GateOK, TypeOK, Locals, Proc, Node
    <2>2. \A i \in Instances : InstanceOK(i)'
        BY <1>5 DEF time_out, ThreadOK, InstanceOK, TypeOK, Locals
    <2>3. \A p \in Processes : GateOK(p)'
        BY <1>5 DEF time_out, ThreadOK, InstanceOK, GateOK, TypeOK, Locals, Proc
    <2>4. \A n \in Nodes : FlockOK(n)'
        BY <1>5 DEF time_out, ThreadOK, FlockOK, TypeOK, Node, Proc
    <2>5. RecordOK'
        BY <1>5, <1>b DEF time_out, ThreadOK, RecordOK, TypeOK, Proc
    <2> QED
        BY <2>1, <2>2, <2>3, <2>4, <2>5
  <1>6. ASSUME NEW t \in Threads, give_up(t) PROVE Goal
    <2>1. \A u \in Threads : ThreadOK(u)'
        BY <1>6, <1>b DEF give_up, ThreadOK, InstanceOK, GateOK, TypeOK, Locals, Proc, Node
    <2>2. \A i \in Instances : InstanceOK(i)'
        BY <1>6 DEF give_up, ThreadOK, InstanceOK, TypeOK, Locals
    <2>3. \A p \in Processes : GateOK(p)'
        BY <1>6 DEF give_up, ThreadOK, InstanceOK, GateOK, TypeOK, Locals, Proc
    <2>4. \A n \in Nodes : FlockOK(n)'
        BY <1>6 DEF give_up, ThreadOK, FlockOK, TypeOK, Node, Proc
    <2>5. RecordOK'
        BY <1>6, <1>b DEF give_up, ThreadOK, RecordOK, TypeOK, Proc
    <2> QED
        BY <2>1, <2>2, <2>3, <2>4, <2>5
  <1>7. ASSUME NEW t \in Threads, acquire_gate(t) PROVE Goal
    <2>1. \A u \in Threads : ThreadOK(u)'
        BY <1>7, <1>b DEF acquire_gate, ThreadOK, InstanceOK, GateOK, TypeOK, Locals, Proc, Node
    <2>2. \A i \in Instances : InstanceOK(i)'
        BY <1>7 DEF acquire_gate, ThreadOK, InstanceOK, TypeOK, Locals
    <2>3. \A p \in Processes : GateOK(p)'
        BY <1>7 DEF acquire_gate, ThreadOK, InstanceOK, GateOK, TypeOK, Locals, Proc
    <2>4. \A n \in Nodes : FlockOK(n)'
        BY <1>7 DEF acquire_gate, ThreadOK, FlockOK, TypeOK, Node, Proc
    <2>5. RecordOK'
        BY <1>7, <1>b DEF acquire_gate, ThreadOK, RecordOK, TypeOK, Proc
    <2> QED
        BY <2>1, <2>2, <2>3, <2>4, <2>5
  <1>8. ASSUME NEW t \in Threads, open_existing(t) PROVE Goal
    <2>1. \A u \in Threads : ThreadOK(u)'
        BY <1>8, <1>b DEF open_existing, ThreadOK, InstanceOK, GateOK, TypeOK, Locals, Proc, Node
    <2>2. \A i \in Instances : InstanceOK(i)'
        BY <1>8 DEF open_existing, ThreadOK, InstanceOK, TypeOK, Locals
    <2>3. \A p \in Processes : GateOK(p)'
        BY <1>8 DEF open_existing, ThreadOK, InstanceOK, GateOK, TypeOK, Locals, Proc
    <2>4. \A n \in Nodes : FlockOK(n)'
        BY <1>8 DEF open_existing, ThreadOK, FlockOK, TypeOK, Node, Proc
    <2>5. RecordOK'
        BY <1>8, <1>b DEF open_existing, ThreadOK, RecordOK, TypeOK, Proc
    <2> QED
        BY <2>1, <2>2, <2>3, <2>4, <2>5
  <1>9. ASSUME NEW t \in Threads, try_flock(t) PROVE Goal
    <2>1. \A u \in Threads : ThreadOK(u)'
        BY <1>9, <1>b DEF try_flock, ThreadOK, InstanceOK, GateOK, TypeOK, Locals, Proc, Node
    <2>2. \A i \in Instances : InstanceOK(i)'
        BY <1>9 DEF try_flock, ThreadOK, InstanceOK, TypeOK, Locals
    <2>3. \A p \in Processes : GateOK(p)'
        BY <1>9 DEF try_flock, ThreadOK, InstanceOK, GateOK, TypeOK, Locals, Proc
    <2>4. \A n \in Nodes : FlockOK(n)'
        BY <1>9 DEF try_flock, ThreadOK, FlockOK, TypeOK, Node, Proc
    <2>5. RecordOK'
        BY <1>9, <1>b DEF try_flock, ThreadOK, RecordOK, TypeOK, Proc
    <2> QED
        BY <2>1, <2>2, <2>3, <2>4, <2>5
  <1>10. ASSUME NEW t \in Threads, try_lockf(t) PROVE Goal
    <2>1. \A u \in Threads : ThreadOK(u)'
      <3>1. CASE record \in {None, Proc(t)}
          BY <1>10, <1>b, <3>1 DEF try_lockf, ThreadOK, TypeOK, Locals, Proc, Node
      <3>2. CASE record \notin {None, Proc(t)}
        <4>1. \A u \in Threads : u # t => pc'[u] = pc[u]
            BY <1>10 DEF try_lockf, TypeOK
        <4>2. \A n \in Nodes : n # Node(t) => flock'[n] = flock[n]
            BY <1>10, <3>2 DEF try_lockf, TypeOK
        <4>3. \A u \in Threads : u # t /\ pc[u] \in InFlock => Node(u) # Node(t)
            BY <1>10 DEF try_lockf, ThreadOK
        <4> QED
            BY <1>10, <3>2, <4>1, <4>2, <4>3 DEF try_lockf, ThreadOK, TypeOK, Proc
      <3> QED
          BY <3>1, <3>2
    <2>2. \A i \in Instances : InstanceOK(i)'
        BY <1>10 DEF try_lockf, ThreadOK, InstanceOK, TypeOK, Locals
    <2>3. \A p \in Processes : GateOK(p)'
        BY <1>10 DEF try_lockf, ThreadOK, InstanceOK, GateOK, TypeOK, Locals, Proc
    <2>4. \A n \in Nodes : FlockOK(n)'
        BY <1>10 DEF try_lockf, ThreadOK, FlockOK, TypeOK, Node, Proc
    <2>5. RecordOK'
        BY <1>10, <1>b DEF try_lockf, ThreadOK, RecordOK, TypeOK, Proc
    <2> QED
        BY <2>1, <2>2, <2>3, <2>4, <2>5
  <1>11. ASSUME NEW t \in Threads, resume_nested(t) PROVE Goal
    <2>1. \A u \in Threads : ThreadOK(u)'
        BY <1>11, <1>b DEF resume_nested, ThreadOK, InstanceOK, GateOK, TypeOK, Locals, Proc, Node
    <2>2. \A i \in Instances : InstanceOK(i)'
        BY <1>11 DEF resume_nested, ThreadOK, InstanceOK, TypeOK, Locals
    <2>3. \A p \in Processes : GateOK(p)'
        BY <1>11 DEF resume_nested, ThreadOK, InstanceOK, GateOK, TypeOK, Locals, Proc
    <2>4. \A n \in Nodes : FlockOK(n)'
        BY <1>11 DEF resume_nested, ThreadOK, FlockOK, TypeOK, Node, Proc
    <2>5. RecordOK'
        BY <1>11, <1>b DEF resume_nested, ThreadOK, RecordOK, TypeOK, Proc
    <2> QED
        BY <2>1, <2>2, <2>3, <2>4, <2>5
  <1>12. ASSUME NEW t \in Threads, release_nested(t) PROVE Goal
    <2>1. \A u \in Threads : ThreadOK(u)'
        BY <1>12, <1>b DEF release_nested, ThreadOK, InstanceOK, GateOK, TypeOK, Locals, Proc, Node
    <2>2. \A i \in Instances : InstanceOK(i)'
        BY <1>12 DEF release_nested, ThreadOK, InstanceOK, TypeOK, Locals
    <2>3. \A p \in Processes : GateOK(p)'
        BY <1>12 DEF release_nested, ThreadOK, InstanceOK, GateOK, TypeOK, Locals, Proc
    <2>4. \A n \in Nodes : FlockOK(n)'
        BY <1>12 DEF release_nested, ThreadOK, FlockOK, TypeOK, Node, Proc
    <2>5. RecordOK'
        BY <1>12, <1>b DEF release_nested, ThreadOK, RecordOK, TypeOK, Proc
    <2> QED
        BY <2>1, <2>2, <2>3, <2>4, <2>5
  <1>13. ASSUME NEW t \in Threads, release(t) PROVE Goal
    <2>1. \A u \in Threads : ThreadOK(u)'
        BY <1>13, <1>b DEF release, ThreadOK, InstanceOK, GateOK, TypeOK, Locals, Proc, Node
    <2>2. \A i \in Instances : InstanceOK(i)'
        BY <1>13 DEF release, ThreadOK, InstanceOK, TypeOK, Locals
    <2>3. \A p \in Processes : GateOK(p)'
        BY <1>13 DEF release, ThreadOK, InstanceOK, GateOK, TypeOK, Locals, Proc
    <2>4. \A n \in Nodes : FlockOK(n)'
        BY <1>13 DEF release, ThreadOK, FlockOK, TypeOK, Node, Proc
    <2>5. RecordOK'
        BY <1>13, <1>b DEF release, ThreadOK, RecordOK, TypeOK, Proc
    <2> QED
        BY <2>1, <2>2, <2>3, <2>4, <2>5
  <1>14. ASSUME NEW t \in Threads, unlock_record(t) PROVE Goal
    <2>1. \A u \in Threads : ThreadOK(u)'
        BY <1>14, <1>b DEF unlock_record, ThreadOK, InstanceOK, GateOK, TypeOK, Locals, Proc, Node
    <2>2. \A i \in Instances : InstanceOK(i)'
        BY <1>14 DEF unlock_record, ThreadOK, InstanceOK, TypeOK, Locals
    <2>3. \A p \in Processes : GateOK(p)'
        BY <1>14 DEF unlock_record, ThreadOK, InstanceOK, GateOK, TypeOK, Locals, Proc
    <2>4. \A n \in Nodes : FlockOK(n)'
        BY <1>14 DEF unlock_record, ThreadOK, FlockOK, TypeOK, Node, Proc
    <2>5. RecordOK'
        BY <1>14, <1>b DEF unlock_record, ThreadOK, RecordOK, TypeOK, Proc
    <2> QED
        BY <2>1, <2>2, <2>3, <2>4, <2>5
  <1>15. ASSUME NEW t \in Threads, unlock_flock(t) PROVE Goal
    <2>1. \A u \in Threads : ThreadOK(u)'
        BY <1>15, <1>b DEF unlock_flock, ThreadOK, InstanceOK, GateOK, TypeOK, Locals, Proc, Node
    <2>2. \A i \in Instances : InstanceOK(i)'
        BY <1>15 DEF unlock_flock, ThreadOK, InstanceOK, TypeOK, Locals
    <2>3. \A p \in Processes : GateOK(p)'
        BY <1>15 DEF unlock_flock, ThreadOK, InstanceOK, GateOK, TypeOK, Locals, Proc
    <2>4. \A n \in Nodes : FlockOK(n)'
      <3>1. \A u \in Threads : u # t => pc'[u] = pc[u]
          BY <1>15 DEF unlock_flock, TypeOK
      <3>2. \A n \in Nodes : flock'[n] = IF n = Node(t) /\ flock[n] = t THEN None ELSE flock[n]
          BY <1>15 DEF unlock_flock, TypeOK
      <3>3. \A n \in Nodes : flock'[n] # None => flock'[n] = flock[n] /\ flock[n] # t
          BY <3>2 DEF FlockOK
      <3> QED
          BY <3>1, <3>3 DEF FlockOK, TypeOK, Node, Proc
    <2>5. RecordOK'
        BY <1>15, <1>b DEF unlock_flock, ThreadOK, RecordOK, TypeOK, Proc
    <2> QED
        BY <2>1, <2>2, <2>3, <2>4, <2>5
  <1>16. ASSUME NEW t \in Threads, close_descriptor(t) PROVE Goal
    <2>1. \A u \in Threads : ThreadOK(u)'
        BY <1>16, <1>b DEF close_descriptor, ThreadOK, InstanceOK, GateOK, TypeOK, Locals, Proc, Node
    <2>2. \A i \in Instances : InstanceOK(i)'
        BY <1>16 DEF close_descriptor, ThreadOK, InstanceOK, TypeOK, Locals
    <2>3. \A p \in Processes : GateOK(p)'
        BY <1>16 DEF close_descriptor, ThreadOK, InstanceOK, GateOK, TypeOK, Locals, Proc
    <2>4. \A n \in Nodes : FlockOK(n)'
      <3>1. \A u \in Threads : u # t => pc'[u] = pc[u]
          BY <1>16 DEF close_descriptor, TypeOK
      <3>2. \A n \in Nodes : flock'[n] = IF n = Node(t) /\ flock[n] = t THEN None ELSE flock[n]
          BY <1>16 DEF close_descriptor, TypeOK
      <3>3. \A n \in Nodes : flock'[n] # None => flock'[n] = flock[n] /\ flock[n] # t
          BY <3>2 DEF FlockOK
      <3> QED
          BY <3>1, <3>3 DEF FlockOK, TypeOK, Node, Proc
    <2>5. RecordOK'
        BY <1>16, <1>b DEF close_descriptor, ThreadOK, RecordOK, TypeOK, Proc
    <2> QED
        BY <2>1, <2>2, <2>3, <2>4, <2>5
  <1>17. ASSUME NEW t \in Threads, release_gate(t) PROVE Goal
    <2>1. \A u \in Threads : ThreadOK(u)'
        BY <1>17, <1>b DEF release_gate, ThreadOK, InstanceOK, GateOK, TypeOK, Locals, Proc, Node
    <2>2. \A i \in Instances : InstanceOK(i)'
        BY <1>17 DEF release_gate, ThreadOK, InstanceOK, TypeOK, Locals
    <2>3. \A p \in Processes : GateOK(p)'
        BY <1>17 DEF release_gate, ThreadOK, InstanceOK, GateOK, TypeOK, Locals, Proc
    <2>4. \A n \in Nodes : FlockOK(n)'
        BY <1>17 DEF release_gate, ThreadOK, FlockOK, TypeOK, Node, Proc
    <2>5. RecordOK'
        BY <1>17, <1>b DEF release_gate, ThreadOK, RecordOK, TypeOK, Proc
    <2> QED
        BY <2>1, <2>2, <2>3, <2>4, <2>5
  <1>18. ASSUME NEW t \in Threads, release_local(t) PROVE Goal
    <2>1. \A u \in Threads : ThreadOK(u)'
      <3>1. \A u \in Threads : u # t => pc'[u] = pc[u]
          BY <1>18 DEF release_local, TypeOK
      <3>2. \A i \in Instances : i # InstanceOf[t] => local'[i] = local[i]
          BY <1>18 DEF release_local, TypeOK
      <3>3. \A u \in Threads : u # t /\ pc[u] \in InLocal => InstanceOf[u] # InstanceOf[t]
          BY <1>18 DEF release_local, ThreadOK
      <3>4. pc'[t] \notin InLocal
          BY <1>18 DEF release_local, TypeOK
      <3> QED
          BY <1>18, <3>1, <3>2, <3>3, <3>4 DEF release_local, ThreadOK, TypeOK, Proc, Node
    <2>2. \A i \in Instances : InstanceOK(i)'
      <3>1. local' = [local EXCEPT ![InstanceOf[t]] = [owner |-> None, count |-> 0]]
          BY <1>18 DEF release_local, ThreadOK
      <3>2. \A i \in Instances : local[i].owner \in Threads \cup {None}
          BY DEF TypeOK, Locals
      <3>3. ASSUME NEW i \in Instances, i # InstanceOf[t] PROVE InstanceOK(i)'
          BY <1>18, <3>1, <3>2, <3>3 DEF release_local, InstanceOK, TypeOK
      <3>4. InstanceOK(InstanceOf[t])'
          BY <1>18, <3>1 DEF release_local, ThreadOK, InstanceOK, TypeOK
      <3> QED
          BY <3>3, <3>4
    <2>3. \A p \in Processes : GateOK(p)'
      <3>1. local' = [local EXCEPT ![InstanceOf[t]] = [owner |-> None, count |-> 0]]
          BY <1>18 DEF release_local, ThreadOK
      <3>2. \A p \in Processes : gate[p] # InstanceOf[t]
          BY <1>18 DEF release_local, ThreadOK, GateOK, TypeOK
      <3> QED
          BY <1>18, <3>1, <3>2 DEF release_local, InstanceOK, GateOK, TypeOK
    <2>4. \A n \in Nodes : FlockOK(n)'
        BY <1>18 DEF release_local, ThreadOK, FlockOK, TypeOK, Node, Proc
    <2>5. RecordOK'
        BY <1>18, <1>b DEF release_local, ThreadOK, RecordOK, TypeOK, Proc
    <2> QED
        BY <2>1, <2>2, <2>3, <2>4, <2>5
  <1>19. ASSUME NEW p \in Processes, die(p) PROVE Goal
    <2>1. \A u \in Threads : ThreadOK(u)'
        BY <1>19 DEF die, ThreadOK, TypeOK, Locals, Proc, Node
    <2>2. \A i \in Instances : InstanceOK(i)'
        BY <1>19 DEF die, ThreadOK, InstanceOK, TypeOK, Locals, Proc
    <2>3. \A q \in Processes : GateOK(q)'
      <3>1. \A q \in Processes : q # p /\ gate'[q] # None =>
               local'[gate'[q]] = local[gate[q]] /\ Proc(local[gate[q]].owner) = q
          BY <1>19 DEF die, InstanceOK, GateOK, TypeOK, Proc
      <3>2. gate'[p] = None
          BY <1>19 DEF die, TypeOK
      <3>3. \A i \in Instances : local[i].owner \in Threads \cup {None}
          BY DEF TypeOK, Locals
      <3>4. ASSUME NEW q \in Processes, q # p, gate'[q] # None PROVE GateOK(q)'
        <4>1. gate'[q] = gate[q] /\ gate[q] \in Instances
            BY <1>19, <3>4 DEF die, TypeOK
        <4>2. local[gate[q]].owner \in Threads /\ pc[local[gate[q]].owner] \in InGate
            BY <3>3, <3>4, <4>1 DEF GateOK
        <4>3. pc'[local[gate[q]].owner] = pc[local[gate[q]].owner]
            BY <1>19, <3>1, <3>4, <4>1, <4>2 DEF die
        <4> QED
            BY <3>1, <3>4, <4>1, <4>2, <4>3 DEF GateOK
      <3> QED
          BY <3>2, <3>4 DEF GateOK
    <2>4. \A n \in Nodes : FlockOK(n)'
        BY <1>19 DEF die, ThreadOK, FlockOK, TypeOK, Node, Proc
    <2>5. RecordOK'
        BY <1>19 DEF die, ThreadOK, RecordOK, TypeOK, Proc
    <2> QED
        BY <2>1, <2>2, <2>3, <2>4, <2>5
  <1>20. ASSUME UNCHANGED vars PROVE Goal
    <2> USE <1>20 DEF vars
    <2>1. \A t \in Threads : ThreadOK(t)'
        BY DEF ThreadOK, Proc, Node
    <2>2. \A i \in Instances : InstanceOK(i)'
        BY DEF InstanceOK
    <2>3. \A p \in Processes : GateOK(p)'
        BY DEF GateOK
    <2>4. \A n \in Nodes : FlockOK(n)'
        BY DEF FlockOK, Proc, Node
    <2>5. RecordOK'
        BY DEF RecordOK, Proc
    <2> QED
        BY <2>1, <2>2, <2>3, <2>4, <2>5
  <1> HIDE DEF Goal, To, InLocal, InGate, InFlock, InRecord, Steps
  <1>c. Goal
      BY <1>1, <1>2, <1>3, <1>4, <1>5, <1>6, <1>7, <1>8, <1>9, <1>10,
         <1>11, <1>12, <1>13, <1>14, <1>15, <1>16, <1>17, <1>18, <1>19, <1>20
      DEF Next, Acquiring, Releasing
  <1> QED
      BY <1>0, <1>c DEF Layered, Goal

(* Every layer is typed, whatever happens.                                 *)
THEOREM Types == Spec => []TypeOK
  <1>1. Layered => TypeOK
      BY DEF Layered
  <1> QED
      BY <1>1, LayeredInit, LayeredStep, PTL DEF Spec

(* A timeout, a failed open, a release or a death leaves no layer taken.   *)
THEOREM NothingLeaks == Spec => []RestIsFree
  <1>1. Layered => RestIsFree
    <2> SUFFICES ASSUME Layered, \A t \in Threads : pc[t] \in {"idle", "native", "dead"}
                 PROVE  /\ \A i \in Instances : /\ local[i].owner = None
                                                /\ local[i].count = 0
                                                /\ depth[i] = 0
                        /\ \A p \in Processes : gate[p] = None
                        /\ \A n \in Nodes : flock[n] = None
                        /\ record = None
        BY DEF RestIsFree
    <2>1. \A t \in Threads : pc[t] \notin InLocal
        BY DEF InLocal
    <2>2. \A i \in Instances : local[i].owner = None /\ local[i].count = 0 /\ depth[i] = 0
        BY <2>1 DEF Layered, InstanceOK, TypeOK, Locals
    <2>3. \A p \in Processes : gate[p] = None
        BY <2>2 DEF Layered, GateOK, TypeOK
    <2>4. \A n \in Nodes : flock[n] = None
        BY DEF Layered, FlockOK, TypeOK, InFlock
    <2>5. record = None
        BY DEF Layered, RecordOK, InRecord
    <2> QED
        BY <2>2, <2>3, <2>4, <2>5
  <1> QED
      BY <1>1, LayeredInit, LayeredStep, PTL DEF Spec

(* The four layers together are one lock: every step is a step of          *)
(* DesktopLock or leaves who is inside alone.                              *)
THEOREM Implements == Spec => OneAtATime
  <1>1. Init => Promise!Init
      BY DEF Init, Promise!Init, Inside
  <1>2. Layered /\ [Next]_vars => [Promise!Next]_Inside
    <2> SUFFICES ASSUME Layered, [Next]_vars PROVE Promise!Next \/ Inside' = Inside
        OBVIOUS
    <2>1. pc \in [Threads -> Steps]
        BY DEF Layered, TypeOK
    <2>2. ASSUME NEW t \in Threads, try_lockf(t), pc'[t] = "held" PROVE Promise!Enter(t)
      <3>1. record \in {None, Proc(t)} /\ pc[t] = "lockf"
          BY <2>1, <2>2 DEF try_lockf, To
      <3>2. \A u \in Threads : pc[u] # "held"
        <4> SUFFICES ASSUME NEW u \in Threads, pc[u] = "held" PROVE FALSE
            OBVIOUS
        <4>1. record = Proc(u)
            BY DEF Layered, ThreadOK, InRecord
        <4>2. Proc(u) = Proc(t)
            BY <3>1, <4>1, LayersAssumption, Places
        <4>3. pc[u] \in InGate /\ pc[t] \in InGate
            BY <3>1 DEF InGate, InLocal, Steps
        <4> QED
            BY <3>1, <4>2, <4>3, OneInGate
      <3>3. Inside = {}
          BY <3>2 DEF Inside
      <3>4. Inside' = {t}
          BY <2>1, <2>2, <3>2 DEF Inside, try_lockf, To
      <3> QED
          BY <3>3, <3>4 DEF Promise!Enter
    <2>3. ASSUME NEW t \in Threads, release(t) \/ suspend(t) PROVE Promise!Leave(t)
      <3>1. pc[t] = "held" /\ pc' = [pc EXCEPT ![t] = "unlock"]
          BY <2>3 DEF release, suspend, To
      <3>2. t \in Inside /\ Inside' = Inside \ {t}
          BY <2>1, <3>1 DEF Inside
      <3> QED
          BY <3>2 DEF Promise!Leave
    <2>4. ASSUME NEW t \in Threads, NEW step \in Steps \ {"held"}, pc[t] # "held", To(t, step)
          PROVE  Inside' = Inside
        BY <2>1, <2>4 DEF Inside, To
    <2>5. ASSUME NEW p \in Processes, die(p) PROVE Promise!Next \/ Inside' = Inside
      <3>1. \A t \in Threads : pc'[t] = IF Proc(t) = p THEN "dead" ELSE pc[t]
          BY <2>5 DEF die
      <3>2. CASE \E t \in Threads : pc[t] = "held" /\ Proc(t) = p
        <4>1. PICK t \in Threads : pc[t] = "held" /\ Proc(t) = p
            BY <3>2
        <4>2. \A u \in Threads : pc[u] = "held" => u = t
            BY <4>1, OneInside
        <4>3. t \in Inside /\ Inside' = Inside \ {t}
            BY <3>1, <4>1, <4>2 DEF Inside
        <4> QED
            BY <4>3 DEF Promise!Next, Promise!Leave
      <3>3. CASE \A t \in Threads : pc[t] = "held" => Proc(t) # p
          BY <3>1, <3>3 DEF Inside
      <3> QED
          BY <3>2, <3>3
    <2>6. ASSUME NEW t \in Threads,
                 \/ acquire_nested(t) \/ resume_nested(t) \/ release_nested(t)
                 \/ UNCHANGED vars
          PROVE  Inside' = Inside
        BY <2>6 DEF acquire_nested, resume_nested, release_nested, vars, Inside
    <2>7. ASSUME NEW t \in Threads,
                 \/ acquire_local(t) \/ open_fails(t) \/ time_out(t) \/ give_up(t)
                 \/ acquire_gate(t) \/ open_existing(t) \/ try_flock(t)
                 \/ unlock_record(t) \/ unlock_flock(t) \/ close_descriptor(t)
                 \/ release_gate(t) \/ release_local(t)
          PROVE  Inside' = Inside
      <3>1. pc[t] # "held" /\ \E step \in Steps \ {"held"} : To(t, step)
          BY <2>7 DEF acquire_local, open_fails, time_out, give_up, acquire_gate,
             open_existing, try_flock, unlock_record, unlock_flock, close_descriptor,
             release_gate, release_local, Steps
      <3> QED
          BY <3>1, <2>4
    <2>8. ASSUME NEW t \in Threads, try_lockf(t)
          PROVE  Promise!Next \/ Inside' = Inside
      <3>1. pc[t] # "held" /\ (To(t, "held") \/ To(t, "flock"))
          BY <2>8 DEF try_lockf
      <3>2. CASE To(t, "held")
        <4>1. pc'[t] = "held"
            BY <2>1, <3>2 DEF To
        <4> QED
            BY <4>1, <2>2, <2>8 DEF Promise!Next
      <3>3. CASE To(t, "flock")
          BY <3>1, <3>3, <2>4 DEF Steps
      <3> QED
          BY <3>1, <3>2, <3>3
    <2>9. CASE UNCHANGED vars
        BY <2>9 DEF vars, Inside
    <2> QED
        BY <2>3, <2>5, <2>6, <2>7, <2>8, <2>9
        DEF Next, Acquiring, Releasing, Promise!Next
  <1> QED
      BY <1>1, <1>2, LayeredInit, LayeredStep, PTL DEF Spec, OneAtATime, Promise!Spec
=============================================================================
