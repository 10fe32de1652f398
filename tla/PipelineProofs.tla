--------------------------- MODULE PipelineProofs ---------------------------
(***************************************************************************)
(* Safety of a pipeline of any length, with edges of any capacity, whatever  *)
(* its nodes are and whoever drives it: StartInv says what main's wait for    *)
(* its process nodes is worth.                                               *)
(***************************************************************************)
EXTENDS Pipeline, TLAPS

\* Before the source is started nothing is on its way.
Quiet ==
  /\ node[1] = "built"
  /\ \A i \in Nodes : inbox[i] = 0 /\ node[i] \notin {"busy", "blocked"}

(* Under main, and as long as no wait has timed out, a threaded source is       *)
(* started only when every process node listens.                                *)
StartInv ==
  driver = "main" /\ kind[1] = "thread" /\ ~late => AllReady \/ Quiet

IInv == TypeOK /\ StartInv

-----------------------------------------------------------------------------
(* Nothing is started, sent or stopped yet.                                      *)
LEMMA InitInv == Init => IInv
<1> SUFFICES ASSUME Init
             PROVE  IInv
  OBVIOUS
<1> USE DEF Nodes
<1>1. TypeOK
  <2>1. inbox \in [Nodes -> 0..Capacity]
    BY PipelineAssumption DEF Init
  <2> QED
    BY <2>1 DEF Init, TypeOK
<1>2. Quiet
  BY PipelineAssumption DEF Init, Quiet
<1> QED
  BY <1>1, <1>2 DEF IInv, StartInv

(* A step of a node's run loop moves that node alone, and the messages on the    *)
(* edges next to it; a node that listens, or is on its way out, keeps listening  *)
(* in the sense of wait_ready.                                                   *)
LEMMA RunLoopInv ==
  ASSUME IInv, NEW i \in Nodes, RunLoop(i) \/ Crash(i)
  PROVE  IInv'
<1> USE DEF Nodes
<1>0. UNCHANGED <<driver, kind, told, phase, late, signal>> /\ failed \subseteq failed' /\ failed' \subseteq Nodes
  <2>1. CASE Fail(i)
    BY <2>1 DEF Fail, config, IInv, TypeOK
  <2> QED
    BY <2>1 DEF RunLoop, Crash, Ready, Take, NoOutput, Send, SendBlocks, Interrupted, Leave, config, IInv, TypeOK
<1>1. /\ node' \in [Nodes -> {"built", "starting", "loop", "busy", "blocked", "exited", "dead"}]
      /\ inbox' \in [Nodes -> 0..Capacity]
  <2> USE PipelineAssumption DEF IInv, TypeOK
  <2>1. CASE Take(i)
    BY <2>1 DEF Take
  <2>2. CASE Send(i)
    BY <2>2 DEF Send
  <2>3. CASE ~Take(i) /\ ~Send(i)
    BY <2>3 DEF RunLoop, Crash, Ready, NoOutput, SendBlocks, Interrupted, Fail, Leave
  <2> QED
    BY <2>1, <2>2, <2>3
<1>2. TypeOK'
  BY <1>0, <1>1 DEF TypeOK, IInv
<1>3. /\ \A j \in Nodes \ {i} : node'[j] = node[j]
      /\ node[i] # "built" /\ node'[i] \notin {"built", "starting"}
  BY DEF IInv, TypeOK, RunLoop, Crash, Ready, Take, NoOutput, Send, SendBlocks, Interrupted, Fail, Leave
<1>4. AllReady => AllReady'
  BY <1>0, <1>3 DEF AllReady, Processes
<1>5. Quiet => Quiet'
  <2> SUFFICES ASSUME Quiet
               PROVE  Quiet'
    OBVIOUS
  <2>1. i # 1 /\ 1 \in Nodes
    BY <1>3, PipelineAssumption DEF Quiet
  <2>2. Ready(i) \/ Leave(i) \/ Crash(i)
    BY <2>1 DEF Quiet, RunLoop, Take, NoOutput, Send, SendBlocks, Interrupted, Fail
  <2>3. inbox' = inbox /\ node'[i] \notin {"busy", "blocked"}
    BY <2>2 DEF Ready, Leave, Crash, IInv, TypeOK
  <2> QED
    BY <1>3, <2>1, <2>3 DEF Quiet
<1>6. StartInv'
  BY <1>0, <1>4, <1>5 DEF StartInv, IInv
<1> QED
  BY <1>2, <1>6 DEF IInv

(* Starting a node: a thread that main starts finds the processes listening.     *)
LEMMA StartNodeInv ==
  ASSUME IInv, NEW i \in Nodes, StartNode(i)
  PROVE  IInv'
<1> USE DEF Nodes
<1>0. UNCHANGED <<driver, kind, inbox, failed, told, phase, late, signal>>
  BY DEF StartNode, config
<1>1. TypeOK'
  BY <1>0 DEF StartNode, IInv, TypeOK
<1>2. /\ node[i] = "built"
      /\ \A j \in Nodes \ {i} : node'[j] = node[j]
      /\ node'[i] \notin {"built", "busy", "blocked"}
  BY DEF StartNode, Unstarted, IInv, TypeOK
<1>3. ASSUME driver' = "main", kind'[1] = "thread", ~late'
      PROVE  AllReady' \/ Quiet'
  <2>1. CASE kind[i] = "thread"
    <3>1. AllReady
      BY <1>0, <1>3, <2>1 DEF StartNode, MayStart
    <3> QED
      BY <1>0, <1>2, <2>1, <3>1 DEF AllReady, Processes
  <2>2. CASE kind[i] # "thread"
    <3>1. i # 1
      BY <1>0, <1>3, <2>2
    <3>2. CASE Quiet
      BY <1>0, <1>2, <3>1, <3>2, PipelineAssumption DEF Quiet
    <3>3. CASE AllReady
      <4>1. kind[i] = "process"
        BY <2>2, PipelineAssumption DEF IInv, TypeOK
      <4> QED
        BY <1>2, <3>3, <4>1 DEF AllReady, Processes
    <3> QED
      BY <1>0, <1>3, <3>2, <3>3 DEF StartInv, IInv
  <2> QED
    BY <2>1, <2>2
<1>4. StartInv'
  BY <1>3 DEF StartInv
<1> QED
  BY <1>1, <1>4 DEF IInv

(* Every other step leaves the nodes and the edges alone.                        *)
LEMMA DriverInv ==
  ASSUME IInv,
         \/ \E i \in Nodes : StopNode(i) \/ StartRaises(i)
         \/ Started \/ Watch \/ Stopped \/ Exited \/ ReadyTimeout \/ Signal \/ Kill
  PROVE  IInv'
<1>0. /\ UNCHANGED <<driver, kind, node, inbox, failed>>
      /\ late => late'
  BY DEF StopNode, StartRaises, Started, Watch, Stopped, Exited, ReadyTimeout, Signal, Kill, config
<1>1. TypeOK'
  <2>1. late' \in BOOLEAN /\ signal' \in BOOLEAN /\ told' \subseteq Nodes
    BY DEF StopNode, StartRaises, Started, Watch, Stopped, Exited, ReadyTimeout, Signal, Kill, IInv, TypeOK
  <2>2. phase' \in {"start", "watch", "stop", "exit", "done", "killed"}
    BY DEF StopNode, StartRaises, Started, Watch, Stopped, Exited, ReadyTimeout, Signal, Kill, IInv, TypeOK
  <2> QED
    BY <1>0, <2>1, <2>2 DEF IInv, TypeOK
<1>2. StartInv'
  BY <1>0 DEF StartInv, Quiet, AllReady, Processes, IInv
<1> QED
  BY <1>1, <1>2 DEF IInv

(* No action breaks the inductive invariant.                                     *)
LEMMA StepInv == IInv /\ [Next]_vars => IInv'
<1> SUFFICES ASSUME IInv, [Next]_vars
             PROVE  IInv'
  OBVIOUS
<1>1. CASE UNCHANGED vars
  BY <1>1 DEF vars, IInv, TypeOK, StartInv, Quiet, AllReady, Processes
<1>2. ASSUME NEW i \in Nodes, StartNode(i)
      PROVE  IInv'
  BY <1>2, StartNodeInv
<1>3. ASSUME NEW i \in Nodes, RunLoop(i) \/ Crash(i)
      PROVE  IInv'
  BY <1>3, RunLoopInv
<1>4. CASE \/ \E i \in Nodes : StopNode(i) \/ StartRaises(i)
           \/ Started \/ Watch \/ Stopped \/ Exited \/ ReadyTimeout \/ Signal \/ Kill
  BY <1>4, DriverInv
<1> QED
  BY <1>1, <1>2, <1>3, <1>4 DEF Next, Driver

(* The strengthened invariant holds initially and every step keeps it.       *)
LEMMA Inductive == Spec => []IInv
  BY InitInv, StepInv, PTL DEF Spec

-----------------------------------------------------------------------------
(* The pipeline's variables keep their types, and no edge ever holds more than   *)
(* its capacity: a send on a full one blocks.                                    *)
THEOREM PipelineTypes == Spec => []TypeOK
<1>1. IInv => TypeOK
  BY DEF IInv
<1> QED
  BY <1>1, Inductive, PTL

(* _start_process_nodes keeps its word for every pipeline with a threaded source: *)
(* unless a wait timed out, nothing is on the edge into a process node that does  *)
(* not listen yet, however many processes lie between it and the source.          *)
THEOREM SendsAreListenedTo == Spec => []NoSendBeforeListening
<1>1. IInv => NoSendBeforeListening
  <2>1. ASSUME AllReady
        PROVE  NoSendBeforeListening
    BY <2>1 DEF AllReady, NoSendBeforeListening
  <2>2. ASSUME Quiet
        PROVE  NoSendBeforeListening
    BY <2>2 DEF Quiet, NoSendBeforeListening, Processes
  <2> QED
    BY <2>1, <2>2 DEF IInv, StartInv, NoSendBeforeListening
<1> QED
  BY <1>1, Inductive, PTL
=============================================================================
