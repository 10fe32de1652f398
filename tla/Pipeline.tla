------------------------------ MODULE Pipeline ------------------------------
(***************************************************************************)
(* The life of one pipeline: a chain of nodes, each a thread or a child      *)
(* process, joined by bounded edges, and the driver that builds, starts,     *)
(* watches and stops them: main() of the command line entry point,           *)
(* BasePipeline.run inside a process of the service, or the voice assistant's *)
(* launcher, interactive or with --smoke.                                    *)
(*                                                                         *)
(* A node is seen as its run loop's passes: it takes a message, works on it,  *)
(* and sends one message on, drops it, or fails under `on_error: fail`.       *)
(* Mailbox and Node give the detail of an edge and of a pass.                 *)
(***************************************************************************)
EXTENDS Integers, FiniteSets

CONSTANTS
  Length,     \* number of nodes in the chain; node 1 is the source
  Capacity,   \* messages an edge holds before a send on it blocks
  Kinds,      \* subset of {"thread", "process"}
  Drivers,    \* subset of {"main", "service", "voice", "smoke"}
  Faults      \* what may go wrong: subset of {"start", "crash"}

ASSUME PipelineAssumption ==
  /\ Length \in Nat \ {0}
  /\ Capacity \in Nat \ {0}
  /\ Kinds \subseteq {"thread", "process"}
  /\ Drivers \subseteq {"main", "service", "voice", "smoke"}
  /\ Faults \subseteq {"start", "crash"}

VARIABLES
  driver,    \* who runs the pipeline
  kind,      \* per node, BaseNode or BaseProcessNode
  node,      \* per node, where its run loop is
  inbox,     \* per node, messages on the edge into it
  failed,    \* nodes whose failed() is True
  told,      \* nodes whose stop() was called
  phase,     \* program point of the driver
  late,      \* main gave up waiting for a process node to become ready
  signal     \* main's signal was received, or the service's stop_event set

vars == <<driver, kind, node, inbox, failed, told, phase, late, signal>>
config == <<driver, kind>>

Nodes == 1..Length
Processes == {i \in Nodes : kind[i] = "process"}
Live == {i \in Nodes : node[i] \notin {"exited", "dead"}}

(* RoutingFactory.create_mailboxes and the loop over NodeFactory.create: every *)
(* node is built, and every mailbox wired, before any node is started.         *)
Init ==
  /\ driver \in Drivers
  /\ kind \in [Nodes -> Kinds]
  /\ node = [i \in Nodes |-> "built"]
  /\ inbox = [i \in Nodes |-> 0]
  /\ failed = {}
  /\ told = {}
  /\ phase = "start"
  /\ late = FALSE
  /\ signal = FALSE

-----------------------------------------------------------------------------
(* The driver.                                                              *)

Unstarted == {i \in Nodes : node[i] = "built"}

\* The driver's list of nodes: main puts the process nodes first, the others keep the
\* order of the config.
Before(i, j) ==
  IF driver = "main" /\ kind[i] # kind[j] THEN kind[i] = "process" ELSE i < j

AllReady == \A i \in Processes : node[i] \notin {"built", "starting"}

\* Faulty variant: main starts the threads without waiting for the processes.
MayStartAtOnce(i) == \A j \in Unstarted \ {i} : Before(i, j)

\* Nodes are started in the order of the list; before the first thread main waits
\* for the processes (_start_process_nodes).
MayStart(i) ==
  /\ \A j \in Unstarted \ {i} : Before(i, j)
  /\ driver = "main" /\ kind[i] = "thread" => AllReady \/ late

StartNode(i) ==
  /\ phase = "start"
  /\ i \in Unstarted
  /\ MayStart(i)
  /\ node' = [node EXCEPT ![i] = IF kind[i] = "process" THEN "starting" ELSE "loop"]
  /\ UNCHANGED <<config, inbox, failed, told, phase, late, signal>>

\* node.start() raised: no driver has entered a try, so nothing is stopped.
StartRaises(i) ==
  /\ "start" \in Faults
  /\ phase = "start"
  /\ i \in Unstarted
  /\ MayStart(i)
  /\ phase' = "exit"
  /\ UNCHANGED <<config, node, inbox, failed, told, late, signal>>

\* wait_ready(timeout=STARTUP_READY_TIMEOUT_SEC) returned False: "starting anyway".
ReadyTimeout ==
  /\ phase = "start" /\ driver = "main"
  /\ Processes \cap Unstarted = {}
  /\ ~AllReady /\ ~late
  /\ late' = TRUE
  /\ UNCHANGED <<config, node, inbox, failed, told, phase, signal>>

Started ==
  /\ phase = "start"
  /\ Unstarted = {}
  /\ AllReady \/ late \/ driver # "main"
  /\ phase' = "watch"
  /\ UNCHANGED <<config, node, inbox, failed, told, late, signal>>

\* Faulty variant: failed nodes are not looked at.
WatchSignalOnly ==
  /\ phase = "watch"
  /\ signal \/ driver = "smoke"
  /\ phase' = "stop"
  /\ UNCHANGED <<config, node, inbox, failed, told, late, signal>>

\* The watch loop of BasePipeline.run, or _watch_for_failed_nodes beside main's wait.
\* The voice launcher waits for SIGINT alone, and with --smoke for three seconds.
Watch ==
  /\ phase = "watch"
  /\ signal \/ driver = "smoke" \/ (driver # "voice" /\ failed # {})
  /\ phase' = "stop"
  /\ UNCHANGED <<config, node, inbox, failed, told, late, signal>>

\* The finally clause: node.stop() one after the other.
StopNode(i) ==
  /\ phase = "stop"
  /\ i \in Nodes \ told
  /\ \A j \in Nodes \ (told \cup {i}) : Before(i, j)
  /\ told' = told \cup {i}
  /\ UNCHANGED <<config, node, inbox, failed, phase, late, signal>>

Stopped ==
  /\ phase = "stop"
  /\ told = Nodes
  /\ phase' = "exit"
  /\ UNCHANGED <<config, node, inbox, failed, told, late, signal>>

\* The interpreter exits: threads are daemons, but multiprocessing joins every child.
Exited ==
  /\ phase = "exit"
  /\ Processes \cap Live \subseteq Unstarted
  /\ phase' = "done"
  /\ UNCHANGED <<config, node, inbox, failed, told, late, signal>>

Driver ==
  \/ \E i \in Nodes : StartNode(i) \/ StopNode(i)
  \/ Started \/ Watch \/ Stopped \/ Exited

-----------------------------------------------------------------------------
(* The nodes.                                                               *)

\* The threads of a process end with it.
Runs(i) == kind[i] = "process" \/ phase \notin {"done", "killed"}

\* run() of a process node up to _ready_event.set().
Ready(i) ==
  /\ node[i] = "starting"
  /\ node' = [node EXCEPT ![i] = "loop"]
  /\ UNCHANGED <<config, inbox, failed, told, phase, late, signal>>

\* Faulty variant: messages are taken for as long as there are any, stopped or not.
TakeWhileAny(i) ==
  /\ node[i] = "loop"
  /\ i = 1 \/ inbox[i] > 0
  /\ node' = [node EXCEPT ![i] = "busy"]
  /\ inbox' = IF i = 1 THEN inbox ELSE [inbox EXCEPT ![i] = @ - 1]
  /\ UNCHANGED <<config, failed, told, phase, late, signal>>

\* One check of the loop condition and a message collected; a source makes one up.
Take(i) ==
  /\ node[i] = "loop" /\ i \notin told
  /\ i = 1 \/ inbox[i] > 0
  /\ node' = [node EXCEPT ![i] = "busy"]
  /\ inbox' = IF i = 1 THEN inbox ELSE [inbox EXCEPT ![i] = @ - 1]
  /\ UNCHANGED <<config, failed, told, phase, late, signal>>

\* The message was dropped, or had nobody to go to.
NoOutput(i) ==
  /\ node[i] = "busy"
  /\ node' = [node EXCEPT ![i] = "loop"]
  /\ UNCHANGED <<config, inbox, failed, told, phase, late, signal>>

\* mailbox.send on an edge with room, at once or after waiting for it.
Send(i) ==
  /\ node[i] \in {"busy", "blocked"}
  /\ i < Length
  /\ inbox[i + 1] < Capacity
  /\ inbox' = [inbox EXCEPT ![i + 1] = @ + 1]
  /\ node' = [node EXCEPT ![i] = "loop"]
  /\ UNCHANGED <<config, failed, told, phase, late, signal>>

\* put_bytes waits for room, without a timeout.
SendBlocks(i) ==
  /\ node[i] = "busy"
  /\ i < Length
  /\ inbox[i + 1] = Capacity
  /\ node' = [node EXCEPT ![i] = "blocked"]
  /\ UNCHANGED <<config, inbox, failed, told, phase, late, signal>>

\* BaseNode.stop() closes the sockets under a blocked send, which raises;
\* BaseProcessNode.stop() only sets the event.
Interrupted(i) ==
  /\ node[i] = "blocked"
  /\ kind[i] = "thread" /\ i \in told
  /\ node' = [node EXCEPT ![i] = "loop"]
  /\ UNCHANGED <<config, inbox, failed, told, phase, late, signal>>

\* _handle's NodeFailure clause: the node flags itself and its loop ends.
Fail(i) ==
  /\ node[i] = "busy"
  /\ failed' = failed \cup {i}
  /\ node' = [node EXCEPT ![i] = "exited"]
  /\ UNCHANGED <<config, inbox, told, phase, late, signal>>

\* The loop condition is false.
\* Faulty variant: the loop leaves only when its inbox is empty.
LeaveWhenDrained(i) ==
  /\ node[i] = "loop" /\ i \in told
  /\ inbox[i] = 0
  /\ node' = [node EXCEPT ![i] = "exited"]
  /\ UNCHANGED <<config, inbox, failed, told, phase, late, signal>>

Leave(i) ==
  /\ node[i] = "loop" /\ i \in told
  /\ node' = [node EXCEPT ![i] = "exited"]
  /\ UNCHANGED <<config, inbox, failed, told, phase, late, signal>>

RunLoop(i) ==
  /\ Runs(i)
  /\ Ready(i) \/ Take(i) \/ NoOutput(i) \/ Send(i) \/ SendBlocks(i) \/ Interrupted(i) \/ Fail(i) \/ Leave(i)

-----------------------------------------------------------------------------
(* The environment.                                                         *)

\* A node process is killed, or a node thread dies of an exception.
Crash(i) ==
  /\ "crash" \in Faults
  /\ node[i] \in {"starting", "loop", "busy", "blocked"}
  /\ Runs(i)
  /\ node' = [node EXCEPT ![i] = "dead"]
  /\ UNCHANGED <<config, inbox, failed, told, phase, late, signal>>

\* Whether the driver handles signals yet: --smoke installs no handler at all.
Handles == driver = "service" \/ (driver # "smoke" /\ phase # "start")

(* Without a handler a signal kills the driver (SIGTERM) or raises               *)
(* KeyboardInterrupt outside its try (SIGINT): no node is told to stop.  The      *)
(* voice launcher never handles SIGTERM.                                          *)
Signal ==
  /\ ~signal
  /\ phase \notin {"done", "killed"}
  /\ signal' = TRUE
  /\ \/ Handles /\ UNCHANGED phase
     \/ ~Handles /\ phase' \in {"killed", "exit"}
     \/ Handles /\ driver = "voice" /\ phase' = "killed"
  /\ UNCHANGED <<config, node, inbox, failed, told, late>>

(* The manager terminates a pipeline that has not ended five seconds after its    *)
(* event was set.                                                               *)
Kill ==
  /\ signal /\ driver = "service"
  /\ phase \notin {"done", "killed"}
  /\ phase' = "killed"
  /\ UNCHANGED <<config, node, inbox, failed, told, late, signal>>

Next ==
  \/ Driver \/ ReadyTimeout
  \/ \E i \in Nodes : StartRaises(i) \/ RunLoop(i) \/ Crash(i)
  \/ Signal \/ Kill

(* Fairness: the driver and every node's thread or process are scheduled, and  *)
(* process() returns.  Signals, crashes, failures and timeouts need not come.  *)
Fairness ==
  /\ WF_vars(Driver)
  /\ WF_vars(ReadyTimeout)
  /\ \A i \in Nodes : WF_vars(RunLoop(i))

Spec == Init /\ [][Next]_vars /\ Fairness

-----------------------------------------------------------------------------
(* Every variable has its type and no edge holds more than its capacity.       *)
TypeOK ==
  /\ driver \in Drivers
  /\ kind \in [Nodes -> Kinds]
  /\ node \in [Nodes -> {"built", "starting", "loop", "busy", "blocked", "exited", "dead"}]
  /\ inbox \in [Nodes -> 0..Capacity]
  /\ failed \subseteq Nodes
  /\ told \subseteq Nodes
  /\ phase \in {"start", "watch", "stop", "exit", "done", "killed"}
  /\ late \in BOOLEAN
  /\ signal \in BOOLEAN

(* _start_process_nodes: "Waiting for readiness ensures no producer sends into  *)
(* a not-yet-listening consumer".  It does in main unless a wait times out, for  *)
(* pipelines whose source is a threaded node, also along chains of processes.    *)
NoSendBeforeListening ==
  driver = "main" /\ kind[1] = "thread" /\ ~late =>
    \A i \in Processes : inbox[i] > 0 => node[i] \notin {"built", "starting"}

\* A smoke test was interrupted.
CutShort == driver = "smoke" /\ signal

(* A node that fails under `on_error: fail` has every node of the pipeline told  *)
(* to stop, also when it fails before the others have been started, unless the   *)
(* driver itself dies or could not start a node.  The voice launcher is the       *)
(* exception: it never looks at failed().                                        *)
FailureReachesAll ==
  (failed # {} /\ driver # "voice") ~>
    \/ told = Nodes \/ phase = "killed"
    \/ phase \in {"exit", "done"} /\ (told = {} \/ CutShort)

Ended(i) == node[i] \in {"exited", "dead"}

\* A send waits for room on an edge that nobody reads any more: a process node's, or that
\* of a thread which nobody will tell to stop.
Stuck(i) ==
  /\ node[i] = "blocked"
  /\ kind[i] = "process" \/ (phase = "exit" /\ i \notin told)
  /\ Ended(i + 1) \/ ~Runs(i + 1)

(* Once its nodes are being stopped the pipeline ends, whatever state they were   *)
(* in; a pipeline of threads always does.  The exceptions are a process node      *)
(* stuck in a send whose consumer has gone, and a smoke test interrupted while    *)
(* it stops its nodes, which then waits for process nodes nobody told to stop.    *)
ShutdownCompletes ==
  (phase = "stop") ~> (phase \in {"done", "killed"} \/ CutShort \/ \E i \in Nodes : Stuck(i))

(* The manager may terminate a pipeline while it stops its nodes, and its process   *)
(* nodes then run on without a parent.  Those whose stop() had returned end all     *)
(* the same, whichever of the others were told, are blocked or died with the         *)
(* driver; unless they wait, along a chain of full edges, for a send that is stuck.  *)
(* The ones that had not been told yet are stopped by nobody.                       *)
ToldProcessesEnd ==
  \A i \in Nodes :
    (kind[i] = "process" /\ i \in told) ~> (Ended(i) \/ \E j \in i..Length : Stuck(j))

(* README, error policy `fail`: "stop the node, which brings the whole pipeline  *)
(* down".                                                                        *)
FailBringsPipelineDown == (failed # {}) ~> (phase \in {"done", "killed"})
=============================================================================
