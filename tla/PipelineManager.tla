--------------------------- MODULE PipelineManager ---------------------------
(***************************************************************************)
(* The service: PipelineServiceManager and its two callers.  The routes of   *)
(* the HTTP API run on FastAPI's thread pool, so requests interleave between *)
(* any two operations on the dictionaries they share, and starting or        *)
(* joining a pipeline process takes long enough that they do.  The           *)
(* multi-pipeline entry point calls the manager from one thread, which its   *)
(* signal handler interrupts between any two operations.                     *)
(*                                                                         *)
(* A pipeline process is its number in the order of creation, and stands for *)
(* the nodes configuration it was started with.                              *)
(***************************************************************************)
EXTENDS Integers, FiniteSets

CONSTANTS
  Names,          \* pipeline names
  Requests,       \* requests the thread pool may serve at once
  MaxProcesses,   \* bound: pipelines ever started
  Clients         \* subset of {"serial", "concurrent", "multipipe"}: see Arrive

ASSUME ManagerAssumption ==
  /\ IsFiniteSet(Requests)
  /\ MaxProcesses \in Nat
  /\ Clients \subseteq {"serial", "concurrent", "multipipe"}

VARIABLES
  clients,     \* how the clients of this service behave
  left,        \* main_multipipe: pipes its loop has not come to yet
  signal,      \* main_multipipe: "none", or when the shutdown signal came: "early" | "late"
  snapshot,    \* main_multipipe: names shutdown_handler has yet to stop
  found,       \* history: the names it found registered when it was called
  pipelines,   \* manager.pipelines: name -> process, 0 when absent
  external,    \* names in manager.external_pipelines
  configs,     \* app.state.pipeline_nodes_configs: name -> configuration
  process,     \* the process's state: "none" | "running" | "dead"
  named,       \* the name a process was started under
  stopping,    \* processes whose stop_event is set
  request      \* the requests being served

vars == <<clients, left, signal, snapshot, found, pipelines, external, configs, process, named, stopping, request>>
caller == <<clients, left, signal, snapshot, found>>
registry == <<pipelines, external, configs>>
processes == <<process, named, stopping>>

Process == 1..MaxProcesses
\* Values of pipeline_nodes_configs besides the configuration of a process.
NoConfig == 0
ExternalConfig == MaxProcesses + 1
Operation == {"start", "stop", "register", "unregister"}
Idle == [op |-> "none", name |-> "none", pc |-> "idle", proc |-> 0]

Managed == {n \in Names : pipelines[n] # 0}
Created == {p \in Process : process[p] # "none"}
Spawning == {r \in Requests : request[r].op = "start" /\ request[r].pc \in {"check", "spawn"}}
Busy(n) == \E r \in Requests : request[r].pc # "idle" /\ request[r].name = n

Init ==
  /\ clients \in Clients
  /\ left = IF clients = "multipipe" THEN Names ELSE {}
  /\ signal = "none"
  /\ snapshot = {} /\ found = {}
  /\ pipelines = [n \in Names |-> 0]
  /\ external = {}
  /\ configs = [n \in Names |-> NoConfig]
  /\ process = [p \in Process |-> "none"]
  /\ named = [p \in Process |-> "none"]
  /\ stopping = {}
  /\ request = [r \in Requests |-> Idle]

At(r, pc) == request[r].pc = pc
Op(r) == request[r].op
Name(r) == request[r].name
Goto(r, pc) == request' = [request EXCEPT ![r].pc = pc]
\* The response is sent: 201, 204 or 200, or one of 404, 409 and 500.
Reply(r) == request' = [request EXCEPT ![r] = Idle]

-----------------------------------------------------------------------------
Serving(op) == \E r \in Requests : request[r].op = op
\* shutdown_handler has not returned: the thread it interrupted waits.
Handling == snapshot # {} \/ (clients = "multipipe" /\ Serving("stop"))

(* What a caller may ask for.  Serial clients of the HTTP API never have two    *)
(* requests for one name under way; concurrent ones may.  main_multipipe starts  *)
(* its pipes one after the other, and its handler stops one after the other      *)
(* those it found in the manager.                                                *)
MayAsk(op, n) ==
  \/ clients = "concurrent"
  \/ clients = "serial" /\ ~Busy(n)
  \/ /\ clients = "multipipe"
     /\ \/ op = "start" /\ n \in left /\ ~Serving("start") /\ ~Handling
        \/ op = "stop" /\ n \in snapshot /\ ~Serving("stop")

(* A request arrives with a configuration that validates: the routes answer     *)
(* 422 to any other, and main_multipipe skips it, before they look at the       *)
(* manager.                                                                     *)
Arrive(r, op, n) ==
  /\ At(r, "idle")
  /\ MayAsk(op, n)
  /\ op = "start" => Cardinality(Created) + Cardinality(Spawning) < MaxProcesses
  /\ request' = [request EXCEPT ![r] =
       [op |-> op, name |-> n, pc |-> "check", proc |-> 0]]
  /\ left' = IF op = "start" THEN left \ {n} ELSE left
  /\ snapshot' = IF op = "stop" THEN snapshot \ {n} ELSE snapshot
  /\ UNCHANGED <<clients, signal, found, registry, processes>>

(* shutdown_handler on SIGINT or SIGTERM: is_stopping is set, so that a second   *)
(* signal returns at once, and the names to stop are those registered by now.    *)
(* The signal is late when the start loop is over.                               *)
ShutdownSignal ==
  /\ clients = "multipipe"
  /\ signal = "none"
  /\ signal' = IF left = {} /\ ~Serving("start") THEN "late" ELSE "early"
  /\ snapshot' = Managed /\ found' = Managed
  /\ UNCHANGED <<clients, left, registry, processes, request>>

(* start_pipeline and register_external_pipeline: the name must be free.       *)
\* Faulty variant: external names are not looked at.
CheckFreeManagedOnly(r) ==
  /\ At(r, "check") /\ Op(r) \in {"start", "register"}
  /\ IF Name(r) \in Managed THEN Reply(r) ELSE Goto(r, IF Op(r) = "start" THEN "spawn" ELSE "insert")
  /\ UNCHANGED <<caller, registry, processes>>

CheckFree(r) ==
  /\ At(r, "check") /\ Op(r) \in {"start", "register"}
  /\ IF Name(r) \in Managed \cup external
     THEN Reply(r)
     ELSE Goto(r, IF Op(r) = "start" THEN "spawn" ELSE "insert")
  /\ UNCHANGED <<caller, registry, processes>>

\* start_pipeline: BasePipeline(...) and pipeline.start().
Spawn(r) ==
  /\ At(r, "spawn")
  /\ LET p == Cardinality(Created) + 1 IN
       /\ process' = [process EXCEPT ![p] = "running"]
       /\ named' = [named EXCEPT ![p] = Name(r)]
       /\ request' = [request EXCEPT ![r].pc = "insert", ![r].proc = p]
  /\ UNCHANGED <<caller, registry, stopping>>

\* The last line of start_pipeline or of register_external_pipeline.
Insert(r) ==
  /\ At(r, "insert")
  /\ IF Op(r) = "start"
     THEN pipelines' = [pipelines EXCEPT ![Name(r)] = request[r].proc] /\ UNCHANGED external
     ELSE external' = external \cup {Name(r)} /\ UNCHANGED pipelines
  /\ IF clients = "multipipe" THEN Reply(r) ELSE Goto(r, "config")
  /\ UNCHANGED <<caller, configs, processes>>

\* The route stores body.nodes.
StoreConfig(r) ==
  /\ At(r, "config")
  /\ configs' = [configs EXCEPT ![Name(r)] = IF Op(r) = "start" THEN request[r].proc ELSE ExternalConfig]
  /\ Goto(r, "status")
  /\ UNCHANGED <<caller, pipelines, external, processes>>

(* The route answers with status()[name].  The reply changes nothing, whether   *)
(* it is a 201 or the 500 of a name, or a dictionary size, that a concurrent    *)
(* request has changed since.                                                   *)
Answer(r) ==
  /\ At(r, "status")
  /\ Reply(r)
  /\ UNCHANGED <<caller, registry, processes>>

-----------------------------------------------------------------------------
(* stop_pipeline and unregister_external_pipeline: the name must be known.      *)
CheckKnown(r) ==
  /\ At(r, "check") /\ Op(r) \in {"stop", "unregister"}
  /\ IF Name(r) \in (IF Op(r) = "stop" THEN Managed ELSE external) THEN Goto(r, "remove") ELSE Reply(r)
  /\ UNCHANGED <<caller, registry, processes>>

(* stop_pipeline: pop the pair and set its event.  A concurrent stop may have   *)
(* popped it since the check: KeyError, a 500.                                  *)
\* Faulty variant: the entry is read and not removed.
PopLeavingEntry(r) ==
  /\ At(r, "remove") /\ Op(r) = "stop"
  /\ IF Name(r) \in Managed
     THEN LET p == pipelines[Name(r)] IN
            /\ stopping' = stopping \cup {p}
            /\ request' = [request EXCEPT ![r].pc = "join", ![r].proc = p]
     ELSE Reply(r) /\ UNCHANGED stopping
  /\ UNCHANGED <<caller, registry, process, named>>

Pop(r) ==
  /\ At(r, "remove") /\ Op(r) = "stop"
  /\ IF Name(r) \in Managed
     THEN LET p == pipelines[Name(r)] IN
            /\ pipelines' = [pipelines EXCEPT ![Name(r)] = 0]
            /\ stopping' = stopping \cup {p}
            /\ request' = [request EXCEPT ![r].pc = "join", ![r].proc = p]
     ELSE Reply(r) /\ UNCHANGED <<pipelines, stopping>>
  /\ UNCHANGED <<caller, external, configs, process, named>>

\* stop_pipeline returns to the route, which has the configuration to forget, or to the handler.
StopDone(r) == IF clients = "multipipe" THEN Reply(r) ELSE Goto(r, "forget")

\* pipeline.join(timeout=5) saw the process end.
Joined(r) ==
  /\ At(r, "join")
  /\ process[request[r].proc] = "dead"
  /\ StopDone(r)
  /\ UNCHANGED <<caller, registry, processes>>

\* It did not end within the timeout: terminate().
\* Faulty variant: a process that ignores its event is left alone.
TimeoutWithoutTerminate(r) ==
  /\ At(r, "join")
  /\ process[request[r].proc] = "running"
  /\ StopDone(r)
  /\ UNCHANGED <<caller, registry, processes>>

Terminate(r) ==
  /\ At(r, "join")
  /\ process[request[r].proc] = "running"
  /\ process' = [process EXCEPT ![request[r].proc] = "dead"]
  /\ StopDone(r)
  /\ UNCHANGED <<caller, registry, named, stopping>>

\* unregister_external_pipeline: del, a KeyError if it has gone since the check.
Delete(r) ==
  /\ At(r, "remove") /\ Op(r) = "unregister"
  /\ IF Name(r) \in external
     THEN external' = external \ {Name(r)} /\ Goto(r, "forget")
     ELSE Reply(r) /\ UNCHANGED external
  /\ UNCHANGED <<caller, pipelines, configs, processes>>

\* The stop and unregister routes drop the name's configuration, whoever stored it.
\* Faulty variant: the configuration of a stopped pipeline is kept.
KeepConfig(r) ==
  /\ At(r, "forget")
  /\ Reply(r)
  /\ UNCHANGED <<caller, registry, processes>>

ForgetConfig(r) ==
  /\ At(r, "forget")
  /\ configs' = [configs EXCEPT ![Name(r)] = NoConfig]
  /\ Reply(r)
  /\ UNCHANGED <<caller, pipelines, external, processes>>

(* A pipeline process ends by itself: its stop event, a node that failed under *)
(* its error policy, or a crash.  The manager is not told.                     *)
Exit(p) ==
  /\ process[p] = "running"
  /\ process' = [process EXCEPT ![p] = "dead"]
  /\ UNCHANGED <<caller, registry, named, stopping, request>>

-----------------------------------------------------------------------------
Serve(r) ==
  \/ Op(r) = "start" /\ ~Handling /\ (CheckFree(r) \/ Spawn(r) \/ Insert(r) \/ StoreConfig(r) \/ Answer(r))
  \/ Op(r) = "register" /\ (CheckFree(r) \/ Insert(r) \/ StoreConfig(r) \/ Answer(r))
  \/ CheckKnown(r) \/ Pop(r) \/ Joined(r) \/ Terminate(r) \/ Delete(r) \/ ForgetConfig(r)

\* shutdown_handler goes on to the next name.
HandlerStep == clients = "multipipe" /\ \E r \in Requests, n \in Names : Arrive(r, "stop", n)

Next ==
  \/ \E r \in Requests, op \in Operation, n \in Names : Arrive(r, op, n)
  \/ \E r \in Requests : Serve(r)
  \/ ShutdownSignal
  \/ \E p \in Process : Exit(p)

(* Fairness: a request being served goes on (every wait in a route is bounded: *)
(* join has a timeout), and the handler's loop goes on.  A pipeline need not   *)
(* ever end by itself, a request or a signal need not come.                    *)
Fairness == WF_vars(HandlerStep) /\ \A r \in Requests : WF_vars(Serve(r))

Spec == Init /\ [][Next]_vars /\ Fairness

-----------------------------------------------------------------------------
(* Every variable has its type, and the registry only ever names processes     *)
(* that were started under that name.                                          *)
TypeOK ==
  /\ clients \in Clients
  /\ left \subseteq Names
  /\ signal \in {"none", "early", "late"}
  /\ snapshot \subseteq Names /\ found \subseteq Names
  /\ pipelines \in [Names -> 0..MaxProcesses]
  /\ external \subseteq Names
  /\ configs \in [Names -> NoConfig..ExternalConfig]
  /\ process \in [Process -> {"none", "running", "dead"}]
  /\ named \in [Process -> Names \cup {"none"}]
  /\ stopping \subseteq Process
  /\ \A r \in Requests : request[r].proc \in 0..MaxProcesses
  /\ \A n \in Managed : named[pipelines[n]] = n

Running(n) == {p \in Process : process[p] = "running" /\ named[p] = n}

(* start_pipeline: the name is "unique", and ValueError is raised "if a         *)
(* pipeline with name is already running": two processes never run under one    *)
(* name, and no name is both managed and external.                              *)
UniqueName ==
  /\ \A n \in Names : Cardinality(Running(n)) <= 1
  /\ Managed \cap external = {}

(* PipelineDetailResponse is "a single pipeline's status plus its node config":  *)
(* while no request for a name is under way, a managed pipeline's stored         *)
(* configuration is the one it was started with, an external one's the one it    *)
(* was registered with, and any other name has none left.                        *)
ConfigKept ==
  \A n \in Names : ~Busy(n) =>
    /\ n \in Managed => configs[n] = pipelines[n]
    /\ n \in external => configs[n] = ExternalConfig
    /\ n \notin Managed \cup external => configs[n] = NoConfig

\* A running process is in the registry, or a request about it is under way.
NoOrphan ==
  \A p \in Process : process[p] = "running" => pipelines[named[p]] = p \/ Busy(named[p])

(* shutdown_handler has every pipeline that runs under a name it found in the    *)
(* manager still before it, or is stopping it.  A name it did not find is one the  *)
(* start loop registered after an early signal: that pipeline runs, and nothing in  *)
(* the service will stop it, since a second signal returns at once.  A late signal  *)
(* misses none.                                                                    *)
ShutdownReaches ==
  signal # "none" => \A p \in Process : process[p] = "running" =>
    \/ named[p] \in snapshot
    \/ \E r \in Requests : Op(r) = "stop" /\ Name(r) = named[p]
    \/ signal = "early" /\ named[p] \notin found

(* With serial clients, and under main_multipipe with its handler interrupting   *)
(* start_pipeline anywhere, the registry agrees with the processes whatever       *)
(* requests for other names and exits of processes interleave: names are unique,  *)
(* a running process is registered or in the hands of a request, the routes show  *)
(* the configuration that runs, and the shutdown of main_multipipe overlooks only  *)
(* what was not registered when its signal came.                                  *)
RegistryAgrees ==
  /\ clients # "concurrent" => UniqueName /\ NoOrphan /\ ShutdownReaches
  /\ clients = "serial" => ConfigKept

(* shutdown_handler logs "All pipelines stopped." at its end, as a "Graceful       *)
(* shutdown hook": no pipeline runs once it has returned.  One whose start it       *)
(* interrupted does.                                                              *)
AllPipelinesStopped ==
  signal # "none" /\ ~Handling => \A p \in Process : process[p] # "running"

(* Even concurrent stops never both wait for, and terminate, one process: the   *)
(* pop hands it to one of them.                                                 *)
OneStopper ==
  \A r, s \in Requests :
    At(r, "join") /\ At(s, "join") /\ r # s => request[r].proc # request[s].proc

(* A process that was told to stop does end, also when it ignores its event; and  *)
(* a signal that finds main_multipipe's start loop over ends every pipeline.  An   *)
(* earlier one does not: the loop goes on to start the pipes that are left.        *)
StopKills ==
  /\ \A p \in Process : (p \in stopping) ~> (process[p] = "dead")
  /\ (signal = "late") ~> (\A p \in Process : process[p] # "running")
=============================================================================
