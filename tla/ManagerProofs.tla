---------------------------- MODULE ManagerProofs ----------------------------
(***************************************************************************)
(* The registry of the service for any names, any thread pool and any number *)
(* of processes.  A process belongs to the registry, to the start that        *)
(* created it or to the stop that popped it, and never to two of them         *)
(* (HoldInv, which concurrent clients do not break); a name that at most one  *)
(* request is about agrees with its processes and its configuration           *)
(* (SoloInv).                                                                *)
(***************************************************************************)
EXTENDS PipelineManager, FiniteSetTheorems, TLAPS

Points(op) ==
  CASE op = "start" -> {"check", "spawn", "insert", "config", "status"}
    [] op = "register" -> {"check", "insert", "config", "status"}
    [] op = "stop" -> {"check", "remove", "join", "forget"}
    [] OTHER -> {"check", "remove", "forget"}
AllPoints == {"check", "spawn", "insert", "config", "status", "remove", "join", "forget"}

Asked == [op : Operation, name : Names, pc : AllPoints, proc : 0..MaxProcesses]

RequestOK ==
  /\ request \in [Requests -> {Idle} \cup Asked]
  /\ \A r \in Requests : ~At(r, "idle") => request[r].pc \in Points(Op(r))

(* Process numbers are handed out in order, and there are enough of them for    *)
(* the starts under way.                                                         *)
SupplyInv ==
  /\ Created = 1..Cardinality(Created)
  /\ Cardinality(Created) + Cardinality(Spawning) <= MaxProcesses
  /\ \A p \in Created : named[p] \in Names

\* A start has created its process and not inserted it, or a stop has popped it.
Holds(r) == (At(r, "insert") /\ Op(r) = "start") \/ At(r, "join")

HoldInv ==
  /\ \A n \in Managed : process[pipelines[n]] # "none"
  /\ \A r \in Requests : Holds(r) =>
       /\ request[r].proc \in Created
       /\ named[request[r].proc] = Name(r)
       /\ \A n \in Names : pipelines[n] # request[r].proc
  /\ \A r, s \in Requests : Holds(r) /\ Holds(s) /\ r # s => request[r].proc # request[s].proc

BaseInv == TypeOK /\ RequestOK /\ SupplyInv /\ HoldInv

-----------------------------------------------------------------------------
\* At most one request is about a name.
Exclusive ==
  \A r, s \in Requests :
    ~At(r, "idle") /\ ~At(s, "idle") /\ Name(r) = Name(s) => r = s

(* main_multipipe asks for nothing but starts and stops.  A pipe its loop has    *)
(* not come to, or is starting, is not registered yet; its handler stops each    *)
(* name it found once.                                                           *)
LoopInv ==
  clients = "multipipe" =>
    /\ external = {}
    /\ signal = "none" => snapshot = {} /\ ~Serving("stop")
    /\ \A n \in left \cup snapshot : ~Busy(n)
    /\ \A n \in left : n \notin Managed \cup snapshot
    /\ \A r \in Requests : ~At(r, "idle") =>
         /\ Op(r) \in {"start", "stop"}
         /\ Op(r) = "start" => Name(r) \notin Managed

(* What a request under way knows of its own name.                                *)
KnowsName(r) ==
  /\ request[r].pc \in {"spawn", "insert", "join", "forget"} => Name(r) \notin Managed \cup external
  /\ At(r, "config") =>
       IF Op(r) = "start"
       THEN Name(r) \in Managed /\ pipelines[Name(r)] = request[r].proc
       ELSE Name(r) \in external

\* A running process can be stopped, or a request holds it.
Tracked ==
  \A p \in Process : process[p] = "running" =>
    pipelines[named[p]] = p \/ \E r \in Requests : Holds(r) /\ request[r].proc = p

Settled(n) == \A r \in Requests : Name(r) = n => request[r].pc \notin {"config", "join", "forget"}

ConfigOf(n) ==
  /\ n \in Managed => configs[n] = pipelines[n]
  /\ n \in external => configs[n] = ExternalConfig
  /\ n \notin Managed \cup external => configs[n] = NoConfig

SoloInv ==
  clients # "concurrent" =>
    /\ Exclusive
    /\ LoopInv
    /\ Managed \cap external = {}
    /\ \A r \in Requests : KnowsName(r)
    /\ Tracked
    /\ clients = "serial" => \A n \in Names : Settled(n) => ConfigOf(n)

\* shutdown_handler has the name before it, or is stopping it.
Reached(n) == n \in snapshot \/ \E r \in Requests : Op(r) = "stop" /\ Name(r) = n

(* What the shutdown of main_multipipe has found: it stops every such name while   *)
(* it is registered, none is started again, and a late signal finds all that runs. *)
ReachInv ==
  signal # "none" =>
    /\ clients = "multipipe"
    /\ \A n \in found : n \notin left /\ (n \in Managed => Reached(n))
    /\ \A r \in Requests : Op(r) = "start" => Name(r) \notin found
    /\ signal = "late" =>
         /\ left = {} /\ ~Serving("start")
         /\ \A p \in Process : process[p] = "running" => named[p] \in found

RegistryInv == BaseInv /\ SoloInv
IInv == RegistryInv /\ ReachInv

-----------------------------------------------------------------------------
(* How a step changes the requests.                                              *)

\* No request but r changes.
Others(r) == \A s \in Requests \ {r} : request'[s] = request[s]

\* A request under way is a request for one of the names.
LEMMA Underway ==
  ASSUME RequestOK, NEW r \in Requests, ~At(r, "idle")
  PROVE  /\ request[r] \in Asked
         /\ Op(r) \in Operation /\ Name(r) \in Names
         /\ request[r].proc \in 0..MaxProcesses
         /\ request[r].pc \in Points(Op(r))
  BY DEF RequestOK, At, Idle, Asked, Op, Name

(* The program points of each operation.                                     *)
LEMMA PointsOf ==
  /\ Points("start") = {"check", "spawn", "insert", "config", "status"}
  /\ Points("register") = {"check", "insert", "config", "status"}
  /\ Points("stop") = {"check", "remove", "join", "forget"}
  /\ Points("unregister") = {"check", "remove", "forget"}
  BY DEF Points

(* The points tell the operations apart.                                         *)
LEMMA PointTellsOp ==
  ASSUME RequestOK, NEW r \in Requests
  PROVE  /\ request[r].pc \in {"idle"} \cup AllPoints
         /\ At(r, "spawn") => Op(r) = "start"
         /\ request[r].pc \in {"insert", "config", "status"} => Op(r) \in {"start", "register"}
         /\ request[r].pc \in {"remove", "forget"} => Op(r) \in {"stop", "unregister"}
         /\ At(r, "join") => Op(r) = "stop"
<1>1. CASE At(r, "idle")
  BY <1>1 DEF At
<1>2. CASE ~At(r, "idle")
  <2>1. Op(r) \in {"start", "stop", "register", "unregister"} /\ request[r].pc \in Points(Op(r))
    BY <1>2, Underway DEF Operation
  <2> QED
    BY <2>1, PointsOf DEF At, AllPoints
<1> QED
  BY <1>1, <1>2

(* A request replaced by one that is as it should be.                            *)
LEMMA Replaced ==
  ASSUME RequestOK, NEW r \in Requests, NEW new, request' = [request EXCEPT ![r] = new],
         new = Idle \/ (new \in Asked /\ new.pc \in Points(new.op))
  PROVE  RequestOK' /\ request'[r] = new /\ Others(r)
<1>1. /\ request' \in [Requests -> {Idle} \cup Asked]
      /\ request'[r] = new
      /\ Others(r)
  BY DEF RequestOK, Others
<1>2. \A s \in Requests : request'[s].pc # "idle" => request'[s].pc \in Points(request'[s].op)
  BY <1>1 DEF RequestOK, Others, At, Op, Idle
<1> QED
  BY <1>1, <1>2 DEF RequestOK, At, Op

(* A request that moves on stays the same request, and no other one moves.   *)
LEMMA GotoMoves ==
  ASSUME RequestOK, NEW r \in Requests, ~At(r, "idle"), NEW pc \in Points(Op(r)), Goto(r, pc)
  PROVE  /\ RequestOK' /\ Others(r)
         /\ At(r, pc)' /\ Op(r)' = Op(r) /\ Name(r)' = Name(r)
         /\ request'[r].proc = request[r].proc
<1> DEFINE new == [request[r] EXCEPT !.pc = pc]
<1>1. request[r] \in Asked /\ Op(r) \in Operation
  BY Underway
<1>2. pc \in AllPoints
  BY <1>1, PointsOf DEF Operation, AllPoints
<1>3. /\ new \in Asked /\ new.pc = pc /\ new.op = request[r].op
      /\ new.name = request[r].name /\ new.proc = request[r].proc
  BY <1>1, <1>2 DEF Asked
<1>4. request' = [request EXCEPT ![r] = new]
  BY DEF Goto
<1> HIDE DEF new
<1>5. RequestOK' /\ request'[r] = new /\ Others(r)
  BY <1>3, <1>4, Replaced DEF Op
<1> QED
  BY <1>3, <1>5 DEF At, Op, Name

(* An answered request is over.                                              *)
LEMMA ReplyMoves ==
  ASSUME RequestOK, NEW r \in Requests, Reply(r)
  PROVE  /\ RequestOK' /\ Others(r)
         /\ At(r, "idle")' /\ Op(r)' = "none"
<1>1. RequestOK' /\ request'[r] = Idle /\ Others(r)
  BY Replaced DEF Reply
<1> QED
  BY <1>1 DEF At, Op, Idle

\* A start or a stop gets its process.
LEMMA HandMoves ==
  ASSUME RequestOK, NEW r \in Requests, ~At(r, "idle"), NEW pc \in Points(Op(r)),
         NEW p \in 0..MaxProcesses,
         request' = [request EXCEPT ![r].pc = pc, ![r].proc = p]
  PROVE  /\ RequestOK' /\ Others(r)
         /\ At(r, pc)' /\ Op(r)' = Op(r) /\ Name(r)' = Name(r)
         /\ request'[r].proc = p
<1> DEFINE new == [request[r] EXCEPT !.pc = pc, !.proc = p]
<1>1. request[r] \in Asked /\ Op(r) \in Operation
  BY Underway
<1>2. pc \in AllPoints
  BY <1>1, PointsOf DEF Operation, AllPoints
<1>3. /\ new \in Asked /\ new.pc = pc /\ new.op = request[r].op
      /\ new.name = request[r].name /\ new.proc = p
  BY <1>1, <1>2 DEF Asked
<1>4. request' = [request EXCEPT ![r] = new]
  OBVIOUS
<1> HIDE DEF new
<1>5. RequestOK' /\ request'[r] = new /\ Others(r)
  BY <1>3, <1>4, Replaced DEF Op
<1> QED
  BY <1>3, <1>5 DEF At, Op, Name

-----------------------------------------------------------------------------
(* Who holds a process, whatever the clients do.                                 *)

(* Processes and spawning requests can be counted: both are finitely many.   *)
LEMMA Counted ==
  /\ IsFiniteSet(Created) /\ Cardinality(Created) \in Nat
  /\ IsFiniteSet(Spawning) /\ Cardinality(Spawning) \in Nat
<1>1. IsFiniteSet(Process)
  BY FS_Interval, ManagerAssumption DEF Process
<1>2. Created \subseteq Process /\ Spawning \subseteq Requests
  BY DEF Created, Spawning
<1>3. IsFiniteSet(Created) /\ IsFiniteSet(Spawning)
  BY <1>1, <1>2, FS_Subset, ManagerAssumption
<1> QED
  BY <1>3, FS_CardinalityType

(* There is a number left for a start that is about to create its process, and   *)
(* it is new.                                                                    *)
LEMMA NextProcess ==
  ASSUME BaseInv, NEW r \in Requests, At(r, "spawn")
  PROVE  /\ Cardinality(Created) + 1 \in Process
         /\ process[Cardinality(Created) + 1] = "none"
<1>1. r \in Spawning
  BY PointTellsOp DEF BaseInv, Spawning, At, Op
<1>2. Cardinality(Spawning) # 0
  BY <1>1, Counted, FS_EmptySet
<1>3. Cardinality(Created) + 1 <= MaxProcesses
  BY <1>2, Counted, ManagerAssumption DEF BaseInv, SupplyInv
<1>4. Cardinality(Created) + 1 \in Process /\ Cardinality(Created) + 1 \notin Created
  BY <1>3, Counted, ManagerAssumption DEF BaseInv, SupplyInv, Process
<1> QED
  BY <1>4 DEF Created

(* A step that creates no process, moves none in or out of the registry and does *)
(* not end in holding one.                                                       *)
LEMMA QuietBase ==
  ASSUME BaseInv, TypeOK', RequestOK', NEW r \in Requests, Others(r),
         ~Holds(r)', r \in Spawning' => r \in Spawning,
         UNCHANGED <<pipelines, named>>, Created' = Created
  PROVE  BaseInv'
<1>1. Spawning' \subseteq Spawning
  BY DEF Spawning, Others
<1>2. Cardinality(Spawning') <= Cardinality(Spawning) /\ Cardinality(Spawning') \in Nat
  BY <1>1, Counted, FS_Subset, FS_CardinalityType
<1>3. SupplyInv'
  <2>1. Cardinality(Created') + Cardinality(Spawning') <= MaxProcesses
    BY <1>2, Counted, ManagerAssumption DEF BaseInv, SupplyInv
  <2> QED
    BY <2>1 DEF BaseInv, SupplyInv
<1>4. HoldInv'
  <2>1. Managed' = Managed
    BY DEF Managed
  <2>2. \A s \in Requests : Holds(s)' => s # r /\ Holds(s) /\ request'[s] = request[s]
    BY DEF Holds, At, Op, Others
  <2>3. \A n \in Managed : pipelines[n] \in Process
    BY ManagerAssumption DEF Managed, BaseInv, TypeOK, Process
  <2>4. \A n \in Managed' : process'[pipelines'[n]] # "none"
    BY <2>1, <2>3 DEF BaseInv, HoldInv, Created
  <2>5. \A s \in Requests : Holds(s)' =>
          /\ request'[s].proc \in Created'
          /\ named'[request'[s].proc] = Name(s)'
          /\ \A n \in Names : pipelines'[n] # request'[s].proc
    BY <2>2 DEF BaseInv, HoldInv, Name
  <2>6. \A s, t \in Requests : Holds(s)' /\ Holds(t)' /\ s # t => request'[s].proc # request'[t].proc
    BY <2>2 DEF BaseInv, HoldInv
  <2> QED
    BY <2>4, <2>5, <2>6 DEF HoldInv
<1> QED
  BY <1>3, <1>4 DEF BaseInv

(* Terminate and Exit end a process that was created; the others leave it.       *)
LEMMA DeathCreatesNone ==
  ASSUME TypeOK, NEW p \in Process, process[p] = "running", process' = [process EXCEPT ![p] = "dead"]
  PROVE  /\ process' \in [Process -> {"none", "running", "dead"}]
         /\ Created' = Created
  BY DEF TypeOK, Created

(* A start creates its process.                                                  *)
LEMMA SpawnBase ==
  ASSUME BaseInv, NEW r \in Requests, Spawn(r)
  PROVE  BaseInv'
<1> DEFINE p == Cardinality(Created) + 1
<1>0. p \in Process /\ process[p] = "none" /\ p \in 0..MaxProcesses /\ Cardinality(Created) \in Nat
  BY NextProcess, Counted, ManagerAssumption DEF Spawn, Process
<1>1. /\ process' = [process EXCEPT ![p] = "running"]
      /\ named' = [named EXCEPT ![p] = Name(r)]
      /\ request' = [request EXCEPT ![r].pc = "insert", ![r].proc = p]
      /\ UNCHANGED <<clients, left, signal, snapshot, found, pipelines, external, configs, stopping>>
      /\ At(r, "spawn") /\ ~At(r, "idle")
  BY DEF Spawn, caller, registry, At
<1>2. Op(r) = "start" /\ "insert" \in Points(Op(r)) /\ Name(r) \in Names
  BY <1>1, PointTellsOp, PointsOf, Underway DEF BaseInv
<1>3. /\ RequestOK' /\ Others(r)
      /\ At(r, "insert")' /\ Op(r)' = Op(r) /\ Name(r)' = Name(r)
      /\ request'[r].proc = p
  BY <1>0, <1>1, <1>2, HandMoves DEF BaseInv
<1> HIDE DEF p
<1>4. Managed' = Managed /\ \A n \in Managed : pipelines[n] \in Process /\ pipelines[n] # p
  BY <1>0, <1>1, ManagerAssumption DEF Managed, BaseInv, TypeOK, HoldInv, Process
<1>5. TypeOK'
  <2>1. /\ process' \in [Process -> {"none", "running", "dead"}]
        /\ named' \in [Process -> Names \cup {"none"}]
    BY <1>1, <1>2 DEF BaseInv, TypeOK
  <2>2. \A s \in Requests : request'[s].proc \in 0..MaxProcesses
    BY <1>0, <1>3 DEF BaseInv, TypeOK, Others
  <2>3. \A n \in Managed' : named'[pipelines'[n]] = n
    BY <1>1, <1>4 DEF BaseInv, TypeOK
  <2> QED
    BY <1>1, <2>1, <2>2, <2>3 DEF BaseInv, TypeOK
<1>6. Created' = Created \cup {p} /\ p \notin Created
  BY <1>0, <1>1 DEF Created, BaseInv, TypeOK
<1>7. SupplyInv'
  <2>1. Cardinality(Created') = p
    BY <1>6, Counted, FS_AddElement DEF p
  <2>2. Created' = 1..p
    BY <1>0, <1>6 DEF p, BaseInv, SupplyInv
  <2>3. r \in Spawning /\ Spawning' = Spawning \ {r}
    BY <1>1, <1>2, <1>3 DEF Spawning, Others, At, Op
  <2>4. Cardinality(Spawning') = Cardinality(Spawning) - 1
    BY <2>3, Counted, FS_RemoveElement
  <2>5. Cardinality(Created') + Cardinality(Spawning') <= MaxProcesses
    BY <2>1, <2>4, Counted, ManagerAssumption DEF p, BaseInv, SupplyInv
  <2>6. \A q \in Created' : named'[q] \in Names
    BY <1>1, <1>2, <1>6 DEF BaseInv, TypeOK, SupplyInv, Created
  <2> QED
    BY <2>1, <2>2, <2>5, <2>6 DEF SupplyInv
<1>8. HoldInv'
  <2>1. \A s \in Requests \ {r} : Holds(s)' => Holds(s) /\ request'[s] = request[s]
    BY <1>3 DEF Holds, At, Op, Others
  <2>2. \A q \in Created : q # p /\ q \in Created' /\ named'[q] = named[q]
    BY <1>1, <1>6 DEF BaseInv, TypeOK, Created
  <2>3. \A n \in Managed' : process'[pipelines'[n]] # "none"
    BY <1>1, <1>4 DEF BaseInv, TypeOK, HoldInv
  <2>4. \A n \in Names : pipelines'[n] # p
    BY <1>0, <1>1, <1>4 DEF Managed, Process
  <2>5. \A s \in Requests : Holds(s)' =>
          /\ request'[s].proc \in Created'
          /\ named'[request'[s].proc] = Name(s)'
          /\ \A n \in Names : pipelines'[n] # request'[s].proc
    <3>1. ASSUME NEW s \in Requests \ {r}, Holds(s)'
          PROVE  /\ request'[s].proc \in Created'
                 /\ named'[request'[s].proc] = Name(s)'
                 /\ \A n \in Names : pipelines'[n] # request'[s].proc
      <4>1. Holds(s) /\ request'[s] = request[s]
        BY <2>1, <3>1
      <4>2. /\ request[s].proc \in Created
            /\ named[request[s].proc] = Name(s)
            /\ \A n \in Names : pipelines[n] # request[s].proc
        BY <4>1 DEF BaseInv, HoldInv
      <4> QED
        BY <1>1, <2>2, <4>1, <4>2 DEF Name
    <3>2. /\ request'[r].proc \in Created'
          /\ named'[request'[r].proc] = Name(r)'
          /\ \A n \in Names : pipelines'[n] # request'[r].proc
      <4>1. named'[p] = Name(r)
        BY <1>0, <1>1 DEF BaseInv, TypeOK
      <4> QED
        BY <1>3, <1>6, <2>4, <4>1
    <3> QED
      BY <3>1, <3>2
  <2>6. \A s, t \in Requests : Holds(s)' /\ Holds(t)' /\ s # t => request'[s].proc # request'[t].proc
    BY <1>3, <2>1, <2>2 DEF BaseInv, HoldInv
  <2> QED
    BY <2>3, <2>5, <2>6 DEF HoldInv
<1> QED
  BY <1>3, <1>5, <1>7, <1>8 DEF BaseInv

(* A start hands its process to the registry.                                    *)
LEMMA InsertBase ==
  ASSUME BaseInv, NEW r \in Requests, Insert(r), Op(r) = "start"
  PROVE  BaseInv'
<1> DEFINE p == request[r].proc
<1>0. Holds(r) /\ ~At(r, "idle") /\ "config" \in Points(Op(r))
  BY PointsOf DEF Holds, Insert, At
<1>1. Name(r) \in Names /\ p \in Created /\ named[p] = Name(r) /\ p \in Process /\ process[p] # "none"
  BY <1>0, Underway DEF BaseInv, HoldInv, Created
<1>2. /\ pipelines' = [pipelines EXCEPT ![Name(r)] = p]
      /\ UNCHANGED <<clients, left, signal, snapshot, found, external, configs, process, named, stopping>>
      /\ Reply(r) \/ Goto(r, "config")
  BY DEF Insert, caller, processes
<1>3. RequestOK' /\ Others(r) /\ ~Holds(r)' /\ r \notin Spawning'
  BY <1>0, <1>2, GotoMoves, ReplyMoves DEF BaseInv, Holds, Spawning, At
<1> HIDE DEF p
<1>4. /\ pipelines'[Name(r)] = p
      /\ \A n \in Names \ {Name(r)} : pipelines'[n] = pipelines[n]
  BY <1>1, <1>2 DEF BaseInv, TypeOK
<1>5. \A n \in Managed' : n = Name(r) \/ (n \in Managed /\ pipelines'[n] = pipelines[n])
  BY <1>4 DEF Managed
<1>6. TypeOK'
  <2>1. pipelines' \in [Names -> 0..MaxProcesses]
    BY <1>1, <1>2, ManagerAssumption DEF BaseInv, TypeOK, Process
  <2>2. \A s \in Requests : request'[s].proc \in 0..MaxProcesses
    BY <1>3, ManagerAssumption DEF RequestOK, Asked, Idle
  <2>3. \A n \in Managed' : named'[pipelines'[n]] = n
    BY <1>1, <1>2, <1>4, <1>5 DEF BaseInv, TypeOK
  <2> QED
    BY <1>2, <2>1, <2>2, <2>3 DEF BaseInv, TypeOK
<1>7. Created' = Created
  BY <1>2 DEF Created
<1>8. SupplyInv'
  <2>1. Spawning' \subseteq Spawning
    BY <1>3 DEF Spawning, Others
  <2>2. Cardinality(Spawning') <= Cardinality(Spawning) /\ Cardinality(Spawning') \in Nat
    BY <2>1, Counted, FS_Subset, FS_CardinalityType
  <2>3. Cardinality(Created') + Cardinality(Spawning') <= MaxProcesses
    BY <1>7, <2>2, Counted, ManagerAssumption DEF BaseInv, SupplyInv
  <2> QED
    BY <1>2, <1>7, <2>3 DEF BaseInv, SupplyInv
<1>9. HoldInv'
  <2>1. \A s \in Requests : Holds(s)' => s # r /\ Holds(s) /\ request'[s] = request[s]
    BY <1>3 DEF Holds, At, Op, Others
  <2>2. \A n \in Managed' : process'[pipelines'[n]] # "none"
    BY <1>1, <1>2, <1>4, <1>5 DEF BaseInv, HoldInv
  <2>3. ASSUME NEW s \in Requests, Holds(s)'
        PROVE  /\ request'[s].proc \in Created'
               /\ named'[request'[s].proc] = Name(s)'
               /\ \A n \in Names : pipelines'[n] # request'[s].proc
    <3>1. s # r /\ Holds(s) /\ request'[s] = request[s]
      BY <2>1, <2>3
    <3>2. /\ request[s].proc \in Created
          /\ named[request[s].proc] = Name(s)
          /\ \A n \in Names : pipelines[n] # request[s].proc
      BY <3>1 DEF BaseInv, HoldInv
    <3>3. request[s].proc # p
      BY <1>0, <3>1 DEF p, BaseInv, HoldInv
    <3> QED
      BY <1>2, <1>4, <1>7, <3>1, <3>2, <3>3 DEF Name
  <2>4. \A s, t \in Requests : Holds(s)' /\ Holds(t)' /\ s # t => request'[s].proc # request'[t].proc
    BY <2>1 DEF BaseInv, HoldInv
  <2> QED
    BY <2>2, <2>3, <2>4 DEF HoldInv
<1> QED
  BY <1>3, <1>6, <1>8, <1>9 DEF BaseInv

(* A stop takes the process out of the registry: no other request holds it.      *)
LEMMA PopBase ==
  ASSUME BaseInv, NEW r \in Requests, Pop(r), Name(r) \in Managed
  PROVE  BaseInv'
<1> DEFINE p == pipelines[Name(r)]
<1>0. ~At(r, "idle") /\ "join" \in Points(Op(r)) /\ Op(r) = "stop"
  BY PointsOf DEF Pop, At
<1>1. Name(r) \in Names /\ p \in Process /\ p # 0 /\ named[p] = Name(r) /\ p \in Created
  BY <1>0, Underway, ManagerAssumption DEF BaseInv, TypeOK, HoldInv, Managed, Created, Process
<1>2. UNCHANGED <<clients, left, signal, snapshot, found, external, configs, process, named>>
  BY DEF Pop, caller
<1>3. pipelines' = [pipelines EXCEPT ![Name(r)] = 0] /\ stopping' = stopping \cup {p}
  BY DEF Pop
<1>4. request' = [request EXCEPT ![r].pc = "join", ![r].proc = p]
  BY DEF Pop
<1>5. p \in 0..MaxProcesses
  BY <1>1, ManagerAssumption DEF Process
<1>6. /\ RequestOK' /\ Others(r) /\ At(r, "join")' /\ Op(r)' = "stop" /\ Name(r)' = Name(r)
      /\ request'[r].proc = p
  BY <1>0, <1>5, <1>4, HandMoves DEF BaseInv
<1>7. /\ pipelines'[Name(r)] = 0
      /\ \A n \in Names \ {Name(r)} : pipelines'[n] = pipelines[n]
  BY <1>1, <1>3 DEF BaseInv, TypeOK
<1>8. \A n \in Managed' : n \in Managed /\ pipelines'[n] = pipelines[n]
  BY <1>7 DEF Managed
<1>9. \A n \in Names : pipelines'[n] # p
  <2>1. ASSUME NEW n \in Names \ {Name(r)}, pipelines[n] = p
        PROVE  FALSE
    BY <1>1, <2>1 DEF BaseInv, TypeOK, Managed
  <2> QED
    BY <1>1, <1>7, <2>1
<1> HIDE DEF p
<1>10. TypeOK'
  <2>1. pipelines' \in [Names -> 0..MaxProcesses]
    <3>1. 0 \in 0..MaxProcesses /\ pipelines \in [Names -> 0..MaxProcesses]
      BY ManagerAssumption DEF BaseInv, TypeOK
    <3> QED
      BY <1>3, <3>1
  <2>2. \A s \in Requests : request'[s].proc \in 0..MaxProcesses
    BY <1>6, ManagerAssumption DEF RequestOK, Asked, Idle
  <2>3. \A n \in Managed' : named'[pipelines'[n]] = n
    BY <1>2, <1>8 DEF BaseInv, TypeOK
  <2> QED
    BY <1>1, <1>2, <1>3, <2>1, <2>2, <2>3 DEF BaseInv, TypeOK
<1>11. Created' = Created
  BY <1>2 DEF Created
<1>12. SupplyInv'
  <2>1. Spawning' \subseteq Spawning
    BY <1>6 DEF Spawning, Others, Op
  <2>2. Cardinality(Spawning') <= Cardinality(Spawning) /\ Cardinality(Spawning') \in Nat
    BY <2>1, Counted, FS_Subset, FS_CardinalityType
  <2>3. Cardinality(Created') + Cardinality(Spawning') <= MaxProcesses
    BY <1>11, <2>2, Counted, ManagerAssumption DEF BaseInv, SupplyInv
  <2> QED
    BY <1>2, <1>11, <2>3 DEF BaseInv, SupplyInv
<1>13. HoldInv'
  <2>1. \A s \in Requests \ {r} : Holds(s)' =>
          Holds(s) /\ request'[s] = request[s] /\ request[s].proc # p
    BY <1>1, <1>6 DEF Holds, At, Op, Others, p, BaseInv, HoldInv
  <2>2. \A n \in Managed' : process'[pipelines'[n]] # "none"
    BY <1>2, <1>8 DEF BaseInv, HoldInv
  <2>3. ASSUME NEW s \in Requests \ {r}, Holds(s)'
        PROVE  /\ request'[s].proc \in Created'
               /\ named'[request'[s].proc] = Name(s)'
               /\ \A n \in Names : pipelines'[n] # request'[s].proc
    <3>1. Holds(s) /\ request'[s] = request[s]
      BY <2>1, <2>3
    <3>2. /\ request[s].proc \in Created /\ request[s].proc \in Process
          /\ named[request[s].proc] = Name(s)
          /\ \A n \in Names : pipelines[n] # request[s].proc
      BY <3>1 DEF BaseInv, HoldInv, Created
    <3>3. request[s].proc # 0
      BY <3>2, ManagerAssumption DEF Process
    <3> QED
      BY <1>2, <1>7, <1>11, <3>1, <3>2, <3>3 DEF Name
  <2>4. /\ request'[r].proc \in Created'
        /\ named'[request'[r].proc] = Name(r)'
        /\ \A n \in Names : pipelines'[n] # request'[r].proc
    BY <1>1, <1>2, <1>6, <1>9, <1>11
  <2>5. \A s, t \in Requests : Holds(s)' /\ Holds(t)' /\ s # t => request'[s].proc # request'[t].proc
    BY <1>6, <2>1 DEF BaseInv, HoldInv
  <2> QED
    BY <2>2, <2>3, <2>4, <2>5 DEF HoldInv
<1> QED
  BY <1>6, <1>10, <1>12, <1>13 DEF BaseInv

(* Every other step of a request only goes to its next point or answers.         *)
LEMMA QuietMoves ==
  ASSUME BaseInv, NEW r \in Requests, ~At(r, "idle"), NEW pc \in Points(Op(r)),
         Goto(r, pc) \/ Reply(r),
         pc \notin {"check", "join"}, pc = "insert" => Op(r) # "start",
         pc = "spawn" => At(r, "check")
  PROVE  /\ RequestOK' /\ Others(r) /\ ~Holds(r)' /\ (r \in Spawning' => r \in Spawning)
         /\ \A s \in Requests : request'[s].proc \in 0..MaxProcesses
<1>1. RequestOK' /\ Others(r)
  BY GotoMoves, ReplyMoves DEF BaseInv
<1>2. ~Holds(r)' /\ (r \in Spawning' => r \in Spawning)
  <2>1. CASE Goto(r, pc)
    <3>1. At(r, pc)' /\ Op(r)' = Op(r)
      BY <2>1, GotoMoves DEF BaseInv
    <3> QED
      BY <3>1 DEF Holds, At, Op, Spawning
  <2>2. CASE Reply(r)
    <3>1. At(r, "idle")' /\ Op(r)' = "none"
      BY <2>2, ReplyMoves DEF BaseInv
    <3> QED
      BY <3>1 DEF Holds, At, Op, Spawning
  <2> QED
    BY <2>1, <2>2
<1>3. \A s \in Requests : request'[s].proc \in 0..MaxProcesses
  BY <1>1, ManagerAssumption DEF RequestOK, Asked, Idle
<1> QED
  BY <1>1, <1>2, <1>3

(* The steps of a request that leave the managed pipelines alone: to which point  *)
(* they go, and what else they change.                                            *)
LEMMA QuietSteps ==
  ASSUME BaseInv, NEW r \in Requests,
         \/ CheckFree(r) \/ Answer(r) \/ StoreConfig(r) \/ CheckKnown(r) \/ Joined(r)
         \/ Terminate(r) \/ Delete(r) \/ ForgetConfig(r)
         \/ Pop(r) /\ Name(r) \notin Managed
         \/ Insert(r) /\ Op(r) # "start"
  PROVE  /\ ~At(r, "idle")
         /\ \E pc \in Points(Op(r)) :
              /\ Goto(r, pc) \/ Reply(r)
              /\ pc \notin {"check", "join"}
              /\ pc = "insert" => Op(r) # "start"
              /\ pc = "spawn" => At(r, "check")
         /\ UNCHANGED <<clients, left, signal, snapshot, found, pipelines, named, stopping>>
<1>1. CASE CheckFree(r)
  BY <1>1, PointsOf DEF CheckFree, At, caller, registry, processes
<1>2. CASE Answer(r)
  BY <1>2, PointTellsOp, PointsOf DEF BaseInv, Answer, At, caller, registry, processes
<1>3. CASE StoreConfig(r)
  BY <1>3, PointTellsOp, PointsOf DEF BaseInv, StoreConfig, At, caller, processes
<1>4. CASE CheckKnown(r)
  BY <1>4, PointsOf DEF CheckKnown, At, caller, registry, processes
<1>5. CASE Joined(r)
  BY <1>5, PointTellsOp, PointsOf DEF BaseInv, Joined, StopDone, At, caller, registry, processes
<1>6. CASE Terminate(r)
  BY <1>6, PointTellsOp, PointsOf DEF BaseInv, Terminate, StopDone, At, caller, registry
<1>7. CASE Delete(r)
  BY <1>7, PointsOf DEF Delete, At, caller, processes
<1>8. CASE ForgetConfig(r)
  BY <1>8, PointTellsOp, PointsOf DEF BaseInv, ForgetConfig, At, caller, processes
<1>9. CASE Pop(r) /\ Name(r) \notin Managed
  BY <1>9, PointsOf DEF Pop, At, caller
<1>10. CASE Insert(r) /\ Op(r) # "start"
  BY <1>10, PointTellsOp, PointsOf DEF BaseInv, Insert, At, caller, processes
<1> QED
  BY <1>1, <1>2, <1>3, <1>4, <1>5, <1>6, <1>7, <1>8, <1>9, <1>10

(* What they change of the other variables keeps its type, and no process is      *)
(* created.                                                                       *)
LEMMA QuietTypes ==
  ASSUME BaseInv, NEW r \in Requests,
         \/ CheckFree(r) \/ Answer(r) \/ StoreConfig(r) \/ CheckKnown(r) \/ Joined(r)
         \/ Terminate(r) \/ Delete(r) \/ ForgetConfig(r)
         \/ Pop(r) /\ Name(r) \notin Managed
         \/ Insert(r) /\ Op(r) # "start"
  PROVE  /\ external' \subseteq Names
         /\ configs' \in [Names -> NoConfig..ExternalConfig]
         /\ process' \in [Process -> {"none", "running", "dead"}]
         /\ Created' = Created
<1>0. Name(r) \in Names /\ request[r].proc \in 0..MaxProcesses
  BY QuietSteps, Underway DEF BaseInv
<1>1. external' \subseteq Names
  <2>1. external' = external \/ external' = external \cup {Name(r)} \/ external' = external \ {Name(r)}
    BY DEF CheckFree, Answer, StoreConfig, CheckKnown, Joined, Terminate, Delete, ForgetConfig,
           Pop, Insert, registry
  <2> QED
    BY <1>0, <2>1 DEF BaseInv, TypeOK
<1>2. configs' \in [Names -> NoConfig..ExternalConfig]
  <2>1. CASE StoreConfig(r) \/ ForgetConfig(r)
    <3>1. PICK c : c \in {request[r].proc, ExternalConfig, NoConfig} /\ configs' = [configs EXCEPT ![Name(r)] = c]
      BY <2>1 DEF StoreConfig, ForgetConfig
    <3>2. c \in NoConfig..ExternalConfig
      BY <1>0, <3>1, ManagerAssumption DEF NoConfig, ExternalConfig
    <3> QED
      BY <3>1, <3>2 DEF BaseInv, TypeOK
  <2>2. CASE ~StoreConfig(r) /\ ~ForgetConfig(r)
    <3>1. configs' = configs
      BY <2>2 DEF CheckFree, Answer, CheckKnown, Joined, Terminate, Delete, Pop, Insert, registry
    <3> QED
      BY <3>1 DEF BaseInv, TypeOK
  <2> QED
    BY <2>1, <2>2
<1>3. process' \in [Process -> {"none", "running", "dead"}] /\ Created' = Created
  <2>1. CASE Terminate(r)
    <3>1. Holds(r)
      BY <2>1 DEF Terminate, Holds
    <3>2. request[r].proc \in Process
      BY <3>1 DEF BaseInv, HoldInv, Created
    <3> QED
      BY <2>1, <3>2, DeathCreatesNone DEF Terminate, BaseInv
  <2>2. CASE ~Terminate(r)
    <3>1. process' = process
      BY <2>2 DEF CheckFree, Answer, StoreConfig, CheckKnown, Joined, Delete, ForgetConfig, Pop,
                  Insert, processes
    <3> QED
      BY <3>1 DEF BaseInv, TypeOK, Created
  <2> QED
    BY <2>1, <2>2
<1> QED
  BY <1>1, <1>2, <1>3

(* Every step of a request keeps the exclusive ownership of processes.       *)
LEMMA ServeBase ==
  ASSUME BaseInv, NEW r \in Requests, Serve(r)
  PROVE  BaseInv'
<1>1. CASE Spawn(r)
  BY <1>1, SpawnBase
<1>2. CASE Insert(r) /\ Op(r) = "start"
  BY <1>2, InsertBase
<1>3. CASE Pop(r) /\ Name(r) \in Managed
  BY <1>3, PopBase
<1>4. CASE \/ CheckFree(r) \/ Answer(r) \/ StoreConfig(r) \/ CheckKnown(r) \/ Joined(r)
           \/ Terminate(r) \/ Delete(r) \/ ForgetConfig(r)
           \/ Pop(r) /\ Name(r) \notin Managed
           \/ Insert(r) /\ Op(r) # "start"
  <2>1. /\ ~At(r, "idle")
        /\ \E pc \in Points(Op(r)) :
             /\ Goto(r, pc) \/ Reply(r)
             /\ pc \notin {"check", "join"}
             /\ pc = "insert" => Op(r) # "start"
             /\ pc = "spawn" => At(r, "check")
        /\ UNCHANGED <<clients, left, signal, snapshot, found, pipelines, named, stopping>>
    BY <1>4, QuietSteps
  <2>2. /\ RequestOK' /\ Others(r) /\ ~Holds(r)' /\ (r \in Spawning' => r \in Spawning)
        /\ \A s \in Requests : request'[s].proc \in 0..MaxProcesses
    BY <2>1, QuietMoves
  <2>3. /\ external' \subseteq Names
        /\ configs' \in [Names -> NoConfig..ExternalConfig]
        /\ process' \in [Process -> {"none", "running", "dead"}]
        /\ Created' = Created
    BY <1>4, QuietTypes
  <2>4. TypeOK'
    BY <2>1, <2>2, <2>3 DEF BaseInv, TypeOK, Managed
  <2> QED
    BY <2>1, <2>2, <2>3, <2>4, QuietBase
<1> QED
  BY <1>1, <1>2, <1>3, <1>4 DEF Serve

(* A request arrives; a start only if there is a process number for it.          *)
LEMMA ArriveBase ==
  ASSUME BaseInv, NEW r \in Requests, NEW op \in Operation, NEW n \in Names, Arrive(r, op, n)
  PROVE  /\ BaseInv'
         /\ Others(r) /\ At(r, "check")' /\ Op(r)' = op /\ Name(r)' = n
<1> DEFINE new == [op |-> op, name |-> n, pc |-> "check", proc |-> 0]
<1>1. /\ UNCHANGED <<clients, signal, found, pipelines, external, configs, process, named, stopping>>
      /\ left' \subseteq left /\ snapshot' \subseteq snapshot
      /\ At(r, "idle")
  BY DEF Arrive, registry, processes
<1>2. new \in Asked /\ new.pc \in Points(new.op)
  BY PointsOf, ManagerAssumption DEF Asked, AllPoints, Operation
<1>3. request' = [request EXCEPT ![r] = new]
  BY DEF Arrive
<1>4. RequestOK' /\ request'[r] = new /\ Others(r)
  BY <1>2, <1>3, Replaced DEF BaseInv
<1>5. At(r, "check")' /\ Op(r)' = op /\ Name(r)' = n /\ ~Holds(r)'
  BY <1>4 DEF At, Op, Name, Holds
<1> HIDE DEF new
<1>6. TypeOK'
  <2>1. \A s \in Requests : request'[s].proc \in 0..MaxProcesses
    BY <1>4, ManagerAssumption DEF RequestOK, Asked, Idle
  <2> QED
    BY <1>1, <2>1 DEF BaseInv, TypeOK, Managed
<1>7. Created' = Created
  BY <1>1 DEF Created
<1>8. CASE op = "start"
  <2>1. Spawning' = Spawning \cup {r} /\ r \notin Spawning
    BY <1>1, <1>4, <1>5, <1>8 DEF Spawning, Others, At, Op
  <2>2. Cardinality(Spawning') = Cardinality(Spawning) + 1
    BY <2>1, Counted, FS_AddElement
  <2>3. Cardinality(Created) + Cardinality(Spawning) < MaxProcesses
    BY <1>8 DEF Arrive
  <2>4. Cardinality(Created') + Cardinality(Spawning') <= MaxProcesses
    BY <1>7, <2>2, <2>3, Counted, ManagerAssumption
  <2>5. SupplyInv'
    BY <1>1, <1>7, <2>4 DEF BaseInv, SupplyInv
  <2>6. \A s \in Requests : Holds(s)' => s # r /\ Holds(s) /\ request'[s] = request[s]
    BY <1>4, <1>5 DEF Holds, At, Op, Others
  <2>7. HoldInv'
    BY <1>1, <1>7, <2>6 DEF BaseInv, HoldInv, Managed, Name
  <2> QED
    BY <1>4, <1>5, <1>6, <2>5, <2>7 DEF BaseInv
<1>9. CASE op # "start"
  <2>1. r \notin Spawning'
    BY <1>5, <1>9 DEF Spawning, Op
  <2> QED
    BY <1>1, <1>4, <1>5, <1>6, <1>7, <2>1, QuietBase
<1> QED
  BY <1>8, <1>9

(* The signal and the end of a process are no steps of a request.                *)
LEMMA EnvironmentBase ==
  ASSUME BaseInv, ShutdownSignal \/ (\E p \in Process : Exit(p)) \/ UNCHANGED vars
  PROVE  BaseInv'
<1>1. /\ UNCHANGED <<clients, left, pipelines, external, configs, named, stopping, request>>
      /\ signal' \in {"none", "early", "late"} /\ snapshot' \subseteq Names /\ found' \subseteq Names
  BY DEF ShutdownSignal, Exit, vars, caller, registry, processes, BaseInv, TypeOK, Managed
<1>2. process' \in [Process -> {"none", "running", "dead"}] /\ Created' = Created
  <2>1. ASSUME NEW p \in Process, Exit(p)
        PROVE  process' \in [Process -> {"none", "running", "dead"}] /\ Created' = Created
    BY <2>1, DeathCreatesNone DEF Exit, BaseInv
  <2>2. CASE ShutdownSignal \/ UNCHANGED vars
    BY <2>2 DEF ShutdownSignal, vars, processes, BaseInv, TypeOK, Created
  <2> QED
    BY <2>1, <2>2
<1>3. TypeOK'
  BY <1>1, <1>2 DEF BaseInv, TypeOK, Managed
<1>4. RequestOK' /\ SupplyInv'
  BY <1>1, <1>2 DEF BaseInv, RequestOK, SupplyInv, Spawning, At, Op
<1>5. HoldInv'
  <2>1. \A m \in Managed : pipelines[m] \in Process
    BY ManagerAssumption DEF Managed, BaseInv, TypeOK, Process
  <2>2. \A m \in Managed' : process'[pipelines'[m]] # "none"
    BY <1>1, <1>2, <2>1 DEF BaseInv, HoldInv, Created, Managed
  <2> QED
    BY <1>1, <1>2, <2>2 DEF BaseInv, HoldInv, Holds, At, Op, Name
<1> QED
  BY <1>3, <1>4, <1>5 DEF BaseInv

(* Initially there is no process and no request.                             *)
LEMMA InitBase == Init => BaseInv
<1> SUFFICES ASSUME Init
             PROVE  BaseInv
  OBVIOUS
<1>1. Managed = {} /\ Created = {}
  BY DEF Init, Managed, Created
<1>2. \A r \in Requests : request[r] = Idle /\ At(r, "idle")
  BY DEF Init, At, Idle
<1>3. Spawning = {}
  BY <1>2 DEF Spawning, Idle
<1>4. TypeOK
  <2>1. \A r \in Requests : request[r].proc \in 0..MaxProcesses
    BY <1>2, ManagerAssumption DEF Idle
  <2>2. /\ pipelines \in [Names -> 0..MaxProcesses]
        /\ configs \in [Names -> NoConfig..ExternalConfig]
    BY ManagerAssumption DEF Init, NoConfig, ExternalConfig
  <2>3. /\ process \in [Process -> {"none", "running", "dead"}]
        /\ named \in [Process -> Names \cup {"none"}]
    BY DEF Init
  <2>4. left \subseteq Names
    BY DEF Init
  <2> QED
    BY <1>1, <2>1, <2>2, <2>3, <2>4 DEF Init, TypeOK
<1>5. RequestOK
  BY <1>2 DEF Init, RequestOK
<1>6. SupplyInv
  <2>1. Cardinality(Created) = 0 /\ Cardinality(Spawning) = 0
    BY <1>1, <1>3, FS_EmptySet
  <2> QED
    BY <1>1, <2>1, ManagerAssumption DEF SupplyInv
<1>7. HoldInv
  BY <1>1, <1>2 DEF HoldInv, Holds, At, Idle
<1> QED
  BY <1>4, <1>5, <1>6, <1>7 DEF BaseInv

-----------------------------------------------------------------------------
(* What is about one name only.                                                  *)

(* A step of a request answers it or keeps its operation and name, and changes    *)
(* the registry at that name alone.                                              *)
LEMMA ServeMoves ==
  ASSUME BaseInv, NEW r \in Requests, Serve(r)
  PROVE  /\ ~At(r, "idle") /\ Name(r) \in Names /\ Op(r) \in Operation
         /\ Others(r)
         /\ At(r, "idle")' \/ (~At(r, "idle")' /\ Name(r)' = Name(r) /\ Op(r)' = Op(r))
         /\ UNCHANGED <<clients, left, signal, snapshot, found>>
<1>1. CASE Spawn(r)
  <2>0. Cardinality(Created) + 1 \in 0..MaxProcesses
    BY <1>1, NextProcess, ManagerAssumption DEF Spawn, Process
  <2>1. ~At(r, "idle") /\ "insert" \in Points(Op(r))
    BY <1>1, PointTellsOp, PointsOf DEF Spawn, BaseInv, At
  <2>2. Others(r) /\ At(r, "insert")' /\ Op(r)' = Op(r) /\ Name(r)' = Name(r)
    BY <1>1, <2>0, <2>1, HandMoves DEF Spawn, BaseInv
  <2> QED
    BY <1>1, <2>1, <2>2, Underway DEF Spawn, caller, At, BaseInv
<1>2. CASE Insert(r) /\ Op(r) = "start"
  <2>1. ~At(r, "idle") /\ "config" \in Points(Op(r)) /\ (Goto(r, "config") \/ Reply(r))
    BY <1>2, PointsOf DEF Insert, At
  <2>2. Others(r) /\ (At(r, "idle")' \/ (At(r, "config")' /\ Op(r)' = Op(r) /\ Name(r)' = Name(r)))
    BY <2>1, GotoMoves, ReplyMoves DEF BaseInv
  <2> QED
    BY <1>2, <2>1, <2>2, Underway DEF Insert, caller, At, BaseInv
<1>3. CASE Pop(r) /\ Name(r) \in Managed
  <2>1. ~At(r, "idle") /\ "join" \in Points(Op(r)) /\ pipelines[Name(r)] \in 0..MaxProcesses
    BY <1>3, PointsOf DEF Pop, At, BaseInv, TypeOK, Managed
  <2>2. Others(r) /\ At(r, "join")' /\ Op(r)' = Op(r) /\ Name(r)' = Name(r)
    BY <1>3, <2>1, HandMoves DEF Pop, BaseInv
  <2> QED
    BY <1>3, <2>1, <2>2, Underway DEF Pop, caller, At, BaseInv
<1>4. CASE \/ CheckFree(r) \/ Answer(r) \/ StoreConfig(r) \/ CheckKnown(r) \/ Joined(r)
           \/ Terminate(r) \/ Delete(r) \/ ForgetConfig(r)
           \/ Pop(r) /\ Name(r) \notin Managed
           \/ Insert(r) /\ Op(r) # "start"
  <2>1. /\ ~At(r, "idle")
        /\ \E pc \in Points(Op(r)) : Goto(r, pc) \/ Reply(r)
        /\ UNCHANGED <<clients, left, signal, snapshot, found>>
    BY <1>4, QuietSteps
  <2>2. PICK pc \in Points(Op(r)) : Goto(r, pc) \/ Reply(r)
    BY <2>1
  <2>3. Op(r) \in Operation /\ Name(r) \in Names
    BY <2>1, Underway DEF BaseInv
  <2>4. pc # "idle"
    BY <2>2, <2>3, PointsOf DEF Operation
  <2>5. Others(r) /\ (At(r, "idle")' \/ (At(r, pc)' /\ Op(r)' = Op(r) /\ Name(r)' = Name(r)))
    BY <2>1, <2>2, GotoMoves, ReplyMoves DEF BaseInv
  <2> QED
    BY <2>1, <2>3, <2>4, <2>5 DEF At
<1> QED
  BY <1>1, <1>2, <1>3, <1>4 DEF Serve

(* A request touches the registry and the configurations only under its own name.*)
LEMMA ServeIsLocal ==
  ASSUME BaseInv, NEW r \in Requests, Serve(r)
  PROVE  /\ \A n \in Names \ {Name(r)} :
              /\ pipelines'[n] = pipelines[n]
              /\ configs'[n] = configs[n]
              /\ n \in external' <=> n \in external
         /\ Op(r) \in {"start", "stop"} => external' = external
<1>0. Name(r) \in Names
  BY ServeMoves
<1>1. pipelines' = pipelines \/ \E v : pipelines' = [pipelines EXCEPT ![Name(r)] = v]
  BY DEF Serve, CheckFree, Spawn, Insert, StoreConfig, Answer, CheckKnown, Pop, Joined, Terminate,
         Delete, ForgetConfig, registry
<1>2. configs' = configs \/ \E v : configs' = [configs EXCEPT ![Name(r)] = v]
  BY DEF Serve, CheckFree, Spawn, Insert, StoreConfig, Answer, CheckKnown, Pop, Joined, Terminate,
         Delete, ForgetConfig, registry
<1>3. /\ external' = external \/ external' = external \cup {Name(r)} \/ external' = external \ {Name(r)}
      /\ Op(r) \in {"start", "stop"} => external' = external
  <2>1. CASE Insert(r)
    BY <2>1, PointTellsOp DEF Insert, BaseInv, At
  <2>2. CASE Delete(r)
    BY <2>2 DEF Delete
  <2>3. CASE ~Insert(r) /\ ~Delete(r)
    BY <2>3 DEF Serve, CheckFree, Spawn, StoreConfig, Answer, CheckKnown, Pop, Joined, Terminate,
                ForgetConfig, registry
  <2> QED
    BY <2>1, <2>2, <2>3
<1>4. \A n \in Names \ {Name(r)} : pipelines'[n] = pipelines[n]
  BY <1>0, <1>1 DEF BaseInv, TypeOK
<1>5. \A n \in Names \ {Name(r)} : configs'[n] = configs[n]
  BY <1>0, <1>2 DEF BaseInv, TypeOK
<1> QED
  BY <1>3, <1>4, <1>5

(* What a step of r has to leave behind at its own name n.                        *)
OwnName(r, n) ==
  /\ ~(n \in Managed' /\ n \in external')
  /\ KnowsName(r)'
  /\ clients = "multipipe" /\ Op(r) = "start" /\ ~At(r, "idle")' => n \notin Managed'
  /\ Tracked'
  /\ clients = "serial" /\ Settled(n)' => ConfigOf(n)'

(* It is enough: the other names are as they were, and no other request is about  *)
(* this one.                                                                      *)
LEMMA OwnNameSuffices ==
  ASSUME BaseInv, SoloInv, clients # "concurrent",
         NEW r \in Requests, Serve(r), NEW n \in Names, n = Name(r), OwnName(r, n)
  PROVE  SoloInv'
<1>0. /\ ~At(r, "idle") /\ Op(r) \in Operation
      /\ Others(r)
      /\ At(r, "idle")' \/ (~At(r, "idle")' /\ Name(r)' = Name(r) /\ Op(r)' = Op(r))
      /\ UNCHANGED <<clients, left, signal, snapshot, found>>
  BY ServeMoves
<1>1. /\ \A m \in Names \ {n} :
           /\ pipelines'[m] = pipelines[m]
           /\ configs'[m] = configs[m]
           /\ m \in external' <=> m \in external
      /\ Op(r) \in {"start", "stop"} => external' = external
  BY ServeIsLocal
<1>2. \A m \in Names \ {n} : m \in Managed' <=> m \in Managed
  BY <1>1 DEF Managed
<1>3. \A s \in Requests : ~At(s, "idle")' => ~At(s, "idle") /\ Name(s)' = Name(s) /\ Op(s)' = Op(s)
  BY <1>0 DEF Others, At, Name, Op
<1>4. Exclusive'
  BY <1>3 DEF SoloInv, Exclusive
<1>5. \A s \in Requests \ {r} : ~At(s, "idle") => Name(s) \in Names \ {n}
  BY <1>0, Underway DEF SoloInv, Exclusive, BaseInv
<1>6. LoopInv'
  <2> SUFFICES ASSUME clients = "multipipe"
               PROVE  /\ external' = {}
                      /\ signal' = "none" => snapshot' = {} /\ ~Serving("stop")'
                      /\ \A m \in left' \cup snapshot' : ~Busy(m)'
                      /\ \A m \in left' : m \notin Managed' \cup snapshot'
                      /\ \A s \in Requests : ~At(s, "idle")' =>
                           /\ Op(s)' \in {"start", "stop"}
                           /\ Op(s)' = "start" => Name(s)' \notin Managed'
    BY <1>0 DEF LoopInv
  <2>1. LoopInv /\ Op(r) \in {"start", "stop"}
    BY <1>0 DEF SoloInv, LoopInv
  <2>2. external' = {}
    BY <1>1, <2>1 DEF LoopInv
  <2>3. signal' = "none" => snapshot' = {} /\ ~Serving("stop")'
    <3>1. \A s \in Requests : request'[s].op = "stop" => request[s].op = "stop"
      <4>1. CASE At(r, "idle")'
        <5>1. request'[r] = Idle
          BY <4>1, ServeBase DEF BaseInv, RequestOK, At, Asked, AllPoints
        <5> QED
          BY <1>0, <5>1 DEF Others, Idle
      <4>2. CASE ~At(r, "idle")'
        BY <1>0, <4>2 DEF Others, Op
      <4> QED
        BY <4>1, <4>2
    <3> QED
      BY <1>0, <2>1, <3>1 DEF LoopInv, Serving
  <2>4. \A m \in left' \cup snapshot' : ~Busy(m)'
    BY <1>0, <1>3, <2>1 DEF LoopInv, Busy, At, Name
  <2>5. \A m \in left' : m \notin Managed' \cup snapshot'
    <3>1. Busy(n)
      BY <1>0 DEF Busy, At, Name
    <3>2. \A m \in left : m \in Names \ {n}
      BY <2>1, <3>1 DEF LoopInv, BaseInv, TypeOK
    <3> QED
      BY <1>0, <1>2, <2>1, <3>2 DEF LoopInv
  <2>6. ASSUME NEW s \in Requests, ~At(s, "idle")'
        PROVE  /\ Op(s)' \in {"start", "stop"}
               /\ Op(s)' = "start" => Name(s)' \notin Managed'
    <3>1. CASE s = r
      BY <1>3, <2>1, <2>6, <3>1 DEF OwnName
    <3>2. CASE s # r
      BY <1>2, <1>3, <1>5, <2>1, <2>6, <3>2 DEF LoopInv
    <3> QED
      BY <3>1, <3>2
  <2> QED
    BY <2>2, <2>3, <2>4, <2>5, <2>6
<1>7. Managed' \cap external' = {}
  BY <1>1, <1>2 DEF OwnName, SoloInv, Managed
<1>8. ASSUME NEW s \in Requests
      PROVE  KnowsName(s)'
  <2>1. CASE s = r
    BY <2>1 DEF OwnName
  <2>2. CASE s # r /\ At(s, "idle")
    BY <1>0, <2>2 DEF KnowsName, Others, At
  <2>3. CASE s # r /\ ~At(s, "idle")
    <3>1. request'[s] = request[s] /\ Name(s) \in Names \ {n} /\ KnowsName(s)
      BY <1>0, <1>5, <2>3 DEF Others, SoloInv
    <3> QED
      BY <1>1, <1>2, <3>1 DEF KnowsName, At, Op, Name
  <2> QED
    BY <2>1, <2>2, <2>3
<1>9. ASSUME clients' = "serial", NEW m \in Names, Settled(m)'
      PROVE  ConfigOf(m)'
  <2>1. CASE m = n
    BY <1>0, <1>9, <2>1 DEF OwnName
  <2>2. CASE m # n
    <3>1. Settled(m)
      BY <1>0, <1>9, <2>2 DEF Settled, Others, Name
    <3>2. ConfigOf(m)
      BY <1>0, <1>9, <3>1 DEF SoloInv
    <3> QED
      BY <1>1, <1>2, <2>2, <3>2 DEF ConfigOf
  <2> QED
    BY <2>1, <2>2
<1> QED
  BY <1>4, <1>6, <1>7, <1>8, <1>9 DEF SoloInv, OwnName

(* A step that leaves the registry and the processes' names alone, in which r      *)
(* gives up no running process.                                                    *)
LEMMA TrackedKept ==
  ASSUME Tracked, NEW r \in Requests, Others(r), UNCHANGED <<pipelines, named>>,
         \A p \in Process : process'[p] = "running" =>
           process[p] = "running" /\ ~(Holds(r) /\ request[r].proc = p)
  PROVE  Tracked'
<1> SUFFICES ASSUME NEW p \in Process, process'[p] = "running", pipelines'[named'[p]] # p
             PROVE  \E s \in Requests : Holds(s)' /\ request'[s].proc = p
  BY DEF Tracked
<1>1. PICK s \in Requests : Holds(s) /\ request[s].proc = p
  BY DEF Tracked
<1>2. s # r
  BY <1>1
<1> QED
  BY <1>1, <1>2 DEF Holds, Others, At, Op

(* What the invariant says of the name of a request under way.                     *)
LEMMA OwnFacts ==
  ASSUME SoloInv, clients # "concurrent", NEW r \in Requests, ~At(r, "idle"),
         NEW n \in Names, n = Name(r)
  PROVE  /\ KnowsName(r) /\ Tracked
         /\ ~(n \in Managed /\ n \in external)
         /\ clients = "multipipe" /\ Op(r) = "start" => n \notin Managed
         /\ clients = "serial" /\ request[r].pc \notin {"config", "join", "forget"} => ConfigOf(n)
<1>1. request[r].pc \notin {"config", "join", "forget"} => Settled(n)
  BY DEF SoloInv, Exclusive, Settled, At, Name
<1> QED
  BY <1>1 DEF SoloInv, LoopInv

(* Steps that change neither the registry nor a process: the checks, a pop or a     *)
(* join that finds nothing to do, and the answer.                                   *)
LEMMA CheckOwn ==
  ASSUME BaseInv, SoloInv, clients # "concurrent", NEW r \in Requests, NEW n \in Names, n = Name(r),
         \/ CheckFree(r) \/ Answer(r) \/ CheckKnown(r) \/ Joined(r)
         \/ Pop(r) /\ Name(r) \notin Managed
         \/ Delete(r) /\ Name(r) \notin external
  PROVE  OwnName(r, n)
<1>0. /\ ~At(r, "idle")
      /\ UNCHANGED <<clients, pipelines, external, configs, process, named>>
  BY DEF CheckFree, Answer, CheckKnown, Joined, Pop, Delete, At, caller, registry, processes
<1>1. PICK pc \in Points(Op(r)) : Goto(r, pc) \/ Reply(r)
  BY QuietSteps
<1>2. Others(r)
  BY <1>0, <1>1, GotoMoves, ReplyMoves DEF BaseInv
<1>3. /\ KnowsName(r) /\ Tracked
      /\ ~(n \in Managed /\ n \in external)
      /\ clients = "multipipe" /\ Op(r) = "start" => n \notin Managed
      /\ clients = "serial" /\ request[r].pc \notin {"config", "join", "forget"} => ConfigOf(n)
  BY <1>0, OwnFacts
<1>4. Managed' = Managed /\ (ConfigOf(n) => ConfigOf(n)')
  BY <1>0 DEF Managed, ConfigOf
<1>5. Tracked'
  <2>1. \A p \in Process : process'[p] = "running" => ~(Holds(r) /\ request[r].proc = p)
    <3>1. CASE Joined(r)
      BY <1>0, <3>1 DEF Joined
    <3>2. CASE ~Joined(r)
      BY <3>2, PointTellsOp DEF CheckFree, Answer, CheckKnown, Pop, Delete, Holds, At, BaseInv
    <3> QED
      BY <3>1, <3>2
  <2> QED
    BY <1>0, <1>2, <1>3, <2>1, TrackedKept
<1>6. /\ KnowsName(r)'
      /\ clients = "serial" /\ Settled(n)' => request[r].pc \notin {"config", "join", "forget"}
  <2>1. CASE CheckFree(r)
    <3> DEFINE pt == IF Op(r) = "start" THEN "spawn" ELSE "insert"
    <3>1. Reply(r) \/ (Goto(r, pt) /\ pt \in Points(Op(r)) /\ n \notin Managed \cup external)
      BY <2>1, PointsOf DEF CheckFree
    <3>2. \/ At(r, "idle")'
          \/ At(r, pt)' /\ Name(r)' = n /\ n \notin Managed \cup external
      BY <1>0, <3>1, GotoMoves, ReplyMoves DEF BaseInv
    <3> QED
      BY <1>0, <1>4, <2>1, <3>2 DEF KnowsName, At, CheckFree
  <2>2. CASE CheckKnown(r)
    <3>1. Reply(r) \/ (Goto(r, "remove") /\ "remove" \in Points(Op(r)))
      BY <2>2, PointsOf DEF CheckKnown
    <3>2. At(r, "idle")' \/ At(r, "remove")'
      BY <1>0, <3>1, GotoMoves, ReplyMoves DEF BaseInv
    <3> QED
      BY <2>2, <3>2 DEF KnowsName, At, CheckKnown
  <2>3. CASE Joined(r)
    <3>1. n \notin Managed \cup external
      BY <1>3, <2>3 DEF KnowsName, Joined, At
    <3>2. /\ "forget" \in Points(Op(r)) /\ (Goto(r, "forget") \/ Reply(r))
          /\ clients = "serial" => Goto(r, "forget")
      BY <2>3, PointTellsOp, PointsOf DEF Joined, StopDone, BaseInv
    <3>3. /\ At(r, "idle")' \/ (At(r, "forget")' /\ Name(r)' = n)
          /\ clients = "serial" => At(r, "forget")' /\ Name(r)' = n
      BY <1>0, <3>2, GotoMoves, ReplyMoves DEF BaseInv
    <3> QED
      BY <1>0, <1>4, <3>1, <3>3 DEF KnowsName, Settled, At, Name
  <2>4. CASE ~CheckFree(r) /\ ~CheckKnown(r) /\ ~Joined(r)
    <3>1. Reply(r) /\ request[r].pc \in {"status", "remove"}
      BY <2>4 DEF Answer, Pop, Delete, At
    <3>2. At(r, "idle")'
      BY <3>1, ReplyMoves DEF BaseInv
    <3> QED
      BY <3>1, <3>2 DEF KnowsName, At
  <2> QED
    BY <2>1, <2>2, <2>3, <2>4
<1> QED
  BY <1>0, <1>3, <1>4, <1>5, <1>6 DEF OwnName

(* Terminate: the stop no longer holds a running process.                          *)
LEMMA TerminateOwn ==
  ASSUME BaseInv, SoloInv, clients # "concurrent", NEW r \in Requests, NEW n \in Names, n = Name(r),
         Terminate(r)
  PROVE  OwnName(r, n)
<1>0. /\ ~At(r, "idle") /\ Op(r) = "stop"
      /\ UNCHANGED <<clients, pipelines, external, configs, named>>
      /\ process' = [process EXCEPT ![request[r].proc] = "dead"]
  BY PointTellsOp DEF Terminate, At, caller, registry, BaseInv
<1>1. /\ KnowsName(r) /\ Tracked
      /\ n \notin Managed \cup external
  <2>1. KnowsName(r) /\ Tracked
    BY <1>0, OwnFacts
  <2> QED
    BY <2>1 DEF KnowsName, Terminate, At
<1>2. /\ "forget" \in Points(Op(r)) /\ (Goto(r, "forget") \/ Reply(r))
      /\ clients = "serial" => Goto(r, "forget")
  BY PointTellsOp, PointsOf DEF Terminate, StopDone, BaseInv
<1>3. /\ Others(r)
      /\ At(r, "idle")' \/ (At(r, "forget")' /\ Name(r)' = n)
      /\ clients = "serial" => At(r, "forget")' /\ Name(r)' = n
  BY <1>0, <1>2, GotoMoves, ReplyMoves DEF BaseInv
<1>4. Tracked'
  <2>1. \A p \in Process : process'[p] = "running" => process[p] = "running" /\ request[r].proc # p
    BY <1>0 DEF BaseInv, TypeOK
  <2> QED
    BY <1>0, <1>1, <1>3, <2>1, TrackedKept
<1>5. n \notin Managed' \cup external'
  BY <1>0, <1>1 DEF Managed
<1> QED
  BY <1>0, <1>3, <1>4, <1>5 DEF OwnName, KnowsName, Settled, At, Name

(* The configuration is stored: it is the one of the entry made before.            *)
LEMMA StoreConfigOwn ==
  ASSUME BaseInv, SoloInv, clients # "concurrent", NEW r \in Requests, NEW n \in Names, n = Name(r),
         StoreConfig(r)
  PROVE  OwnName(r, n)
<1>0. /\ ~At(r, "idle") /\ At(r, "config") /\ Op(r) \in {"start", "register"}
      /\ UNCHANGED <<clients, pipelines, external, process, named>>
      /\ configs' = [configs EXCEPT ![n] = IF Op(r) = "start" THEN request[r].proc ELSE ExternalConfig]
      /\ Goto(r, "status")
  BY PointTellsOp DEF StoreConfig, At, caller, processes, BaseInv
<1>1. /\ KnowsName(r) /\ Tracked
      /\ ~(n \in Managed /\ n \in external)
      /\ clients = "multipipe" /\ Op(r) = "start" => n \notin Managed
  BY <1>0, OwnFacts
<1>2. Others(r) /\ At(r, "status")'
  BY <1>0, PointsOf, GotoMoves DEF BaseInv
<1>3. Tracked'
  <2>1. ~Holds(r)
    BY <1>0 DEF Holds, At
  <2> QED
    BY <1>0, <1>1, <1>2, <2>1, TrackedKept
<1>4. Managed' = Managed
  BY <1>0 DEF Managed
<1>5. ConfigOf(n)'
  <2>1. configs'[n] = IF Op(r) = "start" THEN request[r].proc ELSE ExternalConfig
    BY <1>0 DEF BaseInv, TypeOK
  <2> QED
    BY <1>0, <1>1, <1>4, <2>1 DEF ConfigOf, KnowsName
<1> QED
  BY <1>0, <1>1, <1>2, <1>3, <1>4, <1>5 DEF OwnName, KnowsName, At

(* The configuration is forgotten once the name has left the registry.             *)
LEMMA ForgetConfigOwn ==
  ASSUME BaseInv, SoloInv, clients # "concurrent", NEW r \in Requests, NEW n \in Names, n = Name(r),
         ForgetConfig(r)
  PROVE  OwnName(r, n)
<1>0. /\ ~At(r, "idle") /\ At(r, "forget")
      /\ UNCHANGED <<clients, pipelines, external, process, named>>
      /\ configs' = [configs EXCEPT ![n] = NoConfig]
      /\ Reply(r)
  BY DEF ForgetConfig, At, caller, processes
<1>1. KnowsName(r) /\ Tracked
  BY <1>0, OwnFacts
<1>2. Others(r) /\ At(r, "idle")'
  BY <1>0, ReplyMoves DEF BaseInv
<1>3. Tracked'
  <2>1. ~Holds(r)
    BY <1>0 DEF Holds, At
  <2> QED
    BY <1>0, <1>1, <1>2, <2>1, TrackedKept
<1>4. n \notin Managed' \cup external'
  BY <1>0, <1>1 DEF KnowsName, Managed, At
<1>5. configs'[n] = NoConfig
  BY <1>0 DEF BaseInv, TypeOK
<1> QED
  BY <1>2, <1>3, <1>4, <1>5 DEF OwnName, ConfigOf, KnowsName, At

(* An external pipeline leaves the registry, or enters it.                         *)
LEMMA ExternalOwn ==
  ASSUME BaseInv, SoloInv, clients # "concurrent", NEW r \in Requests, NEW n \in Names, n = Name(r),
         (Delete(r) /\ n \in external) \/ (Insert(r) /\ Op(r) # "start")
  PROVE  OwnName(r, n)
<1>0. /\ ~At(r, "idle") /\ Op(r) \in {"register", "unregister"}
      /\ UNCHANGED <<clients, pipelines, configs, process, named>>
  BY PointTellsOp DEF Delete, Insert, At, caller, processes, BaseInv
<1>1. /\ KnowsName(r) /\ Tracked
      /\ ~(n \in Managed /\ n \in external)
  BY <1>0, OwnFacts
<1>2. clients = "serial" /\ clients # "multipipe"
  BY <1>0, ManagerAssumption DEF SoloInv, LoopInv, BaseInv, TypeOK
<1>3. Managed' = Managed
  BY <1>0 DEF Managed
<1>4. ~Holds(r)
  BY <1>0, PointTellsOp DEF Holds, BaseInv
<1>5. CASE Delete(r) /\ n \in external
  <2>1. Goto(r, "forget") /\ "forget" \in Points(Op(r)) /\ external' = external \ {n}
    BY <1>5, PointsOf DEF Delete
  <2>2. Others(r) /\ At(r, "forget")' /\ Name(r)' = n
    BY <1>0, <2>1, GotoMoves DEF BaseInv
  <2>3. Tracked'
    BY <1>0, <1>1, <1>4, <2>2, TrackedKept
  <2> QED
    BY <1>1, <1>2, <1>3, <1>5, <2>1, <2>2, <2>3 DEF OwnName, KnowsName, Settled, At, Name
<1>6. CASE Insert(r) /\ Op(r) # "start"
  <2>0. Op(r) = "register"
    BY <1>6, PointTellsOp DEF Insert, At, BaseInv
  <2>1. Goto(r, "config") /\ "config" \in Points(Op(r)) /\ external' = external \cup {n}
    BY <1>2, <1>6, <2>0, PointsOf DEF Insert
  <2>2. Others(r) /\ At(r, "config")' /\ Name(r)' = n /\ Op(r)' # "start"
    BY <1>0, <1>6, <2>1, GotoMoves DEF BaseInv
  <2>3. Tracked'
    BY <1>0, <1>1, <1>4, <2>2, TrackedKept
  <2>4. n \notin Managed
    BY <1>1, <1>6 DEF KnowsName, Insert, At
  <2> QED
    BY <1>2, <1>3, <2>1, <2>2, <2>3, <2>4 DEF OwnName, KnowsName, Settled, At, Name
<1> QED
  BY <1>5, <1>6

(* A start creates its process, and holds it.                                      *)
LEMMA SpawnOwn ==
  ASSUME BaseInv, SoloInv, clients # "concurrent", NEW r \in Requests, NEW n \in Names, n = Name(r),
         Spawn(r)
  PROVE  OwnName(r, n)
<1> DEFINE p == Cardinality(Created) + 1
<1>0. p \in Process /\ process[p] = "none" /\ p \in 0..MaxProcesses
  BY NextProcess, ManagerAssumption DEF Spawn, Process
<1>1. /\ ~At(r, "idle") /\ At(r, "spawn") /\ Op(r) = "start"
      /\ UNCHANGED <<clients, pipelines, external, configs>>
  BY PointTellsOp DEF Spawn, At, caller, registry, BaseInv
<1>2. /\ process' = [process EXCEPT ![p] = "running"]
      /\ named' = [named EXCEPT ![p] = n]
  BY DEF Spawn
<1>3. Others(r) /\ At(r, "insert")' /\ Op(r)' = "start" /\ Name(r)' = n /\ request'[r].proc = p
  BY <1>0, <1>1, PointsOf, HandMoves DEF Spawn, BaseInv
<1> HIDE DEF p
<1>4. /\ KnowsName(r) /\ Tracked
      /\ clients = "serial" /\ request[r].pc \notin {"config", "join", "forget"} => ConfigOf(n)
  BY <1>1, OwnFacts
<1>5. n \notin Managed' \cup external'
  BY <1>1, <1>4 DEF KnowsName, At, Managed
<1>6. ConfigOf(n) => ConfigOf(n)'
  BY <1>1 DEF ConfigOf, Managed
<1>7. Tracked'
  <2> SUFFICES ASSUME NEW q \in Process, process'[q] = "running", pipelines'[named'[q]] # q
               PROVE  \E s \in Requests : Holds(s)' /\ request'[s].proc = q
    BY DEF Tracked
  <2>1. CASE q = p
    BY <1>3, <2>1 DEF Holds
  <2>2. CASE q # p
    <3>1. process[q] = "running" /\ named'[q] = named[q]
      BY <1>2, <2>2 DEF BaseInv, TypeOK
    <3>2. PICK s \in Requests : Holds(s) /\ request[s].proc = q
      BY <1>1, <1>4, <3>1 DEF Tracked
    <3>3. s # r
      BY <1>1, <3>2 DEF Holds, At
    <3> QED
      BY <1>3, <3>2, <3>3 DEF Holds, Others, At, Op
  <2> QED
    BY <2>1, <2>2
<1>8. KnowsName(r)'
  BY <1>3, <1>5 DEF KnowsName, At
<1> QED
  BY <1>1, <1>4, <1>5, <1>6, <1>7, <1>8 DEF OwnName, At

(* A start hands its process to the registry, which had none under this name.      *)
LEMMA InsertOwn ==
  ASSUME BaseInv, SoloInv, clients # "concurrent", NEW r \in Requests, NEW n \in Names, n = Name(r),
         Insert(r), Op(r) = "start"
  PROVE  OwnName(r, n)
<1> DEFINE p == request[r].proc
<1>0. /\ ~At(r, "idle") /\ At(r, "insert") /\ Holds(r)
      /\ UNCHANGED <<clients, external, configs, process, named>>
  BY DEF Insert, Holds, At, caller, processes
<1>1. pipelines' = [pipelines EXCEPT ![n] = p]
  BY DEF Insert
<1>2. /\ Goto(r, "config") \/ Reply(r)
      /\ IF clients = "multipipe" THEN Reply(r) ELSE Goto(r, "config")
      /\ "config" \in Points(Op(r))
  BY PointsOf DEF Insert
<1>3. /\ Others(r)
      /\ clients = "multipipe" => At(r, "idle")'
      /\ clients # "multipipe" => At(r, "config")' /\ Op(r)' = "start" /\ Name(r)' = n /\ request'[r].proc = p
  BY <1>0, <1>2, GotoMoves, ReplyMoves DEF BaseInv
<1>4. p \in Process /\ p # 0 /\ named[p] = n
  BY <1>0, ManagerAssumption DEF BaseInv, HoldInv, Created, Process
<1> HIDE DEF p
<1>5. KnowsName(r) /\ Tracked
  BY <1>0, OwnFacts
<1>6. n \notin Managed \cup external
  BY <1>0, <1>5 DEF KnowsName, At
<1>7. /\ pipelines'[n] = p /\ n \in Managed'
      /\ \A m \in Names \ {n} : pipelines'[m] = pipelines[m]
  BY <1>1, <1>4 DEF BaseInv, TypeOK, Managed
<1>8. Tracked'
  <2> SUFFICES ASSUME NEW q \in Process, process'[q] = "running", pipelines'[named'[q]] # q
               PROVE  \E s \in Requests : Holds(s)' /\ request'[s].proc = q
    BY DEF Tracked
  <2>1. q # p
    BY <1>0, <1>4, <1>7
  <2>2. named[q] \in Names
    BY <1>0 DEF BaseInv, SupplyInv, Created
  <2>3. pipelines[named[q]] # q
    <3>1. q # 0
      BY ManagerAssumption DEF Process
    <3>2. CASE named[q] = n
      BY <1>6, <3>1, <3>2 DEF Managed
    <3>3. CASE named[q] # n
      BY <1>0, <1>7, <2>2, <3>3
    <3> QED
      BY <3>2, <3>3
  <2>4. PICK s \in Requests : Holds(s) /\ request[s].proc = q
    BY <1>0, <1>5, <2>3 DEF Tracked
  <2>5. s # r
    BY <2>1, <2>4 DEF p
  <2> QED
    BY <1>3, <2>4, <2>5 DEF Holds, Others, At, Op
<1>9. KnowsName(r)'
  BY <1>3, <1>7 DEF KnowsName, At
<1>10. clients = "serial" => ~Settled(n)'
  BY <1>3 DEF Settled, At, Name
<1>11. n \notin external'
  BY <1>0, <1>6
<1> QED
  BY <1>3, <1>8, <1>9, <1>10, <1>11 DEF OwnName

(* A stop takes the process out of the registry, and holds it.                     *)
LEMMA PopOwn ==
  ASSUME BaseInv, SoloInv, clients # "concurrent", NEW r \in Requests, NEW n \in Names, n = Name(r),
         Pop(r), n \in Managed
  PROVE  OwnName(r, n)
<1> DEFINE p == pipelines[n]
<1>0. /\ ~At(r, "idle") /\ At(r, "remove") /\ Op(r) = "stop"
      /\ UNCHANGED <<clients, external, configs, process, named>>
  BY DEF Pop, At, caller
<1>1. pipelines' = [pipelines EXCEPT ![n] = 0]
  BY DEF Pop
<1>2. p \in 0..MaxProcesses
  BY DEF BaseInv, TypeOK
<1>3. Others(r) /\ At(r, "join")' /\ Op(r)' = "stop" /\ Name(r)' = n /\ request'[r].proc = p
  BY <1>0, <1>2, PointsOf, HandMoves DEF Pop, BaseInv
<1> HIDE DEF p
<1>4. Tracked /\ n \notin external
  BY <1>0, OwnFacts
<1>5. /\ n \notin Managed'
      /\ \A m \in Names \ {n} : pipelines'[m] = pipelines[m]
  BY <1>1 DEF BaseInv, TypeOK, Managed
<1>6. Tracked'
  <2> SUFFICES ASSUME NEW q \in Process, process'[q] = "running", pipelines'[named'[q]] # q
               PROVE  \E s \in Requests : Holds(s)' /\ request'[s].proc = q
    BY DEF Tracked
  <2>1. CASE q = p
    BY <1>3, <2>1 DEF Holds
  <2>2. CASE q # p
    <3>1. named[q] \in Names
      BY <1>0 DEF BaseInv, SupplyInv, Created
    <3>2. pipelines[named[q]] # q
      BY <1>0, <1>5, <2>2, <3>1 DEF p
    <3>3. PICK s \in Requests : Holds(s) /\ request[s].proc = q
      BY <1>0, <1>4, <3>2 DEF Tracked
    <3>4. s # r
      BY <1>0, <3>3 DEF Holds, At
    <3> QED
      BY <1>3, <3>3, <3>4 DEF Holds, Others, At, Op
  <2> QED
    BY <2>1, <2>2
<1>7. KnowsName(r)'
  BY <1>0, <1>3, <1>4, <1>5 DEF KnowsName, At
<1>8. clients = "serial" => ~Settled(n)'
  BY <1>3 DEF Settled, At, Name
<1> QED
  BY <1>5, <1>6, <1>7, <1>8 DEF OwnName

(* Every step of a request keeps the registry in agreement.                  *)
LEMMA ServeSolo ==
  ASSUME BaseInv, SoloInv, NEW r \in Requests, Serve(r)
  PROVE  SoloInv'
<1>1. CASE clients = "concurrent"
  <2>1. clients' = "concurrent"
    BY <1>1, ServeMoves
  <2> QED
    BY <2>1 DEF SoloInv
<1>2. CASE clients # "concurrent"
  <2>1. PICK n \in Names : n = Name(r)
    BY ServeMoves
  <2>2. OwnName(r, n)
    <3>1. CASE Spawn(r)
      BY <1>2, <2>1, <3>1, SpawnOwn
    <3>2. CASE Insert(r) /\ Op(r) = "start"
      BY <1>2, <2>1, <3>2, InsertOwn
    <3>3. CASE Pop(r) /\ Name(r) \in Managed
      BY <1>2, <2>1, <3>3, PopOwn
    <3>4. CASE \/ CheckFree(r) \/ Answer(r) \/ CheckKnown(r) \/ Joined(r)
               \/ Pop(r) /\ Name(r) \notin Managed
               \/ Delete(r) /\ Name(r) \notin external
      BY <1>2, <2>1, <3>4, CheckOwn
    <3>5. CASE Terminate(r)
      BY <1>2, <2>1, <3>5, TerminateOwn
    <3>6. CASE StoreConfig(r)
      BY <1>2, <2>1, <3>6, StoreConfigOwn
    <3>7. CASE ForgetConfig(r)
      BY <1>2, <2>1, <3>7, ForgetConfigOwn
    <3>8. CASE (Delete(r) /\ Name(r) \in external) \/ (Insert(r) /\ Op(r) # "start")
      BY <1>2, <2>1, <3>8, ExternalOwn
    <3> QED
      BY <3>1, <3>2, <3>3, <3>4, <3>5, <3>6, <3>7, <3>8 DEF Serve
  <2> QED
    BY <1>2, <2>1, <2>2, OwnNameSuffices
<1> QED
  BY <1>1, <1>2

(* A request arrives for a name that no other is about.                            *)
LEMMA ArriveSolo ==
  ASSUME BaseInv, SoloInv, NEW r \in Requests, NEW op \in Operation, NEW n \in Names, Arrive(r, op, n)
  PROVE  SoloInv'
<1>0. /\ At(r, "idle")
      /\ UNCHANGED <<clients, signal, found, pipelines, external, configs, process, named>>
      /\ left' = IF op = "start" THEN left \ {n} ELSE left
      /\ snapshot' = IF op = "stop" THEN snapshot \ {n} ELSE snapshot
  BY DEF Arrive, registry, processes
<1>1. Others(r) /\ At(r, "check")' /\ Op(r)' = op /\ Name(r)' = n
  BY ArriveBase
<1> SUFFICES ASSUME clients # "concurrent"
             PROVE  SoloInv'
  BY <1>0 DEF SoloInv
<1>2. ~Busy(n)
  BY DEF Arrive, MayAsk, SoloInv, LoopInv
<1>3. \A s \in Requests \ {r} : request'[s] = request[s]
  BY <1>1 DEF Others
<1>4. Exclusive'
  <2>1. ASSUME NEW s \in Requests, NEW t \in Requests, ~At(s, "idle")', ~At(t, "idle")', Name(s)' = Name(t)'
        PROVE  s = t
    <3>1. \A u \in Requests \ {r} : ~At(u, "idle")' => ~At(u, "idle") /\ Name(u)' = Name(u) /\ Name(u) # n
      BY <1>2, <1>3 DEF Busy, At, Name
    <3> QED
      BY <1>1, <2>1, <3>1 DEF SoloInv, Exclusive
  <2> QED
    BY <2>1 DEF Exclusive
<1>5. Managed' = Managed
  BY <1>0 DEF Managed
<1>6. LoopInv'
  <2> SUFFICES ASSUME clients = "multipipe"
               PROVE  /\ external' = {}
                      /\ signal' = "none" => snapshot' = {} /\ ~Serving("stop")'
                      /\ \A m \in left' \cup snapshot' : ~Busy(m)'
                      /\ \A m \in left' : m \notin Managed' \cup snapshot'
                      /\ \A s \in Requests : ~At(s, "idle")' =>
                           /\ Op(s)' \in {"start", "stop"}
                           /\ Op(s)' = "start" => Name(s)' \notin Managed'
    BY <1>0 DEF LoopInv
  <2>1. LoopInv
    BY DEF SoloInv
  <2>2. (op = "start" /\ n \in left) \/ (op = "stop" /\ n \in snapshot)
    BY DEF Arrive, MayAsk
  <2>3. external' = {}
    BY <1>0, <2>1 DEF LoopInv
  <2>4. signal' = "none" => snapshot' = {} /\ ~Serving("stop")'
    <3> SUFFICES ASSUME signal' = "none"
                 PROVE  snapshot' = {} /\ ~Serving("stop")'
      OBVIOUS
    <3>1. snapshot = {} /\ ~Serving("stop")
      BY <1>0, <2>1 DEF LoopInv
    <3>2. op = "start"
      BY <2>2, <3>1
    <3> QED
      BY <1>0, <1>1, <1>3, <3>1, <3>2 DEF Serving, Op
  <2>5. \A m \in left' \cup snapshot' : m # n /\ m \in left \cup snapshot
    BY <1>0, <2>1, <2>2 DEF LoopInv
  <2>6. \A m \in left' \cup snapshot' : ~Busy(m)'
    BY <1>1, <1>3, <2>1, <2>5 DEF LoopInv, Busy, Name
  <2>7. \A m \in left' : m \notin Managed' \cup snapshot'
    BY <1>0, <1>5, <2>1 DEF LoopInv
  <2>8. \A s \in Requests : ~At(s, "idle")' =>
          /\ Op(s)' \in {"start", "stop"}
          /\ Op(s)' = "start" => Name(s)' \notin Managed'
    BY <1>1, <1>3, <1>5, <2>1, <2>2 DEF LoopInv, At, Op, Name
  <2> QED
    BY <2>3, <2>4, <2>6, <2>7, <2>8
<1>7. \A s \in Requests : KnowsName(s)'
  BY <1>0, <1>1, <1>3, <1>5 DEF SoloInv, KnowsName, At, Op, Name
<1>8. Tracked'
  <2>1. ~Holds(r) /\ Tracked
    BY <1>0 DEF Holds, At, SoloInv
  <2> QED
    BY <1>0, <1>1, <2>1, TrackedKept
<1>9. ASSUME clients' = "serial", NEW m \in Names, Settled(m)'
      PROVE  ConfigOf(m)'
  <2>1. Settled(m)
    BY <1>0, <1>3, <1>9 DEF Settled, At, Name
  <2>2. ConfigOf(m)
    BY <1>0, <1>9, <2>1 DEF SoloInv
  <2> QED
    BY <1>0, <1>5, <2>2 DEF ConfigOf
<1>10. Managed' \cap external' = {}
  BY <1>0, <1>5 DEF SoloInv
<1> QED
  BY <1>4, <1>6, <1>7, <1>8, <1>9, <1>10 DEF SoloInv

(* The handler finds in the manager only names that no request is about.           *)
LEMMA SignalSolo ==
  ASSUME BaseInv, SoloInv, ShutdownSignal
  PROVE  SoloInv'
<1>0. /\ UNCHANGED <<clients, left, pipelines, external, configs, process, named, request>>
      /\ clients = "multipipe" /\ signal = "none" /\ signal' # "none" /\ snapshot' = Managed
  BY DEF ShutdownSignal, registry, processes
<1>1. Managed' = Managed
  BY <1>0 DEF Managed
<1>2. LoopInv /\ Exclusive /\ Managed \cap external = {} /\ (\A r \in Requests : KnowsName(r)) /\ Tracked
  BY <1>0 DEF SoloInv
<1>3. \A m \in Managed : ~Busy(m)
  BY <1>0, <1>2 DEF LoopInv, Busy, Serving, At, Op, Name
<1>4. LoopInv'
  <2>1. \A m \in left' \cup snapshot' : ~Busy(m)'
    BY <1>0, <1>2, <1>3 DEF LoopInv, Busy
  <2> QED
    BY <1>0, <1>1, <1>2, <2>1 DEF LoopInv, At, Op, Name
<1>5. Exclusive' /\ Managed' \cap external' = {} /\ (\A r \in Requests : KnowsName(r))' /\ Tracked'
  BY <1>0, <1>1, <1>2 DEF Exclusive, KnowsName, Tracked, Holds, At, Op, Name
<1> QED
  BY <1>0, <1>4, <1>5 DEF SoloInv

(* The end of a process, and a step that changes nothing.                          *)
LEMMA ExitSolo ==
  ASSUME BaseInv, SoloInv, (\E p \in Process : Exit(p)) \/ UNCHANGED vars
  PROVE  SoloInv'
<1>0. UNCHANGED <<clients, left, signal, snapshot, found, pipelines, external, configs, named, request>>
  BY DEF Exit, vars, caller, registry
<1>1. \A q \in Process : process'[q] = "running" => process[q] = "running"
  BY DEF Exit, vars, BaseInv, TypeOK
<1>2. Managed' = Managed /\ (Tracked => Tracked')
  BY <1>0, <1>1 DEF Managed, Tracked, Holds, At, Op
<1>3. (Exclusive => Exclusive') /\ (LoopInv => LoopInv')
  BY <1>0, <1>2 DEF Exclusive, LoopInv, Serving, Busy, At, Op, Name
<1>4. \A r \in Requests : KnowsName(r) => KnowsName(r)'
  BY <1>0, <1>2 DEF KnowsName, At, Op, Name
<1>5. \A m \in Names : (Settled(m)' => Settled(m)) /\ (ConfigOf(m) => ConfigOf(m)')
  BY <1>0, <1>2 DEF Settled, ConfigOf, Name
<1> QED
  BY <1>0, <1>2, <1>3, <1>4, <1>5 DEF SoloInv

(* Initially the registry is empty.                                          *)
LEMMA InitSolo == Init => SoloInv
<1> SUFFICES ASSUME Init
             PROVE  SoloInv
  OBVIOUS
<1>1. Managed = {} /\ external = {} /\ snapshot = {}
  BY DEF Init, Managed
<1>2. \A r \in Requests : request[r].pc = "idle" /\ request[r].op = "none"
  BY DEF Init, Idle
<1>3. Exclusive /\ (\A r \in Requests : KnowsName(r)) /\ LoopInv
  BY <1>1, <1>2 DEF Exclusive, KnowsName, LoopInv, Serving, Busy, At
<1>4. Tracked
  BY DEF Init, Tracked
<1>5. \A n \in Names : ConfigOf(n)
  BY <1>1 DEF Init, ConfigOf
<1> QED
  BY <1>1, <1>3, <1>4, <1>5 DEF SoloInv

-----------------------------------------------------------------------------
(* No action breaks the agreement of the registry.                                *)
LEMMA RegistryStep == RegistryInv /\ [Next]_vars => RegistryInv'
<1> SUFFICES ASSUME RegistryInv, [Next]_vars
             PROVE  RegistryInv'
  OBVIOUS
<1>0. BaseInv /\ SoloInv
  BY DEF RegistryInv
<1>1. ASSUME NEW r \in Requests, NEW op \in Operation, NEW n \in Names, Arrive(r, op, n)
      PROVE  RegistryInv'
  BY <1>0, <1>1, ArriveBase, ArriveSolo DEF RegistryInv
<1>2. ASSUME NEW r \in Requests, Serve(r)
      PROVE  RegistryInv'
  BY <1>0, <1>2, ServeBase, ServeSolo DEF RegistryInv
<1>3. CASE ShutdownSignal
  BY <1>0, <1>3, EnvironmentBase, SignalSolo DEF RegistryInv
<1>4. CASE (\E p \in Process : Exit(p)) \/ UNCHANGED vars
  BY <1>0, <1>4, EnvironmentBase, ExitSolo DEF RegistryInv
<1> QED
  BY <1>1, <1>2, <1>3, <1>4 DEF Next

-----------------------------------------------------------------------------
(* What the shutdown handler reaches.                                             *)

\* No operation is under way in an idle slot.
LEMMA IdleAsksNothing ==
  ASSUME RequestOK, NEW r \in Requests, At(r, "idle")
  PROVE  Op(r) = "none"
  BY DEF RequestOK, At, Idle, Asked, AllPoints, Op

(* A stop is answered only when its name is no longer registered.                  *)
LEMMA StopLeavesNone ==
  ASSUME BaseInv, SoloInv, clients # "concurrent", NEW r \in Requests, Serve(r), Op(r) = "stop",
         At(r, "idle")'
  PROVE  Name(r) \notin Managed'
<1>1. ~At(r, "idle") /\ Name(r) \in Names
  BY ServeMoves
<1>2. KnowsName(r)
  BY DEF SoloInv
<1>3. ~Pop(r) \/ Name(r) \notin Managed
  <2>1. CASE Pop(r) /\ Name(r) \in Managed
    <3>1. "join" \in Points(Op(r)) /\ pipelines[Name(r)] \in 0..MaxProcesses
      BY <1>1, PointsOf DEF BaseInv, TypeOK
    <3>2. At(r, "join")'
      BY <1>1, <2>1, <3>1, HandMoves DEF Pop, BaseInv
    <3> QED
      BY <3>2 DEF At
  <2> QED
    BY <2>1
<1>4. ~CheckKnown(r) \/ Name(r) \notin Managed
  <2>1. CASE CheckKnown(r) /\ Name(r) \in Managed
    <3>1. "remove" \in Points(Op(r)) /\ Goto(r, "remove")
      BY <2>1, PointsOf DEF CheckKnown
    <3>2. At(r, "remove")'
      BY <1>1, <3>1, GotoMoves DEF BaseInv
    <3> QED
      BY <3>2 DEF At
  <2> QED
    BY <2>1
<1>5. Name(r) \notin Managed
  BY <1>1, <1>2, <1>3, <1>4, PointTellsOp
  DEF Serve, CheckFree, Spawn, Insert, StoreConfig, Answer, Joined, Terminate, Delete, ForgetConfig,
      KnowsName, At, BaseInv
<1>6. pipelines' = pipelines \/ Pop(r)
  BY PointTellsOp
  DEF Serve, CheckFree, Spawn, Insert, StoreConfig, Answer, CheckKnown, Joined, Terminate, Delete,
      ForgetConfig, registry, At, BaseInv
<1>7. Managed' = Managed
  BY <1>3, <1>5, <1>6 DEF Pop, Managed
<1> QED
  BY <1>5, <1>7

(* A request's step registers a name, or creates a process, only for a start.      *)
LEMMA OnlyStartsAdd ==
  ASSUME BaseInv, NEW r \in Requests, Serve(r), Op(r) # "start"
  PROVE  /\ Managed' \subseteq Managed
         /\ named' = named
         /\ \A p \in Process : process'[p] = "running" => process[p] = "running"
<1>1. named' = named /\ \A p \in Process : process'[p] = "running" => process[p] = "running"
  <2>1. ~Spawn(r)
    BY PointTellsOp DEF Spawn, BaseInv
  <2> QED
    BY <2>1 DEF Serve, CheckFree, Insert, StoreConfig, Answer, CheckKnown, Pop, Joined, Terminate,
                Delete, ForgetConfig, processes, BaseInv, TypeOK
<1>2. Managed' \subseteq Managed
  <2>1. pipelines' = pipelines \/ pipelines' = [pipelines EXCEPT ![Name(r)] = 0]
    BY DEF Serve, CheckFree, Spawn, Insert, StoreConfig, Answer, CheckKnown, Pop, Joined, Terminate,
           Delete, ForgetConfig, registry
  <2> QED
    BY <2>1 DEF Managed, BaseInv, TypeOK
<1> QED
  BY <1>1, <1>2

(* A step of a request.                                                           *)
LEMMA ServeReach ==
  ASSUME BaseInv, SoloInv, ReachInv, NEW r \in Requests, Serve(r)
  PROVE  ReachInv'
<1>0. /\ Others(r) /\ Name(r) \in Names /\ ~At(r, "idle")
      /\ At(r, "idle")' \/ (~At(r, "idle")' /\ Name(r)' = Name(r) /\ Op(r)' = Op(r))
      /\ UNCHANGED <<clients, left, signal, snapshot, found>>
  BY ServeMoves
<1>1. At(r, "idle")' => Op(r)' = "none"
  <2>1. RequestOK'
    BY ServeBase DEF BaseInv
  <2> QED
    BY <2>1 DEF RequestOK, At, Idle, Asked, AllPoints, Op
<1>2. \A s \in Requests : Op(s)' = "start" => Op(s) = "start" /\ Name(s)' = Name(s)
  BY <1>0, <1>1 DEF Others, Op, Name
<1> SUFFICES ASSUME signal # "none"
             PROVE  ReachInv'
  BY <1>0 DEF ReachInv
<1>3. /\ clients = "multipipe"
      /\ \A n \in found : n \notin left /\ (n \in Managed => Reached(n))
      /\ \A s \in Requests : Op(s) = "start" => Name(s) \notin found
      /\ signal = "late" =>
           /\ left = {} /\ ~Serving("start")
           /\ \A p \in Process : process[p] = "running" => named[p] \in found
  BY DEF ReachInv
<1>4. ASSUME NEW n \in found, n \in Managed'
      PROVE  Reached(n)'
  <2>1. n \in Managed
    <3>1. CASE Op(r) = "start"
      <4>1. n \in Names \ {Name(r)}
        BY <1>3, <1>4, <3>1 DEF Managed
      <4> QED
        BY <1>4, <4>1, ServeIsLocal DEF Managed
    <3>2. CASE Op(r) # "start"
      BY <1>4, <3>2, OnlyStartsAdd
    <3> QED
      BY <3>1, <3>2
  <2>2. CASE n \in snapshot
    BY <1>0, <2>2 DEF Reached
  <2>3. ASSUME NEW s \in Requests, Op(s) = "stop", Name(s) = n
        PROVE  Reached(n)'
    <3>1. CASE s # r
      BY <1>0, <2>3, <3>1 DEF Others, Reached, Op, Name
    <3>2. CASE s = r
      <4>1. ~At(r, "idle")'
        BY <1>3, <1>4, <2>3, <3>2, StopLeavesNone
      <4> QED
        BY <1>0, <2>3, <3>2, <4>1 DEF Reached
    <3> QED
      BY <3>1, <3>2
  <2> QED
    BY <1>3, <2>1, <2>2, <2>3 DEF Reached
<1>5. ASSUME signal = "late"
      PROVE  /\ left' = {} /\ ~Serving("start")'
             /\ \A p \in Process : process'[p] = "running" => named'[p] \in found'
  <2>1. left' = {} /\ ~Serving("start")'
    BY <1>0, <1>2, <1>3, <1>5 DEF Serving, Op
  <2>2. Op(r) # "start"
    BY <1>3, <1>5 DEF Serving, Op
  <2> QED
    BY <1>0, <1>3, <1>5, <2>1, <2>2, OnlyStartsAdd
<1> QED
  BY <1>0, <1>2, <1>3, <1>4, <1>5 DEF ReachInv

(* The loop starts a pipe it had not come to; the handler goes on to a name it     *)
(* found.                                                                         *)
LEMMA ArriveReach ==
  ASSUME BaseInv, ReachInv, NEW r \in Requests, NEW op \in Operation, NEW n \in Names, Arrive(r, op, n)
  PROVE  ReachInv'
<1>0. /\ At(r, "idle")
      /\ UNCHANGED <<clients, signal, found, pipelines, process, named>>
      /\ left' = IF op = "start" THEN left \ {n} ELSE left
      /\ snapshot' = IF op = "stop" THEN snapshot \ {n} ELSE snapshot
  BY DEF Arrive, registry, processes
<1>1. Others(r) /\ At(r, "check")' /\ Op(r)' = op /\ Name(r)' = n
  BY ArriveBase
<1> SUFFICES ASSUME signal # "none"
             PROVE  ReachInv'
  BY <1>0 DEF ReachInv
<1>2. /\ clients = "multipipe"
      /\ \A m \in found : m \notin left /\ (m \in Managed => Reached(m))
      /\ \A s \in Requests : Op(s) = "start" => Name(s) \notin found
      /\ signal = "late" =>
           /\ left = {} /\ ~Serving("start")
           /\ \A p \in Process : process[p] = "running" => named[p] \in found
  BY DEF ReachInv
<1>3. op = "start" => n \in left
  BY <1>2 DEF Arrive, MayAsk
<1>4. ASSUME NEW m \in found, m \in Managed'
      PROVE  Reached(m)'
  <2>1. Reached(m)
    BY <1>0, <1>2, <1>4 DEF Managed
  <2>2. CASE m \in snapshot
    BY <1>0, <1>1, <2>2 DEF Reached
  <2>3. ASSUME NEW s \in Requests, Op(s) = "stop", Name(s) = m
        PROVE  Reached(m)'
    <3>1. s # r
      BY <1>0, <2>3, IdleAsksNothing DEF BaseInv
    <3> QED
      BY <1>1, <2>3, <3>1 DEF Others, Reached, Op, Name
  <2> QED
    BY <2>1, <2>2, <2>3 DEF Reached
<1>5. \A s \in Requests : Op(s)' = "start" => Name(s)' \notin found'
  BY <1>0, <1>1, <1>2, <1>3 DEF Others, Op, Name
<1>6. signal = "late" => left' = {} /\ ~Serving("start")'
  BY <1>0, <1>1, <1>2, <1>3 DEF Serving, Others, Op
<1> QED
  BY <1>0, <1>2, <1>4, <1>5, <1>6 DEF ReachInv

(* The signal: what the handler finds is before it.                                *)
LEMMA SignalReach ==
  ASSUME BaseInv, SoloInv, ShutdownSignal
  PROVE  ReachInv'
<1>0. /\ UNCHANGED <<clients, left, pipelines, process, named, request>>
      /\ clients = "multipipe" /\ signal = "none" /\ snapshot' = Managed /\ found' = Managed
      /\ signal' = "late" => left = {} /\ ~Serving("start")
  BY DEF ShutdownSignal, registry, processes
<1>1. LoopInv /\ Tracked
  BY <1>0 DEF SoloInv
<1>2. Managed' = Managed
  BY <1>0 DEF Managed
<1>3. \A n \in found' : n \notin left' /\ Reached(n)'
  BY <1>0, <1>1 DEF LoopInv, Reached
<1>4. \A r \in Requests : Op(r)' = "start" => Name(r)' \notin found'
  <2>1. \A r \in Requests : Op(r) = "start" => ~At(r, "idle")
    BY IdleAsksNothing DEF BaseInv
  <2> QED
    BY <1>0, <1>1, <2>1 DEF LoopInv, Op, Name
<1>5. ASSUME signal' = "late", NEW p \in Process, process[p] = "running"
      PROVE  named[p] \in Managed
  <2>1. \A r \in Requests : ~Holds(r)
    <3>1. \A r \in Requests : Op(r) \notin {"start", "stop"}
      BY <1>0, <1>1, <1>5 DEF LoopInv, Serving, Op
    <3> QED
      BY <3>1, PointTellsOp DEF Holds, BaseInv
  <2>2. pipelines[named[p]] = p
    BY <1>1, <1>5, <2>1 DEF Tracked
  <2>3. named[p] \in Names /\ p # 0
    BY <1>5, ManagerAssumption DEF BaseInv, SupplyInv, Created, Process
  <2> QED
    BY <2>2, <2>3 DEF Managed
<1> QED
  BY <1>0, <1>2, <1>3, <1>4, <1>5 DEF ReachInv, Serving

(* No action breaks the inductive invariant.                                       *)
LEMMA StepInv == IInv /\ [Next]_vars => IInv'
<1> SUFFICES ASSUME IInv, [Next]_vars
             PROVE  ReachInv'
  BY RegistryStep DEF IInv
<1>0. BaseInv /\ SoloInv /\ ReachInv
  BY DEF IInv, RegistryInv
<1>1. ASSUME NEW r \in Requests, NEW op \in Operation, NEW n \in Names, Arrive(r, op, n)
      PROVE  ReachInv'
  BY <1>0, <1>1, ArriveReach
<1>2. ASSUME NEW r \in Requests, Serve(r)
      PROVE  ReachInv'
  BY <1>0, <1>2, ServeReach
<1>3. CASE ShutdownSignal
  BY <1>0, <1>3, SignalReach
<1>4. CASE (\E p \in Process : Exit(p)) \/ UNCHANGED vars
  <2>1. UNCHANGED <<clients, left, signal, snapshot, found, pipelines, named, request>>
    BY <1>4 DEF Exit, vars, caller, registry
  <2>2. \A q \in Process : process'[q] = "running" => process[q] = "running"
    BY <1>0, <1>4 DEF Exit, vars, BaseInv, TypeOK
  <2> QED
    BY <1>0, <2>1, <2>2 DEF ReachInv, Reached, Managed, Serving, Op, Name
<1> QED
  BY <1>1, <1>2, <1>3, <1>4 DEF Next

(* The strengthened invariant holds initially and every step keeps it.       *)
LEMMA Inductive == Spec => []IInv
<1>1. Init => ReachInv
  BY DEF Init, ReachInv
<1>2. Init => IInv
  BY <1>1, InitBase, InitSolo DEF IInv, RegistryInv
<1> QED
  BY <1>2, StepInv, PTL DEF Spec

(* The registry only ever names processes that were started under that name, and   *)
(* every variable keeps its type.                                                  *)
THEOREM ManagerTypes == Spec => []TypeOK
<1>1. IInv => TypeOK
  BY DEF IInv, RegistryInv, BaseInv
<1> QED
  BY <1>1, Inductive, PTL

(* For any number of concurrent stops, of the same name or of others: the pop       *)
(* hands each process to one of them.                                              *)
THEOREM PopsAreExclusive == Spec => []OneStopper
<1>1. IInv => OneStopper
  BY DEF IInv, RegistryInv, BaseInv, HoldInv, Holds, OneStopper
<1> QED
  BY <1>1, Inductive, PTL

(* Two running processes of one name are the same one.                             *)
LEMMA OneRunning ==
  ASSUME IInv, clients # "concurrent", NEW n \in Names, NEW p \in Running(n), NEW q \in Running(n)
  PROVE  p = q
<1>0. /\ p \in Process /\ process[p] = "running" /\ named[p] = n
      /\ q \in Process /\ process[q] = "running" /\ named[q] = n
  BY DEF Running
<1>1. Exclusive /\ Tracked /\ \A r \in Requests : KnowsName(r)
  BY DEF IInv, RegistryInv, SoloInv
<1>2. \A r \in Requests : Holds(r) =>
        ~At(r, "idle") /\ Name(r) \notin Managed /\ named[request[r].proc] = Name(r)
  BY <1>1 DEF IInv, RegistryInv, BaseInv, HoldInv, Holds, KnowsName, At
<1>3. n \in Managed => pipelines[n] = p /\ pipelines[n] = q
  BY <1>0, <1>1, <1>2 DEF Tracked
<1>4. ASSUME n \notin Managed
      PROVE  p = q
  <2>1. pipelines[n] # p /\ pipelines[n] # q
    BY <1>0, <1>4, ManagerAssumption DEF Managed, Process
  <2>2. PICK r \in Requests : Holds(r) /\ request[r].proc = p
    BY <1>0, <1>1, <2>1 DEF Tracked
  <2>3. PICK s \in Requests : Holds(s) /\ request[s].proc = q
    BY <1>0, <1>1, <2>1 DEF Tracked
  <2>4. r = s
    BY <1>0, <1>1, <1>2, <2>2, <2>3 DEF Exclusive
  <2> QED
    BY <2>2, <2>3, <2>4
<1> QED
  BY <1>3, <1>4

(* As long as no two requests for one name overlap, and under main_multipipe        *)
(* wherever its handler interrupts it: at most one process runs under a name, none  *)
(* runs unknown to the registry and to every request, the stored configuration is    *)
(* the running one's, and the handler reaches every pipeline but those that were      *)
(* registered after an early signal.                                                *)
THEOREM RegistryIsSound == Spec => []RegistryAgrees
<1>1. IInv => RegistryAgrees
  <2> SUFFICES ASSUME IInv, clients # "concurrent"
               PROVE  UniqueName /\ NoOrphan /\ ShutdownReaches /\ (clients = "serial" => ConfigKept)
    BY DEF RegistryAgrees
  <2>1. ASSUME NEW n \in Names
        PROVE  Cardinality(Running(n)) <= 1
    <3>1. CASE Running(n) = {}
      BY <3>1, FS_EmptySet
    <3>2. CASE Running(n) # {}
      <4>1. PICK p : p \in Running(n)
        BY <3>2
      <4>2. Running(n) = {p}
        BY <2>1, <4>1, OneRunning
      <4>3. Cardinality({p}) = 1
        BY FS_Singleton
      <4> QED
        BY <4>2, <4>3
    <3> QED
      BY <3>1, <3>2
  <2>2. NoOrphan
    <3> SUFFICES ASSUME NEW p \in Process, process[p] = "running", pipelines[named[p]] # p
                 PROVE  Busy(named[p])
      BY DEF NoOrphan
    <3>1. PICK r \in Requests : Holds(r) /\ request[r].proc = p
      BY DEF IInv, RegistryInv, SoloInv, Tracked
    <3> QED
      BY <3>1 DEF IInv, RegistryInv, BaseInv, HoldInv, Holds, Busy, At, Name
  <2>3. clients = "serial" => ConfigKept
    <3>1. \A n \in Names : ~Busy(n) => Settled(n)
      BY DEF Busy, Settled, Name
    <3> QED
      BY <3>1 DEF IInv, RegistryInv, SoloInv, ConfigKept, ConfigOf
  <2>4. Managed \cap external = {}
    BY DEF IInv, RegistryInv, SoloInv
  <2>5. ShutdownReaches
    <3> SUFFICES ASSUME signal # "none", NEW p \in Process, process[p] = "running"
                 PROVE  Reached(named[p]) \/ (signal = "early" /\ named[p] \notin found)
      BY DEF ShutdownReaches, Reached
    <3>1. ReachInv /\ BaseInv /\ Tracked
      BY DEF IInv, RegistryInv, SoloInv
    <3>2. named[p] \in Names /\ p # 0
      BY <3>1, ManagerAssumption DEF BaseInv, SupplyInv, Created, Process
    <3>3. CASE named[p] \notin found
      BY <3>1, <3>3 DEF ReachInv, BaseInv, TypeOK
    <3>4. CASE named[p] \in found /\ pipelines[named[p]] = p
      BY <3>1, <3>2, <3>4 DEF ReachInv, Managed
    <3>5. CASE named[p] \in found /\ pipelines[named[p]] # p
      <4>1. PICK r \in Requests : Holds(r) /\ request[r].proc = p
        BY <3>1, <3>5 DEF Tracked
      <4>2. Name(r) = named[p]
        BY <3>1, <4>1 DEF BaseInv, HoldInv
      <4>3. Op(r) = "stop"
        BY <3>1, <3>5, <4>1, <4>2, PointTellsOp DEF ReachInv, Holds, BaseInv
      <4> QED
        BY <4>2, <4>3 DEF Reached
    <3> QED
      BY <3>3, <3>4, <3>5
  <2> QED
    BY <2>1, <2>2, <2>3, <2>4, <2>5 DEF UniqueName
<1> QED
  BY <1>1, Inductive, PTL
=============================================================================
