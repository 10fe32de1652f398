------------------------------ MODULE Routing ------------------------------
(***************************************************************************)
(* From a pipeline's configuration to its wired mailboxes and node          *)
(* instances: load_config, validate_pipeline_config, RoutingFactory and     *)
(* NodeFactory, as the three drivers call them (main, BasePipeline.run and   *)
(* the voice launcher).                                                      *)
(*                                                                         *)
(* A mailbox is the pair of its node's id and its replica number; it stands  *)
(* for its consume port and its control port too.  The scalar checks of a    *)
(* node (error_policy, autoscale, health, queue policy) are one field, and so *)
(* is what from_config asks of the node's own parameters.                     *)
(***************************************************************************)
EXTENDS Integers, Sequences, SequencesExt

CONSTANTS
  Configs,      \* raw configurations: sequences of node entries
  Importable,   \* types of NODE_IMPORTS whose optional extra is installed
  Drivers       \* who builds the pipeline: subset of {"main", "service", "voice"}

\* An id is a string; suffix holds the numbers of the "#<number>" it ends in, so that
\* the id "a#0" of a configuration is the very string that names a replica of "a".
Id == [name : STRING, suffix : Seq(Nat)]
Replica(id, i) == [id EXCEPT !.suffix = Append(@, i)]       \* f"{node_id}#{i}"
Plain(name) == [name |-> name, suffix |-> <<>>]

\* NodeSpec: what a node entry parses to.  The schema coerces replicas to an integer;
\* written is how the YAML has it, and that is what the wiring reads.
NodeSpec ==
  [id : Id, type : STRING, outputs : Seq(Id), control_outputs : Seq(Id),
   replicas : Int, written : {"int", "float", "str"}, scalars : BOOLEAN, params : BOOLEAN]

ASSUME RoutingAssumption ==
  Configs \subseteq Seq(NodeSpec) /\ Drivers \subseteq {"main", "service", "voice"}

VARIABLES
  driver,
  nodes,      \* config["nodes"]
  phase,      \* "load" | "route" | "data" | "control" | "build" | "built", or how it failed:
              \* "rejected" by the schema | "uncounted" | "unwired" | "unbuilt" (it raised)
  next,       \* index of the node entry the current loop is at; past the last at its end
  mailboxes,  \* node id -> number of replica mailboxes
  pubs,       \* mailbox -> target id -> ports its one PUSH socket is connected to
  controls,   \* mailbox -> target id -> control ports, one PUSH socket each
  built       \* node instances, as [id, mailbox, policy]

routingVars == <<driver, nodes, phase, next, mailboxes, pubs, controls, built>>

Entries == {nodes[i] : i \in DOMAIN nodes}
Ids == {e.id : e \in Entries}

-----------------------------------------------------------------------------
(* NodeFactory: a few of the registered types, with the payloads their        *)
(* classes accept and emit.                                                   *)
NODE_IMPORTS == {"HashNode", "VadNode", "AsrNode", "ProcessDetBatchInference"}
Accepts == [HashNode |-> {"Frame"}, VadNode |-> {"AudioChunk"}, AsrNode |-> {"AudioChunk"},
            ProcessDetBatchInference |-> {"Frame"}]
Emits == [HashNode |-> {"Frame"}, VadNode |-> {"AudioChunk"}, AsrNode |-> {"TextChunk"},
          ProcessDetBatchInference |-> {"Frame"}]

(* config_schema: PipelineConfig._check_graph and the checks it calls.        *)
Duplicates == \E i, j \in DOMAIN nodes : i # j /\ nodes[i].id = nodes[j].id

Entry(id) == CHOOSE e \in Entries : e.id = id

TypesKnown == \A e \in Entries : e.type \in NODE_IMPORTS /\ e.type \in Importable

CheckOutput(e, target) ==
  /\ target \in Ids
  /\ Emits[e.type] \cap Accepts[Entry(target).type] # {}

CheckNode(e) ==
  /\ \A t \in ToSet(e.outputs) : CheckOutput(e, t)
  /\ ToSet(e.control_outputs) \subseteq Ids
  /\ e.scalars
  /\ e.replicas >= 1

Valid == ~Duplicates /\ TypesKnown /\ \A e \in Entries : CheckNode(e)

-----------------------------------------------------------------------------
RoutingInit ==
  /\ driver \in Drivers
  /\ nodes \in Configs
  /\ phase = "load"
  /\ next = 1
  /\ mailboxes = <<>> /\ pubs = <<>> /\ controls = <<>>
  /\ built = {}

Validate ==
  /\ phase = "load"
  /\ phase' = IF Valid THEN "route" ELSE "rejected"
  /\ UNCHANGED <<driver, nodes, next, mailboxes, pubs, controls, built>>

\* The mailboxes of a node id.
Group(id) == {id} \X (0..(mailboxes[id] - 1))

\* `replicas <= 1` and range(replicas) of the value as written: a string fails in the
\* one, a float above 1 in the other.
Countable(e) == e.written = "int" \/ (e.written = "float" /\ e.replicas <= 1)

\* _create_replica_mailboxes: `replicas <= 1` makes one mailbox.
CreateMailboxesRaises ==
  /\ phase = "route" /\ \E e \in Entries : ~Countable(e)
  /\ phase' = "uncounted"
  /\ UNCHANGED <<driver, nodes, next, mailboxes, pubs, controls, built>>

CreateMailboxes ==
  /\ phase = "route" /\ \A e \in Entries : Countable(e)
  /\ LET replicas == [id \in Ids |-> IF Entry(id).replicas <= 1 THEN 1 ELSE Entry(id).replicas]
         all == UNION {{id} \X (0..(replicas[id] - 1)) : id \in Ids}
     IN  /\ mailboxes' = replicas
         /\ pubs' = [m \in all |-> <<>>]
         /\ controls' = [m \in all |-> <<>>]
  /\ phase' = "data"
  /\ UNCHANGED <<driver, nodes, next, built>>

\* A loop over the node entries is through: the next one begins.
After == [data |-> "control", control |-> "build", build |-> "built"]

EndLoop ==
  /\ phase \in DOMAIN After /\ next > Len(nodes)
  /\ phase' = After[phase]
  /\ next' = 1
  /\ UNCHANGED <<driver, nodes, mailboxes, pubs, controls, built>>

\* _require_target raises when an edge leads nowhere.
MissingTarget(targets) == \E t \in ToSet(targets) : t \notin DOMAIN mailboxes

\* add_publisher: one PUSH socket per target id, connected to every replica's port;
\* a target named twice only finds its ports connected already.
\* Faulty variant: only the first replica's port is connected.
AddPublishersFirst(e) == [t \in ToSet(e.outputs) |-> {<<t, 0>>}]
AddPublishers(e) == [t \in ToSet(e.outputs) |-> Group(t)]

WireDataOutputs ==
  /\ phase = "data" /\ next <= Len(nodes)
  /\ LET e == nodes[next]
     IN  IF MissingTarget(e.outputs)
         THEN phase' = "unwired" /\ UNCHANGED <<next, pubs>>
         ELSE /\ pubs' = [m \in DOMAIN pubs |-> IF m \in Group(e.id) THEN AddPublishers(e) ELSE pubs[m]]
              /\ next' = next + 1 /\ phase' = phase
  /\ UNCHANGED <<driver, nodes, mailboxes, controls, built>>

\* add_control_publisher: a socket of its own for every replica's control port, and
\* again for a target named twice.
AddControlPublishers(e) ==
  [t \in ToSet(e.control_outputs) |->
     [m \in Group(t) |-> Cardinality({i \in DOMAIN e.control_outputs : e.control_outputs[i] = t})]]

WireControlOutputs ==
  /\ phase = "control" /\ next <= Len(nodes)
  /\ LET e == nodes[next]
     IN  IF MissingTarget(e.control_outputs)
         THEN phase' = "unwired" /\ UNCHANGED <<next, controls>>
         ELSE /\ controls' = [m \in DOMAIN controls |->
                                IF m \in Group(e.id) THEN AddControlPublishers(e) ELSE controls[m]]
              /\ next' = next + 1 /\ phase' = phase
  /\ UNCHANGED <<driver, nodes, mailboxes, pubs, built>>

\* from_config: the batch nodes pass the whole entry on as keyword arguments, and of
\* the wiring's keys control_outputs is still in it; the others pick what they need.
Constructs(e) == e.params /\ (e.type = "ProcessDetBatchInference" => e.control_outputs = <<>>)

\* NodeFactory.create: the node and its error policy get the config's id, or the type
\* where that is empty.
Called(e) == IF e.id = Plain("") THEN Plain(e.type) ELSE e.id
Create(e, m) == [id |-> Called(e), mailbox |-> m, policy |-> Called(e)]

\* _build_nodes of main and the loop of BasePipeline.run: a replica is renamed, its
\* error policy is not.
\* Faulty variant: replicas keep the config's id.
InstancesUnnamed(e) == {Create(e, m) : m \in Group(e.id)}

Instances(e) ==
  {[Create(e, m) EXCEPT !.id = IF mailboxes[e.id] > 1 THEN Replica(e.id, m[2]) ELSE @] : m \in Group(e.id)}

\* The voice launcher builds one node, on the first mailbox of each id.
Launched(e) == {Create(e, <<e.id, 0>>)}

BuildNodes ==
  /\ phase = "build" /\ next <= Len(nodes) /\ Constructs(nodes[next])
  /\ LET e == nodes[next]
     IN  built' = built \cup (IF driver = "voice" THEN Launched(e) ELSE Instances(e))
  /\ next' = next + 1
  /\ UNCHANGED <<driver, nodes, phase, mailboxes, pubs, controls>>

BuildRaises ==
  /\ phase = "build" /\ next <= Len(nodes) /\ ~Constructs(nodes[next])
  /\ phase' = "unbuilt"
  /\ UNCHANGED <<driver, nodes, next, mailboxes, pubs, controls, built>>

RoutingNext ==
  \/ Validate \/ CreateMailboxes \/ CreateMailboxesRaises
  \/ WireDataOutputs \/ WireControlOutputs \/ BuildNodes \/ BuildRaises \/ EndLoop

RoutingSpec == RoutingInit /\ [][RoutingNext]_routingVars

-----------------------------------------------------------------------------
(* A configuration the schema accepts fails later for two reasons only: replicas *)
(* is not written as an integer, although it parses to one, or from_config       *)
(* refuses an entry.  Otherwise every replica of a producer spreads its messages  *)
(* over all replicas of each target, through one socket, and reaches all of them  *)
(* with a cancellation.                                                          *)
WiringFollowsConfig ==
  /\ phase # "unwired"
  /\ phase = "uncounted" => \E e \in Entries : e.written # "int"
  /\ phase = "unbuilt" => ~Constructs(nodes[next])
  /\ phase = "built" =>
       \A e \in Entries, m \in DOMAIN pubs :
         m[1] = e.id =>
           /\ DOMAIN pubs[m] = ToSet(e.outputs)
           /\ \A t \in ToSet(e.outputs) : pubs[m][t] = {p \in DOMAIN pubs : p[1] = t}
           /\ \A t \in ToSet(e.control_outputs), p \in DOMAIN pubs :
                p[1] = t => p \in DOMAIN controls[m][t] /\ controls[m][t][p] > 0

\* Every mailbox has its node.
Served == {b.mailbox : b \in built} = DOMAIN pubs

\* The ids the program makes up for the instances of an entry.
MadeUp(e) ==
  IF driver # "voice" /\ mailboxes[e.id] > 1 THEN {Replica(e.id, i) : i \in 0..(mailboxes[e.id] - 1)}
  ELSE IF e.id = Plain("") THEN {Plain(e.type)} ELSE {}

(* Every mailbox messages are sent to has a node that reads it (the voice         *)
(* launcher's only when nothing is replicated), no two nodes read one mailbox, and *)
(* no two nodes share an id, unless the configuration itself calls one node what   *)
(* the program calls an instance of another: "a#0" beside two replicas of "a".     *)
EveryMailboxServed ==
  phase = "built" =>
    /\ (driver # "voice" \/ \A e \in Entries : e.replicas = 1) => Served
    /\ \A a, b \in built : a # b =>
         /\ a.mailbox # b.mailbox
         /\ a.id = b.id => \E e, f \in Entries : e # f /\ f.id = a.id /\ a.id \in MadeUp(e)

(* README: replica instances are named `<id>#0`, `<id>#1`, ... "so per-node       *)
(* metrics, health and dead-letter records never collide across replicas".       *)
RecordsDoNotCollide ==
  phase = "built" => \A a, b \in built : a # b => a.policy # b.policy

(* _build_nodes: "each with a distinct id".                                       *)
IdsAreDistinct ==
  phase = "built" => \A a, b \in built : a # b => a.id # b.id

(* config_schema: a bad configuration "fails fast and legibly at startup", with   *)
(* a ConfigError that names the node; the wiring raises no TypeError after it.    *)
AcceptedIsWired == phase # "uncounted"

(* NodeSpec: control_outputs are edges, "Wired by RoutingFactory"; a node is not   *)
(* refused because it has them.                                                   *)
ControlEdgesAreTaken == phase = "unbuilt" => ~nodes[next].params
=============================================================================
