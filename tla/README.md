# A TLA+ model of the neudc pipeline runtime

neudc (`src/neudc`) runs data pipelines described in YAML: a graph of *nodes*, each a
thread or a child process, that hand messages to each other over ZeroMQ sockets. This
directory models the runtime under the nodes (mailboxes, run loops, error policies,
replicas, pipeline start-up and shutdown, the service that starts and stops pipelines) and
the two pipelines that run on it: the voice assistant and the image labelling chain, down
to the memory its networks answer in and the files its results are reviewed in. TLC checks
everything on small instances; TLAPS proves all but one of the safety invariants for every
instance: of the runtime (mailboxes and the edge they implement, nodes, their wiring,
pipelines, the service manager, replicas, the acknowledged queue), of the labelling chain, its
detector and the networks' buffers, of the review state, and of the voice assistant's turns.

## Inventory

| Component | State | Operations | Hard behaviour | What makes it correct |
|---|---|---|---|---|
| Mailbox (`zmq_mailbox.py`) | `_message_queue`, `_running`, `_cancelled_turns`, two receiver threads, sockets | `send`, `send_control`, `receive`, `stop`, `__getstate__`/`from_state` | a receiver thread evicts while the node receives; a full queue holds the thread; the mailbox of a process node is rebuilt in the child | order per producer, every loss counted, lossless `block`, freshest kept otherwise, cancellation overtakes data, threads end |
| ZeroMQ edge (`zero_queue/`) | socket buffers up to a high-water mark, connected ports | `put_bytes`, `get` with timeout, close | a full edge blocks the producer without a timeout; closing loses the buffers | as used by the mailbox |
| Node loop (`base_node.py`, `base_process.py`) | `is_running`, `_stop_event`, `_failed_event`, health | `_run`/`run`, `_handle`, `_send_item`, `stop` | stop and cancel at any program point | stop ends the loop, a failed node takes nothing more |
| Error policy and dead letters (`policy/`) | attempt, items yielded, `ErrorStats` | `execute`, `_execute_generator`, `_give_up`, `record` | retry of a stream, stop in a backoff, one step of several raising | no output twice, counters add up, retries bounded |
| Drivers (`base_pipeline.py`, `entrypoints/main.py`, `run_voice_assistant.py`) | list of nodes, stop event | build, start, watch, stop | failure during start-up or under backpressure, late readiness, signals | no send before listening, failure reaches all, shutdown ends |
| Configuration, routing, node factory (`config_schema.py`, `routing_factory.py`, `node_factory.py`) | mailboxes, publishers, instances | validate, create mailboxes, wire, create nodes | replicas, duplicate or dangling edges | an accepted configuration wires as written or fails for a stated reason, each mailbox has one node |
| Service manager and routes (`service/pipeline_manager.py`, `routes/pipelines.py`), `main_multipipe.py` | `pipelines`, `external_pipelines`, `pipeline_nodes_configs` | start, stop, register, unregister, the signal handler | requests on a thread pool, without a lock, around slow process calls; a handler inside the start loop | unique names, configuration agrees with the process, every process registered or in a request's hands |
| Codec and shared memory (`messaging/codec.py`) | segments | `dumps`, `loads` | a message lost or decoded twice | one owner at a time |
| Autoscaler (`utils/autoscaler.py`) | thread, event, replicas | `start`, `stop`, `check_and_scale` | restart before the old thread ends | replicas in range, loops end |
| REQ/REP queue (`zero_queue/queue_transfer.py`) | sockets, deque | `put`, `put_nowait`, `get` | resend after a late acknowledgement | at least once, `put` in order |
| Voice chain (VAD, ASR, LLM, tool, TTS, player nodes) | per-turn buffers, history, timers | `process` of each | barge-in across five nodes | nothing of a cancelled turn is heard, no turn is cut by another |
| Vision chain (reader, filters, batching, embeddings, active learning) | batches, folders | `process`, collecting threads | partial batches, completion of a folder | every frame has one known fate, selection after completion |
| Label review and dataset (`service/api/labels.py`, `create_dataset_mixin.py`) | label files, review manifest | save, list, get | read-modify-write without a lock, torn files | no review lost or invented |
| Detector (`sahi.py`, `op.py`) | crops, buffer of detections | slice, letterbox, decode, suppress | borders, rounding, overlap, full buffer | when slices cover, what suppression and a full buffer may drop |
| Backends (`nn/backends/`) and models | pinned and device buffers, stream, result arrays | `__call__` | asynchronous copies, shared result buffers, failed calls, refused enqueues | when a call answers its own input |
| Echo canceller, audio devices, tools, metrics, node catalog, dashboard | - | - | - | see *Not modelled* |

The components meet like this. A driver builds the mailboxes (`RoutingFactory`) and the nodes
(`NodeFactory`), starts the nodes and polls `failed()`. A node's loop calls `mailbox.receive`, wraps
`process` in its `ErrorPolicy` and calls `mailbox.send`, which encodes the message and pushes it to
the mailboxes downstream; a control message marks a turn as cancelled in every mailbox it reaches,
and loop and policy ask `is_cancelled`. The service runs each pipeline as a `BasePipeline` process
and stops it through an event. A model node's `process` calls a model, the model a backend. The last
node of the labelling chain writes files that the service's review routes read and correct.

## Modules

| Module | Models | Written for |
|---|---|---|
| `Mailbox` | one `ZMQMailbox`: producers, both receiver threads, `receive`, `stop`, hand-off to a child process; the mapping to `Edge` | TLC and proof |
| `HandOff` | `Mailbox` with a receiver thread that outlives the hand-off to the child | TLC, by hand |
| `Edge` | the abstract promise of an inbound edge, lossless or lossy | refinement |
| `MailboxProofs` | the inductive invariant of `Mailbox`, its theorems and the refinement of `Edge` | TLAPS |
| `Node` | one node's run loop with `_handle`, `ErrorPolicy`, `DeadLetterSink`, `stop`, cancellation, health | TLC and proof |
| `NodeProofs` | the inductive invariants of `Node` and `Routing`, and their theorems | TLAPS |
| `Pipeline` | a chain of nodes and its driver: `main`, `BasePipeline.run`, the voice launcher, its smoke run | TLC and proof |
| `PipelineProofs` | what start-up waits are worth | TLAPS |
| `PipelineManager` | the manager's dictionaries, the four routes that change them or `main_multipipe` with its handler, pipeline processes | TLC and proof |
| `ManagerProofs` | who owns a process, and the agreement of registry, processes and configurations | TLAPS |
| `Routing`, `MCRouting` | from a configuration to wired mailboxes and node instances | TLC and proof |
| `Replicas` | one producer's edge to a group of replicas: codec, PUSH socket, receivers, autoscaler | TLC and proof |
| `ReqRep` | the acknowledged queue | TLC and proof |
| `TransportProofs` | of `Replicas`, the autoscaler's lock and the ownership of segments; of `ReqRep`, the way of one item | TLAPS |
| `Voice` | the nodes vad, asr, llm, tool, tts and player of the voice assistant and the control channel between them | TLC and proof |
| `VoiceProofs` | the inductive invariants of `Voice` and three theorems | TLAPS |
| `Vision`, `MCVision` | the labelling chain of `assets/configs/pipeline.yaml` | TLC and proof |
| `Dataset` | the dataset directory, its writer and the review routes | TLC and proof |
| `DatasetProofs` | of `Vision`, where every frame is; of `Dataset`, where review marks come from and where they are kept | TLAPS |
| `Detection`, `MCDetection` | one call of `SAHIDetector` | TLC and proof |
| `Inference` | the three backends under the four models, and what callers keep of the results | TLC and proof |
| `ModelProofs` | the inductive invariants of `Detection` and `Inference`, and their theorems | TLAPS |

Four of the proof modules extend two models that belong together. So that one module can extend
both, one model of each pair names its specification after itself: `RoutingSpec`, `QueueSpec`
(`ReqRep`), `BackendSpec` (`Inference`) and `ReviewSpec` (`Dataset`), with `RoutingInit`,
`RoutingNext`, `routingVars` and so on; the others have a plain `Spec`.

`PROJECT.json` maps every definition to its lines. Operators described as a *faulty
variant* are what a plausible bug would make of the definition they precede; they are in
no specification and serve to show that each property can fail.

### Mailbox

A message is its producer and its number on that edge. Each access to the shared
`queue.Queue` is an action: `LoopCheck` and `Get` are the halves of one pass of
`_receiver_loop`; `BlockCheck`/`BlockPut`, `DropTry`/`DropEvict`/`DropRetry` and
`ConflateDrain`/`ConflatePut` are the steps of the three `_enqueue_*` methods, so
`Receive` can come between any two of them. `Stop` and `Close` are the two halves of
`stop()`, whose joins time out. `ProcessNodeInit` and `FromState` carry a process node's
mailbox to the child by `__getstate__` and `__setstate__`, with the queue size they
really store. The wire is external: FIFO per producer, full at `HighWaterMark`.

`from_state` begins with `cls()`, whose two threads it stops with joins that can time out, and
`__setstate__` then sets `_running` again. `FromState` assumes that these threads are gone by
then: each polls for one `_join_timeout`, on ports that nobody has been told of, so that it would
have to be stalled past both joins and the rebinding to find `_running` true again. `HandOff` drops
the assumption (`FromStateLate`): the old thread goes on, as a second `_receiver_loop`, beside the
new one, and a producer's order is lost.

`Edge` says what an edge promises: accept, deliver a producer's oldest message, discard a
producer's oldest message while another one waits (lossy edges only, and counted), shut, and
lose messages in any other way only once shut. A producer's waiting messages are a set, ordered
by their numbers; in the mapping (`edge_pending`) they are its messages in the queue, in the
receiver thread's hand and on the wire.

### Node

The loop's program counter follows `_run`/`run`, `_handle` and `execute` or
`_execute_generator`. What `process()` does is a free choice: it returns something or
nothing, yields, raises. `FailedAttempt` is the decision both `except` clauses share.
`Raise` is the policy's, `SendRaisesInThread` and `SendRaisesInProcess` are the two
`_send_item` methods, which differ. `GiveUp` is `_give_up` with the `NodeFailure` clause of
`_handle`; `Record` is the sink, which writes a record or swallows an `OSError`, and
`DeadLettered` what `dead_lettered` is raised by in either case. `tally` is history: the records
written and not written, and outcomes that `ErrorStats` does not count.

### Pipeline

The driver's phases are start, watch, stop, exit, and done or killed. `Before` and
`MayStart` give the order of starts: `main` starts processes first and waits for their
readiness (`ReadyTimeout`: "starting anyway"); `BasePipeline.run` keeps the order of the
config and does not wait. The voice launcher waits for a signal alone, and its smoke run
ends by itself; a signal that cuts the smoke run short (`CutShort`) leaves while its nodes
are being stopped. Edges hold `Capacity` messages and a send on a full one blocks.
`Interrupted` is what stopping a threaded node's mailbox does to its blocked send;
nothing of the kind exists for process nodes. `Exited` is the interpreter joining its
children at exit. Crashes, failed starts, signals and the manager's `terminate` come at
any moment.

### PipelineManager

Each route is cut at every access to shared state: the check of the name, the spawn of
the process, the insert, the store of the configuration; the check, the pop, the join
with its timeout, `terminate`, the drop of the configuration. With `clients = "serial"` no
two requests for one name are under way at once; with `"concurrent"` nothing is assumed;
`"multipipe"` is `main_multipipe`, whose loop starts one pipeline after the other and whose
signal handler interrupts it at any of these points and stops a snapshot of the registry;
`found` remembers that snapshot. A pipeline that the loop registers after an early signal runs on,
and no part of the service will stop it; `ShutdownReaches` says that no other one is overlooked.

### Routing

One action per node entry in each of the loops of `RoutingFactory` and of the driver, after
`Validate` has accepted or rejected the configuration; `EndLoop` goes on to the next loop when
the entries are through, at once for an empty configuration. `pubs` keeps the ports the one PUSH
socket of an edge is connected to, `controls` a count of sockets per control port, since
`add_control_publisher` makes a new one each time.

An id is a string; it is modelled as a name with the numbers of the `#<number>` it ends in, so
that a configured `a#0` and the instance `Replica(a, 0)` of a replicated `a` are one id. The
schema coerces `replicas` to an integer while the wiring reads the raw entry: `written` is how it
stands there, and `CreateMailboxesRaises` is the `TypeError` of a string, or of a float above one.
`message_queue_size` and the health settings have the same gap and are not modelled: a string
`message_queue_size` passes the schema and makes every put raise in the receiver thread, which logs
the error and goes on. `BuildRaises` is a `from_config` that refuses its entry: for a parameter of
its own (`params`), or, in the batch nodes, whose `from_config` is `cls(**config)`, for the
`control_outputs` that `NodeFactory.create` leaves in.

### Replicas

`UseShm` is `send`'s condition for the shared-memory codec: one target, whose replicas share
a socket. `Dumps`, `PutBytes`, `Loads` carry a message and its segments; `DumpsFails` and the
failing half of `Loads` are the exceptions. `Check`, `ScaleUp`/`ScaleDown` and `Release` are
`check_and_scale` under its lock, in as many loops as `Start` and `Stop` have left running.
`leaked` is history: who left a segment behind.

### ReqRep

`PutTimeout` and `PutNowaitFull` throw the REQ socket away, and what it had sent becomes
`stale`: the consumer may read it at any later moment, before or after the resend. `bound`
says which side chose the port; a producer that bound its own connects to it after the first
reset, and `linked` is then false for ever, as nobody listens there. When the consumer's caller
reads is its own affair: nothing makes it faster than the producer's poll.

### Voice

The nodes of `voice_assistant_pipeline.yaml` on top of what `Mailbox` and `Node` show: inboxes
are lossless FIFOs (the `block` policy) and an exception skips the message (the default error
policy). `Hear` is `VadFilterMixin.process`; what the echo canceller leaves of a chunk is
silence, soft (speech, below the barge-in threshold) or loud, so the player's reference blocks,
which feed only the canceller, are left out. `DeliverCancel` is the control thread of each of
the four mailboxes, at its own time. `AsrBuffer`/`AsrFlush`, `LlmTake` to `LlmRaise`,
`ToolProcess` and `TtsProcess` are the `process` methods of the mixins, cut at every item they
yield; a check of the cancelled turns and the item that follows it are one step, because nobody
else sees a cancellation that arrives in between. In the player they are two, since a block
takes time to write. `Fire` is a timer thread, `ToolFlush` and `ToolReceive` the tool node's
`_collect_data`.

Text is a sequence of pieces with their turn, their place in the reply and a kind: text, the
opening or the closing of a tool-call marker, or a tool's result. Which spans from an opening
to a closing match `_TOOL_CALL_RE` is a free choice among those that do not overlap;
`Leftovers` are then stripped, as with the tools configured. A piece is never half a bracket, so
the lone trailing `[` of `_incomplete_marker_start` does not occur. `said`, `sent`, `cut`, `late`
and `outcome` are history.

### Vision

`ReadFrame` to `CreateDatasetProcess` are the `process` methods along the chain. A batch node has
two programs: its run loop and the thread of `_collect_batch`, whose steps are `CollectFrame`,
`CollectDone`, `CollectPut`, `CollectFull` and `CollectExit`. Whether a frame is a
near-duplicate, blurred, in which cluster, and how it scores are free choices within what the
code allows them to be. A scenario fixes the mode of the readers and the one kind of trouble a
behaviour may meet, so that a loss can be told from its cause: `EmbeddingRaise` is a model that
raises before anything is cached, a `zip(strict)` that raises with the front of the batch cached,
or a clustering that raises with the folder's caches already emptied; `DetectRaise` loses its batch.
The filters flag frames and pass every one on, as the code does; their docstrings say otherwise
(see below); `settled`, `lost` and `flagged`
are history. `FramesAccounted` counts positions, not only keys: `Slots(p)` are the frames at a
place with where they stand there, so that a frame twice in one queue is seen too.

### Dataset

Each file is opened (and so truncated) in one step and written in a later one, so another
request, the node, a stop of the pipeline or a crash of the service finds it empty in between.
Boxes are abstracted to who wrote them.

### Detection

Sizes are whole pixels and ratios exact fractions, in which the code's `round` is Python's,
halves to even. The geometry (`Letterbox`, `NSteps`, `Starts`, `Slices`) is computed per axis;
`NmsStep` is one turn of `apply_nms`' loop. What the network reports is an input. `Construct`
keeps what the code checks the overlap against, the crop size it was passed, so that the step of
`NSteps` may be zero, which raises, or negative, which cuts too few slices or none. `StoreCrop`
writes a crop's detections into what is left of the buffer: what does not fit raises, but a single
row is broadcast into the empty slice and is gone.

### Inference

A row of a result is named by the input row it was computed from, so that a row of another
call is another number. `Stage`, `Launch` and `Synchronize` are a TensorRT or CUDA call;
`StreamStep` is the GPU, which executes the queued operations in order, whenever it likes.
`LaunchRaises` leaves operations on the stream. `LaunchRefused` is an `execute_async` that returns
`False`, which the code ignores: the copy back then returns what the output buffer held. `Stage`
counts elements as the host setter does (`Elements`, `Fits`): rows of another length than the
engine's (`~Aligned`) run into one another. `kept` holds views of arrays (`emb_cache`,
SAHI's chunks), which are read when the caller reads them.

## Runs

| Run | Bounds | Shows |
|---|---|---|
| `mailbox` | 2 producers x 2 messages, queue of 2, high-water mark 2, 1 turn, every policy, threaded and process home | order (`PerProducerOrder`), loss accounting, lossless `block`, one queued under `conflate`, drops only of stale messages (`NothingLostSilently`), threads end, cancellation not behind data, delivery under `block`, and refinement of `Edge` |
| `node` | 2 messages, 2 items per stream, 1 retry, both kinds, every policy, sends and records that raise, records not written | counters add up, no duplicate or reordered output and at most one item after a cancellation (`OutputSound`), at most one message after stop and none after a failure (`StopQuiet`), stop and `fail` end the loop (`LoopEnds`), every message settles |
| `pipeline` | every chain of 3 threads or processes, edges of 1, four drivers, every fault | no send before listening, a failure reaches every node, shutdown ends unless a process node is stuck in a send, process nodes that were told to stop end even after a kill (`ToldProcessesEnd`) |
| `manager` | 2 names, 2 requests at once, 2 processes, three kinds of clients | serial clients: unique names, right configuration, no process without an entry or a request, and what a shutdown may overlook (`RegistryAgrees`); any clients: one stopper per process, a stopped process ends |
| `routing` | the empty configuration and every pair of node entries out of a set with each mistake, replicas the schema coerces and an id that looks like a replica's, up to 2 replicas, three drivers | accepted configurations wire as written and fail only for the reasons named; each mailbox has its node, and ids collide only where the configuration asks for it |
| `replicas` | 3 ports, pool of 1 to 2, 2 messages of up to 2 segments, 2 overlapping loops | segments have one owner, the pool keeps its bounds, stopped loops end |
| `reqrep` | 4 items, deque of 2, 2 stale requests | at least once, `put` in order, losses only from a full deque, `put` returns while the consumer is in time now and then |
| `voice` | 2 turns, 4 microphone chunks, replies of up to 2 pieces, 1 reminder, streamed and whole replies | utterances, replies and markers of different turns are never mixed, barge-in cuts playback within a block, no question is forgotten |
| `vision` | folders of 2 and 1 images, batches of 2, batch queue of 1, five kinds of trouble; one looping folder | every frame has one known fate and no flagged frame is saved (`DatasetSound`), selection happens, collecting threads end |
| `dataset` | 2 frames, 3 requests, 2 runs of the pipeline, 1 crash | reviewed frames were corrected; without overlapping saves no mark is lost |
| `detection` | images up to 9x9, 4 detector sizes, 3 crop sizes, 20 overlaps; 5 crops with up to 4 detections, `max_det` 3 | when slices cover, sizes agree, letterbox maps back within a pixel, failures only for named reasons; a detection gives way only to a better one, to the limit, or alone to a full buffer |
| `inference` | engine batch 2, engine rows of 2 elements and inputs of 1 to 3, SAHI batch 2, up to 3 rows per call, 4 backend calls | a call returns what was computed from its input; rows kept over calls are what was stored, but for the ways of TensorRT that the properties name |

**Bounds.** The queue and the high-water mark are two and two producers share them, so that the
queue fills, is evicted from and drained in between, and an edge blocks. Two messages and two items
let a message follow a failed one and a stream fail after its first item; one retry tells the first
attempt from the last. In three nodes there is one with both a producer and a consumer, and edges of
one block soonest. Two requests are enough for every pairwise race on a name, with the other name
free to interleave; in `dataset` the third reads while two save. Three ports let a replica be
removed and another added while messages wait on both. Four items are twice the deque, so it
overflows from both ends. In the voice run two turns are the cancelled one and the one that
interrupts it, four chunks are speech, silence, speech, silence, and two pieces are the two halves
of a marker. In the vision run three frames and batches of two put the end of one folder and the
start of another in one batch. Nine pixels are more than two crops of the largest size that still
slices. Four backend calls fill a cache over three calls and then overwrite it. No symmetry is used:
most runs check liveness, and turns, items and frames are ordered. The voice run has two million
states, too many for its liveness; `NoQuestionForgotten` states it at rest instead: whenever all
nodes wait, every transcribed question has been answered, or cancelled, or something failed.

**Deadlock** checking is off in all runs: a stopped mailbox, node or pipeline has nothing
left to do, and the bounds on messages, processes, requests and calls end the others. Getting
stuck is the subject of the liveness properties instead.

**Fairness.** Weak fairness of each thread, of each node's loop, of the driver and of each request:
the operating system schedules them, and what they wait for is bounded by a timeout (`join`, `poll`,
`put(timeout=...)`, the backoff), with `process()` and the autoscaler's callbacks assumed to return.
No fairness is given to producers, signals, failures, crashes, cancellations, models that raise or
the call of `stop()`. A blocked `put_bytes` has no timeout, so `Unblocked` in `Node` is fair only
inside `MessageSettles`, and `Receive` in `Mailbox` only inside `EveryMessageDelivered`, as their
stated premises. `put` of `ReqRep` returns only if the consumer is in time now and then: that of
infinitely many requests of sockets in use it reads some, and of infinitely many answers some come
before the 100 ms poll ends. Nothing in the code gives this, so it is no fairness of the
specification but the premise `InTimeNowAndThen` of `PutReturns`.

## Where documentation and code disagree

These properties state what a document or a comment says; TLC finds each violated by what the
code does. They have a configuration of their own, to be run by hand as
`tlc -config <cfg> <module>`.

| Configuration, module | Property | Says | The code |
|---|---|---|---|
| `MailboxCapacity.cfg`, `Mailbox` | `ConfiguredCapacity` | `README.md:441`: "capacity of the inbound queue" | `zmq_mailbox.py:379` stores the queue's depth for its size, so the queue rebuilt in a process node is unbounded |
| `NodeSendFault.cfg`, `Node` | `PolicyCoversOnlyProcess` | `base_process.py:150-151`: a send failure "propagates to this loop's own `except Exception`" | `error_policy.py:279` sends inside the policy's `try`: the policy treats it as a failure of `process()` |
| `NodeRecordFault.cfg`, `Node` | `RecordSparesNode` | `dead_letter.py:51`: "Never raises" | `dead_letter.py:62` catches `OSError` only; anything else ends a threaded node |
| `ManagerConcurrentStart.cfg`, `PipelineManager` | `UniqueName` | `pipeline_manager.py:58`: "Unique name identifying the pipeline" | `pipeline_manager.py:68` checks, spawns and stores without a lock: two concurrent starts give two processes, one unreachable |
| `PipelineFail.cfg`, `Pipeline` | `FailBringsPipelineDown` | `README.md:343`, `fail`: "brings the whole pipeline down" | `zero_queue.py:192` blocks without a timeout: a process node blocked on the failed one never ends |
| `VoiceReminder.cfg`, `Voice` | `ReplySpokenWhole` | `tts_mixin.py:42`: "Buffers `text` from every chunk" | `tts_mixin.py:84`: a reminder between two deltas of a reply resets the buffer |
| `DatasetConcurrentPut.cfg`, `Dataset` | `MarksKept` | `README.md:583`: "PUT marks it reviewed" | `labels.py:117-120` reads and rewrites the manifest without a lock: of two overlapping PUTs one mark is lost |
| `RoutingRecords.cfg`, `MCRouting` | `RecordsDoNotCollide` | `README.md:396-398`: dead-letter records "never collide across replicas" | `node_factory.py:115` gives the error policy the configured id before the driver renames the replica |
| `RoutingIds.cfg`, `MCRouting` | `IdsAreDistinct` | `main.py:93`: "each with a distinct id" | `main.py:114` appends `#0` to the configured id, and another node may be configured as just that |
| `RoutingReplicas.cfg`, `MCRouting` | `AcceptedIsWired` | `config_schema.py:14-15`: a bad config "fails fast and legibly at startup" | `routing_factory.py:63-77` reads the raw `replicas`: `"2"` or `2.0`, which the schema coerces, raises a `TypeError` |
| `RoutingControl.cfg`, `MCRouting` | `ControlEdgesAreTaken` | `config_schema.py:46`: control edges are "Wired by `RoutingFactory`" | `node_factory.py:96-101` takes the other routing keys out but not `control_outputs`: `cls(**config)` of the batch nodes refuses it |
| `NodeUnrecorded.cfg`, `Node` | `EveryFailureRecorded` | `README.md:345`: "every message that could not be processed is appended as one JSON object" | `dead_letter.py:62` swallows an `OSError`, and `error_policy.py:323` counts it all the same; `error_policy.py:311-315` drops a message stopped in its backoff without a record |
| `ManagerEarlySignal.cfg`, `PipelineManager` | `AllPipelinesStopped` | `main_multipipe.py:49`: "All pipelines stopped." | `main_multipipe.py:47` takes a snapshot while the start loop is half done; what the loop starts afterwards is stopped by nobody, as `main_multipipe.py:43` ignores a second signal |
| `ReqRepTimeout.cfg`, `ReqRep` | `PutGivesUp` | `queue_transfer.py:281`: "Max duration to attempt sending"; `queue_transfer.py:290`: "retry once on the fresh connection" | `queue_transfer.py:286` loops until the deque is empty |
| `DetectionOverlap.cfg`, `MCDetection` | `OverlapValidated` | `sahi.py:66`: "validate crop overlap" | `sahi.py:67` compares with the crop size passed in, not the one taken from the detector at `sahi.py:62` |
| `DetectionDropped.cfg`, `MCDetection` | `NoneDropped` | `sahi.py:174`: "Maximum number of detections to return" | `sahi.py:199` broadcasts the only detection of a crop into an empty slice once the buffer is full, however good it is |
| `HandOff.cfg`, `HandOff` | `OneConsumer` | `base_process.py:92`: "two consumers competing for the same mailbox" is what is avoided | `zmq_mailbox.py:428-430`: a thread of `cls()` that outlives its join finds `_running` set again |
| `VisionDuplicates.cfg`, `MCVision` | `DuplicatesStop` | `hash_mixin.py:76`: "The same Frame if unique; otherwise None." | `hash_mixin.py:86-87` flags a near-duplicate and returns it |
| `VisionSharp.cfg`, `MCVision` | `SharpOnesStop` | `proc_blur_inference.py:47`: "Returns the input frame if blur is detected, None if no blur"; likewise line 1 | `proc_blur_inference.py:57-60` flags the blurred frame and returns every frame |

`SelectsWhenAllComplete` in `Vision` states the docstring at `active_learning_mixin.py:19`
("waits until every folder is complete"): the code waits for the folders it has seen so far, so
a folder whose first frame is late is selected from separately.

## Proofs

`MailboxProofs` proves for every set of producers, queue size, high-water mark and number
of messages, from `ConfigAssumption` (sizes positive, as `config_schema` enforces):

- `TypeCorrect`: types, the hand is non-empty exactly inside `_enqueue`, the queue
  respects its maxsize;
- `LossesAdmitted`: `NothingLostSilently`, from `LossAccounting` (`LossesCounted`,
  `BlockIsLossless`, `ConflateKeepsOne`) and `DropsOnlyStale` (`FreshestSurvives`);
- `DeliveryOrder`: `PerProducerOrder`;
- `MailboxImplementsEdge`: `ImplementsEdge`, the refinement of `Edge`.

None of these is inductive alone. `CountInv` adds to the types that there is room whenever
a retried put needs it (`RoomWhenNeeded`: only the receiver thread fills the queue, so what
it evicted or drained stays free), that nothing has arrived when the mailbox is handed to
the child (`CleanHandOff`), and the exact count (`Counted`). `OrderInv` adds that every
message on an edge carries a number its producer has already used (`Sourced`), without
which a new message would not be known to be the largest. The order argument rests on
lemmas on what appending to and taking the head of a sequence do to `Increasing` and
`Before`.

For the refinement, `RefinementStep` matches each action under that invariant. A send is an
accept; `Receive` is a delivery, since by the order the head of the queue is its producer's
oldest waiting message (`HeadLeaves`); `DropEvict` and a step of `ConflateDrain` are discards,
with the message in hand as the one that goes on waiting (`EvictDiscards`); the message a
stopping `_enqueue_block` abandons and what `Close` finds in the sockets are losses of a shut
edge (`StoppedLoses`). Reading the socket and every put are invisible. The two branches that
would lose the incoming message (`Full` in `DropRetry` and in `ConflatePut`) match no action of
`Edge`; `RoomWhenNeeded` rules them out.

`NodeProofs` proves for every number of messages, items and retries, from `NodeAssumption`
(they are naturals):

- `NodeTypes`: types, and attempts within the policy's bound;
- `CountersAddUp`: `StatsAddUp` (`MessagesSettled`, `ErrorsHandled` and `DeadLettersCounted`);
- `OutputSafe`: `OutputSound` (`NoDuplicateOutput` and `QuietAfterCancel`);
- `StoppedIsQuiet`: `StopQuiet`, from `StopsPromptly` (`AtMostOneAfterStop`) and
  `FailedIsQuiet` (`FailedCollectsNothing`).

Its inductive invariant has three parts. `BookInv` adds to types and counters where the
loop is in a message (`Located`: a streamed send has yielded, a backoff has not), without
which a message would not be known to be in flight exactly once. `StopInv` says that flags
are cleared before the event is set and that a loop about to collect has not overrun yet.
`OutInv` relates what is downstream to the attempt under way: nothing of the message
before its first yield, only smaller items at a send, and after a late item no way back to
a send; this is why a retry cannot repeat an item.

`VoiceProofs` proves for every number of turns, chunks, pieces and reminders, from
`VoiceAssumption` (they are naturals):

- `UtterancesSeparate`: `UtteranceOfOneTurn`;
- `BargeInPrompt`: `BargeInCutsPlayback`;
- `QuestionsAreSettled`: `NoQuestionForgotten`.

The ASR buffer does not record turns, so that the first is not inductive: `SpeechInv` relates
buffer, queue and VAD. Between speech of two turns in the queue, and between the buffer and
speech of another turn, there is a silent chunk, and speech no silence follows is that of the
turn going on (`Separated`). It survives the VAD's append because a turn starts only after
silence, and the ASR's step because silence empties the buffer. `LateInv` adds to the second that
a turn not yet cancelled has no late block and that a block is being written only while its turn
has none.

For the third, `CarryInv` says where an unsettled question is while the nodes are busy: in the
inbox of the llm, in its generator, in a *final* chunk on its way to tool or tts (the deltas
before it only fill buffers), in audio on its way to the player, or being played; or else its
CANCEL has reached the player or will (`Carried`). A node that skips a cancelled turn drops a
carrier, so that `SameCancels` is needed too: no node knows of a CANCEL that the player will not
get.

`PipelineProofs` proves for chains of any length and edges of any capacity (`PipelineAssumption`:
both positive):

- `PipelineTypes`: types, and no edge above its capacity;
- `SendsAreListenedTo`: `NoSendBeforeListening`.

`StartInv` strengthens the first: under `main` with a threaded source and without a timeout, all
process nodes listen, or the source is not started and nothing at all is under way; this is what
makes the property hold behind any number of processes.

`ManagerProofs` proves for any names, any finite pool of request threads and any number of
processes (`ManagerAssumption`; a thread pool is finite, and the proof counts the starts under
way):

- `ManagerTypes`: types, and a name's process was started under that name;
- `PopsAreExclusive`: `OneStopper`, for concurrent clients too;
- `RegistryIsSound`: `RegistryAgrees`.

`BaseInv` holds for any clients: a process belongs to the registry, to the start that created it
or to the stop that popped it, never to two of them (`HoldInv`), and process numbers do not run
out (`SupplyInv`). `SoloInv` holds unless clients overlap on a name: a request under way knows
where its name stands (`KnowsName`), every running process is registered or held by a request
(`Tracked`), a name nobody is busy with has the right configuration (`ConfigOf`), and, for
`main_multipipe`, the loop and the handler are never about the same name (`LoopInv`). `ReachInv` is
about its shutdown: a name the handler found is before it or in the hands of its stop as long as it
is registered, and is never started again; a late signal finds every name that runs.

`TransportProofs` proves of `Replicas`, for any ports, bounds, high-water mark and numbers of
messages and loops (`AutoscaleAssumption`: the bounds `AutoscaleConfig` enforces; ports are finitely
many and the second target has one of its own; loops are numbered from 1, 0 meaning that nobody has
the lock):

- `PoolStaysInBounds`: `PoolWithinBounds`;
- `SegmentsHaveOneOwner`: `SegmentsOwned`.

`LockInv` says that the loop that decided to scale has the lock and that the bound it tested still
holds, which is why two overlapping loops cannot step over a bound together. `FlightInv` says that
no two messages under way, and no message and the one being sent, name one segment (`Disjoint`), so
that decoding one does not take away what another names; and that shared memory is used with a
single target only. The proof needs what `RemoveAt` and `SetToSeq` of the community modules do
(`RemoveAtProperties`, `SetToSeqProperties`).

Of `ReqRep`, for any deque length, number of items and number of requests left behind by closed
sockets (`ReqRepAssumption`: positive), it proves:

- `QueueTypes`: types (`Typed`), and a request is outstanding only inside a call;
- `DeliveredAtLeastOnce`: `AtLeastOnce`.

The invariant follows one item. A call owns the only live copy of its request, and an answer means
that the consumer has it (`CallInv`); items are buffered once (`DequeInv`); what was delivered and
may be delivered again has timed out (`RepeatInv`); and the one item of `put` that may not have
arrived is the newest, at the end of the deque (`BarrierInv`), which gives order and the barrier.

`DatasetProofs` proves of `Dataset`, for any frames, any requests and any number of restarts and
crashes:

- `ReviewIsHonest`: `ReviewedWasCorrected`;
- `SerialPutsKeepMarks`: `SerialMarksKept`.

`HonestInv` adds that what a PUT carries from `_load_reviewed` to the manifest was corrected, and
its own frame too once its boxes are written. `SerialInv` adds that a single PUT is under way and
that the answered marks are in the manifest, or, between truncation and write, in that PUT.

Of `Vision`, for any folders and numbers of files, any batch and queue sizes, any selection sizes
and any order of the threads (`SizesAssumption`: finitely many folders, each with a file; sizes
positive, `num_extremes` and `num_to_select` naturals), it proves:

- `FramesAreAccountedFor`: `DatasetSound` (`FramesAccounted` and `OnlyKeptSaved`).

`FrameInv` gives every frame a spot: a place of the chain (`FramesAt`), *settled* or *lost*. The
keys at different spots are disjoint and together are those read so far (`Spread`); within a spot a
key occurs once (`OnceEach`); a cache or an edge of a folder holds that folder's frames (`Home`).
Each action then moves some keys from one spot to others, and the lemmas `Moved` and `Relocated`
show once that a move keeps `Spread`; `HopStep`, `BlockStep` and `LostMove` are the three shapes of
it that the actions have. A frame must carry its flag on the way, or active learning could choose it
(`Flags`, `Written`): a frame whose key is flagged has `drop` set wherever it is, which `Select`,
the only step to rewrite frames in a cache, preserves. The embedding node needs an argument of its
own: of a batch, a front part goes to the caches and the rest is lost when a folder is complete or
something raises (`CacheStage`), a raise in the clustering loses the completed cache too, and that a
folder completes in the middle of a batch happens only to batches that mix folders or rounds is a
count (`MixedBatch`): in `only_one` mode a folder's frames have ids below its number of files
(`OneRound`), so that a cache without one of them is not complete.

`NodeProofs` proves of `Routing`, for every configuration and driver (`RoutingAssumption`: entries
are what the schema parses, with the way `replicas` is written):

- `WiringIsFaithful`: `WiringFollowsConfig`;
- `MailboxesAreServed`: `EveryMailboxServed`.

`RInv` says of each loop what it has done for the entries it has been through (`MailboxesMade`,
`DataWired`, `ControlWired`, `NodesBuilt`) and, once the configuration is accepted, that ids are
unique and targets exist (`Accepted`), without which a later entry could overwrite the mailbox or
the publishers of an earlier one; and, of one that failed, why (`Explained`). Distinct ids do not
follow from distinct mailboxes, since ids are strings: two instances of one entry differ in their
number (`ReplicaInjective`), and two of different entries can share an id only if one of them is
named like an instance of the other (`ClashIsConfigured`).

`ModelProofs` proves of `Detection`, for every image, detector, crop and overlap and every set of
detections (`DetectionAssumption`):

- `SlicingIsSound`: `SlicingSound`;
- `SuppressionIsSound`: `SuppressionSound`.

The first is arithmetic: the last start of an axis is moved back to the border, and the others are a
stride apart that is positive and not larger than the crop if the overlap is below the crop size, so
that the slices cover (`Covered`), and otherwise, the stride being negative (zero raises), they do not
(`Uncovered`). `GeometrySound` keeps that what was cut is what the constructor's checks allow, from
which it follows that the second case needs a crop size the detector overruled; halves rounded to
even split a border into two parts that differ by at most one. For the second, `SInv` says what
`apply_nms` has done of the crop it is at: those kept are in order of score, each suppressed one has
a better one kept that overlaps it, those left are no better than any that were taken, and a
detection missing from the buffer was alone when it was full (`LoneDropped`). Scores are a total
order, so "better" is transitive from turn to turn.

Of `Inference`, for every engine batch, SAHI batch, number of rows and number of calls, it proves:

- `AnswersAreThisCalls`: `AnswersItsInput`;
- `ReadsAreStored`: `ReadsWhatItStored`.

The invariant says whose rows the pinned and device buffers hold at each stage of a call
(`Staged`), what each operation on the stream will write and that those of a failed call are still
before those of the next (`InFlight`), and that no copy to come goes to an array of which a view is
kept (`KeptSafe`). For TensorRT's one array it says less: a row a view was taken of is in the pinned
memory until a later call writes over it, whether or not the call was refused (`StillThere`), which
is why only a refusal of the last call before the reading can spoil it.

**Only model-checked.** All liveness properties (outside the prover's reach, like `ENABLED`), and
`RepliesSound` of `Voice`: what `ResolveText` leaves of a text is a filter over sequences, and the
text of a turn is spread over a queue of chunks, so that both need induction over sequences, which
the installed backends cannot do.

## Not modelled

- The networks, image features, hashes, clustering distances and scores: numerical code
  without control of its own; the models take their outcomes as inputs or free choices.
- The echo canceller (`aec.py`): arithmetic over floats; `Voice` takes what it leaves as input.
- Audio devices, video and camera readers, HTTP calls to model services, the web and file
  tools: I/O that returns or raises.
- Metrics export, profilers, the node catalog and the dashboard: they read counters or describe
  the program and change nothing in it.
- The PUB/SUB `ZeroQueue` of `queue_transfer.py`, which nothing in the repository depends on to
  deliver.
- How ports and addresses are chosen: a mailbox is its id and replica number.
- Lengths of timeouts and backoffs: a timeout may fire whenever what it guards has not happened.
- A partial failure of a fan-out send inside `Node`, where a send is one unit; in `Replicas`, a
  `put_bytes` that raises after `dumps` (as when the edge is closed under it), whose segments nobody
  would read.
- Raw configuration values other than `replicas` that the schema coerces and the wiring does not.
- Of the voice assistant: retry policies on its nodes and full inboxes (player and vad form a
  cycle, through which backpressure could travel). Of the labelling chain: full inboxes.

## Plan

1. (done) `Mailbox`, `Edge`, `Node`, `PipelineManager`, `Pipeline`, `Voice`; proofs of
   `Mailbox`, `Node` and of two properties of `Voice`.
2. (done) `Vision`, `Dataset`, `ReqRep`, `Replicas`, `Routing`, `Detection`, `Inference`; the
   other drivers in `Pipeline` and `PipelineManager`.
3. (done) Proofs of `Pipeline`, `PipelineManager`, `Replicas`, `ReqRep`, `Dataset`, of the
   refinement of `Edge` and of `NoQuestionForgotten`.
4. (done) Proofs of `Routing`, `Detection`, `Inference` and `Vision`.
5. Further modelling: backpressure around the cycle of player and vad, bounded inboxes in the
   labelling chain, fan-out sends that fail half-way.
