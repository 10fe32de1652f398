----------------------------- MODULE Replicas ------------------------------
(***************************************************************************)
(* One producer's edge to a group of replicas: the mailbox's send() with    *)
(* the shared-memory codec, the PUSH socket that spreads messages over the  *)
(* replicas' ports, the replicas' receiver threads that decode, and the     *)
(* ReplicaAutoscaler whose background loop grows and shrinks the group.     *)
(*                                                                         *)
(* A message is its number and the shared-memory segments it names.  The    *)
(* scale_up and scale_down callbacks are the caller's; they are modelled by *)
(* the mailbox operations made for them (add_publisher on a known target,   *)
(* disconnect_additional and stop).                                         *)
(***************************************************************************)
EXTENDS Naturals, Sequences, FiniteSets, SequencesExt

CONSTANTS
  Ports,           \* consume ports replicas of the group may get
  OtherPort,       \* consume port of a second, unreplicated target
  Loops,           \* background threads start() may create, in order 1, 2, ...
  MinReplicas, MaxReplicas, QueueDepthHigh, QueueDepthLow,   \* AutoscaleConfig
  MessageQueueSize, HighWaterMark,
  MaxBuffers,      \* bound: large buffers in one message
  MaxMessages      \* bound: messages the producer sends

ASSUME AutoscaleAssumption ==   \* AutoscaleConfig._check_consistency and its Fields
  /\ MinReplicas \in Nat \ {0} /\ MaxReplicas \in Nat /\ MinReplicas <= MaxReplicas
  /\ QueueDepthLow \in Nat /\ QueueDepthHigh \in Nat /\ QueueDepthLow < QueueDepthHigh
  /\ IsFiniteSet(Ports) /\ OtherPort \notin Ports
  /\ Loops \subseteq Nat \ {0}

VARIABLES
  shm,        \* codec.SHM_ENABLED
  fanout,     \* pub_sockets has a second target
  initial,    \* replicas the group was started with
  connected,  \* _connected_ports of the group's ZeroQueuePub
  up,         \* ports whose replica runs
  pool,       \* _replicas of the autoscaler
  wire,       \* per port, messages sent and not yet read
  depth,      \* per port, messages in _message_queue
  dead,       \* ports whose receiver thread a failed decode ended
  segments,   \* shared-memory segments that exist
  leaked,     \* segments no message in flight names any more
  out,        \* the message send() is handing to the sockets, and the targets left
  sent,       \* number of messages serialized so far
  loop,       \* program point of every background thread
  lock,       \* _lock: the thread inside check_and_scale, 0 when free
  handle,     \* _thread: 0 stands for None
  stopping    \* _stop_event

flight == <<wire, depth, dead, segments, leaked, out, sent>>
group == <<connected, up, pool>>
threads == <<loop, lock, handle, stopping>>
config == <<shm, fanout, initial>>
vars == <<config, group, flight, threads>>

AllPorts == Ports \cup {OtherPort}
Idle == [segs |-> {}, left |-> {}]

Init ==
  /\ shm \in BOOLEAN /\ fanout \in BOOLEAN
  /\ initial \in 1..Cardinality(Ports)
  /\ pool = SubSeq(SetToSeq(Ports), 1, initial)
  /\ connected = ToSet(pool) /\ up = ToSet(pool)
  /\ wire = [p \in AllPorts |-> <<>>] /\ depth = [p \in AllPorts |-> 0]
  /\ dead = {} /\ segments = {} /\ leaked = {}
  /\ out = Idle /\ sent = 0
  /\ loop = [t \in Loops |-> "none"] /\ lock = 0 /\ handle = 0 /\ stopping = FALSE

-----------------------------------------------------------------------------
(* The producer.                                                            *)

\* ZMQMailbox.send: shared memory on an edge with exactly one target, whose
\* replicas share one socket, so that one consumer reads each message.
\* Faulty variant: every edge uses shared memory.
UseShmAlways == shm
UseShm == shm /\ ~fanout

\* codec.dumps: with n large buffers, _dumps_shm creates the segments one by one.
Dumps(n) ==
  /\ out = Idle
  /\ sent < MaxMessages
  /\ sent' = sent + 1
  /\ LET segs == IF UseShm THEN {<<sent + 1, k>> : k \in 1..n} ELSE {}
     IN  /\ segments' = segments \cup segs
         /\ out' = [segs |-> segs, left |-> IF fanout THEN {"group", "other"} ELSE {"group"}]
  /\ UNCHANGED <<config, group, threads, wire, depth, dead, leaked>>

\* _dumps_shm: the segment after the k-th cannot be created; the exception leaves
\* the earlier ones behind, and send() has sent nothing.
DumpsFails(k) ==
  /\ out = Idle
  /\ sent < MaxMessages
  /\ UseShm
  /\ sent' = sent + 1
  /\ LET made == {<<sent + 1, j>> : j \in 1..k}
     IN  segments' = segments \cup made /\ leaked' = leaked \cup made
  /\ UNCHANGED <<config, group, threads, wire, depth, dead, out>>

\* put_bytes: the PUSH socket takes a connected peer below its high-water mark and
\* blocks while there is none.
PutBytes(target, p) ==
  /\ target \in out.left
  /\ p \in (IF target = "group" THEN connected ELSE {OtherPort})
  /\ Len(wire[p]) < HighWaterMark
  /\ wire' = [wire EXCEPT ![p] = Append(@, out.segs)]
  /\ out' = IF out.left = {target} THEN Idle ELSE [out EXCEPT !.left = @ \ {target}]
  /\ UNCHANGED <<config, group, threads, depth, dead, segments, leaked, sent>>

-----------------------------------------------------------------------------
(* The replicas: codec.loads in the receiver thread, then the queue.  _loads_shm *)
(* copies, closes and unlinks each segment; one that is gone raises, outside the *)
(* try of _receiver_loop, and ends the thread.                                   *)
Loads(p) ==
  /\ p \in up \cup {OtherPort}
  /\ p \notin dead
  /\ wire[p] # <<>>
  /\ depth[p] < MessageQueueSize
  /\ wire' = [wire EXCEPT ![p] = Tail(@)]
  /\ segments' = segments \ Head(wire[p])
  /\ IF Head(wire[p]) \subseteq segments
     THEN depth' = [depth EXCEPT ![p] = @ + 1] /\ dead' = dead
     ELSE depth' = depth /\ dead' = dead \cup {p}
  /\ UNCHANGED <<config, group, threads, leaked, out, sent>>

Receive(p) ==
  /\ p \in up \cup {OtherPort}
  /\ depth[p] > 0
  /\ depth' = [depth EXCEPT ![p] = @ - 1]
  /\ UNCHANGED <<config, group, threads, wire, dead, segments, leaked, out, sent>>

-----------------------------------------------------------------------------
(* The autoscaler.                                                          *)

\* _run: `while not self._stop_event.wait(...)`.
\* Faulty variant: the loop does not look at the event.
RunIgnoring(t) ==
  /\ loop[t] = "wait"
  /\ loop' = [loop EXCEPT ![t] = "check"]
  /\ UNCHANGED <<config, group, flight, lock, handle, stopping>>

Run(t) ==
  /\ loop[t] = "wait"
  /\ loop' = [loop EXCEPT ![t] = IF stopping THEN "exit" ELSE "check"]
  /\ UNCHANGED <<config, group, flight, lock, handle, stopping>>

Deep(p) == depth[p] >= QueueDepthHigh
Shallow(p) == depth[p] <= QueueDepthLow

\* What check_and_scale decides from the depths it reads.
Decision ==
  IF pool = <<>> THEN "wait"
  ELSE IF (\A p \in ToSet(pool) : Deep(p)) /\ Len(pool) < MaxReplicas THEN "up"
  ELSE IF (\A p \in ToSet(pool) : Shallow(p)) /\ Len(pool) > MinReplicas THEN "down"
  ELSE "wait"

\* check_and_scale: `with self._lock`, the depths are read, the decision taken; the
\* callback of "up" and "down" runs before the lock is released.
\* Faulty variant: the decision is taken without the lock.
CheckUnlocked(t) ==
  /\ loop[t] = "check"
  /\ loop' = [loop EXCEPT ![t] = Decision]
  /\ UNCHANGED <<config, group, flight, lock, handle, stopping>>

Check(t) ==
  /\ loop[t] = "check"
  /\ lock = 0
  /\ loop' = [loop EXCEPT ![t] = Decision]
  /\ lock' = IF Decision = "wait" THEN 0 ELSE t
  /\ UNCHANGED <<config, group, flight, handle, stopping>>

Release(t) == loop' = [loop EXCEPT ![t] = "wait"] /\ lock' = 0

\* scale_up: a replica with a fresh mailbox, and add_publisher on the producer, which
\* grows the existing socket.  A callback that raises is logged by _run.
ScaleUp(t) ==
  /\ loop[t] = "up"
  /\ \/ \E p \in Ports \ (up \cup connected) :
          /\ up' = up \cup {p}
          /\ connected' = connected \cup {p}
          /\ pool' = Append(pool, p)
     \/ UNCHANGED group
  /\ Release(t)
  /\ UNCHANGED <<config, flight, handle, stopping>>

\* The first replica of least depth is popped before scale_down runs.  Tearing it
\* down disconnects its port and stops its mailbox: what it had not processed is
\* lost, segments included.  If scale_down raises, the replica runs on, out of the pool.
ScaleDown(t) ==
  /\ loop[t] = "down"
  /\ LET i == CHOOSE i \in DOMAIN pool :
                /\ \A j \in DOMAIN pool : depth[pool[i]] <= depth[pool[j]]
                /\ \A j \in 1..(i - 1) : depth[pool[i]] < depth[pool[j]]
         p == pool[i]
     IN  /\ pool' = RemoveAt(pool, i)
         /\ \/ /\ up' = up \ {p}
               /\ connected' = connected \ {p}
               /\ leaked' = leaked \cup ((UNION ToSet(wire[p])) \cap segments)
               /\ wire' = [wire EXCEPT ![p] = <<>>]
               /\ depth' = [depth EXCEPT ![p] = 0]
               /\ dead' = dead \ {p}
               /\ UNCHANGED <<segments, out, sent>>
            \/ UNCHANGED <<up, connected, flight>>
  /\ Release(t)
  /\ UNCHANGED <<config, handle, stopping>>

\* start(): nothing while a thread is remembered.
Start ==
  /\ handle = 0
  /\ \E t \in Loops :
       /\ loop[t] = "none"
       /\ \A u \in Loops : loop[u] = "none" => t <= u
       /\ loop' = [loop EXCEPT ![t] = "wait"]
       /\ handle' = t
  /\ stopping' = FALSE
  /\ UNCHANGED <<config, group, flight, lock>>

\* stop(): sets the event, joins for one second, forgets the thread, gone or not.
Stop ==
  /\ stopping' = TRUE
  /\ handle' = 0
  /\ UNCHANGED <<config, group, flight, loop, lock>>

-----------------------------------------------------------------------------
Autoscale(t) == Run(t) \/ Check(t) \/ ScaleUp(t) \/ ScaleDown(t)

Next ==
  \/ \E n \in 0..MaxBuffers : Dumps(n)
  \/ \E k \in 0..(MaxBuffers - 1) : DumpsFails(k)
  \/ \E target \in {"group", "other"}, p \in AllPorts : PutBytes(target, p)
  \/ \E p \in AllPorts : Loads(p) \/ Receive(p)
  \/ \E t \in Loops : Autoscale(t)
  \/ Start \/ Stop

(* Fairness: background threads are scheduled and the callbacks return.      *)
Spec == Init /\ [][Next]_vars /\ \A t \in Loops : WF_vars(Autoscale(t))

-----------------------------------------------------------------------------
\* Segments named by messages that are being sent or wait on a wire.
Named == out.segs \cup UNION {UNION ToSet(wire[p]) : p \in AllPorts}

(* The ownership contract of the codec holds on every edge the mailbox uses it   *)
(* for: whoever decodes a message finds all its segments, so no receiver thread  *)
(* ever dies of a missing one; and a segment that no message in flight names was *)
(* left by a failed serialization or a torn-down replica, never by a delivery.   *)
SegmentsOwned ==
  /\ dead = {}
  /\ segments = Named \cup leaked
  /\ Named \cap leaked = {}

(* The group the autoscaler manages stays within its configured bounds, or       *)
(* between them and the size it was started with, even while two background      *)
(* loops overlap after stop() and start(); every replica in the pool runs and is *)
(* connected, and pool entries are distinct.                                     *)
PoolWithinBounds ==
  /\ Len(pool) >= IF initial < MinReplicas THEN initial ELSE MinReplicas
  /\ Len(pool) <= IF initial > MaxReplicas THEN initial ELSE MaxReplicas
  /\ ToSet(pool) \subseteq up \cap connected
  /\ IsInjective(pool)

(* Once stop() is not followed by another start(), every background loop ends,   *)
(* the ones an earlier stop() gave up joining too.                               *)
StoppedLoopsEnd ==
  <>[]stopping => <>[](\A t \in Loops : loop[t] \in {"none", "exit"})
=============================================================================
