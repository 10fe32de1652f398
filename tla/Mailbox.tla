------------------------------ MODULE Mailbox ------------------------------
(***************************************************************************)
(* One ZMQMailbox and everything that touches it at run time: the          *)
(* producers upstream (PUSH sockets), the data receiver thread, the        *)
(* control receiver thread, the node's loop calling receive(), the owner   *)
(* calling stop(), and, for a process node, the hand-off of the mailbox    *)
(* from the parent process to the child.                                   *)
(*                                                                         *)
(* A message is the pair of its producer and its number on that edge; the  *)
(* payload never influences what the mailbox does.  A control message is   *)
(* the (session, turn) it cancels.                                         *)
(***************************************************************************)
EXTENDS Integers, Sequences, SequencesExt

CONSTANTS
  Producers,         \* upstream mailboxes with this one among their pub_sockets
  Turns,             \* the (session_id, turn_id) pairs a control message may name
  MessageQueueSize,  \* message_queue_size of the node's config
  Homes,             \* kinds of node the mailbox may belong to: "thread", "parent"
  HighWaterMark,     \* messages ZeroMQ buffers on one edge before PUSH blocks
  MaxSends           \* bound: messages one producer sends

ASSUME ConfigAssumption ==
  /\ MessageQueueSize \in Nat \ {0}   \* config_schema._check_queue_policy
  /\ HighWaterMark \in Nat \ {0}
  /\ MaxSends \in Nat
  /\ Homes \subseteq {"thread", "parent"}

VARIABLES
  policy,     \* queue_policy: chosen by the config, never assigned again
  maxsize,    \* _message_queue.maxsize; 0 is queue.Queue's "unbounded"
  home,       \* where the mailbox lives: "thread" | "parent" | "released" | "child"
  snapshot,   \* message_queue_size as stored by __getstate__
  running,    \* _running
  closed,     \* stop() has closed the sockets
  wire,       \* per producer, messages sent and not yet read from the PULL socket
  sent,       \* per producer, number of the last message sent
  rpc,        \* program point of the data receiver thread
  hand,       \* the message the receiver thread holds: <<>> or <<m>>
  queue,      \* _message_queue
  received,   \* messages receive() returned, in order
  pulled,     \* how many messages the receiver thread has read from the socket
  drops,      \* QUEUE_DROPS for this mailbox, over all reasons
  cwire,      \* control messages sent and not yet read from the control socket
  cpc,        \* program point of the control receiver thread
  cancelled   \* _cancelled_turns

config == <<policy, maxsize, home, snapshot>>
edge == <<wire, sent>>
receiver == <<rpc, hand, pulled, drops>>
control == <<cwire, cpc, cancelled>>
vars == <<config, running, closed, edge, receiver, queue, received, control>>

QueuePolicy == {"block", "drop_oldest", "conflate"}
Message == [src : Producers, seq : Nat]

\* queue.Queue: a maxsize of zero means no limit.
Full == maxsize > 0 /\ Len(queue) >= maxsize

-----------------------------------------------------------------------------
(* ZMQMailbox.__init__ with its call of start(): both threads run.          *)
Init ==
  /\ policy \in QueuePolicy
  /\ maxsize = MessageQueueSize
  /\ home \in Homes
  /\ snapshot = 0
  /\ running = TRUE
  /\ closed = FALSE
  /\ wire = [p \in Producers |-> <<>>]
  /\ sent = [p \in Producers |-> 0]
  /\ rpc = "loop"
  /\ hand = <<>>
  /\ queue = <<>>
  /\ received = <<>>
  /\ pulled = 0
  /\ drops = 0
  /\ cwire = <<>>
  /\ cpc = "loop"
  /\ cancelled = {}

-----------------------------------------------------------------------------
(* The producers: send() hands the bytes to put_bytes, which blocks while   *)
(* the edge is at its high-water mark.  No node is started before every     *)
(* node has been constructed, so nothing is sent while the mailbox of a     *)
(* process node is still with the parent.                                   *)
Send(p) ==
  /\ home # "parent"
  /\ sent[p] < MaxSends
  /\ Len(wire[p]) < HighWaterMark
  /\ sent' = [sent EXCEPT ![p] = @ + 1]
  /\ wire' = [wire EXCEPT ![p] = Append(@, [src |-> p, seq |-> sent[p] + 1])]
  /\ UNCHANGED <<config, running, closed, receiver, queue, received, control>>

(* send_control(): a turn is cancelled at most once (VadFilterMixin raises one      *)
(* cancellation per superseded turn).                                        *)
SendControl(t) ==
  /\ home # "parent"
  /\ \A i \in DOMAIN cwire : cwire[i] # t
  /\ t \notin cancelled
  /\ cwire' = Append(cwire, t)
  /\ UNCHANGED <<config, running, closed, edge, receiver, queue, received, cpc, cancelled>>

-----------------------------------------------------------------------------
(* The data receiver thread, _receiver_loop.                                *)

receiverFrame == <<config, running, closed, sent, received, control>>

\* `while self._running`: read here, acted upon by the sub_queue.get that follows.
LoopCheck ==
  /\ rpc = "loop"
  /\ rpc' = IF running THEN "get" ELSE "exit"
  /\ UNCHANGED <<receiverFrame, wire, hand, pulled, drops, queue>>

\* sub_queue.get returned a message; _enqueue dispatches on the policy.
Get(p) ==
  /\ rpc = "get"
  /\ ~closed
  /\ wire[p] # <<>>
  /\ hand' = <<Head(wire[p])>>
  /\ wire' = [wire EXCEPT ![p] = Tail(@)]
  /\ pulled' = pulled + 1
  /\ rpc' = CASE policy = "block" -> "block"
              [] policy = "drop_oldest" -> "try"
              [] policy = "conflate" -> "drain"
  /\ UNCHANGED <<receiverFrame, drops, queue>>

\* The poll timed out, or the socket was closed under it (ZMQError): None.
GetNone ==
  /\ rpc = "get"
  /\ closed \/ \A p \in Producers : wire[p] = <<>>
  /\ rpc' = "loop"
  /\ UNCHANGED <<receiverFrame, wire, hand, pulled, drops, queue>>

\* The message in hand goes to the back of _message_queue and the loop restarts.
Enqueue ==
  /\ queue' = Append(queue, hand[1])
  /\ hand' = <<>>
  /\ rpc' = "loop"

\* _enqueue_block: `while self._running`; a stopping mailbox abandons the message.
\* Faulty variant: stopping is not looked at while the queue is full.
BlockCheckForever ==
  /\ rpc = "block"
  /\ rpc' = "put"
  /\ UNCHANGED <<receiverFrame, wire, hand, pulled, drops, queue>>

BlockCheck ==
  /\ rpc = "block"
  /\ \/ running /\ rpc' = "put" /\ hand' = hand
     \/ ~running /\ rpc' = "loop" /\ hand' = <<>>
  /\ UNCHANGED <<receiverFrame, wire, pulled, drops, queue>>

\* _enqueue_block: put(timeout) succeeds, or raises Full and the loop goes on.
\* Faulty variant: a full queue loses the message.
BlockPutDropping ==
  /\ rpc = "put"
  /\ IF Full THEN rpc' = "loop" /\ hand' = <<>> /\ queue' = queue ELSE Enqueue
  /\ UNCHANGED <<receiverFrame, wire, pulled, drops>>

BlockPut ==
  /\ rpc = "put"
  /\ IF Full THEN rpc' = "block" /\ UNCHANGED <<hand, queue>> ELSE Enqueue
  /\ UNCHANGED <<receiverFrame, wire, pulled, drops>>

\* _enqueue_drop_oldest: the first put_nowait.
\* Faulty variant: the bound of the queue is ignored.
DropTryUnbounded ==
  /\ rpc = "try"
  /\ Enqueue
  /\ UNCHANGED <<receiverFrame, wire, pulled, drops>>

DropTry ==
  /\ rpc = "try"
  /\ IF Full THEN rpc' = "evict" /\ UNCHANGED <<hand, queue>> ELSE Enqueue
  /\ UNCHANGED <<receiverFrame, wire, pulled, drops>>

\* _enqueue_drop_oldest: get_nowait evicts the oldest, unless receive() has
\* emptied the queue in the meantime.
\* Faulty variant: nothing is evicted, so the incoming message is lost.
DropEvictNothing ==
  /\ rpc = "evict"
  /\ rpc' = "retry"
  /\ UNCHANGED <<receiverFrame, wire, hand, pulled, queue, drops>>

\* Faulty variant: the eviction is not counted.
DropEvictUncounted ==
  /\ rpc = "evict"
  /\ queue' = IF queue = <<>> THEN queue ELSE Tail(queue)
  /\ rpc' = "retry"
  /\ UNCHANGED <<receiverFrame, wire, hand, pulled, drops>>

DropEvict ==
  /\ rpc = "evict"
  /\ \/ queue # <<>> /\ queue' = Tail(queue) /\ drops' = drops + 1
     \/ queue = <<>> /\ UNCHANGED <<queue, drops>>
  /\ rpc' = "retry"
  /\ UNCHANGED <<receiverFrame, wire, hand, pulled>>

\* _enqueue_drop_oldest: the second put_nowait; if it is Full, the incoming
\* message is the one dropped.
\* Faulty variant: the incoming message overtakes the queued ones.
DropRetryAtFront ==
  /\ rpc = "retry"
  /\ queue' = hand \o queue /\ hand' = <<>> /\ rpc' = "loop" /\ drops' = drops
  /\ UNCHANGED <<receiverFrame, wire, pulled>>

DropRetry ==
  /\ rpc = "retry"
  /\ IF Full
     THEN rpc' = "loop" /\ hand' = <<>> /\ queue' = queue /\ drops' = drops + 1
     ELSE Enqueue /\ drops' = drops
  /\ UNCHANGED <<receiverFrame, wire, pulled>>

\* _enqueue_conflate: get_nowait until Empty, racing receive().
\* Faulty variant: the queue is drained only when it is full.
ConflateDrainWhenFull ==
  /\ rpc = "drain"
  /\ \/ Full /\ queue' = Tail(queue) /\ drops' = drops + 1 /\ rpc' = rpc
     \/ ~Full /\ rpc' = "conflate" /\ UNCHANGED <<queue, drops>>
  /\ UNCHANGED <<receiverFrame, wire, hand, pulled>>

ConflateDrain ==
  /\ rpc = "drain"
  /\ \/ queue # <<>> /\ queue' = Tail(queue) /\ drops' = drops + 1 /\ rpc' = rpc
     \/ queue = <<>> /\ rpc' = "conflate" /\ UNCHANGED <<queue, drops>>
  /\ UNCHANGED <<receiverFrame, wire, hand, pulled>>

\* _enqueue_conflate: put_nowait.  A Full here would be caught and logged by
\* _receiver_loop, and the message gone without being counted.
ConflatePut ==
  /\ rpc = "conflate"
  /\ IF Full THEN rpc' = "loop" /\ hand' = <<>> /\ queue' = queue ELSE Enqueue
  /\ UNCHANGED <<receiverFrame, wire, pulled, drops>>

ReceiverThread ==
  \/ LoopCheck \/ (\E p \in Producers : Get(p)) \/ GetNone
  \/ BlockCheck \/ BlockPut
  \/ DropTry \/ DropEvict \/ DropRetry
  \/ ConflateDrain \/ ConflatePut

-----------------------------------------------------------------------------
(* The control receiver thread, _control_receiver_loop.                     *)

controlFrame == <<config, running, closed, edge, receiver, queue, received>>

ControlLoopCheck ==
  /\ cpc = "loop"
  /\ cpc' = IF running THEN "get" ELSE "exit"
  /\ UNCHANGED <<controlFrame, cwire, cancelled>>

\* Faulty variant: a control message waits for the data backlog.
ControlGetBehindData ==
  /\ cpc = "get"
  /\ ~closed
  /\ cwire # <<>>
  /\ hand = <<>> /\ queue = <<>>
  /\ cancelled' = cancelled \cup {Head(cwire)}
  /\ cwire' = Tail(cwire)
  /\ cpc' = "loop"
  /\ UNCHANGED controlFrame

ControlGet ==
  /\ cpc = "get"
  /\ ~closed
  /\ cwire # <<>>
  /\ cancelled' = cancelled \cup {Head(cwire)}
  /\ cwire' = Tail(cwire)
  /\ cpc' = "loop"
  /\ UNCHANGED controlFrame

ControlGetNone ==
  /\ cpc = "get"
  /\ closed \/ cwire = <<>>
  /\ cpc' = "loop"
  /\ UNCHANGED <<controlFrame, cwire, cancelled>>

ControlThread == ControlLoopCheck \/ ControlGet \/ ControlGetNone

-----------------------------------------------------------------------------
(* The node: receive() takes the head of the queue, also after stop().  A    *)
(* timed-out receive() returns None and changes nothing.                     *)
\* Faulty variant: the queue is served from its back.
ReceiveNewest ==
  /\ queue # <<>>
  /\ received' = Append(received, queue[Len(queue)])
  /\ queue' = SubSeq(queue, 1, Len(queue) - 1)
  /\ UNCHANGED <<config, running, closed, edge, receiver, control>>

Receive ==
  /\ queue # <<>>
  /\ received' = Append(received, Head(queue))
  /\ queue' = Tail(queue)
  /\ UNCHANGED <<config, running, closed, edge, receiver, control>>

(* The owner of a threaded node: stop() clears _running, joins both threads  *)
(* for at most _join_timeout each, and closes the sockets whether or not     *)
(* the threads are gone; what the sockets still hold is lost.                *)
Stop ==
  /\ home = "thread"
  /\ running
  /\ running' = FALSE
  /\ UNCHANGED <<config, closed, edge, receiver, queue, received, control>>

Close ==
  /\ home = "thread"
  /\ ~running
  /\ ~closed
  /\ closed' = TRUE
  /\ wire' = [p \in Producers |-> <<>>]
  /\ cwire' = <<>>
  /\ UNCHANGED <<config, running, sent, receiver, queue, received, cpc, cancelled>>

-----------------------------------------------------------------------------
(* A process node.  BaseProcessNode.__init__ stores __getstate__() and stops *)
(* the mailbox, whose threads have seen no message yet; __getstate__ stores   *)
(* the CURRENT depth of the queue as its size.                               *)
ProcessNodeInit ==
  /\ home = "parent"
  /\ home' = "released"
  /\ snapshot' = Len(queue)
  /\ running' = FALSE
  /\ rpc' = "exit"
  /\ cpc' = "exit"
  /\ UNCHANGED <<policy, maxsize, closed, edge, hand, pulled, drops, queue, received, cwire, cancelled>>

(* The child, _start_afterwords: from_state() rebuilds the queue with the     *)
(* stored size, rebinds both ports and starts both threads.  It begins with    *)
(* cls() and stop(), whose joins are taken to end in time: the two threads of   *)
(* cls() poll for one _join_timeout, on ports nobody has been told of.  HandOff *)
(* is the mailbox without this assumption.                                      *)
FromState ==
  /\ home = "released"
  /\ home' = "child"
  /\ maxsize' = snapshot
  /\ queue' = <<>>
  /\ running' = TRUE
  /\ rpc' = "loop"
  /\ cpc' = "loop"
  /\ UNCHANGED <<policy, snapshot, closed, edge, hand, pulled, drops, received, cwire, cancelled>>

-----------------------------------------------------------------------------
Next ==
  \/ \E p \in Producers : Send(p)
  \/ \E t \in Turns : SendControl(t)
  \/ ReceiverThread
  \/ ControlThread
  \/ Receive
  \/ Stop \/ Close
  \/ ProcessNodeInit \/ FromState

(* Fairness: the operating system schedules both threads, stop() runs to its *)
(* end once begun, and a started child process comes up.  Nothing is assumed *)
(* of the producers, of the node's receive() or of stop() being called.      *)
Fairness ==
  /\ WF_vars(ReceiverThread)
  /\ WF_vars(ControlThread)
  /\ WF_vars(Close)
  /\ WF_vars(ProcessNodeInit \/ FromState)

Spec == Init /\ [][Next]_vars /\ Fairness

-----------------------------------------------------------------------------
RECEIVER_POINTS ==
  {"loop", "get", "block", "put", "try", "evict", "retry", "drain", "conflate", "exit"}

\* The program points at which the receiver thread holds a message, per policy.
Holding ==
  IF policy = "block" THEN {"block", "put"}
  ELSE IF policy = "drop_oldest" THEN {"try", "evict", "retry"}
  ELSE {"drain", "conflate"}

(* Every variable has its type, the receiver thread holds a message exactly   *)
(* while it is inside _enqueue for its policy, and the queue never exceeds    *)
(* the maxsize it was built with.                                             *)
TypeOK ==
  /\ policy \in QueuePolicy
  /\ maxsize \in Nat
  /\ home \in {"thread", "parent", "released", "child"}
  /\ snapshot \in Nat
  /\ running \in BOOLEAN
  /\ closed \in BOOLEAN
  /\ wire \in [Producers -> Seq(Message)]
  /\ sent \in [Producers -> Nat]
  /\ rpc \in RECEIVER_POINTS
  /\ hand \in Seq(Message)
  /\ Len(hand) = IF rpc \in Holding THEN 1 ELSE 0
  /\ rpc \in Holding \cup {"loop", "get", "exit"}
  /\ queue \in Seq(Message)
  /\ maxsize > 0 => Len(queue) <= maxsize
  /\ received \in Seq(Message)
  /\ pulled \in Nat
  /\ drops \in Nat
  /\ cwire \in Seq(Turns)
  /\ cpc \in {"loop", "get", "exit"}
  /\ cancelled \subseteq Turns

Increasing(s) ==
  \A i, j \in DOMAIN s : i < j /\ s[i].src = s[j].src => s[i].seq < s[j].seq

Before(s, t) ==
  \A i \in DOMAIN s, j \in DOMAIN t : s[i].src = t[j].src => s[i].seq < t[j].seq

(* Whatever the policy and however receive() interleaves with an eviction,    *)
(* the node sees each producer's messages in the order they were sent and      *)
(* none twice: along the way received - queue - hand - wire the numbers of     *)
(* one producer strictly increase.                                             *)
PerProducerOrder ==
  /\ Increasing(received) /\ Increasing(queue)
  /\ \A p \in Producers : Increasing(wire[p])
  /\ Before(received, queue) /\ Before(received, hand) /\ Before(queue, hand)
  /\ \A p \in Producers :
        Before(received, wire[p]) /\ Before(queue, wire[p]) /\ Before(hand, wire[p])

(* QUEUE_DROPS tells the truth: every message read from the socket is with the *)
(* node, in the queue, in the receiver's hand or counted as dropped.  The one   *)
(* exception is the message _enqueue_block abandons when the mailbox stops.     *)
Accounted == Len(received) + Len(queue) + Len(hand) + drops

LossesCounted ==
  \/ pulled = Accounted
  \/ ~running /\ policy = "block" /\ pulled = Accounted + 1

(* The default policy is lossless: a running block mailbox has every message   *)
(* its threads ever read either queued, delivered or in hand.                  *)
BlockIsLossless ==
  policy = "block" /\ running => pulled = Len(received) + Len(queue) + Len(hand)

(* README: under conflate at most one message is ever queued.                  *)
ConflateKeepsOne == policy = "conflate" => Len(queue) <= 1

(* Dropping only ever trades an older message for a fresher one: whenever the  *)
(* drop counter moves, the receiver still holds the incoming message.  The     *)
(* "queue still full" branch of _enqueue_drop_oldest is never taken, because    *)
(* the receiver thread is the queue's only producer.                            *)
FreshestSurvives == [][drops' > drops => hand' # <<>>]_vars

(* A mailbox loses nothing it does not admit to: losses are counted, a running *)
(* block mailbox and the one message of a conflate mailbox are never lost to    *)
(* the queue, and a counted drop makes place for a fresher message.             *)
NothingLostSilently ==
  [](LossesCounted /\ BlockIsLossless /\ ConflateKeepsOne) /\ FreshestSurvives

(* stop() always gets rid of both threads, even when the queue is full and no   *)
(* one will ever receive() from it again.                                       *)
ThreadsExit == (home = "thread" /\ ~running) ~> (rpc = "exit" /\ cpc = "exit")

(* A cancellation takes effect however large the data backlog is and whether    *)
(* or not the node receives: the control path never waits for the data path.    *)
CancelNotBlocked ==
  \A t \in Turns :
    (\E i \in DOMAIN cwire : cwire[i] = t)
      ~> (t \in cancelled \/ (home = "thread" /\ ~running))

(* As long as the node keeps calling receive() and nobody stops the mailbox,    *)
(* a block mailbox hands the node every message a producer has sent.            *)
EveryMessageDelivered ==
  WF_vars(Receive) =>
    \A p \in Producers, n \in 1..MaxSends :
      (policy = "block" /\ sent[p] >= n)
        ~> (\/ \E i \in DOMAIN received : received[i] = [src |-> p, seq |-> n]
            \/ home = "thread" /\ ~running)

(* README: message_queue_size is the "capacity of the inbound queue" of the     *)
(* node, process node or not.                                                   *)
ConfiguredCapacity == Len(queue) <= MessageQueueSize

-----------------------------------------------------------------------------
(* A producer's messages wait in the queue, in the receiver thread's hand or   *)
(* on the wire.                                                                *)
edge_pending ==
  [p \in Producers |->
     {m \in ToSet(queue) \cup ToSet(hand) \cup ToSet(wire[p]) : m.src = p}]

EdgeView == INSTANCE Edge WITH
  lossy <- policy # "block",
  accepted <- sent,
  pending <- edge_pending,
  delivered <- received,
  discarded <- drops,
  open <- running \/ home # "thread"

(* The ZMQMailbox implements the edge its policy promises (README, Inbound    *)
(* queue policy): backpressure without loss, or counted loss of the stalest   *)
(* messages only, and no loss of any other kind before stop() is called.      *)
ImplementsEdge == EdgeView!Spec
=============================================================================
