---------------------------- MODULE MailboxProofs ----------------------------
(***************************************************************************)
(* Safety of the mailbox for every number of producers, every queue size,   *)
(* every high-water mark and every length of a run.  All properties need    *)
(* the strengthening IInv, whose parts say what the receiver thread may     *)
(* rely on at each program point while receive() runs beside it; under IInv *)
(* every step of the mailbox is a step of Edge, or invisible to it.         *)
(***************************************************************************)
EXTENDS Mailbox, SequenceTheorems, TLAPS

(* After an eviction there is room, and before conflate's put the queue is    *)
(* empty: nobody but the receiver thread puts, so receive() only helps.       *)
RoomWhenNeeded ==
  /\ rpc = "retry" => ~Full
  /\ policy = "conflate" => Len(queue) <= 1
  /\ rpc = "conflate" => queue = <<>>

(* Nothing is sent, let alone read, before a process node's mailbox has left  *)
(* the parent, and nothing is read before the child has rebuilt it.           *)
CleanHandOff ==
  /\ home = "parent" => \A p \in Producers : wire[p] = <<>>
  /\ home \in {"parent", "released"} =>
       queue = <<>> /\ received = <<>> /\ hand = <<>> /\ pulled = 0 /\ drops = 0
  /\ home = "released" => rpc = "exit"
  /\ ~running => home \in {"thread", "released"}

(* Only a stopping block mailbox is short of a message, of one, and its        *)
(* receiver thread will not read another.                                      *)
Counted ==
  /\ policy = "block" => drops = 0
  /\ \/ pulled = Accounted
     \/ /\ ~running
        /\ home = "thread"
        /\ policy = "block"
        /\ rpc \in {"loop", "exit"}
        /\ pulled = Accounted + 1

(* Numbers are handed out by the producers: nothing anywhere is ahead of them. *)
Numbered(s) == \A i \in DOMAIN s : s[i].seq <= sent[s[i].src]

Sourced ==
  /\ Numbered(received) /\ Numbered(queue) /\ Numbered(hand)
  /\ \A p \in Producers : \A i \in DOMAIN wire[p] :
        wire[p][i].src = p /\ wire[p][i].seq <= sent[p]

CountInv == TypeOK /\ RoomWhenNeeded /\ CleanHandOff /\ Counted
OrderInv == Sourced /\ PerProducerOrder
IInv == CountInv /\ OrderInv

-----------------------------------------------------------------------------
(* What the receiver thread, the node and the producers do to a sequence of   *)
(* messages.                                                                   *)

(* A put makes a queue one longer.                                           *)
LEMMA AppendMessage ==
  ASSUME NEW S, NEW s \in Seq(S), NEW m \in S
  PROVE  /\ Append(s, m) \in Seq(S)
         /\ Len(Append(s, m)) = Len(s) + 1
  BY AppendProperties

(* A get takes the first element and leaves the rest.                        *)
LEMMA DropHead ==
  ASSUME NEW S, NEW s \in Seq(S), s # <<>>
  PROVE  /\ Head(s) \in S
         /\ Head(s) = s[1]
         /\ Tail(s) \in Seq(S)
         /\ Len(s) > 0
         /\ Len(Tail(s)) = Len(s) - 1
  BY HeadTailProperties, EmptySeq

(* A thread holds one message.                                               *)
LEMMA Singleton ==
  ASSUME NEW S, NEW m \in S
  PROVE  <<m>> \in Seq(S) /\ Len(<<m>>) = 1 /\ <<m>>[1] = m
  OBVIOUS

(* A fresh mailbox has lost and delivered nothing.                           *)
LEMMA InitCount == Init => CountInv
  <1> SUFFICES ASSUME Init PROVE CountInv
    OBVIOUS
  <1>1. /\ wire \in [Producers -> Seq(Message)]
        /\ hand \in Seq(Message) /\ queue \in Seq(Message) /\ received \in Seq(Message)
        /\ cwire \in Seq(Turns)
        /\ Len(hand) = 0 /\ Len(queue) = 0 /\ Len(received) = 0
    BY EmptySeq DEF Init
  <1>2. policy \in QueuePolicy /\ rpc \notin Holding /\ rpc \in RECEIVER_POINTS
    BY DEF Init, QueuePolicy, Holding, RECEIVER_POINTS
  <1>3. running \in BOOLEAN /\ closed \in BOOLEAN
    BY Zenon DEF Init
  <1>4. maxsize \in Nat /\ home \in {"thread", "parent", "released", "child"}
    BY ConfigAssumption DEF Init
  <1>5. TypeOK
    BY <1>1, <1>2, <1>3, <1>4 DEF Init, TypeOK
  <1>6. RoomWhenNeeded /\ CleanHandOff /\ Counted
    BY <1>1, ConfigAssumption DEF Init, RoomWhenNeeded, CleanHandOff, Counted, Accounted, Full
  <1> QED
    BY <1>5, <1>6 DEF CountInv

(* Inside _enqueue the receiver thread holds exactly one message.            *)
LEMMA HandMessage ==
  ASSUME TypeOK, rpc \in Holding
  PROVE  hand[1] \in Message /\ Len(hand) = 1 /\ hand # <<>>
  <1>1. hand \in Seq(Message) /\ Len(hand) = 1
    BY DEF TypeOK
  <1>2. hand[1] \in Message
    BY <1>1, ElementOfSeq
  <1> QED
    BY <1>1, <1>2, EmptySeq

(* The message in hand moves to the back of a queue that has room for it.      *)
LEMMA EnqueueStep ==
  ASSUME TypeOK, rpc \in Holding, Enqueue, ~Full
  PROVE  /\ queue' \in Seq(Message) /\ Len(queue') = Len(queue) + 1
         /\ hand' \in Seq(Message) /\ Len(hand') = 0 /\ hand' = <<>>
         /\ rpc' = "loop"
         /\ maxsize > 0 => Len(queue') <= maxsize
  <1>1. hand[1] \in Message
    BY HandMessage
  <1>2. queue' \in Seq(Message) /\ Len(queue') = Len(queue) + 1
    BY <1>1, AppendMessage DEF TypeOK, Enqueue
  <1> QED
    BY <1>2, EmptySeq DEF TypeOK, Enqueue, Full

(* A receiver thread holding a message belongs to a mailbox that is in use.    *)
LEMMA HoldingHome ==
  ASSUME CountInv, rpc \in Holding
  PROVE  home \in {"thread", "child"}
  BY HandMessage DEF CountInv, CleanHandOff, TypeOK

(* Putting the message in hand keeps the books, wherever in _enqueue it happens. *)
LEMMA EnqueueCounts ==
  ASSUME CountInv, rpc \in Holding, Enqueue, ~Full,
         policy = "conflate" => queue = <<>>,
         pulled' = pulled, drops' = drops, UNCHANGED <<receiverFrame, wire>>
  PROVE  CountInv'
  <1> USE DEF config, control, receiverFrame
  <1>t. TypeOK
    BY DEF CountInv
  <1>1. /\ queue' \in Seq(Message) /\ Len(queue') = Len(queue) + 1
        /\ hand' \in Seq(Message) /\ Len(hand') = 0 /\ hand' = <<>>
        /\ rpc' = "loop"
        /\ maxsize > 0 => Len(queue') <= maxsize
    BY <1>t, EnqueueStep
  <1>2. TypeOK'
    BY <1>1, <1>t DEF TypeOK, Holding, RECEIVER_POINTS
  <1>3. RoomWhenNeeded'
    BY <1>1, EmptySeq DEF CountInv, RoomWhenNeeded, Enqueue
  <1>4. CleanHandOff'
    BY HoldingHome, <1>t DEF CountInv, CleanHandOff, TypeOK
  <1>5. Accounted' = Accounted
    BY <1>1, HandMessage, <1>t DEF Accounted, TypeOK
  <1>6. Counted'
    BY <1>1, <1>5, <1>t DEF CountInv, Counted, TypeOK
  <1> QED
    BY <1>2, <1>3, <1>4, <1>6 DEF CountInv

(* Every step keeps the types and the account of losses.                     *)
LEMMA CountStep == CountInv /\ [Next]_vars => CountInv'
  <1> SUFFICES ASSUME CountInv, [Next]_vars PROVE CountInv'
    OBVIOUS
  <1>t. TypeOK
    BY DEF CountInv
  <1> USE DEF config, edge, receiver, control, receiverFrame, controlFrame
  <1>1. CASE \E p \in Producers : Send(p)
    <2> PICK p \in Producers : Send(p)
      BY <1>1
    <2>1. [src |-> p, seq |-> sent[p] + 1] \in Message
      BY <1>t DEF Message, TypeOK
    <2>2. wire' \in [Producers -> Seq(Message)] /\ sent' \in [Producers -> Nat]
      BY <2>1, <1>t, AppendMessage DEF Send, TypeOK
    <2>3. TypeOK'
      BY <2>2, <1>t DEF Send, TypeOK, Holding
    <2> QED
      BY <2>3 DEF Send, CountInv, RoomWhenNeeded, CleanHandOff, Counted, Accounted, Full
  <1>2. CASE \E t \in Turns : SendControl(t)
    <2> PICK t \in Turns : SendControl(t)
      BY <1>2
    <2>1. cwire' \in Seq(Turns)
      BY <1>t, AppendMessage DEF SendControl, TypeOK
    <2>2. TypeOK'
      BY <2>1, <1>t DEF SendControl, TypeOK, Holding
    <2> QED
      BY <2>2 DEF SendControl, CountInv, RoomWhenNeeded, CleanHandOff, Counted, Accounted, Full
  <1>3. CASE LoopCheck
    <2>1. TypeOK'
      BY <1>3, <1>t DEF LoopCheck, TypeOK, Holding, RECEIVER_POINTS
    <2> QED
      BY <1>3, <2>1 DEF LoopCheck, CountInv, RoomWhenNeeded, CleanHandOff, Counted, Accounted, Full
  <1>4. CASE \E p \in Producers : Get(p)
    <2> PICK p \in Producers : Get(p)
      BY <1>4
    <2>1. wire[p] \in Seq(Message) /\ wire[p] # <<>>
      BY <1>t DEF Get, TypeOK
    <2>2. Head(wire[p]) \in Message /\ Tail(wire[p]) \in Seq(Message)
      BY <2>1, DropHead
    <2>3. hand' \in Seq(Message) /\ Len(hand') = 1 /\ wire' \in [Producers -> Seq(Message)]
      BY <2>2, <1>t, Singleton DEF Get, TypeOK
    <2>4. rpc' \in Holding' /\ rpc' \in {"block", "try", "drain"} /\ Len(hand) = 0 /\ policy' = policy
      BY <1>t DEF Get, TypeOK, Holding, QueuePolicy
    <2>5. TypeOK'
      <3>1. pulled' \in Nat
        BY <1>t DEF Get, TypeOK
      <3>3. rpc' \in RECEIVER_POINTS
        BY <2>4 DEF RECEIVER_POINTS
      <3>2. UNCHANGED <<receiverFrame, drops, queue>>
        BY DEF Get
      <3> QED
        BY <2>3, <2>4, <3>1, <3>2, <3>3, <1>t DEF TypeOK
    <2>6. RoomWhenNeeded' /\ CleanHandOff'
      BY <2>4, <2>1 DEF Get, CountInv, RoomWhenNeeded, CleanHandOff, Full
    <2>7. Counted'
      BY <2>3, <2>4, <1>t DEF Get, CountInv, Counted, Accounted, TypeOK
    <2> QED
      BY <2>5, <2>6, <2>7 DEF CountInv
  <1>5. CASE GetNone
    <2>1. TypeOK'
      BY <1>5, <1>t DEF GetNone, TypeOK, Holding, RECEIVER_POINTS
    <2> QED
      BY <1>5, <2>1 DEF GetNone, CountInv, RoomWhenNeeded, CleanHandOff, Counted, Accounted, Full
  <1>6. CASE BlockCheck
    <2>1. rpc \in Holding /\ policy = "block"
      BY <1>6, <1>t DEF BlockCheck, TypeOK, Holding, QueuePolicy
    <2>2. Len(hand) = 1 /\ hand' \in Seq(Message) /\ Len(hand') = IF rpc' = "put" THEN 1 ELSE 0
      BY <1>6, <2>1, <1>t, EmptySeq DEF BlockCheck, TypeOK
    <2>3. TypeOK'
      BY <1>6, <2>1, <2>2, <1>t DEF BlockCheck, TypeOK, Holding, RECEIVER_POINTS
    <2>4. home = "thread" \/ running
      BY <1>6, <1>t DEF BlockCheck, CountInv, CleanHandOff, TypeOK
    <2>5. RoomWhenNeeded' /\ CleanHandOff'
      BY <1>6, <2>1, <2>4, <1>t DEF BlockCheck, CountInv, RoomWhenNeeded, CleanHandOff, Full, TypeOK
    <2>6. Counted'
      <3>1. CASE running
        BY <1>6, <3>1, <1>t DEF BlockCheck, CountInv, Counted, Accounted, TypeOK
      <3>2. CASE ~running
        <4>1. pulled = Accounted
          BY <1>6, <3>2 DEF BlockCheck, CountInv, Counted
        <4> QED
          BY <1>6, <3>2, <2>1, <2>2, <2>4, <4>1, <1>t
          DEF BlockCheck, CountInv, Counted, Accounted, TypeOK
      <3> QED
        BY <3>1, <3>2
    <2> QED
      BY <2>3, <2>5, <2>6 DEF CountInv
  <1>7. CASE BlockPut
    <2>1. rpc \in Holding /\ policy = "block" /\ Len(hand) = 1 /\ pulled = Accounted
      BY <1>7, <1>t DEF BlockPut, CountInv, Counted, TypeOK, Holding, QueuePolicy
    <2>2. CASE Full
      <3>1. TypeOK'
        BY <1>7, <2>1, <2>2, <1>t DEF BlockPut, TypeOK, Holding, RECEIVER_POINTS
      <3> QED
        BY <1>7, <2>1, <2>2, <3>1, <1>t
        DEF BlockPut, CountInv, RoomWhenNeeded, CleanHandOff, Counted, Accounted, Full
    <2>3. CASE ~Full
      BY <1>7, <2>1, <2>3, EnqueueCounts DEF BlockPut
    <2> QED
      BY <2>2, <2>3
  <1>8. CASE DropTry
    <2>1. rpc \in Holding /\ policy = "drop_oldest" /\ Len(hand) = 1 /\ pulled = Accounted
      BY <1>8, <1>t DEF DropTry, CountInv, Counted, TypeOK, Holding, QueuePolicy
    <2>2. CASE Full
      <3>1. TypeOK'
        BY <1>8, <2>1, <2>2, <1>t DEF DropTry, TypeOK, Holding, RECEIVER_POINTS
      <3> QED
        BY <1>8, <2>1, <2>2, <3>1, <1>t
        DEF DropTry, CountInv, RoomWhenNeeded, CleanHandOff, Counted, Accounted, Full
    <2>3. CASE ~Full
      BY <1>8, <2>1, <2>3, EnqueueCounts DEF DropTry
    <2> QED
      BY <2>2, <2>3
  <1>9. CASE DropEvict
    <2>1. rpc \in Holding /\ policy = "drop_oldest" /\ pulled = Accounted
      BY <1>9, <1>t DEF DropEvict, CountInv, Counted, TypeOK, Holding, QueuePolicy
    <2>2. CASE queue # <<>>
      <3>1. /\ queue' \in Seq(Message) /\ Len(queue) > 0 /\ Len(queue') = Len(queue) - 1
            /\ drops' = drops + 1
        BY <1>9, <2>2, <1>t, DropHead DEF DropEvict, TypeOK
      <3>2. TypeOK'
        BY <1>9, <2>1, <3>1, <1>t DEF DropEvict, TypeOK, Holding, RECEIVER_POINTS
      <3>3. RoomWhenNeeded'
        BY <1>9, <2>1, <3>1, <1>t DEF DropEvict, RoomWhenNeeded, Full, TypeOK
      <3>4. CleanHandOff'
        BY <1>9, <2>1, HoldingHome, <1>t DEF DropEvict, CountInv, CleanHandOff, TypeOK
      <3>5. Counted'
        <4>1. Accounted' = Accounted
          BY <1>9, <3>1, <1>t DEF DropEvict, Accounted, TypeOK
        <4> QED
          BY <1>9, <2>1, <4>1 DEF DropEvict, Counted
      <3> QED
        BY <3>2, <3>3, <3>4, <3>5 DEF CountInv
    <2>3. CASE queue = <<>>
      <3>1. UNCHANGED <<queue, drops>>
        BY <1>9, <2>3 DEF DropEvict
      <3>2. TypeOK'
        BY <1>9, <2>1, <3>1, <1>t DEF DropEvict, TypeOK, Holding, RECEIVER_POINTS
      <3>3. RoomWhenNeeded'
        <4>1. Len(queue) = 0 /\ maxsize \in Nat
          BY <2>3, <1>t, EmptySeq DEF TypeOK
        <4> QED
          BY <1>9, <2>1, <3>1, <4>1 DEF DropEvict, RoomWhenNeeded, Full
      <3>4. CleanHandOff' /\ Counted'
        BY <1>9, <2>1, <3>1, HoldingHome, <1>t
        DEF DropEvict, CountInv, CleanHandOff, Counted, Accounted, TypeOK
      <3> QED
        BY <3>2, <3>3, <3>4 DEF CountInv
    <2> QED
      BY <2>2, <2>3
  <1>10. CASE DropRetry
    <2>1. rpc \in Holding /\ policy = "drop_oldest" /\ ~Full
      BY <1>10, <1>t DEF DropRetry, CountInv, RoomWhenNeeded, TypeOK, Holding, QueuePolicy
    <2> QED
      BY <1>10, <2>1, EnqueueCounts DEF DropRetry
  <1>11. CASE ConflateDrain
    <2>1. rpc \in Holding /\ policy = "conflate" /\ pulled = Accounted
      BY <1>11, <1>t DEF ConflateDrain, CountInv, Counted, TypeOK, Holding, QueuePolicy
    <2>2. CASE queue # <<>>
      <3>1. /\ queue' \in Seq(Message) /\ Len(queue) > 0 /\ Len(queue') = Len(queue) - 1
            /\ drops' = drops + 1 /\ rpc' = rpc
        BY <1>11, <2>2, <1>t, DropHead DEF ConflateDrain, TypeOK
      <3>2. TypeOK'
        BY <1>11, <2>1, <3>1, <1>t DEF ConflateDrain, TypeOK, Holding, RECEIVER_POINTS
      <3>3. RoomWhenNeeded'
        BY <1>11, <3>1, <1>t DEF ConflateDrain, CountInv, RoomWhenNeeded, TypeOK
      <3>4. CleanHandOff'
        BY <1>11, <2>1, HoldingHome, <1>t DEF ConflateDrain, CountInv, CleanHandOff, TypeOK
      <3>5. Counted'
        <4>1. Accounted' = Accounted
          BY <1>11, <3>1, <1>t DEF ConflateDrain, Accounted, TypeOK
        <4> QED
          BY <1>11, <2>1, <4>1 DEF ConflateDrain, Counted
      <3> QED
        BY <3>2, <3>3, <3>4, <3>5 DEF CountInv
    <2>3. CASE queue = <<>>
      <3>1. UNCHANGED <<queue, drops>> /\ rpc' = "conflate"
        BY <1>11, <2>3 DEF ConflateDrain
      <3>2. TypeOK'
        BY <1>11, <2>1, <3>1, <1>t DEF ConflateDrain, TypeOK, Holding, RECEIVER_POINTS
      <3>3. RoomWhenNeeded'
        BY <1>11, <2>3, <3>1, EmptySeq DEF ConflateDrain, RoomWhenNeeded
      <3>4. CleanHandOff' /\ Counted'
        BY <1>11, <2>1, <3>1, HoldingHome, <1>t
        DEF ConflateDrain, CountInv, CleanHandOff, Counted, Accounted, TypeOK
      <3> QED
        BY <3>2, <3>3, <3>4 DEF CountInv
    <2> QED
      BY <2>2, <2>3
  <1>12. CASE ConflatePut
    <2>1. rpc \in Holding /\ policy = "conflate" /\ queue = <<>>
      BY <1>12, <1>t DEF ConflatePut, CountInv, RoomWhenNeeded, TypeOK, Holding, QueuePolicy
    <2>2. ~Full
      BY <2>1, <1>t, EmptySeq DEF Full, TypeOK
    <2> QED
      BY <1>12, <2>1, <2>2, EnqueueCounts DEF ConflatePut
  <1>13. CASE ControlThread
    <2>1. cwire' \in Seq(Turns) /\ cancelled' \subseteq Turns /\ cpc' \in {"loop", "get", "exit"}
      BY <1>13, <1>t, DropHead DEF ControlThread, ControlLoopCheck, ControlGet, ControlGetNone, TypeOK
    <2>2. UNCHANGED controlFrame
      BY <1>13 DEF ControlThread, ControlLoopCheck, ControlGet, ControlGetNone
    <2>3. TypeOK'
      BY <2>1, <2>2, <1>t DEF TypeOK, Holding
    <2> QED
      BY <2>2, <2>3 DEF CountInv, RoomWhenNeeded, CleanHandOff, Counted, Accounted, Full
  <1>14. CASE Receive
    <2>1. /\ Head(queue) \in Message /\ Len(queue) > 0
          /\ queue' \in Seq(Message) /\ Len(queue') = Len(queue) - 1
      BY <1>14, <1>t, DropHead DEF Receive, TypeOK
    <2>2. received' \in Seq(Message) /\ Len(received') = Len(received) + 1
      BY <1>14, <2>1, <1>t, AppendMessage DEF Receive, TypeOK
    <2>3. TypeOK'
      BY <1>14, <2>1, <2>2, <1>t DEF Receive, TypeOK, Holding
    <2>4. RoomWhenNeeded'
      BY <1>14, <2>1, <1>t, EmptySeq DEF Receive, CountInv, RoomWhenNeeded, Full, TypeOK
    <2>5. CleanHandOff'
      BY <1>14, <1>t DEF Receive, CountInv, CleanHandOff, TypeOK
    <2>6. Accounted' = Accounted
      BY <1>14, <2>1, <2>2, <1>t DEF Receive, Accounted, TypeOK
    <2>7. Counted'
      BY <1>14, <2>6, <1>t DEF Receive, CountInv, Counted, TypeOK
    <2> QED
      BY <2>3, <2>4, <2>5, <2>7 DEF CountInv
  <1>15. CASE Stop
    <2>1. TypeOK'
      BY <1>15, <1>t DEF Stop, TypeOK, Holding
    <2> QED
      BY <1>15, <2>1, <1>t DEF Stop, CountInv, RoomWhenNeeded, CleanHandOff, Counted, Accounted, Full, TypeOK
  <1>16. CASE Close
    <2>1. wire' \in [Producers -> Seq(Message)] /\ cwire' \in Seq(Turns)
      BY <1>16, EmptySeq DEF Close
    <2>2. TypeOK'
      BY <1>16, <2>1, <1>t DEF Close, TypeOK, Holding
    <2> QED
      BY <1>16, <2>2, <1>t DEF Close, CountInv, RoomWhenNeeded, CleanHandOff, Counted, Accounted, Full, TypeOK
  <1>17. CASE ProcessNodeInit
    <2>1. Len(queue) = 0 /\ Len(hand) = 0
      BY <1>17, EmptySeq DEF ProcessNodeInit, CountInv, CleanHandOff
    <2>2. TypeOK'
      <3>1. rpc' \in RECEIVER_POINTS /\ rpc' = "exit" /\ rpc' \notin Holding'
        BY <1>17 DEF ProcessNodeInit, Holding, RECEIVER_POINTS
      <3>2. running' \in BOOLEAN
        BY <1>17, Zenon DEF ProcessNodeInit
      <3> QED
        BY <1>17, <2>1, <3>1, <3>2, <1>t DEF ProcessNodeInit, TypeOK
    <2>3. RoomWhenNeeded' /\ CleanHandOff'
      BY <1>17, <2>2 DEF ProcessNodeInit, CountInv, RoomWhenNeeded, CleanHandOff, TypeOK
    <2>4. Counted'
      BY <1>17, <1>t DEF ProcessNodeInit, CountInv, CleanHandOff, Counted, Accounted, TypeOK
    <2> QED
      BY <2>2, <2>3, <2>4 DEF CountInv
  <1>18. CASE FromState
    <2>1. queue = <<>> /\ Len(queue) = 0 /\ hand = <<>> /\ Len(hand) = 0 /\ queue' = queue
      BY <1>18, EmptySeq DEF FromState, CountInv, CleanHandOff
    <2>2. TypeOK'
      BY <1>18, <2>1, <1>t DEF FromState, TypeOK, Holding, RECEIVER_POINTS
    <2>3. RoomWhenNeeded' /\ CleanHandOff'
      BY <1>18, <2>1, <2>2 DEF FromState, CountInv, RoomWhenNeeded, CleanHandOff, TypeOK
    <2>4. Counted'
      BY <1>18, <2>1, <1>t DEF FromState, CountInv, CleanHandOff, Counted, Accounted, TypeOK
    <2> QED
      BY <2>2, <2>3, <2>4 DEF CountInv
  <1>19. CASE UNCHANGED vars
    <2>1. TypeOK'
      BY <1>19, <1>t DEF vars, TypeOK, Holding
    <2> QED
      BY <1>19, <2>1 DEF vars, CountInv, RoomWhenNeeded, CleanHandOff, Counted, Accounted, Full
  <1> QED
    BY <1>1, <1>2, <1>3, <1>4, <1>5, <1>6, <1>7, <1>8, <1>9, <1>10, <1>11, <1>12, <1>13, <1>14,
       <1>15, <1>16, <1>17, <1>18, <1>19 DEF Next, ReceiverThread

-----------------------------------------------------------------------------
(* Order: how Increasing, Before and Numbered behave under Append and Tail.    *)

(* A message later than all of a sequence may be put behind it.              *)
LEMMA OrderAppend ==
  ASSUME NEW s \in Seq(Message), NEW t \in Seq(Message), NEW m \in Message
  PROVE  /\ Increasing(s) /\ Before(s, <<m>>) => Increasing(Append(s, m))
         /\ Before(s, t) /\ Before(<<m>>, t) => Before(Append(s, m), t)
         /\ Before(t, s) /\ Before(t, <<m>>) => Before(t, Append(s, m))
  <1>1. /\ Append(s, m) \in Seq(Message) /\ Len(Append(s, m)) = Len(s) + 1
        /\ \A i \in 1..Len(s) : Append(s, m)[i] = s[i]
        /\ Append(s, m)[Len(s) + 1] = m
    BY AppendProperties
  <1>2. /\ DOMAIN s = 1..Len(s) /\ DOMAIN t = 1..Len(t) /\ Len(s) \in Nat
        /\ DOMAIN Append(s, m) = 1..(Len(s) + 1)
        /\ DOMAIN <<m>> = {1} /\ <<m>>[1] = m
    BY <1>1, LenProperties
  <1>3. \A i \in DOMAIN Append(s, m) : i \in DOMAIN s \/ i = Len(s) + 1
    BY <1>2
  <1>4. Increasing(s) /\ Before(s, <<m>>) => Increasing(Append(s, m))
    BY <1>1, <1>2, <1>3 DEF Increasing, Before
  <1>5. Before(s, t) /\ Before(<<m>>, t) => Before(Append(s, m), t)
    BY <1>1, <1>2, <1>3 DEF Before
  <1>6. Before(t, s) /\ Before(t, <<m>>) => Before(t, Append(s, m))
    BY <1>1, <1>2, <1>3 DEF Before
  <1> QED
    BY <1>4, <1>5, <1>6

(* What is left after a get is as ordered, and the message taken comes before it.*)
LEMMA OrderTail ==
  ASSUME NEW s \in Seq(Message), s # <<>>, NEW t \in Seq(Message)
  PROVE  /\ Increasing(s) => Increasing(Tail(s)) /\ Before(<<Head(s)>>, Tail(s))
         /\ Before(s, t) => Before(Tail(s), t) /\ Before(<<Head(s)>>, t)
         /\ Before(t, s) => Before(t, Tail(s)) /\ Before(t, <<Head(s)>>)
  <1>1. /\ Tail(s) \in Seq(Message) /\ Len(Tail(s)) = Len(s) - 1
        /\ \A i \in 1..Len(Tail(s)) : Tail(s)[i] = s[i + 1]
        /\ Len(s) \in Nat /\ Len(s) > 0
        /\ Head(s) = s[1] /\ Head(s) \in Message
    BY HeadTailProperties, DropHead, LenProperties
  <1>2. /\ DOMAIN s = 1..Len(s) /\ DOMAIN Tail(s) = 1..(Len(s) - 1)
        /\ DOMAIN <<Head(s)>> = {1} /\ <<Head(s)>>[1] = s[1]
    BY <1>1, LenProperties
  <1>3. \A i \in DOMAIN Tail(s) : i + 1 \in DOMAIN s /\ Tail(s)[i] = s[i + 1] /\ i \in Nat /\ 1 < i + 1
    BY <1>1, <1>2
  <1>4. 1 \in DOMAIN s
    BY <1>1, <1>2
  <1>5. Increasing(s) => Increasing(Tail(s)) /\ Before(<<Head(s)>>, Tail(s))
    <2> SUFFICES ASSUME Increasing(s) PROVE Increasing(Tail(s)) /\ Before(<<Head(s)>>, Tail(s))
      OBVIOUS
    <2>1. Increasing(Tail(s))
      BY <1>3 DEF Increasing
    <2>2. Before(<<Head(s)>>, Tail(s))
      BY <1>2, <1>3, <1>4 DEF Increasing, Before
    <2> QED
      BY <2>1, <2>2
  <1>6. Before(s, t) => Before(Tail(s), t) /\ Before(<<Head(s)>>, t)
    BY <1>2, <1>3, <1>4 DEF Before
  <1>7. Before(t, s) => Before(t, Tail(s)) /\ Before(t, <<Head(s)>>)
    BY <1>2, <1>3, <1>4 DEF Before
  <1> QED
    BY <1>5, <1>6, <1>7

(* Nothing is out of order in an empty queue.                                *)
LEMMA OrderEmpty ==
  ASSUME NEW s
  PROVE  Increasing(<<>>) /\ Before(<<>>, s) /\ Before(s, <<>>)
  BY DEF Increasing, Before

(* A hand with one message is the sequence of that message.                  *)
LEMMA OrderSingleton ==
  ASSUME NEW s \in Seq(Message), Len(s) = 1
  PROVE  s = <<s[1]>> /\ s[1] \in Message
  <1>1. DOMAIN s = 1..1 /\ s[1] \in Message
    <2>1. DOMAIN s = 1..1 /\ 1 \in 1..1
      BY LenProperties
    <2> QED
      BY <2>1, ElementOfSeq
  <1>2. <<s[1]>> \in Seq(Message) /\ Len(<<s[1]>>) = 1 /\ <<s[1]>>[1] = s[1]
    BY <1>1
  <1> QED
    BY <1>1, <1>2, SeqEqual

(* Moving messages does not put them ahead of their producers' numbers.      *)
LEMMA NumberedMoves ==
  ASSUME NEW s \in Seq(Message), Numbered(s)
  PROVE  /\ \A m \in Message : m.seq <= sent[m.src] => Numbered(Append(s, m)) /\ Numbered(<<m>>)
         /\ s # <<>> => Numbered(Tail(s)) /\ Head(s).seq <= sent[Head(s).src]
  <1>1. ASSUME NEW m \in Message, m.seq <= sent[m.src]
        PROVE  Numbered(Append(s, m)) /\ Numbered(<<m>>)
    <2>1. /\ Append(s, m) \in Seq(Message) /\ Len(Append(s, m)) = Len(s) + 1
          /\ \A i \in 1..Len(s) : Append(s, m)[i] = s[i]
          /\ Append(s, m)[Len(s) + 1] = m
      BY AppendProperties
    <2>2. DOMAIN s = 1..Len(s) /\ Len(s) \in Nat /\ DOMAIN Append(s, m) = 1..(Len(s) + 1)
      BY <2>1, LenProperties
    <2> QED
      BY <1>1, <2>1, <2>2 DEF Numbered
  <1>2. ASSUME s # <<>>
        PROVE  Numbered(Tail(s)) /\ Head(s).seq <= sent[Head(s).src]
    <2>1. /\ Len(Tail(s)) = Len(s) - 1 /\ Tail(s) \in Seq(Message)
          /\ \A i \in 1..Len(Tail(s)) : Tail(s)[i] = s[i + 1]
          /\ Len(s) \in Nat /\ Len(s) > 0 /\ Head(s) = s[1]
      BY <1>2, HeadTailProperties, DropHead, LenProperties
    <2>2. DOMAIN s = 1..Len(s) /\ DOMAIN Tail(s) = 1..(Len(s) - 1)
      BY <2>1, LenProperties
    <2> QED
      BY <2>1, <2>2 DEF Numbered
  <1> QED
    BY <1>1, <1>2

(* Steps that move no message keep the order.                                *)
LEMMA KeepOrder ==
  ASSUME OrderInv, UNCHANGED <<received, queue, hand, wire, sent>>
  PROVE  OrderInv'
  BY DEF OrderInv, Sourced, Numbered, PerProducerOrder, Increasing, Before

(* Putting the message in hand behind the queue keeps the order.             *)
LEMMA EnqueueOrder ==
  ASSUME TypeOK, OrderInv, rpc \in Holding, Enqueue, UNCHANGED <<received, wire, sent>>
  PROVE  OrderInv'
  <1>1. /\ hand = <<hand[1]>> /\ hand[1] \in Message /\ Len(hand) = 1
        /\ queue' = Append(queue, hand[1]) /\ hand' = <<>>
    BY HandMessage, OrderSingleton DEF TypeOK, Enqueue
  <1>2. \A p \in Producers : wire[p] \in Seq(Message)
    BY DEF TypeOK
  <1>3. queue \in Seq(Message) /\ received \in Seq(Message) /\ queue' \in Seq(Message)
    BY <1>1, AppendMessage DEF TypeOK
  <1>4. Increasing(queue')
    BY <1>1, <1>3, OrderAppend DEF OrderInv, PerProducerOrder
  <1>5. Before(received, queue')
    BY <1>1, <1>3, OrderAppend DEF OrderInv, PerProducerOrder
  <1>6. \A p \in Producers : Before(queue', wire[p])
    BY <1>1, <1>2, <1>3, OrderAppend DEF OrderInv, PerProducerOrder
  <1>7. Before(received, hand') /\ Before(queue', hand') /\ \A p \in Producers : Before(hand', wire[p])
    BY <1>1, OrderEmpty
  <1>8. PerProducerOrder'
    BY <1>4, <1>5, <1>6, <1>7 DEF OrderInv, PerProducerOrder, Increasing, Before
  <1>9. hand[1].seq <= sent[hand[1].src]
    BY <1>1, LenProperties DEF OrderInv, Sourced, Numbered, TypeOK
  <1>10. Numbered(queue') /\ Numbered(hand')
    BY <1>1, <1>3, <1>9, NumberedMoves DEF OrderInv, Sourced, Numbered
  <1>11. Sourced'
    BY <1>10 DEF OrderInv, Sourced, Numbered
  <1> QED
    BY <1>8, <1>11 DEF OrderInv

(* Evicting the oldest message of the queue keeps the order.                 *)
LEMMA EvictOrder ==
  ASSUME TypeOK, OrderInv, queue # <<>>, queue' = Tail(queue), UNCHANGED <<received, hand, wire, sent>>
  PROVE  OrderInv'
  <1>1. /\ queue \in Seq(Message) /\ received \in Seq(Message) /\ hand \in Seq(Message)
        /\ \A p \in Producers : wire[p] \in Seq(Message)
    BY DEF TypeOK
  <1>2. Increasing(queue') /\ Before(received, queue') /\ Before(queue', hand)
    BY <1>1, OrderTail DEF OrderInv, PerProducerOrder
  <1>3. \A p \in Producers : Before(queue', wire[p])
    BY <1>1, OrderTail DEF OrderInv, PerProducerOrder
  <1>4. PerProducerOrder'
    BY <1>2, <1>3 DEF OrderInv, PerProducerOrder, Increasing, Before
  <1>5. Numbered(queue')
    BY <1>1, NumberedMoves DEF OrderInv, Sourced
  <1>6. Sourced'
    BY <1>5 DEF OrderInv, Sourced, Numbered
  <1> QED
    BY <1>4, <1>6 DEF OrderInv

(* Abandoning the message in hand keeps the order.                           *)
LEMMA AbandonOrder ==
  ASSUME OrderInv, hand' = <<>>, UNCHANGED <<received, queue, wire, sent>>
  PROVE  OrderInv'
  BY DEF OrderInv, Sourced, Numbered, PerProducerOrder, Increasing, Before

(* A message is its producer and its number.                                 *)
LEMMA MessageFields ==
  /\ \A m \in Message : m.src \in Producers /\ m.seq \in Nat
  /\ \A p \in Producers, n \in Nat : [src |-> p, seq |-> n] \in Message
  BY DEF Message

(* The next message of a producer carries a number above all it ever sent.     *)
LEMMA SendOrder ==
  ASSUME TypeOK, OrderInv, NEW p \in Producers, Send(p)
  PROVE  OrderInv'
  <1> DEFINE m == [src |-> p, seq |-> sent[p] + 1]
  <1>1. /\ m \in Message /\ m.src = p /\ m.seq = sent[p] + 1 /\ sent[p] \in Nat
        /\ queue \in Seq(Message) /\ received \in Seq(Message) /\ hand \in Seq(Message)
        /\ \A q \in Producers : wire[q] \in Seq(Message)
    BY MessageFields DEF TypeOK
  <1>2. /\ UNCHANGED <<received, queue, hand>>
        /\ wire'[p] = Append(wire[p], m) /\ \A q \in Producers \ {p} : wire'[q] = wire[q]
        /\ sent'[p] = sent[p] + 1 /\ \A q \in Producers \ {p} : sent'[q] = sent[q]
    BY DEF Send, TypeOK, receiver
  <1>3. ASSUME NEW s \in Seq(Message), Numbered(s)
        PROVE  Before(s, <<m>>) /\ \A i \in DOMAIN s : s[i].seq <= sent'[s[i].src]
    <2>1. \A i \in DOMAIN s : s[i] \in Message /\ s[i].src \in Producers /\ s[i].seq \in Nat
      BY LenProperties, ElementOfSeq, MessageFields
    <2>2. DOMAIN <<m>> = {1} /\ <<m>>[1] = m
      OBVIOUS
    <2>3. Before(s, <<m>>)
      BY <1>1, <1>3, <2>1, <2>2 DEF Before, Numbered
    <2>4. \A i \in DOMAIN s : s[i].seq <= sent'[s[i].src]
      <3> TAKE i \in DOMAIN s
      <3>1. s[i].seq <= sent[s[i].src] /\ s[i].src \in Producers /\ s[i].seq \in Nat
        BY <1>3, <2>1 DEF Numbered
      <3>2. CASE s[i].src = p
        BY <1>1, <1>2, <3>1, <3>2
      <3>3. CASE s[i].src # p
        <4>1. sent'[s[i].src] = sent[s[i].src]
          BY <1>2, <3>1, <3>3
        <4> QED
          BY <3>1, <4>1
      <3> QED
        BY <3>2, <3>3
    <2> QED
      BY <2>3, <2>4
  <1>4. Numbered(received)' /\ Numbered(queue)' /\ Numbered(hand)'
    BY <1>1, <1>2, <1>3 DEF OrderInv, Sourced, Numbered
  <1>5. Numbered(wire[p])
    BY <1>1 DEF OrderInv, Sourced, Numbered
  <1>6. Increasing(wire'[p])
    BY <1>1, <1>2, <1>3, <1>5, OrderAppend DEF OrderInv, PerProducerOrder
  <1>7. Before(received, wire'[p]) /\ Before(queue, wire'[p]) /\ Before(hand, wire'[p])
    BY <1>1, <1>2, <1>3, OrderAppend DEF OrderInv, PerProducerOrder, Sourced
  <1>8. PerProducerOrder'
    <2>1. \A q \in Producers : Increasing(wire'[q])
      BY <1>2, <1>6 DEF OrderInv, PerProducerOrder
    <2>2. \A q \in Producers :
             Before(received, wire'[q]) /\ Before(queue, wire'[q]) /\ Before(hand, wire'[q])
      BY <1>2, <1>7 DEF OrderInv, PerProducerOrder
    <2>3. /\ Increasing(received)' /\ Increasing(queue)'
          /\ Before(received, queue)' /\ Before(received, hand)' /\ Before(queue, hand)'
      BY <1>2 DEF OrderInv, PerProducerOrder, Increasing, Before
    <2> QED
      BY <1>2, <2>1, <2>2, <2>3 DEF PerProducerOrder, Increasing, Before
  <1>9. \A q \in Producers : \A i \in DOMAIN wire'[q] :
           wire'[q][i].src = q /\ wire'[q][i].seq <= sent'[q]
    <2>1. /\ \A i \in DOMAIN wire'[p] : i \in DOMAIN wire[p] \/ i = Len(wire[p]) + 1
          /\ \A i \in DOMAIN wire[p] : wire'[p][i] = wire[p][i]
          /\ wire'[p][Len(wire[p]) + 1] = m
      BY <1>1, <1>2, AppendProperties, LenProperties
    <2>2. \A i \in DOMAIN wire[p] : wire[p][i].seq \in Nat
      BY <1>1, LenProperties, ElementOfSeq, MessageFields
    <2>3. \A i \in DOMAIN wire'[p] : wire'[p][i].src = p /\ wire'[p][i].seq <= sent'[p]
      <3>1. sent[p] \in Nat /\ sent'[p] = sent[p] + 1 /\ m.src = p /\ m.seq = sent'[p]
        BY <1>1, <1>2
      <3>2. \A i \in DOMAIN wire[p] : wire[p][i].src = p /\ wire[p][i].seq <= sent[p]
        BY DEF OrderInv, Sourced
      <3>3. \A i \in DOMAIN wire[p] : wire[p][i].src = p /\ wire[p][i].seq <= sent'[p]
        BY ONLY <2>2, <3>1, <3>2
      <3> QED
        BY ONLY <2>1, <3>1, <3>3
    <2> QED
      BY <1>2, <2>3 DEF OrderInv, Sourced
  <1> QED
    BY <1>4, <1>8, <1>9 DEF OrderInv, Sourced

(* Reading the oldest message of an edge takes it before the rest of the edge   *)
(* and after everything that was read earlier.                                  *)
LEMMA GetOrder ==
  ASSUME TypeOK, OrderInv, NEW p \in Producers, Get(p), Len(hand) = 0
  PROVE  OrderInv'
  <1>1. /\ queue \in Seq(Message) /\ received \in Seq(Message)
        /\ \A q \in Producers : wire[q] \in Seq(Message)
        /\ wire[p] # <<>>
    BY DEF TypeOK, Get
  <1>2. /\ UNCHANGED <<received, queue, sent>> /\ hand' = <<Head(wire[p])>>
        /\ wire'[p] = Tail(wire[p]) /\ \A q \in Producers \ {p} : wire'[q] = wire[q]
    BY DEF Get, TypeOK, receiverFrame
  <1>3. Head(wire[p]) = wire[p][1] /\ 1 \in DOMAIN wire[p] /\ Head(wire[p]) \in Message
    BY <1>1, DropHead, LenProperties
  <1>4. Head(wire[p]).src = p /\ Head(wire[p]).seq <= sent[p]
    BY <1>3 DEF OrderInv, Sourced
  <1>5. /\ Increasing(wire'[p]) /\ Before(hand', wire'[p])
        /\ Before(received, wire'[p]) /\ Before(received, hand')
        /\ Before(queue, wire'[p]) /\ Before(queue, hand')
    BY <1>1, <1>2, OrderTail DEF OrderInv, PerProducerOrder
  <1>6. \A q \in Producers \ {p} : Before(hand', wire[q])
    <2>1. DOMAIN hand' = {1} /\ hand'[1].src = p
      BY <1>2, <1>4
    <2> QED
      BY <2>1 DEF Before, OrderInv, Sourced
  <1>7. PerProducerOrder'
    <2>1. \A q \in Producers : Increasing(wire'[q])
      BY <1>2, <1>5 DEF OrderInv, PerProducerOrder
    <2>2. \A q \in Producers :
             Before(received, wire'[q]) /\ Before(queue, wire'[q]) /\ Before(hand', wire'[q])
      BY <1>2, <1>5, <1>6 DEF OrderInv, PerProducerOrder
    <2>3. Increasing(received) /\ Increasing(queue) /\ Before(received, queue)
      BY DEF OrderInv, PerProducerOrder
    <2> QED
      BY <1>2, <1>5, <2>1, <2>2, <2>3 DEF PerProducerOrder, Increasing, Before
  <1>8. Numbered(hand)'
    <2>1. DOMAIN hand' = {1} /\ hand'[1] = Head(wire[p])
      BY <1>2
    <2> QED
      BY <1>2, <1>4, <2>1 DEF Numbered
  <1>9. \A q \in Producers : \A i \in DOMAIN wire'[q] :
           wire'[q][i].src = q /\ wire'[q][i].seq <= sent[q]
    <2>1. \A i \in DOMAIN Tail(wire[p]) : i + 1 \in DOMAIN wire[p] /\ Tail(wire[p])[i] = wire[p][i + 1]
      BY <1>1, HeadTailProperties, LenProperties
    <2>2. \A i \in DOMAIN wire'[p] : wire'[p][i].src = p /\ wire'[p][i].seq <= sent[p]
      BY <1>2, <2>1 DEF OrderInv, Sourced
    <2> QED
      BY <1>2, <2>2 DEF OrderInv, Sourced
  <1>10. Numbered(received)' /\ Numbered(queue)'
    BY <1>2 DEF OrderInv, Sourced, Numbered
  <1> QED
    BY <1>2, <1>7, <1>8, <1>9, <1>10 DEF OrderInv, Sourced

(* The message handed to the node comes after all it has seen.               *)
LEMMA ReceiveOrder ==
  ASSUME TypeOK, OrderInv, Receive
  PROVE  OrderInv'
  <1> DEFINE m == Head(queue)
  <1>1. /\ queue \in Seq(Message) /\ received \in Seq(Message) /\ hand \in Seq(Message)
        /\ \A q \in Producers : wire[q] \in Seq(Message)
        /\ queue # <<>>
    BY DEF TypeOK, Receive
  <1>2. /\ UNCHANGED <<hand, wire, sent>>
        /\ received' = Append(received, m) /\ queue' = Tail(queue)
    BY DEF Receive, receiver, edge
  <1>3. m \in Message /\ Tail(queue) \in Seq(Message) /\ m.seq <= sent[m.src]
    BY <1>1, DropHead, NumberedMoves DEF OrderInv, Sourced
  <1>4. /\ Increasing(queue') /\ Before(<<m>>, queue')
        /\ Before(received, queue') /\ Before(received, <<m>>)
        /\ Before(queue', hand) /\ Before(<<m>>, hand)
    BY <1>1, <1>2, OrderTail DEF OrderInv, PerProducerOrder
  <1>5. Increasing(received') /\ Before(received', queue') /\ Before(received', hand)
    BY <1>1, <1>2, <1>3, <1>4, OrderAppend DEF OrderInv, PerProducerOrder
  <1>6. \A p \in Producers : Before(queue', wire[p]) /\ Before(<<m>>, wire[p])
    BY <1>1, <1>2, OrderTail DEF OrderInv, PerProducerOrder
  <1>7. \A p \in Producers : Before(received', wire[p])
    BY <1>1, <1>2, <1>3, <1>6, OrderAppend DEF OrderInv, PerProducerOrder
  <1>8. PerProducerOrder'
    <2>1. Before(queue', hand') /\ Before(received', hand') /\ \A p \in Producers : wire'[p] = wire[p]
      BY <1>2, <1>4, <1>5 DEF Before
    <2>2. \A p \in Producers : /\ Increasing(wire[p]) /\ Before(hand, wire[p])
                               /\ Before(queue', wire[p]) /\ Before(received', wire[p])
      BY <1>6, <1>7 DEF OrderInv, PerProducerOrder
    <2>3. Increasing(received)' /\ Increasing(queue)'
      BY ONLY <1>4, <1>5 DEF Increasing
    <2>4. Before(received, queue)' /\ Before(received, hand)' /\ Before(queue, hand)'
      BY ONLY <1>5, <2>1 DEF Before
    <2>5. \A p \in Producers : Increasing(wire'[p]) /\ Before(received', wire'[p])
                               /\ Before(queue', wire'[p]) /\ Before(hand', wire'[p])
      BY ONLY <1>2, <2>1, <2>2
    <2> QED
      BY ONLY <2>3, <2>4, <2>5 DEF PerProducerOrder, Increasing, Before
  <1>9. Numbered(received') /\ Numbered(queue')
    BY <1>1, <1>2, <1>3, NumberedMoves DEF OrderInv, Sourced
  <1>10. Sourced'
    BY <1>2, <1>9 DEF OrderInv, Sourced, Numbered
  <1> QED
    BY <1>8, <1>10 DEF OrderInv

(* Every step keeps the order of each producer.                              *)
LEMMA OrderStep == IInv /\ [Next]_vars => OrderInv'
  <1> SUFFICES ASSUME CountInv, OrderInv, [Next]_vars PROVE OrderInv'
    BY DEF IInv
  <1>t. TypeOK
    BY DEF CountInv
  <1> USE DEF config, edge, receiver, control, receiverFrame, controlFrame
  <1>1. CASE \E p \in Producers : Send(p)
    BY <1>1, <1>t, SendOrder
  <1>2. CASE \E t \in Turns : SendControl(t)
    BY <1>2, KeepOrder DEF SendControl
  <1>3. CASE LoopCheck \/ GetNone
    BY <1>3, KeepOrder DEF LoopCheck, GetNone
  <1>4. CASE \E p \in Producers : Get(p)
    <2> PICK p \in Producers : Get(p)
      BY <1>4
    <2>1. Len(hand) = 0
      BY <1>t DEF Get, TypeOK, Holding
    <2> QED
      BY <2>1, <1>t, GetOrder
  <1>5. CASE BlockCheck
    <2>1. hand' = hand \/ hand' = <<>>
      BY <1>5 DEF BlockCheck
    <2>2. UNCHANGED <<received, queue, wire, sent>>
      BY <1>5 DEF BlockCheck
    <2> QED
      BY <2>1, <2>2, KeepOrder, AbandonOrder
  <1>6. CASE BlockPut \/ DropTry \/ DropRetry \/ ConflatePut
    <2>1. rpc \in Holding
      BY <1>6, <1>t DEF BlockPut, DropTry, DropRetry, ConflatePut, TypeOK, Holding, QueuePolicy
    <2>2. \/ Enqueue
          \/ hand' = hand /\ queue' = queue
          \/ hand' = <<>> /\ queue' = queue
      BY <1>6 DEF BlockPut, DropTry, DropRetry, ConflatePut
    <2>3. UNCHANGED <<received, wire, sent>>
      BY <1>6 DEF BlockPut, DropTry, DropRetry, ConflatePut
    <2> QED
      BY <2>1, <2>2, <2>3, <1>t, EnqueueOrder, KeepOrder, AbandonOrder
  <1>7. CASE DropEvict \/ ConflateDrain
    <2>1. UNCHANGED <<received, hand, wire, sent>>
      BY <1>7 DEF DropEvict, ConflateDrain
    <2>2. (queue # <<>> /\ queue' = Tail(queue)) \/ queue' = queue
      BY <1>7 DEF DropEvict, ConflateDrain
    <2> QED
      BY <2>1, <2>2, <1>t, EvictOrder, KeepOrder
  <1>8. CASE ControlThread
    BY <1>8, KeepOrder DEF ControlThread, ControlLoopCheck, ControlGet, ControlGetNone
  <1>9. CASE Receive
    BY <1>9, <1>t, ReceiveOrder
  <1>10. CASE Stop \/ ProcessNodeInit
    BY <1>10, KeepOrder DEF Stop, ProcessNodeInit
  <1>11. CASE Close
    <2>1. UNCHANGED <<received, queue, hand, sent>> /\ wire' = [p \in Producers |-> <<>>]
      BY <1>11 DEF Close
    <2> QED
      BY <2>1 DEF OrderInv, Sourced, Numbered, PerProducerOrder, Increasing, Before
  <1>12. CASE FromState
    <2>1. UNCHANGED <<received, queue, hand, wire, sent>>
      BY <1>12 DEF FromState, CountInv, CleanHandOff
    <2> QED
      BY <2>1, KeepOrder
  <1>13. CASE UNCHANGED vars
    BY <1>13, KeepOrder DEF vars
  <1> QED
    BY <1>1, <1>2, <1>3, <1>4, <1>5, <1>6, <1>7, <1>8, <1>9, <1>10, <1>11, <1>12, <1>13
    DEF Next, ReceiverThread

(* A fresh mailbox is in order.                                              *)
LEMMA InitOrder == Init => OrderInv
  BY OrderEmpty DEF Init, OrderInv, Sourced, Numbered, PerProducerOrder, Increasing, Before

-----------------------------------------------------------------------------
(* The mailbox keeps its types, the receiver thread holds a message exactly    *)
(* inside _enqueue, and the queue never outgrows the maxsize it was built with. *)
THEOREM TypeCorrect == Spec => []TypeOK
  <1>1. CountInv => TypeOK
    BY DEF CountInv
  <1> QED
    BY <1>1, InitCount, CountStep, PTL DEF Spec

(* Losses are counted, a running block mailbox loses nothing and a conflate     *)
(* mailbox never queues more than one message, for every size and every         *)
(* interleaving of the receiver thread with receive().                          *)
THEOREM LossAccounting == Spec => [](LossesCounted /\ BlockIsLossless /\ ConflateKeepsOne)
  <1>1. CountInv => LossesCounted /\ BlockIsLossless /\ ConflateKeepsOne
    <2> SUFFICES ASSUME CountInv PROVE LossesCounted /\ BlockIsLossless /\ ConflateKeepsOne
      OBVIOUS
    <2>1. LossesCounted
      BY DEF CountInv, Counted, LossesCounted
    <2>2. BlockIsLossless
      BY LenProperties DEF CountInv, Counted, Accounted, BlockIsLossless, TypeOK
    <2>3. ConflateKeepsOne
      BY DEF CountInv, RoomWhenNeeded, ConflateKeepsOne
    <2> QED
      BY <2>1, <2>2, <2>3
  <1> QED
    BY <1>1, InitCount, CountStep, PTL DEF Spec

(* The node sees every producer's messages in order and none twice.             *)
THEOREM DeliveryOrder == Spec => []PerProducerOrder
  <1>1. Init => IInv
    BY InitCount, InitOrder DEF IInv
  <1>2. IInv /\ [Next]_vars => IInv'
    BY CountStep, OrderStep DEF IInv
  <1>3. IInv => PerProducerOrder
    BY DEF IInv, OrderInv
  <1> QED
    BY <1>1, <1>2, <1>3, PTL DEF Spec

(* A drop always leaves a fresher message in the receiver's hand: the incoming   *)
(* message itself is never the one that is dropped.                              *)
THEOREM DropsOnlyStale == Spec => FreshestSurvives
  <1>1. CountInv /\ [Next]_vars => [drops' > drops => hand' # <<>>]_vars
    <2> SUFFICES ASSUME CountInv, [Next]_vars, drops' > drops PROVE hand' # <<>>
      OBVIOUS
    <2> USE DEF config, edge, receiver, control, receiverFrame, controlFrame
    <2>1. drops \in Nat
      BY DEF CountInv, TypeOK
    <2>2. DropEvict \/ ConflateDrain \/ (DropRetry /\ Full)
      <3>1. drops' # drops
        BY <2>1
      <3>2. ReceiverThread
        BY <3>1 DEF Next, vars, Send, SendControl, ControlThread, ControlLoopCheck, ControlGet,
           ControlGetNone, Receive, Stop, Close, ProcessNodeInit, FromState
      <3>3. DropEvict \/ ConflateDrain \/ DropRetry
        BY <3>1, <3>2 DEF ReceiverThread, LoopCheck, Get, GetNone, BlockCheck, BlockPut, DropTry, ConflatePut
      <3>4. DropRetry /\ ~Full => drops' = drops
        BY DEF DropRetry
      <3> QED
        BY <3>1, <3>3, <3>4
    <2>3. DropEvict \/ ConflateDrain
      BY <2>2 DEF DropRetry, CountInv, RoomWhenNeeded
    <2>4. rpc \in Holding /\ hand' = hand
      <3>1. CASE DropEvict
        BY <3>1 DEF DropEvict, CountInv, TypeOK, Holding, QueuePolicy
      <3>2. CASE ConflateDrain
        BY <3>2 DEF ConflateDrain, CountInv, TypeOK, Holding, QueuePolicy
      <3> QED
        BY <2>3, <3>1, <3>2
    <2> QED
      BY <2>4, HandMessage DEF CountInv
  <1> QED
    BY <1>1, InitCount, CountStep, PTL DEF Spec, FreshestSurvives

(* The mailbox's whole account of its losses, for every size, policy and           *)
(* interleaving of the receiver thread with receive(), stop() and the producers.   *)
THEOREM LossesAdmitted == Spec => NothingLostSilently
  BY LossAccounting, DropsOnlyStale, PTL DEF NothingLostSilently

-----------------------------------------------------------------------------
(* The refinement of Edge.  What waits at the abstract edge is a set, so the   *)
(* first lemmas say what the operations on sequences do to their elements.     *)

(* A put adds one element.                                                   *)
LEMMA ElementsGrow ==
  ASSUME NEW s \in Seq(Message), NEW m \in Message
  PROVE  ToSet(Append(s, m)) = ToSet(s) \cup {m}
  <1>1. /\ DOMAIN s = 1..Len(s) /\ Len(s) \in Nat
        /\ DOMAIN Append(s, m) = 1..(Len(s) + 1)
        /\ \A i \in 1..Len(s) : Append(s, m)[i] = s[i]
        /\ Append(s, m)[Len(s) + 1] = m
    BY AppendProperties, LenProperties
  <1> QED
    BY <1>1 DEF ToSet

(* A get takes no element but the first.                                     *)
LEMMA ElementsShrink ==
  ASSUME NEW s \in Seq(Message), s # <<>>
  PROVE  ToSet(s) = ToSet(Tail(s)) \cup {Head(s)}
  <1>1. /\ DOMAIN s = 1..Len(s) /\ Len(s) \in Nat /\ Len(s) > 0
        /\ DOMAIN Tail(s) = 1..(Len(s) - 1)
        /\ \A i \in 1..(Len(s) - 1) : Tail(s)[i] = s[i + 1]
        /\ Head(s) = s[1]
    BY HeadTailProperties, DropHead, LenProperties
  <1>2. ASSUME NEW i \in DOMAIN s PROVE s[i] = Head(s) \/ \E j \in DOMAIN Tail(s) : Tail(s)[j] = s[i]
    <2>1. CASE i = 1
      BY <1>1, <2>1
    <2>2. CASE i # 1
      <3>1. i - 1 \in DOMAIN Tail(s) /\ Tail(s)[i - 1] = s[i]
        BY <1>1, <2>2
      <3> QED
        BY <3>1
    <2> QED
      BY <2>1, <2>2
  <1>3. ASSUME NEW j \in DOMAIN Tail(s) PROVE j + 1 \in DOMAIN s /\ s[j + 1] = Tail(s)[j]
    BY <1>1
  <1>4. 1 \in DOMAIN s /\ s[1] = Head(s)
    BY <1>1
  <1> QED
    BY <1>2, <1>3, <1>4 DEF ToSet

(* The elements of an empty and of a one-message sequence.                   *)
LEMMA FewElements ==
  /\ ToSet(<<>>) = {}
  /\ \A m : ToSet(<<m>>) = {m}
  BY DEF ToSet

(* Where the elements of a producer are, at the abstract edge.                  *)
LEMMA PendingIs ==
  /\ edge_pending = [p \in Producers |-> edge_pending[p]]
  /\ \A p \in Producers : \A m :
       m \in edge_pending[p] <=>
         m.src = p /\ (m \in ToSet(queue) \/ m \in ToSet(hand) \/ m \in ToSet(wire[p]))
  BY DEF edge_pending

(* A message that only changes place stays pending.                            *)
LEMMA PendingKept ==
  ASSUME wire' = wire,
         ToSet(queue)' \cup ToSet(hand)' = ToSet(queue) \cup ToSet(hand)
  PROVE  edge_pending' = edge_pending
  BY DEF edge_pending, ToSet

(* Moving the message in hand to the queue keeps it waiting.                 *)
LEMMA EnqueueKeepsPending ==
  ASSUME TypeOK, rpc \in Holding, Enqueue, wire' = wire
  PROVE  edge_pending' = edge_pending
  <1>1. hand[1] \in Message /\ hand \in Seq(Message) /\ Len(hand) = 1 /\ queue \in Seq(Message)
    BY HandMessage DEF TypeOK
  <1>2. ToSet(hand) = {hand[1]}
    <2>1. DOMAIN hand = {1}
      BY <1>1, LenProperties
    <2> QED
      BY <2>1 DEF ToSet
  <1>3. ToSet(queue') = ToSet(queue) \cup {hand[1]}
    BY <1>1, ElementsGrow DEF Enqueue
  <1>4. ToSet(hand') = {}
    BY FewElements DEF Enqueue
  <1>5. ToSet(queue)' = ToSet(queue') /\ ToSet(hand)' = ToSet(hand')
    BY DEF ToSet
  <1> QED
    BY <1>2, <1>3, <1>4, <1>5, PendingKept

(* Reading from the socket moves a message from the wire to the hand.           *)
LEMMA GetKeepsPending ==
  ASSUME TypeOK, OrderInv, NEW p \in Producers, Get(p), Len(hand) = 0
  PROVE  edge_pending' = edge_pending
  <1>1. /\ wire[p] \in Seq(Message) /\ wire[p] # <<>> /\ hand = <<>> /\ queue' = queue
        /\ wire \in [Producers -> Seq(Message)]
    BY EmptySeq DEF TypeOK, Get
  <1>2. /\ hand' = <<Head(wire[p])>> /\ wire'[p] = Tail(wire[p])
        /\ \A q \in Producers \ {p} : wire'[q] = wire[q]
    BY <1>1 DEF Get
  <1>3. Head(wire[p]).src = p
    BY <1>1, DropHead, LenProperties DEF OrderInv, Sourced
  <1>4. /\ ToSet(wire[p]) = ToSet(wire'[p]) \cup {Head(wire[p])}
        /\ ToSet(hand) = {} /\ ToSet(hand') = {Head(wire[p])}
    BY <1>1, <1>2, ElementsShrink, FewElements
  <1>5. ASSUME NEW q \in Producers
        PROVE  {m \in ToSet(queue') \cup ToSet(hand') \cup ToSet(wire'[q]) : m.src = q}
                 = {m \in ToSet(queue) \cup ToSet(hand) \cup ToSet(wire[q]) : m.src = q}
    <2>1. CASE q = p
      BY <1>1, <1>4, <2>1
    <2>2. CASE q # p
      BY <1>1, <1>2, <1>3, <1>4, <2>2
    <2> QED
      BY <2>1, <2>2
  <1>6. ToSet(queue)' = ToSet(queue') /\ ToSet(hand)' = ToSet(hand')
        /\ \A q \in Producers : ToSet(wire[q])' = ToSet(wire'[q])
    BY DEF ToSet
  <1> QED
    BY <1>5 DEF edge_pending, ToSet

(* The head of the queue is its producer's oldest waiting message, and taking   *)
(* it out takes it out of the abstract edge.                                    *)
LEMMA HeadLeaves ==
  ASSUME TypeOK, OrderInv, queue # <<>>, queue' = Tail(queue), UNCHANGED <<hand, wire>>
  PROVE  /\ Head(queue) \in Message
         /\ Head(queue) \in EdgeView!Oldest(Head(queue).src)
         /\ edge_pending' =
              [edge_pending EXCEPT ![Head(queue).src] = @ \ {Head(queue)}]
  <1> DEFINE h == Head(queue)
  <1> DEFINE p == h.src
  <1>1. /\ queue \in Seq(Message) /\ hand \in Seq(Message)
        /\ \A q \in Producers : wire[q] \in Seq(Message)
    BY DEF TypeOK
  <1>2. h \in Message /\ Tail(queue) \in Seq(Message) /\ p \in Producers /\ h.seq \in Nat
    BY <1>1, DropHead, MessageFields
  <1>3. Before(<<h>>, Tail(queue)) /\ Before(<<h>>, hand) /\ Before(<<h>>, wire[p])
    BY <1>1, <1>2, OrderTail DEF OrderInv, PerProducerOrder
  <1>4. ToSet(queue) = ToSet(Tail(queue)) \cup {h}
    BY <1>1, ElementsShrink
  <1>5. ASSUME NEW s \in Seq(Message), Before(<<h>>, s)
        PROVE  \A n \in ToSet(s) : n.src = p => h.seq < n.seq /\ n.seq \in Nat
    <2>1. DOMAIN <<h>> = {1} /\ <<h>>[1] = h
      OBVIOUS
    <2>2. \A i \in DOMAIN s : s[i].seq \in Nat
      BY LenProperties, ElementOfSeq, MessageFields
    <2>3. \A j \in DOMAIN s : h.src = s[j].src => h.seq < s[j].seq
      BY <1>5, <2>1 DEF Before
    <2> QED
      BY <2>2, <2>3 DEF ToSet
  <1> HIDE DEF h, p
  <1>6. \A n \in ToSet(Tail(queue)) \cup ToSet(hand) \cup ToSet(wire[p]) :
           n.src = p => h.seq < n.seq /\ n.seq \in Nat
    BY <1>1, <1>2, <1>3, <1>5
  <1>7. h \in edge_pending[p]
    BY <1>2, <1>4 DEF edge_pending, p
  <1>8. \A n \in edge_pending[p] : n = h \/ (h.seq < n.seq /\ n.seq \in Nat)
    BY <1>2, <1>4, <1>6 DEF edge_pending
  <1>9. h \in EdgeView!Oldest(p)
    BY <1>2, <1>7, <1>8 DEF EdgeView!Oldest
  <1>10. h \notin ToSet(Tail(queue)) \cup ToSet(hand) \cup ToSet(wire[p])
    BY <1>2, <1>6 DEF p
  <1>11. ASSUME NEW q \in Producers
         PROVE  {m \in ToSet(queue') \cup ToSet(hand) \cup ToSet(wire[q]) : m.src = q}
                  = IF q = p THEN edge_pending[q] \ {h} ELSE edge_pending[q]
    <2>1. CASE q = p
      BY <1>4, <1>10, <2>1 DEF edge_pending
    <2>2. CASE q # p
      BY <1>4, <2>2 DEF edge_pending, p
    <2> QED
      BY <2>1, <2>2
  <1>12. edge_pending' = [q \in Producers |->
           {m \in ToSet(queue') \cup ToSet(hand) \cup ToSet(wire[q]) : m.src = q}]
    BY DEF edge_pending, ToSet
  <1>13. edge_pending' = [edge_pending EXCEPT ![p] = @ \ {h}]
    <2>1. edge_pending = [q \in Producers |-> edge_pending[q]]
      BY PendingIs
    <2>2. [edge_pending EXCEPT ![p] = @ \ {h}]
            = [q \in Producers |-> IF q = p THEN edge_pending[q] \ {h} ELSE edge_pending[q]]
      BY <2>1
    <2> QED
      BY <1>11, <1>12, <2>2
  <1> QED
    BY <1>2, <1>9, <1>13 DEF h, p

(* A send adds the next number of its producer.                                 *)
LEMMA SendAdds ==
  ASSUME TypeOK, NEW p \in Producers, Send(p)
  PROVE  edge_pending' =
           [edge_pending EXCEPT ![p] = @ \cup {[src |-> p, seq |-> sent[p] + 1]}]
  <1> DEFINE m == [src |-> p, seq |-> sent[p] + 1]
  <1>1. /\ m \in Message /\ m.src = p /\ wire[p] \in Seq(Message)
        /\ wire \in [Producers -> Seq(Message)] /\ queue' = queue /\ hand' = hand
    BY MessageFields DEF TypeOK, Send, receiver
  <1>2. wire'[p] = Append(wire[p], m) /\ \A q \in Producers \ {p} : wire'[q] = wire[q]
    BY <1>1 DEF Send
  <1> HIDE DEF m
  <1>3. ToSet(wire'[p]) = ToSet(wire[p]) \cup {m}
    BY <1>1, <1>2, ElementsGrow
  <1>4. ASSUME NEW q \in Producers
        PROVE  {n \in ToSet(queue) \cup ToSet(hand) \cup ToSet(wire'[q]) : n.src = q}
                 = IF q = p THEN edge_pending[q] \cup {m} ELSE edge_pending[q]
    <2>1. CASE q = p
      BY <1>1, <1>3, <2>1 DEF edge_pending
    <2>2. CASE q # p
      BY <1>2, <2>2 DEF edge_pending
    <2> QED
      BY <2>1, <2>2
  <1>5. edge_pending' = [q \in Producers |->
           {n \in ToSet(queue) \cup ToSet(hand) \cup ToSet(wire'[q]) : n.src = q}]
    BY <1>1 DEF edge_pending, ToSet
  <1>6. edge_pending' = [edge_pending EXCEPT ![p] = @ \cup {m}]
    <2>1. edge_pending = [q \in Producers |-> edge_pending[q]]
      BY PendingIs
    <2>2. [edge_pending EXCEPT ![p] = @ \cup {m}]
            = [q \in Producers |-> IF q = p THEN edge_pending[q] \cup {m} ELSE edge_pending[q]]
      BY <2>1
    <2> QED
      BY <1>4, <1>5, <2>2
  <1> QED
    BY <1>6 DEF m

(* Discarding the head of the queue while the receiver thread holds a message   *)
(* is a discard of the abstract edge.                                           *)
LEMMA EvictDiscards ==
  ASSUME TypeOK, OrderInv, rpc \in Holding, policy # "block",
         queue # <<>>, queue' = Tail(queue), drops' = drops + 1,
         UNCHANGED <<policy, sent, received, running, home, hand, wire>>
  PROVE  \E p \in Producers : EdgeView!Discard(p)
  <1> DEFINE h == Head(queue)
  <1>1. /\ h \in Message /\ h \in EdgeView!Oldest(h.src)
        /\ edge_pending' = [edge_pending EXCEPT ![h.src] = @ \ {h}]
    BY HeadLeaves
  <1>2. h.src \in Producers /\ hand[1] \in Message /\ hand[1].src \in Producers
    BY <1>1, HandMessage, MessageFields
  <1>3. hand \in Seq(Message) /\ Len(hand) = 1 /\ queue \in Seq(Message)
    BY HandMessage DEF TypeOK
  <1>4. hand[1] \in edge_pending[hand[1].src]
    <2>1. 1 \in DOMAIN hand
      BY <1>3, LenProperties
    <2> QED
      BY <1>2, <2>1 DEF edge_pending, ToSet
  <1>5. hand[1] # h
    <2>1. Before(<<h>>, hand)
      BY <1>3, OrderTail DEF OrderInv, PerProducerOrder
    <2>2. <<h>>[1] = h /\ DOMAIN <<h>> = {1} /\ 1 \in DOMAIN hand
      BY <1>3, LenProperties
    <2>3. h.src = hand[1].src => h.seq < hand[1].seq
      BY <2>1, <2>2 DEF Before
    <2>4. h.seq \in Nat
      BY <1>1, MessageFields
    <2> QED
      BY <2>3, <2>4
  <1> HIDE DEF h
  <1>6. \E q \in Producers : edge_pending[q] \ {h} # {}
    BY <1>2, <1>4, <1>5
  <1>7. /\ (policy # "block")' = (policy # "block")
        /\ (running \/ home # "thread")' = (running \/ home # "thread")
    OBVIOUS
  <1>8. EdgeView!Discard(h.src)
    BY <1>1, <1>6, <1>7 DEF EdgeView!Discard
  <1> QED
    BY <1>2, <1>8

(* Whatever leaves the mailbox once it was asked to stop is a loss of the        *)
(* abstract edge.                                                               *)
LEMMA StoppedLoses ==
  ASSUME ~running, home = "thread",
         \A p \in Producers : edge_pending'[p] \subseteq edge_pending[p],
         UNCHANGED <<policy, sent, received, drops, running, home>>
  PROVE  EdgeView!Lose
  <1> DEFINE kept == UNION {edge_pending'[p] : p \in Producers}
  <1>1. kept \in SUBSET UNION {edge_pending[p] : p \in Producers}
    OBVIOUS
  <1>2. \A p \in Producers : \A m \in edge_pending[p] : m.src = p
    BY DEF edge_pending
  <1>3. \A p \in Producers : edge_pending'[p] = edge_pending[p] \cap kept
    BY <1>2
  <1>4. edge_pending' = [p \in Producers |-> edge_pending[p] \cap kept]
    <2>1. edge_pending' = [p \in Producers |-> edge_pending'[p]]
      BY DEF edge_pending
    <2> QED
      BY <1>3, <2>1
  <1>5. /\ (policy # "block")' = (policy # "block")
        /\ (running \/ home # "thread")' = (running \/ home # "thread")
        /\ ~(running \/ home # "thread")
    OBVIOUS
  <1> HIDE DEF kept
  <1> QED
    BY <1>1, <1>4, <1>5 DEF EdgeView!Lose

(* Steps that move no message out of the mailbox do not show at the edge.        *)
LEMMA Unseen ==
  ASSUME edge_pending' = edge_pending,
         UNCHANGED <<policy, sent, received, drops>>,
         (running \/ home # "thread")' = (running \/ home # "thread")
  PROVE  UNCHANGED EdgeView!vars
  BY DEF EdgeView!vars

(* Every step of the mailbox is a step of the edge, or none.                 *)
LEMMA RefinementStep == IInv /\ [Next]_vars => [EdgeView!Next]_(EdgeView!vars)
  <1> SUFFICES ASSUME CountInv, OrderInv, [Next]_vars
               PROVE  EdgeView!Next \/ UNCHANGED EdgeView!vars
    BY DEF IInv
  <1>t. TypeOK
    BY DEF CountInv
  <1> USE DEF config, edge, receiver, control, receiverFrame, controlFrame
  <1>k. ASSUME UNCHANGED <<queue, hand, wire>> PROVE edge_pending' = edge_pending
    BY <1>k DEF edge_pending, ToSet
  <1>1. ASSUME NEW p \in Producers, Send(p) PROVE EdgeView!Next
    <2>1. edge_pending' = [edge_pending EXCEPT ![p] = @ \cup {[src |-> p, seq |-> sent[p] + 1]}]
      BY <1>1, <1>t, SendAdds
    <2>2. /\ sent' = [sent EXCEPT ![p] = @ + 1]
          /\ UNCHANGED <<received, drops>>
          /\ (policy # "block")' = (policy # "block")
          /\ (running \/ home # "thread")' = (running \/ home # "thread")
      BY <1>1 DEF Send
    <2>3. EdgeView!Accept(p)
      BY <2>1, <2>2 DEF EdgeView!Accept
    <2> QED
      BY <2>3 DEF EdgeView!Next
  <1>2. CASE \E t \in Turns : SendControl(t)
    BY <1>2, <1>k, Unseen DEF SendControl
  <1>3. CASE LoopCheck \/ GetNone
    BY <1>3, <1>k, Unseen DEF LoopCheck, GetNone
  <1>4. ASSUME NEW p \in Producers, Get(p) PROVE UNCHANGED EdgeView!vars
    <2>1. Len(hand) = 0
      BY <1>4, <1>t DEF Get, TypeOK, Holding
    <2>2. edge_pending' = edge_pending
      BY <1>4, <2>1, <1>t, GetKeepsPending
    <2>3. UNCHANGED receiverFrame /\ drops' = drops
      BY <1>4 DEF Get
    <2> QED
      BY <2>2, <2>3, Unseen
  <1>5. CASE BlockCheck
    <2>1. UNCHANGED <<receiverFrame, wire, drops, queue>>
      BY <1>5 DEF BlockCheck
    <2>2. CASE running
      <3>1. hand' = hand
        BY <1>5, <2>2 DEF BlockCheck
      <3> QED
        BY <2>1, <3>1, <1>k, Unseen
    <2>3. CASE ~running
      <3>1. hand' = <<>> /\ home = "thread"
        BY <1>5, <2>3, <1>t DEF BlockCheck, CountInv, CleanHandOff, TypeOK
      <3>2. \A p \in Producers : edge_pending'[p] \subseteq edge_pending[p]
        <4>1. ToSet(hand)' = {} /\ ToSet(queue)' = ToSet(queue)
          BY <2>1, <3>1 DEF ToSet
        <4> QED
          BY <2>1, <4>1 DEF edge_pending, ToSet
      <3>3. EdgeView!Lose
        BY <2>1, <2>3, <3>1, <3>2, StoppedLoses
      <3> QED
        BY <3>3 DEF EdgeView!Next
    <2> QED
      BY <2>2, <2>3
  <1>6. CASE BlockPut \/ DropTry \/ DropRetry \/ ConflatePut
    <2>1. rpc \in Holding
      BY <1>6, <1>t DEF BlockPut, DropTry, DropRetry, ConflatePut, TypeOK, Holding, QueuePolicy
    <2>2. UNCHANGED <<receiverFrame, wire>>
      BY <1>6 DEF BlockPut, DropTry, DropRetry, ConflatePut
    <2>3. DropRetry \/ ConflatePut => ~Full
      <3>1. DropRetry => ~Full
        BY DEF DropRetry, CountInv, RoomWhenNeeded
      <3>2. ConflatePut => ~Full
        BY <1>t, EmptySeq DEF ConflatePut, CountInv, RoomWhenNeeded, Full, TypeOK
      <3> QED
        BY <3>1, <3>2
    <2>4. Enqueue \/ UNCHANGED <<hand, queue>>
      BY <1>6, <2>3 DEF BlockPut, DropTry, DropRetry, ConflatePut
    <2>5. drops' = drops
      BY <1>6, <2>3 DEF BlockPut, DropTry, DropRetry, ConflatePut
    <2>6. edge_pending' = edge_pending
      BY <2>1, <2>2, <2>4, <1>t, <1>k, EnqueueKeepsPending
    <2> QED
      BY <2>2, <2>5, <2>6, Unseen
  <1>7. CASE DropEvict \/ ConflateDrain
    <2>1. UNCHANGED <<receiverFrame, wire, hand>>
      BY <1>7 DEF DropEvict, ConflateDrain
    <2>2. rpc \in Holding /\ policy # "block"
      BY <1>7, <1>t DEF DropEvict, ConflateDrain, TypeOK, Holding, QueuePolicy
    <2>3. CASE queue # <<>>
      <3>1. queue' = Tail(queue) /\ drops' = drops + 1
        BY <1>7, <2>3 DEF DropEvict, ConflateDrain
      <3>2. \E p \in Producers : EdgeView!Discard(p)
        BY <2>1, <2>2, <2>3, <3>1, <1>t, EvictDiscards
      <3> QED
        BY <3>2 DEF EdgeView!Next
    <2>4. CASE queue = <<>>
      <3>1. UNCHANGED <<queue, drops>>
        BY <1>7, <2>4 DEF DropEvict, ConflateDrain
      <3> QED
        BY <2>1, <3>1, <1>k, Unseen
    <2> QED
      BY <2>3, <2>4
  <1>8. CASE ControlThread
    <2>1. UNCHANGED controlFrame
      BY <1>8 DEF ControlThread, ControlLoopCheck, ControlGet, ControlGetNone
    <2> QED
      BY <2>1, <1>k, Unseen
  <1>9. CASE Receive
    <2>1. /\ queue # <<>> /\ queue' = Tail(queue) /\ received' = Append(received, Head(queue))
          /\ UNCHANGED <<hand, wire, sent, drops, policy, running, home>>
      BY <1>9 DEF Receive
    <2>2. /\ Head(queue) \in Message
          /\ Head(queue) \in EdgeView!Oldest(Head(queue).src)
          /\ edge_pending' = [edge_pending EXCEPT ![Head(queue).src] = @ \ {Head(queue)}]
      BY <2>1, <1>t, HeadLeaves
    <2>3. Head(queue).src \in Producers
      BY <2>2, MessageFields
    <2>4. /\ (policy # "block")' = (policy # "block")
          /\ (running \/ home # "thread")' = (running \/ home # "thread")
      BY <2>1
    <2>5. EdgeView!Deliver(Head(queue).src)
      BY <2>1, <2>2, <2>4 DEF EdgeView!Deliver
    <2> QED
      BY <2>3, <2>5 DEF EdgeView!Next
  <1>10. CASE Stop
    <2>1. /\ UNCHANGED <<policy, sent, received, drops, queue, hand, wire>>
          /\ home = "thread" /\ home' = home /\ running /\ ~running'
      BY <1>10 DEF Stop
    <2>2. edge_pending' = edge_pending
      BY <2>1, <1>k
    <2>3. EdgeView!Shut
      <3>1. (running \/ home # "thread") /\ ((running \/ home # "thread")' = FALSE)
        BY <2>1
      <3>2. (policy # "block")' = (policy # "block")
        BY <2>1
      <3> QED
        BY <2>1, <2>2, <3>1, <3>2 DEF EdgeView!Shut
    <2> QED
      BY <2>3 DEF EdgeView!Next
  <1>11. CASE Close
    <2>1. /\ UNCHANGED <<policy, sent, received, drops, queue, hand, running, home>>
          /\ home = "thread" /\ ~running /\ wire' = [p \in Producers |-> <<>>]
      BY <1>11 DEF Close
    <2>2. \A p \in Producers : edge_pending'[p] \subseteq edge_pending[p]
      <3>1. /\ ToSet(hand)' = ToSet(hand) /\ ToSet(queue)' = ToSet(queue)
            /\ \A p \in Producers : ToSet(wire'[p]) = {}
        BY <2>1, FewElements DEF ToSet
      <3> QED
        BY <3>1 DEF edge_pending, ToSet
    <2>3. EdgeView!Lose
      BY <2>1, <2>2, StoppedLoses
    <2> QED
      BY <2>3 DEF EdgeView!Next
  <1>12. CASE ProcessNodeInit
    <2>1. UNCHANGED <<policy, sent, received, drops, queue, hand, wire>>
      BY <1>12 DEF ProcessNodeInit
    <2>2. (running \/ home # "thread")' = (running \/ home # "thread")
      BY <1>12 DEF ProcessNodeInit
    <2> QED
      BY <2>1, <2>2, <1>k, Unseen
  <1>13. CASE FromState
    <2>1. UNCHANGED <<policy, sent, received, drops, queue, hand, wire>>
      BY <1>13 DEF FromState, CountInv, CleanHandOff
    <2>2. (running \/ home # "thread")' = (running \/ home # "thread")
      BY <1>13 DEF FromState
    <2> QED
      BY <2>1, <2>2, <1>k, Unseen
  <1>14. CASE UNCHANGED vars
    BY <1>14, <1>k, Unseen DEF vars
  <1> QED
    BY <1>1, <1>2, <1>3, <1>4, <1>5, <1>6, <1>7, <1>8, <1>9, <1>10, <1>11, <1>12, <1>13, <1>14
    DEF Next, ReceiverThread

(* The ZMQMailbox, with its threads, its eviction races, its stop and its          *)
(* hand-off to a child process, implements the edge its policy promises: in order, *)
(* lossless under block, losing only counted stale messages under the other        *)
(* policies, and losing nothing else before stop(), for every size and number of   *)
(* producers.                                                                      *)
THEOREM MailboxImplementsEdge == Spec => ImplementsEdge
  <1>1. Init => EdgeView!Init
    <2> SUFFICES ASSUME Init PROVE EdgeView!Init
      OBVIOUS
    <2>1. edge_pending = [p \in Producers |-> {}]
      BY FewElements DEF Init, edge_pending
    <2>2. (policy # "block") \in BOOLEAN /\ (running \/ home # "thread") = TRUE
      BY DEF Init
    <2> QED
      BY <2>1, <2>2 DEF Init, EdgeView!Init
  <1>2. Init => IInv
    BY InitCount, InitOrder DEF IInv
  <1>3. IInv /\ [Next]_vars => IInv'
    BY CountStep, OrderStep DEF IInv
  <1> QED
    BY <1>1, <1>2, <1>3, RefinementStep, PTL DEF Spec, ImplementsEdge, EdgeView!Spec
=============================================================================
