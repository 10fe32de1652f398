------------------------------ MODULE ReqRep -------------------------------
(***************************************************************************)
(* The acknowledged queue: a ZeroQueueProducer (REQ) that buffers in a      *)
(* bounded deque, and a ZeroQueueConsumer (REP) that acknowledges what it   *)
(* reads.  A poll that times out makes the producer throw its socket away   *)
(* and build a new one, while the consumer may still hold the request the   *)
(* old socket sent, or may already have answered it.                        *)
(*                                                                         *)
(* Items are the numbers 1, 2, ... in the order the caller offers them.     *)
(***************************************************************************)
EXTENDS Naturals, Sequences, SequencesExt

CONSTANTS
  DequeLen,   \* maxlen of the producer's buffer
  MaxItems,   \* bound: items the caller offers
  MaxStale    \* bound: requests of dead sockets the consumer may still read

ASSUME ReqRepAssumption == {DequeLen, MaxItems, MaxStale} \subseteq Nat \ {0}

VARIABLES
  bound,     \* the producer's socket was bound (port None), the consumer connects
  linked,    \* the producer's current socket reaches the consumer
  pc,        \* "idle" | "send" | "poll" (inside put) | "nowait" (inside put_nowait)
  deque,     \* the buffer
  current,   \* the item put_nowait is sending, 0 when there is none
  live,      \* request of the current socket the consumer has not read: <<>> or <<i>>
  stale,     \* requests of closed sockets the consumer may still read
  acked,     \* the consumer has answered the current request
  offered,   \* number of items offered so far
  byPut,     \* those offered through put
  got,       \* items the consumer returned, each at its first delivery
  twice,     \* items the consumer returned more than once
  timedOut,  \* items whose acknowledgement a poll gave up on
  lost       \* items a full deque pushed out

queueVars == <<bound, linked, pc, deque, current, live, stale, acked, offered, byPut,
          got, twice, timedOut, lost>>
caller == <<offered, byPut>>
consumer == <<got, twice>>

(* Both __init__: whoever has no port binds, the other side connects to it.  *)
QueueInit ==
  /\ bound \in BOOLEAN
  /\ linked = TRUE
  /\ pc = "idle"
  /\ deque = <<>> /\ current = 0
  /\ live = <<>> /\ stale = <<>> /\ acked = FALSE
  /\ offered = 0 /\ byPut = {}
  /\ got = <<>> /\ twice = {} /\ timedOut = {} /\ lost = {}

-----------------------------------------------------------------------------
\* The request leaves on the current socket; it arrives only if there is a peer.
SendOn(item) ==
  /\ live' = IF linked THEN <<item>> ELSE <<>>
  /\ acked' = FALSE

\* stop(), then init(): LINGER 0 discards what was not transmitted, the consumer
\* may still read what was, and an answer on its way is lost with the socket.  By
\* now self.port is set, so a producer that had bound it now CONNECTS to it.
Reset ==
  /\ linked' = (linked /\ ~bound)
  /\ live' = <<>>
  /\ acked' = FALSE
  /\ \/ stale' = stale
     \/ live # <<>> /\ Len(stale) < MaxStale /\ stale' = stale \o live

\* put: deque.append; at maxlen the oldest item falls out without a word.
Put ==
  /\ pc = "idle"
  /\ offered < MaxItems
  /\ LET item == offered + 1
         full == Len(deque) = DequeLen
     IN  /\ offered' = item
         /\ byPut' = byPut \cup {item}
         /\ deque' = Append(IF full THEN Tail(deque) ELSE deque, item)
         /\ lost' = IF full THEN lost \cup {Head(deque)} ELSE lost
  /\ pc' = "send"
  /\ UNCHANGED <<bound, linked, current, live, stale, acked, consumer, timedOut>>

\* put: `while self.deque`, with the send of _put_from_deque.
PutSend ==
  /\ pc = "send"
  /\ SendOn(Head(deque))
  /\ pc' = "poll"
  /\ UNCHANGED <<bound, linked, deque, current, stale, caller, consumer, timedOut, lost>>

\* _put_from_deque: the answer came in time, popleft.
\* Faulty variant: the answered item stays in the buffer.
PutAckKept ==
  /\ pc = "poll"
  /\ acked
  /\ acked' = FALSE
  /\ pc' = "send"
  /\ UNCHANGED <<bound, linked, deque, current, live, stale, caller, consumer, timedOut, lost>>

PutAck ==
  /\ pc = "poll"
  /\ acked
  /\ acked' = FALSE
  /\ deque' = Tail(deque)
  /\ pc' = IF deque' = <<>> THEN "idle" ELSE "send"
  /\ UNCHANGED <<bound, linked, current, live, stale, caller, consumer, timedOut, lost>>

\* put: no answer in time (it may be on its way); a fresh socket, and again.
PutTimeout ==
  /\ pc = "poll"
  /\ Reset
  /\ pc' = "send"
  /\ timedOut' = timedOut \cup {Head(deque)}
  /\ UNCHANGED <<bound, deque, current, caller, consumer, lost>>

\* put_nowait: sends at once, ahead of whatever the deque holds.
PutNowait ==
  /\ pc = "idle"
  /\ offered < MaxItems
  /\ offered' = offered + 1
  /\ current' = offered + 1
  /\ SendOn(offered + 1)
  /\ pc' = "nowait"
  /\ UNCHANGED <<bound, linked, deque, stale, byPut, consumer, timedOut, lost>>

PutNowaitAck ==
  /\ pc = "nowait"
  /\ acked
  /\ acked' = FALSE
  /\ current' = 0
  /\ pc' = "idle"
  /\ UNCHANGED <<bound, linked, deque, live, stale, caller, consumer, timedOut, lost>>

\* put_nowait: no answer; appendleft, which at maxlen pushes out the NEWEST item.
\* Faulty variant: the item is not kept for a later retry.
PutNowaitFullForgetting ==
  /\ pc = "nowait"
  /\ Reset
  /\ current' = 0
  /\ pc' = "idle"
  /\ timedOut' = timedOut \cup {current}
  /\ UNCHANGED <<bound, deque, caller, consumer, lost>>

PutNowaitFull ==
  /\ pc = "nowait"
  /\ Reset
  /\ LET full == Len(deque) = DequeLen
     IN  /\ deque' = <<current>> \o (IF full THEN Front(deque) ELSE deque)
         /\ lost' = IF full THEN lost \cup {Last(deque)} ELSE lost
  /\ current' = 0
  /\ pc' = "idle"
  /\ timedOut' = timedOut \cup {current}
  /\ UNCHANGED <<bound, caller, consumer>>

-----------------------------------------------------------------------------
Returned(item) ==
  /\ got' = IF item \in ToSet(got) THEN got ELSE Append(got, item)
  /\ twice' = IF item \in ToSet(got) THEN twice \cup {item} ELSE twice

(* ZeroQueueConsumer.get and get_nowait: read and answer.  The REP socket     *)
(* serves its peers in turn, so a dead socket's request may come later than   *)
(* the current one; its answer goes nowhere.                                  *)
GetLive ==
  /\ live # <<>>
  /\ Returned(live[1])
  /\ live' = <<>>
  /\ acked' = TRUE
  /\ UNCHANGED <<bound, linked, pc, deque, current, stale, caller, timedOut, lost>>

GetStale ==
  /\ stale # <<>>
  /\ Returned(Head(stale))
  /\ stale' = Tail(stale)
  /\ UNCHANGED <<bound, linked, pc, deque, current, live, acked, caller, timedOut, lost>>

QueueNext ==
  \/ Put \/ PutSend \/ PutAck \/ PutTimeout
  \/ PutNowait \/ PutNowaitAck \/ PutNowaitFull
  \/ GetLive \/ GetStale

(* Fairness: a call in progress keeps running.  Nothing is assumed of the      *)
(* consumer: its caller reads when it likes.                                   *)
QueueSpec ==
  /\ QueueInit /\ [][QueueNext]_queueVars
  /\ WF_queueVars(PutSend \/ PutAck \/ PutTimeout \/ PutNowaitAck \/ PutNowaitFull)

-----------------------------------------------------------------------------
Items == 1..MaxItems

(* Every variable has its type, and a request is outstanding only inside a call. *)
TypeOK ==
  /\ {bound, linked, acked} \subseteq BOOLEAN
  /\ pc \in {"idle", "send", "poll", "nowait"}
  /\ deque \in Seq(Items) /\ Len(deque) <= DequeLen
  /\ current \in 0..MaxItems
  /\ live \in Seq(Items) /\ stale \in Seq(Items) /\ got \in Seq(Items)
  /\ offered \in 0..MaxItems
  /\ UNION {byPut, twice, timedOut, lost} \subseteq Items
  /\ pc \in {"idle", "send"} => live = <<>> /\ ~acked

(* The acknowledged queue delivers at least once: an offered item was returned *)
(* by the consumer, is buffered, is being sent, or fell out of a full deque;    *)
(* the consumer sees an item twice only if a poll gave up on it; and put is a    *)
(* barrier: when it returns everything offered before has left the producer, so *)
(* two items offered by put first arrive in that order, late copies or not.      *)
AtLeastOnce ==
  /\ 1..offered = UNION {ToSet(got), ToSet(deque), {current} \ {0}, lost}
  /\ twice \subseteq timedOut
  /\ lost # {} => offered > DequeLen
  /\ pc = "idle" /\ offered \in byPut => deque = <<>>
  /\ \A i, j \in DOMAIN got : i < j /\ {got[i], got[j]} \subseteq byPut => got[i] < got[j]

(* Nothing in the code makes the consumer faster than the 100 ms poll; a slower *)
(* one reads the requests of dead sockets and answers nobody, for ever.  Let it  *)
(* be in time now and then: of infinitely many requests of sockets in use it     *)
(* reads some, and of infinitely many answers some come before the poll ends.    *)
InTimeNowAndThen == SF_queueVars(GetLive) /\ SF_queueVars(PutAck)

(* Then put returns when the producer is the side that connects: polls may go on *)
(* giving up and stale requests may go on being read, the resends do end, with    *)
(* everything in the buffer acknowledged.                                        *)
Putting == pc \in {"send", "poll"}
PutReturns == InTimeNowAndThen => (~bound /\ Putting ~> pc = "idle")

(* The docstring of put: the timeout is the "Max duration to attempt sending";   *)
(* the comment in its loop: "retry once on the fresh connection".                *)
PutGivesUp == Putting ~> pc = "idle"
=============================================================================
