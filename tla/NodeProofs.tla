----------------------------- MODULE NodeProofs -----------------------------
(***************************************************************************)
(* Safety of a node and of the wiring between nodes, for every value of the *)
(* constants.  Node: BookInv carries the counters, StopInv what follows a  *)
(* stop or a failure, and OutInv what has already gone downstream of the   *)
(* message being handled.  Routing: RInv says of every loop over the entries *)
(* of the configuration what it has done for those it has been through.    *)
(***************************************************************************)
EXTENDS Node, Routing, SequenceTheorems, FiniteSetTheorems, TLAPS

BetweenMessages == {"init", "loop", "collect", "exit", "dead"}

(* Where the loop is tells what it is handling: a message, by the policy's     *)
(* generator branch or the other, and at a send an item of it.                 *)
Located ==
  /\ pc \notin BetweenMessages => taken >= 1
  /\ pc \in {"next", "gen"} => generator
  /\ pc = "process" => ~generator
  /\ ~generator => yielded = 0
  /\ generator /\ pc \in {"send", "full"} => yielded >= 1
  /\ pc \in {"handle", "backoff"} => yielded = 0

BookInv == TypeOK /\ Located /\ StatsAddUp

(* A thread's flags are cleared before its event is set, a failed node has     *)
(* both, and a loop about to collect has not overrun a stop yet.               *)
StopInv ==
  /\ kind = "thread" /\ (stop_event \/ owner # "idle") => ~is_running
  /\ failed => stop_event /\ ~is_running /\ pc \in {"loop", "exit"}
  /\ ~stop_event => tally.overrun = 0
  /\ pc = "collect" => tally.overrun = 0
  /\ tally.overrun <= 1

(* The number of the item being sent.                                          *)
ItemNumber == IF generator THEN yielded ELSE 1

(* What is downstream belongs to messages collected so far.  Of the message     *)
(* being handled it is nothing before an attempt has yielded, and otherwise     *)
(* only items the attempt has already been through; if one of them was late,   *)
(* the message is past its last send.                                          *)
OutInv ==
  \A i \in DOMAIN out :
    /\ out[i].msg <= taken
    /\ out[i].msg = taken =>
         /\ pc \notin {"handle", "process", "backoff"}
         /\ pc \in {"next", "gen"} => out[i].item <= yielded
         /\ pc \in {"send", "full"} => out[i].item < ItemNumber
         /\ out[i].late => taken \in cancelled /\ pc \notin {"gen", "send", "full"}

IInv == BookInv /\ StopInv /\ OutInv /\ NoDuplicateOutput /\ QuietAfterCancel


-----------------------------------------------------------------------------
(* Counting in a record of counters.                                          *)
LEMMA CountType ==
  ASSUME stats \in ErrorStats,
         NEW c \in {"processed", "errors", "retries", "dropped", "dead_lettered", "failures"},
         Count(c)
  PROVE  stats' \in ErrorStats
  BY DEF Count, ErrorStats

(* A note keeps the types of the tally.                                      *)
LEMMA NoteType ==
  ASSUME tally \in Tally,
         NEW c \in {"skipped", "abandoned", "unrecorded", "raised", "overrun", "recorded", "unwritten"},
         Note(c)
  PROVE  tally' \in Tally
  BY DEF Note, Tally

(* The counters are numbers.                                                  *)
LEMMA Numbers ==
  ASSUME stats \in ErrorStats, tally \in Tally
  PROVE  /\ stats.processed \in Nat /\ stats.errors \in Nat /\ stats.retries \in Nat
         /\ stats.dropped \in Nat /\ stats.dead_lettered \in Nat /\ stats.failures \in Nat
         /\ tally.skipped \in Nat /\ tally.abandoned \in Nat /\ tally.unrecorded \in Nat
         /\ tally.recorded \in Nat /\ tally.unwritten \in Nat
  BY DEF ErrorStats, Tally

(* By how much a step moves each counter.                                     *)
Moved(processed, errors, retries, dropped, dead_lettered, failures) ==
  /\ stats'.processed = stats.processed + processed
  /\ stats'.errors = stats.errors + errors
  /\ stats'.retries = stats.retries + retries
  /\ stats'.dropped = stats.dropped + dropped
  /\ stats'.dead_lettered = stats.dead_lettered + dead_lettered
  /\ stats'.failures = stats.failures + failures

Noted(skipped, abandoned, unrecorded, recorded, unwritten) ==
  /\ tally'.skipped = tally.skipped + skipped
  /\ tally'.abandoned = tally.abandoned + abandoned
  /\ tally'.unrecorded = tally.unrecorded + unrecorded
  /\ tally'.recorded = tally.recorded + recorded
  /\ tally'.unwritten = tally.unwritten + unwritten

(* A message given up on is counted once or not at all, and makes at most one  *)
(* record.                                                                    *)
LEMMA DeadLetterNumber ==
  ASSUME tally \in Tally
  PROVE  /\ DeadLettered \in Nat
         /\ DeadLetter => /\ tally' \in Tally
                          /\ \/ Noted(0, 0, 0, DeadLettered, 0)
                             \/ Noted(0, 0, 0, 0, DeadLettered)
  BY DEF DeadLetter, DeadLettered, Record, Note, Noted, Tally

(* A step that counts a message given up on, or abandons one, keeps the count of *)
(* dead letters: it moves with the messages, and with the records.             *)
LEMMA LettersStep ==
  ASSUME stats \in ErrorStats, tally \in Tally, DeadLettersCounted, sink' = sink,
         NEW p \in Nat, NEW e \in Nat, NEW r \in Nat, NEW dropped \in Nat, NEW dead \in Nat, NEW failures \in Nat,
         NEW skipped \in Nat, NEW abandoned \in Nat, NEW unrecorded \in Nat, NEW recorded \in Nat, NEW unwritten \in Nat,
         Moved(p, e, r, dropped, dead, failures), Noted(skipped, abandoned, unrecorded, recorded, unwritten),
         dead = recorded + unwritten, dead = IF sink THEN dropped + failures - abandoned ELSE 0
  PROVE  DeadLettersCounted'
  BY Numbers DEF Moved, Noted, DeadLettersCounted, GivenUp

(* What Count, and the two-counter updates of FailedAttempt and GiveUp, move.  *)
LEMMA Counting ==
  ASSUME stats \in ErrorStats
  PROVE  /\ Count("processed") => Moved(1, 0, 0, 0, 0, 0)
         /\ Count("errors") => Moved(0, 1, 0, 0, 0, 0)
         /\ Count("dropped") => Moved(0, 0, 0, 1, 0, 0)
         /\ UNCHANGED stats => Moved(0, 0, 0, 0, 0, 0)
  BY DEF Count, Moved, ErrorStats

(* A retry counts one error and one retry.                                   *)
LEMMA RetryCounting ==
  ASSUME stats \in ErrorStats, stats' = [stats EXCEPT !.errors = @ + 1, !.retries = @ + 1]
  PROVE  Moved(0, 1, 1, 0, 0, 0)
  BY DEF Moved, ErrorStats

(* Giving up under `fail` counts one failure and the records written.        *)
LEMMA FailCounting ==
  ASSUME stats \in ErrorStats, NEW n \in Nat,
         stats' = [stats EXCEPT !.dead_lettered = @ + n, !.failures = @ + 1]
  PROVE  Moved(0, 0, 0, 0, n, 1)
  BY DEF Moved, ErrorStats

(* Giving up otherwise counts one dropped message and the records written.   *)
LEMMA DropCounting ==
  ASSUME stats \in ErrorStats, NEW n \in Nat,
         stats' = [stats EXCEPT !.dead_lettered = @ + n, !.dropped = @ + 1]
  PROVE  Moved(0, 0, 0, 1, n, 0)
  BY DEF Moved, ErrorStats

(* What Note moves.                                                           *)
LEMMA Noting ==
  ASSUME tally \in Tally
  PROVE  /\ Note("skipped") => Noted(1, 0, 0, 0, 0)
         /\ Note("abandoned") => Noted(0, 1, 0, 0, 0)
         /\ Note("unrecorded") => Noted(0, 0, 1, 0, 0)
         /\ Note("raised") => Noted(0, 0, 0, 0, 0)
         /\ Note("overrun") => Noted(0, 0, 0, 0, 0)
         /\ UNCHANGED tally => Noted(0, 0, 0, 0, 0)
  BY DEF Note, Noted, Tally

(* The two-counter updates keep the type of the counters.                     *)
LEMMA RetryType ==
  ASSUME NEW s \in ErrorStats
  PROVE  [s EXCEPT !.errors = @ + 1, !.retries = @ + 1] \in ErrorStats
  <1> DEFINE t == [s EXCEPT !.errors = @ + 1]
  <1>1. t \in ErrorStats
    BY DEF ErrorStats
  <1>2. [t EXCEPT !.retries = @ + 1] \in ErrorStats
    <2> HIDE DEF t
    <2> QED
      BY <1>1 DEF ErrorStats
  <1>3. [s EXCEPT !.errors = @ + 1, !.retries = @ + 1] = [t EXCEPT !.retries = @ + 1]
    BY DEF ErrorStats
  <1> QED
    BY <1>2, <1>3

(* Giving up keeps the types of the counters.                                *)
LEMMA GiveUpType ==
  ASSUME NEW s \in ErrorStats, NEW n \in Nat
  PROVE  /\ [s EXCEPT !.dead_lettered = @ + n, !.failures = @ + 1] \in ErrorStats
         /\ [s EXCEPT !.dead_lettered = @ + n, !.dropped = @ + 1] \in ErrorStats
  <1> DEFINE t == [s EXCEPT !.dead_lettered = @ + n]
  <1>1. t \in ErrorStats
    BY DEF ErrorStats
  <1>2. [t EXCEPT !.failures = @ + 1] \in ErrorStats /\ [t EXCEPT !.dropped = @ + 1] \in ErrorStats
    <2> HIDE DEF t
    <2> QED
      BY <1>1 DEF ErrorStats
  <1>3. [s EXCEPT !.dead_lettered = @ + n, !.failures = @ + 1] = [t EXCEPT !.failures = @ + 1]
    BY DEF ErrorStats
  <1>4. [s EXCEPT !.dead_lettered = @ + n, !.dropped = @ + 1] = [t EXCEPT !.dropped = @ + 1]
    BY DEF ErrorStats
  <1> QED
    BY <1>2, <1>3, <1>4

(* So does the decision after a failed attempt.                                *)
LEMMA FailedAttemptType ==
  ASSUME stats \in ErrorStats, FailedAttempt
  PROVE  stats' \in ErrorStats
  BY CountType, RetryType DEF FailedAttempt

(* A send leaves the books in order: the item's message is a collected one.    *)
LEMMA DeliverType ==
  ASSUME TypeOK, taken >= 1, NEW i \in 1..(MaxYields + 1), Deliver(i)
  PROVE  out' \in Seq(Item)
  <1>1. taken \in 1..NumMessages
    BY NodeAssumption DEF TypeOK
  <1>2. [msg |-> taken, item |-> i, late |-> taken \in cancelled] \in Item
    BY <1>1 DEF Item
  <1>3. out \in Seq(Item)
    BY DEF TypeOK
  <1> QED
    BY <1>2, <1>3, AppendProperties DEF Deliver

(* The books are in order when the node is built.                              *)
LEMMA InitBook == Init => BookInv
  <1> SUFFICES ASSUME Init PROVE BookInv
    OBVIOUS
  <1> USE NodeAssumption DEF Init, ErrorPolicyConfig
  <1>1. stats \in ErrorStats /\ tally \in Tally /\ out \in Seq(Item)
    BY DEF ErrorStats, Tally
  <1>0. attempt \in 0..LastAttempt /\ kind \in {"thread", "process"}
    BY DEF LastAttempt
  <1>2. TypeOK
    <2>1. /\ generator \in BOOLEAN /\ on_error \in ErrorAction /\ sink \in BOOLEAN
          /\ is_running \in BOOLEAN /\ stop_event \in BOOLEAN /\ failed \in BOOLEAN
          /\ is_ready \in BOOLEAN /\ open \in BOOLEAN
      OBVIOUS
    <2>2. /\ taken \in 0..NumMessages /\ yielded \in 0..MaxYields
          /\ pc = "init" /\ owner = "idle" /\ cancelled \subseteq 1..NumMessages
      OBVIOUS
    <2> HIDE DEF Init
    <2> QED
      BY <1>0, <1>1, <2>1, <2>2 DEF TypeOK, HandlingPoints
  <1>3. Located
    BY DEF Located, BetweenMessages
  <1>4. StatsAddUp
    BY DEF StatsAddUp, MessagesSettled, ErrorsHandled, DeadLettersCounted, InFlight, GivingUp, GivenUp, HandlingPoints
  <1> QED
    BY <1>2, <1>3, <1>4 DEF BookInv

(* Every action keeps them in order.                                            *)
LEMMA BookStep == BookInv /\ [Next]_vars => BookInv'
  <1> SUFFICES ASSUME BookInv, [Next]_vars PROVE BookInv'
    OBVIOUS
  <1>t. TypeOK /\ Located /\ StatsAddUp
    BY DEF BookInv
  <1>s. stats \in ErrorStats /\ tally \in Tally
    BY <1>t DEF TypeOK
  <1>n. /\ stats.processed \in Nat /\ stats.errors \in Nat /\ stats.retries \in Nat
        /\ stats.dropped \in Nat /\ stats.dead_lettered \in Nat /\ stats.failures \in Nat
        /\ tally.skipped \in Nat /\ tally.abandoned \in Nat /\ tally.unrecorded \in Nat
        /\ tally.recorded \in Nat /\ tally.unwritten \in Nat
    BY <1>s, Numbers
  <1> USE DEF config, HandlingPoints
  <1>1. CASE Begin
    <2>1. TypeOK'
      BY <1>1, <1>t, NodeAssumption
         DEF Begin, shared, loopvars, books, TypeOK, LastAttempt, ErrorAction, Located, BetweenMessages
    <2>2. Located'
      BY <1>1, <1>t, NodeAssumption DEF Begin, loopvars, TypeOK, Located, BetweenMessages
    <2>3. StatsAddUp'
      BY <1>1, <1>s, <1>t DEF Begin, loopvars, books, Located, StatsAddUp, MessagesSettled, ErrorsHandled, DeadLettersCounted, InFlight, GivingUp, GivenUp
    <2> QED
      BY <2>1, <2>2, <2>3 DEF BookInv
  <1>2. CASE LoopCheck
    <2>1. TypeOK'
      BY <1>2, <1>t, NodeAssumption
         DEF LoopCheck, shared, loopvars, books, TypeOK, LastAttempt, ErrorAction, Located, BetweenMessages
    <2>2. Located'
      BY <1>2, <1>t, NodeAssumption DEF LoopCheck, loopvars, TypeOK, Located, BetweenMessages
    <2>3. StatsAddUp'
      BY <1>2, <1>s, <1>t DEF LoopCheck, loopvars, books, Located, StatsAddUp, MessagesSettled, ErrorsHandled, DeadLettersCounted, InFlight, GivingUp, GivenUp
    <2> QED
      BY <2>1, <2>2, <2>3 DEF BookInv
  <1>3. CASE Collect
    <2>0. tally' \in Tally
      BY <1>3, <1>s, NoteType DEF Collect
    <2>1. TypeOK'
      BY <1>3, <2>0, <1>t, NodeAssumption
         DEF Collect, shared, loopvars, books, TypeOK, LastAttempt, ErrorAction, Located, BetweenMessages
    <2>2. Located'
      BY <1>3, <1>t, NodeAssumption DEF Collect, loopvars, TypeOK, Located, BetweenMessages
    <2>3. Moved(0, 0, 0, 0, 0, 0) /\ Noted(0, 0, 0, 0, 0)
      BY <1>3, <1>s, Counting, Noting DEF Collect
    <2>4. MessagesSettled' /\ ErrorsHandled'
      BY <1>3, <1>n, <1>t, <2>3
         DEF Collect, Moved, Noted, Located, StatsAddUp, MessagesSettled, ErrorsHandled, InFlight, GivingUp, GivenUp
    <2>5. DeadLettersCounted'
      BY <1>3, <1>s, <1>t, <2>3, LettersStep DEF Collect, StatsAddUp
    <2> QED
      BY <2>1, <2>2, <2>4, <2>5 DEF BookInv, StatsAddUp
  <1>4. CASE CollectNone
    <2>1. TypeOK'
      BY <1>4, <1>t, NodeAssumption
         DEF CollectNone, shared, loopvars, books, TypeOK, LastAttempt, ErrorAction, Located, BetweenMessages
    <2>2. Located'
      BY <1>4, <1>t, NodeAssumption DEF CollectNone, loopvars, TypeOK, Located, BetweenMessages
    <2>3. StatsAddUp'
      BY <1>4, <1>s, <1>t DEF CollectNone, loopvars, books, Located, StatsAddUp, MessagesSettled, ErrorsHandled, DeadLettersCounted, InFlight, GivingUp, GivenUp
    <2> QED
      BY <2>1, <2>2, <2>3 DEF BookInv
  <1>5. CASE Handle
    <2>0. tally' \in Tally
      BY <1>5, <1>s, NoteType DEF Handle
    <2>1. TypeOK'
      BY <1>5, <2>0, <1>t, NodeAssumption
         DEF Handle, shared, loopvars, books, TypeOK, LastAttempt, ErrorAction, Located, BetweenMessages
    <2>2. Located'
      BY <1>5, <1>t, NodeAssumption DEF Handle, loopvars, TypeOK, Located, BetweenMessages
    <2>3. /\ Moved(0, 0, 0, 0, 0, 0)
          /\ \/ pc' = "loop" /\ Noted(1, 0, 0, 0, 0)
             \/ pc' \in {"next", "process"} /\ Noted(0, 0, 0, 0, 0)
      BY <1>5, <1>s, Counting, Noting DEF Handle
    <2>4. MessagesSettled' /\ ErrorsHandled'
      BY <1>5, <1>n, <1>t, <2>3
         DEF Handle, Moved, Noted, Located, StatsAddUp, MessagesSettled, ErrorsHandled, InFlight, GivingUp, GivenUp
    <2>5. DeadLettersCounted'
      BY <1>5, <1>s, <1>t, <2>3, LettersStep DEF Handle, StatsAddUp
    <2> QED
      BY <2>1, <2>2, <2>4, <2>5 DEF BookInv, StatsAddUp
  <1>6. CASE Return
    <2>0. stats' \in ErrorStats
      BY <1>6, <1>s, CountType DEF Return
    <2>1. TypeOK'
      BY <1>6, <2>0, <1>t, NodeAssumption
         DEF Return, shared, loopvars, books, TypeOK, LastAttempt, ErrorAction, Located, BetweenMessages
    <2>2. Located'
      BY <1>6, <1>t, NodeAssumption DEF Return, loopvars, TypeOK, Located, BetweenMessages
    <2>3. Moved(1, 0, 0, 0, 0, 0) /\ Noted(0, 0, 0, 0, 0)
      BY <1>6, <1>s, Counting, Noting DEF Return
    <2>4. MessagesSettled' /\ ErrorsHandled'
      <3>1. MessagesSettled'
        BY <1>6, <1>n, <1>t, <2>3 DEF Return, Moved, Noted, Located, StatsAddUp, MessagesSettled, InFlight
      <3>2. ErrorsHandled'
        BY <1>6, <1>n, <1>t, <2>3 DEF Return, Moved, Noted, StatsAddUp, ErrorsHandled, GivingUp, GivenUp
      <3> QED BY <3>1, <3>2
    <2>5. DeadLettersCounted'
      BY <1>6, <1>s, <1>t, <2>3, LettersStep DEF Return, StatsAddUp
    <2> QED
      BY <2>1, <2>2, <2>4, <2>5 DEF BookInv, StatsAddUp
  <1>7. CASE CheckCancelled
    <2>0. stats' \in ErrorStats
      BY <1>7, <1>s, CountType DEF CheckCancelled
    <2>1. TypeOK'
      BY <1>7, <2>0, <1>t, NodeAssumption
         DEF CheckCancelled, shared, loopvars, books, TypeOK, LastAttempt, ErrorAction, Located, BetweenMessages
    <2>2. Located'
      BY <1>7, <1>t, NodeAssumption DEF CheckCancelled, loopvars, TypeOK, Located, BetweenMessages
    <2>3. /\ Noted(0, 0, 0, 0, 0)
          /\ \/ pc' = "loop" /\ Moved(1, 0, 0, 0, 0, 0)
             \/ pc' = "gen" /\ Moved(0, 0, 0, 0, 0, 0)
      BY <1>7, <1>s, Counting, Noting DEF CheckCancelled
    <2>4. MessagesSettled' /\ ErrorsHandled'
      <3>1. MessagesSettled'
        BY <1>7, <1>n, <1>t, <2>3 DEF CheckCancelled, Moved, Noted, Located, StatsAddUp, MessagesSettled, InFlight
      <3>2. ErrorsHandled'
        BY <1>7, <1>n, <1>t, <2>3 DEF CheckCancelled, Moved, Noted, StatsAddUp, ErrorsHandled, GivingUp, GivenUp
      <3> QED BY <3>1, <3>2
    <2>5. DeadLettersCounted'
      BY <1>7, <1>s, <1>t, <2>3, LettersStep DEF CheckCancelled, StatsAddUp
    <2> QED
      BY <2>1, <2>2, <2>4, <2>5 DEF BookInv, StatsAddUp
  <1>8. CASE Yield
    <2>1. TypeOK'
      BY <1>8, <1>t, NodeAssumption
         DEF Yield, shared, loopvars, books, TypeOK, LastAttempt, ErrorAction, Located, BetweenMessages
    <2>2. Located'
      BY <1>8, <1>t, NodeAssumption DEF Yield, loopvars, TypeOK, Located, BetweenMessages
    <2>3. StatsAddUp'
      BY <1>8, <1>s, <1>t DEF Yield, loopvars, books, Located, StatsAddUp, MessagesSettled, ErrorsHandled, DeadLettersCounted, InFlight, GivingUp, GivenUp
    <2> QED
      BY <2>1, <2>2, <2>3 DEF BookInv
  <1>9. CASE Exhausted
    <2>0. stats' \in ErrorStats
      BY <1>9, <1>s, CountType DEF Exhausted
    <2>1. TypeOK'
      BY <1>9, <2>0, <1>t, NodeAssumption
         DEF Exhausted, shared, loopvars, books, TypeOK, LastAttempt, ErrorAction, Located, BetweenMessages
    <2>2. Located'
      BY <1>9, <1>t, NodeAssumption DEF Exhausted, loopvars, TypeOK, Located, BetweenMessages
    <2>3. Moved(1, 0, 0, 0, 0, 0) /\ Noted(0, 0, 0, 0, 0)
      BY <1>9, <1>s, Counting, Noting DEF Exhausted
    <2>4. MessagesSettled' /\ ErrorsHandled'
      BY <1>9, <1>n, <1>t, <2>3
         DEF Exhausted, Moved, Noted, Located, StatsAddUp, MessagesSettled, ErrorsHandled, InFlight, GivingUp, GivenUp
    <2>5. DeadLettersCounted'
      BY <1>9, <1>s, <1>t, <2>3, LettersStep DEF Exhausted, StatsAddUp
    <2> QED
      BY <2>1, <2>2, <2>4, <2>5 DEF BookInv, StatsAddUp
  <1>10. CASE Raise
    <2>0. stats' \in ErrorStats /\ tally' \in Tally
      BY <1>10, <1>s, FailedAttemptType, NoteType DEF Raise
    <2>1. TypeOK'
      BY <1>10, <2>0, <1>t, NodeAssumption
         DEF Raise, FailedAttempt, shared, loopvars, books, TypeOK, LastAttempt, ErrorAction, Located, BetweenMessages
    <2>2. Located'
      BY <1>10, <1>t, NodeAssumption DEF Raise, FailedAttempt, loopvars, TypeOK, Located, BetweenMessages
    <2>3. /\ Noted(0, 0, 0, 0, 0)
          /\ \/ pc' = "giveup" /\ Moved(0, 1, 0, 0, 0, 0)
             \/ pc' = "backoff" /\ Moved(0, 1, 1, 0, 0, 0)
      BY <1>10, <1>s, Counting, RetryCounting, Noting DEF Raise, FailedAttempt
    <2>4. MessagesSettled' /\ ErrorsHandled'
      BY <1>10, <1>n, <1>t, <2>3
         DEF Raise, Moved, Noted, Located, StatsAddUp, MessagesSettled, ErrorsHandled, InFlight, GivingUp, GivenUp
    <2>5. DeadLettersCounted'
      BY <1>10, <1>s, <1>t, <2>3, LettersStep DEF Raise, StatsAddUp
    <2> QED
      BY <2>1, <2>2, <2>4, <2>5 DEF BookInv, StatsAddUp
  <1>11. CASE Backoff
    <2>0. stats' \in ErrorStats /\ tally' \in Tally
      BY <1>11, <1>s, CountType, NoteType DEF Backoff
    <2>1. TypeOK'
      BY <1>11, <2>0, <1>t, NodeAssumption
         DEF Backoff, shared, loopvars, books, TypeOK, LastAttempt, ErrorAction, Located, BetweenMessages
    <2>2. Located'
      BY <1>11, <1>t, NodeAssumption DEF Backoff, loopvars, TypeOK, Located, BetweenMessages
    <2>3. \/ pc' = "loop" /\ Moved(0, 0, 0, 1, 0, 0) /\ Noted(0, 1, 0, 0, 0)
          \/ pc' \in {"next", "process"} /\ Moved(0, 0, 0, 0, 0, 0) /\ Noted(0, 0, 0, 0, 0)
      BY <1>11, <1>s, Counting, Noting DEF Backoff
    <2>4. MessagesSettled' /\ ErrorsHandled'
      BY <1>11, <1>n, <1>t, <2>3
         DEF Backoff, Moved, Noted, Located, StatsAddUp, MessagesSettled, ErrorsHandled, InFlight, GivingUp, GivenUp
    <2>5. DeadLettersCounted'
      BY <1>11, <1>s, <1>t, <2>3, LettersStep DEF Backoff, StatsAddUp
    <2> QED
      BY <2>1, <2>2, <2>4, <2>5 DEF BookInv, StatsAddUp
  <1>12. CASE GiveUp
    <2>0. stats' \in ErrorStats /\ tally' \in Tally
      BY <1>12, <1>s, DeadLetterNumber, GiveUpType DEF GiveUp
    <2>1. TypeOK'
      <3>1. /\ pc' = "loop" /\ failed' \in BOOLEAN /\ is_running' \in BOOLEAN /\ stop_event' \in BOOLEAN
            /\ UNCHANGED <<config, is_ready, open, owner, cancelled, taken, attempt, yielded, out>>
        BY <1>12, <1>t DEF GiveUp, NodeFails, TypeOK
      <3> QED
        BY <2>0, <3>1, <1>t, NodeAssumption DEF shared, loopvars, books, TypeOK, LastAttempt, ErrorAction
    <2>2. Located'
      BY <1>12, <1>t, NodeAssumption DEF GiveUp, NodeFails, loopvars, TypeOK, Located, BetweenMessages
    <2>3. PICK failed1 \in {0, 1}, written \in {0, DeadLettered} :
            /\ Moved(0, 0, 0, 1 - failed1, DeadLettered, failed1)
            /\ Noted(0, 0, 0, written, DeadLettered - written)
      <3>1. \/ Moved(0, 0, 0, 0, DeadLettered, 1)
            \/ Moved(0, 0, 0, 1, DeadLettered, 0)
        BY <1>12, <1>s, DeadLetterNumber, FailCounting, DropCounting DEF GiveUp
      <3>2. \/ Noted(0, 0, 0, DeadLettered, 0)
            \/ Noted(0, 0, 0, 0, DeadLettered)
        BY <1>12, <1>s, DeadLetterNumber DEF GiveUp
      <3>3. DeadLettered \in Nat /\ DeadLettered - DeadLettered = 0 /\ DeadLettered - 0 = DeadLettered
        BY <1>s, DeadLetterNumber
      <3>4. PICK f \in {0, 1} : Moved(0, 0, 0, 1 - f, DeadLettered, f)
        BY <3>1
      <3>5. PICK w \in {0, DeadLettered} : Noted(0, 0, 0, w, DeadLettered - w)
        BY <3>2, <3>3
      <3> QED
        BY <3>4, <3>5
    <2>4. MessagesSettled' /\ ErrorsHandled'
      <3>1. MessagesSettled'
        BY <1>12, <1>n, <1>t, <2>3 DEF GiveUp, Moved, Noted, Located, StatsAddUp, MessagesSettled, InFlight
      <3>2. ErrorsHandled'
        BY <1>12, <1>n, <1>t, <2>3 DEF GiveUp, Moved, Noted, StatsAddUp, ErrorsHandled, GivingUp, GivenUp
      <3> QED BY <3>1, <3>2
    <2>5. DeadLettersCounted'
      <3>1. DeadLettered = IF sink THEN (1 - failed1) + failed1 - 0 ELSE 0
        BY DEF DeadLettered
      <3>2. /\ DeadLettered \in Nat /\ written \in Nat /\ DeadLettered - written \in Nat
            /\ 1 - failed1 \in Nat /\ failed1 \in Nat /\ DeadLettered = written + (DeadLettered - written)
        BY DEF DeadLettered
      <3>3. sink' = sink /\ DeadLettersCounted
        BY <1>12, <1>t DEF GiveUp, StatsAddUp
      <3> HIDE DEF DeadLettered
      <3> QED
        BY <1>s, <2>3, <3>1, <3>2, <3>3, LettersStep
    <2> QED
      BY <2>1, <2>2, <2>4, <2>5 DEF BookInv, StatsAddUp
  <1>13. CASE RecordRaises
    <2>0. tally' \in Tally
      BY <1>13, <1>s, NoteType DEF RecordRaises
    <2>1. TypeOK'
      BY <1>13, <2>0, <1>t, NodeAssumption
         DEF RecordRaises, shared, loopvars, books, TypeOK, LastAttempt, ErrorAction, Located, BetweenMessages
    <2>2. Located'
      BY <1>13, <1>t, NodeAssumption DEF RecordRaises, loopvars, TypeOK, Located, BetweenMessages
    <2>3. Moved(0, 0, 0, 0, 0, 0) /\ Noted(0, 0, 1, 0, 0)
      BY <1>13, <1>s, Counting, Noting DEF RecordRaises
    <2>4. MessagesSettled' /\ ErrorsHandled'
      BY <1>13, <1>n, <1>t, <2>3
         DEF RecordRaises, Moved, Noted, Located, StatsAddUp, MessagesSettled, ErrorsHandled, InFlight, GivingUp, GivenUp
    <2>5. DeadLettersCounted'
      BY <1>13, <1>s, <1>t, <2>3, LettersStep DEF RecordRaises, StatsAddUp
    <2> QED
      BY <2>1, <2>2, <2>4, <2>5 DEF BookInv, StatsAddUp
  <1>14. CASE SendBlocks
    <2>1. TypeOK'
      BY <1>14, <1>t, NodeAssumption
         DEF SendBlocks, shared, loopvars, books, TypeOK, LastAttempt, ErrorAction, Located, BetweenMessages
    <2>2. Located'
      BY <1>14, <1>t, NodeAssumption DEF SendBlocks, loopvars, TypeOK, Located, BetweenMessages
    <2>3. StatsAddUp'
      BY <1>14, <1>s, <1>t DEF SendBlocks, loopvars, books, Located, StatsAddUp, MessagesSettled, ErrorsHandled, DeadLettersCounted, InFlight, GivingUp, GivenUp
    <2> QED
      BY <2>1, <2>2, <2>3 DEF BookInv
  <1>15. CASE SendOk
    <2>0. out' \in Seq(Item)
      <3>1. ItemNumber \in 1..(MaxYields + 1)
        BY <1>15, <1>t, NodeAssumption DEF SendOk, ItemNumber, TypeOK, Located
      <3> QED
        BY <1>15, <1>t, <3>1, DeliverType DEF SendOk, ItemNumber, Located, BetweenMessages
    <2>1. TypeOK'
      BY <1>15, <2>0, <1>t, NodeAssumption
         DEF SendOk, AfterSend, shared, loopvars, books, TypeOK, LastAttempt, ErrorAction, Located, BetweenMessages
    <2>2. Located'
      BY <1>15, <1>t, NodeAssumption DEF SendOk, AfterSend, loopvars, TypeOK, Located, BetweenMessages
    <2>3. StatsAddUp'
      BY <1>15, <1>s, <1>t DEF SendOk, AfterSend, loopvars, books, Located, StatsAddUp, MessagesSettled, ErrorsHandled, DeadLettersCounted, InFlight, GivingUp, GivenUp
    <2> QED
      BY <2>1, <2>2, <2>3 DEF BookInv
  <1>16. CASE SendRaisesInThread
    <2>1. TypeOK'
      BY <1>16, <1>t, NodeAssumption
         DEF SendRaisesInThread, AfterSend, shared, loopvars, books, TypeOK, LastAttempt, ErrorAction, Located, BetweenMessages
    <2>2. Located'
      BY <1>16, <1>t, NodeAssumption DEF SendRaisesInThread, AfterSend, loopvars, TypeOK, Located, BetweenMessages
    <2>3. StatsAddUp'
      BY <1>16, <1>s, <1>t DEF SendRaisesInThread, AfterSend, loopvars, books, Located, StatsAddUp, MessagesSettled, ErrorsHandled, DeadLettersCounted, InFlight, GivingUp, GivenUp
    <2> QED
      BY <2>1, <2>2, <2>3 DEF BookInv
  <1>17. CASE SendRaisesInProcess
    <2>0. stats' \in ErrorStats
      BY <1>17, <1>s, FailedAttemptType DEF SendRaisesInProcess
    <2>1. TypeOK'
      BY <1>17, <2>0, <1>t, NodeAssumption
         DEF SendRaisesInProcess, FailedAttempt, shared, loopvars, books, TypeOK, LastAttempt, ErrorAction, Located, BetweenMessages
    <2>2. Located'
      BY <1>17, <1>t, NodeAssumption DEF SendRaisesInProcess, FailedAttempt, loopvars, TypeOK, Located, BetweenMessages
    <2>3. /\ Noted(0, 0, 0, 0, 0)
          /\ \/ generator /\ pc' = "giveup" /\ Moved(0, 1, 0, 0, 0, 0)
             \/ generator /\ pc' = "backoff" /\ Moved(0, 1, 1, 0, 0, 0)
             \/ ~generator /\ pc' = "loop" /\ Moved(0, 0, 0, 0, 0, 0)
      BY <1>17, <1>s, Counting, RetryCounting, Noting DEF SendRaisesInProcess, FailedAttempt
    <2>4. MessagesSettled' /\ ErrorsHandled'
      BY <1>17, <1>n, <1>t, <2>3
         DEF SendRaisesInProcess, Moved, Noted, Located, StatsAddUp, MessagesSettled, ErrorsHandled, InFlight, GivingUp, GivenUp
    <2>5. DeadLettersCounted'
      BY <1>17, <1>s, <1>t, <2>3, LettersStep DEF SendRaisesInProcess, StatsAddUp
    <2> QED
      BY <2>1, <2>2, <2>4, <2>5 DEF BookInv, StatsAddUp
  <1>18. CASE Unblocked
    <2>0. out' \in Seq(Item)
      <3>1. ItemNumber \in 1..(MaxYields + 1)
        BY <1>18, <1>t, NodeAssumption DEF Unblocked, ItemNumber, TypeOK, Located
      <3> QED
        BY <1>18, <1>t, <3>1, DeliverType DEF Unblocked, ItemNumber, Located, BetweenMessages
    <2>1. TypeOK'
      BY <1>18, <2>0, <1>t, NodeAssumption
         DEF Unblocked, AfterSend, shared, loopvars, books, TypeOK, LastAttempt, ErrorAction, Located, BetweenMessages
    <2>2. Located'
      BY <1>18, <1>t, NodeAssumption DEF Unblocked, AfterSend, loopvars, TypeOK, Located, BetweenMessages
    <2>3. StatsAddUp'
      BY <1>18, <1>s, <1>t DEF Unblocked, AfterSend, loopvars, books, Located, StatsAddUp, MessagesSettled, ErrorsHandled, DeadLettersCounted, InFlight, GivingUp, GivenUp
    <2> QED
      BY <2>1, <2>2, <2>3 DEF BookInv
  <1>19. CASE StopFlags
    <2>1. TypeOK'
      <3>1. /\ owner' \in {"idle", "flags", "event", "done"} /\ is_running' \in BOOLEAN /\ is_ready' \in BOOLEAN
            /\ UNCHANGED <<config, stop_event, failed, open, cancelled, loopvars, books>>
        BY <1>19 DEF StopFlags
      <3> QED
        BY <3>1, <1>t DEF loopvars, books, TypeOK, LastAttempt
    <2>2. Located'
      BY <1>19, <1>t, NodeAssumption DEF StopFlags, loopvars, TypeOK, Located, BetweenMessages
    <2>3. StatsAddUp'
      BY <1>19, <1>s, <1>t DEF StopFlags, loopvars, books, Located, StatsAddUp, MessagesSettled, ErrorsHandled, DeadLettersCounted, InFlight, GivingUp, GivenUp
    <2> QED
      BY <2>1, <2>2, <2>3 DEF BookInv
  <1>20. CASE StopSignal
    <2>1. TypeOK'
      BY <1>20, <1>t, NodeAssumption
         DEF StopSignal, shared, loopvars, books, TypeOK, LastAttempt, ErrorAction, Located, BetweenMessages
    <2>2. Located'
      BY <1>20, <1>t, NodeAssumption DEF StopSignal, loopvars, TypeOK, Located, BetweenMessages
    <2>3. StatsAddUp'
      BY <1>20, <1>s, <1>t DEF StopSignal, loopvars, books, Located, StatsAddUp, MessagesSettled, ErrorsHandled, DeadLettersCounted, InFlight, GivingUp, GivenUp
    <2> QED
      BY <2>1, <2>2, <2>3 DEF BookInv
  <1>21. CASE StopMailbox
    <2>1. TypeOK'
      <3>1. open' \in BOOLEAN /\ owner' \in {"idle", "flags", "event", "done"}
        BY <1>21 DEF StopMailbox
      <3>2. UNCHANGED <<config, is_running, stop_event, failed, is_ready, cancelled, loopvars, books>>
        BY <1>21 DEF StopMailbox
      <3> QED
        BY <3>1, <3>2, <1>t DEF loopvars, books, TypeOK, LastAttempt
    <2>2. Located'
      BY <1>21, <1>t, NodeAssumption DEF StopMailbox, loopvars, TypeOK, Located, BetweenMessages
    <2>3. StatsAddUp'
      BY <1>21, <1>s, <1>t DEF StopMailbox, loopvars, books, Located, StatsAddUp, MessagesSettled, ErrorsHandled, DeadLettersCounted, InFlight, GivingUp, GivenUp
    <2> QED
      BY <2>1, <2>2, <2>3 DEF BookInv
  <1>22. CASE \E t \in 1..NumMessages : Cancel(t)
    <2> PICK t \in 1..NumMessages : Cancel(t)
      BY <1>22
    <2>1. TypeOK'
      BY <1>t, NodeAssumption DEF Cancel, TypeOK, LastAttempt, loopvars, books
    <2> QED
      BY <1>t, <2>1 DEF Cancel, loopvars, books, BookInv, Located, StatsAddUp, MessagesSettled, ErrorsHandled, DeadLettersCounted, InFlight, GivingUp, GivenUp
  <1>23. CASE HealthStale
    <2>1. TypeOK'
      <3>1. /\ is_ready' \in BOOLEAN
            /\ UNCHANGED <<config, is_running, stop_event, failed, open, owner, cancelled, loopvars, books>>
        BY <1>23 DEF HealthStale
      <3> QED
        BY <3>1, <1>t DEF loopvars, books, TypeOK, LastAttempt
    <2> QED
      BY <1>23, <1>t, <2>1 DEF HealthStale, loopvars, books, BookInv, Located, StatsAddUp, MessagesSettled, ErrorsHandled, DeadLettersCounted, InFlight, GivingUp, GivenUp
  <1>24. CASE UNCHANGED vars
    <2>1. TypeOK'
      BY <1>24, <1>t DEF vars, shared, loopvars, books, TypeOK, LastAttempt
    <2> QED
      BY <1>24, <1>t, <2>1 DEF vars, shared, loopvars, books, BookInv, Located, StatsAddUp, MessagesSettled, ErrorsHandled, DeadLettersCounted, InFlight, GivingUp, GivenUp
  <1> QED
    BY <1>1, <1>2, <1>3, <1>4, <1>5, <1>6, <1>7, <1>8, <1>9, <1>10, <1>11, <1>12, <1>13, <1>14, <1>15, <1>16, <1>17, <1>18, <1>19, <1>20, <1>21, <1>22, <1>23, <1>24 DEF Next, RunLoop

-----------------------------------------------------------------------------
(* Stop and failure.                                                          *)
(* What Note does to the overrun counter.                                      *)
LEMMA OverrunNoted ==
  ASSUME tally \in Tally
  PROVE  /\ tally.overrun \in Nat
         /\ Note("overrun") => tally'.overrun = tally.overrun + 1
         /\ Note("skipped") => tally'.overrun = tally.overrun
         /\ Note("abandoned") => tally'.overrun = tally.overrun
         /\ Note("unrecorded") => tally'.overrun = tally.overrun
         /\ Note("raised") => tally'.overrun = tally.overrun
         /\ Note("recorded") => tally'.overrun = tally.overrun
         /\ Note("unwritten") => tally'.overrun = tally.overrun
  BY DEF Note, Tally

(* Only Collect moves overrun, and it does so from a point not yet overrun.     *)
LEMMA StopStep == BookInv /\ StopInv /\ [Next]_vars => StopInv'
  <1> SUFFICES ASSUME BookInv, StopInv, [Next]_vars PROVE StopInv'
    OBVIOUS
  <1>s. tally \in Tally /\ kind \in {"thread", "process"}
    BY DEF BookInv, TypeOK
  <1> USE <1>s, OverrunNoted DEF StopInv, config, shared, loopvars, books
  <1>1. CASE Begin
    BY <1>1 DEF Begin
  <1>2. CASE LoopCheck
    BY <1>2 DEF LoopCheck
  <1>3. CASE Collect
    BY <1>3 DEF Collect
  <1>4. CASE CollectNone
    BY <1>4 DEF CollectNone
  <1>5. CASE Handle
    BY <1>5 DEF Handle
  <1>6. CASE Return
    BY <1>6 DEF Return
  <1>7. CASE CheckCancelled
    BY <1>7 DEF CheckCancelled
  <1>8. CASE Yield
    BY <1>8 DEF Yield
  <1>9. CASE Exhausted
    BY <1>9 DEF Exhausted
  <1>10. CASE Raise
    BY <1>10 DEF Raise, FailedAttempt
  <1>11. CASE Backoff
    BY <1>11 DEF Backoff
  <1>12. CASE GiveUp
    BY <1>12 DEF GiveUp, NodeFails, DeadLetter, Record
  <1>13. CASE RecordRaises
    BY <1>13 DEF RecordRaises
  <1>14. CASE SendBlocks
    BY <1>14 DEF SendBlocks
  <1>15. CASE SendOk
    BY <1>15 DEF SendOk, AfterSend
  <1>16. CASE SendRaisesInThread
    BY <1>16 DEF SendRaisesInThread, AfterSend
  <1>17. CASE SendRaisesInProcess
    BY <1>17 DEF SendRaisesInProcess, FailedAttempt
  <1>18. CASE Unblocked
    BY <1>18 DEF Unblocked, AfterSend
  <1>19. CASE StopFlags
    BY <1>19 DEF StopFlags
  <1>20. CASE StopSignal
    BY <1>20 DEF StopSignal
  <1>21. CASE StopMailbox
    BY <1>21 DEF StopMailbox
  <1>22. CASE \E t \in 1..NumMessages : Cancel(t)
    BY <1>22 DEF Cancel
  <1>23. CASE HealthStale
    BY <1>23 DEF HealthStale
  <1>24. CASE UNCHANGED vars
    BY <1>24 DEF vars
  <1> QED
    BY <1>1, <1>2, <1>3, <1>4, <1>5, <1>6, <1>7, <1>8, <1>9, <1>10, <1>11, <1>12, <1>13, <1>14, <1>15, <1>16, <1>17, <1>18, <1>19, <1>20, <1>21, <1>22, <1>23, <1>24 DEF Next, RunLoop


-----------------------------------------------------------------------------
(* What goes downstream.                                                      *)
(* An item downstream has a message number and an item number from one.        *)
LEMMA OutNumbers ==
  ASSUME TypeOK, NEW i \in DOMAIN out
  PROVE  out[i].msg \in Nat /\ out[i].item \in Nat /\ out[i].item >= 1
  <1>1. out[i] \in Item
    BY ElementOfSeq DEF TypeOK
  <1> QED
    BY <1>1, NodeAssumption DEF Item

(* A step that sends nothing only has to keep its place in the message.        *)
LEMMA OutKept ==
  ASSUME TypeOK, UNCHANGED out, OutInv, NoDuplicateOutput, QuietAfterCancel
  PROVE  NoDuplicateOutput' /\ QuietAfterCancel'
  BY DEF NoDuplicateOutput, QuietAfterCancel

(* A send appends one item, later than everything that is downstream.          *)
LEMMA SendStep ==
  ASSUME TypeOK, Located, OutInv, NoDuplicateOutput, QuietAfterCancel,
         pc \in {"send", "full"}, Deliver(ItemNumber), pc' = AfterSend,
         UNCHANGED <<config, shared, taken, attempt, yielded>>
  PROVE  (OutInv /\ NoDuplicateOutput /\ QuietAfterCancel)'
  <1> DEFINE x == [msg |-> taken, item |-> ItemNumber, late |-> taken \in cancelled]
  <1> DEFINE n == Len(out) + 1
  <1>1. out \in Seq(Item) /\ Len(out) \in Nat /\ DOMAIN out = 1..Len(out)
    BY LenProperties DEF TypeOK
  <1>2. out' = Append(out, x) /\ x.msg = taken /\ x.item = ItemNumber /\ x.late = (taken \in cancelled)
    BY DEF Deliver
  <1> HIDE DEF x
  <1>3. DOMAIN out' = 1..n /\ out'[n] = x /\ \A i \in DOMAIN out : out'[i] = out[i]
    BY <1>1, <1>2, AppendProperties
  <1> HIDE DEF n
  <1>4. n \notin DOMAIN out /\ \A i \in 1..n : i \in DOMAIN out \/ i = n
    BY <1>1 DEF n
  <1>5. \A i \in DOMAIN out : i \in Nat /\ n \in Nat /\ i < n
    BY <1>1 DEF n
  <1>6. \A i \in DOMAIN out : /\ out[i].msg <= taken
                              /\ out[i].msg = taken => out[i].item < ItemNumber /\ ~out[i].late
    BY DEF OutInv
  <1>7. taken \in Nat /\ yielded \in Nat /\ ItemNumber \in Nat /\ \A i \in DOMAIN out : out[i].msg \in Nat /\ out[i].item \in Nat
    BY OutNumbers, NodeAssumption DEF TypeOK, ItemNumber
  <1>8. OutInv'
    <2> SUFFICES ASSUME NEW i \in DOMAIN out'
                 PROVE  /\ out'[i].msg <= taken
                        /\ out'[i].msg = taken =>
                             /\ pc' \notin {"handle", "process", "backoff", "gen", "send", "full"}
                             /\ pc' = "next" => out'[i].item <= yielded
                             /\ out'[i].late => taken \in cancelled
      BY DEF OutInv, config, shared
    <2>1. pc' \in {"next", "loop"} /\ (pc' = "next" => ItemNumber = yielded)
      BY DEF AfterSend, ItemNumber
    <2>2. CASE i = n
      <3>1. out'[i].msg = taken /\ out'[i].item = ItemNumber
        BY <2>2, <1>2, <1>3
      <3>2. out'[i].late => taken \in cancelled
        BY <2>2, <1>2, <1>3
      <3>3. taken <= taken /\ ItemNumber <= ItemNumber
        BY <1>7
      <3> QED
        BY <2>1, <3>1, <3>2, <3>3
    <2>3. CASE i \in DOMAIN out
      BY <2>1, <2>3, <1>3, <1>6, <1>7
    <2> QED
      BY <2>2, <2>3, <1>3, <1>4
  <1>9. NoDuplicateOutput'
    <2> SUFFICES ASSUME NEW i \in DOMAIN out', NEW j \in DOMAIN out', i < j
                 PROVE  \/ out'[i].msg < out'[j].msg
                        \/ out'[i].msg = out'[j].msg /\ out'[i].item < out'[j].item
      BY DEF NoDuplicateOutput
    <2>1. i \in DOMAIN out
      BY <1>3, <1>4, <1>5
    <2>2. CASE j = n
      BY <2>1, <2>2, <1>2, <1>3, <1>6, <1>7
    <2>3. CASE j \in DOMAIN out
      BY <2>1, <2>3, <1>3 DEF NoDuplicateOutput
    <2> QED
      BY <2>2, <2>3, <1>3, <1>4
  <1>10. QuietAfterCancel'
    <2> SUFFICES ASSUME NEW i \in DOMAIN out', NEW j \in DOMAIN out', i # j, out'[i].late, out'[j].late
                 PROVE  out'[i].msg # out'[j].msg
      BY DEF QuietAfterCancel
    <2>1. CASE i \in DOMAIN out /\ j \in DOMAIN out
      BY <2>1, <1>3 DEF QuietAfterCancel
    <2>2. CASE i = n /\ j \in DOMAIN out
      BY <2>2, <1>2, <1>3, <1>6
    <2>3. CASE j = n /\ i \in DOMAIN out
      BY <2>3, <1>2, <1>3, <1>6
    <2> QED
      BY <2>1, <2>2, <2>3, <1>3, <1>4
  <1> QED
    BY <1>8, <1>9, <1>10

(* Every action keeps what is downstream in order and within OutInv.             *)
LEMMA OutStep == IInv /\ [Next]_vars => (OutInv /\ NoDuplicateOutput /\ QuietAfterCancel)'
  <1> SUFFICES ASSUME IInv, [Next]_vars PROVE (OutInv /\ NoDuplicateOutput /\ QuietAfterCancel)'
    OBVIOUS
  <1>t. TypeOK /\ Located /\ OutInv /\ NoDuplicateOutput /\ QuietAfterCancel
    BY DEF IInv, BookInv
  <1>n. \A i \in DOMAIN out : out[i].msg \in Nat /\ out[i].item \in Nat /\ out[i].item >= 1
    BY <1>t, OutNumbers
  <1>m. taken \in Nat /\ yielded \in Nat
    BY <1>t, NodeAssumption DEF TypeOK
  <1> USE DEF config, shared, loopvars, books
  <1>1. CASE Begin
    <2>1. OutInv'
      BY <1>1, <1>t, <1>n, <1>m DEF Begin, OutInv, ItemNumber, Located
    <2> QED
      BY <1>1, <1>t, <2>1, OutKept DEF Begin
  <1>2. CASE LoopCheck
    <2>1. OutInv'
      BY <1>2, <1>t, <1>n, <1>m DEF LoopCheck, OutInv, ItemNumber, Located
    <2> QED
      BY <1>2, <1>t, <2>1, OutKept DEF LoopCheck
  <1>3. CASE Collect
    <2>1. OutInv'
      BY <1>3, <1>t, <1>n, <1>m DEF Collect, OutInv, ItemNumber, Located
    <2> QED
      BY <1>3, <1>t, <2>1, OutKept DEF Collect
  <1>4. CASE CollectNone
    <2>1. OutInv'
      BY <1>4, <1>t, <1>n, <1>m DEF CollectNone, OutInv, ItemNumber, Located
    <2> QED
      BY <1>4, <1>t, <2>1, OutKept DEF CollectNone
  <1>5. CASE Handle
    <2>1. OutInv'
      BY <1>5, <1>t, <1>n, <1>m DEF Handle, OutInv, ItemNumber, Located
    <2> QED
      BY <1>5, <1>t, <2>1, OutKept DEF Handle
  <1>6. CASE Return
    <2>1. OutInv'
      BY <1>6, <1>t, <1>n, <1>m DEF Return, OutInv, ItemNumber, Located
    <2> QED
      BY <1>6, <1>t, <2>1, OutKept DEF Return
  <1>7. CASE CheckCancelled
    <2>1. OutInv'
      BY <1>7, <1>t, <1>n, <1>m DEF CheckCancelled, OutInv, ItemNumber, Located
    <2> QED
      BY <1>7, <1>t, <2>1, OutKept DEF CheckCancelled
  <1>8. CASE Yield
    <2>1. OutInv'
      BY <1>8, <1>t, <1>n, <1>m DEF Yield, OutInv, ItemNumber, Located
    <2> QED
      BY <1>8, <1>t, <2>1, OutKept DEF Yield
  <1>9. CASE Exhausted
    <2>1. OutInv'
      BY <1>9, <1>t, <1>n, <1>m DEF Exhausted, OutInv, ItemNumber, Located
    <2> QED
      BY <1>9, <1>t, <2>1, OutKept DEF Exhausted
  <1>10. CASE Raise
    <2>1. OutInv'
      BY <1>10, <1>t, <1>n, <1>m DEF Raise, FailedAttempt, OutInv, ItemNumber, Located
    <2> QED
      BY <1>10, <1>t, <2>1, OutKept DEF Raise
  <1>11. CASE Backoff
    <2>1. OutInv'
      BY <1>11, <1>t, <1>n, <1>m DEF Backoff, OutInv, ItemNumber, Located
    <2> QED
      BY <1>11, <1>t, <2>1, OutKept DEF Backoff
  <1>12. CASE GiveUp
    <2>1. OutInv'
      BY <1>12, <1>t, <1>n, <1>m DEF GiveUp, NodeFails, OutInv, ItemNumber, Located
    <2> QED
      BY <1>12, <1>t, <2>1, OutKept DEF GiveUp
  <1>13. CASE RecordRaises
    <2>1. OutInv'
      BY <1>13, <1>t, <1>n, <1>m DEF RecordRaises, OutInv, ItemNumber, Located
    <2> QED
      BY <1>13, <1>t, <2>1, OutKept DEF RecordRaises
  <1>14. CASE SendBlocks
    <2>1. OutInv'
      BY <1>14, <1>t, <1>n, <1>m DEF SendBlocks, OutInv, ItemNumber, Located
    <2> QED
      BY <1>14, <1>t, <2>1, OutKept DEF SendBlocks
  <1>15. CASE SendOk
    <2>1. pc \in {"send", "full"} /\ pc' = AfterSend /\ UNCHANGED <<config, shared, taken, attempt, yielded>>
      BY <1>15 DEF SendOk
    <2>2. Deliver(ItemNumber)
      BY <1>15 DEF SendOk, ItemNumber
    <2> QED
      BY <2>1, <2>2, <1>t, SendStep
  <1>16. CASE SendRaisesInThread
    <2>1. OutInv'
      BY <1>16, <1>t, <1>n, <1>m DEF SendRaisesInThread, AfterSend, OutInv, ItemNumber, Located
    <2> QED
      BY <1>16, <1>t, <2>1, OutKept DEF SendRaisesInThread
  <1>17. CASE SendRaisesInProcess
    <2>1. OutInv'
      BY <1>17, <1>t, <1>n, <1>m DEF SendRaisesInProcess, FailedAttempt, OutInv, ItemNumber, Located
    <2> QED
      BY <1>17, <1>t, <2>1, OutKept DEF SendRaisesInProcess
  <1>18. CASE Unblocked
    <2>1. pc \in {"send", "full"} /\ pc' = AfterSend /\ UNCHANGED <<config, shared, taken, attempt, yielded>>
      BY <1>18 DEF Unblocked
    <2>2. Deliver(ItemNumber)
      BY <1>18 DEF Unblocked, ItemNumber
    <2> QED
      BY <2>1, <2>2, <1>t, SendStep
  <1>19. CASE StopFlags
    <2>1. OutInv'
      BY <1>19, <1>t, <1>n, <1>m DEF StopFlags, OutInv, ItemNumber, Located
    <2> QED
      BY <1>19, <1>t, <2>1, OutKept DEF StopFlags
  <1>20. CASE StopSignal
    <2>1. OutInv'
      BY <1>20, <1>t, <1>n, <1>m DEF StopSignal, OutInv, ItemNumber, Located
    <2> QED
      BY <1>20, <1>t, <2>1, OutKept DEF StopSignal
  <1>21. CASE StopMailbox
    <2>1. OutInv'
      BY <1>21, <1>t, <1>n, <1>m DEF StopMailbox, OutInv, ItemNumber, Located
    <2> QED
      BY <1>21, <1>t, <2>1, OutKept DEF StopMailbox
  <1>22. CASE \E t \in 1..NumMessages : Cancel(t)
    <2>1. OutInv'
      BY <1>22, <1>t DEF Cancel, OutInv, ItemNumber
    <2> QED
      BY <1>22, <1>t, <2>1, OutKept DEF Cancel
  <1>23. CASE HealthStale
    <2>1. OutInv'
      BY <1>23, <1>t DEF HealthStale, OutInv, ItemNumber
    <2> QED
      BY <1>23, <1>t, <2>1, OutKept DEF HealthStale
  <1>24. CASE UNCHANGED vars
    <2>1. OutInv'
      BY <1>24, <1>t DEF vars, OutInv, ItemNumber
    <2> QED
      BY <1>24, <1>t, <2>1, OutKept DEF vars
  <1> QED
    BY <1>1, <1>2, <1>3, <1>4, <1>5, <1>6, <1>7, <1>8, <1>9, <1>10, <1>11, <1>12, <1>13, <1>14, <1>15, <1>16, <1>17, <1>18, <1>19, <1>20, <1>21, <1>22, <1>23, <1>24 DEF Next, RunLoop

-----------------------------------------------------------------------------
(* IInv is inductive.                                                          *)
LEMMA InitInv == Init => IInv
  <1> SUFFICES ASSUME Init PROVE IInv
    OBVIOUS
  <1>1. DOMAIN out = {}
    BY DEF Init
  <1>2. OutInv /\ NoDuplicateOutput /\ QuietAfterCancel
    BY <1>1 DEF OutInv, NoDuplicateOutput, QuietAfterCancel
  <1>3. StopInv
    BY DEF Init, StopInv
  <1> QED
    BY InitBook, <1>2, <1>3 DEF IInv

(* Every step keeps the invariant.                                           *)
LEMMA Step == IInv /\ [Next]_vars => IInv'
  BY BookStep, StopStep, OutStep DEF IInv

(* Types, with an attempt that never exceeds the policy's number of retries and *)
(* is never backed off from when it is the last.                                *)
THEOREM NodeTypes == Spec => []TypeOK
  <1>1. IInv => TypeOK
    BY DEF IInv, BookInv
  <1> QED
    BY <1>1, InitInv, Step, PTL DEF Spec

(* The counters of ErrorStats add up whatever raises, is retried, cancelled or   *)
(* stopped, for every number of retries and items.                              *)
THEOREM CountersAddUp == Spec => []StatsAddUp
  <1>1. IInv => StatsAddUp
    BY DEF IInv, BookInv
  <1> QED
    BY <1>1, InitInv, Step, PTL DEF Spec

(* What goes downstream is in order, without duplicates, and quiet after at most *)
(* one item of a cancelled turn.                                                *)
THEOREM OutputSafe == Spec => []OutputSound
  <1>1. IInv => OutputSound
    BY DEF IInv, OutputSound
  <1> QED
    BY <1>1, InitInv, Step, PTL DEF Spec

(* A stopped loop collects at most one more message.                            *)
THEOREM StopsPromptly == Spec => []AtMostOneAfterStop
  <1>1. IInv => AtMostOneAfterStop
    BY DEF IInv, StopInv, AtMostOneAfterStop
  <1> QED
    BY <1>1, InitInv, Step, PTL DEF Spec

(* A node that failed under `fail` collects nothing more.                       *)
THEOREM FailedIsQuiet == Spec => FailedCollectsNothing
  <1>1. IInv /\ [Next]_vars => [failed => taken' = taken]_vars
    <2> SUFFICES ASSUME IInv, [Next]_vars, failed PROVE taken' = taken
      OBVIOUS
    <2>1. ~Collect
      BY DEF Collect, IInv, StopInv
    <2> QED
      BY <2>1 DEF Next, RunLoop, vars, loopvars, Begin, LoopCheck, CollectNone, Handle, Return, CheckCancelled,
         Yield, Exhausted, Raise, Backoff, GiveUp, RecordRaises, SendBlocks, SendOk, SendRaisesInThread,
         SendRaisesInProcess, Unblocked, StopFlags, StopSignal, StopMailbox, Cancel, HealthStale
  <1> QED
    BY <1>1, InitInv, Step, PTL DEF Spec, FailedCollectsNothing

(* A node that is stopped or has failed takes no more work on, for every number   *)
(* of messages, retries and items.                                                *)
THEOREM StoppedIsQuiet == Spec => StopQuiet
  BY StopsPromptly, FailedIsQuiet, PTL DEF StopQuiet

-----------------------------------------------------------------------------
(* Routing.                                                                *)

RouteTypes ==
  /\ nodes \in Seq(NodeSpec)
  /\ next \in 1..(Len(nodes) + 1)
  /\ phase \in {"load", "route", "data", "control", "build", "built", "rejected", "uncounted", "unbuilt"}
  /\ phase \in {"load", "route"} => next = 1

Accepted == phase \notin {"load", "rejected"} => Valid

\* An accepted configuration has failed for a reason of its own.
Explained ==
  /\ phase = "uncounted" => \E e \in Entries : e.written # "int"
  /\ phase = "unbuilt" => ~Constructs(nodes[next])

Routed == phase \in {"data", "control", "build", "built"}

\* The mailboxes of a node as its entry asks for them.
Asked(e) == {e.id} \X (0..(e.replicas - 1))

MailboxesMade ==
  Routed =>
    /\ mailboxes = [id \in Ids |-> Entry(id).replicas]
    /\ DOMAIN pubs = UNION {Asked(e) : e \in Entries}
    /\ DOMAIN controls = DOMAIN pubs

DataWired ==
  \A i \in DOMAIN nodes :
    phase \in {"control", "build", "built"} \/ (phase = "data" /\ i < next) =>
      \A m \in Asked(nodes[i]) : pubs[m] = AddPublishers(nodes[i])

ControlWired ==
  \A i \in DOMAIN nodes :
    phase \in {"build", "built"} \/ (phase = "control" /\ i < next) =>
      \A m \in Asked(nodes[i]) : controls[m] = AddControlPublishers(nodes[i])

InstancesOf(e) == IF driver = "voice" THEN Launched(e) ELSE Instances(e)

\* The entries built so far.
Done == {i \in DOMAIN nodes : phase = "built" \/ (phase \in {"build", "unbuilt"} /\ i < next)}

NodesBuilt == built = UNION {InstancesOf(nodes[i]) : i \in Done}

RInv == RouteTypes /\ Accepted /\ Explained /\ MailboxesMade /\ DataWired /\ ControlWired /\ NodesBuilt

-----------------------------------------------------------------------------
\* What the entries of a configuration are, and that every id is one's.
LEMMA EntriesAre ==
  ASSUME nodes \in Seq(NodeSpec)
  PROVE  /\ DOMAIN nodes = 1..Len(nodes) /\ Len(nodes) \in Nat
         /\ \A i \in DOMAIN nodes : nodes[i] \in Entries /\ nodes[i] \in NodeSpec
         /\ \A e \in Entries : e \in NodeSpec /\ e.id \in Ids /\ e.replicas \in Int /\ e.id \in Id
         /\ \A id \in Ids : \E e \in Entries : e.id = id
<1>1. DOMAIN nodes = 1..Len(nodes) /\ Len(nodes) \in Nat
  OBVIOUS
<1>2. \A i \in DOMAIN nodes : nodes[i] \in Entries /\ nodes[i] \in NodeSpec
  BY DEF Entries
<1>3. \A e \in Entries : e \in NodeSpec /\ e.id \in Ids
  BY <1>2 DEF Entries, Ids
<1>4. \A e \in Entries : e.replicas \in Int /\ e.id \in Id
  BY <1>3 DEF NodeSpec
<1> QED
  BY <1>1, <1>2, <1>3, <1>4 DEF Ids

\* _validate has refused duplicate ids, so an id names one entry.
LEMMA UniqueIds ==
  ASSUME nodes \in Seq(NodeSpec), Valid
  PROVE  /\ \A i, j \in DOMAIN nodes : nodes[i].id = nodes[j].id => i = j
         /\ \A e, f \in Entries : e.id = f.id => e = f
         /\ \A e \in Entries : Entry(e.id) = e /\ e.replicas \in Nat \ {0}
<1>1. \A i, j \in DOMAIN nodes : nodes[i].id = nodes[j].id => i = j
  BY DEF Valid, Duplicates
<1>2. \A e, f \in Entries : e.id = f.id => e = f
  BY <1>1 DEF Entries
<1>3. \A e \in Entries : Entry(e.id) = e
  BY <1>2 DEF Entry
<1>4. \A e \in Entries : e.replicas \in Nat \ {0}
  BY EntriesAre DEF Valid, CheckNode
<1> QED
  BY <1>1, <1>2, <1>3, <1>4

\* After create_mailboxes an id's mailboxes are those its entry asks for.
LEMMA GroupsAre ==
  ASSUME RInv, Routed
  PROVE  /\ DOMAIN mailboxes = Ids
         /\ \A e \in Entries : Group(e.id) = Asked(e) /\ mailboxes[e.id] = e.replicas /\ Group(e.id) \subseteq DOMAIN pubs
<1>1. Valid /\ nodes \in Seq(NodeSpec)
  BY DEF RInv, RouteTypes, Accepted, Routed
<1>2. mailboxes = [id \in Ids |-> Entry(id).replicas] /\ DOMAIN pubs = UNION {Asked(e) : e \in Entries}
  BY DEF RInv, MailboxesMade
<1>3. ASSUME NEW e \in Entries
      PROVE  Group(e.id) = Asked(e) /\ mailboxes[e.id] = e.replicas /\ Group(e.id) \subseteq DOMAIN pubs
  <2>1. mailboxes[e.id] = e.replicas
    BY <1>1, <1>2, UniqueIds, EntriesAre
  <2>2. Group(e.id) = Asked(e)
    BY <2>1 DEF Group, Asked
  <2> QED
    BY <2>1, <2>2, <1>2
<1> QED
  BY <1>2, <1>3

\* No mailbox is asked for by two entries.
LEMMA AskedApart ==
  ASSUME nodes \in Seq(NodeSpec), Valid, NEW i \in DOMAIN nodes, NEW j \in DOMAIN nodes, NEW m \in Asked(nodes[i]),
         m \in Asked(nodes[j])
  PROVE  i = j
<1>1. m[1] = nodes[i].id /\ m[1] = nodes[j].id
  BY DEF Asked
<1> QED
  BY <1>1, UniqueIds

\* Nothing is built yet.
LEMMA RInit == RoutingInit => RInv
<1> SUFFICES ASSUME RoutingInit PROVE RInv
  OBVIOUS
<1>1. nodes \in Seq(NodeSpec)
  BY RoutingAssumption DEF RoutingInit
<1>2. RouteTypes
  BY <1>1 DEF RoutingInit, RouteTypes
<1>3. Done = {}
  BY DEF RoutingInit, Done
<1>4. NodesBuilt
  BY <1>3 DEF RoutingInit, NodesBuilt
<1> QED
  BY <1>2, <1>4 DEF RoutingInit, RInv, Accepted, Explained, MailboxesMade, Routed, DataWired, ControlWired

\* A part of the configuration the action leaves alone.
LEMMA Unchanged ==
  ASSUME nodes' = nodes
  PROVE  /\ Entries' = Entries /\ Ids' = Ids /\ Valid' = Valid
         /\ \A id : Entry(id)' = Entry(id)
BY DEF Entries, Ids, Valid, Duplicates, TypesKnown, CheckNode, CheckOutput, Entry

\* _validate lets only valid configurations through.
LEMMA ValidateInv == ASSUME RInv, Validate PROVE RInv'
<1> USE DEF RInv
<1>1. /\ phase = "load" /\ phase' = (IF Valid THEN "route" ELSE "rejected")
      /\ UNCHANGED <<driver, nodes, next, mailboxes, pubs, controls, built>>
  BY DEF Validate
<1>2. RouteTypes'
  BY <1>1 DEF RouteTypes
<1>3. Accepted'
  BY <1>1, Unchanged DEF Accepted
<1>4. Done' = {} /\ Done = {}
  BY <1>1 DEF Done
<1>5. NodesBuilt'
  BY <1>1, <1>4 DEF NodesBuilt
<1>6. Explained'
  BY <1>1 DEF Explained
<1> QED
  BY <1>1, <1>2, <1>3, <1>5, <1>6 DEF MailboxesMade, Routed, DataWired, ControlWired

\* Replicas that cannot be counted are not written as an integer.
LEMMA CreateMailboxesRaisesInv == ASSUME RInv, CreateMailboxesRaises PROVE RInv'
<1> USE DEF RInv
<1>1. /\ phase = "route" /\ phase' = "uncounted" /\ \E e \in Entries : ~Countable(e)
      /\ UNCHANGED <<driver, nodes, next, mailboxes, pubs, controls, built>>
  BY DEF CreateMailboxesRaises
<1>2. RouteTypes' /\ Accepted'
  BY <1>1, Unchanged DEF RouteTypes, Accepted
<1>3. Explained'
  BY <1>1, Unchanged DEF Explained, Countable
<1>4. Done' = {} /\ Done = {}
  BY <1>1 DEF Done
<1>5. NodesBuilt'
  BY <1>1, <1>4 DEF NodesBuilt
<1> QED
  BY <1>1, <1>2, <1>3, <1>5 DEF MailboxesMade, Routed, DataWired, ControlWired

\* create_mailboxes makes every replica of every entry a mailbox with no socket.
LEMMA CreateMailboxesInv == ASSUME RInv, CreateMailboxes PROVE RInv'
<1> USE DEF RInv
<1>1. /\ phase = "route" /\ phase' = "data" /\ UNCHANGED <<driver, nodes, next, built>>
  BY DEF CreateMailboxes
<1>2. nodes \in Seq(NodeSpec) /\ Valid
  BY <1>1 DEF RouteTypes, Accepted
<1> DEFINE replicas == [id \in Ids |-> IF Entry(id).replicas <= 1 THEN 1 ELSE Entry(id).replicas]
           all == UNION {{id} \X (0..(replicas[id] - 1)) : id \in Ids}
<1>3. mailboxes' = replicas /\ pubs' = [m \in all |-> <<>>] /\ controls' = [m \in all |-> <<>>]
  BY DEF CreateMailboxes
<1>4. replicas = [id \in Ids |-> Entry(id).replicas]
  <2> SUFFICES ASSUME NEW id \in Ids PROVE (IF Entry(id).replicas <= 1 THEN 1 ELSE Entry(id).replicas) = Entry(id).replicas
    OBVIOUS
  <2>1. PICK e \in Entries : e.id = id
    BY <1>2, EntriesAre
  <2>2. Entry(id).replicas \in Nat \ {0}
    BY <1>2, <2>1, UniqueIds
  <2> QED
    BY <2>2
<1>5. all = UNION {Asked(e) : e \in Entries}
  <2>1. \A e \in Entries : e.id \in Ids /\ Entry(e.id).replicas = e.replicas
    BY <1>2, EntriesAre, UniqueIds
  <2>2. \A e \in Entries : Asked(e) = {e.id} \X (0..(replicas[e.id] - 1))
    BY <1>4, <2>1 DEF Asked
  <2> HIDE DEF replicas
  <2>3. \A id \in Ids : \E e \in Entries : e.id = id
    BY <1>2, EntriesAre
  <2> QED
    BY <2>1, <2>2, <2>3
<1> HIDE DEF replicas, all
<1>6. MailboxesMade'
  BY <1>1, <1>3, <1>4, <1>5, Unchanged DEF MailboxesMade, Asked
<1>7. RouteTypes' /\ Accepted'
  BY <1>1, <1>2, Unchanged DEF RouteTypes, Accepted
<1>8. NodesBuilt'
  <2>1. Done = {} /\ Done' = {}
    BY <1>1 DEF Done
  <2> QED
    BY <1>1, <2>1 DEF NodesBuilt
<1>9. next = 1
  BY <1>1 DEF RouteTypes
<1>10. Explained'
  BY <1>1 DEF Explained
<1> QED
  BY <1>1, <1>2, <1>6, <1>7, <1>8, <1>9, <1>10, EntriesAre DEF DataWired, ControlWired

\* A target the schema accepted has its mailboxes.
LEMMA TargetsExist ==
  ASSUME RInv, Routed, NEW e \in Entries
  PROVE  ~MissingTarget(e.outputs) /\ ~MissingTarget(e.control_outputs)
<1>1. Valid
  BY DEF RInv, Accepted, Routed
<1>2. DOMAIN mailboxes = Ids
  BY GroupsAre
<1> QED
  BY <1>1, <1>2 DEF Valid, CheckNode, CheckOutput, MissingTarget

\* A turn of _wire_data_outputs connects one entry's mailboxes and no other's.
LEMMA WireDataInv == ASSUME RInv, WireDataOutputs PROVE RInv'
<1> DEFINE e == nodes[next]
<1>1. /\ phase = "data" /\ next <= Len(nodes) /\ UNCHANGED <<driver, nodes, mailboxes, controls, built>>
  BY DEF WireDataOutputs
<1>2. nodes \in Seq(NodeSpec) /\ Valid /\ Routed /\ next \in DOMAIN nodes /\ next \in Nat /\ Len(nodes) \in Nat
  BY <1>1 DEF RInv, RouteTypes, Accepted, Routed
<1>3. e \in Entries
  BY <1>2 DEF Entries
<1>4. /\ pubs' = [m \in DOMAIN pubs |-> IF m \in Group(e.id) THEN AddPublishers(e) ELSE pubs[m]]
      /\ next' = next + 1 /\ phase' = phase
  BY <1>2, <1>3, TargetsExist DEF WireDataOutputs
<1>5. Group(e.id) = Asked(e) /\ Asked(e) \subseteq DOMAIN pubs
  BY <1>2, <1>3, GroupsAre
<1>6. RouteTypes' /\ Accepted'
  BY <1>1, <1>2, <1>4, Unchanged DEF RInv, RouteTypes, Accepted
<1>7. MailboxesMade'
  BY <1>1, <1>4, Unchanged DEF RInv, MailboxesMade, Routed, Asked
<1>8. DataWired'
  <2> SUFFICES ASSUME NEW i \in DOMAIN nodes, i < next + 1, NEW m \in Asked(nodes[i])
               PROVE  pubs'[m] = AddPublishers(nodes[i])'
    BY <1>1, <1>4 DEF DataWired, Asked
  <2>1. AddPublishers(nodes[i])' = AddPublishers(nodes[i])
    BY <1>1 DEF AddPublishers, Group
  <2>2. m \in DOMAIN pubs
    <3>1. nodes[i] \in Entries
      BY DEF Entries
    <3> QED
      BY <1>1, <3>1 DEF RInv, MailboxesMade, Routed
  <2>3. CASE i = next
    BY <1>4, <1>5, <2>1, <2>2, <2>3
  <2>4. CASE i # next
    <3>1. m \notin Asked(e)
      BY <1>2, <2>4, AskedApart
    <3>2. i < next
      BY <1>2, <2>4, EntriesAre
    <3>3. pubs[m] = AddPublishers(nodes[i])
      BY <1>1, <3>2 DEF RInv, DataWired
    <3> QED
      BY <1>4, <1>5, <2>1, <2>2, <3>1, <3>3
  <2> QED
    BY <2>3, <2>4
<1>9. ControlWired' /\ NodesBuilt'
  <2>1. Done = {} /\ Done' = {}
    BY <1>1, <1>4 DEF Done
  <2> QED
    BY <1>1, <1>4, <2>1 DEF RInv, ControlWired, NodesBuilt
<1>10. Explained'
  BY <1>1, <1>4 DEF Explained
<1> QED
  BY <1>6, <1>7, <1>8, <1>9, <1>10 DEF RInv

\* A turn of _wire_control_outputs does the same for the control sockets.
LEMMA WireControlInv == ASSUME RInv, WireControlOutputs PROVE RInv'
<1> DEFINE e == nodes[next]
<1>1. /\ phase = "control" /\ next <= Len(nodes) /\ UNCHANGED <<driver, nodes, mailboxes, pubs, built>>
  BY DEF WireControlOutputs
<1>2. nodes \in Seq(NodeSpec) /\ Valid /\ Routed /\ next \in DOMAIN nodes /\ next \in Nat /\ Len(nodes) \in Nat
  BY <1>1 DEF RInv, RouteTypes, Accepted, Routed
<1>3. e \in Entries
  BY <1>2 DEF Entries
<1>4. /\ controls' = [m \in DOMAIN controls |-> IF m \in Group(e.id) THEN AddControlPublishers(e) ELSE controls[m]]
      /\ next' = next + 1 /\ phase' = phase
  BY <1>2, <1>3, TargetsExist DEF WireControlOutputs
<1>5. Group(e.id) = Asked(e) /\ Asked(e) \subseteq DOMAIN pubs /\ DOMAIN controls = DOMAIN pubs
  BY <1>2, <1>3, GroupsAre DEF RInv, MailboxesMade
<1>6. RouteTypes' /\ Accepted'
  BY <1>1, <1>2, <1>4, Unchanged DEF RInv, RouteTypes, Accepted
<1>7. MailboxesMade'
  BY <1>1, <1>4, <1>5, Unchanged DEF RInv, MailboxesMade, Routed, Asked
<1>8. ControlWired'
  <2> SUFFICES ASSUME NEW i \in DOMAIN nodes, i < next + 1, NEW m \in Asked(nodes[i])
               PROVE  controls'[m] = AddControlPublishers(nodes[i])'
    BY <1>1, <1>4 DEF ControlWired, Asked
  <2>1. AddControlPublishers(nodes[i])' = AddControlPublishers(nodes[i])
    BY <1>1 DEF AddControlPublishers, Group
  <2>2. m \in DOMAIN controls
    <3>1. nodes[i] \in Entries
      BY DEF Entries
    <3> QED
      BY <1>1, <1>5, <3>1 DEF RInv, MailboxesMade, Routed
  <2>3. CASE i = next
    BY <1>4, <1>5, <2>1, <2>2, <2>3
  <2>4. CASE i # next
    <3>1. m \notin Asked(e)
      BY <1>2, <2>4, AskedApart
    <3>2. i < next
      BY <1>2, <2>4, EntriesAre
    <3>3. controls[m] = AddControlPublishers(nodes[i])
      BY <1>1, <3>2 DEF RInv, ControlWired
    <3> QED
      BY <1>4, <1>5, <2>1, <2>2, <3>1, <3>3
  <2> QED
    BY <2>3, <2>4
<1>9. DataWired'
  <2>1. \A i \in DOMAIN nodes : AddPublishers(nodes[i])' = AddPublishers(nodes[i])
    BY <1>1 DEF AddPublishers, Group
  <2> QED
    BY <1>1, <1>4, <2>1 DEF RInv, DataWired, Asked
<1>10. NodesBuilt'
  <2>1. Done = {} /\ Done' = {}
    BY <1>1, <1>4 DEF Done
  <2> QED
    BY <1>1, <2>1 DEF RInv, NodesBuilt
<1>11. Explained'
  BY <1>1, <1>4 DEF Explained
<1> QED
  BY <1>6, <1>7, <1>8, <1>9, <1>10, <1>11 DEF RInv

\* What is wired stays so while the nodes are built and the loops end.
LEMMA WiringKept ==
  ASSUME RInv, Routed, UNCHANGED <<driver, nodes, mailboxes, pubs, controls>>, phase' \in {phase, "control", "build", "built"}, RouteTypes'
  PROVE  /\ Accepted' /\ MailboxesMade'
         /\ \A i \in DOMAIN nodes : /\ AddPublishers(nodes[i])' = AddPublishers(nodes[i])
                                    /\ AddControlPublishers(nodes[i])' = AddControlPublishers(nodes[i])
                                    /\ InstancesOf(nodes[i])' = InstancesOf(nodes[i])
                                    /\ Asked(nodes[i])' = Asked(nodes[i])
<1>1. Accepted'
  BY Unchanged DEF RInv, Accepted, Routed
<1>2. MailboxesMade'
  BY Unchanged DEF RInv, MailboxesMade, Asked, Routed
<1>3. \A i \in DOMAIN nodes : /\ AddPublishers(nodes[i])' = AddPublishers(nodes[i])
                              /\ AddControlPublishers(nodes[i])' = AddControlPublishers(nodes[i])
                              /\ Asked(nodes[i])' = Asked(nodes[i])
  BY DEF AddPublishers, AddControlPublishers, Group, Asked
<1>4. \A i \in DOMAIN nodes : InstancesOf(nodes[i])' = InstancesOf(nodes[i])
  BY DEF InstancesOf, Instances, Launched, Create, Called, Group
<1> QED
  BY <1>1, <1>2, <1>3, <1>4

\* A turn of the factory's loop builds one entry's instances and no other's.
LEMMA BuildNodesInv == ASSUME RInv, BuildNodes PROVE RInv'
<1>1. /\ phase = "build" /\ next <= Len(nodes) /\ next' = next + 1
      /\ built' = built \cup InstancesOf(nodes[next])
      /\ UNCHANGED <<driver, nodes, phase, mailboxes, pubs, controls>>
  BY DEF BuildNodes, InstancesOf
<1>2. nodes \in Seq(NodeSpec) /\ Routed /\ next \in DOMAIN nodes /\ next \in Nat /\ Len(nodes) \in Nat
  BY <1>1 DEF RInv, RouteTypes, Routed
<1>3. RouteTypes'
  BY <1>1, <1>2 DEF RInv, RouteTypes
<1>4. /\ Accepted' /\ MailboxesMade'
      /\ \A i \in DOMAIN nodes : /\ AddPublishers(nodes[i])' = AddPublishers(nodes[i])
                                 /\ AddControlPublishers(nodes[i])' = AddControlPublishers(nodes[i])
                                 /\ InstancesOf(nodes[i])' = InstancesOf(nodes[i])
                                 /\ Asked(nodes[i])' = Asked(nodes[i])
  BY <1>1, <1>2, <1>3, WiringKept
<1>5. DataWired' /\ ControlWired'
  BY <1>1, <1>4 DEF RInv, DataWired, ControlWired
<1>6. Done' = Done \cup {next}
  BY <1>1, <1>2, EntriesAre DEF Done
<1>7. \A i \in Done' : i \in DOMAIN nodes
  BY <1>1 DEF Done
<1>8. NodesBuilt'
  BY <1>1, <1>4, <1>6, <1>7 DEF RInv, NodesBuilt
<1>9. Explained'
  BY <1>1 DEF Explained
<1> QED
  BY <1>3, <1>4, <1>5, <1>8, <1>9 DEF RInv

\* A node that refuses its entry stops the loop there.
LEMMA BuildRaisesInv == ASSUME RInv, BuildRaises PROVE RInv'
<1>1. /\ phase = "build" /\ phase' = "unbuilt" /\ ~Constructs(nodes[next])
      /\ UNCHANGED <<driver, nodes, next, mailboxes, pubs, controls, built>>
  BY DEF BuildRaises
<1>2. RouteTypes' /\ Accepted'
  BY <1>1, Unchanged DEF RInv, RouteTypes, Accepted
<1>3. Explained'
  <2>1. Constructs(nodes[next])' = Constructs(nodes[next])
    BY <1>1 DEF Constructs
  <2> QED
    BY <1>1, <2>1 DEF Explained
<1>4. Done' = Done
  BY <1>1 DEF Done
<1>5. \A i \in DOMAIN nodes : InstancesOf(nodes[i])' = InstancesOf(nodes[i])
  BY <1>1 DEF InstancesOf, Instances, Launched, Create, Called, Group
<1>6. NodesBuilt'
  <2>1. \A i \in Done : i \in DOMAIN nodes
    BY DEF Done
  <2> QED
    BY <1>1, <1>4, <1>5, <2>1 DEF RInv, NodesBuilt
<1> QED
  BY <1>1, <1>2, <1>3, <1>6 DEF RInv, MailboxesMade, Routed, DataWired, ControlWired

\* A loop that ends has been through every entry.
LEMMA EndLoopInv == ASSUME RInv, EndLoop PROVE RInv'
<1>1. /\ next > Len(nodes) /\ next' = 1
      /\ \/ phase = "data" /\ phase' = "control"
         \/ phase = "control" /\ phase' = "build"
         \/ phase = "build" /\ phase' = "built"
      /\ UNCHANGED <<driver, nodes, mailboxes, pubs, controls, built>>
  BY DEF EndLoop, After
<1>2. nodes \in Seq(NodeSpec) /\ Routed /\ Len(nodes) \in Nat /\ next \in Nat /\ DOMAIN nodes = 1..Len(nodes)
  BY <1>1 DEF RInv, RouteTypes, Routed
<1>3. RouteTypes'
  BY <1>1, <1>2 DEF RInv, RouteTypes
<1>4. /\ Accepted' /\ MailboxesMade'
      /\ \A i \in DOMAIN nodes : /\ AddPublishers(nodes[i])' = AddPublishers(nodes[i])
                                 /\ AddControlPublishers(nodes[i])' = AddControlPublishers(nodes[i])
                                 /\ InstancesOf(nodes[i])' = InstancesOf(nodes[i])
                                 /\ Asked(nodes[i])' = Asked(nodes[i])
  BY <1>1, <1>2, <1>3, WiringKept
<1>5. \A i \in DOMAIN nodes : i < next /\ ~(i < 1)
  BY <1>1, <1>2
<1>6. DataWired' /\ ControlWired'
  BY <1>1, <1>4, <1>5 DEF RInv, DataWired, ControlWired
<1>7. Done' = Done /\ \A i \in Done : i \in DOMAIN nodes
  BY <1>1, <1>5 DEF Done
<1>8. NodesBuilt'
  BY <1>1, <1>4, <1>7 DEF RInv, NodesBuilt
<1>9. Explained'
  BY <1>1 DEF Explained
<1> QED
  BY <1>3, <1>4, <1>6, <1>8, <1>9 DEF RInv

\* Every step preserves the invariant.
LEMMA RNext == RInv /\ [RoutingNext]_routingVars => RInv'
<1> SUFFICES ASSUME RInv, [RoutingNext]_routingVars PROVE RInv'
  OBVIOUS
<1>1. CASE UNCHANGED routingVars
  <2>1. UNCHANGED <<driver, nodes, phase, next, mailboxes, pubs, controls, built>>
    BY <1>1 DEF routingVars
  <2>2. \A e : /\ AddPublishers(e)' = AddPublishers(e) /\ AddControlPublishers(e)' = AddControlPublishers(e)
               /\ Asked(e)' = Asked(e) /\ InstancesOf(e)' = InstancesOf(e)
    BY <2>1 DEF AddPublishers, AddControlPublishers, Group, Asked, InstancesOf, Instances, Launched, Create, Called
  <2>3. Done' = Done
    BY <2>1 DEF Done
  <2>4. RouteTypes' /\ Accepted' /\ MailboxesMade'
    BY <2>1, Unchanged DEF RInv, RouteTypes, Accepted, MailboxesMade, Routed, Asked
  <2>5. DataWired' /\ ControlWired'
    BY <2>1, <2>2 DEF RInv, DataWired, ControlWired
  <2>6. NodesBuilt'
    BY <2>1, <2>2, <2>3 DEF RInv, NodesBuilt
  <2>7. Explained'
    <3>1. Constructs(nodes[next])' = Constructs(nodes[next])
      BY <2>1 DEF Constructs
    <3> QED
      BY <2>1, <3>1, Unchanged DEF RInv, Explained
  <2> QED
    BY <2>4, <2>5, <2>6, <2>7 DEF RInv
<1>2. CASE RoutingNext
  BY <1>2, ValidateInv, CreateMailboxesInv, CreateMailboxesRaisesInv, WireDataInv, WireControlInv, BuildNodesInv,
     BuildRaisesInv, EndLoopInv DEF RoutingNext
<1> QED
  BY <1>1, <1>2

\* The invariant holds throughout, for configurations of any length.
THEOREM RoutingInvariant == RoutingSpec => []RInv
BY RInit, RNext, PTL DEF RoutingSpec

\* The mailboxes under a target's id are the ones that bear it.
LEMMA TargetGroup ==
  ASSUME RInv, Routed, NEW t \in Ids
  PROVE  Group(t) = {p \in DOMAIN pubs : p[1] = t}
<1>1. nodes \in Seq(NodeSpec) /\ Valid
  BY DEF RInv, RouteTypes, Accepted, Routed
<1>2. PICK f \in Entries : f.id = t
  BY <1>1, EntriesAre
<1>3. Group(t) = Asked(f) /\ Asked(f) \subseteq DOMAIN pubs
  BY <1>2, GroupsAre
<1>4. ASSUME NEW p \in DOMAIN pubs, p[1] = t PROVE p \in Asked(f)
  <2>1. PICK g \in Entries : p \in Asked(g)
    BY DEF RInv, MailboxesMade
  <2>2. g = f
    BY <1>1, <1>2, <1>4, <2>1, UniqueIds DEF Asked
  <2> QED
    BY <2>1, <2>2
<1>5. \A p \in Asked(f) : p[1] = t
  BY <1>2 DEF Asked
<1> QED
  BY <1>3, <1>4, <1>5

\* A configuration the schema accepts is wired as it says, unless a count of
\* replicas is not written as an integer or a node refuses its entry: every replica
\* of a node reaches all replicas of each of its targets, and no others, and all of
\* them with a cancellation (WiringFollowsConfig).
THEOREM WiringIsFaithful == RoutingSpec => []WiringFollowsConfig
<1>1. RInv => WiringFollowsConfig
  <2> SUFFICES ASSUME RInv PROVE WiringFollowsConfig
    OBVIOUS
  <2>1. /\ phase # "unwired"
        /\ phase = "uncounted" => \E e \in Entries : e.written # "int"
        /\ phase = "unbuilt" => ~Constructs(nodes[next])
    BY DEF RInv, RouteTypes, Explained
  <2> SUFFICES ASSUME phase = "built", NEW e \in Entries, NEW m \in DOMAIN pubs, m[1] = e.id
               PROVE  /\ DOMAIN pubs[m] = ToSet(e.outputs)
                      /\ \A t \in ToSet(e.outputs) : pubs[m][t] = {p \in DOMAIN pubs : p[1] = t}
                      /\ \A t \in ToSet(e.control_outputs), p \in DOMAIN pubs :
                           p[1] = t => p \in DOMAIN controls[m][t] /\ controls[m][t][p] > 0
    BY <2>1 DEF WiringFollowsConfig
  <2>2. nodes \in Seq(NodeSpec) /\ Valid /\ Routed
    BY DEF RInv, RouteTypes, Accepted, Routed
  <2>3. PICK i \in DOMAIN nodes : e = nodes[i]
    BY DEF Entries
  <2>4. m \in Asked(nodes[i])
    <3>1. m \in Group(e.id)
      BY <2>2, EntriesAre, TargetGroup
    <3> QED
      BY <2>2, <2>3, <3>1, GroupsAre
  <2>5. pubs[m] = AddPublishers(e) /\ controls[m] = AddControlPublishers(e)
    BY <2>3, <2>4 DEF RInv, DataWired, ControlWired
  <2>6. ToSet(e.outputs) \subseteq Ids /\ ToSet(e.control_outputs) \subseteq Ids
    BY <2>2 DEF Valid, CheckNode, CheckOutput
  <2>7. DOMAIN pubs[m] = ToSet(e.outputs) /\ \A t \in ToSet(e.outputs) : pubs[m][t] = {p \in DOMAIN pubs : p[1] = t}
    BY <2>2, <2>5, <2>6, TargetGroup DEF AddPublishers
  <2>8. ASSUME NEW t \in ToSet(e.control_outputs), NEW p \in DOMAIN pubs, p[1] = t
        PROVE  p \in DOMAIN controls[m][t] /\ controls[m][t][p] > 0
    <3> DEFINE named == {k \in DOMAIN e.control_outputs : e.control_outputs[k] = t}
    <3>1. p \in Group(t)
      BY <2>2, <2>6, <2>8, TargetGroup
    <3>2. controls[m][t] = [n \in Group(t) |-> Cardinality(named)]
      BY <2>5 DEF AddControlPublishers
    <3>3. e.control_outputs \in Seq(Id)
      BY <2>2, EntriesAre DEF NodeSpec
    <3>4. named # {} /\ named \subseteq 1..Len(e.control_outputs) /\ Len(e.control_outputs) \in Nat
      BY <3>3 DEF ToSet
    <3>5. IsFiniteSet(named)
      <4>1. IsFiniteSet(1..Len(e.control_outputs))
        BY <3>4, FS_Interval
      <4> QED
        BY <3>4, <4>1, FS_Subset
    <3>6. Cardinality(named) \in Nat /\ Cardinality(named) # 0
      BY <3>4, <3>5, FS_CardinalityType, FS_EmptySet
    <3> QED
      BY <3>1, <3>2, <3>6
  <2> QED
    BY <2>7, <2>8
<1> QED
  BY <1>1, RoutingInvariant, PTL


\* The ids of replicas are apart.
LEMMA ReplicaInjective ==
  ASSUME NEW x \in Id, NEW y \in Id, NEW i \in Nat, NEW j \in Nat, Replica(x, i) = Replica(y, j)
  PROVE  x = y /\ i = j
<1>1. /\ x = [name |-> x.name, suffix |-> x.suffix] /\ x.suffix \in Seq(Nat)
      /\ y = [name |-> y.name, suffix |-> y.suffix] /\ y.suffix \in Seq(Nat)
  BY DEF Id
<1>2. x.name = y.name /\ Append(x.suffix, i) = Append(y.suffix, j)
  <2>1. Replica(x, i).name = x.name /\ Replica(x, i).suffix = Append(x.suffix, i)
    BY <1>1 DEF Replica
  <2>2. Replica(y, j).name = y.name /\ Replica(y, j).suffix = Append(y.suffix, j)
    BY <1>1 DEF Replica
  <2> QED
    BY ONLY <2>1, <2>2, Replica(x, i) = Replica(y, j)
<1>3. x.suffix = y.suffix /\ i = j
  BY <1>1, <1>2, AppendInjective
<1> QED
  BY <1>1, <1>2, <1>3

\* A replica's id ends in a number, a type's name does not.
LEMMA ReplicaNotPlain ==
  ASSUME NEW x \in Id, NEW i \in Nat, NEW name
  PROVE  Replica(x, i) # Plain(name)
<1>1. Replica(x, i).suffix = Append(x.suffix, i) /\ x.suffix \in Seq(Nat)
  BY DEF Replica, Id
<1>2. Append(x.suffix, i) # <<>>
  BY <1>1, AppendProperties
<1> QED
  BY <1>1, <1>2 DEF Plain

\* The instances of one entry: on mailboxes of its own, under ids made from its own.
LEMMA InstancesAre ==
  ASSUME RInv, Routed, NEW e \in Entries
  PROVE  /\ \A b \in InstancesOf(e) :
              /\ b.mailbox \in Asked(e)
              /\ \/ b.id = Called(e) /\ b.mailbox = <<e.id, 0>> /\ (e.replicas = 1 \/ driver = "voice")
                 \/ b.id = Replica(e.id, b.mailbox[2]) /\ e.replicas > 1 /\ driver # "voice"
         /\ \A a, b \in InstancesOf(e) : a.mailbox = b.mailbox => a = b
         /\ driver # "voice" \/ e.replicas = 1 => {b.mailbox : b \in InstancesOf(e)} = Asked(e)
<1>1. nodes \in Seq(NodeSpec) /\ Valid
  BY DEF RInv, RouteTypes, Accepted, Routed
<1>2. mailboxes[e.id] = e.replicas /\ Group(e.id) = Asked(e)
  BY GroupsAre
<1>3. e.replicas \in Nat \ {0}
  BY <1>1, UniqueIds
<1>4. <<e.id, 0>> \in Asked(e)
  BY <1>3 DEF Asked
<1>5. e.replicas = 1 => Asked(e) = {<<e.id, 0>>}
  <2> SUFFICES ASSUME e.replicas = 1 PROVE Asked(e) = {<<e.id, 0>>}
    OBVIOUS
  <2>1. 0..(e.replicas - 1) = {0}
    BY <1>3
  <2> QED
    BY <2>1 DEF Asked
<1>6. CASE driver = "voice"
  <2>1. InstancesOf(e) = {[id |-> Called(e), mailbox |-> <<e.id, 0>>, policy |-> Called(e)]}
    BY <1>6 DEF InstancesOf, Launched, Create
  <2> QED
    BY <1>4, <1>5, <1>6, <2>1
<1>7. CASE driver # "voice"
  <2> DEFINE inst(m) == [id |-> IF e.replicas > 1 THEN Replica(e.id, m[2]) ELSE Called(e), mailbox |-> m, policy |-> Called(e)]
  <2>1. InstancesOf(e) = {inst(m) : m \in Asked(e)}
    <3> DEFINE made(m) == [Create(e, m) EXCEPT !.id = IF mailboxes[e.id] > 1 THEN Replica(e.id, m[2]) ELSE @]
    <3>1. \A m : made(m) = inst(m)
      BY <1>2 DEF Create
    <3>2. InstancesOf(e) = {made(m) : m \in Asked(e)}
      BY <1>2, <1>7 DEF InstancesOf, Instances
    <3> HIDE DEF made, inst
    <3> QED
      BY <3>1, <3>2
  <2>2. \A m : inst(m).mailbox = m /\ inst(m).id = IF e.replicas > 1 THEN Replica(e.id, m[2]) ELSE Called(e)
    OBVIOUS
  <2> HIDE DEF inst
  <2>3. e.replicas > 1 \/ e.replicas = 1
    BY <1>3
  <2> QED
    BY <1>5, <1>7, <2>1, <2>2, <2>3
<1> QED
  BY <1>6, <1>7

\* Two instances under one id: one of them bears its entry's own id, which the
\* program has made up for the other.
LEMMA ClashIsConfigured ==
  ASSUME RInv, Routed, NEW e \in Entries, NEW f \in Entries,
         NEW a \in InstancesOf(e), NEW b \in InstancesOf(f), a.mailbox # b.mailbox, a.id = b.id
  PROVE  \E g, h \in Entries : g # h /\ h.id = a.id /\ a.id \in MadeUp(g)
<1>1. nodes \in Seq(NodeSpec) /\ Valid
  BY DEF RInv, RouteTypes, Accepted, Routed
<1>2. \A g \in Entries : g.id \in Id /\ mailboxes[g.id] = g.replicas /\ g.replicas \in Nat \ {0}
  BY <1>1, EntriesAre, GroupsAre, UniqueIds
<1> DEFINE Own(g, c) == c.id = Called(g) /\ c.mailbox = <<g.id, 0>> /\ (g.replicas = 1 \/ driver = "voice")
           Renamed(g, c) == c.id = Replica(g.id, c.mailbox[2]) /\ g.replicas > 1 /\ driver # "voice"
<1>3. /\ a.mailbox \in Asked(e) /\ (Own(e, a) \/ Renamed(e, a))
      /\ b.mailbox \in Asked(f) /\ (Own(f, b) \/ Renamed(f, b))
  BY InstancesAre
<1>4. PICK i \in 0..(e.replicas - 1) : a.mailbox = <<e.id, i>>
  BY <1>3 DEF Asked
<1>5. PICK j \in 0..(f.replicas - 1) : b.mailbox = <<f.id, j>>
  BY <1>3 DEF Asked
<1>6. i \in Nat /\ j \in Nat /\ a.mailbox[2] = i /\ b.mailbox[2] = j
  BY <1>2, <1>4, <1>5
<1>7. CASE Own(e, a) /\ Own(f, b)
  <2>1. e # f /\ e.id # f.id
    <3>1. e # f
      BY <1>7
    <3> QED
      BY <1>1, <3>1, UniqueIds
  <2>2. CASE e.id = Plain("")
    <3>1. a.id = Plain(e.type) /\ f.id = a.id
      BY <1>7, <2>1, <2>2 DEF Called
    <3>2. ~(driver # "voice" /\ mailboxes[e.id] > 1)
      BY <1>2, <1>7
    <3>3. MadeUp(e) = {Plain(e.type)}
      BY <2>2, <3>2 DEF MadeUp
    <3> QED
      BY <2>1, <3>1, <3>3
  <2>3. CASE e.id # Plain("")
    <3>1. f.id = Plain("") /\ b.id = Plain(f.type) /\ e.id = a.id
      BY <1>7, <2>1, <2>3 DEF Called
    <3>2. ~(driver # "voice" /\ mailboxes[f.id] > 1)
      BY <1>2, <1>7
    <3>3. MadeUp(f) = {Plain(f.type)}
      BY <3>1, <3>2 DEF MadeUp
    <3> QED
      BY <2>1, <3>1, <3>3
  <2> QED
    BY <2>2, <2>3
<1>8. ASSUME NEW g \in Entries, NEW h \in Entries, NEW c, NEW d, NEW k \in 0..(g.replicas - 1),
             Renamed(g, c), Own(h, d), c.mailbox[2] = k, c.id = d.id
      PROVE  g # h /\ h.id = c.id /\ c.id \in MadeUp(g)
  <2>1. g # h
    BY <1>2, <1>8
  <2>2. c.id = Replica(g.id, k) /\ k \in Nat /\ g.id \in Id
    BY <1>2, <1>8
  <2>3. h.id = c.id
    BY <1>8, <2>2, ReplicaNotPlain DEF Called
  <2>4. MadeUp(g) = {Replica(g.id, n) : n \in 0..(g.replicas - 1)}
    BY <1>2, <1>8 DEF MadeUp
  <2> QED
    BY <2>1, <2>2, <2>3, <2>4
<1>9. CASE Renamed(e, a) /\ Own(f, b)
  BY <1>6, <1>8, <1>9
<1>10. CASE Own(e, a) /\ Renamed(f, b)
  <2>1. b.id = a.id
    OBVIOUS
  <2>2. f # e /\ e.id = b.id /\ b.id \in MadeUp(f)
    BY <1>6, <1>8, <1>10, <2>1
  <2> QED
    BY <2>1, <2>2
<1>11. CASE Renamed(e, a) /\ Renamed(f, b)
  <2>1. Replica(e.id, i) = Replica(f.id, j)
    BY <1>6, <1>11
  <2>2. e.id = f.id /\ i = j
    BY <1>2, <1>6, <2>1, ReplicaInjective
  <2> QED
    BY <1>4, <1>5, <2>2
<1> HIDE DEF Own, Renamed
<1> QED
  BY <1>3, <1>7, <1>9, <1>10, <1>11

\* A built pipeline has a node for every mailbox, unless the voice launcher built
\* it with replicas; no two nodes share a mailbox, and none share an id that the
\* configuration did not give to one and the program to the other (EveryMailboxServed).
THEOREM MailboxesAreServed == RoutingSpec => []EveryMailboxServed
<1>1. RInv => EveryMailboxServed
  <2> SUFFICES ASSUME RInv, phase = "built" PROVE EveryMailboxServed
    BY DEF EveryMailboxServed
  <2>1. nodes \in Seq(NodeSpec) /\ Valid /\ Routed
    BY DEF RInv, RouteTypes, Accepted, Routed
  <2>2. built = UNION {InstancesOf(e) : e \in Entries}
    <3>1. Done = DOMAIN nodes
      BY DEF Done
    <3> QED
      BY <3>1 DEF RInv, NodesBuilt, Entries
  <2>3. DOMAIN pubs = UNION {Asked(e) : e \in Entries}
    BY <2>1 DEF RInv, MailboxesMade
  <2>4. ASSUME driver # "voice" \/ \A e \in Entries : e.replicas = 1
        PROVE  Served
    <3>1. \A e \in Entries : {b.mailbox : b \in InstancesOf(e)} = Asked(e)
      BY <2>1, <2>4, InstancesAre
    <3> QED
      BY <2>2, <2>3, <3>1 DEF Served
  <2>5. ASSUME NEW a \in built, NEW b \in built, a # b
        PROVE  /\ a.mailbox # b.mailbox
               /\ a.id = b.id => \E e, f \in Entries : e # f /\ f.id = a.id /\ a.id \in MadeUp(e)
    <3>1. PICK e \in Entries : a \in InstancesOf(e)
      BY <2>2
    <3>2. PICK f \in Entries : b \in InstancesOf(f)
      BY <2>2
    <3>3. a.mailbox # b.mailbox
      <4> SUFFICES ASSUME a.mailbox = b.mailbox PROVE FALSE
        OBVIOUS
      <4>1. a.mailbox \in Asked(e) /\ b.mailbox \in Asked(f)
        BY <2>1, <3>1, <3>2, InstancesAre
      <4>2. e.id = f.id
        BY <4>1 DEF Asked
      <4>3. e = f
        BY <2>1, <4>2, UniqueIds
      <4> QED
        BY <2>1, <2>5, <3>1, <3>2, <4>3, InstancesAre
    <3> QED
      BY <2>1, <3>1, <3>2, <3>3, ClashIsConfigured
  <2> QED
    BY <2>4, <2>5 DEF EveryMailboxServed
<1> QED
  BY <1>1, RoutingInvariant, PTL
=============================================================================
