-------------------------------- MODULE Node --------------------------------
(***************************************************************************)
(* One node of a pipeline: the run loop (BaseNode._run on a thread or       *)
(* BaseProcessNode.run in a child process), _handle, and the ErrorPolicy    *)
(* around process(), which may be an ordinary function or a generator whose *)
(* items are streamed out one by one.  Beside the loop run the owner        *)
(* calling stop(), the control channel cancelling turns, and the health     *)
(* monitor of a process node.                                               *)
(*                                                                         *)
(* Message n is the n-th one the mailbox hands out; its turn is n.  What     *)
(* process() does with it (returns a result or None, yields, raises) is a    *)
(* free choice, and so is whether a send raises and a dead-letter record is  *)
(* written.                                                                  *)
(***************************************************************************)
EXTENDS Integers, Sequences

CONSTANTS
  NumMessages,   \* bound: messages the mailbox hands out
  MaxYields,     \* bound: items one generator call yields
  MaxRetries,    \* max_retries of the error policy
  Kinds,         \* subset of {"thread", "process"}
  Faults         \* what may fail besides process(): "send" and "record" raise, "write" is
                 \* an OSError of the dead-letter file

ASSUME NodeAssumption ==
  /\ NumMessages \in Nat
  /\ MaxYields \in Nat
  /\ MaxRetries \in Nat
  /\ Kinds \subseteq {"thread", "process"}
  /\ Faults \subseteq {"send", "record", "write"}

VARIABLES
  kind,        \* BaseNode or BaseProcessNode
  generator,   \* inspect.isgeneratorfunction(process)
  on_error,    \* ErrorAction of the policy
  sink,        \* whether dead_letter_dir is configured
  pc,          \* program point of the run loop
  taken,       \* messages collected; the last one is the one being handled
  attempt,     \* zero-based attempt of execute()
  yielded,     \* yielded_count of this attempt
  is_running,  \* BaseNode.is_running
  stop_event,  \* _stop_event
  failed,      \* _failed_event
  is_ready,    \* is_ready of a thread node, _healthy of a process node
  open,        \* the mailbox has not been stopped
  owner,       \* program point of the owner's stop()
  cancelled,   \* turns mailbox.is_cancelled answers True for
  stats,       \* ErrorStats
  out,         \* items handed to the mailbox, in order
  tally        \* history: the records in the dead-letter file, and outcomes that no
               \* counter of ErrorStats records

config == <<kind, generator, on_error, sink>>
shared == <<is_running, stop_event, failed, is_ready, open, owner, cancelled>>
loopvars == <<pc, taken, attempt, yielded>>
books == <<stats, out, tally>>
vars == <<config, shared, loopvars, books>>

ErrorAction == {"skip", "retry", "fail"}
ErrorStats == [processed : Nat, errors : Nat, retries : Nat, dropped : Nat,
               dead_lettered : Nat, failures : Nat]
Tally == [skipped : Nat, abandoned : Nat, unrecorded : Nat, raised : Nat, overrun : Nat,
          recorded : Nat, unwritten : Nat]
Item == [msg : 1..NumMessages, item : 1..(MaxYields + 1), late : BOOLEAN]

\* The policies that validate: retry needs a retry; the sink is there with dead_letter_dir.
ErrorPolicyConfig ==
  {p \in [on_error : ErrorAction, sink : BOOLEAN] : p.on_error = "retry" => MaxRetries >= 1}

\* attempts = 1 + max_retries under retry, 1 otherwise; this is attempts - 1.
LastAttempt == IF on_error = "retry" THEN MaxRetries ELSE 0

Count(c) == stats' = [stats EXCEPT ![c] = @ + 1]
Note(c) == tally' = [tally EXCEPT ![c] = @ + 1]

\* One more item of the current message is with the mailbox.
Deliver(i) ==
  out' = Append(out, [msg |-> taken, item |-> i, late |-> taken \in cancelled])

-----------------------------------------------------------------------------
(* The node has been built and started; its thread or process is not yet     *)
(* running.                                                                   *)
Init ==
  /\ kind \in Kinds
  /\ generator \in BOOLEAN
  /\ \E p \in ErrorPolicyConfig : on_error = p.on_error /\ sink = p.sink
  /\ pc = "init"
  /\ taken = 0
  /\ attempt = 0
  /\ yielded = 0
  /\ is_running = TRUE
  /\ stop_event = FALSE
  /\ failed = FALSE
  /\ is_ready = FALSE
  /\ open = TRUE
  /\ owner = "idle"
  /\ cancelled = {}
  /\ stats = [processed |-> 0, errors |-> 0, retries |-> 0, dropped |-> 0,
              dead_lettered |-> 0, failures |-> 0]
  /\ out = <<>>
  /\ tally = [skipped |-> 0, abandoned |-> 0, unrecorded |-> 0, raised |-> 0, overrun |-> 0,
              recorded |-> 0, unwritten |-> 0]

-----------------------------------------------------------------------------
(* The run loop.                                                            *)

\* The first lines of _run, or of run up to _ready_event.set().
Begin ==
  /\ pc = "init"
  /\ is_ready' = TRUE
  /\ pc' = "loop"
  /\ UNCHANGED <<config, is_running, stop_event, failed, open, owner, cancelled,
                 taken, attempt, yielded, books>>

\* `while self.is_running` of a thread, `while not self.stop_event.is_set()` of a process.
\* Faulty variant: both loops look at is_running, which stop() of a process node leaves alone.
LoopCheckFlagOnly ==
  /\ pc = "loop"
  /\ pc' = IF is_running THEN "collect" ELSE "exit"
  /\ UNCHANGED <<config, shared, taken, attempt, yielded, books>>

LoopCheck ==
  /\ pc = "loop"
  /\ pc' = IF (kind = "thread" /\ is_running) \/ (kind = "process" /\ ~stop_event)
           THEN "collect" ELSE "exit"
  /\ UNCHANGED <<config, shared, taken, attempt, yielded, books>>

\* _collect_data returned a message.
Collect ==
  /\ pc = "collect"
  /\ taken < NumMessages
  /\ taken' = taken + 1
  /\ attempt' = 0
  /\ yielded' = 0
  /\ pc' = "handle"
  /\ IF stop_event THEN Note("overrun") ELSE UNCHANGED tally
  /\ UNCHANGED <<config, shared, stats, out>>

\* _collect_data timed out.
CollectNone ==
  /\ pc = "collect"
  /\ pc' = "loop"
  /\ UNCHANGED <<config, shared, taken, attempt, yielded, books>>

\* _handle: a turn cancelled before any work is skipped; otherwise execute().
Handle ==
  /\ pc = "handle"
  /\ \/ taken \in cancelled /\ pc' = "loop" /\ Note("skipped")
     \/ taken \notin cancelled /\ pc' = (IF generator THEN "next" ELSE "process") /\ UNCHANGED tally
  /\ UNCHANGED <<config, shared, taken, attempt, yielded, stats, out>>

\* execute: process() returned, and _should_send looks at what it returned.
Return ==
  /\ pc = "process"
  /\ Count("processed")
  /\ pc' \in {"send", "loop"}
  /\ UNCHANGED <<config, shared, taken, attempt, yielded, out, tally>>

\* _execute_generator, before each next(gen): a cancelled turn ends here, as a success.
\* Faulty variant: the cancellation is looked at before the first item only.
CheckOnlyFirst ==
  /\ pc = "next"
  /\ IF taken \in cancelled /\ yielded = 0
     THEN pc' = "loop" /\ Count("processed")
     ELSE pc' = "gen" /\ UNCHANGED stats
  /\ UNCHANGED <<config, shared, taken, attempt, yielded, out, tally>>

CheckCancelled ==
  /\ pc = "next"
  /\ IF taken \in cancelled
     THEN pc' = "loop" /\ Count("processed")
     ELSE pc' = "gen" /\ UNCHANGED stats
  /\ UNCHANGED <<config, shared, taken, attempt, yielded, out, tally>>

\* next(gen) gave a value; on_item is about to be called with it.
Yield ==
  /\ pc = "gen"
  /\ yielded < MaxYields
  /\ yielded' = yielded + 1
  /\ pc' = "send"
  /\ UNCHANGED <<config, shared, taken, attempt, books>>

\* StopIteration.
Exhausted ==
  /\ pc = "gen"
  /\ Count("processed")
  /\ pc' = "loop"
  /\ UNCHANGED <<config, shared, taken, attempt, yielded, out, tally>>

\* The common part of both except clauses: terminal after a yield or on the
\* last attempt, otherwise a counted retry after a backoff.
\* Faulty variant: off by one in the number of attempts.
BackoffOnceMore ==
  IF yielded > 0 \/ attempt > LastAttempt
  THEN pc' = "giveup" /\ Count("errors")
  ELSE pc' = "backoff" /\ stats' = [stats EXCEPT !.errors = @ + 1, !.retries = @ + 1]

\* Faulty variant: a stream that has delivered something is retried too.
RetryAlways ==
  IF attempt = LastAttempt
  THEN pc' = "giveup" /\ Count("errors")
  ELSE pc' = "backoff" /\ stats' = [stats EXCEPT !.errors = @ + 1, !.retries = @ + 1]

FailedAttempt ==
  IF yielded > 0 \/ attempt = LastAttempt
  THEN pc' = "giveup" /\ Count("errors")
  ELSE pc' = "backoff" /\ stats' = [stats EXCEPT !.errors = @ + 1, !.retries = @ + 1]

\* process() raised, or the generator did.
Raise ==
  /\ pc \in {"process", "gen"}
  /\ FailedAttempt
  /\ Note("raised")
  /\ UNCHANGED <<config, shared, taken, attempt, yielded, out>>

\* _sleep: the stop event ends the backoff at once and the message is abandoned;
\* otherwise the next attempt starts from scratch.
\* Faulty variant: the wait has no delay, so that only a stop ends it.
BackoffUntilStop ==
  /\ pc = "backoff"
  /\ stop_event
  /\ pc' = "loop" /\ Count("dropped") /\ Note("abandoned")
  /\ yielded' = 0
  /\ UNCHANGED <<config, shared, taken, attempt, out>>

Backoff ==
  /\ pc = "backoff"
  /\ \/ stop_event /\ pc' = "loop" /\ Count("dropped") /\ Note("abandoned") /\ attempt' = attempt
     \/ /\ ~stop_event
        /\ pc' = IF generator THEN "next" ELSE "process"
        /\ attempt' = attempt + 1
        /\ UNCHANGED <<stats, tally>>
  /\ yielded' = 0
  /\ UNCHANGED <<config, shared, taken, out>>

\* DeadLetterSink.record: one line more in the node's file, unless the file cannot be
\* written, which is logged and nothing else.
Record == Note("recorded") \/ ("write" \in Faults /\ Note("unwritten"))

\* _give_up: one record, if there is a sink.
\* Faulty variant: a mid-stream failure leaves no record.
DeadLetterUnlessStreamed == IF sink /\ yielded = 0 THEN Record ELSE UNCHANGED tally

DeadLetter == IF sink THEN Record ELSE UNCHANGED tally

\* What dead_lettered is raised by, whatever became of the record.
DeadLettered == IF sink THEN 1 ELSE 0

\* _handle's NodeFailure clause.
\* Faulty variant: the failure is flagged and the loop goes on.
FlagFailure ==
  /\ failed' = TRUE
  /\ UNCHANGED <<is_running, stop_event>>

NodeFails ==
  /\ failed' = TRUE
  /\ is_running' = FALSE
  /\ stop_event' = TRUE

\* _give_up: fail takes the node down, the other policies drop the message.
GiveUp ==
  /\ pc = "giveup"
  /\ pc' = "loop"
  /\ DeadLetter
  /\ \/ /\ on_error = "fail"
        /\ stats' = [stats EXCEPT !.dead_lettered = @ + DeadLettered, !.failures = @ + 1]
        /\ NodeFails
     \/ /\ on_error # "fail"
        /\ stats' = [stats EXCEPT !.dead_lettered = @ + DeadLettered, !.dropped = @ + 1]
        /\ UNCHANGED <<failed, is_running, stop_event>>
  /\ UNCHANGED <<config, is_ready, open, owner, cancelled, taken, attempt, yielded, out>>

\* DeadLetterSink.record catches only OSError: anything else it raises (an
\* error text that cannot be encoded) leaves execute(), kills a thread's loop
\* and is swallowed by a process's.
RecordRaises ==
  /\ pc = "giveup"
  /\ sink
  /\ "record" \in Faults
  /\ pc' = IF kind = "thread" THEN "dead" ELSE "loop"
  /\ Note("unrecorded")
  /\ UNCHANGED <<config, shared, taken, attempt, yielded, stats, out>>

-----------------------------------------------------------------------------
(* _send_item: the result of an ordinary process(), or as on_item the item    *)
(* just yielded.  The number of an item is its place in its attempt.          *)

AfterSend == IF generator THEN "next" ELSE "loop"

\* put_bytes blocks while the edge downstream is at its high-water mark.
SendBlocks ==
  /\ pc = "send"
  /\ open
  /\ pc' = "full"
  /\ UNCHANGED <<config, shared, taken, attempt, yielded, books>>

SendOk ==
  /\ pc = "send"
  /\ open
  /\ Deliver(IF generator THEN yielded ELSE 1)
  /\ pc' = AfterSend
  /\ UNCHANGED <<config, shared, taken, attempt, yielded, stats, tally>>

\* The consumer downstream made room.
Unblocked ==
  /\ pc = "full"
  /\ open
  /\ Deliver(IF generator THEN yielded ELSE 1)
  /\ pc' = AfterSend
  /\ UNCHANGED <<config, shared, taken, attempt, yielded, stats, tally>>

\* A thread node logs the exception and carries on without the item.  Stopping
\* the mailbox ends a send that was blocked with an exception.
SendRaisesInThread ==
  /\ kind = "thread"
  /\ \/ pc \in {"send", "full"} /\ ~open
     \/ pc = "send" /\ "send" \in Faults
  /\ is_ready' = FALSE
  /\ pc' = AfterSend
  /\ UNCHANGED <<config, is_running, stop_event, failed, open, owner, cancelled,
                 taken, attempt, yielded, books>>

\* A process node lets it propagate: to the run loop's own handler for a
\* result, but to the except clause of _execute_generator for a streamed item.
SendRaisesInProcess ==
  /\ kind = "process"
  /\ pc = "send" /\ "send" \in Faults
  /\ IF generator THEN FailedAttempt ELSE pc' = "loop" /\ UNCHANGED stats
  /\ UNCHANGED <<config, shared, taken, attempt, yielded, out, tally>>

RunLoop ==
  \/ Begin \/ LoopCheck \/ Collect \/ CollectNone \/ Handle
  \/ Return \/ CheckCancelled \/ Yield \/ Exhausted \/ Raise \/ Backoff
  \/ GiveUp \/ RecordRaises
  \/ SendBlocks \/ SendOk \/ SendRaisesInThread \/ SendRaisesInProcess

-----------------------------------------------------------------------------
(* The owner: BaseNode.stop() clears the flags, then sets the event, then     *)
(* stops the mailbox; BaseProcessNode.stop() only sets the event.             *)
StopFlags ==
  /\ kind = "thread"
  /\ owner = "idle"
  /\ owner' = "flags"
  /\ is_running' = FALSE
  /\ is_ready' = FALSE
  /\ UNCHANGED <<config, stop_event, failed, open, cancelled, loopvars, books>>

StopSignal ==
  /\ owner = IF kind = "thread" THEN "flags" ELSE "idle"
  /\ owner' = IF kind = "thread" THEN "event" ELSE "done"
  /\ stop_event' = TRUE
  /\ UNCHANGED <<config, is_running, failed, is_ready, open, cancelled, loopvars, books>>

StopMailbox ==
  /\ owner = "event"
  /\ owner' = "done"
  /\ open' = FALSE
  /\ UNCHANGED <<config, is_running, stop_event, failed, is_ready, cancelled, loopvars, books>>

\* The control channel delivers a cancellation.
Cancel(t) ==
  /\ t \notin cancelled
  /\ cancelled' = cancelled \cup {t}
  /\ UNCHANGED <<config, is_running, stop_event, failed, is_ready, open, owner, loopvars, books>>

\* _health_monitor: the loop has not come round for health_timeout.
HealthStale ==
  /\ kind = "process"
  /\ pc \notin {"init", "loop", "exit"}
  /\ ~stop_event
  /\ is_ready
  /\ is_ready' = FALSE
  /\ UNCHANGED <<config, is_running, stop_event, failed, open, owner, cancelled, loopvars, books>>

Next ==
  \/ RunLoop \/ Unblocked
  \/ StopFlags \/ StopSignal \/ StopMailbox
  \/ \E t \in 1..NumMessages : Cancel(t)
  \/ HealthStale

(* Fairness: the loop's thread is scheduled and what it calls returns          *)
(* (process(), a generator's next, the bounded backoff), and a stop() that has *)
(* begun runs to its end.  Nobody has to call stop() or to cancel, and the     *)
(* consumer downstream need not make room for a blocked send.                  *)
Fairness ==
  /\ WF_vars(RunLoop)
  /\ WF_vars(owner # "idle" /\ (StopSignal \/ StopMailbox))

Spec == Init /\ [][Next]_vars /\ Fairness

-----------------------------------------------------------------------------
HandlingPoints == {"handle", "process", "next", "gen", "backoff", "giveup"}

(* Every variable has its type, and an attempt never exceeds the policy's     *)
(* number of retries.                                                         *)
TypeOK ==
  /\ kind \in {"thread", "process"}
  /\ generator \in BOOLEAN
  /\ on_error \in ErrorAction
  /\ sink \in BOOLEAN
  /\ pc \in HandlingPoints \cup {"init", "loop", "collect", "send", "full", "exit", "dead"}
  /\ taken \in 0..NumMessages
  /\ attempt \in 0..LastAttempt
  /\ pc = "backoff" => attempt < LastAttempt
  /\ yielded \in 0..MaxYields
  /\ is_running \in BOOLEAN
  /\ stop_event \in BOOLEAN
  /\ failed \in BOOLEAN
  /\ is_ready \in BOOLEAN
  /\ open \in BOOLEAN
  /\ owner \in {"idle", "flags", "event", "done"}
  /\ cancelled \subseteq 1..NumMessages
  /\ stats \in ErrorStats
  /\ out \in Seq(Item)
  /\ tally \in Tally

\* An ordinary result is counted before it is sent, a streamed message after.
InFlight ==
  IF pc \in HandlingPoints \/ (generator /\ pc \in {"send", "full"}) THEN 1 ELSE 0

GivingUp == IF pc = "giveup" THEN 1 ELSE 0
GivenUp == stats.dropped + stats.failures - tally.abandoned

MessagesSettled ==
  taken = stats.processed + stats.dropped + stats.failures
            + tally.skipped + tally.unrecorded + InFlight

ErrorsHandled ==
  stats.errors = stats.retries + GivenUp + tally.unrecorded + GivingUp

DeadLettersCounted ==
  /\ stats.dead_lettered = IF sink THEN GivenUp ELSE 0
  /\ stats.dead_lettered = tally.recorded + tally.unwritten

(* The counters of ErrorStats add up at every moment: each collected message   *)
(* is settled exactly once (processed, dropped, failed, skipped as cancelled,  *)
(* or lost to a dead-letter record that raised), and each error was either     *)
(* retried or given up on.  dead_lettered counts the messages given up on, and *)
(* is ahead of the records in the file by exactly those whose writing failed;  *)
(* a message abandoned in its backoff is dropped without a record.             *)
StatsAddUp == MessagesSettled /\ ErrorsHandled /\ DeadLettersCounted

(* However often an attempt is retried, what goes downstream is in message     *)
(* order, in item order within a message, and nothing goes twice.              *)
NoDuplicateOutput ==
  \A i, j \in DOMAIN out :
    i < j => \/ out[i].msg < out[j].msg
             \/ out[i].msg = out[j].msg /\ out[i].item < out[j].item

(* A cancelled turn goes quiet at once: of one message, at most one item is     *)
(* handed to the mailbox after its turn was cancelled.                          *)
QuietAfterCancel ==
  \A i, j \in DOMAIN out :
    i # j /\ out[i].late /\ out[j].late => out[i].msg # out[j].msg

(* What goes downstream is sound whatever is retried, streamed or cancelled.    *)
OutputSound == NoDuplicateOutput /\ QuietAfterCancel

(* After the stop event is set the loop collects at most the one message it was *)
(* already about to collect.                                                    *)
AtMostOneAfterStop == tally.overrun <= 1

(* A node that gave up under `fail` never collects another message.             *)
FailedCollectsNothing == [][failed => taken' = taken]_vars

(* A node that is stopped or has failed takes no more work on.                  *)
StopQuiet == []AtMostOneAfterStop /\ FailedCollectsNothing

(* stop() ends the loop, in whatever attempt, backoff or stream it finds it.    *)
(* The one place it does not reach is a process node blocked in a send, whose   *)
(* stop() does not touch the mailbox.                                           *)
StopEndsLoop ==
  stop_event ~> (pc \in {"exit", "dead"} \/ (kind = "process" /\ pc = "full"))

(* Every message the loop collects is settled, as long as the consumer          *)
(* downstream makes room: no retry and no stream goes on for ever.              *)
MessageSettles ==
  WF_vars(Unblocked) => (pc = "handle") ~> (pc \in {"loop", "exit", "dead"})

(* Under `fail` a message that is given up on takes the node down, unless the   *)
(* dead-letter write raised.                                                    *)
FailTakesNodeDown ==
  (pc = "giveup" /\ on_error = "fail")
    ~> (tally.unrecorded > 0 \/ (failed /\ pc = "exit"))

(* The loop ends when it must: on stop() and on a failure under `fail`.          *)
LoopEnds == StopEndsLoop /\ FailTakesNodeDown

(* BaseProcessNode._send_item: a send failure "propagates to this loop's own     *)
(* `except Exception`" and so is not the policy's business: the policy counts   *)
(* an error only where process() raised.                                        *)
PolicyCoversOnlyProcess == stats.errors = tally.raised

(* README: "With dead_letter_dir set, every message that could not be processed  *)
(* is appended as one JSON object".                                             *)
EveryFailureRecorded ==
  sink /\ pc \in {"loop", "exit"} => tally.recorded = stats.dropped + stats.failures

(* DeadLetterSink.record: "Never raises: losing a diagnostic must not take down *)
(* the node that was already having a bad time."                                *)
RecordSparesNode == pc # "dead"
=============================================================================
