------------------------------ MODULE HandOff ------------------------------
(***************************************************************************)
(* The mailbox of a process node whose data thread of cls() outlives the    *)
(* join in from_state(): the thread has not looked at _running between       *)
(* stop() and the `self._running = True` of __setstate__, finds it true, and  *)
(* goes on reading, from the rebound socket into the rebuilt queue, beside    *)
(* the thread that __setstate__ starts.                                       *)
(***************************************************************************)
EXTENDS Mailbox

VARIABLES
  oldpc,   \* program point of the thread that was to be joined
  oldhand  \* the message it holds

\* It runs the same _receiver_loop.
Old == INSTANCE Mailbox WITH rpc <- oldpc, hand <- oldhand

HandOffInit == Init /\ home = "parent" /\ oldpc = "exit" /\ oldhand = <<>>

\* The join of stop() timed out.
FromStateLate ==
  /\ FromState
  /\ oldpc' = "loop"
  /\ UNCHANGED oldhand

HandOffNext ==
  \/ Next /\ UNCHANGED <<oldpc, oldhand>>
  \/ FromStateLate
  \/ Old!ReceiverThread /\ UNCHANGED <<rpc, hand>>

HandOffSpec == HandOffInit /\ [][HandOffNext]_<<vars, oldpc, oldhand>>

(* "two consumers competing for the same mailbox" is what _start_afterwords sets  *)
(* out to avoid: one consumer keeps each producer's messages in order.            *)
OneConsumer == PerProducerOrder
=============================================================================
