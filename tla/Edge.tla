-------------------------------- MODULE Edge --------------------------------
(***************************************************************************)
(* What an inbound edge of a node promises, independently of sockets,       *)
(* threads and queues.  Each producer numbers its messages; the node is     *)
(* handed the lowest-numbered waiting message of some producer.  A lossy    *)
(* edge may discard such an OLDEST message, only while another message is   *)
(* waiting too, and counts it.  A lossless edge discards nothing.  Messages *)
(* may otherwise vanish only once the edge is shut.                         *)
(***************************************************************************)
EXTENDS Naturals, Sequences

CONSTANT Producers

VARIABLES
  lossy,      \* whether the edge may discard stale messages
  accepted,   \* per producer, number of its last message
  pending,    \* per producer, the set of its messages waiting for the node
  delivered,  \* messages handed to the node, in order
  discarded,  \* number of messages discarded so far
  open        \* FALSE once the edge was asked to shut down

vars == <<lossy, accepted, pending, delivered, discarded, open>>

Init ==
  /\ lossy \in BOOLEAN
  /\ accepted = [p \in Producers |-> 0]
  /\ pending = [p \in Producers |-> {}]
  /\ delivered = <<>>
  /\ discarded = 0
  /\ open = TRUE

Accept(p) ==
  /\ accepted' = [accepted EXCEPT ![p] = @ + 1]
  /\ pending' = [pending EXCEPT ![p] = @ \cup {[src |-> p, seq |-> accepted[p] + 1]}]
  /\ UNCHANGED <<lossy, delivered, discarded, open>>

\* The waiting messages of p that no other waiting message of p is older than.
Oldest(p) == {m \in pending[p] : \A n \in pending[p] : m.seq <= n.seq}

Deliver(p) ==
  /\ \E m \in Oldest(p) :
       /\ delivered' = Append(delivered, m)
       /\ pending' = [pending EXCEPT ![p] = @ \ {m}]
  /\ UNCHANGED <<lossy, accepted, discarded, open>>

Discard(p) ==
  /\ lossy
  /\ \E m \in Oldest(p) :
       /\ \E q \in Producers : pending[q] \ {m} # {}
       /\ pending' = [pending EXCEPT ![p] = @ \ {m}]
  /\ discarded' = discarded + 1
  /\ UNCHANGED <<lossy, accepted, delivered, open>>

Shut ==
  /\ open
  /\ open' = FALSE
  /\ UNCHANGED <<lossy, accepted, pending, delivered, discarded>>

Lose ==
  /\ ~open
  /\ \E kept \in SUBSET UNION {pending[p] : p \in Producers} :
       pending' = [p \in Producers |-> pending[p] \cap kept]
  /\ UNCHANGED <<lossy, accepted, delivered, discarded, open>>

Next ==
  \/ \E p \in Producers : Accept(p) \/ Deliver(p) \/ Discard(p)
  \/ Shut
  \/ Lose

Spec == Init /\ [][Next]_vars
=============================================================================
