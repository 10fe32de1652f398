-------------------------- MODULE TransportProofs ---------------------------
(***************************************************************************)
(* Safety of a replicated edge and of the acknowledged queue.              *)
(*   Replicas, for any ports, replica bounds, high-water marks and numbers of *)
(* messages and background loops.  PoolInv is about the autoscaler: the loop *)
(* that has decided to scale has the lock, and the pool it decided on.     *)
(* FlightInv is about the codec: no two messages in flight name one segment. *)
(*   ReqRep, for any deque length, number of items and number of requests left *)
(* behind by closed sockets.  QueueInv follows one item: while put or      *)
(* put_nowait is responsible for it, it is in exactly one place of the     *)
(* producer, and whatever a consumer may still read of it was sent by the call *)
(* that is running or by one whose poll gave up.                           *)
(***************************************************************************)
EXTENDS Replicas, ReqRep, SequenceTheorems, FiniteSetTheorems, TLAPS

Segment == Nat \X Nat
Targets == {"group", "other"}

ReplicaTypes ==
  /\ shm \in BOOLEAN /\ fanout \in BOOLEAN /\ initial \in Nat
  /\ connected \subseteq Ports /\ up \subseteq Ports
  /\ pool \in Seq(Ports)
  /\ wire \in [AllPorts -> Seq(SUBSET Segment)]
  /\ depth \in [AllPorts -> Nat]
  /\ sent \in Nat /\ segments \subseteq Segment
  /\ out \in [segs : SUBSET Segment, left : SUBSET Targets]
  /\ loop \in [Loops -> {"none", "wait", "check", "up", "down", "exit"}]
  /\ lock \in {0} \cup Loops

(* A decision to scale is still right when the callback runs.                    *)
LockInv ==
  \A t \in Loops :
    /\ loop[t] \in {"up", "down"} => lock = t
    /\ loop[t] = "up" => Len(pool) < MaxReplicas
    /\ loop[t] = "down" => Len(pool) > MinReplicas

PoolInv == LockInv /\ PoolWithinBounds

-----------------------------------------------------------------------------
\* Distinct messages on the wires, and the one being sent, share no segment.
Disjoint ==
  /\ \A p \in AllPorts : \A i \in DOMAIN wire[p] : wire[p][i] \cap out.segs = {}
  /\ \A p, q \in AllPorts : \A i \in DOMAIN wire[p], j \in DOMAIN wire[q] :
       p # q \/ i # j => wire[p][i] \cap wire[q][j] = {}

(* Segments are numbered by message; a mailbox that does not use shared memory    *)
(* has none, and one that does has a single target to send to.                    *)
FlightInv ==
  /\ SegmentsOwned
  /\ Disjoint
  /\ \A s \in segments : s[1] <= sent
  /\ UseShm => out.left \subseteq {"group"}
  /\ ~UseShm => segments = {}
  /\ out.left = {} => out = Idle

IInv == ReplicaTypes /\ PoolInv /\ FlightInv
-----------------------------------------------------------------------------
(* Lemmas about the operators the model is built from.                        *)

(* Every non-empty set of naturals has a least element. *)
LEMMA LeastNat ==
  ASSUME NEW T, T \subseteq Nat, T # {}
  PROVE  \E x \in T : \A y \in T : x <= y
<1>1. \E x \in T : \A y \in T : ~ (<<y, x>> \in OpToRel(<, Nat))
  BY NatLessThanWellFounded, WFMin, Zenon
<1>2. PICK x \in T : \A y \in T : ~ (<<y, x>> \in OpToRel(<, Nat))
  BY <1>1
<1>3. \A y \in T : ~(y < x)
  BY <1>2 DEF OpToRel
<1> QED BY <1>3

(* RemoveAt takes out one element and moves the later ones up. *)
LEMMA RemoveAtProperties ==
  ASSUME NEW S, NEW s \in Seq(S), NEW i \in 1..Len(s)
  PROVE /\ RemoveAt(s, i) \in Seq(S)
        /\ Len(RemoveAt(s, i)) = Len(s) - 1
        /\ \A j \in 1..(Len(s) - 1) : RemoveAt(s, i)[j] = IF j < i THEN s[j] ELSE s[j + 1]
<1> DEFINE front == SubSeq(s, 1, i - 1)
           back == SubSeq(s, i + 1, Len(s))
<1>1. /\ front \in Seq(S) /\ Len(front) = i - 1
      /\ \A j \in 1..(i - 1) : front[j] = s[j]
  <2>1. \A j \in 1..(i - 1) : s[j] \in S
    OBVIOUS
  <2> QED BY <2>1, SubSeqProperties
<1>2. /\ back \in Seq(S) /\ Len(back) = Len(s) - i
      /\ \A j \in 1..(Len(s) - i) : back[j] = s[i + j]
  <2>1. \A j \in (i + 1)..Len(s) : s[j] \in S
    OBVIOUS
  <2> QED BY <2>1, SubSeqProperties
<1>3. RemoveAt(s, i) = front \o back
  BY DEF RemoveAt
<1> HIDE DEF front, back
<1>4. /\ front \o back \in Seq(S)
      /\ Len(front \o back) = Len(front) + Len(back)
      /\ \A j \in 1..(Len(front) + Len(back)) :
           (front \o back)[j] = IF j <= Len(front) THEN front[j] ELSE back[j - Len(front)]
  BY <1>1, <1>2, ConcatProperties
<1>5. Len(s) \in Nat
  OBVIOUS
<1>6. Len(front) + Len(back) = Len(s) - 1
  BY <1>1, <1>2, <1>5
<1>7. ASSUME NEW j \in 1..(Len(s) - 1)
      PROVE  (front \o back)[j] = IF j < i THEN s[j] ELSE s[j + 1]
  <2>1. (front \o back)[j] = IF j <= i - 1 THEN front[j] ELSE back[j - (i - 1)]
    BY <1>1, <1>4, <1>6
  <2>2. CASE j < i
    BY <2>1, <2>2, <1>1, <1>5
  <2>3. CASE ~(j < i)
    <3>1. j - (i - 1) \in 1..(Len(s) - i) /\ i + (j - (i - 1)) = j + 1
      BY <2>3, <1>5
    <3>2. (front \o back)[j] = back[j - (i - 1)]
      BY <2>1, <2>3, <1>5
    <3>3. back[j - (i - 1)] = s[i + (j - (i - 1))]
      BY <3>1, <1>2
    <3> QED BY <3>1, <3>2, <3>3, <2>3
  <2> QED BY <2>2, <2>3
<1> QED BY <1>3, <1>4, <1>6, <1>7

(* SetToSeq lists a finite set without repetition. *)
LEMMA SetToSeqProperties ==
  ASSUME NEW S, IsFiniteSet(S)
  PROVE  /\ Cardinality(S) \in Nat
         /\ SetToSeq(S) \in [1..Cardinality(S) -> S]
         /\ IsInjective(SetToSeq(S))
<1>1. Cardinality(S) \in Nat /\ \E f \in Bijection(1..Cardinality(S), S) : TRUE
  BY FS_CardinalityType DEF ExistsBijection
<1>2. PICK f \in Bijection(1..Cardinality(S), S) : TRUE
  BY <1>1
<1>3. f \in [1..Cardinality(S) -> S] /\ IsInjective(f)
  BY <1>2 DEF Bijection, Injection, IsInjective
<1> QED BY <1>1, <1>3 DEF SetToSeq
-----------------------------------------------------------------------------
(* The autoscaler.                                                            *)

(* min(): a non-empty pool has a first replica of least depth. *)
LEMMA VictimExists ==
  ASSUME ReplicaTypes, Len(pool) > 0
  PROVE  \E i \in DOMAIN pool :
           /\ \A j \in DOMAIN pool : depth[pool[i]] <= depth[pool[j]]
           /\ \A j \in 1..(i - 1) : depth[pool[i]] < depth[pool[j]]
<1> DEFINE load(j) == depth[pool[j]]
<1>1. DOMAIN pool = 1..Len(pool) /\ Len(pool) \in Nat
  BY DEF ReplicaTypes
<1>2. \A j \in DOMAIN pool : load(j) \in Nat
  BY DEF ReplicaTypes, AllPorts
<1> HIDE DEF load
<1>3. PICK m \in {load(j) : j \in DOMAIN pool} : \A n \in {load(j) : j \in DOMAIN pool} : m <= n
  <2>1. {load(j) : j \in DOMAIN pool} \subseteq Nat /\ {load(j) : j \in DOMAIN pool} # {}
    BY <1>1, <1>2
  <2> QED BY <2>1, LeastNat
<1>4. PICK i \in {j \in DOMAIN pool : load(j) = m} : \A j \in {j \in DOMAIN pool : load(j) = m} : i <= j
  <2>1. {j \in DOMAIN pool : load(j) = m} \subseteq Nat /\ {j \in DOMAIN pool : load(j) = m} # {}
    BY <1>1, <1>3
  <2> QED BY <2>1, LeastNat
<1>5. m \in Nat
  BY <1>2, <1>3
<1>6. \A j \in DOMAIN pool : load(i) <= load(j)
  BY <1>3, <1>4
<1>7. ASSUME NEW j \in 1..(i - 1)
      PROVE  load(i) < load(j)
  <2>1. j \in DOMAIN pool /\ j < i
    BY <1>1, <1>4
  <2>2. load(j) # m
    BY <2>1, <1>1, <1>4
  <2> QED BY <2>1, <2>2, <1>2, <1>4, <1>6
<1> QED BY <1>4, <1>6, <1>7 DEF load

(* scale_down takes one replica out of the pool and tears it down, or fails to. *)
LEMMA DownStep ==
  ASSUME ReplicaTypes, Len(pool) > 0, NEW t \in Loops, ScaleDown(t)
  PROVE  \E i \in DOMAIN pool :
           /\ pool' = RemoveAt(pool, i)
           /\ \/ /\ up' = up \ {pool[i]}
                 /\ connected' = connected \ {pool[i]}
                 /\ leaked' = leaked \cup ((UNION ToSet(wire[pool[i]])) \cap segments)
                 /\ wire' = [wire EXCEPT ![pool[i]] = <<>>]
                 /\ depth' = [depth EXCEPT ![pool[i]] = 0]
                 /\ dead' = dead \ {pool[i]}
                 /\ UNCHANGED <<segments, out, sent>>
              \/ UNCHANGED <<up, connected, flight>>
<1> DEFINE P(i) == /\ \A j \in DOMAIN pool : depth[pool[i]] <= depth[pool[j]]
                   /\ \A j \in 1..(i - 1) : depth[pool[i]] < depth[pool[j]]
<1>1. \E i \in DOMAIN pool : P(i)
  BY VictimExists
<1> DEFINE v == CHOOSE i \in DOMAIN pool : P(i)
<1>2. v \in DOMAIN pool
  BY <1>1
<1> WITNESS v \in DOMAIN pool
<1> QED BY DEF ScaleDown
-----------------------------------------------------------------------------
(* Types.                                                                     *)

(* The edge and its group start well typed, with the first ports in the pool. *)
LEMMA InitType ==
  ASSUME Init
  PROVE  ReplicaTypes /\ Len(pool) = initial /\ IsInjective(pool)
<1> USE AutoscaleAssumption
<1> DEFINE f == SetToSeq(Ports)
           n == Cardinality(Ports)
<1>1. n \in Nat /\ f \in [1..n -> Ports] /\ IsInjective(f)
  BY SetToSeqProperties
<1>2. initial \in 1..n /\ pool = SubSeq(f, 1, initial)
  BY DEF Init
<1> HIDE DEF f, n
<1>3. f \in Seq(Ports) /\ Len(f) = n
  BY <1>1
<1>4. /\ pool \in Seq(Ports) /\ Len(pool) = initial
      /\ \A i \in 1..initial : pool[i] = f[i]
  <2>1. \A i \in 1..initial : f[i] \in Ports
    BY <1>1, <1>2
  <2> QED BY <2>1, <1>1, <1>2, <1>3, SubSeqProperties
<1>5. IsInjective(pool)
  <2>1. DOMAIN pool = 1..initial /\ DOMAIN f = 1..n /\ 1..initial \subseteq 1..n
    BY <1>1, <1>2, <1>4
  <2> QED BY <2>1, <1>1, <1>4 DEF IsInjective
<1>6. ToSet(pool) \subseteq Ports
  BY <1>4 DEF ToSet
<1>7. /\ shm \in BOOLEAN /\ fanout \in BOOLEAN /\ initial \in Nat
      /\ connected \subseteq Ports /\ up \subseteq Ports
  BY <1>1, <1>2, <1>6 DEF Init
<1>8. /\ wire \in [AllPorts -> Seq(SUBSET Segment)]
      /\ depth \in [AllPorts -> Nat]
  BY DEF Init
<1>9. /\ sent \in Nat /\ segments \subseteq Segment
      /\ out \in [segs : SUBSET Segment, left : SUBSET Targets]
      /\ loop \in [Loops -> {"none", "wait", "check", "up", "down", "exit"}]
      /\ lock \in {0} \cup Loops
  BY DEF Init, Idle
<1> QED BY <1>4, <1>5, <1>7, <1>8, <1>9 DEF ReplicaTypes

(* What an action of the producer or of a replica does to the types. *)
LEMMA FlightTypes ==
  ASSUME ReplicaTypes,
         \/ \E n \in 0..MaxBuffers : Dumps(n)
         \/ \E k \in 0..(MaxBuffers - 1) : DumpsFails(k)
         \/ \E target \in Targets, p \in AllPorts : PutBytes(target, p)
         \/ \E p \in AllPorts : Loads(p) \/ Receive(p)
  PROVE  ReplicaTypes'
<1>1. ASSUME NEW n \in 0..MaxBuffers, Dumps(n)
      PROVE  ReplicaTypes'
  <2> DEFINE segs == IF UseShm THEN {<<sent + 1, k>> : k \in 1..n} ELSE {}
             left == IF fanout THEN {"group", "other"} ELSE {"group"}
  <2>1. UNCHANGED <<config, group, threads, wire, depth>> /\ sent' = sent + 1
    BY <1>1 DEF Dumps
  <2>2. segments' = segments \cup segs /\ out' = [segs |-> segs, left |-> left]
    BY <1>1 DEF Dumps
  <2>3. segs \subseteq Segment /\ left \subseteq Targets
    BY DEF Segment, ReplicaTypes, Targets
  <2> HIDE DEF segs, left
  <2>4. /\ segments' \subseteq Segment
        /\ out' \in [segs : SUBSET Segment, left : SUBSET Targets]
    BY <2>2, <2>3 DEF ReplicaTypes
  <2> QED BY <2>1, <2>4 DEF ReplicaTypes, config, group, threads
<1>2. ASSUME NEW k \in 0..(MaxBuffers - 1), DumpsFails(k)
      PROVE  ReplicaTypes'
  <2>1. UNCHANGED <<config, group, threads, wire, depth, out>> /\ sent' = sent + 1
    BY <1>2 DEF DumpsFails
  <2>2. segments' \subseteq Segment
    BY <1>2 DEF DumpsFails, ReplicaTypes, Segment
  <2> QED BY <2>1, <2>2 DEF ReplicaTypes, config, group, threads
<1>3. ASSUME NEW target \in Targets, NEW p \in AllPorts, PutBytes(target, p)
      PROVE  ReplicaTypes'
  <2>1. UNCHANGED <<config, group, threads, depth, segments, sent>>
    BY <1>3 DEF PutBytes
  <2>2. out' \in [segs : SUBSET Segment, left : SUBSET Targets]
    BY <1>3 DEF PutBytes, ReplicaTypes, Idle
  <2>3. wire' = [wire EXCEPT ![p] = Append(wire[p], out.segs)]
    BY <1>3 DEF PutBytes
  <2>4. wire[p] \in Seq(SUBSET Segment) /\ out.segs \in SUBSET Segment
    BY DEF ReplicaTypes
  <2>5. Append(wire[p], out.segs) \in Seq(SUBSET Segment)
    BY <2>4
  <2>6. wire' \in [AllPorts -> Seq(SUBSET Segment)]
    BY <2>3, <2>5 DEF ReplicaTypes
  <2> QED BY <2>1, <2>2, <2>6 DEF ReplicaTypes, config, group, threads
<1>4. ASSUME NEW p \in AllPorts, Loads(p)
      PROVE  ReplicaTypes'
  <2>1. UNCHANGED <<config, group, threads, out, sent>>
    BY <1>4 DEF Loads
  <2>2. segments' \subseteq Segment
    BY <1>4 DEF Loads, ReplicaTypes
  <2>3. depth' \in [AllPorts -> Nat]
    <3>1. depth' = depth \/ depth' = [depth EXCEPT ![p] = depth[p] + 1]
      BY <1>4 DEF Loads
    <3>2. depth \in [AllPorts -> Nat] /\ depth[p] + 1 \in Nat
      BY DEF ReplicaTypes
    <3> QED BY <3>1, <3>2
  <2>4. wire' = [wire EXCEPT ![p] = Tail(wire[p])] /\ wire[p] # <<>>
    BY <1>4 DEF Loads
  <2>5. wire[p] \in Seq(SUBSET Segment)
    BY DEF ReplicaTypes
  <2>6. Tail(wire[p]) \in Seq(SUBSET Segment)
    BY <2>4, <2>5
  <2>7. wire' \in [AllPorts -> Seq(SUBSET Segment)]
    BY <2>4, <2>6 DEF ReplicaTypes
  <2> QED BY <2>1, <2>2, <2>3, <2>7 DEF ReplicaTypes, config, group, threads
<1>5. ASSUME NEW p \in AllPorts, Receive(p)
      PROVE  ReplicaTypes'
  <2>1. UNCHANGED <<config, group, threads, wire, segments, out, sent>>
    BY <1>5 DEF Receive
  <2>2. depth' = [depth EXCEPT ![p] = depth[p] - 1] /\ depth[p] > 0
    BY <1>5 DEF Receive
  <2>3. depth' \in [AllPorts -> Nat]
    BY <2>2 DEF ReplicaTypes
  <2> QED BY <2>1, <2>3 DEF ReplicaTypes, config, group, threads
<1> QED BY <1>1, <1>2, <1>3, <1>4, <1>5

(* What an action of the autoscaler does to the types. *)
LEMMA ThreadTypes ==
  ASSUME ReplicaTypes, LockInv,
         (\E t \in Loops : Autoscale(t)) \/ Start \/ Stop
  PROVE  ReplicaTypes'
<1> USE AutoscaleAssumption
<1> DEFINE Point == {"none", "wait", "check", "up", "down", "exit"}
<1>0. Decision \in Point
  BY DEF Decision
<1>1. ASSUME NEW t \in Loops, Run(t)
      PROVE  ReplicaTypes'
  <2>1. UNCHANGED <<config, group, flight, lock>>
    BY <1>1 DEF Run
  <2>2. loop' \in [Loops -> Point]
    BY <1>1 DEF Run, ReplicaTypes
  <2> QED BY <2>1, <2>2 DEF ReplicaTypes, config, group, flight
<1>2. ASSUME NEW t \in Loops, Check(t)
      PROVE  ReplicaTypes'
  <2>1. UNCHANGED <<config, group, flight>> /\ lock' \in {0} \cup Loops
    BY <1>2 DEF Check
  <2>2. loop' \in [Loops -> Point]
    BY <1>2, <1>0 DEF Check, ReplicaTypes
  <2> QED BY <2>1, <2>2 DEF ReplicaTypes, config, group, flight
<1>3. ASSUME NEW t \in Loops, ScaleUp(t)
      PROVE  ReplicaTypes'
  <2>1. UNCHANGED <<config, flight>> /\ lock' = 0
    BY <1>3 DEF ScaleUp, Release
  <2>2. loop' \in [Loops -> Point]
    BY <1>3 DEF ScaleUp, Release, ReplicaTypes
  <2>3. up' \subseteq Ports /\ connected' \subseteq Ports /\ pool' \in Seq(Ports)
    <3>1. CASE UNCHANGED group
      BY <3>1 DEF group, ReplicaTypes
    <3>2. ASSUME NEW p \in Ports, up' = up \cup {p}, connected' = connected \cup {p}, pool' = Append(pool, p)
          PROVE  up' \subseteq Ports /\ connected' \subseteq Ports /\ pool' \in Seq(Ports)
      BY <3>2 DEF ReplicaTypes
    <3> QED BY <3>1, <3>2, <1>3 DEF ScaleUp
  <2> QED BY <2>1, <2>2, <2>3 DEF ReplicaTypes, config, flight
<1>4. ASSUME NEW t \in Loops, ScaleDown(t)
      PROVE  ReplicaTypes'
  <2>1. UNCHANGED config /\ lock' = 0 /\ loop[t] = "down"
    BY <1>4 DEF ScaleDown, Release
  <2>2. loop' \in [Loops -> Point]
    BY <1>4 DEF ScaleDown, Release, ReplicaTypes
  <2>3. Len(pool) > 0
    BY <2>1 DEF LockInv, ReplicaTypes
  <2>4. PICK i \in DOMAIN pool :
           /\ pool' = RemoveAt(pool, i)
           /\ \/ /\ up' = up \ {pool[i]}
                 /\ connected' = connected \ {pool[i]}
                 /\ wire' = [wire EXCEPT ![pool[i]] = <<>>]
                 /\ depth' = [depth EXCEPT ![pool[i]] = 0]
                 /\ UNCHANGED <<segments, out, sent>>
              \/ UNCHANGED <<up, connected, flight>>
    BY <2>3, <1>4, DownStep
  <2>5. pool' \in Seq(Ports)
    <3>1. pool \in Seq(Ports) /\ i \in 1..Len(pool)
      BY <2>4 DEF ReplicaTypes
    <3> QED BY <3>1, <2>4, RemoveAtProperties
  <2>6. /\ up' \subseteq Ports /\ connected' \subseteq Ports
        /\ segments' \subseteq Segment /\ sent' \in Nat
        /\ out' \in [segs : SUBSET Segment, left : SUBSET Targets]
    BY <2>4 DEF ReplicaTypes, flight
  <2>7. wire' \in [AllPorts -> Seq(SUBSET Segment)]
    <3>1. wire' = wire \/ wire' = [wire EXCEPT ![pool[i]] = <<>>]
      BY <2>4 DEF flight
    <3>2. wire \in [AllPorts -> Seq(SUBSET Segment)] /\ <<>> \in Seq(SUBSET Segment)
      BY DEF ReplicaTypes
    <3> QED BY <3>1, <3>2
  <2>8. depth' \in [AllPorts -> Nat]
    BY <2>4 DEF ReplicaTypes, flight
  <2> QED BY <2>1, <2>2, <2>5, <2>6, <2>7, <2>8 DEF ReplicaTypes, config
<1>5. ASSUME Start
      PROVE  ReplicaTypes'
  <2>1. UNCHANGED <<config, group, flight, lock>>
    BY <1>5 DEF Start
  <2>2. loop' \in [Loops -> Point]
    BY <1>5 DEF Start, ReplicaTypes
  <2> QED BY <2>1, <2>2 DEF ReplicaTypes, config, group, flight
<1>6. ASSUME Stop
      PROVE  ReplicaTypes'
  <2>1. UNCHANGED <<config, group, flight, loop, lock>>
    BY <1>6 DEF Stop
  <2> QED BY <2>1 DEF ReplicaTypes, config, group, flight
<1> QED BY <1>1, <1>2, <1>3, <1>4, <1>5, <1>6 DEF Autoscale
-----------------------------------------------------------------------------
(* The pool.                                                                  *)

(* A loop decides and acts under the lock, so no other loop changes the pool in   *)
(* between, and the bound it tested still holds when the callback runs.           *)
LEMMA LockStep ==
  ASSUME ReplicaTypes, LockInv, [Next]_vars
  PROVE  LockInv'
<1> USE AutoscaleAssumption
<1>0. 0 \notin Loops
  OBVIOUS
<1>1. ASSUME UNCHANGED <<loop, lock, pool>>
      PROVE  LockInv'
  BY <1>1 DEF LockInv
<1>2. ASSUME NEW t \in Loops, Run(t)
      PROVE  LockInv'
  <2>1. UNCHANGED <<lock, pool>> /\ loop' = [loop EXCEPT ![t] = IF stopping THEN "exit" ELSE "check"]
    BY <1>2 DEF Run, group
  <2>2. \A u \in Loops : loop'[u] \in {"up", "down"} => loop'[u] = loop[u]
    BY <2>1 DEF ReplicaTypes
  <2> QED BY <2>1, <2>2 DEF LockInv
<1>3. ASSUME NEW t \in Loops, Check(t)
      PROVE  LockInv'
  <2>1. /\ pool' = pool /\ lock = 0
        /\ loop' = [loop EXCEPT ![t] = Decision]
        /\ lock' = IF Decision = "wait" THEN 0 ELSE t
    BY <1>3 DEF Check, group
  <2>2. \A u \in Loops : loop[u] \notin {"up", "down"}
    BY <2>1, <1>0 DEF LockInv
  <2>3. /\ Decision \in {"wait", "up", "down"}
        /\ Decision = "up" => Len(pool) < MaxReplicas
        /\ Decision = "down" => Len(pool) > MinReplicas
    BY DEF Decision
  <2>4. loop'[t] = Decision /\ \A u \in Loops \ {t} : loop'[u] = loop[u]
    BY <2>1 DEF ReplicaTypes
  <2> QED BY <2>1, <2>2, <2>3, <2>4 DEF LockInv
<1>4. ASSUME NEW t \in Loops, ScaleUp(t) \/ ScaleDown(t)
      PROVE  LockInv'
  <2>1. loop[t] \in {"up", "down"} /\ loop' = [loop EXCEPT ![t] = "wait"]
    BY <1>4 DEF ScaleUp, ScaleDown, Release
  <2>2. \A u \in Loops \ {t} : loop[u] \notin {"up", "down"}
    BY <2>1 DEF LockInv
  <2>3. \A u \in Loops : loop'[u] \notin {"up", "down"}
    BY <2>1, <2>2 DEF ReplicaTypes
  <2> QED BY <2>3 DEF LockInv
<1>5. ASSUME Start
      PROVE  LockInv'
  <2>1. UNCHANGED <<lock, pool>> /\ \E t \in Loops : loop' = [loop EXCEPT ![t] = "wait"]
    BY <1>5 DEF Start, group
  <2>2. \A u \in Loops : loop'[u] \in {"up", "down"} => loop'[u] = loop[u]
    BY <2>1 DEF ReplicaTypes
  <2> QED BY <2>1, <2>2 DEF LockInv
<1>6. ASSUME Stop
      PROVE  LockInv'
  BY <1>1, <1>6 DEF Stop, group
<1>7. ASSUME \/ \E n \in 0..MaxBuffers : Dumps(n)
             \/ \E k \in 0..(MaxBuffers - 1) : DumpsFails(k)
             \/ \E target \in {"group", "other"}, p \in AllPorts : PutBytes(target, p)
             \/ \E p \in AllPorts : Loads(p) \/ Receive(p)
             \/ UNCHANGED vars
      PROVE  LockInv'
  <2>1. UNCHANGED <<group, threads>>
    BY <1>7 DEF Dumps, DumpsFails, PutBytes, Loads, Receive, vars
  <2> QED BY <2>1, <1>1 DEF group, threads
<1> QED BY <1>2, <1>3, <1>4, <1>5, <1>6, <1>7 DEF Next, Autoscale

(* The pool grows by a port that was not in it and only below the maximum, and   *)
(* shrinks by one entry and only above the minimum.                              *)
LEMMA PoolStep ==
  ASSUME ReplicaTypes, LockInv, PoolWithinBounds, [Next]_vars
  PROVE  PoolWithinBounds'
<1> USE AutoscaleAssumption
<1>1. ASSUME UNCHANGED <<initial, group>>
      PROVE  PoolWithinBounds'
  BY <1>1 DEF PoolWithinBounds, group
<1>2. ASSUME NEW t \in Loops, ScaleUp(t)
      PROVE  PoolWithinBounds'
  <2>1. initial' = initial /\ loop[t] = "up"
    BY <1>2 DEF ScaleUp, config
  <2>2. CASE UNCHANGED group
    BY <2>1, <2>2, <1>1
  <2>3. ASSUME NEW p \in Ports \ (up \cup connected),
               up' = up \cup {p}, connected' = connected \cup {p}, pool' = Append(pool, p)
        PROVE  PoolWithinBounds'
    <3>1. Len(pool) \in Nat /\ DOMAIN pool = 1..Len(pool) /\ initial \in Nat
      BY DEF ReplicaTypes
    <3>2. /\ Len(pool') = Len(pool) + 1 /\ DOMAIN pool' = 1..(Len(pool) + 1)
          /\ \A i \in 1..Len(pool) : pool'[i] = pool[i]
          /\ pool'[Len(pool) + 1] = p
      BY <2>3 DEF ReplicaTypes
    <3>3. Len(pool) < MaxReplicas
      BY <2>1 DEF LockInv
    <3>4. \A i \in 1..Len(pool) : pool[i] \in up \cap connected
      BY <3>1 DEF PoolWithinBounds, ToSet
    <3>5. IsInjective(pool)'
      <4>1. \A i \in 1..Len(pool) : pool[i] # p
        BY <3>4
      <4>2. \A i, j \in 1..Len(pool) : pool[i] = pool[j] => i = j
        BY <3>1 DEF PoolWithinBounds, IsInjective
      <4>3. \A i \in 1..(Len(pool) + 1) : i \in 1..Len(pool) \/ i = Len(pool) + 1
        BY <3>1
      <4> QED BY <3>2, <4>1, <4>2, <4>3 DEF IsInjective
    <3>6. ToSet(pool') \subseteq up' \cap connected'
      <4>1. \A i \in 1..(Len(pool) + 1) : pool'[i] \in up' \cap connected'
        BY <2>3, <3>1, <3>2, <3>4
      <4> QED BY <3>2, <4>1 DEF ToSet
    <3>7. /\ Len(pool') >= IF initial < MinReplicas THEN initial ELSE MinReplicas
          /\ Len(pool') <= IF initial > MaxReplicas THEN initial ELSE MaxReplicas
      BY <3>1, <3>2, <3>3 DEF PoolWithinBounds
    <3> QED BY <2>1, <3>5, <3>6, <3>7 DEF PoolWithinBounds
  <2> QED BY <2>2, <2>3, <1>2 DEF ScaleUp
<1>3. ASSUME NEW t \in Loops, ScaleDown(t)
      PROVE  PoolWithinBounds'
  <2>1. initial' = initial /\ loop[t] = "down"
    BY <1>3 DEF ScaleDown, config
  <2>2. Len(pool) > MinReplicas
    BY <2>1 DEF LockInv
  <2>3. Len(pool) \in Nat /\ DOMAIN pool = 1..Len(pool) /\ pool \in Seq(Ports) /\ initial \in Nat
    BY DEF ReplicaTypes
  <2>4. PICK i \in DOMAIN pool :
           /\ pool' = RemoveAt(pool, i)
           /\ up \ {pool[i]} \subseteq up' /\ connected \ {pool[i]} \subseteq connected'
    <3>1. Len(pool) > 0
      BY <2>2, <2>3
    <3> QED BY <3>1, <1>3, DownStep
  <2>5. /\ pool' \in Seq(Ports) /\ Len(pool') = Len(pool) - 1
        /\ \A j \in 1..(Len(pool) - 1) : pool'[j] = IF j < i THEN pool[j] ELSE pool[j + 1]
    <3>1. i \in 1..Len(pool) /\ pool' = RemoveAt(pool, i)
      BY <2>3, <2>4
    <3> QED
      BY ONLY <2>3, <3>1, RemoveAtProperties
  <2>6. DOMAIN pool' = 1..(Len(pool) - 1)
    BY <2>5
  <2>7. \A j, k \in 1..Len(pool) : pool[j] = pool[k] => j = k
    BY <2>3 DEF PoolWithinBounds, IsInjective
  <2>8. \A j \in 1..Len(pool) : pool[j] \in up \cap connected
    BY <2>3 DEF PoolWithinBounds, ToSet
  <2>9. \A j \in 1..(Len(pool) - 1) :
          \E k \in 1..Len(pool) : k # i /\ pool'[j] = pool[k] /\ k = IF j < i THEN j ELSE j + 1
    BY <2>3, <2>4, <2>5
  <2>10. IsInjective(pool)'
    <3>1. ASSUME NEW j \in 1..(Len(pool) - 1), NEW k \in 1..(Len(pool) - 1), pool'[j] = pool'[k]
          PROVE  j = k
      <4>1. PICK a \in 1..Len(pool) : pool'[j] = pool[a] /\ a = IF j < i THEN j ELSE j + 1
        BY <2>9
      <4>2. PICK b \in 1..Len(pool) : pool'[k] = pool[b] /\ b = IF k < i THEN k ELSE k + 1
        BY <2>9
      <4>3. a = b
        BY <3>1, <4>1, <4>2, <2>7
      <4> QED BY <4>1, <4>2, <4>3, <2>3, <2>4
    <3> QED BY <3>1, <2>6 DEF IsInjective
  <2>11. ToSet(pool') \subseteq up' \cap connected'
    <3>1. \A j \in 1..(Len(pool) - 1) : pool'[j] \in up' \cap connected'
      BY <2>3, <2>4, <2>7, <2>8, <2>9
    <3> QED BY <3>1, <2>6 DEF ToSet
  <2>12. /\ Len(pool') >= IF initial < MinReplicas THEN initial ELSE MinReplicas
         /\ Len(pool') <= IF initial > MaxReplicas THEN initial ELSE MaxReplicas
    BY <2>2, <2>3, <2>5 DEF PoolWithinBounds
  <2> QED BY <2>1, <2>10, <2>11, <2>12 DEF PoolWithinBounds
<1>4. ASSUME \/ \E n \in 0..MaxBuffers : Dumps(n)
             \/ \E k \in 0..(MaxBuffers - 1) : DumpsFails(k)
             \/ \E target \in {"group", "other"}, p \in AllPorts : PutBytes(target, p)
             \/ \E p \in AllPorts : Loads(p) \/ Receive(p)
             \/ \E t \in Loops : Run(t) \/ Check(t)
             \/ Start \/ Stop
             \/ UNCHANGED vars
      PROVE  PoolWithinBounds'
  <2>1. UNCHANGED <<config, group>>
    BY <1>4 DEF Dumps, DumpsFails, PutBytes, Loads, Receive, Run, Check, Start, Stop, vars
  <2> QED BY <2>1, <1>1 DEF config
<1> QED BY <1>2, <1>3, <1>4 DEF Next, Autoscale
-----------------------------------------------------------------------------
(* The segments.                                                              *)

(* Named is what the message being sent or some message on a wire names. *)
LEMMA NamedIs ==
  /\ \A s : s \in Named <=> \/ s \in out.segs
                            \/ \E p \in AllPorts : \E i \in DOMAIN wire[p] : s \in wire[p][i]
  /\ \A s : s \in Named' <=> \/ s \in out'.segs
                             \/ \E p \in AllPorts : \E i \in DOMAIN wire'[p] : s \in wire'[p][i]
BY DEF Named, ToSet, AllPorts

(* dumps() makes segments nobody names yet. *)
LEMMA DumpsFlight ==
  ASSUME ReplicaTypes, FlightInv, NEW n \in 0..MaxBuffers, Dumps(n)
  PROVE  FlightInv'
<1> DEFINE segs == IF UseShm THEN {<<sent + 1, k>> : k \in 1..n} ELSE {}
           left == IF fanout THEN {"group", "other"} ELSE {"group"}
<1>1. /\ UNCHANGED <<config, wire, dead, leaked>> /\ sent' = sent + 1 /\ sent \in Nat
      /\ out.segs = {}
  BY DEF Dumps, Idle, ReplicaTypes
<1>2. segments' = segments \cup segs /\ out' = [segs |-> segs, left |-> left]
  BY DEF Dumps
<1>3. \A s \in segs : s[1] = sent + 1
  OBVIOUS
<1>4. \A s \in segments : s[1] \in Nat /\ s[1] <= sent
  BY DEF FlightInv, ReplicaTypes, Segment
<1>5. segs \cap segments = {}
  BY <1>1, <1>3, <1>4
<1>6. UseShm => left \subseteq {"group"}
  BY DEF UseShm
<1>7. ~UseShm => segs = {}
  OBVIOUS
<1>8. left # {}
  OBVIOUS
<1> HIDE DEF segs, left
<1>9. /\ dead = {} /\ segments = Named \cup leaked /\ Named \cap leaked = {}
      /\ ~UseShm => segments = {}
  BY DEF FlightInv, SegmentsOwned
<1>10. out'.segs = segs /\ out'.left = left
  BY <1>2
<1>11. Named' = Named \cup segs
  BY <1>1, <1>10, NamedIs
<1>12. SegmentsOwned'
  <2>1. segments' = Named' \cup leaked'
    BY <1>1, <1>2, <1>9, <1>11
  <2>2. Named' \cap leaked' = {}
    BY <1>1, <1>5, <1>9, <1>11
  <2> QED BY <2>1, <2>2, <1>1, <1>9 DEF SegmentsOwned
<1>13. Disjoint'
  <2>1. \A p \in AllPorts : \A i \in DOMAIN wire[p] : wire[p][i] \subseteq segments
    BY <1>9, NamedIs
  <2>2. \A p \in AllPorts : \A i \in DOMAIN wire[p] : wire[p][i] \cap segs = {}
    BY <2>1, <1>5
  <2> QED BY <2>2, <1>1, <1>10 DEF Disjoint, FlightInv, AllPorts
<1>14. \A s \in segments' : s[1] <= sent'
  BY <1>1, <1>2, <1>3, <1>4
<1>15. UseShm' = UseShm
  BY <1>1 DEF UseShm, config
<1>16. ~UseShm' => segments' = {}
  BY <1>2, <1>7, <1>9, <1>15
<1>17. (UseShm' => out'.left \subseteq {"group"}) /\ out'.left # {}
  BY <1>6, <1>8, <1>10, <1>15
<1> QED BY <1>12, <1>13, <1>14, <1>16, <1>17 DEF FlightInv

(* A dumps() that fails leaves segments nobody will name. *)
LEMMA DumpsFailsFlight ==
  ASSUME ReplicaTypes, FlightInv, NEW k \in 0..(MaxBuffers - 1), DumpsFails(k)
  PROVE  FlightInv'
<1> DEFINE made == {<<sent + 1, j>> : j \in 1..k}
<1>1. /\ UNCHANGED <<config, wire, dead, out>> /\ sent' = sent + 1 /\ sent \in Nat
      /\ UseShm
  BY DEF DumpsFails, ReplicaTypes
<1>2. segments' = segments \cup made /\ leaked' = leaked \cup made
  BY DEF DumpsFails
<1>3. \A s \in made : s[1] = sent + 1
  OBVIOUS
<1> HIDE DEF made
<1>4. \A s \in segments : s[1] \in Nat /\ s[1] <= sent
  BY DEF FlightInv, ReplicaTypes, Segment
<1>5. made \cap segments = {}
  BY <1>1, <1>3, <1>4
<1>6. dead = {} /\ segments = Named \cup leaked /\ Named \cap leaked = {}
  BY DEF FlightInv, SegmentsOwned
<1>7. Named' = Named
  BY <1>1, NamedIs
<1>8. SegmentsOwned'
  <2>1. segments' = Named' \cup leaked'
    BY <1>2, <1>6, <1>7
  <2>2. Named' \cap leaked' = {}
    BY <1>2, <1>5, <1>6, <1>7
  <2> QED BY <2>1, <2>2, <1>1, <1>6 DEF SegmentsOwned
<1>9. Disjoint'
  BY <1>1 DEF Disjoint, FlightInv, AllPorts
<1>10. \A s \in segments' : s[1] <= sent'
  BY <1>1, <1>2, <1>3, <1>4
<1>11. UseShm' = UseShm
  BY <1>1 DEF UseShm, config
<1> QED BY <1>1, <1>8, <1>9, <1>10, <1>11 DEF FlightInv

(* put_bytes moves the segments of a message from the sender to one wire: with   *)
(* shared memory there is one target, so the sender keeps no copy of the names.  *)
LEMMA PutBytesFlight ==
  ASSUME ReplicaTypes, FlightInv, NEW target \in Targets, NEW p \in AllPorts, PutBytes(target, p)
  PROVE  FlightInv'
<1>1. /\ UNCHANGED <<config, dead, segments, leaked, sent>>
      /\ target \in out.left
      /\ out' = IF out.left = {target} THEN Idle ELSE [out EXCEPT !.left = out.left \ {target}]
  BY DEF PutBytes
<1>2. wire' = [wire EXCEPT ![p] = Append(wire[p], out.segs)]
  BY DEF PutBytes
<1>3. /\ dead = {} /\ segments = Named \cup leaked /\ Named \cap leaked = {}
      /\ ~UseShm => segments = {}
      /\ UseShm => out.left \subseteq {"group"}
      /\ Disjoint
  BY DEF FlightInv, SegmentsOwned
<1>4. UseShm' = UseShm
  BY <1>1 DEF UseShm, config
<1>5. /\ out'.left = out.left \ {target} /\ (out'.left = {} => out' = Idle)
      /\ (out.left = {target} => out'.segs = {})
      /\ (out'.segs = {} \/ out'.segs = out.segs)
  BY <1>1 DEF ReplicaTypes, Idle
<1>6. out'.segs = {}
  <2>1. CASE UseShm
    BY <2>1, <1>1, <1>3, <1>5
  <2>2. CASE ~UseShm
    <3>1. out.segs = {}
      BY <2>2, <1>3, NamedIs
    <3> QED BY <3>1, <1>5
  <2> QED BY <2>1, <2>2
<1>7. Len(wire[p]) \in Nat /\ DOMAIN wire[p] = 1..Len(wire[p]) /\ wire[p] \in Seq(SUBSET Segment)
  BY DEF ReplicaTypes
<1>8. \A q \in AllPorts \ {p} : wire'[q] = wire[q]
  BY <1>2 DEF ReplicaTypes
<1>9. wire'[p] = Append(wire[p], out.segs)
  BY <1>2 DEF ReplicaTypes
<1>10. /\ DOMAIN wire'[p] = 1..(Len(wire[p]) + 1)
       /\ \A i \in 1..Len(wire[p]) : wire'[p][i] = wire[p][i]
       /\ wire'[p][Len(wire[p]) + 1] = out.segs
  <2>1. out.segs \in SUBSET Segment
    BY DEF ReplicaTypes
  <2> QED BY <2>1, <1>7, <1>9
<1>11. \A i \in DOMAIN wire'[p] : i \in DOMAIN wire[p] \/ i = Len(wire[p]) + 1
  BY <1>7, <1>10
<1>12. DOMAIN wire[p] \subseteq DOMAIN wire'[p] /\ Len(wire[p]) + 1 \in DOMAIN wire'[p] /\ Len(wire[p]) + 1 \notin DOMAIN wire[p]
  BY <1>7, <1>10
<1>13. Named' = Named
  <2>1. ASSUME NEW s, s \in Named
        PROVE  s \in Named'
    <3>1. CASE s \in out.segs
      BY <3>1, <1>10, <1>12, NamedIs
    <3>2. ASSUME NEW q \in AllPorts, NEW i \in DOMAIN wire[q], s \in wire[q][i]
          PROVE  s \in Named'
      <4>1. i \in DOMAIN wire'[q] /\ wire'[q][i] = wire[q][i]
        BY <1>7, <1>8, <1>10, <1>12
      <4> QED BY <4>1, <3>2, NamedIs
    <3> QED BY <2>1, <3>1, <3>2, NamedIs
  <2>2. ASSUME NEW s, s \in Named'
        PROVE  s \in Named
    <3>1. PICK q \in AllPorts : \E i \in DOMAIN wire'[q] : s \in wire'[q][i]
      BY <2>2, <1>6, NamedIs
    <3>2. CASE q = p
      <4>1. PICK i \in DOMAIN wire'[p] : s \in wire'[p][i]
        BY <3>1, <3>2
      <4>2. CASE i \in DOMAIN wire[p]
        BY <4>1, <4>2, <1>7, <1>10, NamedIs
      <4>3. CASE i = Len(wire[p]) + 1
        BY <4>1, <4>3, <1>10, NamedIs
      <4> QED BY <4>2, <4>3, <1>11
    <3>3. CASE q # p
      BY <3>1, <3>3, <1>8, NamedIs
    <3> QED BY <3>2, <3>3
  <2> QED BY <2>1, <2>2
<1>14. SegmentsOwned'
  BY <1>1, <1>3, <1>13 DEF SegmentsOwned
<1>15. Disjoint'
  <2>1. ASSUME NEW q \in AllPorts, NEW r \in AllPorts,
               NEW i \in DOMAIN wire'[q], NEW j \in DOMAIN wire'[r], q # r \/ i # j
        PROVE  wire'[q][i] \cap wire'[r][j] = {}
    <3>1. \/ i \in DOMAIN wire[q] /\ wire'[q][i] = wire[q][i]
          \/ q = p /\ i = Len(wire[p]) + 1 /\ wire'[q][i] = out.segs
      BY <1>7, <1>8, <1>10, <1>11
    <3>2. \/ j \in DOMAIN wire[r] /\ wire'[r][j] = wire[r][j]
          \/ r = p /\ j = Len(wire[p]) + 1 /\ wire'[r][j] = out.segs
      BY <1>7, <1>8, <1>10, <1>11
    <3> QED BY <2>1, <3>1, <3>2, <1>3 DEF Disjoint
  <2> QED BY <2>1, <1>6 DEF Disjoint, AllPorts
<1>16. (UseShm' => out'.left \subseteq {"group"}) /\ (~UseShm' => segments' = {})
  BY <1>1, <1>3, <1>4, <1>5
<1>17. \A s \in segments' : s[1] <= sent'
  BY <1>1 DEF FlightInv
<1> QED BY <1>5, <1>14, <1>15, <1>16, <1>17 DEF FlightInv, Idle

(* loads() finds all segments of the message it reads and unlinks exactly them. *)
LEMMA LoadsFlight ==
  ASSUME ReplicaTypes, FlightInv, NEW p \in AllPorts, Loads(p)
  PROVE  FlightInv'
<1> DEFINE head == wire[p][1]
<1>1. UNCHANGED <<config, leaked, out, sent>> /\ wire[p] # <<>>
  BY DEF Loads
<1>2. wire' = [wire EXCEPT ![p] = Tail(wire[p])]
  BY DEF Loads
<1>3. /\ dead = {} /\ segments = Named \cup leaked /\ Named \cap leaked = {}
      /\ ~UseShm => segments = {}
      /\ UseShm => out.left \subseteq {"group"}
      /\ Disjoint
  BY DEF FlightInv, SegmentsOwned
<1>4. UseShm' = UseShm
  BY <1>1 DEF UseShm, config
<1>5. /\ Len(wire[p]) \in Nat /\ DOMAIN wire[p] = 1..Len(wire[p]) /\ wire[p] \in Seq(SUBSET Segment)
      /\ Len(wire[p]) # 0 /\ Head(wire[p]) = head /\ 1 \in DOMAIN wire[p]
  BY <1>1 DEF ReplicaTypes
<1>6. segments' = segments \ head
  BY <1>5 DEF Loads
<1> HIDE DEF head
<1>7. head \subseteq Named
  BY <1>5, NamedIs DEF head
<1>8. dead' = {}
  <2>1. Head(wire[p]) \subseteq segments
    BY <1>3, <1>5, <1>7
  <2> QED BY <2>1, <1>3 DEF Loads
<1>9. \A q \in AllPorts \ {p} : wire'[q] = wire[q]
  BY <1>2 DEF ReplicaTypes
<1>10. wire'[p] = Tail(wire[p])
  BY <1>2 DEF ReplicaTypes
<1>11. /\ DOMAIN wire'[p] = 1..(Len(wire[p]) - 1)
       /\ \A i \in 1..(Len(wire[p]) - 1) : wire'[p][i] = wire[p][i + 1]
  BY <1>5, <1>10
<1>12. \A i \in DOMAIN wire'[p] : i + 1 \in DOMAIN wire[p] /\ i + 1 # 1 /\ wire'[p][i] = wire[p][i + 1]
  BY <1>5, <1>11
<1>13. \A i \in DOMAIN wire[p] : i # 1 => i - 1 \in DOMAIN wire'[p] /\ wire'[p][i - 1] = wire[p][i]
  BY <1>5, <1>11
<1>14. \A i \in DOMAIN wire[p] : i # 1 => wire[p][i] \cap head = {}
  BY <1>3, <1>5 DEF Disjoint, head
<1>15. \A q \in AllPorts \ {p} : \A i \in DOMAIN wire[q] : wire[q][i] \cap head = {}
  BY <1>3, <1>5 DEF Disjoint, head
<1>16. out.segs \cap head = {}
  BY <1>3, <1>5 DEF Disjoint, head
<1>17. Named' = Named \ head
  <2>1. ASSUME NEW s, s \in Named, s \notin head
        PROVE  s \in Named'
    <3>1. CASE s \in out.segs
      BY <3>1, <1>1, NamedIs
    <3>2. ASSUME NEW q \in AllPorts, NEW i \in DOMAIN wire[q], s \in wire[q][i]
          PROVE  s \in Named'
      <4>1. CASE q # p
        BY <4>1, <3>2, <1>9, NamedIs
      <4>2. CASE q = p
        <5>1. i # 1
          BY <4>2, <3>2, <2>1 DEF head
        <5>2. i - 1 \in DOMAIN wire'[p] /\ s \in wire'[p][i - 1]
          BY <5>1, <4>2, <3>2, <1>13
        <5> QED BY <5>2, NamedIs
      <4> QED BY <4>1, <4>2
    <3> QED BY <2>1, <3>1, <3>2, NamedIs
  <2>2. ASSUME NEW s, s \in Named'
        PROVE  s \in Named /\ s \notin head
    <3>1. CASE s \in out'.segs
      BY <3>1, <1>1, <1>16, NamedIs
    <3>2. ASSUME NEW q \in AllPorts, NEW i \in DOMAIN wire'[q], s \in wire'[q][i]
          PROVE  s \in Named /\ s \notin head
      <4>1. CASE q # p
        BY <4>1, <3>2, <1>9, <1>15, NamedIs
      <4>2. CASE q = p
        <5>1. i + 1 \in DOMAIN wire[p] /\ i + 1 # 1 /\ s \in wire[p][i + 1]
          BY <4>2, <3>2, <1>12
        <5> QED BY <5>1, <1>14, NamedIs
      <4> QED BY <4>1, <4>2
    <3> QED BY <2>2, <3>1, <3>2, NamedIs
  <2> QED BY <2>1, <2>2
<1>18. SegmentsOwned'
  <2>1. segments' = Named' \cup leaked'
    BY <1>1, <1>3, <1>6, <1>7, <1>17
  <2>2. Named' \cap leaked' = {}
    BY <1>1, <1>3, <1>17
  <2> QED BY <2>1, <2>2, <1>8 DEF SegmentsOwned
<1>19. Disjoint'
  <2>1. ASSUME NEW q \in AllPorts, NEW i \in DOMAIN wire'[q]
        PROVE  \E k \in DOMAIN wire[q] : wire'[q][i] = wire[q][k] /\ k = IF q = p THEN i + 1 ELSE i
    BY <1>9, <1>12
  <2>2. ASSUME NEW q \in AllPorts, NEW r \in AllPorts,
               NEW i \in DOMAIN wire'[q], NEW j \in DOMAIN wire'[r], q # r \/ i # j
        PROVE  wire'[q][i] \cap wire'[r][j] = {}
    <3>1. PICK k \in DOMAIN wire[q] : wire'[q][i] = wire[q][k] /\ k = IF q = p THEN i + 1 ELSE i
      BY <2>1
    <3>2. PICK l \in DOMAIN wire[r] : wire'[r][j] = wire[r][l] /\ l = IF r = p THEN j + 1 ELSE j
      BY <2>1
    <3>3. q # r \/ k # l
      <4>1. CASE q # r
        BY <4>1
      <4>2. CASE q = r /\ q # p
        BY <4>2, <3>1, <3>2, <2>2
      <4>3. CASE q = p /\ r = p
        <5>1. i \in Nat /\ j \in Nat /\ i # j
          BY <4>3, <2>2, <1>5, <1>11
        <5> QED BY <5>1, <4>3, <3>1, <3>2
      <4> QED BY <4>1, <4>2, <4>3
    <3> QED BY <3>1, <3>2, <3>3, <1>3 DEF Disjoint
  <2>3. \A q \in AllPorts : \A i \in DOMAIN wire'[q] : wire'[q][i] \cap out'.segs = {}
    BY <2>1, <1>1, <1>3 DEF Disjoint
  <2> QED BY <2>2, <2>3 DEF Disjoint, AllPorts
<1>20. (UseShm' => out'.left \subseteq {"group"}) /\ (~UseShm' => segments' = {})
  BY <1>1, <1>3, <1>4, <1>6
<1>21. \A s \in segments' : s[1] <= sent'
  BY <1>1, <1>6 DEF FlightInv
<1>22. out'.left = {} => out' = Idle'
  BY <1>1 DEF FlightInv, Idle
<1> QED BY <1>18, <1>19, <1>20, <1>21, <1>22 DEF FlightInv
(* Tearing a replica down strands the segments of the messages on its wire, and  *)
(* no other message names them.                                                  *)
LEMMA ScaleDownFlight ==
  ASSUME ReplicaTypes, LockInv, FlightInv, NEW t \in Loops, ScaleDown(t)
  PROVE  FlightInv'
<1> USE AutoscaleAssumption
<1>1. config' = config /\ loop[t] = "down"
  BY DEF ScaleDown, config
<1>2. Len(pool) > 0
  BY <1>1 DEF LockInv, ReplicaTypes
<1>3. PICK p \in AllPorts :
        \/ /\ leaked' = leaked \cup ((UNION ToSet(wire[p])) \cap segments)
           /\ wire' = [wire EXCEPT ![p] = <<>>]
           /\ dead' = dead \ {p}
           /\ UNCHANGED <<segments, out, sent>>
        \/ UNCHANGED flight
  <2>1. \A i \in DOMAIN pool : pool[i] \in AllPorts
    BY DEF ReplicaTypes, AllPorts
  <2> QED BY <1>2, <2>1, DownStep
<1>4. CASE UNCHANGED flight
  <2>1. UNCHANGED <<wire, dead, segments, leaked, out, sent>>
    BY <1>4 DEF flight
  <2>2. Named' = Named
    BY <2>1, NamedIs
  <2>3. SegmentsOwned'
    BY <2>1, <2>2 DEF FlightInv, SegmentsOwned
  <2>4. Disjoint'
    BY <2>1 DEF FlightInv, Disjoint, AllPorts
  <2>5. UseShm' = UseShm
    BY <1>1 DEF UseShm, config
  <2> QED BY <2>1, <2>3, <2>4, <2>5 DEF FlightInv, Idle
<1>5. ASSUME leaked' = leaked \cup ((UNION ToSet(wire[p])) \cap segments),
             wire' = [wire EXCEPT ![p] = <<>>],
             dead' = dead \ {p},
             UNCHANGED <<segments, out, sent>>
      PROVE  FlightInv'
  <2> DEFINE gone == UNION ToSet(wire[p])
  <2>1. p \in AllPorts
    OBVIOUS
  <2>2. \A s : s \in gone <=> \E k \in DOMAIN wire[p] : s \in wire[p][k]
    BY DEF ToSet
  <2>3. leaked' = leaked \cup (gone \cap segments)
    BY <1>5
  <2>4. wire' = [wire EXCEPT ![p] = <<>>]
    BY <1>5
  <2> HIDE DEF gone
  <2>5. \A q \in AllPorts \ {p} : wire'[q] = wire[q]
    BY <2>4 DEF ReplicaTypes
  <2>6. DOMAIN wire'[p] = {}
    <3>1. wire'[p] = <<>>
      BY <2>1, <2>4 DEF ReplicaTypes
    <3> QED BY <3>1
  <2>7. /\ dead = {} /\ segments = Named \cup leaked /\ Named \cap leaked = {}
        /\ ~UseShm => segments = {}
        /\ UseShm => out.left \subseteq {"group"}
        /\ Disjoint
    BY DEF FlightInv, SegmentsOwned
  <2>8. gone \subseteq Named
    BY <2>1, <2>2, NamedIs
  <2>9. Named' = Named \ gone
    <3>1. ASSUME NEW s, s \in Named, s \notin gone
          PROVE  s \in Named'
      <4>1. CASE s \in out.segs
        BY <4>1, <1>5, NamedIs
      <4>2. ASSUME NEW q \in AllPorts, NEW k \in DOMAIN wire[q], s \in wire[q][k]
            PROVE  s \in Named'
        <5>1. q # p
          BY <4>2, <3>1, <2>2
        <5> QED BY <5>1, <4>2, <2>5, NamedIs
      <4> QED BY <3>1, <4>1, <4>2, NamedIs
    <3>2. ASSUME NEW s, s \in Named'
          PROVE  s \in Named /\ s \notin gone
      <4>1. CASE s \in out'.segs
        BY <4>1, <1>5, <2>1, <2>2, <2>7, NamedIs DEF Disjoint
      <4>2. ASSUME NEW q \in AllPorts, NEW k \in DOMAIN wire'[q], s \in wire'[q][k]
            PROVE  s \in Named /\ s \notin gone
        <5>1. q # p /\ wire'[q] = wire[q]
          BY <2>5, <2>6
        <5>2. \A m \in DOMAIN wire[p] : wire[q][k] \cap wire[p][m] = {}
          BY <5>1, <2>1, <2>7 DEF Disjoint
        <5> QED BY <5>1, <5>2, <4>2, <2>2, NamedIs
      <4> QED BY <3>2, <4>1, <4>2, NamedIs
    <3> QED BY <3>1, <3>2
  <2>10. SegmentsOwned'
    <3>1. segments' = Named' \cup leaked'
      BY <1>5, <2>3, <2>7, <2>8, <2>9
    <3>2. Named' \cap leaked' = {}
      BY <2>3, <2>7, <2>9
    <3> QED BY <3>1, <3>2, <1>5, <2>7 DEF SegmentsOwned
  <2>11. Disjoint'
    <3>1. \A q \in AllPorts : \A k \in DOMAIN wire'[q] : k \in DOMAIN wire[q] /\ wire'[q][k] = wire[q][k]
      BY <2>5, <2>6
    <3> QED BY <3>1, <1>5, <2>7 DEF Disjoint, AllPorts
  <2>12. UseShm' = UseShm
    BY <1>1 DEF UseShm, config
  <2> QED BY <1>5, <2>10, <2>11, <2>12 DEF FlightInv, Idle
<1> QED BY <1>3, <1>4, <1>5

(* The steps that leave segments, wires and messages alone. *)
LEMMA OtherFlight ==
  ASSUME FlightInv, UNCHANGED <<config, wire, dead, segments, leaked, out, sent>>
  PROVE  FlightInv'
<1>1. Named' = Named
  BY NamedIs
<1>2. SegmentsOwned'
  BY <1>1 DEF FlightInv, SegmentsOwned
<1>3. Disjoint'
  BY DEF FlightInv, Disjoint, AllPorts
<1>4. UseShm' = UseShm
  BY DEF UseShm, config
<1> QED BY <1>2, <1>3, <1>4 DEF FlightInv, Idle

(* Nothing is in flight when the edge is set up. *)
LEMMA InitInv ==
  ASSUME Init
  PROVE  IInv
<1> USE AutoscaleAssumption
<1>1. ReplicaTypes /\ Len(pool) = initial /\ IsInjective(pool)
  BY InitType
<1>2. LockInv
  BY DEF Init, LockInv
<1>3. PoolWithinBounds
  <2>1. initial \in Nat /\ connected = ToSet(pool) /\ up = ToSet(pool)
    BY <1>1 DEF Init, ReplicaTypes
  <2> QED BY <2>1, <1>1 DEF PoolWithinBounds
<1>4. /\ dead = {} /\ segments = {} /\ leaked = {} /\ out = Idle
      /\ \A p \in AllPorts : DOMAIN wire[p] = {}
  BY DEF Init
<1>5. out.segs = {} /\ out.left = {}
  BY <1>4 DEF Idle
<1>6. Named = {}
  BY <1>4, <1>5, NamedIs
<1>7. SegmentsOwned
  BY <1>4, <1>6 DEF SegmentsOwned
<1>8. Disjoint
  BY <1>4 DEF Disjoint
<1> QED BY <1>1, <1>2, <1>3, <1>4, <1>5, <1>7, <1>8 DEF IInv, PoolInv, FlightInv

(* Every step of the producer, the replicas and the autoscaler keeps the invariant. *)
LEMMA Inductive ==
  ASSUME IInv, [Next]_vars
  PROVE  IInv'
<1>1. ReplicaTypes /\ LockInv /\ PoolWithinBounds /\ FlightInv
  BY DEF IInv, PoolInv
<1>2. LockInv' /\ PoolWithinBounds'
  BY <1>1, LockStep, PoolStep
<1>3. CASE UNCHANGED vars
  <2>1. UNCHANGED <<shm, fanout, initial, connected, up, pool, wire, depth, segments, out, sent, loop, lock>>
    BY <1>3 DEF vars, config, group, flight, threads
  <2>2. ReplicaTypes'
    BY <1>1, <2>1 DEF ReplicaTypes
  <2>3. FlightInv'
    BY <1>1, <1>3, OtherFlight DEF vars, flight
  <2> QED BY <1>2, <2>2, <2>3 DEF IInv, PoolInv
<1>4. CASE Next
  <2>1. ReplicaTypes'
    BY <1>1, <1>4, FlightTypes, ThreadTypes DEF Next, Targets
  <2>2. FlightInv'
    <3>1. ASSUME NEW n \in 0..MaxBuffers, Dumps(n) PROVE FlightInv'
      BY <1>1, <3>1, DumpsFlight
    <3>2. ASSUME NEW k \in 0..(MaxBuffers - 1), DumpsFails(k) PROVE FlightInv'
      BY <1>1, <3>2, DumpsFailsFlight
    <3>3. ASSUME NEW target \in Targets, NEW p \in AllPorts, PutBytes(target, p) PROVE FlightInv'
      BY <1>1, <3>3, PutBytesFlight
    <3>4. ASSUME NEW p \in AllPorts, Loads(p) PROVE FlightInv'
      BY <1>1, <3>4, LoadsFlight
    <3>5. ASSUME NEW t \in Loops, ScaleDown(t) PROVE FlightInv'
      BY <1>1, <3>5, ScaleDownFlight
    <3>6. ASSUME \/ \E p \in AllPorts : Receive(p)
                 \/ \E t \in Loops : Run(t) \/ Check(t) \/ ScaleUp(t)
                 \/ Start \/ Stop
          PROVE  FlightInv'
      <4>1. UNCHANGED <<config, wire, dead, segments, leaked, out, sent>>
        BY <3>6 DEF Receive, Run, Check, ScaleUp, Start, Stop, flight
      <4> QED BY <4>1, <1>1, OtherFlight
    <3> QED BY <1>4, <3>1, <3>2, <3>3, <3>4, <3>5, <3>6 DEF Next, Autoscale, Targets
  <2> QED BY <1>2, <2>1, <2>2 DEF IInv, PoolInv
<1> QED BY <1>3, <1>4

(* The invariant holds in every behaviour of the edge. *)
LEMMA Invariance == Spec => []IInv
BY InitInv, Inductive, PTL DEF Spec

(* ReplicaAutoscaler: for any bounds, ports, initial size and number of background *)
(* loops, overlapping after stop() and start() or not, the pool stays between the  *)
(* bounds (or the size it was started with), with distinct running replicas.       *)
THEOREM PoolStaysInBounds == Spec => []PoolWithinBounds
<1>1. IInv => PoolWithinBounds
  BY DEF IInv, PoolInv
<1> QED BY <1>1, Invariance, PTL

(* codec and mailbox: for any fan-out, number of buffers, replicas and messages,   *)
(* a receiver finds every segment its message names, whatever the autoscaler does  *)
(* meanwhile, and only failed serializations and torn-down replicas leak segments. *)
THEOREM SegmentsHaveOneOwner == Spec => []SegmentsOwned
<1>1. IInv => SegmentsOwned
  BY DEF IInv, FlightInv
<1> QED BY <1>1, Invariance, PTL

-----------------------------------------------------------------------------
(* ReqRep.                                                                 *)

\* The item the running call has sent or is about to send.
Request == IF pc = "nowait" THEN current ELSE deque[1]

(* A call owns its request: the only live copy is of that item, and an answer    *)
(* means that the consumer has it.                                              *)
CallInv ==
  /\ pc \in {"send", "poll"} => deque # <<>>
  /\ pc = "nowait" => current = offered /\ current # 0 /\ current \notin byPut \cup ToSet(deque)
  /\ pc # "nowait" => current = 0
  /\ live # <<>> => ~acked /\ live = <<Request>>
  /\ acked => Request \in ToSet(got)

(* Items are buffered once, and there are as many offered as buffered.           *)
DequeInv ==
  /\ IsInjective(deque)
  /\ ToSet(deque) \subseteq 1..offered /\ byPut \subseteq 1..offered
  /\ ToSet(stale) \subseteq 1..offered /\ ToSet(got) \subseteq 1..offered
  /\ Len(deque) + (IF current = 0 THEN 0 ELSE 1) <= offered

(* What was delivered and may be delivered again has timed out.                  *)
RepeatInv ==
  /\ ToSet(stale) \subseteq timedOut
  /\ \A x \in ToSet(deque) \cup {current} :
       x \in ToSet(got) => x \in timedOut \/ (acked /\ x = Request)

(* The one item offered by put that may not have arrived is the newest, at the   *)
(* end of the buffer that the running put drains.                                *)
BarrierInv ==
  \A x \in byPut \ ToSet(got) : pc \in {"send", "poll"} /\ x = offered /\ x = deque[Len(deque)]

\* AtLeastOnce in its parts.
Accounted == 1..offered = ToSet(got) \cup ToSet(deque) \cup ({current} \ {0}) \cup lost
Ordered ==
  \A i, j \in DOMAIN got : i < j /\ {got[i], got[j]} \subseteq byPut => got[i] < got[j]
Delivery ==
  /\ Accounted
  /\ twice \subseteq timedOut
  /\ lost # {} => offered > DequeLen
  /\ pc = "idle" /\ offered \in byPut => deque = <<>>
  /\ Ordered

\* TypeOK with one conjunct per variable.
Typed ==
  /\ bound \in BOOLEAN /\ linked \in BOOLEAN /\ acked \in BOOLEAN
  /\ pc \in {"idle", "send", "poll", "nowait"}
  /\ deque \in Seq(Items) /\ Len(deque) <= DequeLen
  /\ current \in 0..MaxItems /\ offered \in 0..MaxItems
  /\ live \in Seq(Items) /\ stale \in Seq(Items) /\ got \in Seq(Items)
  /\ byPut \subseteq Items /\ twice \subseteq Items /\ timedOut \subseteq Items /\ lost \subseteq Items
  /\ pc \in {"idle", "send"} => live = <<>> /\ ~acked

QueueInv == Typed /\ CallInv /\ DequeInv /\ RepeatInv /\ BarrierInv /\ Delivery

-----------------------------------------------------------------------------
(* Lemmas about the sequences of the model.                                   *)

(* deque.append and got.append. *)
LEMMA AppendFacts ==
  ASSUME NEW S, NEW s \in Seq(S), NEW x \in S
  PROVE  /\ Append(s, x) \in Seq(S) /\ Len(Append(s, x)) = Len(s) + 1
         /\ Append(s, x) # <<>> /\ Append(s, x)[Len(s) + 1] = x
         /\ ToSet(Append(s, x)) = ToSet(s) \cup {x}
         /\ IsInjective(s) /\ x \notin ToSet(s) => IsInjective(Append(s, x))
<1> DEFINE t == Append(s, x)
<1>1. /\ t \in Seq(S) /\ Len(t) = Len(s) + 1 /\ t # <<>>
      /\ t[Len(s) + 1] = x /\ \A i \in 1..Len(s) : t[i] = s[i]
  OBVIOUS
<1>2. Len(s) \in Nat /\ DOMAIN s = 1..Len(s) /\ DOMAIN t = 1..(Len(s) + 1)
  BY <1>1
<1> HIDE DEF t
<1>3. \A i \in 1..(Len(s) + 1) : i \in 1..Len(s) \/ i = Len(s) + 1
  BY <1>2
<1>4. 1..Len(s) \subseteq 1..(Len(s) + 1) /\ Len(s) + 1 \in 1..(Len(s) + 1)
  BY <1>2
<1>5. ToSet(t) = ToSet(s) \cup {x}
  BY <1>1, <1>2, <1>3, <1>4 DEF ToSet
<1>6. ASSUME IsInjective(s), x \notin ToSet(s)
      PROVE  IsInjective(t)
  <2>1. \A i \in 1..Len(s) : s[i] # x
    BY <1>2, <1>6 DEF ToSet
  <2> QED BY <2>1, <1>1, <1>2, <1>3, <1>6 DEF IsInjective
<1> QED BY <1>1, <1>5, <1>6 DEF t

(* deque.popleft, and the item a full deque drops on append. *)
LEMMA TailFacts ==
  ASSUME NEW S, NEW s \in Seq(S), s # <<>>
  PROVE  /\ Tail(s) \in Seq(S) /\ Len(Tail(s)) = Len(s) - 1 /\ Head(s) = s[1] /\ Head(s) \in S
         /\ ToSet(s) = ToSet(Tail(s)) \cup {s[1]}
         /\ IsInjective(s) => IsInjective(Tail(s)) /\ s[1] \notin ToSet(Tail(s))
         /\ s[Len(s)] = IF Tail(s) = <<>> THEN s[1] ELSE Tail(s)[Len(Tail(s))]
<1> DEFINE t == Tail(s)
<1>1. /\ t \in Seq(S) /\ Len(t) = Len(s) - 1 /\ Head(s) = s[1] /\ Head(s) \in S
      /\ \A i \in 1..(Len(s) - 1) : t[i] = s[i + 1]
  OBVIOUS
<1>2. Len(s) \in Nat \ {0} /\ DOMAIN s = 1..Len(s) /\ DOMAIN t = 1..(Len(s) - 1)
  BY <1>1
<1> HIDE DEF t
<1>3. \A i \in 1..Len(s) : i = 1 \/ (i - 1 \in 1..(Len(s) - 1) /\ t[i - 1] = s[i])
  BY <1>1, <1>2
<1>4. \A i \in 1..(Len(s) - 1) : i + 1 \in 1..Len(s) /\ i + 1 # 1
  BY <1>2
<1>5. ToSet(s) = ToSet(t) \cup {s[1]}
  <2>1. \A y : y \in ToSet(s) => y \in ToSet(t) \cup {s[1]}
    BY <1>2, <1>3 DEF ToSet
  <2>2. \A y : y \in ToSet(t) => y \in ToSet(s)
    <3>1. \A i \in DOMAIN t : i + 1 \in DOMAIN s /\ t[i] = s[i + 1]
      BY <1>1, <1>2, <1>4
    <3> QED
      BY ONLY <3>1 DEF ToSet
  <2>3. s[1] \in ToSet(s)
    BY <1>2 DEF ToSet
  <2> QED BY <2>1, <2>2, <2>3
<1>6. ASSUME IsInjective(s)
      PROVE  IsInjective(t) /\ s[1] \notin ToSet(t)
  <2>1. \A i, j \in 1..Len(s) : s[i] = s[j] => i = j
    BY <1>2, <1>6 DEF IsInjective
  <2>2. s[1] \notin ToSet(t)
    BY <2>1, <1>1, <1>2, <1>4 DEF ToSet
  <2>3. \A i, j \in 1..(Len(s) - 1) : t[i] = t[j] => i = j
    BY <2>1, <1>1, <1>2, <1>4
  <2> QED BY <2>2, <2>3, <1>2 DEF IsInjective
<1>7. s[Len(s)] = IF t = <<>> THEN s[1] ELSE t[Len(t)]
  <2>1. CASE t = <<>>
    BY <2>1, <1>1, <1>2
  <2>2. CASE t # <<>>
    <3>1. Len(t) # 0
      BY <2>2, <1>1
    <3>2. Len(s) - 1 \in 1..(Len(s) - 1)
      BY <3>1, <1>1, <1>2
    <3> QED BY <3>2, <2>2, <1>1, <1>2
  <2> QED BY <2>1, <2>2
<1> QED BY <1>1, <1>5, <1>6, <1>7 DEF t

(* The item a full deque drops on appendleft. *)
LEMMA FrontFacts ==
  ASSUME NEW S, NEW s \in Seq(S), s # <<>>
  PROVE  /\ Front(s) \in Seq(S) /\ Len(Front(s)) = Len(s) - 1 /\ Last(s) \in S
         /\ ToSet(s) = ToSet(Front(s)) \cup {Last(s)}
         /\ IsInjective(s) => IsInjective(Front(s))
<1> DEFINE t == Front(s)
<1>1. Len(s) \in Nat \ {0} /\ DOMAIN s = 1..Len(s)
  OBVIOUS
<1>2. /\ t \in Seq(S) /\ Len(t) = Len(s) - 1
      /\ \A i \in 1..(Len(s) - 1) : t[i] = s[i]
  <2>1. \A i \in 1..(Len(s) - 1) : s[i] \in S
    BY <1>1
  <2> QED BY <2>1, <1>1, SubSeqProperties DEF Front
<1>3. DOMAIN t = 1..(Len(s) - 1) /\ Last(s) = s[Len(s)] /\ Last(s) \in S
  BY <1>1, <1>2 DEF Last
<1> HIDE DEF t
<1>4. \A i \in 1..Len(s) : i \in 1..(Len(s) - 1) \/ i = Len(s)
  <2>1. Len(s) \in Nat \ {0}
    BY <1>1
  <2> QED BY <2>1
<1>5. 1..(Len(s) - 1) \subseteq 1..Len(s) /\ Len(s) \in 1..Len(s)
  BY <1>1
<1>6. ToSet(s) = ToSet(t) \cup {Last(s)}
  BY <1>1, <1>2, <1>3, <1>4, <1>5 DEF ToSet
<1>7. IsInjective(s) => IsInjective(t)
  BY <1>1, <1>2, <1>3, <1>5 DEF IsInjective
<1> QED BY <1>2, <1>3, <1>6, <1>7 DEF t

(* deque.appendleft. *)
LEMMA ConsFacts ==
  ASSUME NEW S, NEW s \in Seq(S), NEW x \in S
  PROVE  /\ <<x>> \o s \in Seq(S) /\ Len(<<x>> \o s) = Len(s) + 1
         /\ ToSet(<<x>> \o s) = {x} \cup ToSet(s)
         /\ IsInjective(s) /\ x \notin ToSet(s) => IsInjective(<<x>> \o s)
<1> DEFINE t == <<x>> \o s
<1>1. Len(s) \in Nat /\ DOMAIN s = 1..Len(s)
  OBVIOUS
<1>2. /\ t \in Seq(S) /\ Len(t) = Len(s) + 1
      /\ t[1] = x /\ \A i \in 1..Len(s) : t[i + 1] = s[i]
  <2>1. <<x>> \in Seq(S) /\ Len(<<x>>) = 1 /\ <<x>>[1] = x
    OBVIOUS
  <2>2. /\ t \in Seq(S) /\ Len(t) = 1 + Len(s)
        /\ \A i \in 1..(1 + Len(s)) : t[i] = IF i <= 1 THEN <<x>>[i] ELSE s[i - 1]
    BY <2>1, ConcatProperties
  <2> HIDE DEF t
  <2>3. t[1] = x
    BY <2>1, <2>2, <1>1
  <2>4. \A i \in 1..Len(s) : t[i + 1] = s[i]
    BY <2>2, <1>1
  <2> QED BY <2>2, <2>3, <2>4, <1>1
<1>3. DOMAIN t = 1..(Len(s) + 1)
  BY <1>2
<1> HIDE DEF t
<1>4. \A i \in 1..(Len(s) + 1) : i = 1 \/ (i - 1 \in 1..Len(s) /\ t[i] = s[i - 1])
  BY <1>1, <1>2
<1>5. 1 \in 1..(Len(s) + 1) /\ \A i \in 1..Len(s) : i + 1 \in 1..(Len(s) + 1)
  BY <1>1
<1>6. ToSet(t) = {x} \cup ToSet(s)
  <2>1. \A y : y \in ToSet(t) => y \in {x} \cup ToSet(s)
    BY <1>1, <1>2, <1>3, <1>4 DEF ToSet
  <2>2. x \in ToSet(t)
    BY <1>2, <1>3, <1>5 DEF ToSet
  <2>3. \A y : y \in ToSet(s) => y \in ToSet(t)
    BY <1>1, <1>2, <1>3, <1>5 DEF ToSet
  <2> QED BY <2>1, <2>2, <2>3
<1>7. ASSUME IsInjective(s), x \notin ToSet(s)
      PROVE  IsInjective(t)
  <2>1. \A i \in 1..Len(s) : s[i] # x
    BY <1>1, <1>7 DEF ToSet
  <2>2. \A i, j \in 1..Len(s) : s[i] = s[j] => i = j
    BY <1>1, <1>7 DEF IsInjective
  <2>3. ASSUME NEW i \in 1..(Len(s) + 1), NEW j \in 1..(Len(s) + 1), t[i] = t[j]
        PROVE  i = j
    <3>1. CASE i = 1 \/ j = 1
      BY <3>1, <2>1, <2>3, <1>2, <1>4
    <3>2. CASE i # 1 /\ j # 1
      <4>1. i - 1 \in 1..Len(s) /\ j - 1 \in 1..Len(s) /\ s[i - 1] = s[j - 1]
        BY <3>2, <2>3, <1>4
      <4>2. i - 1 = j - 1
        BY <4>1, <2>2
      <4> QED BY <4>2
    <3> QED BY <3>1, <3>2
  <2> QED BY <2>3, <1>3 DEF IsInjective
<1> QED BY <1>2, <1>6, <1>7 DEF t

(* The bounds are positive. *)
LEMMA Bounds == DequeLen \in Nat \ {0} /\ MaxItems \in Nat \ {0} /\ MaxStale \in Nat \ {0}
BY ReqRepAssumption

(* The invariant says what is to be shown. *)
LEMMA Shown == QueueInv => TypeOK /\ AtLeastOnce
<1> SUFFICES ASSUME QueueInv PROVE TypeOK /\ AtLeastOnce
  OBVIOUS
<1>1. UNION {ToSet(got), ToSet(deque), {current} \ {0}, lost}
        = ToSet(got) \cup ToSet(deque) \cup ({current} \ {0}) \cup lost
  OBVIOUS
<1>2. AtLeastOnce
  BY <1>1 DEF QueueInv, Delivery, AtLeastOnce, Accounted, Ordered
<1>3. bound \in BOOLEAN /\ linked \in BOOLEAN /\ acked \in BOOLEAN
  BY DEF QueueInv, Typed
<1>4. {bound, linked, acked} \subseteq BOOLEAN
  BY <1>3, Zenon
<1>5. UNION {byPut, twice, timedOut, lost} \subseteq Items
  BY DEF QueueInv, Typed
<1>6. TypeOK
  BY <1>4, <1>5 DEF QueueInv, Typed, TypeOK
<1> QED BY <1>2, <1>6

-----------------------------------------------------------------------------
(* The pieces of an action.                                                   *)

(* Reset leaves no live request; what it leaves to the consumer is the request   *)
(* of the call that gave up.                                                     *)
LEMMA ResetFacts ==
  ASSUME Typed, CallInv, Reset, Request \in Items
  PROVE  /\ linked' \in BOOLEAN /\ live' = <<>> /\ acked' = FALSE
         /\ stale' \in Seq(Items) /\ ToSet(stale') \subseteq ToSet(stale) \cup {Request}
<1>1. linked' \in BOOLEAN
  BY Zenon DEF Reset
<1>2. live' = <<>> /\ acked' = FALSE
  BY DEF Reset
<1>3. CASE stale' = stale
  BY <1>1, <1>2, <1>3 DEF Typed
<1>4. CASE live # <<>> /\ stale' = stale \o live
  <2>1. live = <<Request>>
    BY <1>4 DEF CallInv
  <2>2. stale' = stale \o <<Request>> /\ stale \in Seq(Items)
    BY <1>4, <2>1 DEF Typed
  <2>3. stale' = Append(stale, Request)
    BY <2>2
  <2>4. \A x \in Items : /\ Append(stale, x) \in Seq(Items)
                         /\ ToSet(Append(stale, x)) = ToSet(stale) \cup {x}
    BY <2>2, AppendFacts
  <2> QED BY <2>3, <2>4, <1>1, <1>2
<1> QED BY <1>3, <1>4 DEF Reset

(* A first delivery of an item that put offered comes after all other such items, *)
(* since the item is the newest.                                                 *)
LEMMA DeliverFacts ==
  ASSUME QueueInv, NEW item \in 1..offered, Returned(item), UNCHANGED caller
  PROVE  /\ got' \in Seq(Items) /\ ToSet(got') = ToSet(got) \cup {item}
         /\ twice' \subseteq twice \cup ({item} \cap ToSet(got))
         /\ Ordered'
<1>1. item \in Items /\ got \in Seq(Items) /\ offered \in Nat
  BY Bounds DEF QueueInv, Typed, Items
<1>2. UNCHANGED <<offered, byPut>>
  BY DEF caller
<1>3. CASE item \in ToSet(got)
  <2>1. got' = got /\ twice' = twice \cup {item}
    BY <1>3 DEF Returned
  <2>2. Ordered'
    BY <2>1, <1>2 DEF QueueInv, Delivery, Ordered
  <2> QED BY <2>1, <2>2, <1>1, <1>3
<1>4. CASE item \notin ToSet(got)
  <2>1. got' = Append(got, item) /\ twice' = twice
    BY <1>4 DEF Returned
  <2>2. got' \in Seq(Items) /\ ToSet(got') = ToSet(got) \cup {item}
    BY <2>1, <1>1, AppendFacts
  <2>3. /\ Len(got) \in Nat /\ DOMAIN got = 1..Len(got) /\ DOMAIN got' = 1..(Len(got) + 1)
        /\ got'[Len(got) + 1] = item /\ \A i \in 1..Len(got) : got'[i] = got[i]
    BY <2>1, <1>1
  <2>4. \A i \in 1..Len(got) : got[i] \in 1..offered /\ got[i] # item
    BY <2>3, <1>4 DEF QueueInv, DequeInv, ToSet
  <2>5. item \in byPut => item = offered
    BY <1>4 DEF QueueInv, BarrierInv
  <2>6. ASSUME NEW i \in DOMAIN got', NEW j \in DOMAIN got', i < j, {got'[i], got'[j]} \subseteq byPut
        PROVE  got'[i] < got'[j]
    <3>1. i \in 1..Len(got)
      BY <2>3, <2>6
    <3>2. CASE j \in 1..Len(got)
      BY <3>1, <3>2, <2>3, <2>6 DEF QueueInv, Delivery, Ordered
    <3>3. CASE j = Len(got) + 1
      <4>1. got'[j] = item /\ item = offered /\ got'[i] = got[i]
        BY <3>1, <3>3, <2>3, <2>5, <2>6
      <4> QED BY <4>1, <3>1, <2>4, <1>1
    <3> QED BY <3>2, <3>3, <2>3
  <2>7. Ordered'
    BY <2>6, <1>2 DEF Ordered
  <2> QED BY <2>1, <2>2, <2>7
<1> QED BY <1>3, <1>4
-----------------------------------------------------------------------------
(* put.                                                                       *)

(* put: the new item goes to the end of the buffer, out of which a full deque     *)
(* drops the oldest; no item of an earlier put is in there.                       *)
LEMMA PutStep ==
  ASSUME QueueInv, Put
  PROVE  QueueInv'
<1> DEFINE full == Len(deque) = DequeLen
           rest == IF full THEN Tail(deque) ELSE deque
           item == offered + 1
           dropped == IF full THEN {deque[1]} ELSE {}
<1>1. /\ pc = "idle" /\ offered \in Nat /\ offered < MaxItems /\ MaxItems \in Nat /\ DequeLen \in Nat \ {0}
      /\ current = 0 /\ live = <<>> /\ ~acked
  BY Bounds DEF QueueInv, Put, Typed, CallInv
<1>2. deque \in Seq(Items) /\ Len(deque) \in Nat /\ Len(deque) <= DequeLen /\ Len(deque) <= offered
  BY <1>1 DEF QueueInv, Typed, DequeInv
<1>3. full => deque # <<>>
  BY <1>1, <1>2
<1>4. /\ rest \in Seq(Items) /\ Len(rest) \in Nat /\ Len(rest) <= Len(deque) /\ Len(rest) < DequeLen
      /\ IsInjective(rest) /\ ToSet(deque) = ToSet(rest) \cup dropped
      /\ full => Head(deque) = deque[1]
  <2>1. IsInjective(deque)
    BY DEF QueueInv, DequeInv
  <2>2. CASE full
    <3>1. /\ Tail(deque) \in Seq(Items) /\ Len(Tail(deque)) = Len(deque) - 1 /\ Head(deque) = deque[1]
          /\ ToSet(deque) = ToSet(Tail(deque)) \cup {deque[1]} /\ IsInjective(Tail(deque))
      BY <2>1, <2>2, <1>2, <1>3, TailFacts
    <3> QED BY <3>1, <2>2, <1>1, <1>2
  <2>3. CASE ~full
    BY <2>1, <2>3, <1>1, <1>2
  <2> QED BY <2>2, <2>3
<1>5. /\ offered' = item /\ byPut' = byPut \cup {item} /\ deque' = Append(rest, item) /\ pc' = "send"
      /\ lost' = lost \cup dropped
  BY <1>4 DEF Put
<1>6. UNCHANGED <<bound, linked, current, live, stale, acked, got, twice, timedOut>>
  BY DEF Put, consumer
<1> HIDE DEF rest, dropped
<1>7. item \in Items /\ item \in Nat /\ 1..item = 1..offered \cup {item} /\ item \notin 1..offered
  BY <1>1 DEF Items
<1>8. /\ ToSet(deque) \subseteq 1..offered /\ byPut \subseteq 1..offered
      /\ ToSet(stale) \subseteq 1..offered /\ ToSet(got) \subseteq 1..offered
  BY DEF QueueInv, DequeInv
<1> HIDE DEF item, full
<1>9. /\ deque' \in Seq(Items) /\ Len(deque') = Len(rest) + 1 /\ deque' # <<>>
      /\ deque'[Len(deque')] = item /\ ToSet(deque') = ToSet(rest) \cup {item} /\ IsInjective(deque)'
  <2>1. item \notin ToSet(rest)
    BY <1>4, <1>7, <1>8
  <2>2. /\ Append(rest, item) \in Seq(Items) /\ Len(Append(rest, item)) = Len(rest) + 1
        /\ Append(rest, item) # <<>> /\ Append(rest, item)[Len(rest) + 1] = item
        /\ ToSet(Append(rest, item)) = ToSet(rest) \cup {item} /\ IsInjective(Append(rest, item))
    BY <2>1, <1>4, <1>7, AppendFacts
  <2> QED BY <2>2, <1>5
<1>10. dropped \subseteq Items /\ dropped \subseteq 1..offered
  BY <1>1, <1>4, <1>8 DEF Items
<1>11. Typed'
  <2>1. offered' \in 0..MaxItems /\ byPut' \subseteq Items /\ lost' \subseteq Items
    BY <1>1, <1>5, <1>7, <1>10 DEF QueueInv, Typed, item
  <2>2. deque' \in Seq(Items) /\ Len(deque') <= DequeLen
    BY <1>1, <1>4, <1>9
  <2>3. pc' = "send" /\ live' = <<>> /\ ~acked'
    BY <1>1, <1>5, <1>6
  <2> QED BY <2>1, <2>2, <2>3, <1>6 DEF QueueInv, Typed, Items
<1>12. CallInv'
  BY <1>1, <1>5, <1>6, <1>9 DEF CallInv
<1>13. DequeInv'
  <2>1. /\ ToSet(deque') \subseteq 1..offered' /\ byPut' \subseteq 1..offered'
        /\ ToSet(stale') \subseteq 1..offered' /\ ToSet(got') \subseteq 1..offered'
    BY <1>4, <1>5, <1>6, <1>7, <1>8, <1>9
  <2>2. Len(deque') + (IF current' = 0 THEN 0 ELSE 1) <= offered'
    BY <1>1, <1>2, <1>4, <1>5, <1>6, <1>9 DEF item
  <2> QED BY <2>1, <2>2, <1>9 DEF DequeInv
<1>14. RepeatInv'
  <2>1. ToSet(stale') \subseteq timedOut'
    BY <1>6 DEF QueueInv, RepeatInv
  <2>2. ASSUME NEW x \in ToSet(deque') \cup {current'}, x \in ToSet(got')
        PROVE  x \in timedOut'
    <3>1. x # item
      BY <2>2, <1>6, <1>7, <1>8
    <3>2. x \in ToSet(deque) \cup {current}
      BY <2>2, <3>1, <1>4, <1>6, <1>9
    <3> QED BY <3>2, <2>2, <1>1, <1>6 DEF QueueInv, RepeatInv
  <2> QED BY <2>1, <2>2 DEF RepeatInv
<1>15. BarrierInv'
  <2>1. byPut \subseteq ToSet(got)
    BY <1>1 DEF QueueInv, BarrierInv
  <2>2. \A x \in byPut' \ ToSet(got') : x = item
    BY <2>1, <1>5, <1>6
  <2> QED BY <2>2, <1>5, <1>9 DEF BarrierInv
<1>16. Delivery'
  <2>1. Accounted'
    <3>1. 1..offered = ToSet(got) \cup ToSet(deque) \cup ({current} \ {0}) \cup lost
      BY DEF QueueInv, Delivery, Accounted
    <3>2. 1..offered' = ToSet(got') \cup ToSet(deque') \cup ({current'} \ {0}) \cup lost'
      BY <3>1, <1>4, <1>5, <1>6, <1>7, <1>9
    <3> QED BY <3>2 DEF Accounted
  <2>2. twice' \subseteq timedOut'
    BY <1>6 DEF QueueInv, Delivery
  <2>3. lost' # {} => offered' > DequeLen
    <3>1. CASE full
      BY <3>1, <1>1, <1>2, <1>5 DEF full, item
    <3>2. CASE ~full
      <4>1. lost' = lost
        BY <3>2, <1>5 DEF dropped
      <4> QED BY <4>1, <1>1, <1>5 DEF QueueInv, Delivery, item
    <3> QED BY <3>1, <3>2
  <2>4. Ordered'
    <3>1. \A i \in DOMAIN got : got[i] # item
      BY <1>7, <1>8 DEF ToSet
    <3>2. Ordered
      BY DEF QueueInv, Delivery
    <3> QED BY <3>1, <3>2, <1>5, <1>6 DEF Ordered
  <2> QED BY <2>1, <2>2, <2>3, <2>4, <1>5 DEF Delivery
<1> QED BY <1>11, <1>12, <1>13, <1>14, <1>15, <1>16 DEF QueueInv

(* put: the send of _put_from_deque.  The request is the first item buffered. *)
LEMMA PutSendStep ==
  ASSUME QueueInv, PutSend
  PROVE  QueueInv'
<1>1. pc = "send" /\ ~acked /\ current = 0 /\ deque # <<>> /\ deque \in Seq(Items)
  BY DEF QueueInv, PutSend, Typed, CallInv
<1>2. Head(deque) = deque[1] /\ Head(deque) \in Items
  BY <1>1, TailFacts
<1>3. /\ live' = IF linked THEN <<deque[1]>> ELSE <<>>
      /\ acked' = FALSE /\ pc' = "poll"
  BY <1>2 DEF PutSend, SendOn
<1>4. UNCHANGED <<bound, linked, deque, current, stale, offered, byPut, got, twice, timedOut, lost>>
  BY DEF PutSend, caller, consumer
<1>5. Typed'
  <2>1. live' \in Seq(Items)
    BY <1>2, <1>3
  <2> QED BY <2>1, <1>3, <1>4 DEF QueueInv, Typed, Items
<1>6. CallInv'
  <2>1. Request' = deque[1]
    BY <1>3, <1>4 DEF Request
  <2> QED BY <2>1, <1>1, <1>3, <1>4 DEF CallInv
<1>7. DequeInv'
  BY <1>4 DEF QueueInv, DequeInv
<1>8. RepeatInv'
  BY <1>1, <1>4 DEF QueueInv, RepeatInv
<1>9. BarrierInv'
  BY <1>3, <1>4 DEF QueueInv, BarrierInv
<1>10. Delivery'
  <2>1. Accounted' /\ Ordered'
    BY <1>4 DEF QueueInv, Delivery, Accounted, Ordered
  <2> QED BY <2>1, <1>3, <1>4 DEF QueueInv, Delivery
<1> QED BY <1>5, <1>6, <1>7, <1>8, <1>9, <1>10 DEF QueueInv

(* put: popleft of an item the consumer has; when that was the last one, put      *)
(* returns, and the item it was called with has arrived.                          *)
LEMMA PutAckStep ==
  ASSUME QueueInv, PutAck
  PROVE  QueueInv'
<1>1. /\ pc = "poll" /\ acked /\ current = 0 /\ deque # <<>> /\ deque \in Seq(Items)
      /\ live = <<>> /\ deque[1] \in ToSet(got)
  BY DEF QueueInv, PutAck, Typed, CallInv, Request
<1>2. /\ deque' = Tail(deque) /\ acked' = FALSE /\ pc' = IF deque' = <<>> THEN "idle" ELSE "send"
      /\ UNCHANGED <<bound, linked, current, live, stale, offered, byPut, got, twice, timedOut, lost>>
  BY DEF PutAck, caller, consumer
<1>3. IsInjective(deque) /\ Len(deque) \in Nat /\ DequeLen \in Nat
  BY <1>1, Bounds DEF QueueInv, DequeInv
<1>4. /\ deque' \in Seq(Items) /\ Len(deque') = Len(deque) - 1
      /\ ToSet(deque) = ToSet(deque') \cup {deque[1]}
      /\ IsInjective(deque)' /\ deque[1] \notin ToSet(deque')
      /\ deque[Len(deque)] = IF deque' = <<>> THEN deque[1] ELSE deque'[Len(deque')]
  <2>1. /\ Tail(deque) \in Seq(Items) /\ Len(Tail(deque)) = Len(deque) - 1
        /\ ToSet(deque) = ToSet(Tail(deque)) \cup {deque[1]}
        /\ IsInjective(Tail(deque)) /\ deque[1] \notin ToSet(Tail(deque))
        /\ deque[Len(deque)] = IF Tail(deque) = <<>> THEN deque[1] ELSE Tail(deque)[Len(Tail(deque))]
    BY <1>1, <1>3, TailFacts
  <2> QED BY <2>1, <1>2
<1>5. Typed'
  <2>1. Len(deque') <= DequeLen
    BY <1>3, <1>4 DEF QueueInv, Typed
  <2> QED BY <2>1, <1>1, <1>2, <1>4 DEF QueueInv, Typed, Items
<1>6. CallInv'
  BY <1>1, <1>2 DEF CallInv
<1>7. DequeInv'
  <2>1. Len(deque') + (IF current' = 0 THEN 0 ELSE 1) <= offered'
    BY <1>1, <1>2, <1>3, <1>4 DEF QueueInv, DequeInv, Typed
  <2> QED BY <2>1, <1>2, <1>4 DEF QueueInv, DequeInv
<1>8. RepeatInv'
  <2>1. ToSet(stale') \subseteq timedOut'
    BY <1>2 DEF QueueInv, RepeatInv
  <2>2. ASSUME NEW x \in ToSet(deque') \cup {current'}, x \in ToSet(got')
        PROVE  x \in timedOut'
    <3>1. x # 0
      BY <2>2, <1>2 DEF QueueInv, DequeInv
    <3>2. x \in ToSet(deque) /\ x # deque[1]
      BY <2>2, <3>1, <1>1, <1>2, <1>4
    <3> QED BY <3>2, <2>2, <1>1, <1>2 DEF QueueInv, RepeatInv, Request
  <2> QED BY <2>1, <2>2 DEF RepeatInv
<1>9. BarrierInv'
  <2>1. ASSUME NEW x \in byPut' \ ToSet(got')
        PROVE  pc' = "send" /\ x = offered' /\ x = deque'[Len(deque')]
    <3>1. x = offered /\ x = deque[Len(deque)]
      BY <1>2 DEF QueueInv, BarrierInv
    <3>2. deque' # <<>>
      BY <3>1, <1>1, <1>2, <1>4
    <3> QED BY <3>1, <3>2, <1>2, <1>4
  <2> QED BY <2>1 DEF BarrierInv
<1>10. Delivery'
  <2>1. Accounted'
    BY <1>1, <1>2, <1>4 DEF QueueInv, Delivery, Accounted
  <2>2. Ordered'
    BY <1>2 DEF QueueInv, Delivery, Ordered
  <2> QED BY <2>1, <2>2, <1>2 DEF QueueInv, Delivery
<1> QED BY <1>5, <1>6, <1>7, <1>8, <1>9, <1>10 DEF QueueInv

(* put: the poll gave up; whatever copy is left of the request has timed out. *)
LEMMA PutTimeoutStep ==
  ASSUME QueueInv, PutTimeout
  PROVE  QueueInv'
<1>1. pc = "poll" /\ current = 0 /\ deque # <<>> /\ deque \in Seq(Items)
  BY DEF QueueInv, PutTimeout, Typed, CallInv
<1>2. Request = deque[1] /\ Head(deque) = deque[1] /\ deque[1] \in Items /\ deque[1] \in ToSet(deque)
  <2>1. Head(deque) = deque[1] /\ Head(deque) \in Items /\ ToSet(deque) = ToSet(Tail(deque)) \cup {deque[1]}
    BY <1>1, TailFacts
  <2> QED BY <2>1, <1>1 DEF Request
<1>3. /\ linked' \in BOOLEAN /\ live' = <<>> /\ acked' = FALSE
      /\ stale' \in Seq(Items) /\ ToSet(stale') \subseteq ToSet(stale) \cup {deque[1]}
  <2>1. Request \in Items /\ Reset /\ Typed /\ CallInv
    BY <1>2 DEF PutTimeout, QueueInv
  <2> QED BY <2>1, <1>2, ResetFacts
<1>4. /\ pc' = "send" /\ timedOut' = timedOut \cup {deque[1]}
      /\ UNCHANGED <<bound, deque, current, offered, byPut, got, twice, lost>>
  BY <1>2 DEF PutTimeout, caller, consumer
<1>5. Typed'
  <2>1. timedOut' \subseteq Items
    BY <1>2, <1>4 DEF QueueInv, Typed
  <2>2. pc' = "send" /\ live' = <<>> /\ ~acked' /\ acked' \in BOOLEAN
    BY <1>3, <1>4, Zenon
  <2>4. live' \in Seq(Items)
    BY <2>2
  <2> QED BY <2>1, <2>2, <2>4, <1>3, <1>4 DEF QueueInv, Typed, Items
<1>6. CallInv'
  BY <1>1, <1>3, <1>4 DEF CallInv
<1>7. DequeInv'
  <2>1. ToSet(stale') \subseteq 1..offered'
    BY <1>2, <1>3, <1>4 DEF QueueInv, DequeInv
  <2> QED BY <2>1, <1>4 DEF QueueInv, DequeInv
<1>8. RepeatInv'
  <2>1. ToSet(stale') \subseteq timedOut'
    BY <1>3, <1>4 DEF QueueInv, RepeatInv
  <2>2. \A x \in ToSet(deque') \cup {current'} : x \in ToSet(got') => x \in timedOut'
    BY <1>2, <1>4 DEF QueueInv, RepeatInv
  <2> QED BY <2>1, <2>2 DEF RepeatInv
<1>9. BarrierInv'
  BY <1>4 DEF QueueInv, BarrierInv
<1>10. Delivery'
  <2>1. Accounted' /\ Ordered'
    BY <1>4 DEF QueueInv, Delivery, Accounted, Ordered
  <2> QED BY <2>1, <1>4 DEF QueueInv, Delivery
<1> QED BY <1>5, <1>6, <1>7, <1>8, <1>9, <1>10 DEF QueueInv
-----------------------------------------------------------------------------
(* put_nowait.                                                                *)

(* put_nowait: the new item is in no buffer and in no request but this one. *)
LEMMA PutNowaitStep ==
  ASSUME QueueInv, PutNowait
  PROVE  QueueInv'
<1> DEFINE item == offered + 1
<1>1. /\ pc = "idle" /\ offered \in Nat /\ offered < MaxItems /\ MaxItems \in Nat /\ DequeLen \in Nat
      /\ current = 0 /\ ~acked /\ deque \in Seq(Items)
  BY Bounds DEF QueueInv, PutNowait, Typed, CallInv
<1>2. /\ offered' = item /\ current' = item /\ pc' = "nowait" /\ acked' = FALSE
      /\ live' = IF linked THEN <<item>> ELSE <<>>
  BY DEF PutNowait, SendOn
<1>3. UNCHANGED <<bound, linked, deque, stale, byPut, got, twice, timedOut, lost>>
  BY DEF PutNowait, consumer
<1>4. item \in Items /\ item \in Nat \ {0} /\ 1..item = 1..offered \cup {item} /\ item \notin 1..offered
  BY <1>1 DEF Items
<1>5. /\ ToSet(deque) \subseteq 1..offered /\ byPut \subseteq 1..offered
      /\ ToSet(stale) \subseteq 1..offered /\ ToSet(got) \subseteq 1..offered
  BY DEF QueueInv, DequeInv
<1>6. Typed'
  <2>1. offered' \in 0..MaxItems /\ current' \in 0..MaxItems
    BY <1>1, <1>2
  <2>2. live' \in Seq(Items)
    BY <1>2, <1>4
  <2> QED BY <2>1, <2>2, <1>2, <1>3 DEF QueueInv, Typed, Items
<1>7. CallInv'
  <2>1. Request' = item
    BY <1>2 DEF Request
  <2>2. item \notin byPut' \cup ToSet(deque')
    BY <1>3, <1>4, <1>5
  <2> QED BY <2>1, <2>2, <1>2, <1>4 DEF CallInv
<1>8. DequeInv'
  <2>1. Len(deque) \in Nat /\ Len(deque) <= offered
    BY <1>1 DEF QueueInv, DequeInv
  <2>2. Len(deque') + (IF current' = 0 THEN 0 ELSE 1) <= offered'
    BY <2>1, <1>1, <1>2, <1>3
  <2>3. IsInjective(deque)'
    BY <1>3 DEF QueueInv, DequeInv
  <2> QED BY <2>2, <2>3, <1>2, <1>3, <1>4, <1>5 DEF DequeInv
<1>9. RepeatInv'
  <2>1. ToSet(stale') \subseteq timedOut'
    BY <1>3 DEF QueueInv, RepeatInv
  <2>2. ASSUME NEW x \in ToSet(deque') \cup {current'}, x \in ToSet(got')
        PROVE  x \in timedOut'
    <3>1. x \in ToSet(deque)
      BY <2>2, <1>2, <1>3, <1>4, <1>5
    <3> QED BY <3>1, <2>2, <1>1, <1>3 DEF QueueInv, RepeatInv
  <2> QED BY <2>1, <2>2 DEF RepeatInv
<1>10. BarrierInv'
  BY <1>1, <1>3 DEF QueueInv, BarrierInv
<1>11. Delivery'
  <2>1. Accounted'
    <3>1. 1..offered = ToSet(got) \cup ToSet(deque) \cup ({current} \ {0}) \cup lost
      BY DEF QueueInv, Delivery, Accounted
    <3>2. 1..offered' = ToSet(got') \cup ToSet(deque') \cup ({current'} \ {0}) \cup lost'
      BY <3>1, <1>1, <1>2, <1>3, <1>4
    <3> QED BY <3>2 DEF Accounted
  <2>2. Ordered'
    BY <1>3 DEF QueueInv, Delivery, Ordered
  <2>3. lost' # {} => offered' > DequeLen
    BY <1>1, <1>2, <1>3 DEF QueueInv, Delivery
  <2> QED BY <2>1, <2>2, <2>3, <1>2, <1>3 DEF QueueInv, Delivery
<1> QED BY <1>6, <1>7, <1>8, <1>9, <1>10, <1>11 DEF QueueInv

(* put_nowait: the answer came, so the consumer has the item. *)
LEMMA PutNowaitAckStep ==
  ASSUME QueueInv, PutNowaitAck
  PROVE  QueueInv'
<1>1. /\ pc = "nowait" /\ acked /\ live = <<>> /\ current \in ToSet(got)
      /\ current = offered /\ current # 0 /\ offered \notin byPut /\ offered \in Nat
  BY Bounds DEF QueueInv, PutNowaitAck, Typed, CallInv, Request
<1>2. /\ acked' = FALSE /\ current' = 0 /\ pc' = "idle"
      /\ UNCHANGED <<bound, linked, deque, live, stale, offered, byPut, got, twice, timedOut, lost>>
  BY DEF PutNowaitAck, caller, consumer
<1>3. Typed'
  <2>1. current' \in 0..MaxItems
    BY <1>2, Bounds
  <2> QED BY <2>1, <1>1, <1>2 DEF QueueInv, Typed, Items
<1>4. CallInv'
  BY <1>1, <1>2 DEF CallInv
<1>5. DequeInv'
  <2>1. Len(deque) \in Nat /\ Len(deque) + 1 <= offered
    BY <1>1 DEF QueueInv, DequeInv, Typed
  <2>2. Len(deque') + (IF current' = 0 THEN 0 ELSE 1) <= offered'
    BY <2>1, <1>1, <1>2
  <2> QED BY <2>2, <1>2 DEF QueueInv, DequeInv
<1>6. RepeatInv'
  <2>1. ToSet(stale') \subseteq timedOut'
    BY <1>2 DEF QueueInv, RepeatInv
  <2>2. ASSUME NEW x \in ToSet(deque') \cup {current'}, x \in ToSet(got')
        PROVE  x \in timedOut'
    <3>1. x # 0 /\ current \notin ToSet(deque)
      BY <2>2, <1>1, <1>2 DEF QueueInv, DequeInv, CallInv
    <3>2. x \in ToSet(deque) /\ x # current
      BY <2>2, <3>1, <1>2
    <3> QED BY <3>2, <2>2, <1>1, <1>2 DEF QueueInv, RepeatInv, Request
  <2> QED BY <2>1, <2>2 DEF RepeatInv
<1>7. BarrierInv'
  BY <1>1, <1>2 DEF QueueInv, BarrierInv
<1>8. Delivery'
  <2>1. Accounted'
    BY <1>1, <1>2 DEF QueueInv, Delivery, Accounted
  <2>2. Ordered'
    BY <1>2 DEF QueueInv, Delivery, Ordered
  <2> QED BY <2>1, <2>2, <1>1, <1>2 DEF QueueInv, Delivery
<1> QED BY <1>3, <1>4, <1>5, <1>6, <1>7, <1>8 DEF QueueInv

(* put_nowait: the item goes to the front of the buffer, out of which a full     *)
(* deque drops the newest.                                                       *)
LEMMA PutNowaitFullStep ==
  ASSUME QueueInv, PutNowaitFull
  PROVE  QueueInv'
<1> DEFINE full == Len(deque) = DequeLen
           rest == IF full THEN Front(deque) ELSE deque
           dropped == IF full THEN {Last(deque)} ELSE {}
<1>1. /\ pc = "nowait" /\ current = offered /\ current # 0 /\ current \in Items
      /\ current \notin byPut /\ current \notin ToSet(deque)
      /\ offered \in Nat /\ DequeLen \in Nat \ {0} /\ Request = current
  BY Bounds DEF QueueInv, PutNowaitFull, Typed, CallInv, Request, Items
<1>2. deque \in Seq(Items) /\ Len(deque) \in Nat /\ Len(deque) <= DequeLen /\ Len(deque) + 1 <= offered
  BY <1>1 DEF QueueInv, Typed, DequeInv
<1>3. full => deque # <<>>
  BY <1>1, <1>2
<1>4. /\ rest \in Seq(Items) /\ Len(rest) \in Nat /\ Len(rest) <= Len(deque) /\ Len(rest) < DequeLen
      /\ IsInjective(rest) /\ ToSet(deque) = ToSet(rest) \cup dropped /\ dropped \subseteq Items
  <2>1. IsInjective(deque)
    BY DEF QueueInv, DequeInv
  <2>2. CASE full
    <3>1. /\ Front(deque) \in Seq(Items) /\ Len(Front(deque)) = Len(deque) - 1 /\ Last(deque) \in Items
          /\ ToSet(deque) = ToSet(Front(deque)) \cup {Last(deque)} /\ IsInjective(Front(deque))
      BY <2>1, <2>2, <1>2, <1>3, FrontFacts
    <3> QED BY <3>1, <2>2, <1>1, <1>2
  <2>3. CASE ~full
    BY <2>1, <2>3, <1>1, <1>2
  <2> QED BY <2>2, <2>3
<1>5. deque' = <<current>> \o rest /\ lost' = lost \cup dropped
  BY DEF PutNowaitFull
<1>6. /\ current' = 0 /\ pc' = "idle" /\ timedOut' = timedOut \cup {current}
      /\ UNCHANGED <<bound, offered, byPut, got, twice>>
  BY DEF PutNowaitFull, caller, consumer
<1>7. /\ linked' \in BOOLEAN /\ live' = <<>> /\ acked' = FALSE
      /\ stale' \in Seq(Items) /\ ToSet(stale') \subseteq ToSet(stale) \cup {current}
  <2>1. Request \in Items /\ Reset /\ Typed /\ CallInv
    BY <1>1 DEF PutNowaitFull, QueueInv
  <2> QED BY <2>1, <1>1, ResetFacts
<1> HIDE DEF rest, dropped
<1>8. /\ deque' \in Seq(Items) /\ Len(deque') = Len(rest) + 1
      /\ ToSet(deque') = {current} \cup ToSet(rest) /\ IsInjective(deque)'
  <2>1. current \notin ToSet(rest)
    BY <1>1, <1>4
  <2>2. /\ <<current>> \o rest \in Seq(Items) /\ Len(<<current>> \o rest) = Len(rest) + 1
        /\ ToSet(<<current>> \o rest) = {current} \cup ToSet(rest) /\ IsInjective(<<current>> \o rest)
    BY <2>1, <1>1, <1>4, ConsFacts
  <2> QED BY <2>2, <1>5
<1>9. current \in 1..offered
  BY <1>1
<1> HIDE DEF full
<1>10. Typed'
  <2>1. timedOut' \subseteq Items /\ lost' \subseteq Items
    BY <1>1, <1>4, <1>5, <1>6 DEF QueueInv, Typed
  <2>2. deque' \in Seq(Items) /\ Len(deque') <= DequeLen /\ current' \in 0..MaxItems
    BY <1>1, <1>4, <1>6, <1>8, Bounds
  <2>3. pc' = "idle" /\ live' = <<>> /\ ~acked' /\ acked' \in BOOLEAN
    BY <1>6, <1>7, Zenon
  <2>4. live' \in Seq(Items)
    BY <2>3
  <2> QED BY <2>1, <2>2, <2>3, <2>4, <1>6, <1>7 DEF QueueInv, Typed, Items
<1>11. CallInv'
  BY <1>6, <1>7 DEF CallInv
<1>12. DequeInv'
  <2>1. /\ ToSet(deque) \subseteq 1..offered /\ byPut \subseteq 1..offered
        /\ ToSet(stale) \subseteq 1..offered /\ ToSet(got) \subseteq 1..offered
    BY DEF QueueInv, DequeInv
  <2>2. /\ ToSet(deque') \subseteq 1..offered' /\ byPut' \subseteq 1..offered'
        /\ ToSet(stale') \subseteq 1..offered' /\ ToSet(got') \subseteq 1..offered'
    BY <2>1, <1>4, <1>6, <1>7, <1>8, <1>9
  <2>3. Len(deque') + (IF current' = 0 THEN 0 ELSE 1) <= offered'
    BY <1>1, <1>2, <1>4, <1>6, <1>8
  <2> QED BY <2>2, <2>3, <1>8 DEF DequeInv
<1>13. RepeatInv'
  <2>1. ToSet(stale') \subseteq timedOut'
    BY <1>6, <1>7 DEF QueueInv, RepeatInv
  <2>2. ASSUME NEW x \in ToSet(deque') \cup {current'}, x \in ToSet(got')
        PROVE  x \in timedOut'
    <3>1. x # 0
      BY <2>2, <1>6 DEF QueueInv, DequeInv
    <3>2. x = current \/ x \in ToSet(deque)
      BY <2>2, <3>1, <1>4, <1>6, <1>8
    <3> QED BY <3>2, <2>2, <1>1, <1>6 DEF QueueInv, RepeatInv
  <2> QED BY <2>1, <2>2 DEF RepeatInv
<1>14. BarrierInv'
  BY <1>1, <1>6 DEF QueueInv, BarrierInv
<1>15. Delivery'
  <2>1. Accounted'
    <3>1. 1..offered = ToSet(got) \cup ToSet(deque) \cup ({current} \ {0}) \cup lost
      BY DEF QueueInv, Delivery, Accounted
    <3>2. 1..offered' = ToSet(got') \cup ToSet(deque') \cup ({current'} \ {0}) \cup lost'
      BY <3>1, <1>1, <1>4, <1>5, <1>6, <1>8
    <3> QED BY <3>2 DEF Accounted
  <2>2. Ordered'
    BY <1>6 DEF QueueInv, Delivery, Ordered
  <2>3. lost' # {} => offered' > DequeLen
    <3>1. CASE full
      BY <3>1, <1>1, <1>2, <1>6 DEF full
    <3>2. CASE ~full
      <4>1. lost' = lost
        BY <3>2, <1>5 DEF dropped
      <4> QED BY <4>1, <1>6 DEF QueueInv, Delivery
    <3> QED BY <3>1, <3>2
  <2>4. twice' \subseteq timedOut'
    BY <1>6 DEF QueueInv, Delivery
  <2> QED BY <2>1, <2>2, <2>3, <2>4, <1>1, <1>6 DEF Delivery
<1> QED BY <1>10, <1>11, <1>12, <1>13, <1>14, <1>15 DEF QueueInv

-----------------------------------------------------------------------------
(* The consumer.                                                              *)

(* A delivery keeps what does not depend on the request that is answered. *)
LEMMA DeliverKeeps ==
  ASSUME QueueInv, NEW item \in 1..offered, Returned(item),
         item \in ToSet(got) => item \in timedOut,
         UNCHANGED <<pc, deque, current, offered, byPut, timedOut, lost>>
  PROVE  /\ got' \in Seq(Items) /\ twice' \subseteq Items /\ ToSet(got') = ToSet(got) \cup {item}
         /\ ToSet(got') \subseteq 1..offered'
         /\ BarrierInv' /\ Delivery'
<1>1. /\ got' \in Seq(Items) /\ ToSet(got') = ToSet(got) \cup {item}
      /\ twice' \subseteq twice \cup ({item} \cap ToSet(got))
      /\ Ordered'
  BY DeliverFacts DEF caller
<1>2. twice' \subseteq timedOut'
  BY <1>1 DEF QueueInv, Delivery
<1>3. twice' \subseteq Items
  BY <1>2 DEF QueueInv, Typed
<1>4. ToSet(got') \subseteq 1..offered'
  BY <1>1 DEF QueueInv, DequeInv
<1>5. BarrierInv'
  BY <1>1 DEF QueueInv, BarrierInv
<1>6. Accounted'
  BY <1>1 DEF QueueInv, Delivery, Accounted
<1>7. Delivery'
  BY <1>1, <1>2, <1>6 DEF QueueInv, Delivery
<1> QED BY <1>1, <1>3, <1>4, <1>5, <1>7

(* The consumer reads the live request, which only the running call has sent. *)
LEMMA GetLiveStep ==
  ASSUME QueueInv, GetLive
  PROVE  QueueInv'
<1>1. live # <<>> /\ ~acked /\ live = <<Request>> /\ pc \in {"poll", "nowait"}
  BY DEF QueueInv, GetLive, CallInv, Typed
<1>2. Returned(Request) /\ live' = <<>> /\ acked' = TRUE
  BY <1>1 DEF GetLive
<1>3. UNCHANGED <<bound, linked, pc, deque, current, stale, offered, byPut, timedOut, lost>>
  BY DEF GetLive, caller
<1>4. Request \in ToSet(deque) \cup {current} /\ Request \in 1..offered
  <2>1. CASE pc = "nowait"
    <3>1. Request = current /\ current = offered /\ current # 0 /\ offered \in Nat
      BY <2>1, Bounds DEF QueueInv, CallInv, Request, Typed
    <3> QED BY <3>1
  <2>2. CASE pc = "poll"
    <3>1. Request = deque[1] /\ deque # <<>> /\ deque \in Seq(Items)
      BY <2>2 DEF QueueInv, CallInv, Request, Typed
    <3>2. deque[1] \in ToSet(deque)
      BY <3>1, TailFacts
    <3> QED BY <3>1, <3>2 DEF QueueInv, DequeInv
  <2> QED BY <2>1, <2>2, <1>1
<1>5. Request \in ToSet(got) => Request \in timedOut
  BY <1>1, <1>4 DEF QueueInv, RepeatInv
<1>6. /\ got' \in Seq(Items) /\ twice' \subseteq Items /\ ToSet(got') = ToSet(got) \cup {Request}
      /\ ToSet(got') \subseteq 1..offered'
      /\ BarrierInv' /\ Delivery'
  BY <1>2, <1>3, <1>4, <1>5, DeliverKeeps
<1>7. Request' = Request
  BY <1>3 DEF Request
<1>8. Typed'
  <2>1. live' \in Seq(Items) /\ acked' \in BOOLEAN /\ pc' \notin {"idle", "send"}
    BY <1>1, <1>2, <1>3
  <2> QED BY <2>1, <1>3, <1>6 DEF QueueInv, Typed, Items
<1>9. CallInv'
  BY <1>2, <1>3, <1>6, <1>7 DEF QueueInv, CallInv
<1>10. DequeInv'
  BY <1>3, <1>6 DEF QueueInv, DequeInv
<1>11. RepeatInv'
  <2>1. ToSet(stale') \subseteq timedOut'
    BY <1>3 DEF QueueInv, RepeatInv
  <2>2. ASSUME NEW x \in ToSet(deque') \cup {current'}, x \in ToSet(got')
        PROVE  x \in timedOut' \/ (acked' /\ x = Request')
    <3>1. x = Request \/ x \in ToSet(got)
      BY <2>2, <1>6
    <3>2. x \in ToSet(got) => x \in timedOut
      BY <2>2, <1>1, <1>3 DEF QueueInv, RepeatInv
    <3> QED BY <3>1, <3>2, <1>2, <1>3, <1>7
  <2> QED BY <2>1, <2>2 DEF RepeatInv
<1> QED BY <1>6, <1>8, <1>9, <1>10, <1>11 DEF QueueInv

(* The consumer reads a request of a closed socket: a call gave up on it. *)
LEMMA GetStaleStep ==
  ASSUME QueueInv, GetStale
  PROVE  QueueInv'
<1> DEFINE item == stale[1]
<1>1. stale # <<>> /\ stale \in Seq(Items)
  BY DEF QueueInv, GetStale, Typed
<1>2. Head(stale) = item /\ Tail(stale) \in Seq(Items) /\ ToSet(stale) = ToSet(Tail(stale)) \cup {item}
  BY <1>1, TailFacts
<1>3. Returned(item) /\ stale' = Tail(stale)
  BY <1>2 DEF GetStale
<1>4. UNCHANGED <<bound, linked, pc, deque, current, live, acked, offered, byPut, timedOut, lost>>
  BY DEF GetStale, caller
<1> HIDE DEF item
<1>5. item \in timedOut /\ item \in 1..offered
  BY <1>2 DEF QueueInv, RepeatInv, DequeInv
<1>6. /\ got' \in Seq(Items) /\ twice' \subseteq Items /\ ToSet(got') = ToSet(got) \cup {item}
      /\ ToSet(got') \subseteq 1..offered'
      /\ BarrierInv' /\ Delivery'
  BY <1>3, <1>4, <1>5, DeliverKeeps
<1>7. Request' = Request
  BY <1>4 DEF Request
<1>8. Typed'
  <2>1. stale' \in Seq(Items)
    BY <1>2, <1>3
  <2> QED BY <2>1, <1>4, <1>6 DEF QueueInv, Typed, Items
<1>9. CallInv'
  BY <1>4, <1>6, <1>7 DEF QueueInv, CallInv
<1>10. DequeInv'
  <2>1. ToSet(stale') \subseteq 1..offered'
    BY <1>2, <1>3, <1>4 DEF QueueInv, DequeInv
  <2> QED BY <2>1, <1>4, <1>6 DEF QueueInv, DequeInv
<1>11. RepeatInv'
  <2>1. ToSet(stale') \subseteq timedOut'
    BY <1>2, <1>3, <1>4 DEF QueueInv, RepeatInv
  <2>2. ASSUME NEW x \in ToSet(deque') \cup {current'}, x \in ToSet(got')
        PROVE  x \in timedOut' \/ (acked' /\ x = Request')
    <3>1. x = item \/ x \in ToSet(got)
      BY <2>2, <1>6
    <3>2. x \in ToSet(got) => x \in timedOut \/ (acked /\ x = Request)
      BY <2>2, <1>4 DEF QueueInv, RepeatInv
    <3> QED BY <3>1, <3>2, <1>4, <1>5, <1>7
  <2> QED BY <2>1, <2>2 DEF RepeatInv
<1> QED BY <1>6, <1>8, <1>9, <1>10, <1>11 DEF QueueInv

-----------------------------------------------------------------------------
(* A producer and a consumer that have done nothing satisfy the invariant. *)
LEMMA QueueInitInv ==
  ASSUME QueueInit
  PROVE  QueueInv
<1>1. /\ deque = <<>> /\ live = <<>> /\ stale = <<>> /\ got = <<>>
      /\ offered = 0 /\ current = 0 /\ pc = "idle" /\ acked = FALSE /\ linked = TRUE /\ bound \in BOOLEAN
      /\ byPut = {} /\ twice = {} /\ timedOut = {} /\ lost = {}
  BY DEF QueueInit
<1>2. ToSet(<<>>) = {} /\ IsInjective(<<>>) /\ 1..0 = {} /\ Len(<<>>) = 0 /\ <<>> \in Seq(Items)
  BY DEF ToSet, IsInjective
<1>3. Typed
  <2>1. offered \in 0..MaxItems /\ current \in 0..MaxItems /\ Len(deque) <= DequeLen
    BY <1>1, <1>2, Bounds
  <2> QED BY <2>1, <1>1, <1>2 DEF Typed
<1>4. CallInv
  BY <1>1 DEF CallInv
<1>5. DequeInv
  <2>1. Len(deque) + (IF current = 0 THEN 0 ELSE 1) <= offered
    BY <1>1, <1>2
  <2> QED BY <2>1, <1>1, <1>2 DEF DequeInv
<1>6. RepeatInv /\ BarrierInv
  BY <1>1, <1>2 DEF RepeatInv, BarrierInv
<1>7. Delivery
  <2>1. Accounted
    BY <1>1, <1>2 DEF Accounted
  <2>2. Ordered
    BY <1>1 DEF Ordered
  <2> QED BY <2>1, <2>2, <1>1 DEF Delivery
<1> QED BY <1>3, <1>4, <1>5, <1>6, <1>7 DEF QueueInv

(* Every step of the two sockets keeps the invariant. *)
LEMMA QueueInductive ==
  ASSUME QueueInv, [QueueNext]_queueVars
  PROVE  QueueInv'
<1>1. CASE UNCHANGED queueVars
  <2>1. UNCHANGED <<bound, linked, pc, deque, current, live, stale, acked, offered, byPut,
                    got, twice, timedOut, lost>>
    BY <1>1 DEF queueVars
  <2>2. Typed'
    BY <2>1 DEF QueueInv, Typed, Items
  <2>3. CallInv'
    BY <2>1 DEF QueueInv, CallInv, Request
  <2>4. DequeInv'
    BY <2>1 DEF QueueInv, DequeInv
  <2>5. RepeatInv' /\ BarrierInv'
    BY <2>1 DEF QueueInv, RepeatInv, BarrierInv, Request
  <2>6. Delivery'
    BY <2>1 DEF QueueInv, Delivery, Accounted, Ordered
  <2> QED BY <2>2, <2>3, <2>4, <2>5, <2>6 DEF QueueInv
<1>2. CASE QueueNext
  BY <1>2, PutStep, PutSendStep, PutAckStep, PutTimeoutStep, PutNowaitStep, PutNowaitAckStep,
     PutNowaitFullStep, GetLiveStep, GetStaleStep DEF QueueNext
<1> QED BY <1>1, <1>2

(* The invariant holds in every behaviour of the queue. *)
LEMMA QueueInvariance == QueueSpec => []QueueInv
BY QueueInitInv, QueueInductive, PTL DEF QueueSpec

(* ZeroQueueProducer and ZeroQueueConsumer keep their types, and a request is      *)
(* outstanding only inside put or put_nowait.                                      *)
THEOREM QueueTypes == QueueSpec => []TypeOK
BY QueueInvariance, Shown, PTL

(* ZeroQueueProducer and ZeroQueueConsumer: for any deque length and number of     *)
(* items, however often a poll times out and however many requests closed sockets  *)
(* leave behind, every offered item is delivered, buffered, being sent or fell out *)
(* of a full deque; repeats come only of timeouts; put is a barrier and keeps      *)
(* order.                                                                          *)
THEOREM DeliveredAtLeastOnce == QueueSpec => []AtLeastOnce
BY QueueInvariance, Shown, PTL
=============================================================================
