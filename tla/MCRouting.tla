----------------------------- MODULE MCRouting -----------------------------
(* No node entry at all, or two of them, each drawn from a set that holds      *)
(* every kind of mistake the schema looks for: a duplicate id, an unknown type, *)
(* a type whose extra is missing, a dangling edge, incompatible payloads, too   *)
(* few replicas; or from one that holds what it lets through: replicas that are *)
(* not written as an integer, parameters and wiring keys that a node refuses,   *)
(* an id that is also a replica's, an empty id.                                 *)
EXTENDS Routing

A  == Plain("a")
A0 == Replica(A, 0)
B  == Plain("b")

MCEntries ==
  [id : {A, B},
   type : {"HashNode", "VadNode", "AsrNode", "Unknown"},
   outputs : {<<>>, <<B>>, <<A, B>>, <<B, B>>, <<Plain("x")>>},
   control_outputs : {<<>>, <<B, A>>, <<Plain("x")>>},
   replicas : 0..2,
   written : {"int"}, scalars : {TRUE}, params : {TRUE}]

MCInvalidScalars ==
  [id : {A}, type : {"HashNode"}, outputs : {<<>>}, control_outputs : {<<>>},
   replicas : {1}, written : {"int"}, scalars : {FALSE}, params : {TRUE}]

MCAccepted ==
  [id : {A, A0, Plain(""), Plain("HashNode")}, type : {"HashNode", "ProcessDetBatchInference"},
   outputs : {<<>>, <<A>>}, control_outputs : {<<>>, <<A>>},
   replicas : 1..2, written : {"int", "float", "str"}, scalars : {TRUE}, params : BOOLEAN]

MCConfigs == {<<>>} \cup [1..2 -> MCEntries \cup MCInvalidScalars] \cup [1..2 -> MCAccepted]
=============================================================================
