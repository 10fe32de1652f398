------------------------------ MODULE MCVision ------------------------------
(* A folder of two images and a folder of one, so that a batch can hold the   *)
(* end of one folder and the beginning of the other.                          *)
EXTENDS Vision

MCNumImages == [f \in Folders |-> IF f = "a" THEN 2 ELSE 1]
MCScenarios ==
  {<<"only_one", x, Folders>> : x \in {"read", "linger", "raise", "stop", "strategy"}}
    \cup {<<"loop", "none", {"a"}>>}
=============================================================================
