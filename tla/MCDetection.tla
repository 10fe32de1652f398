---------------------------- MODULE MCDetection ----------------------------
(* Two families of calls: every small geometry, with nothing detected; and     *)
(* one geometry of five crops with every way to place up to four detections.   *)
EXTENDS Detection

MCGeometries ==
  [imgsz : {<<2, 2>>, <<3, 2>>, <<3, 3>>, <<4, 3>>},
   crop : {<<2, 2>>, <<3, 3>>, <<5, 5>>},
   overlap : {-1, 0, 1, 2, 4} \X {0, 1, 2, 3},
   im : (1..9) \X (1..9),
   batch : {-1, 2},
   dets : {{}}]

MCBoxes == {<<0, 0, 1, 1>>, <<0, 0, 2, 2>>, <<1, 0, 2, 2>>, <<1, 1, 1, 1>>}

\* The i-th detection, by rising score; two share a score.
MCPlacements(n) ==
  {{[crop |-> f[i][1], box |-> f[i][2], score |-> i \div 2] : i \in 1..n} :
     f \in [1..n -> {1, 2, 5} \X MCBoxes]}

MCDetections ==
  [imgsz : {<<2, 2>>}, crop : {<<2, 2>>}, overlap : {<<1, 1>>}, im : {<<3, 3>>},
   batch : {16}, dets : UNION {MCPlacements(n) : n \in {2, 4}}]

MCInputs == MCGeometries \cup MCDetections
=============================================================================
