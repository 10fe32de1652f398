---------------------------- MODULE DatasetProofs ----------------------------
(***************************************************************************)
(* The dataset, from both ends.                                            *)
(*                                                                         *)
(* Vision, for any folders, batch sizes and order of the threads: FrameInv *)
(* says at which spot of the chain each frame that was read is, and that a *)
(* frame with a flag stays flagged on its way.                             *)
(*                                                                         *)
(* Dataset, for any frames, any requests and any number of restarts and    *)
(* crashes: HonestInv follows the frames that are called reviewed back to  *)
(* the PUT that corrected them; SerialInv says where the marks of answered *)
(* PUTs are while one PUT at a time rewrites the manifest.                 *)
(***************************************************************************)
EXTENDS Dataset, Vision, FiniteSetTheorems, SequenceTheorems, TLAPS

-----------------------------------------------------------------------------
(* Dataset: the review state.                                              *)

PutPoints == {"open", "boxes", "load", "mark", "manifest"}
Put == [at : PutPoints, frame : Frames, reviewed : SUBSET Frames]

ReviewTypes ==
  /\ manifest \in [json : BOOLEAN, reviewed : SUBSET Frames]
  /\ request \in [Requests -> {New, Done} \cup Put]
  /\ corrected \subseteq Frames

(* What a PUT carries from _load_reviewed to the manifest was corrected, and so   *)
(* was its own frame once its boxes are written.                                  *)
HonestInv ==
  /\ _load_reviewed \cup reported \cup acked \subseteq corrected
  /\ \A r \in Requests :
       /\ Saving(r) => request[r].reviewed \subseteq corrected
       /\ request[r].at \in {"load", "mark", "manifest"} => request[r].frame \in corrected

(* The marks of answered PUTs are in the manifest, except between open() and      *)
(* write() of the one PUT under way, which then carries them.                     *)
Kept ==
  /\ (\A r \in Requests : ~At(r, "manifest")) => acked \subseteq _load_reviewed
  /\ \A r \in Requests :
       /\ request[r].at \in {"mark", "manifest"} => acked \subseteq request[r].reviewed
       /\ At(r, "manifest") => ~manifest.json

OnePut == \A r, s \in Requests : Saving(r) /\ Saving(s) => r = s

SerialInv == clients = "serial" => OnePut /\ (~wiped => Kept)

ReviewInv == ReviewTypes /\ HonestInv /\ SerialInv

-----------------------------------------------------------------------------
(* A request that is saving is a PUT with its frame and the set it carries.       *)
LEMMA SavingIsPut ==
  ASSUME ReviewTypes, NEW r \in Requests, Saving(r)
  PROVE  request[r] \in Put
  BY DEF ReviewTypes, Saving, New, Done, Put, PutPoints

(* A PUT that goes on to its next point keeps its frame and its set, and leaves   *)
(* the other requests where they are.                                             *)
LEMMA GotoMoves ==
  ASSUME ReviewTypes, NEW r \in Requests, Saving(r), NEW pc \in PutPoints, Goto(r, pc)
  PROVE  /\ request' \in [Requests -> {New, Done} \cup Put]
         /\ request'[r].at = pc
         /\ request'[r].frame = request[r].frame
         /\ request'[r].reviewed = request[r].reviewed
         /\ \A s \in Requests \ {r} : request'[s] = request[s]
<1>1. request[r] \in Put
  BY SavingIsPut
<1>2. [request[r] EXCEPT !.at = pc] \in Put
  BY <1>1 DEF Put
<1>3. request' = [request EXCEPT ![r] = [request[r] EXCEPT !.at = pc]]
  BY DEF Goto
<1>4. /\ request' \in [Requests -> {New, Done} \cup Put]
      /\ request'[r] = [request[r] EXCEPT !.at = pc]
      /\ \A s \in Requests \ {r} : request'[s] = request[s]
  BY <1>2, <1>3 DEF ReviewTypes
<1> QED
  BY <1>1, <1>4 DEF Put

(* A request that ends changes no other.                                          *)
LEMMA EndMoves ==
  ASSUME ReviewTypes, NEW r \in Requests, request' = [request EXCEPT ![r] = Done]
  PROVE  /\ request' \in [Requests -> {New, Done} \cup Put]
         /\ request'[r].at = "done"
         /\ \A s \in Requests \ {r} : request'[s] = request[s]
  BY DEF ReviewTypes, Done

(* Nothing is saved, marked or answered yet.                                      *)
LEMMA ReviewStarts == ReviewInit => ReviewInv
<1> SUFFICES ASSUME ReviewInit
             PROVE  ReviewInv
  OBVIOUS
<1>1. \A r \in Requests : request[r].at = "new"
  BY DEF ReviewInit, New
<1>2. ReviewTypes
  BY DEF ReviewInit, ReviewTypes
<1>3. HonestInv
  BY <1>1 DEF ReviewInit, HonestInv, _load_reviewed, Saving
<1>4. SerialInv
  BY <1>1 DEF ReviewInit, SerialInv, OnePut, Kept, _load_reviewed, Saving, At
<1> QED
  BY <1>2, <1>3, <1>4 DEF ReviewInv

review == <<manifest, request, corrected, acked, reported, clients, wiped>>

(* The writer of the dataset, and the start and the stop of the pipeline, do not  *)
(* touch the review state.                                                        *)
LEMMA UntouchedInv ==
  ASSUME ReviewInv, UNCHANGED review
  PROVE  ReviewInv'
  BY DEF review, ReviewInv, ReviewTypes, HonestInv, SerialInv, OnePut, Kept, _load_reviewed, Saving, At

(* A request that was not a PUT ends, having reported only what the manifest      *)
(* holds.                                                                         *)
LEMMA ReadInv ==
  ASSUME ReviewInv, NEW r \in Requests, At(r, "new"),
         request' = [request EXCEPT ![r] = Done],
         UNCHANGED <<manifest, corrected, acked, clients, wiped>>,
         reported' \subseteq reported \cup _load_reviewed
  PROVE  ReviewInv'
<1>1. /\ request' \in [Requests -> {New, Done} \cup Put]
      /\ request'[r].at = "done"
      /\ \A s \in Requests \ {r} : request'[s] = request[s]
  BY EndMoves DEF ReviewInv
<1>2. ReviewTypes'
  BY <1>1 DEF ReviewInv, ReviewTypes
<1>3. _load_reviewed' = _load_reviewed
  BY DEF _load_reviewed
<1>4. HonestInv'
  BY <1>1, <1>3 DEF ReviewInv, HonestInv, Saving
<1>5. OnePut => OnePut'
  BY <1>1 DEF OnePut, Saving
<1>6. Kept => Kept'
  BY <1>1, <1>3 DEF Kept, At
<1> QED
  BY <1>2, <1>4, <1>5, <1>6 DEF ReviewInv, SerialInv

(* A PUT begins: under serial clients no other is under way.                      *)
LEMMA PutBeginInv ==
  ASSUME ReviewInv, NEW r \in Requests, NEW f \in Frames, PutBegin(r, f)
  PROVE  ReviewInv'
<1>0. UNCHANGED <<manifest, corrected, acked, reported, clients, wiped>> /\ At(r, "new")
  BY DEF PutBegin, disk, unserved
<1>1. /\ request' \in [Requests -> {New, Done} \cup Put]
      /\ request'[r] = [at |-> "open", frame |-> f, reviewed |-> {}]
      /\ \A s \in Requests \ {r} : request'[s] = request[s]
  BY DEF PutBegin, ReviewInv, ReviewTypes, Put, PutPoints
<1>2. ReviewTypes'
  BY <1>0, <1>1 DEF ReviewInv, ReviewTypes
<1>3. _load_reviewed' = _load_reviewed
  BY <1>0 DEF _load_reviewed
<1>4. HonestInv'
  BY <1>0, <1>1, <1>3 DEF ReviewInv, HonestInv, Saving
<1>5. clients = "serial" => OnePut'
  BY <1>1 DEF PutBegin, OnePut, Saving
<1>6. Kept => Kept'
  BY <1>0, <1>1, <1>3 DEF Kept, At
<1> QED
  BY <1>0, <1>2, <1>4, <1>5, <1>6 DEF ReviewInv, SerialInv

(* _write_boxes: the frame counts as corrected before it can be marked.           *)
LEMMA WriteBoxesInv ==
  ASSUME ReviewInv, NEW r \in Requests, PutOpen(r) \/ PutBoxes(r)
  PROVE  ReviewInv'
<1>0. PICK pc \in {"boxes", "load"} : Goto(r, pc) /\ (pc = "load" => PutBoxes(r))
  BY DEF PutOpen, PutBoxes
<1>1. /\ UNCHANGED <<manifest, acked, reported, clients, wiped>>
      /\ request[r].at \in {"open", "boxes"}
      /\ corrected \subseteq corrected'
      /\ corrected' \subseteq corrected \cup {request[r].frame}
      /\ pc = "load" => request[r].frame \in corrected'
  BY <1>0 DEF PutOpen, PutBoxes, unserved, At
<1>2. Saving(r) /\ pc \in PutPoints
  BY <1>1 DEF Saving, PutPoints
<1>3. /\ request' \in [Requests -> {New, Done} \cup Put]
      /\ request'[r].at = pc
      /\ request'[r].frame = request[r].frame
      /\ request'[r].reviewed = request[r].reviewed
      /\ \A s \in Requests \ {r} : request'[s] = request[s]
  BY <1>0, <1>2, GotoMoves DEF ReviewInv
<1>4. ReviewTypes'
  <2>1. request[r].frame \in Frames
    BY <1>2, SavingIsPut DEF ReviewInv, Put
  <2> QED
    BY <1>1, <1>3, <2>1 DEF ReviewInv, ReviewTypes
<1>5. _load_reviewed' = _load_reviewed
  BY <1>1 DEF _load_reviewed
<1>6. HonestInv'
  <2>1. (_load_reviewed \cup reported \cup acked \subseteq corrected)'
    BY <1>1, <1>5 DEF ReviewInv, HonestInv
  <2>2. ASSUME NEW s \in Requests
        PROVE  /\ Saving(s)' => request'[s].reviewed \subseteq corrected'
               /\ request'[s].at \in {"load", "mark", "manifest"} => request'[s].frame \in corrected'
    <3>1. CASE s = r
      BY <1>1, <1>2, <1>3, <3>1 DEF ReviewInv, HonestInv
    <3>2. CASE s # r
      BY <1>1, <1>3, <3>2 DEF ReviewInv, HonestInv, Saving
    <3> QED
      BY <3>1, <3>2
  <2> QED
    BY <2>1, <2>2 DEF HonestInv
<1>7. OnePut => OnePut'
  BY <1>2, <1>3 DEF OnePut, Saving
<1>8. Kept => Kept'
  BY <1>1, <1>3, <1>5 DEF Kept, At
<1> QED
  BY <1>1, <1>4, <1>6, <1>7, <1>8 DEF ReviewInv, SerialInv

(* _mark_reviewed loads the manifest.                                             *)
LEMMA PutLoadInv ==
  ASSUME ReviewInv, NEW r \in Requests, PutLoad(r)
  PROVE  ReviewInv'
<1>0. UNCHANGED <<manifest, corrected, acked, reported, clients, wiped>> /\ At(r, "load") /\ Saving(r)
  BY DEF PutLoad, disk, unserved, At, Saving
<1>1. request[r] \in Put
  BY <1>0, SavingIsPut DEF ReviewInv
<1> DEFINE new == [request[r] EXCEPT !.at = "mark", !.reviewed = _load_reviewed]
<1>2. _load_reviewed \subseteq Frames
  BY DEF ReviewInv, ReviewTypes, _load_reviewed
<1>3. /\ new \in Put
      /\ new.at = "mark" /\ new.reviewed = _load_reviewed /\ new.frame = request[r].frame
  BY <1>1, <1>2 DEF Put, PutPoints
<1>4. request' = [request EXCEPT ![r] = new]
  BY DEF PutLoad
<1> HIDE DEF new
<1>5. /\ request' \in [Requests -> {New, Done} \cup Put]
      /\ request'[r] = new
      /\ \A s \in Requests \ {r} : request'[s] = request[s]
  BY <1>3, <1>4 DEF ReviewInv, ReviewTypes
<1>6. ReviewTypes'
  BY <1>0, <1>5 DEF ReviewInv, ReviewTypes
<1>7. _load_reviewed' = _load_reviewed
  BY <1>0 DEF _load_reviewed
<1>8. HonestInv'
  BY <1>0, <1>3, <1>5, <1>7 DEF ReviewInv, HonestInv, Saving, At
<1>9. OnePut => OnePut'
  BY <1>0, <1>5 DEF OnePut, Saving
<1>10. OnePut /\ Kept => Kept'
  <2>1. ASSUME OnePut, Kept
        PROVE  acked \subseteq _load_reviewed
    <3>1. \A s \in Requests : ~At(s, "manifest")
      BY <1>0, <2>1 DEF OnePut, Saving, At
    <3> QED
      BY <2>1, <3>1 DEF Kept
  <2> QED
    BY <1>0, <1>3, <1>5, <1>7, <2>1 DEF Kept, At
<1> QED
  BY <1>0, <1>6, <1>8, <1>9, <1>10 DEF ReviewInv, SerialInv

(* _mark_reviewed opens the manifest, which truncates it: from here on the marks  *)
(* are only in what the PUT carries.                                              *)
LEMMA PutMarkInv ==
  ASSUME ReviewInv, NEW r \in Requests, PutMark(r)
  PROVE  ReviewInv'
<1>0. UNCHANGED <<corrected, acked, reported, clients, wiped>> /\ At(r, "mark") /\ Saving(r)
  BY DEF PutMark, unserved, At, Saving
<1>1. Goto(r, "manifest") /\ "manifest" \in PutPoints /\ manifest' = Torn
  BY DEF PutMark, PutPoints
<1>2. /\ request' \in [Requests -> {New, Done} \cup Put]
      /\ request'[r].at = "manifest"
      /\ request'[r].frame = request[r].frame
      /\ request'[r].reviewed = request[r].reviewed
      /\ \A s \in Requests \ {r} : request'[s] = request[s]
  BY <1>0, <1>1, GotoMoves DEF ReviewInv
<1>3. ReviewTypes'
  BY <1>0, <1>1, <1>2 DEF ReviewInv, ReviewTypes, Torn
<1>4. _load_reviewed' = {}
  BY <1>1 DEF _load_reviewed, Torn
<1>5. HonestInv'
  BY <1>0, <1>2, <1>4 DEF ReviewInv, HonestInv, Saving, At
<1>6. OnePut => OnePut'
  BY <1>0, <1>2 DEF OnePut, Saving
<1>7. Kept => Kept'
  BY <1>0, <1>1, <1>2 DEF Kept, At, Torn
<1> QED
  BY <1>0, <1>3, <1>5, <1>6, <1>7 DEF ReviewInv, SerialInv

(* _mark_reviewed writes the manifest: what the PUT carried, and its own frame,    *)
(* or a torn file when two PUTs overlapped.                                       *)
LEMMA PutManifestInv ==
  ASSUME ReviewInv, NEW r \in Requests, PutManifest(r)
  PROVE  ReviewInv'
<1> DEFINE new == request[r].reviewed \cup {request[r].frame}
<1>0. /\ UNCHANGED <<corrected, reported, clients, wiped>>
      /\ acked' = acked \cup {request[r].frame}
      /\ At(r, "manifest") /\ Saving(r)
  BY DEF PutManifest, unserved, At, Saving
<1>1. /\ manifest' \in {Json(new), Torn}
      /\ ~manifest.json => manifest' = Json(new)
  BY DEF PutManifest
<1>2. /\ request' \in [Requests -> {New, Done} \cup Put]
      /\ request'[r].at = "done"
      /\ \A s \in Requests \ {r} : request'[s] = request[s]
  BY EndMoves DEF ReviewInv, PutManifest
<1>3. new \subseteq Frames /\ new \subseteq corrected
  BY <1>0, SavingIsPut DEF ReviewInv, HonestInv, Put, At
<1>4. ReviewTypes'
  <2>1. Json(new) \in [json : BOOLEAN, reviewed : SUBSET Frames]
    BY <1>3 DEF Json
  <2>2. Torn \in [json : BOOLEAN, reviewed : SUBSET Frames]
    BY DEF Torn
  <2> QED
    BY <1>0, <1>1, <1>2, <2>1, <2>2 DEF ReviewInv, ReviewTypes
<1>5. _load_reviewed' \subseteq new /\ (~manifest.json => _load_reviewed' = new)
  BY <1>1 DEF _load_reviewed, Json, Torn
<1>6. HonestInv'
  <2>1. (_load_reviewed \cup reported \cup acked \subseteq corrected)'
    BY <1>0, <1>3, <1>5 DEF ReviewInv, HonestInv
  <2> QED
    BY <1>0, <1>2, <2>1 DEF ReviewInv, HonestInv, Saving
<1>7. OnePut => OnePut'
  BY <1>2 DEF OnePut, Saving
<1>8. ASSUME OnePut, Kept
      PROVE  Kept'
  <2>1. acked' \subseteq _load_reviewed'
    BY <1>0, <1>5, <1>8 DEF Kept, At
  <2>2. \A s \in Requests : request'[s].at \notin {"mark", "manifest"}
    BY <1>0, <1>2, <1>8 DEF OnePut, Saving
  <2> QED
    BY <2>1, <2>2 DEF Kept, At
<1> QED
  BY <1>0, <1>4, <1>6, <1>7, <1>8 DEF ReviewInv, SerialInv

(* The service dies: the requests are gone.  Marks are lost only if a PUT had      *)
(* truncated the manifest, which is what wiped records.                            *)
LEMMA CrashInv ==
  ASSUME ReviewInv, Crash
  PROVE  ReviewInv'
<1>0. /\ UNCHANGED <<manifest, corrected, acked, reported, clients>>
      /\ ~wiped' => ~wiped /\ \A r \in Requests : ~At(r, "manifest")
  BY DEF Crash, disk
<1>1. /\ request' \in [Requests -> {New, Done} \cup Put]
      /\ \A r \in Requests : request'[r].at \in {"new", "done"}
  BY DEF Crash, New, Done
<1>2. ReviewTypes'
  BY <1>0, <1>1 DEF ReviewInv, ReviewTypes
<1>3. _load_reviewed' = _load_reviewed
  BY <1>0 DEF _load_reviewed
<1>4. HonestInv'
  BY <1>0, <1>1, <1>3 DEF ReviewInv, HonestInv, Saving
<1>5. OnePut'
  BY <1>1 DEF OnePut, Saving
<1>6. ~wiped' /\ Kept => Kept'
  BY <1>0, <1>1, <1>3 DEF Kept, At
<1> QED
  BY <1>0, <1>2, <1>4, <1>5, <1>6 DEF ReviewInv, SerialInv

(* No action breaks the inductive invariant.                                      *)
LEMMA ReviewSteps == ReviewInv /\ [ReviewNext]_reviewVars => ReviewInv'
<1> SUFFICES ASSUME ReviewInv, [ReviewNext]_reviewVars
             PROVE  ReviewInv'
  OBVIOUS
<1>1. CASE StartPipeline \/ StopPipeline \/ CreateDataset \/ UNCHANGED reviewVars
  <2>1. UNCHANGED review
    BY <1>1 DEF StartPipeline, StopPipeline, CreateDataset, SkipDropped, SaveImage, OpenLabels,
                SaveLabels, review, disk, service, reviewVars
  <2> QED
    BY <2>1, UntouchedInv
<1>2. CASE Crash
  BY <1>2, CrashInv
<1>3. ASSUME NEW r \in Requests, Serve(r)
      PROVE  ReviewInv'
  <2>1. CASE NotFound(r)
    BY <2>1, ReadInv DEF NotFound, disk, unserved
  <2>2. CASE ListLabels(r)
    BY <2>2, ReadInv DEF ListLabels, disk, unserved
  <2>3. ASSUME NEW f \in Frames, GetLabel(r, f)
        PROVE  ReviewInv'
    BY <2>3, ReadInv DEF GetLabel, disk, unserved
  <2>4. ASSUME NEW f \in Frames, PutBegin(r, f)
        PROVE  ReviewInv'
    BY <2>4, PutBeginInv
  <2>5. CASE PutOpen(r) \/ PutBoxes(r)
    BY <2>5, WriteBoxesInv
  <2>6. CASE PutLoad(r)
    BY <2>6, PutLoadInv
  <2>7. CASE PutMark(r)
    BY <2>7, PutMarkInv
  <2>8. CASE PutManifest(r)
    BY <2>8, PutManifestInv
  <2> QED
    BY <1>3, <2>1, <2>2, <2>3, <2>4, <2>5, <2>6, <2>7, <2>8 DEF Serve
<1> QED
  BY <1>1, <1>2, <1>3 DEF ReviewNext

(* The strengthened invariant holds initially and every step keeps it.       *)
LEMMA Inductive == ReviewSpec => []ReviewInv
  BY ReviewStarts, ReviewSteps, PTL DEF ReviewSpec

-----------------------------------------------------------------------------
(* For any number of frames and requests, however they overlap and wherever the   *)
(* service dies, no manifest and no answer calls a frame reviewed whose boxes no   *)
(* PUT has written.                                                               *)
THEOREM ReviewIsHonest == ReviewSpec => []ReviewedWasCorrected
<1>1. ReviewInv => ReviewedWasCorrected
  BY DEF ReviewInv, HonestInv, ReviewedWasCorrected
<1> QED
  BY <1>1, Inductive, PTL

(* PUTs that do not overlap lose no mark, though each of them truncates the        *)
(* manifest and writes it anew, unless the service died in between.               *)
THEOREM SerialPutsKeepMarks == ReviewSpec => []SerialMarksKept
<1>1. ReviewInv => SerialMarksKept
  BY DEF ReviewInv, SerialInv, Kept, SerialMarksKept, MarksKept, Saving, At
<1> QED
  BY <1>1, Inductive, PTL

-----------------------------------------------------------------------------
(* Vision: where the frames are.                                          *)

KeySet == Folders \X FrameId
Reason == {"linger", "raise", "stop", "batch"}     \* why a frame can be lost

\* The two ends of a frame's way, beside the places where it can be.
Settled == <<"end", "settled">>
Lost    == <<"end", "lost">>
Spots   == Place \cup {Settled, Lost}

\* The frames of a queue of batches.
Queued(q) == UNION {ToSet(q[i]) : i \in DOMAIN q}

\* The frames at each place.
FramesAt ==
  [p \in Place |->
     CASE p[1] = "wire"        -> ToSet(wire[p[2]])
       [] p[1] = "inbox"       -> ToSet(inbox[p[2]])
       [] p[1] = "batch"       -> ToSet(batch[p[2]])
       [] p[1] = "batch_queue" -> Queued(batch_queue[p[2]])
       [] p[1] = "frame_cache" -> frame_cache[p[2]]
       [] p[1] = "al_cache"    -> al_cache[p[2]]]

\* The keys at each spot.
KeysAt ==
  [p \in Spots |->
     IF p = Settled THEN settled ELSE IF p = Lost THEN LostKeys ELSE Keys(FramesAt[p])]

Types ==
  /\ frame_id \in [Folders -> 0..MaxFrames]
  /\ wire \in [Folders -> Seq(Frame)]
  /\ inbox \in [Inboxes -> Seq(Frame)]
  /\ batch \in [BatchNodes -> Seq(Frame)]
  /\ batch_queue \in [BatchNodes -> Seq(Seq(Frame))]
  /\ frame_cache \in [Folders -> SUBSET Frame]
  /\ al_cache \in [Folders -> SUBSET Frame]
  /\ lost \subseteq Reason \X KeySet
  /\ mode \in {"only_one", "loop"}

\* What is kept by folder is of that folder.
Home ==
  \A f \in Folders :
    /\ \A x \in ToSet(wire[f]) : x.src = f
    /\ \A x \in frame_cache[f] : x.src = f
    /\ \A x \in al_cache[f] : x.src = f

\* No frame is twice in a queue, in a queue of batches or, with two flags, in a cache.
Once(s) == \A i, j \in DOMAIN s : Key(s[i]) = Key(s[j]) => i = j
OnceQ(q) ==
  \A i, j \in DOMAIN q : \A a \in DOMAIN q[i] : \A b \in DOMAIN q[j] :
    Key(q[i][a]) = Key(q[j][b]) => i = j /\ a = b
OnceC(C) == \A x, y \in C : Key(x) = Key(y) => x = y

OnceEach ==
  /\ \A f \in Folders : Once(wire[f]) /\ OnceC(frame_cache[f]) /\ OnceC(al_cache[f])
  /\ \A n \in Inboxes \ {"create_dataset"} : Once(inbox[n])
  /\ \A n \in BatchNodes : Once(batch[n]) /\ OnceQ(batch_queue[n])

\* The keys of the frames read are spread over the spots.
Spread(K, W) ==
  /\ \A p, q \in Spots : \A k \in K[p] : k \in K[q] => p = q
  /\ \A k : k \in W <=> \E p \in Spots : k \in K[p]

\* A frame that was flagged carries its flag wherever it is.
Flags ==
  /\ flagged \subseteq WasRead
  /\ \A p \in Place : \A x \in FramesAt[p] : Key(x) \in flagged => x.drop

\* What goes to the dataset is through active learning and was never flagged.
Written ==
  /\ \A x \in ToSet(inbox["create_dataset"]) : Key(x) \in settled /\ Key(x) \notin flagged
  /\ saved \subseteq settled
  /\ saved \cap flagged = {}

\* Why frames were lost.
Losses ==
  /\ \A l, m \in lost : l[2] = m[2] => l = m
  /\ \A l \in lost : l[1] = "batch" =>
       mode = "loop" \/ \E f, g \in Folders : f # g /\ frame_id[f] > 0 /\ frame_id[g] > 0

\* A folder that is read once is not read further than its last file.
OneRound == mode = "only_one" => \A f \in Folders : frame_id[f] <= NumImages[f]

FrameInv == Types /\ Home /\ OnceEach /\ Spread(KeysAt, WasRead) /\ Flags /\ Written /\ Losses /\ OneRound

-----------------------------------------------------------------------------
\* The keys of a union.
LEMMA KeysUnion ==
  ASSUME NEW A, NEW B
  PROVE  Keys(A \cup B) = Keys(A) \cup Keys(B)
BY DEF Keys

\* The key of a frame.
LEMMA FrameKey ==
  ASSUME NEW x \in Frame
  PROVE  /\ Key(x) \in KeySet /\ Key(x)[1] = x.src /\ Key(x)[2] = x.id
         /\ \A b \in BOOLEAN : [x EXCEPT !.drop = b] \in Frame /\ Key([x EXCEPT !.drop = b]) = Key(x)
                               /\ [x EXCEPT !.drop = b].drop = b /\ [x EXCEPT !.drop = b].src = x.src
BY DEF Frame, KeySet, Key

\* Putting a frame at the end of a queue.
LEMMA AppendIs ==
  ASSUME NEW S, NEW s \in Seq(S), NEW x \in S
  PROVE  /\ Append(s, x) \in Seq(S)
         /\ ToSet(Append(s, x)) = ToSet(s) \cup {x}
<1>1. /\ Len(Append(s, x)) = Len(s) + 1 /\ DOMAIN Append(s, x) = 1..(Len(s) + 1) /\ DOMAIN s = 1..Len(s)
      /\ Len(s) \in Nat /\ Append(s, x)[Len(s) + 1] = x
      /\ \A i \in 1..Len(s) : Append(s, x)[i] = s[i]
  OBVIOUS
<1>2. \A i \in 1..(Len(s) + 1) : i \in 1..Len(s) \/ i = Len(s) + 1
  BY <1>1
<1> QED
  BY <1>1, <1>2 DEF ToSet

\* A frame that is put there stays alone if its key was not in the queue.
LEMMA AppendOnce ==
  ASSUME NEW s \in Seq(Frame), NEW x \in Frame, Once(s), Key(x) \notin Keys(ToSet(s))
  PROVE  Once(Append(s, x))
<1>1. /\ DOMAIN Append(s, x) = 1..(Len(s) + 1) /\ DOMAIN s = 1..Len(s)
      /\ Len(s) \in Nat /\ Append(s, x)[Len(s) + 1] = x
      /\ \A i \in 1..Len(s) : Append(s, x)[i] = s[i]
  OBVIOUS
<1>2. \A i \in 1..(Len(s) + 1) : i \in 1..Len(s) \/ i = Len(s) + 1
  BY <1>1
<1>3. \A i \in 1..Len(s) : Key(s[i]) # Key(x)
  BY <1>1 DEF Keys, ToSet
<1> QED
  BY <1>1, <1>2, <1>3 DEF Once

\* Taking the first of a queue.
LEMMA TailIs ==
  ASSUME NEW S, NEW s \in Seq(S), s # <<>>
  PROVE  /\ Tail(s) \in Seq(S) /\ Head(s) \in S /\ Head(s) = s[1] /\ 1 \in DOMAIN s
         /\ ToSet(s) = {Head(s)} \cup ToSet(Tail(s))
         /\ \A i \in DOMAIN Tail(s) : i + 1 \in DOMAIN s /\ i + 1 # 1 /\ Tail(s)[i] = s[i + 1]
<1>1. /\ Len(s) \in Nat /\ Len(s) >= 1 /\ DOMAIN s = 1..Len(s) /\ Tail(s) \in Seq(S) /\ Head(s) = s[1]
      /\ DOMAIN Tail(s) = 1..(Len(s) - 1)
      /\ \A i \in 1..(Len(s) - 1) : Tail(s)[i] = s[i + 1]
  OBVIOUS
<1>2. \A i \in 1..Len(s) : i = 1 \/ (i - 1 \in 1..(Len(s) - 1) /\ (i - 1) + 1 = i)
  BY <1>1
<1>3. \A i \in 1..(Len(s) - 1) : i + 1 \in 1..Len(s) /\ i + 1 # 1
  BY <1>1
<1>4. 1 \in 1..Len(s)
  BY <1>1
<1>5. \A x \in ToSet(s) : x = Head(s) \/ x \in ToSet(Tail(s))
  <2> SUFFICES ASSUME NEW i \in 1..Len(s) PROVE s[i] = Head(s) \/ s[i] \in ToSet(Tail(s))
    BY <1>1 DEF ToSet
  <2> QED
    BY <1>1, <1>2 DEF ToSet
<1>6. \A x \in ToSet(Tail(s)) : x \in ToSet(s)
  BY <1>1, <1>3 DEF ToSet
<1>7. Head(s) \in ToSet(s)
  BY <1>1, <1>4 DEF ToSet
<1> QED
  BY <1>1, <1>3, <1>4, <1>5, <1>6, <1>7

\* What is left of a queue does not hold the frame that was taken.
LEMMA TailOnce ==
  ASSUME NEW s \in Seq(Frame), s # <<>>, Once(s)
  PROVE  Once(Tail(s)) /\ Key(Head(s)) \notin Keys(ToSet(Tail(s)))
<1>1. /\ Head(s) = s[1] /\ 1 \in DOMAIN s
      /\ \A i \in DOMAIN Tail(s) : i + 1 \in DOMAIN s /\ i + 1 # 1 /\ Tail(s)[i] = s[i + 1]
  BY TailIs
<1>2. \A i \in DOMAIN Tail(s) : i \in Int
  BY TailIs
<1>3. \A i, j \in Int : i + 1 = j + 1 => i = j
  OBVIOUS
<1>4. Once(Tail(s))
  BY <1>1, <1>2, <1>3 DEF Once
<1> QED
  BY <1>1, <1>4 DEF Once, Keys, ToSet

\* One queue behind another.
LEMMA JoinIs ==
  ASSUME NEW S, NEW s \in Seq(S), NEW t \in Seq(S)
  PROVE  s \o t \in Seq(S) /\ ToSet(s \o t) = ToSet(s) \cup ToSet(t)
<1>1. /\ Len(s) \in Nat /\ Len(t) \in Nat /\ s \o t \in Seq(S)
      /\ DOMAIN s = 1..Len(s) /\ DOMAIN t = 1..Len(t) /\ DOMAIN (s \o t) = 1..(Len(s) + Len(t))
      /\ \A i \in 1..Len(s) : (s \o t)[i] = s[i]
      /\ \A i \in 1..Len(t) : (s \o t)[Len(s) + i] = t[i]
  OBVIOUS
<1>2. \A i \in 1..(Len(s) + Len(t)) : i \in 1..Len(s) \/ (i - Len(s) \in 1..Len(t) /\ Len(s) + (i - Len(s)) = i)
  BY <1>1
<1>3. \A i \in 1..Len(s) : i \in 1..(Len(s) + Len(t))
  BY <1>1
<1>4. \A i \in 1..Len(t) : Len(s) + i \in 1..(Len(s) + Len(t))
  BY <1>1
<1>5. ToSet(s \o t) \subseteq ToSet(s) \cup ToSet(t)
  <2> SUFFICES ASSUME NEW i \in 1..(Len(s) + Len(t)) PROVE (s \o t)[i] \in ToSet(s) \cup ToSet(t)
    BY <1>1 DEF ToSet
  <2>1. CASE i \in 1..Len(s)
    BY <1>1, <2>1 DEF ToSet
  <2>2. CASE i - Len(s) \in 1..Len(t) /\ Len(s) + (i - Len(s)) = i
    <3>1. (s \o t)[i] = t[i - Len(s)]
      BY <1>1, <2>2
    <3> QED
      BY <1>1, <2>2, <3>1 DEF ToSet
  <2> QED
    BY <1>2, <2>1, <2>2
<1>6. ToSet(s) \subseteq ToSet(s \o t)
  BY <1>1, <1>3 DEF ToSet
<1>7. ToSet(t) \subseteq ToSet(s \o t)
  BY <1>1, <1>4 DEF ToSet
<1> QED
  BY <1>1, <1>5, <1>6, <1>7

\* Two queues with different keys, one behind the other.
LEMMA JoinOnce ==
  ASSUME NEW s \in Seq(Frame), NEW t \in Seq(Frame), Once(s), Once(t), Keys(ToSet(s)) \cap Keys(ToSet(t)) = {}
  PROVE  Once(s \o t)
<1>1. /\ Len(s) \in Nat /\ Len(t) \in Nat
      /\ DOMAIN s = 1..Len(s) /\ DOMAIN t = 1..Len(t) /\ DOMAIN (s \o t) = 1..(Len(s) + Len(t))
      /\ \A i \in 1..Len(s) : (s \o t)[i] = s[i]
      /\ \A i \in 1..Len(t) : (s \o t)[Len(s) + i] = t[i]
  OBVIOUS
<1>2. \A i \in 1..(Len(s) + Len(t)) : i \in 1..Len(s) \/ \E k \in 1..Len(t) : i = Len(s) + k
  <2> TAKE i \in 1..(Len(s) + Len(t))
  <2>1. CASE i > Len(s)
    <3>1. i - Len(s) \in 1..Len(t) /\ i = Len(s) + (i - Len(s))
      BY <1>1, <2>1
    <3> QED
      BY <3>1
  <2> QED
    BY <1>1, <2>1
<1>3. \A i \in 1..Len(s) : \A k \in 1..Len(t) : Key(s[i]) # Key(t[k])
  BY <1>1 DEF Keys, ToSet
<1> SUFFICES ASSUME NEW i \in 1..(Len(s) + Len(t)), NEW j \in 1..(Len(s) + Len(t)), Key((s \o t)[i]) = Key((s \o t)[j])
             PROVE  i = j
  BY <1>1 DEF Once
<1>4. CASE i \in 1..Len(s) /\ j \in 1..Len(s)
  BY <1>1, <1>4 DEF Once
<1>5. ASSUME NEW k \in 1..Len(t), i = Len(s) + k, j \in 1..Len(s) PROVE FALSE
  BY <1>1, <1>3, <1>5
<1>6. ASSUME NEW k \in 1..Len(t), j = Len(s) + k, i \in 1..Len(s) PROVE FALSE
  BY <1>1, <1>3, <1>6
<1>7. ASSUME NEW k \in 1..Len(t), NEW l \in 1..Len(t), i = Len(s) + k, j = Len(s) + l PROVE i = j
  <2>1. (s \o t)[i] = t[k] /\ (s \o t)[j] = t[l]
    BY <1>1, <1>7
  <2>2. k = l
    BY <1>1, <2>1 DEF Once
  <2> QED
    BY <1>7, <2>2
<1> QED
  BY <1>2, <1>4, <1>5, <1>6, <1>7

\* The keys behind the first k frames of a queue.
KeysFrom(s, k) == {Key(s[i]) : i \in (k + 1)..Len(s)}

\* The front of a queue, and what is behind it.
LEMMA PrefixIs ==
  ASSUME NEW s \in Seq(Frame), NEW k \in 0..Len(s), Once(s), NEW cut, cut = KeysFrom(s, k)
  PROVE  /\ SubSeq(s, 1, k) \in Seq(Frame) /\ Once(SubSeq(s, 1, k)) /\ ToSet(SubSeq(s, 1, k)) \subseteq ToSet(s)
         /\ Keys(ToSet(s)) = Keys(ToSet(SubSeq(s, 1, k))) \cup cut
         /\ Keys(ToSet(SubSeq(s, 1, k))) \cap cut = {}
<1> DEFINE t == SubSeq(s, 1, k)
<1>1. /\ Len(s) \in Nat /\ k \in Nat /\ k <= Len(s) /\ DOMAIN s = 1..Len(s)
      /\ \A i \in 1..k : i \in 1..Len(s) /\ s[i] \in Frame
  OBVIOUS
<1>2. t \in Seq(Frame) /\ DOMAIN t = 1..k /\ \A i \in 1..k : t[i] = s[i]
  BY <1>1
<1> HIDE DEF t
<1>3. Once(t)
  BY <1>1, <1>2 DEF Once
<1>4. ToSet(t) = {s[i] : i \in 1..k}
  BY <1>2 DEF ToSet
<1>5. Keys(ToSet(t)) = {Key(s[i]) : i \in 1..k}
  BY <1>4 DEF Keys
<1>6. Keys(ToSet(s)) = {Key(s[i]) : i \in 1..Len(s)}
  BY <1>1 DEF Keys, ToSet
<1>7. \A i \in 1..Len(s) : i \in 1..k \/ i \in (k + 1)..Len(s)
  BY <1>1
<1>8. \A i \in (k + 1)..Len(s) : i \in 1..Len(s) /\ i \notin 1..k
  BY <1>1
<1>9. Keys(ToSet(s)) = Keys(ToSet(t)) \cup cut
  BY <1>1, <1>5, <1>6, <1>7, <1>8 DEF KeysFrom
<1>10. Keys(ToSet(t)) \cap cut = {}
  <2> SUFFICES ASSUME NEW i \in 1..k, NEW j \in (k + 1)..Len(s), Key(s[i]) = Key(s[j]) PROVE FALSE
    BY <1>5 DEF KeysFrom
  <2> QED
    BY <1>1, <1>8 DEF Once
<1>11. ToSet(t) \subseteq ToSet(s)
  BY <1>1, <1>4 DEF ToSet
<1> QED
  BY <1>2, <1>3, <1>9, <1>10, <1>11 DEF t

\* A batch of a queue of batches.
LEMMA BatchOf ==
  ASSUME NEW q \in Seq(Seq(Frame)), NEW i \in DOMAIN q, OnceQ(q)
  PROVE  q[i] \in Seq(Frame) /\ Once(q[i]) /\ ToSet(q[i]) \subseteq Queued(q)
<1>1. q[i] \in Seq(Frame)
  OBVIOUS
<1> QED
  BY <1>1 DEF OnceQ, Once, Queued

\* Putting a batch at the end of the queue.
LEMMA PutIs ==
  ASSUME NEW q \in Seq(Seq(Frame)), NEW b \in Seq(Frame)
  PROVE  Append(q, b) \in Seq(Seq(Frame)) /\ Queued(Append(q, b)) = Queued(q) \cup ToSet(b)
<1>1. /\ DOMAIN Append(q, b) = 1..(Len(q) + 1) /\ DOMAIN q = 1..Len(q) /\ Len(q) \in Nat
      /\ Append(q, b)[Len(q) + 1] = b /\ Append(q, b) \in Seq(Seq(Frame))
      /\ \A i \in 1..Len(q) : Append(q, b)[i] = q[i]
  OBVIOUS
<1>2. \A i \in 1..(Len(q) + 1) : i \in 1..Len(q) \/ i = Len(q) + 1
  BY <1>1
<1>3. \A i \in 1..Len(q) : i \in 1..(Len(q) + 1)
  BY <1>1
<1>4. Len(q) + 1 \in 1..(Len(q) + 1)
  BY <1>1
<1>5. Queued(Append(q, b)) \subseteq Queued(q) \cup ToSet(b)
  BY <1>1, <1>2 DEF Queued
<1>6. Queued(q) \subseteq Queued(Append(q, b))
  BY <1>1, <1>3 DEF Queued
<1>7. ToSet(b) \subseteq Queued(Append(q, b))
  BY <1>1, <1>4 DEF Queued
<1> QED
  BY <1>1, <1>5, <1>6, <1>7

\* A batch of new keys behind the queue.
LEMMA PutOnce ==
  ASSUME NEW q \in Seq(Seq(Frame)), NEW b \in Seq(Frame), OnceQ(q), Once(b), Keys(Queued(q)) \cap Keys(ToSet(b)) = {}
  PROVE  OnceQ(Append(q, b))
<1>1. /\ DOMAIN Append(q, b) = 1..(Len(q) + 1) /\ DOMAIN q = 1..Len(q) /\ Len(q) \in Nat
      /\ Append(q, b)[Len(q) + 1] = b
      /\ \A i \in 1..Len(q) : Append(q, b)[i] = q[i]
  OBVIOUS
<1>2. \A i \in 1..(Len(q) + 1) : i \in 1..Len(q) \/ i = Len(q) + 1
  BY <1>1
<1>3. \A i \in 1..Len(q) : \A a \in DOMAIN q[i] : \A c \in DOMAIN b : Key(q[i][a]) # Key(b[c])
  <2> SUFFICES ASSUME NEW i \in 1..Len(q), NEW a \in DOMAIN q[i], NEW c \in DOMAIN b, Key(q[i][a]) = Key(b[c])
               PROVE  FALSE
    OBVIOUS
  <2>1. q[i][a] \in Queued(q)
    <3>1. q[i][a] \in ToSet(q[i])
      BY DEF ToSet
    <3> QED
      BY <1>1, <3>1 DEF Queued
  <2>2. b[c] \in ToSet(b)
    BY DEF ToSet
  <2> QED
    BY <2>1, <2>2 DEF Keys
<1> SUFFICES ASSUME NEW i \in 1..(Len(q) + 1), NEW j \in 1..(Len(q) + 1), NEW a \in DOMAIN Append(q, b)[i],
                    NEW c \in DOMAIN Append(q, b)[j], Key(Append(q, b)[i][a]) = Key(Append(q, b)[j][c])
             PROVE  i = j /\ a = c
  BY <1>1 DEF OnceQ
<1>4. CASE i \in 1..Len(q) /\ j \in 1..Len(q)
  <2>1. Append(q, b)[i] = q[i] /\ Append(q, b)[j] = q[j] /\ i \in DOMAIN q /\ j \in DOMAIN q
    BY <1>1, <1>4
  <2> QED
    BY <2>1 DEF OnceQ
<1>5. CASE i = Len(q) + 1 /\ j = Len(q) + 1
  BY <1>1, <1>5 DEF Once
<1>6. CASE i \in 1..Len(q) /\ j = Len(q) + 1
  BY <1>1, <1>3, <1>6
<1>7. CASE i = Len(q) + 1 /\ j \in 1..Len(q)
  BY <1>1, <1>3, <1>7
<1> QED
  BY <1>2, <1>4, <1>5, <1>6, <1>7

\* Taking the first batch.
LEMMA GetIs ==
  ASSUME NEW q \in Seq(Seq(Frame)), q # <<>>, OnceQ(q)
  PROVE  /\ Tail(q) \in Seq(Seq(Frame)) /\ OnceQ(Tail(q))
         /\ Head(q) \in Seq(Frame) /\ Once(Head(q))
         /\ Queued(q) = ToSet(Head(q)) \cup Queued(Tail(q))
         /\ Keys(ToSet(Head(q))) \cap Keys(Queued(Tail(q))) = {}
<1>1. /\ Tail(q) \in Seq(Seq(Frame)) /\ Head(q) \in Seq(Frame) /\ Head(q) = q[1] /\ 1 \in DOMAIN q
      /\ ToSet(q) = {Head(q)} \cup ToSet(Tail(q))
      /\ \A i \in DOMAIN Tail(q) : i + 1 \in DOMAIN q /\ i + 1 # 1 /\ Tail(q)[i] = q[i + 1]
  BY TailIs
<1>2. Once(Head(q))
  BY <1>1, BatchOf
<1>3. \A i \in DOMAIN Tail(q) : i \in Int
  BY <1>1
<1>4. \A i, j \in Int : i + 1 = j + 1 => i = j
  OBVIOUS
<1>5. OnceQ(Tail(q))
  <2> SUFFICES ASSUME NEW i \in DOMAIN Tail(q), NEW j \in DOMAIN Tail(q), NEW a \in DOMAIN Tail(q)[i],
                      NEW b \in DOMAIN Tail(q)[j], Key(Tail(q)[i][a]) = Key(Tail(q)[j][b])
               PROVE  i = j /\ a = b
    BY DEF OnceQ
  <2>1. i + 1 = j + 1 /\ a = b
    BY <1>1 DEF OnceQ
  <2> QED
    BY <1>3, <1>4, <2>1
<1>6. \A s, x : x \in Queued(s) <=> \E b \in ToSet(s) : x \in ToSet(b)
  BY DEF Queued, ToSet
<1>7. Queued(q) = ToSet(Head(q)) \cup Queued(Tail(q))
  BY <1>1, <1>6
<1>8. \A i \in DOMAIN Tail(q) : \A a \in DOMAIN Head(q) : \A b \in DOMAIN Tail(q)[i] : Key(Head(q)[a]) # Key(Tail(q)[i][b])
  BY <1>1 DEF OnceQ
<1>9. \A x \in Queued(Tail(q)) : \E i \in DOMAIN Tail(q) : \E b \in DOMAIN Tail(q)[i] : x = Tail(q)[i][b]
  BY DEF Queued, ToSet
<1>10. \A x \in ToSet(Head(q)) : \E a \in DOMAIN Head(q) : x = Head(q)[a]
  BY DEF ToSet
<1>11. \A x \in ToSet(Head(q)) : \A y \in Queued(Tail(q)) : Key(x) # Key(y)
  <2> SUFFICES ASSUME NEW x \in ToSet(Head(q)), NEW y \in Queued(Tail(q)) PROVE Key(x) # Key(y)
    OBVIOUS
  <2>1. PICK a \in DOMAIN Head(q) : x = Head(q)[a]
    BY <1>10
  <2>2. PICK i \in DOMAIN Tail(q) : \E b \in DOMAIN Tail(q)[i] : y = Tail(q)[i][b]
    BY <1>9
  <2>3. PICK b \in DOMAIN Tail(q)[i] : y = Tail(q)[i][b]
    BY <2>2
  <2>4. Key(Head(q)[a]) # Key(Tail(q)[i][b])
    BY <1>8
  <2> QED
    BY <2>1, <2>3, <2>4
<1>12. Keys(ToSet(Head(q))) \cap Keys(Queued(Tail(q))) = {}
  BY <1>11 DEF Keys
<1> QED
  BY <1>1, <1>2, <1>5, <1>7, <1>12

-----------------------------------------------------------------------------
\* There are finitely many frames.
LEMMA FramesFinite == IsFiniteSet(Frame)
<1> DEFINE T == Folders \X (FrameId \X BOOLEAN)
           g == [x \in Frame |-> <<x.src, <<x.id, x.drop>>>>]
<1>1. IsFiniteSet(FrameId)
  <2>1. MaxFrames - 1 \in Int /\ 0 \in Int
    BY SizesAssumption
  <2> QED
    BY <2>1, FS_Interval DEF FrameId
<1>2. IsFiniteSet(BOOLEAN)
  <2>1. BOOLEAN = {TRUE} \cup {FALSE}
    OBVIOUS
  <2>2. IsFiniteSet({TRUE})
    BY FS_Singleton
  <2>3. IsFiniteSet({TRUE} \cup {FALSE})
    BY <2>2, FS_AddElement
  <2> QED
    BY <2>1, <2>3
<1>3. IsFiniteSet(FrameId \X BOOLEAN)
  BY <1>1, <1>2, FS_Product
<1>4. IsFiniteSet(T)
  BY <1>3, SizesAssumption, FS_Product
<1>5. g \in [Frame -> T]
  BY DEF Frame
<1>6. \A x, y \in Frame : g[x] = g[y] => x = y
  BY DEF Frame
<1>7. g \in Injection(Frame, T)
  BY <1>5, <1>6 DEF Injection, IsInjective
<1> QED
  BY <1>4, <1>7, FS_Injection

\* Frames of one folder with different keys are no more than their frame ids.
LEMMA CountIds ==
  ASSUME NEW C \in SUBSET Frame, NEW f, \A x \in C : x.src = f, OnceC(C), NEW I, IsFiniteSet(I), \A x \in C : x.id \in I
  PROVE  Cardinality(C) <= Cardinality(I)
<1> DEFINE g == [x \in C |-> x.id]
<1>1. g \in [C -> I]
  OBVIOUS
<1>2. \A x, y \in C : g[x] = g[y] => x = y
  BY DEF OnceC, Key
<1>3. g \in Injection(C, I)
  BY <1>1, <1>2 DEF Injection, IsInjective
<1> QED
  BY <1>3, FS_Injection

\* Frames in some order.
LEMMA EnumerationIs ==
  ASSUME NEW C \in SUBSET Frame, NEW s \in Enumerations(C)
  PROVE  s \in Seq(Frame) /\ ToSet(s) = C /\ (OnceC(C) => Once(s))
<1>1. IsFiniteSet(C) /\ Cardinality(C) \in Nat
  BY FramesFinite, FS_Subset, FS_CardinalityType
<1>2. /\ s \in [1..Cardinality(C) -> C]
      /\ \A i, j \in 1..Cardinality(C) : s[i] = s[j] => i = j
      /\ \A x \in C : \E i \in 1..Cardinality(C) : s[i] = x
  BY DEF Enumerations, Bijection, Injection, Surjection, IsInjective
<1>3. s \in Seq(Frame)
  BY <1>1, <1>2
<1>4. ToSet(s) = C
  BY <1>2 DEF ToSet
<1>5. OnceC(C) => Once(s)
  BY <1>2 DEF Once, OnceC
<1> QED
  BY <1>3, <1>4, <1>5

-----------------------------------------------------------------------------
\* The places, one by one.
LEMMA PlacesAre ==
  /\ \A f \in Folders : /\ <<"wire", f>> \in Place
                        /\ <<"frame_cache", f>> \in Place
                        /\ <<"al_cache", f>> \in Place
  /\ \A n \in Inboxes \ {"create_dataset"} : <<"inbox", n>> \in Place
  /\ \A n \in BatchNodes : <<"batch", n>> \in Place /\ <<"batch_queue", n>> \in Place
  /\ \A p \in Place : \/ \E f \in Folders : p \in {<<"wire", f>>, <<"frame_cache", f>>, <<"al_cache", f>>}
                      \/ \E n \in Inboxes \ {"create_dataset"} : p = <<"inbox", n>>
                      \/ \E n \in BatchNodes : p \in {<<"batch", n>>, <<"batch_queue", n>>}
  /\ Settled \notin Place /\ Lost \notin Place /\ Settled # Lost
BY DEF Place, Settled, Lost

\* The frames at each of them ...
LEMMA FramesAtAre ==
  /\ DOMAIN FramesAt = Place
  /\ \A f \in Folders : /\ FramesAt[<<"wire", f>>] = ToSet(wire[f])
                        /\ FramesAt[<<"frame_cache", f>>] = frame_cache[f]
                        /\ FramesAt[<<"al_cache", f>>] = al_cache[f]
  /\ \A n \in Inboxes \ {"create_dataset"} : FramesAt[<<"inbox", n>>] = ToSet(inbox[n])
  /\ \A n \in BatchNodes : /\ FramesAt[<<"batch", n>>] = ToSet(batch[n])
                           /\ FramesAt[<<"batch_queue", n>>] = Queued(batch_queue[n])
BY PlacesAre DEF FramesAt

\* ... and after a step.
LEMMA FramesAtNext ==
  /\ DOMAIN FramesAt' = Place
  /\ \A f \in Folders : /\ FramesAt'[<<"wire", f>>] = ToSet(wire'[f])
                        /\ FramesAt'[<<"frame_cache", f>>] = frame_cache'[f]
                        /\ FramesAt'[<<"al_cache", f>>] = al_cache'[f]
  /\ \A n \in Inboxes \ {"create_dataset"} : FramesAt'[<<"inbox", n>>] = ToSet(inbox'[n])
  /\ \A n \in BatchNodes : /\ FramesAt'[<<"batch", n>>] = ToSet(batch'[n])
                           /\ FramesAt'[<<"batch_queue", n>>] = Queued(batch_queue'[n])
BY PlacesAre DEF FramesAt

\* The frames at the places that a step does not touch.
LEMMA Elsewhere ==
  ASSUME NEW C,
         \A f \in Folders : /\ <<"wire", f>> \in C \/ wire'[f] = wire[f]
                            /\ <<"frame_cache", f>> \in C \/ frame_cache'[f] = frame_cache[f]
                            /\ <<"al_cache", f>> \in C \/ al_cache'[f] = al_cache[f],
         \A n \in Inboxes \ {"create_dataset"} : <<"inbox", n>> \in C \/ inbox'[n] = inbox[n],
         \A n \in BatchNodes : /\ <<"batch", n>> \in C \/ batch'[n] = batch[n]
                               /\ <<"batch_queue", n>> \in C \/ batch_queue'[n] = batch_queue[n]
  PROVE  \A p \in Place : p \in C \/ FramesAt'[p] = FramesAt[p]
<1> SUFFICES ASSUME NEW p \in Place, p \notin C PROVE FramesAt'[p] = FramesAt[p]
  OBVIOUS
<1>1. ASSUME NEW f \in Folders, p \in {<<"wire", f>>, <<"frame_cache", f>>, <<"al_cache", f>>}
      PROVE  FramesAt'[p] = FramesAt[p]
  <2>1. CASE p = <<"wire", f>>
    <3>1. wire'[f] = wire[f]
      BY <2>1
    <3>2. FramesAt[<<"wire", f>>] = ToSet(wire[f]) /\ FramesAt'[<<"wire", f>>] = ToSet(wire'[f])
      BY FramesAtAre, FramesAtNext
    <3> QED
      BY <2>1, <3>1, <3>2
  <2>2. CASE p = <<"frame_cache", f>>
    <3>1. frame_cache'[f] = frame_cache[f]
      BY <2>2
    <3>2. FramesAt[<<"frame_cache", f>>] = frame_cache[f] /\ FramesAt'[<<"frame_cache", f>>] = frame_cache'[f]
      BY FramesAtAre, FramesAtNext
    <3> QED
      BY <2>2, <3>1, <3>2
  <2>3. CASE p = <<"al_cache", f>>
    <3>1. al_cache'[f] = al_cache[f]
      BY <2>3
    <3>2. FramesAt[<<"al_cache", f>>] = al_cache[f] /\ FramesAt'[<<"al_cache", f>>] = al_cache'[f]
      BY FramesAtAre, FramesAtNext
    <3> QED
      BY <2>3, <3>1, <3>2
  <2> QED
    BY <1>1, <2>1, <2>2, <2>3
<1>2. ASSUME NEW n \in Inboxes \ {"create_dataset"}, p = <<"inbox", n>>
      PROVE  FramesAt'[p] = FramesAt[p]
  BY <1>2, FramesAtAre, FramesAtNext
<1>3. ASSUME NEW n \in BatchNodes, p \in {<<"batch", n>>, <<"batch_queue", n>>}
      PROVE  FramesAt'[p] = FramesAt[p]
  <2>1. CASE p = <<"batch", n>>
    <3>1. batch'[n] = batch[n]
      BY <2>1
    <3>2. FramesAt[<<"batch", n>>] = ToSet(batch[n]) /\ FramesAt'[<<"batch", n>>] = ToSet(batch'[n])
      BY FramesAtAre, FramesAtNext
    <3> QED
      BY <2>1, <3>1, <3>2
  <2>2. CASE p = <<"batch_queue", n>>
    <3>1. batch_queue'[n] = batch_queue[n]
      BY <2>2
    <3>2. FramesAt[<<"batch_queue", n>>] = Queued(batch_queue[n]) /\ FramesAt'[<<"batch_queue", n>>] = Queued(batch_queue'[n])
      BY FramesAtAre, FramesAtNext
    <3> QED
      BY <2>2, <3>1, <3>2
  <2> QED
    BY <1>3, <2>1, <2>2
<1> QED
  BY <1>1, <1>2, <1>3, PlacesAre

\* The keys at each spot.
LEMMA KeysAtAre ==
  /\ KeysAt[Settled] = settled /\ KeysAt[Lost] = LostKeys /\ \A p \in Place : KeysAt[p] = Keys(FramesAt[p])
  /\ KeysAt'[Settled] = settled' /\ KeysAt'[Lost] = LostKeys' /\ \A p \in Place : KeysAt'[p] = Keys(FramesAt'[p])
  /\ Place \subseteq Spots /\ Settled \in Spots /\ Lost \in Spots /\ \A p \in Spots : p \in Place \/ p \in {Settled, Lost}
<1>1. Place \subseteq Spots /\ Settled \in Spots /\ Lost \in Spots /\ \A p \in Spots : p \in Place \/ p \in {Settled, Lost}
  BY DEF Spots
<1> QED
  BY <1>1, PlacesAre DEF KeysAt

\* Keys that move from one spot to another.
LEMMA Moved ==
  ASSUME NEW K, NEW L, NEW W, Spread(K, W), NEW a \in Spots, NEW b \in Spots, a # b,
         NEW M, K[a] = L[a] \cup M, L[a] \cap M = {}, L[b] = K[b] \cup M,
         \A p \in Spots : p \in {a, b} \/ L[p] = K[p]
  PROVE  Spread(L, W)
<1>1. \A p, q \in Spots : \A k \in L[p] : k \in L[q] => p = q
  BY DEF Spread
<1>2. \A k : (\E p \in Spots : k \in L[p]) <=> (\E p \in Spots : k \in K[p])
  <2> TAKE k
  <2>1. ASSUME NEW p \in Spots, k \in L[p] PROVE \E q \in Spots : k \in K[q]
    BY <2>1
  <2>2. ASSUME NEW p \in Spots, k \in K[p] PROVE \E q \in Spots : k \in L[q]
    BY <2>2
  <2> QED
    BY <2>1, <2>2
<1> QED
  BY <1>1, <1>2 DEF Spread

\* Keys that move from several spots to several others.
LEMMA Relocated ==
  ASSUME NEW K, NEW L, NEW W, Spread(K, W), NEW M \in SUBSET W, NEW g \in [M -> Spots],
         \A p \in Spots : \A k : k \in L[p] <=> (k \in K[p] /\ k \notin M) \/ (k \in M /\ g[k] = p)
  PROVE  Spread(L, W)
<1>1. \A p, q \in Spots : \A k \in L[p] : k \in L[q] => p = q
  BY DEF Spread
<1>2. \A k : k \in W <=> \E p \in Spots : k \in L[p]
  <2> TAKE k
  <2>1. CASE k \in M
    BY <2>1
  <2>2. CASE k \notin M
    BY <2>2 DEF Spread
  <2> QED
    BY <2>1, <2>2
<1> QED
  BY <1>1, <1>2 DEF Spread

\* The frames that moved are no longer where they were; the flags they were given
\* are of no other frame.
LEMMA MoveStep ==
  ASSUME FrameInv, NEW a \in Place, NEW b \in Spots, a # b, NEW M,
         \A p \in Place : p \in {a, b} \/ FramesAt'[p] = FramesAt[p],
         b = Settled \/ settled' = settled, b = Lost \/ LostKeys' = LostKeys,
         Keys(FramesAt[a]) = Keys(FramesAt'[a]) \cup M, Keys(FramesAt'[a]) \cap M = {},
         KeysAt'[b] = KeysAt[b] \cup M,
         FramesAt'[a] \subseteq FramesAt[a],
         b \in Place => \A y \in FramesAt'[b] : y \in FramesAt[b] \/ (Key(y) \in flagged' => y.drop),
         flagged' \subseteq flagged \cup M,
         frame_id' = frame_id
  PROVE  Spread(KeysAt, WasRead)' /\ Flags' /\ M \cap settled = {}
<1>1. Spread(KeysAt, WasRead) /\ WasRead' = WasRead
  BY DEF FrameInv, WasRead
<1>2. KeysAt[a] = KeysAt'[a] \cup M /\ KeysAt'[a] \cap M = {} /\ a \in Spots
  BY KeysAtAre
<1>3. \A p \in Spots : p \in {a, b} \/ KeysAt'[p] = KeysAt[p]
  BY KeysAtAre
<1>4. Spread(KeysAt', WasRead)
  BY <1>1, <1>2, <1>3, Moved
<1>5. M \subseteq WasRead
  BY <1>1, <1>2 DEF Spread
<1>6. \A p \in Place : p # a => KeysAt[p] \cap M = {}
  BY <1>1, <1>2, KeysAtAre DEF Spread
<1>7. M \cap settled = {}
  BY <1>1, <1>2, KeysAtAre, PlacesAre DEF Spread
<1>8. flagged' \subseteq WasRead'
  BY <1>1, <1>5 DEF FrameInv, Flags
<1>9. ASSUME NEW p \in Place, NEW x \in FramesAt'[p], Key(x) \in flagged' PROVE x.drop
  <2>1. CASE x \in FramesAt[p] /\ Key(x) \notin M
    BY <1>9, <2>1 DEF FrameInv, Flags
  <2>2. CASE p = a
    BY <1>9, <2>1, <2>2 DEF Keys
  <2>3. CASE p # a /\ x \in FramesAt[p]
    <3>1. Key(x) \in KeysAt[p]
      BY <2>3, KeysAtAre DEF Keys
    <3> QED
      BY <1>6, <2>1, <2>3, <3>1
  <2>4. CASE p = b
    BY <1>9, <2>3, <2>4
  <2> QED
    BY <2>2, <2>3, <2>4
<1>10. Flags'
  BY <1>8, <1>9 DEF Flags
<1> QED
  BY <1>1, <1>4, <1>7, <1>10 DEF Spread

\* What is lost is lost once.
LEMMA LoseStep ==
  ASSUME lost \subseteq Reason \X KeySet, NEW M \in SUBSET KeySet, M \cap LostKeys = {}, NEW r \in Reason,
         \A l, m \in lost : l[2] = m[2] => l = m,
         \A l : l \in lost' <=> l \in lost \/ \E k \in M : l = <<r, k>>
  PROVE  /\ LostKeys' = LostKeys \cup M
         /\ lost' \subseteq Reason \X KeySet
         /\ \A l, m \in lost' : l[2] = m[2] => l = m
         /\ \A l \in lost' : l[1] = "batch" => l \in lost \/ (r = "batch" /\ M # {})
<1>0. ASSUME NEW l \in lost', l \notin lost
      PROVE  \E k \in M : l = <<r, k>> /\ l[1] = r /\ l[2] = k /\ l[2] \in M /\ l \in Reason \X KeySet
  <2>1. PICK k \in M : l = <<r, k>>
    BY <1>0
  <2> QED
    BY <2>1
<1>1. LostKeys' = LostKeys \cup M
  <2>1. LostKeys' \subseteq LostKeys \cup M
    BY <1>0 DEF LostKeys
  <2>2. LostKeys \subseteq LostKeys'
    BY DEF LostKeys
  <2>3. ASSUME NEW k \in M PROVE k \in LostKeys'
    <3>1. <<r, k>> \in lost' /\ <<r, k>>[2] = k
      OBVIOUS
    <3> QED
      BY <3>1 DEF LostKeys
  <2> QED
    BY <2>1, <2>2, <2>3
<1>2. lost' \subseteq Reason \X KeySet
  BY <1>0
<1>3. \A l \in lost : l[2] \in LostKeys
  BY DEF LostKeys
<1>4. ASSUME NEW l \in lost', NEW m \in lost', l[2] = m[2] PROVE l = m
  <2>1. CASE l \in lost /\ m \in lost
    BY <1>4, <2>1
  <2>2. CASE l \notin lost /\ m \notin lost
    <3>1. PICK k \in M : l = <<r, k>> /\ l[2] = k
      BY <1>0, <2>2
    <3>2. PICK n \in M : m = <<r, n>> /\ m[2] = n
      BY <1>0, <2>2
    <3> QED
      BY <1>4, <3>1, <3>2
  <2>3. CASE l \in lost <=> m \notin lost
    BY <1>0, <1>3, <1>4, <2>3
  <2> QED
    BY <2>1, <2>2, <2>3
<1>5. \A l \in lost' : l[1] = "batch" => l \in lost \/ (r = "batch" /\ M # {})
  BY <1>0
<1> QED
  BY <1>1, <1>2, <1>4, <1>5

\* Keys at different spots are different; those of frames are in KeySet.
LEMMA Apart ==
  ASSUME FrameInv, NEW p \in Place
  PROVE  /\ \A q \in Place : q # p => Keys(FramesAt[p]) \cap Keys(FramesAt[q]) = {}
         /\ Keys(FramesAt[p]) \cap settled = {} /\ Keys(FramesAt[p]) \cap LostKeys = {}
         /\ Keys(FramesAt[p]) \subseteq WasRead
<1>1. Spread(KeysAt, WasRead) /\ p \in Spots /\ Settled \in Spots /\ Lost \in Spots /\ p # Settled /\ p # Lost
  BY KeysAtAre, PlacesAre DEF FrameInv
<1> QED
  BY <1>1, KeysAtAre DEF Spread

\* Frames that are lost where they were.
LEMMA LostMove ==
  ASSUME FrameInv, NEW a \in Place, NEW M, NEW r \in Reason, r # "batch",
         \A p \in Place : p \in {a} \/ FramesAt'[p] = FramesAt[p],
         Keys(FramesAt[a]) = Keys(FramesAt'[a]) \cup M, Keys(FramesAt'[a]) \cap M = {},
         FramesAt'[a] \subseteq FramesAt[a], FramesAt[a] \subseteq Frame,
         \A l : l \in lost' <=> l \in lost \/ \E k \in M : l = <<r, k>>,
         settled' = settled, flagged' = flagged, frame_id' = frame_id, mode' = mode
  PROVE  Spread(KeysAt, WasRead)' /\ Flags' /\ Losses' /\ lost' \subseteq Reason \X KeySet
<1>1. Types /\ Losses
  BY DEF FrameInv
<1>2. M \cap LostKeys = {}
  BY Apart
<1>3. M \subseteq KeySet
  BY FrameKey DEF Keys
<1>4. lost \subseteq Reason \X KeySet /\ M \in SUBSET KeySet
  BY <1>1, <1>3 DEF Types
<1>5. \A l, m \in lost : l[2] = m[2] => l = m
  BY <1>1 DEF Losses
<1>6. /\ LostKeys' = LostKeys \cup M
      /\ lost' \subseteq Reason \X KeySet
      /\ \A l, m \in lost' : l[2] = m[2] => l = m
      /\ \A l \in lost' : l[1] = "batch" => l \in lost
  <2>1. /\ LostKeys' = LostKeys \cup M
        /\ lost' \subseteq Reason \X KeySet
        /\ \A l, m \in lost' : l[2] = m[2] => l = m
        /\ \A l \in lost' : l[1] = "batch" => l \in lost \/ (r = "batch" /\ M # {})
    BY ONLY <1>2, <1>4, <1>5, LoseStep, r \in Reason,
            \A l : l \in lost' <=> l \in lost \/ \E k \in M : l = <<r, k>>
  <2> QED
    BY <2>1
<1>7. KeysAt'[Lost] = KeysAt[Lost] \cup M /\ Lost \in Spots
  BY <1>6, KeysAtAre
<1>8. Lost \notin Place /\ a # Lost
  BY PlacesAre
<1>9. \A p \in Place : p \in {a, Lost} \/ FramesAt'[p] = FramesAt[p]
  OBVIOUS
<1>10. Spread(KeysAt, WasRead)' /\ Flags'
  BY <1>7, <1>8, <1>9, MoveStep
<1> QED
  BY <1>1, <1>6, <1>10 DEF Losses

-----------------------------------------------------------------------------
\* Nothing is read yet.
LEMMA ChainStarts == Init => FrameInv
<1> SUFFICES ASSUME Init PROVE FrameInv
  OBVIOUS
<1>1. Types
  BY SizesAssumption DEF Init, Types, Inboxes, BatchNodes
<1>2. ToSet(<<>>) = {} /\ Queued(<<>>) = {} /\ Keys({}) = {}
  BY DEF ToSet, Queued, Keys
<1>3. \A p \in Place : FramesAt[p] = {}
  <2> SUFFICES ASSUME NEW p \in Place PROVE FramesAt[p] = {}
    OBVIOUS
  <2>1. ASSUME NEW f \in Folders
        PROVE  FramesAt[<<"wire", f>>] = {} /\ FramesAt[<<"frame_cache", f>>] = {} /\ FramesAt[<<"al_cache", f>>] = {}
    BY <1>2, FramesAtAre DEF Init
  <2>2. ASSUME NEW n \in Inboxes \ {"create_dataset"} PROVE FramesAt[<<"inbox", n>>] = {}
    BY <1>2, FramesAtAre DEF Init
  <2>3. ASSUME NEW n \in BatchNodes PROVE FramesAt[<<"batch", n>>] = {} /\ FramesAt[<<"batch_queue", n>>] = {}
    BY <1>2, FramesAtAre DEF Init
  <2> QED
    BY <2>1, <2>2, <2>3, PlacesAre
<1>4. Spread(KeysAt, WasRead)
  <2>1. WasRead = {}
    BY DEF Init, WasRead
  <2>2. LostKeys = {} /\ settled = {}
    BY DEF Init, LostKeys
  <2>3. \A p \in Spots : KeysAt[p] = {}
    BY <1>2, <1>3, <2>2, KeysAtAre
  <2> QED
    BY <2>1, <2>3 DEF Spread
<1>5. Flags
  BY <1>3 DEF Init, Flags
<1>6. Home
  BY <1>2 DEF Init, Home
<1>7. OnceEach
  BY DEF Init, OnceEach, Once, OnceQ, OnceC
<1>8. Written
  BY <1>2 DEF Init, Written, Inboxes
<1>9. Losses /\ OneRound
  BY SizesAssumption DEF Init, Losses, OneRound
<1> QED
  BY <1>1, <1>4, <1>5, <1>6, <1>7, <1>8, <1>9 DEF FrameInv

-----------------------------------------------------------------------------
\* A frame is read for the first time.
LEMMA ReadFrameInv == ASSUME FrameInv, NEW f \in Folders, ReadFrame(f) PROVE FrameInv'
<1>1. PICK x : x = [src |-> f, id |-> frame_id[f], drop |-> FALSE]
  OBVIOUS
<1>2. /\ wire' = [wire EXCEPT ![f] = Append(@, x)]
      /\ frame_id' = [frame_id EXCEPT ![f] = @ + 1]
      /\ UNCHANGED <<mode, inbox, batch, batch_queue, frame_cache, al_cache, saved, flagged, settled, lost>>
      /\ frame_id[f] < MaxFrames /\ ~AtEnd(f)
  BY <1>1 DEF ReadFrame, config, batcher, caches, history
<1>3. Types /\ Home /\ OnceEach /\ Spread(KeysAt, WasRead) /\ Flags /\ Written /\ Losses /\ OneRound
  BY DEF FrameInv
<1>4. frame_id[f] \in 0..MaxFrames /\ frame_id[f] \in Nat /\ MaxFrames \in Nat /\ NumImages[f] \in Nat
  BY <1>3, SizesAssumption DEF Types
<1>5. x \in Frame /\ x.src = f /\ Key(x) = <<f, frame_id[f]>> /\ x.drop = FALSE
  BY <1>1, <1>2, <1>4 DEF Frame, FrameId, Key
<1>6. frame_id' \in [Folders -> 0..MaxFrames]
  BY <1>2, <1>3, <1>4 DEF Types
<1>7. Key(x) \notin WasRead
  BY <1>4, <1>5 DEF WasRead
<1>8. WasRead' = WasRead \cup {Key(x)}
  <2>1. \A k \in WasRead' : k \in WasRead \/ k = Key(x)
    <3> SUFFICES ASSUME NEW g \in Folders, NEW i \in 0..(frame_id'[g] - 1) PROVE <<g, i>> \in WasRead \/ <<g, i>> = Key(x)
      BY DEF WasRead
    <3>1. CASE g = f
      <4>1. frame_id'[f] = frame_id[f] + 1
        BY <1>2, <1>3 DEF Types
      <4>2. i \in 0..(frame_id[f] - 1) \/ i = frame_id[f]
        BY <1>4, <3>1, <4>1
      <4> QED
        BY <1>5, <3>1, <4>2 DEF WasRead
    <3>2. CASE g # f
      <4>1. frame_id'[g] = frame_id[g]
        BY <1>2, <1>3, <3>2 DEF Types
      <4> QED
        BY <4>1 DEF WasRead
    <3> QED
      BY <3>1, <3>2
  <2>2. \A g \in Folders : \A i \in 0..(frame_id[g] - 1) : i \in 0..(frame_id'[g] - 1)
    <3> SUFFICES ASSUME NEW g \in Folders, NEW i \in 0..(frame_id[g] - 1) PROVE i \in 0..(frame_id'[g] - 1)
      OBVIOUS
    <3>1. frame_id[g] \in Nat /\ (frame_id'[g] = frame_id[g] \/ frame_id'[g] = frame_id[g] + 1)
      BY <1>2, <1>3, <1>4 DEF Types
    <3> QED
      BY <3>1
  <2>3. WasRead \subseteq WasRead'
    BY <2>2 DEF WasRead
  <2>4. Key(x) \in WasRead'
    <3>1. frame_id'[f] = frame_id[f] + 1
      BY <1>2, <1>3 DEF Types
    <3>2. frame_id[f] \in 0..(frame_id'[f] - 1)
      BY <1>4, <3>1
    <3> QED
      BY <1>5, <3>2 DEF WasRead
  <2> QED
    BY <2>1, <2>3, <2>4
<1> DEFINE w == <<"wire", f>>
<1>9. /\ wire[f] \in Seq(Frame) /\ wire'[f] = Append(wire[f], x) /\ \A g \in Folders : g # f => wire'[g] = wire[g]
      /\ DOMAIN wire' = Folders
  BY <1>2, <1>3 DEF Types
<1>10. Append(wire[f], x) \in Seq(Frame) /\ ToSet(Append(wire[f], x)) = ToSet(wire[f]) \cup {x}
  BY <1>5, <1>9, AppendIs
<1>11. \A p \in Place : p = w \/ FramesAt'[p] = FramesAt[p]
  <2>1. \A p \in Place : p \in {w} \/ FramesAt'[p] = FramesAt[p]
    BY <1>2, <1>9, Elsewhere
  <2> QED
    BY <2>1
<1>12. w \in Place /\ FramesAt'[w] = FramesAt[w] \cup {x}
  <2>1. w \in Place /\ FramesAt[w] = ToSet(wire[f]) /\ FramesAt'[w] = ToSet(wire'[f])
    BY ONLY f \in Folders, FramesAtAre, FramesAtNext, PlacesAre
  <2> HIDE DEF w
  <2> QED
    BY ONLY <1>9, <1>10, <2>1
<1>13. KeysAt'[w] = KeysAt[w] \cup {Key(x)} /\ w \in Spots
  <2>1. Keys({x}) = {Key(x)}
    BY DEF Keys
  <2> QED
    BY <1>12, <2>1, KeysAtAre, KeysUnion
<1>14. \A p \in Spots : p = w \/ KeysAt'[p] = KeysAt[p]
  <2>1. LostKeys' = LostKeys /\ settled' = settled
    BY <1>2 DEF LostKeys
  <2> QED
    BY <1>11, <2>1, KeysAtAre
<1> HIDE DEF w
<1>15. Spread(KeysAt', WasRead')
  BY <1>3, <1>7, <1>8, <1>13, <1>14 DEF Spread
<1>16. Flags'
  <2>1. flagged' \subseteq WasRead' /\ Key(x) \notin flagged'
    BY <1>2, <1>3, <1>7, <1>8 DEF Flags
  <2>2. \A p \in Place : \A y \in FramesAt'[p] : y \in FramesAt[p] \/ y = x
    BY <1>11, <1>12
  <2> QED
    BY <1>2, <1>3, <2>1, <2>2 DEF Flags
<1>17. Key(x) \notin Keys(ToSet(wire[f]))
  BY <1>3, <1>7, <1>12, Apart, FramesAtAre DEF w, FrameInv
<1>18. OnceEach'
  <2>1. Once(wire'[f])
    BY <1>3, <1>5, <1>9, <1>17, AppendOnce DEF OnceEach
  <2> QED
    BY <1>2, <1>3, <1>9, <2>1 DEF OnceEach
<1>19. Home'
  BY <1>2, <1>3, <1>5, <1>9, <1>10 DEF Home
<1>20. Types'
  <2>1. wire' \in [Folders -> Seq(Frame)]
    BY <1>2, <1>3, <1>9, <1>10 DEF Types
  <2> QED
    BY <1>2, <1>3, <1>6, <2>1 DEF Types
<1>21. Written'
  BY <1>2, <1>3 DEF Written
<1>22. Losses'
  <2>1. \A g \in Folders : frame_id[g] > 0 => frame_id'[g] > 0
    BY <1>2, <1>3, <1>4 DEF Types
  <2> QED
    BY <1>2, <1>3, <2>1 DEF Losses
<1>23. OneRound'
  <2> SUFFICES ASSUME mode = "only_one", NEW g \in Folders PROVE frame_id'[g] <= NumImages[g]
    BY <1>2 DEF OneRound
  <2>1. CASE g = f
    <3>1. frame_id[f] < NumImages[f]
      BY <1>2, <1>4 DEF AtEnd
    <3> QED
      BY <1>2, <1>3, <1>4, <2>1, <3>1 DEF Types
  <2>2. CASE g # f
    BY <1>2, <1>3, <2>2 DEF Types, OneRound
  <2> QED
    BY <2>1, <2>2
<1> QED
  BY <1>15, <1>16, <1>18, <1>19, <1>20, <1>21, <1>22, <1>23 DEF FrameInv

-----------------------------------------------------------------------------
\* A frame is taken from the front of a queue ...
LEMMA Popped ==
  ASSUME NEW s \in Seq(Frame), s # <<>>, Once(s)
  PROVE  /\ Tail(s) \in Seq(Frame) /\ Once(Tail(s)) /\ ToSet(Tail(s)) \subseteq ToSet(s)
         /\ Head(s) \in Frame /\ Head(s) \in ToSet(s)
         /\ Keys(ToSet(s)) = Keys(ToSet(Tail(s))) \cup {Key(Head(s))}
         /\ Keys(ToSet(Tail(s))) \cap {Key(Head(s))} = {}
<1>1. ToSet(s) = {Head(s)} \cup ToSet(Tail(s)) /\ Tail(s) \in Seq(Frame) /\ Head(s) \in Frame
  BY TailIs
<1>2. Once(Tail(s)) /\ Key(Head(s)) \notin Keys(ToSet(Tail(s)))
  BY TailOnce
<1>3. Keys({Head(s)}) = {Key(Head(s))}
  BY DEF Keys
<1>4. Keys(ToSet(s)) = Keys(ToSet(Tail(s))) \cup {Key(Head(s))}
  BY <1>1, <1>3, KeysUnion
<1> QED
  BY <1>1, <1>2, <1>4

\* ... and put at the end of another.
LEMMA Pushed ==
  ASSUME NEW s \in Seq(Frame), NEW y \in Frame, Once(s), Key(y) \notin Keys(ToSet(s))
  PROVE  /\ s \o <<y>> = Append(s, y)
         /\ Append(s, y) \in Seq(Frame) /\ Once(Append(s, y))
         /\ ToSet(Append(s, y)) = ToSet(s) \cup {y}
         /\ Keys(ToSet(Append(s, y))) = Keys(ToSet(s)) \cup {Key(y)}
<1>1. s \o <<y>> = Append(s, y)
  OBVIOUS
<1>2. Append(s, y) \in Seq(Frame) /\ ToSet(Append(s, y)) = ToSet(s) \cup {y}
  BY AppendIs
<1>3. Once(Append(s, y))
  BY AppendOnce
<1>4. Keys({y}) = {Key(y)}
  BY DEF Keys
<1> QED
  BY <1>1, <1>2, <1>3, <1>4, KeysUnion

\* The reader's socket closes: what its linger did not send is lost.
LEMMA ReadEndInv == ASSUME FrameInv, NEW f \in Folders, ReadEnd(f) PROVE FrameInv'
<1>1. Types /\ Home /\ OnceEach /\ Spread(KeysAt, WasRead) /\ Flags /\ Written /\ Losses /\ OneRound
  BY DEF FrameInv
<1>2. PICK s : s = wire[f]
  OBVIOUS
<1>3. s \in Seq(Frame) /\ Once(s) /\ Len(s) \in Nat
  BY <1>1, <1>2 DEF Types, OnceEach
<1>4. PICK k \in 0..Len(s) :
        /\ wire' = [wire EXCEPT ![f] = SubSeq(@, 1, k)]
        /\ \A l : l \in lost' <=> l \in lost \/ \E c \in KeysFrom(s, k) : l = <<"linger", c>>
  <2>1. PICK k \in (IF fault = "linger" THEN 0 ELSE Len(wire[f]))..Len(wire[f]) :
        /\ wire' = [wire EXCEPT ![f] = SubSeq(@, 1, k)]
        /\ lost' = lost \cup {<<"linger", Key(wire[f][i])>> : i \in (k + 1)..Len(wire[f])}
    BY DEF ReadEnd
  <2>2. k \in 0..Len(s)
    BY <1>2, <1>3
  <2>3. \A l : l \in lost' <=> l \in lost \/ \E c \in KeysFrom(s, k) : l = <<"linger", c>>
    BY <1>2, <2>1 DEF KeysFrom
  <2> QED
    BY <2>1, <2>2, <2>3
<1>5. UNCHANGED <<mode, frame_id, inbox, batch, batch_queue, frame_cache, al_cache, saved, flagged, settled>>
  BY DEF ReadEnd, config, batcher, caches
<1>6. PICK M : M = KeysFrom(s, k)
  OBVIOUS
<1>7. /\ SubSeq(s, 1, k) \in Seq(Frame) /\ Once(SubSeq(s, 1, k)) /\ ToSet(SubSeq(s, 1, k)) \subseteq ToSet(s)
      /\ Keys(ToSet(s)) = Keys(ToSet(SubSeq(s, 1, k))) \cup M
      /\ Keys(ToSet(SubSeq(s, 1, k))) \cap M = {}
  BY <1>3, <1>6, PrefixIs
<1>8. PICK t : t = SubSeq(s, 1, k)
  OBVIOUS
<1>9. /\ wire'[f] = t /\ \A g \in Folders : g # f => wire'[g] = wire[g]
      /\ wire' \in [Folders -> Seq(Frame)]
  BY <1>1, <1>2, <1>4, <1>7, <1>8 DEF Types
<1>10. PICK a : a = <<"wire", f>>
  OBVIOUS
<1>11. \A p \in Place : p \in {a} \/ FramesAt'[p] = FramesAt[p]
  BY <1>5, <1>9, <1>10, Elsewhere
<1>12. a \in Place /\ FramesAt[a] = ToSet(s) /\ FramesAt'[a] = ToSet(t)
  BY <1>2, <1>9, <1>10, FramesAtAre, FramesAtNext, PlacesAre
<1>13. "linger" \in Reason /\ "linger" # "batch"
  BY DEF Reason
<1>14. \A l : l \in lost' <=> l \in lost \/ \E c \in M : l = <<"linger", c>>
  BY <1>4, <1>6
<1>15. FramesAt[a] \subseteq Frame
  BY <1>3, <1>12 DEF ToSet
<1>16. Spread(KeysAt, WasRead)' /\ Flags' /\ Losses' /\ lost' \subseteq Reason \X KeySet
  <2>1. /\ Keys(FramesAt[a]) = Keys(FramesAt'[a]) \cup M /\ Keys(FramesAt'[a]) \cap M = {}
        /\ FramesAt'[a] \subseteq FramesAt[a]
    BY ONLY <1>7, <1>8, <1>12
  <2>2. a \in Place /\ settled' = settled /\ flagged' = flagged /\ frame_id' = frame_id /\ mode' = mode
    BY ONLY <1>5, <1>12
  <2> QED
    BY ONLY FrameInv, <1>11, <1>13, <1>14, <1>15, <2>1, <2>2, LostMove
<1>17. Types'
  BY <1>1, <1>5, <1>9, <1>16 DEF Types
<1>18. Home'
  BY <1>1, <1>2, <1>5, <1>7, <1>8, <1>9 DEF Home
<1>19. OnceEach'
  BY <1>1, <1>5, <1>7, <1>8, <1>9 DEF OnceEach
<1>20. OneRound' /\ Written'
  BY <1>1, <1>5 DEF OneRound, Written
<1> QED
  BY <1>16, <1>17, <1>18, <1>19, <1>20 DEF FrameInv

\* A frame goes from the front of one queue to the end of another; the filter between
\* them may flag it.
LEMMA HopStep ==
  ASSUME FrameInv, NEW a \in Place, NEW b \in Place, a # b,
         NEW s \in Seq(Frame), s # <<>>, Once(s), NEW t \in Seq(Frame), Once(t), NEW y \in Frame,
         FramesAt[a] = ToSet(s), FramesAt'[a] = ToSet(Tail(s)),
         FramesAt[b] = ToSet(t), FramesAt'[b] = ToSet(Append(t, y)),
         Key(y) = Key(Head(s)),
         (y = Head(s) /\ flagged' = flagged) \/ (y.drop /\ flagged' = flagged \cup {Key(y)}),
         \A p \in Place : p \in {a, b} \/ FramesAt'[p] = FramesAt[p],
         settled' = settled, lost' = lost, frame_id' = frame_id, mode' = mode, saved' = saved,
         inbox'["create_dataset"] = inbox["create_dataset"]
  PROVE  /\ Spread(KeysAt, WasRead)' /\ Flags' /\ Written' /\ Losses' /\ OneRound'
         /\ Tail(s) \in Seq(Frame) /\ Once(Tail(s)) /\ ToSet(Tail(s)) \subseteq ToSet(s) /\ Head(s) \in ToSet(s)
         /\ Append(t, y) \in Seq(Frame) /\ Once(Append(t, y))
<1>1. Flags /\ Written /\ Losses /\ OneRound
  BY DEF FrameInv
<1>2. PICK M : M = {Key(y)}
  OBVIOUS
<1>3. /\ Tail(s) \in Seq(Frame) /\ Once(Tail(s)) /\ ToSet(Tail(s)) \subseteq ToSet(s)
      /\ Head(s) \in Frame /\ Head(s) \in ToSet(s)
      /\ Keys(ToSet(s)) = Keys(ToSet(Tail(s))) \cup M /\ Keys(ToSet(Tail(s))) \cap M = {}
  BY <1>2, Popped
<1>4. Key(y) \notin Keys(ToSet(t))
  <2>1. Keys(FramesAt[a]) \cap Keys(FramesAt[b]) = {}
    BY Apart
  <2> QED
    BY <1>2, <1>3, <2>1
<1>5. /\ Append(t, y) \in Seq(Frame) /\ Once(Append(t, y)) /\ ToSet(Append(t, y)) = ToSet(t) \cup {y}
      /\ Keys(ToSet(Append(t, y))) = Keys(ToSet(t)) \cup M
  BY <1>2, <1>4, Pushed
<1>6. KeysAt'[b] = KeysAt[b] \cup M /\ b \in Spots
  BY <1>5, KeysAtAre
<1>7. b # Settled /\ b # Lost /\ LostKeys' = LostKeys
  BY PlacesAre DEF LostKeys
<1>8. \A z \in FramesAt'[b] : z \in FramesAt[b] \/ (Key(z) \in flagged' => z.drop)
  <2>1. y \in FramesAt'[b] /\ (Key(y) \in flagged' => y.drop)
    <3>1. Head(s) \in FramesAt[a]
      BY <1>3
    <3> QED
      BY <1>1, <1>5, <3>1 DEF Flags
  <2> QED
    BY <1>5, <2>1
<1>9. flagged' \subseteq flagged \cup M
  BY <1>2
<1>10. Spread(KeysAt, WasRead)' /\ Flags' /\ M \cap settled = {}
  BY <1>3, <1>6, <1>7, <1>8, <1>9, MoveStep
<1>11. Written'
  BY <1>1, <1>9, <1>10 DEF Written
<1>12. Losses' /\ OneRound'
  BY <1>1 DEF Losses, OneRound
<1> QED
  BY <1>3, <1>5, <1>10, <1>11, <1>12

\* The hash filter passes a frame on.
LEMMA HashProcessInv == ASSUME FrameInv, NEW f \in Folders, HashProcess(f) PROVE FrameInv'
<1>1. Types /\ Home /\ OnceEach
  BY DEF FrameInv
<1>2. PICK s, t : s = wire[f] /\ t = inbox["blur"]
  OBVIOUS
<1>3. s \in Seq(Frame) /\ Once(s) /\ t \in Seq(Frame) /\ Once(t) /\ s # <<>>
  BY <1>1, <1>2 DEF Types, OnceEach, Inboxes, HashProcess
<1>4. Head(s) \in Frame
  BY <1>3, Popped
<1>5. PICK y \in Frame :
        /\ Key(y) = Key(Head(s))
        /\ (y = Head(s) /\ flagged' = flagged) \/ (y.drop /\ flagged' = flagged \cup {Key(y)})
        /\ inbox' = [inbox EXCEPT !["blur"] = @ \o <<y>>]
  <2>1. PICK x : x = Head(s)
    OBVIOUS
  <2>2. PICK z : z = [x EXCEPT !.drop = TRUE]
    OBVIOUS
  <2>3. z \in Frame /\ Key(z) = Key(x) /\ z.drop
    BY <1>4, <2>1, <2>2, FrameKey
  <2>4. \/ inbox' = [inbox EXCEPT !["blur"] = @ \o <<z>>] /\ flagged' = flagged \cup {Key(x)}
        \/ inbox' = [inbox EXCEPT !["blur"] = @ \o <<x>>] /\ flagged' = flagged
    BY <1>2, <2>1, <2>2 DEF HashProcess, Deliver
  <2> QED
    BY <1>4, <2>1, <2>3, <2>4
<1>6. /\ wire' = [wire EXCEPT ![f] = Tail(@)]
      /\ UNCHANGED <<mode, frame_id, batch, batch_queue, frame_cache, al_cache, saved, settled, lost>>
  BY DEF HashProcess, config, batcher
<1>7. PICK u : u = Append(t, y)
  OBVIOUS
<1>8. u = t \o <<y>>
  BY <1>3, <1>7
<1>9. /\ wire'[f] = Tail(s) /\ \A g \in Folders : g # f => wire'[g] = wire[g]
      /\ inbox'["blur"] = u /\ \A n \in Inboxes : n # "blur" => inbox'[n] = inbox[n]
  BY <1>1, <1>2, <1>5, <1>6, <1>8 DEF Types, Inboxes
<1>10. PICK a, b : a = <<"wire", f>> /\ b = <<"inbox", "blur">>
  OBVIOUS
<1>11. \A p \in Place : p \in {a, b} \/ FramesAt'[p] = FramesAt[p]
  BY <1>6, <1>9, <1>10, Elsewhere
<1>12. "blur" \in Inboxes \ {"create_dataset"} /\ "create_dataset" \in Inboxes /\ "create_dataset" # "blur"
  BY DEF Inboxes
<1>13. /\ a \in Place /\ FramesAt[a] = ToSet(s) /\ FramesAt'[a] = ToSet(Tail(s))
       /\ b \in Place /\ FramesAt[b] = ToSet(t) /\ FramesAt'[b] = ToSet(Append(t, y)) /\ a # b
  <2>1. a \in Place /\ FramesAt[a] = ToSet(s) /\ FramesAt'[a] = ToSet(Tail(s))
    <3>1. f \in Folders /\ wire[f] = s /\ wire'[f] = Tail(s)
      BY <1>2, <1>9
    <3> QED
      BY ONLY <1>10, <3>1, FramesAtAre, FramesAtNext, PlacesAre
  <2>2. b \in Place /\ FramesAt[b] = ToSet(t) /\ FramesAt'[b] = ToSet(u)
    BY <1>2, <1>9, <1>10, <1>12, FramesAtAre, FramesAtNext, PlacesAre
  <2>3. a # b
    BY <1>10
  <2> QED
    BY <1>7, <2>1, <2>2, <2>3
<1>14. inbox'["create_dataset"] = inbox["create_dataset"]
  BY <1>9, <1>12
<1>15. /\ Spread(KeysAt, WasRead)' /\ Flags' /\ Written' /\ Losses' /\ OneRound'
       /\ Tail(s) \in Seq(Frame) /\ Once(Tail(s)) /\ ToSet(Tail(s)) \subseteq ToSet(s)
       /\ u \in Seq(Frame) /\ Once(u)
  BY <1>3, <1>5, <1>6, <1>7, <1>11, <1>13, <1>14, HopStep
<1>16. Types'
  BY <1>1, <1>5, <1>6, <1>9, <1>15 DEF Types
<1>17. Home'
  BY <1>1, <1>2, <1>6, <1>9, <1>15 DEF Home
<1>18. OnceEach'
  BY <1>1, <1>6, <1>9, <1>15 DEF OnceEach
<1> QED
  BY <1>15, <1>16, <1>17, <1>18 DEF FrameInv

\* The blur filter passes a frame on.
LEMMA BlurProcessInv == ASSUME FrameInv, BlurProcess PROVE FrameInv'
<1>1. Types /\ Home /\ OnceEach
  BY DEF FrameInv
<1>2. PICK s, t : s = inbox["blur"] /\ t = inbox["embedding"]
  OBVIOUS
<1>3. s \in Seq(Frame) /\ Once(s) /\ t \in Seq(Frame) /\ Once(t) /\ s # <<>>
  BY <1>1, <1>2 DEF Types, OnceEach, Inboxes, BlurProcess
<1>4. Head(s) \in Frame
  BY <1>3, Popped
<1>5. PICK y \in Frame :
        /\ Key(y) = Key(Head(s))
        /\ (y = Head(s) /\ flagged' = flagged) \/ (y.drop /\ flagged' = flagged \cup {Key(y)})
        /\ inbox' = [inbox EXCEPT !["blur"] = Tail(@), !["embedding"] = Append(@, y)]
  <2>1. PICK x : x = Head(s)
    OBVIOUS
  <2>2. PICK z : z = [x EXCEPT !.drop = TRUE]
    OBVIOUS
  <2>3. z \in Frame /\ Key(z) = Key(x) /\ z.drop
    BY <1>4, <2>1, <2>2, FrameKey
  <2>4. \/ /\ inbox' = [inbox EXCEPT !["blur"] = Tail(@), !["embedding"] = Append(@, z)]
           /\ flagged' = flagged \cup {Key(x)}
        \/ /\ inbox' = [inbox EXCEPT !["blur"] = Tail(@), !["embedding"] = Append(@, x)]
           /\ flagged' = flagged
    BY <1>2, <2>1, <2>2 DEF BlurProcess, Pass
  <2> QED
    BY <1>4, <2>1, <2>3, <2>4
<1>6. UNCHANGED <<mode, frame_id, wire, batch, batch_queue, frame_cache, al_cache, saved, settled, lost>>
  BY DEF BlurProcess, config, readers, batcher, caches
<1>7. PICK u, v : u = Append(t, y) /\ v = Tail(s)
  OBVIOUS
<1>8. /\ inbox'["blur"] = v /\ inbox'["embedding"] = u
      /\ \A n \in Inboxes : n \notin {"blur", "embedding"} => inbox'[n] = inbox[n]
  BY <1>1, <1>2, <1>5, <1>7 DEF Types, Inboxes
<1>9. PICK a, b : a = <<"inbox", "blur">> /\ b = <<"inbox", "embedding">>
  OBVIOUS
<1>10. \A p \in Place : p \in {a, b} \/ FramesAt'[p] = FramesAt[p]
  BY <1>6, <1>8, <1>9, Elsewhere
<1>11. /\ "blur" \in Inboxes \ {"create_dataset"} /\ "embedding" \in Inboxes \ {"create_dataset"}
       /\ "create_dataset" \in Inboxes /\ "create_dataset" \notin {"blur", "embedding"}
  BY DEF Inboxes
<1>12. a \in Place /\ FramesAt[a] = ToSet(s) /\ FramesAt'[a] = ToSet(v)
  BY <1>2, <1>8, <1>9, <1>11, FramesAtAre, FramesAtNext, PlacesAre
<1>13. b \in Place /\ FramesAt[b] = ToSet(t) /\ FramesAt'[b] = ToSet(u)
  BY <1>2, <1>8, <1>9, <1>11, FramesAtAre, FramesAtNext, PlacesAre
<1>14. inbox'["create_dataset"] = inbox["create_dataset"] /\ a # b
  BY <1>8, <1>9, <1>11
<1>15. /\ Spread(KeysAt, WasRead)' /\ Flags' /\ Written' /\ Losses' /\ OneRound'
       /\ v \in Seq(Frame) /\ Once(v) /\ u \in Seq(Frame) /\ Once(u)
  <2>1. FramesAt'[a] = ToSet(Tail(s)) /\ FramesAt'[b] = ToSet(Append(t, y))
    BY <1>7, <1>12, <1>13
  <2>2. settled' = settled /\ lost' = lost /\ frame_id' = frame_id /\ mode' = mode /\ saved' = saved
    BY <1>6
  <2>3. a \in Place /\ FramesAt[a] = ToSet(s) /\ b \in Place /\ FramesAt[b] = ToSet(t)
    BY <1>12, <1>13
  <2>4. /\ Spread(KeysAt, WasRead)' /\ Flags' /\ Written' /\ Losses' /\ OneRound'
        /\ Tail(s) \in Seq(Frame) /\ Once(Tail(s)) /\ Append(t, y) \in Seq(Frame) /\ Once(Append(t, y))
    <3>1. /\ y \in Frame /\ Key(y) = Key(Head(s))
          /\ (y = Head(s) /\ flagged' = flagged) \/ (y.drop /\ flagged' = flagged \cup {Key(y)})
      BY <1>5
    <3> QED
      BY ONLY FrameInv, <1>3, <1>10, <1>14, <2>1, <2>2, <2>3, <3>1, HopStep
  <2> QED
    BY <1>7, <2>4
<1>16. Types'
  BY <1>1, <1>5, <1>6, <1>8, <1>15 DEF Types
<1>17. Home'
  BY <1>1, <1>6 DEF Home
<1>18. OnceEach'
  BY <1>1, <1>6, <1>8, <1>15 DEF OnceEach
<1> QED
  BY <1>15, <1>16, <1>17, <1>18 DEF FrameInv

\* A frame that the blur model raises on is lost.
LEMMA BlurRaiseInv == ASSUME FrameInv, BlurRaise PROVE FrameInv'
<1>1. Types /\ Home /\ OnceEach /\ Written /\ OneRound
  BY DEF FrameInv
<1>2. PICK s : s = inbox["blur"]
  OBVIOUS
<1>3. s \in Seq(Frame) /\ Once(s) /\ s # <<>>
  BY <1>1, <1>2 DEF Types, OnceEach, Inboxes, BlurRaise
<1>4. /\ inbox' = [inbox EXCEPT !["blur"] = Tail(@)]
      /\ lost' = lost \cup {<<"raise", Key(Head(s))>>}
      /\ UNCHANGED <<mode, frame_id, wire, batch, batch_queue, frame_cache, al_cache, saved, flagged, settled>>
  BY <1>2 DEF BlurRaise, config, readers, batcher, caches
<1>5. PICK M, t : M = {Key(Head(s))} /\ t = Tail(s)
  OBVIOUS
<1>6. /\ t \in Seq(Frame) /\ Once(t) /\ ToSet(t) \subseteq ToSet(s)
      /\ Keys(ToSet(s)) = Keys(ToSet(t)) \cup M /\ Keys(ToSet(t)) \cap M = {}
  BY <1>3, <1>5, Popped
<1>7. inbox'["blur"] = t /\ \A n \in Inboxes : n # "blur" => inbox'[n] = inbox[n]
  BY <1>1, <1>2, <1>4, <1>5 DEF Types, Inboxes
<1>8. PICK a : a = <<"inbox", "blur">>
  OBVIOUS
<1>9. \A p \in Place : p \in {a} \/ FramesAt'[p] = FramesAt[p]
  BY <1>4, <1>7, <1>8, Elsewhere
<1>10. "blur" \in Inboxes \ {"create_dataset"} /\ "create_dataset" \in Inboxes /\ "create_dataset" # "blur"
  BY DEF Inboxes
<1>11. a \in Place /\ FramesAt[a] = ToSet(s) /\ FramesAt'[a] = ToSet(t)
  BY <1>2, <1>7, <1>8, <1>10, FramesAtAre, FramesAtNext, PlacesAre
<1>12. "raise" \in Reason /\ "raise" # "batch"
  BY DEF Reason
<1>13. \A l : l \in lost' <=> l \in lost \/ \E c \in M : l = <<"raise", c>>
  BY <1>4, <1>5
<1>14. FramesAt[a] \subseteq Frame
  BY <1>3, <1>11 DEF ToSet
<1>15. Spread(KeysAt, WasRead)' /\ Flags' /\ Losses' /\ lost' \subseteq Reason \X KeySet
  <2>1. /\ Keys(FramesAt[a]) = Keys(FramesAt'[a]) \cup M /\ Keys(FramesAt'[a]) \cap M = {}
        /\ FramesAt'[a] \subseteq FramesAt[a] /\ a \in Place
    BY <1>6, <1>11
  <2>2. settled' = settled /\ flagged' = flagged /\ frame_id' = frame_id /\ mode' = mode
    BY <1>4
  <2> QED
    BY <1>9, <1>12, <1>13, <1>14, <2>1, <2>2, LostMove
<1>16. Types'
  BY <1>1, <1>4, <1>6, <1>7, <1>15 DEF Types
<1>17. Home' /\ OneRound'
  BY <1>1, <1>4 DEF Home, OneRound
<1>18. OnceEach'
  BY <1>1, <1>4, <1>6, <1>7 DEF OnceEach
<1>19. Written'
  BY <1>1, <1>4, <1>7, <1>10 DEF Written
<1> QED
  BY <1>15, <1>16, <1>17, <1>18, <1>19 DEF FrameInv

-----------------------------------------------------------------------------
\* Steps that touch none of this.
LEMMA Untouched ==
  ASSUME FrameInv,
         UNCHANGED <<mode, frame_id, wire, inbox, batch, batch_queue, frame_cache, al_cache, saved, flagged, settled, lost>>
  PROVE  FrameInv'
<1>1. Types /\ Home /\ OnceEach /\ Spread(KeysAt, WasRead) /\ Flags /\ Written /\ Losses /\ OneRound
  BY DEF FrameInv
<1>2. FramesAt' = FramesAt /\ LostKeys' = LostKeys /\ WasRead' = WasRead /\ settled' = settled
  BY DEF FramesAt, LostKeys, WasRead
<1>3. KeysAt' = KeysAt
  BY <1>2 DEF KeysAt
<1>4. Spread(KeysAt, WasRead)'
  BY <1>1, <1>2, <1>3 DEF Spread
<1>5. Flags'
  BY <1>1, <1>2 DEF Flags
<1>6. Types' /\ Home' /\ OnceEach'
  BY <1>1 DEF Types, Home, OnceEach
<1>7. Written' /\ Losses' /\ OneRound'
  BY <1>1 DEF Written, Losses, OneRound
<1> QED
  BY <1>4, <1>5, <1>6, <1>7 DEF FrameInv

\* Several frames go from one place to another as they are.
LEMMA BlockStep ==
  ASSUME FrameInv, NEW a \in Place, NEW b \in Place, a # b, NEW X,
         FramesAt[a] = FramesAt'[a] \cup X, Keys(FramesAt'[a]) \cap Keys(X) = {}, FramesAt'[b] = FramesAt[b] \cup X,
         \A p \in Place : p \in {a, b} \/ FramesAt'[p] = FramesAt[p],
         flagged' = flagged, settled' = settled, lost' = lost, frame_id' = frame_id, mode' = mode, saved' = saved,
         inbox'["create_dataset"] = inbox["create_dataset"]
  PROVE  /\ Spread(KeysAt, WasRead)' /\ Flags' /\ Written' /\ Losses' /\ OneRound'
         /\ Keys(FramesAt[b]) \cap Keys(X) = {}
<1>1. Flags /\ Written /\ Losses /\ OneRound
  BY DEF FrameInv
<1>2. PICK M : M = Keys(X)
  OBVIOUS
<1>3. Keys(FramesAt[a]) = Keys(FramesAt'[a]) \cup M /\ Keys(FramesAt'[b]) = Keys(FramesAt[b]) \cup M
  BY <1>2, KeysUnion
<1>4. KeysAt'[b] = KeysAt[b] \cup M /\ b \in Spots
  BY <1>3, KeysAtAre
<1>5. b # Settled /\ b # Lost /\ LostKeys' = LostKeys
  BY PlacesAre DEF LostKeys
<1>6. \A z \in FramesAt'[b] : z \in FramesAt[b] \/ (Key(z) \in flagged' => z.drop)
  BY <1>1 DEF Flags
<1>7. FramesAt'[a] \subseteq FramesAt[a] /\ Keys(FramesAt'[a]) \cap M = {} /\ flagged' \subseteq flagged \cup M
  BY <1>2
<1>8. Spread(KeysAt, WasRead)' /\ Flags'
  <2>1. /\ a # b /\ settled' = settled /\ frame_id' = frame_id
        /\ \A p \in Place : p \in {a, b} \/ FramesAt'[p] = FramesAt[p]
    OBVIOUS
  <2> QED
    BY ONLY FrameInv, a \in Place, <1>3, <1>4, <1>5, <1>6, <1>7, <2>1, MoveStep
<1>9. Written'
  BY <1>1 DEF Written
<1>10. Losses' /\ OneRound'
  BY <1>1 DEF Losses, OneRound
<1>11. Keys(FramesAt[b]) \cap M = {}
  <2>1. Keys(FramesAt[b]) \cap Keys(FramesAt[a]) = {}
    BY Apart
  <2> QED
    BY <1>3, <2>1
<1> QED
  BY <1>2, <1>8, <1>9, <1>10, <1>11

\* The collecting thread takes a frame.
LEMMA CollectFrameInv == ASSUME FrameInv, NEW n \in BatchNodes, CollectFrame(n) PROVE FrameInv'
<1>1. Types /\ Home /\ OnceEach
  BY DEF FrameInv
<1>2. PICK s, t : s = inbox[n] /\ t = batch[n]
  OBVIOUS
<1>3. /\ n \in Inboxes \ {"create_dataset"} /\ "create_dataset" \in Inboxes /\ "create_dataset" # n
  BY DEF Inboxes, BatchNodes
<1>4. s \in Seq(Frame) /\ Once(s) /\ t \in Seq(Frame) /\ Once(t) /\ s # <<>>
  BY <1>1, <1>2, <1>3 DEF Types, OnceEach, CollectFrame
<1>5. PICK y : y = Head(s)
  OBVIOUS
<1>6. y \in Frame /\ Key(y) = Key(Head(s)) /\ y = Head(s)
  BY <1>4, <1>5, Popped
<1>7. /\ batch' = [batch EXCEPT ![n] = Append(@, y)] /\ inbox' = [inbox EXCEPT ![n] = Tail(@)]
      /\ UNCHANGED <<mode, frame_id, wire, batch_queue, frame_cache, al_cache, saved, flagged, settled, lost>>
  BY <1>2, <1>5 DEF CollectFrame, collecting, config, readers, caches
<1>8. PICK u, v : u = Append(t, y) /\ v = Tail(s)
  OBVIOUS
<1>9. /\ inbox'[n] = v /\ \A m \in Inboxes : m # n => inbox'[m] = inbox[m]
      /\ batch'[n] = u /\ \A m \in BatchNodes : m # n => batch'[m] = batch[m]
  BY <1>1, <1>2, <1>3, <1>7, <1>8 DEF Types
<1>10. PICK a, b : a = <<"inbox", n>> /\ b = <<"batch", n>>
  OBVIOUS
<1>11. \A p \in Place : p \in {a, b} \/ FramesAt'[p] = FramesAt[p]
  BY <1>7, <1>9, <1>10, Elsewhere
<1>12. a \in Place /\ FramesAt[a] = ToSet(s) /\ FramesAt'[a] = ToSet(v)
  BY <1>2, <1>3, <1>9, <1>10, FramesAtAre, FramesAtNext, PlacesAre
<1>13. b \in Place /\ FramesAt[b] = ToSet(t) /\ FramesAt'[b] = ToSet(u)
  BY <1>2, <1>9, <1>10, FramesAtAre, FramesAtNext, PlacesAre
<1>14. inbox'["create_dataset"] = inbox["create_dataset"] /\ a # b
  BY <1>3, <1>9, <1>10
<1>15. /\ Spread(KeysAt, WasRead)' /\ Flags' /\ Written' /\ Losses' /\ OneRound'
       /\ v \in Seq(Frame) /\ Once(v) /\ u \in Seq(Frame) /\ Once(u)
  <2>1. FramesAt'[a] = ToSet(Tail(s)) /\ FramesAt'[b] = ToSet(Append(t, y))
    BY <1>8, <1>12, <1>13
  <2>2. /\ settled' = settled /\ lost' = lost /\ frame_id' = frame_id /\ mode' = mode /\ saved' = saved
        /\ flagged' = flagged
    BY <1>7
  <2>3. a \in Place /\ FramesAt[a] = ToSet(s) /\ b \in Place /\ FramesAt[b] = ToSet(t)
    BY <1>12, <1>13
  <2>4. /\ Spread(KeysAt, WasRead)' /\ Flags' /\ Written' /\ Losses' /\ OneRound'
        /\ Tail(s) \in Seq(Frame) /\ Once(Tail(s)) /\ Append(t, y) \in Seq(Frame) /\ Once(Append(t, y))
    BY ONLY FrameInv, <1>4, <1>6, <1>11, <1>14, <2>1, <2>2, <2>3, HopStep
  <2> QED
    BY <1>8, <2>4
<1>16. Types'
  BY <1>1, <1>7, <1>9, <1>15 DEF Types
<1>17. Home'
  BY <1>1, <1>7 DEF Home
<1>18. OnceEach'
  BY <1>1, <1>7, <1>9, <1>15 DEF OnceEach
<1> QED
  BY <1>15, <1>16, <1>17, <1>18 DEF FrameInv

\* The thread puts its batch into the queue.
LEMMA CollectPutInv == ASSUME FrameInv, NEW n \in BatchNodes, CollectPut(n) PROVE FrameInv'
<1>1. Types /\ Home /\ OnceEach
  BY DEF FrameInv
<1>2. PICK s, q : s = batch[n] /\ q = batch_queue[n]
  OBVIOUS
<1>3. s \in Seq(Frame) /\ Once(s) /\ q \in Seq(Seq(Frame)) /\ OnceQ(q)
  BY <1>1, <1>2 DEF Types, OnceEach
<1>4. /\ batch' = [batch EXCEPT ![n] = <<>>] /\ batch_queue' = [batch_queue EXCEPT ![n] = Append(@, s)]
      /\ UNCHANGED <<mode, frame_id, wire, inbox, frame_cache, al_cache, saved, flagged, settled, lost>>
  BY <1>2 DEF CollectPut, collecting, config, readers, caches
<1>5. PICK r : r = Append(q, s)
  OBVIOUS
<1>6. r \in Seq(Seq(Frame)) /\ Queued(r) = Queued(q) \cup ToSet(s)
  BY <1>3, <1>5, PutIs
<1>7. /\ batch'[n] = <<>> /\ \A m \in BatchNodes : m # n => batch'[m] = batch[m]
      /\ batch_queue'[n] = r /\ \A m \in BatchNodes : m # n => batch_queue'[m] = batch_queue[m]
  BY <1>1, <1>2, <1>4, <1>5 DEF Types
<1>8. ToSet(<<>>) = {} /\ Keys({}) = {} /\ <<>> \in Seq(Frame) /\ Once(<<>>)
  BY DEF ToSet, Keys, Once
<1>9. PICK a, b : a = <<"batch", n>> /\ b = <<"batch_queue", n>>
  OBVIOUS
<1>10. \A p \in Place : p \in {a, b} \/ FramesAt'[p] = FramesAt[p]
  BY <1>4, <1>7, <1>9, Elsewhere
<1>11. a \in Place /\ FramesAt[a] = ToSet(s) /\ FramesAt'[a] = {}
  BY <1>2, <1>7, <1>8, <1>9, FramesAtAre, FramesAtNext, PlacesAre
<1>12. b \in Place /\ FramesAt[b] = Queued(q) /\ FramesAt'[b] = Queued(r)
  BY <1>2, <1>7, <1>9, FramesAtAre, FramesAtNext, PlacesAre
<1>13. /\ Spread(KeysAt, WasRead)' /\ Flags' /\ Written' /\ Losses' /\ OneRound'
       /\ Keys(Queued(q)) \cap Keys(ToSet(s)) = {}
  <2>1. PICK X : X = ToSet(s)
    OBVIOUS
  <2>2. FramesAt[a] = FramesAt'[a] \cup X /\ Keys(FramesAt'[a]) \cap Keys(X) = {} /\ FramesAt'[b] = FramesAt[b] \cup X
    BY <1>6, <1>8, <1>11, <1>12, <2>1
  <2>3. /\ settled' = settled /\ lost' = lost /\ frame_id' = frame_id /\ mode' = mode /\ saved' = saved
        /\ flagged' = flagged /\ inbox'["create_dataset"] = inbox["create_dataset"]
    BY <1>4
  <2>4. a \in Place /\ b \in Place /\ a # b
    BY <1>9, <1>11, <1>12
  <2>5. /\ Spread(KeysAt, WasRead)' /\ Flags' /\ Written' /\ Losses' /\ OneRound'
        /\ Keys(FramesAt[b]) \cap Keys(X) = {}
    BY ONLY FrameInv, <1>10, <2>2, <2>3, <2>4, BlockStep
  <2> QED
    BY <1>12, <2>1, <2>5
<1>14. OnceQ(r)
  BY <1>3, <1>5, <1>13, PutOnce
<1>15. Types'
  BY <1>1, <1>4, <1>6, <1>7, <1>8 DEF Types
<1>16. Home'
  BY <1>1, <1>4 DEF Home
<1>17. OnceEach'
  BY <1>1, <1>4, <1>7, <1>8, <1>14 DEF OnceEach
<1> QED
  BY <1>13, <1>15, <1>16, <1>17 DEF FrameInv

\* A thread that ends while it waits for the queue loses its batch.
LEMMA CollectExitInv == ASSUME FrameInv, NEW n \in BatchNodes, CollectExit(n) PROVE FrameInv'
<1>1. Types /\ Home /\ OnceEach /\ Written /\ OneRound
  BY DEF FrameInv
<1>2. PICK s, M : s = batch[n] /\ M = Keys(ToSet(s))
  OBVIOUS
<1>3. s \in Seq(Frame) /\ Once(s)
  BY <1>1, <1>2 DEF Types, OnceEach
<1>4. /\ batch' = [batch EXCEPT ![n] = <<>>]
      /\ lost' = lost \cup {<<"stop", Key(s[i])>> : i \in DOMAIN s}
      /\ UNCHANGED <<mode, frame_id, wire, inbox, batch_queue, frame_cache, al_cache, saved, flagged, settled>>
  BY <1>2 DEF CollectExit, collecting, config, readers, caches
<1>5. \A l : l \in lost' <=> l \in lost \/ \E c \in M : l = <<"stop", c>>
  BY <1>2, <1>4 DEF Keys, ToSet
<1>6. batch'[n] = <<>> /\ \A m \in BatchNodes : m # n => batch'[m] = batch[m]
  BY <1>1, <1>4 DEF Types
<1>7. ToSet(<<>>) = {} /\ Keys({}) = {} /\ <<>> \in Seq(Frame) /\ Once(<<>>)
  BY DEF ToSet, Keys, Once
<1>8. PICK a : a = <<"batch", n>>
  OBVIOUS
<1>9. \A p \in Place : p \in {a} \/ FramesAt'[p] = FramesAt[p]
  BY <1>4, <1>6, <1>8, Elsewhere
<1>10. a \in Place /\ FramesAt[a] = ToSet(s) /\ FramesAt'[a] = {}
  BY <1>2, <1>6, <1>7, <1>8, FramesAtAre, FramesAtNext, PlacesAre
<1>11. "stop" \in Reason /\ "stop" # "batch"
  BY DEF Reason
<1>12. FramesAt[a] \subseteq Frame
  BY <1>3, <1>10 DEF ToSet
<1>13. Spread(KeysAt, WasRead)' /\ Flags' /\ Losses' /\ lost' \subseteq Reason \X KeySet
  <2>1. /\ Keys(FramesAt[a]) = Keys(FramesAt'[a]) \cup M /\ Keys(FramesAt'[a]) \cap M = {}
        /\ FramesAt'[a] \subseteq FramesAt[a] /\ a \in Place
    BY <1>2, <1>7, <1>10
  <2>2. settled' = settled /\ flagged' = flagged /\ frame_id' = frame_id /\ mode' = mode
    BY <1>4
  <2> QED
    BY ONLY FrameInv, <1>5, <1>9, <1>11, <1>12, <2>1, <2>2, LostMove
<1>14. Types'
  BY <1>1, <1>4, <1>6, <1>7, <1>13 DEF Types
<1>15. Home' /\ OneRound' /\ Written'
  BY <1>1, <1>4 DEF Home, OneRound, Written
<1>16. OnceEach'
  BY <1>1, <1>4, <1>6, <1>7 DEF OnceEach
<1> QED
  BY <1>13, <1>14, <1>15, <1>16 DEF FrameInv

\* A batch that the detector raises on is lost.
LEMMA DetectRaiseInv == ASSUME FrameInv, DetectRaise PROVE FrameInv'
<1>1. Types /\ Home /\ OnceEach /\ Written /\ OneRound
  BY DEF FrameInv
<1>2. PICK n \in BatchNodes : n = "model"
  BY DEF BatchNodes
<1>2a. PICK q : q = batch_queue[n]
  OBVIOUS
<1>3. q \in Seq(Seq(Frame)) /\ OnceQ(q) /\ q # <<>>
  BY <1>1, <1>2, <1>2a DEF Types, OnceEach, DetectRaise, Ready
<1>4. PICK s, r, M : s = Head(q) /\ r = Tail(q) /\ M = Keys(ToSet(s))
  OBVIOUS
<1>5. /\ batch_queue' = [batch_queue EXCEPT ![n] = Tail(@)]
      /\ lost' = lost \cup {<<"raise", k>> : k \in M}
      /\ UNCHANGED <<mode, frame_id, wire, inbox, batch, frame_cache, al_cache, saved, flagged, settled>>
  BY <1>2, <1>2a, <1>4 DEF DetectRaise, Unqueue, config, readers, caches
<1>6. \A l : l \in lost' <=> l \in lost \/ \E c \in M : l = <<"raise", c>>
  BY <1>5
<1>7. /\ r \in Seq(Seq(Frame)) /\ OnceQ(r) /\ s \in Seq(Frame)
      /\ Queued(q) = ToSet(s) \cup Queued(r) /\ Keys(ToSet(s)) \cap Keys(Queued(r)) = {}
  BY <1>3, <1>4, GetIs
<1>8. batch_queue'[n] = r /\ \A m \in BatchNodes : m # n => batch_queue'[m] = batch_queue[m]
  BY <1>1, <1>2a, <1>4, <1>5 DEF Types
<1>9. PICK a : a = <<"batch_queue", n>>
  OBVIOUS
<1>10. \A p \in Place : p \in {a} \/ FramesAt'[p] = FramesAt[p]
  BY <1>5, <1>8, <1>9, Elsewhere
<1>11. a \in Place /\ FramesAt[a] = Queued(q) /\ FramesAt'[a] = Queued(r)
  BY <1>2a, <1>8, <1>9, FramesAtAre, FramesAtNext, PlacesAre
<1>12. "raise" \in Reason /\ "raise" # "batch"
  BY DEF Reason
<1>13. FramesAt[a] \subseteq Frame
  BY <1>3, <1>11 DEF ToSet, Queued
<1>14. Spread(KeysAt, WasRead)' /\ Flags' /\ Losses' /\ lost' \subseteq Reason \X KeySet
  <2>1. /\ Keys(FramesAt[a]) = Keys(FramesAt'[a]) \cup M /\ Keys(FramesAt'[a]) \cap M = {}
        /\ FramesAt'[a] \subseteq FramesAt[a] /\ a \in Place
    BY <1>4, <1>7, <1>11, KeysUnion
  <2>2. settled' = settled /\ flagged' = flagged /\ frame_id' = frame_id /\ mode' = mode
    BY <1>5
  <2> QED
    BY ONLY FrameInv, <1>6, <1>10, <1>12, <1>13, <2>1, <2>2, LostMove
<1>15. Types'
  BY <1>1, <1>5, <1>7, <1>8, <1>14 DEF Types
<1>16. Home' /\ OneRound' /\ Written'
  BY <1>1, <1>5 DEF Home, OneRound, Written
<1>17. OnceEach'
  BY <1>1, <1>5, <1>7, <1>8 DEF OnceEach
<1> QED
  BY <1>14, <1>15, <1>16, <1>17 DEF FrameInv

\* The detector sends its batch on, frame by frame.
LEMMA DetectProcessInv == ASSUME FrameInv, DetectProcess PROVE FrameInv'
<1>1. Types /\ Home /\ OnceEach
  BY DEF FrameInv
<1>2. PICK n, q, t : n = "model" /\ q = batch_queue[n] /\ t = inbox["active_learning"]
  OBVIOUS
<1>3. /\ n \in BatchNodes /\ "active_learning" \in Inboxes \ {"create_dataset"}
      /\ "create_dataset" \in Inboxes /\ "create_dataset" # "active_learning"
  BY <1>2 DEF Inboxes, BatchNodes
<1>4. q \in Seq(Seq(Frame)) /\ OnceQ(q) /\ q # <<>> /\ t \in Seq(Frame) /\ Once(t)
  BY <1>1, <1>2, <1>3 DEF Types, OnceEach, DetectProcess, Ready
<1>5. PICK s, r, u : s = Head(q) /\ r = Tail(q) /\ u = t \o s
  OBVIOUS
<1>6. /\ batch_queue' = [batch_queue EXCEPT ![n] = Tail(@)] /\ inbox' = [inbox EXCEPT !["active_learning"] = @ \o s]
      /\ UNCHANGED <<mode, frame_id, wire, batch, frame_cache, al_cache, saved, flagged, settled, lost>>
  BY <1>2, <1>5 DEF DetectProcess, Unqueue, Deliver, config, readers, caches, history
<1>7. /\ r \in Seq(Seq(Frame)) /\ OnceQ(r) /\ s \in Seq(Frame) /\ Once(s)
      /\ Queued(q) = ToSet(s) \cup Queued(r) /\ Keys(ToSet(s)) \cap Keys(Queued(r)) = {}
  BY <1>4, <1>5, GetIs
<1>8. u \in Seq(Frame) /\ ToSet(u) = ToSet(t) \cup ToSet(s)
  BY <1>4, <1>5, <1>7, JoinIs
<1>9. /\ batch_queue'[n] = r /\ \A m \in BatchNodes : m # n => batch_queue'[m] = batch_queue[m]
      /\ inbox'["active_learning"] = u /\ \A m \in Inboxes : m # "active_learning" => inbox'[m] = inbox[m]
  BY <1>1, <1>2, <1>3, <1>5, <1>6 DEF Types
<1>10. PICK a, b : a = <<"batch_queue", n>> /\ b = <<"inbox", "active_learning">>
  OBVIOUS
<1>11. \A p \in Place : p \in {a, b} \/ FramesAt'[p] = FramesAt[p]
  BY <1>6, <1>9, <1>10, Elsewhere
<1>12. a \in Place /\ FramesAt[a] = Queued(q) /\ FramesAt'[a] = Queued(r)
  BY <1>2, <1>3, <1>9, <1>10, FramesAtAre, FramesAtNext, PlacesAre
<1>13. b \in Place /\ FramesAt[b] = ToSet(t) /\ FramesAt'[b] = ToSet(u)
  BY <1>2, <1>3, <1>9, <1>10, FramesAtAre, FramesAtNext, PlacesAre
<1>14. /\ Spread(KeysAt, WasRead)' /\ Flags' /\ Written' /\ Losses' /\ OneRound'
       /\ Keys(ToSet(t)) \cap Keys(ToSet(s)) = {}
  <2>1. PICK X : X = ToSet(s)
    OBVIOUS
  <2>2. FramesAt[a] = FramesAt'[a] \cup X /\ Keys(FramesAt'[a]) \cap Keys(X) = {} /\ FramesAt'[b] = FramesAt[b] \cup X
    BY <1>7, <1>8, <1>12, <1>13, <2>1
  <2>3. /\ settled' = settled /\ lost' = lost /\ frame_id' = frame_id /\ mode' = mode /\ saved' = saved
        /\ flagged' = flagged /\ inbox'["create_dataset"] = inbox["create_dataset"]
    BY <1>3, <1>6, <1>9
  <2>4. a \in Place /\ b \in Place /\ a # b
    BY <1>10, <1>12, <1>13
  <2>5. /\ Spread(KeysAt, WasRead)' /\ Flags' /\ Written' /\ Losses' /\ OneRound'
        /\ Keys(FramesAt[b]) \cap Keys(X) = {}
    BY ONLY FrameInv, <1>11, <2>2, <2>3, <2>4, BlockStep
  <2> QED
    BY <1>13, <2>1, <2>5
<1>15. Once(u)
  BY <1>4, <1>5, <1>7, <1>14, JoinOnce
<1>16. Types'
  BY <1>1, <1>6, <1>7, <1>8, <1>9 DEF Types
<1>17. Home'
  BY <1>1, <1>6 DEF Home
<1>18. OnceEach'
  BY <1>1, <1>6, <1>7, <1>9, <1>15 DEF OnceEach
<1> QED
  BY <1>14, <1>16, <1>17, <1>18 DEF FrameInv

\* A frame that was kept is written to the dataset.
LEMMA CreateDatasetProcessInv == ASSUME FrameInv, CreateDatasetProcess PROVE FrameInv'
<1>1. Types /\ Home /\ OnceEach /\ Spread(KeysAt, WasRead) /\ Flags /\ Written /\ Losses /\ OneRound
  BY DEF FrameInv
<1>2. PICK s, n : n = "create_dataset" /\ s = inbox[n]
  OBVIOUS
<1>3. n \in Inboxes /\ s \in Seq(Frame) /\ s # <<>>
  BY <1>1, <1>2 DEF Types, Inboxes, CreateDatasetProcess
<1>4. PICK t : t = Tail(s)
  OBVIOUS
<1>5. t \in Seq(Frame) /\ ToSet(s) = {Head(s)} \cup ToSet(t)
  BY <1>3, <1>4, TailIs
<1>6. /\ inbox' = [inbox EXCEPT ![n] = Tail(@)] /\ saved' \subseteq saved \cup {Key(Head(s))}
      /\ UNCHANGED <<mode, frame_id, wire, batch, batch_queue, frame_cache, al_cache, flagged, settled, lost>>
  BY <1>2 DEF CreateDatasetProcess, config, readers, batcher, caches, history
<1>7. inbox'[n] = t /\ \A m \in Inboxes : m # n => inbox'[m] = inbox[m]
  BY <1>1, <1>2, <1>3, <1>4, <1>6 DEF Types
<1>8. \A p \in Place : FramesAt'[p] = FramesAt[p]
  <2>1. PICK C : C = {}
    OBVIOUS
  <2>2. \A p \in Place : p \in C \/ FramesAt'[p] = FramesAt[p]
    BY <1>2, <1>6, <1>7, Elsewhere
  <2> QED
    BY <2>1, <2>2
<1>9. LostKeys' = LostKeys /\ WasRead' = WasRead /\ settled' = settled
  BY <1>6 DEF LostKeys, WasRead
<1>10. \A p \in Spots : KeysAt'[p] = KeysAt[p]
  BY <1>8, <1>9, KeysAtAre
<1>11. Spread(KeysAt, WasRead)'
  BY <1>1, <1>9, <1>10 DEF Spread
<1>12. Flags'
  BY <1>1, <1>6, <1>8, <1>9 DEF Flags
<1>13. Written'
  <2>1. Key(Head(s)) \in settled /\ Key(Head(s)) \notin flagged
    BY <1>1, <1>2, <1>5 DEF Written
  <2>2. \A x \in ToSet(t) : Key(x) \in settled /\ Key(x) \notin flagged
    BY <1>1, <1>2, <1>5 DEF Written
  <2>3. inbox'["create_dataset"] = t
    BY <1>2, <1>7
  <2>4. saved' \subseteq settled /\ saved' \cap flagged = {}
    BY <1>1, <1>6, <2>1 DEF Written
  <2> QED
    BY <1>6, <2>2, <2>3, <2>4 DEF Written
<1>14. Types'
  BY <1>1, <1>5, <1>6, <1>7 DEF Types
<1>15. Home' /\ Losses' /\ OneRound'
  BY <1>1, <1>6 DEF Home, Losses, OneRound
<1>16. OnceEach'
  BY <1>1, <1>2, <1>6, <1>7 DEF OnceEach
<1> QED
  BY <1>11, <1>12, <1>13, <1>14, <1>15, <1>16 DEF FrameInv

-----------------------------------------------------------------------------
\* A cache that a frame with a new key is added to.
LEMMA CacheIs ==
  ASSUME NEW C \in SUBSET Frame, NEW x \in Frame, OnceC(C), Key(x) \notin Keys(C)
  PROVE  C \cup {x} \in SUBSET Frame /\ OnceC(C \cup {x}) /\ Keys(C \cup {x}) = Keys(C) \cup {Key(x)}
<1>1. Keys({x}) = {Key(x)}
  BY DEF Keys
<1>2. OnceC(C \cup {x})
  BY DEF OnceC, Keys
<1> QED
  BY <1>1, <1>2, KeysUnion

\* Active learning takes a frame ...
LEMMA Learned ==
  ASSUME FrameInv, ActiveLearn, NEW s, s = inbox["active_learning"], NEW x, x = Head(s)
  PROVE  /\ s \in Seq(Frame) /\ Once(s) /\ s # <<>> /\ x \in Frame /\ x.src \in Folders
         /\ Tail(s) \in Seq(Frame) /\ Once(Tail(s)) /\ ToSet(s) = ToSet(Tail(s)) \cup {x}
         /\ Key(x) \notin Keys(ToSet(Tail(s)))
         /\ AlCached(x) \in [Folders -> SUBSET Frame]
         /\ AlCached(x)[x.src] = al_cache[x.src] \cup {x}
         /\ \A f \in Folders : f # x.src => AlCached(x)[f] = al_cache[f]
         /\ \A f \in Folders : OnceC(AlCached(x)[f]) /\ \A y \in AlCached(x)[f] : y.src = f
         /\ \A f \in Folders : Key(x) \notin Keys(al_cache[f])
<1>1. Types /\ Home /\ OnceEach
  BY DEF FrameInv
<1>2. s \in Seq(Frame) /\ Once(s) /\ s # <<>>
  BY <1>1 DEF Types, OnceEach, Inboxes, ActiveLearn
<1>3. x \in Frame /\ x \in ToSet(s) /\ Tail(s) \in Seq(Frame) /\ Once(Tail(s))
      /\ Keys(ToSet(Tail(s))) \cap {Key(x)} = {}
  BY <1>2, Popped
<1>4. ToSet(s) = ToSet(Tail(s)) \cup {x}
  BY <1>2, TailIs
<1>5. x.src \in Folders
  BY <1>3 DEF Frame
<1>6. ASSUME NEW f \in Folders PROVE Key(x) \notin Keys(al_cache[f])
  <2>1. PICK a, b : a = <<"inbox", "active_learning">> /\ b = <<"al_cache", f>>
    OBVIOUS
  <2>2. "active_learning" \in Inboxes \ {"create_dataset"}
    BY DEF Inboxes
  <2>3. a \in Place /\ FramesAt[a] = ToSet(s)
    BY <2>1, <2>2, FramesAtAre, PlacesAre
  <2>4. b \in Place /\ FramesAt[b] = al_cache[f] /\ a # b
    BY <2>1, FramesAtAre, PlacesAre
  <2>5. Keys(FramesAt[a]) \cap Keys(FramesAt[b]) = {}
    BY <2>3, <2>4, Apart
  <2>6. Key(x) \in Keys(FramesAt[a])
    BY <1>3, <2>3 DEF Keys
  <2> QED
    BY <2>4, <2>5, <2>6
<1>7. /\ AlCached(x)[x.src] = al_cache[x.src] \cup {x}
      /\ \A f \in Folders : f # x.src => AlCached(x)[f] = al_cache[f]
      /\ DOMAIN AlCached(x) = Folders
  BY <1>1, <1>5 DEF Types, AlCached
<1>8. AlCached(x)[x.src] \in SUBSET Frame /\ OnceC(AlCached(x)[x.src])
  <2>1. al_cache[x.src] \in SUBSET Frame /\ OnceC(al_cache[x.src])
    BY <1>1, <1>5 DEF Types, OnceEach
  <2>2. PICK C : C = al_cache[x.src]
    OBVIOUS
  <2>3. C \in SUBSET Frame /\ OnceC(C) /\ Key(x) \notin Keys(C) /\ x \in Frame
    BY <1>3, <1>5, <1>6, <2>1, <2>2
  <2>4. C \cup {x} \in SUBSET Frame /\ OnceC(C \cup {x})
    BY ONLY <2>3, CacheIs
  <2>5. AlCached(x)[x.src] = C \cup {x}
    BY <1>7, <2>2
  <2> QED
    BY ONLY <2>4, <2>5
<1>9. AlCached(x) \in [Folders -> SUBSET Frame]
  <2>1. AlCached(x) = [al_cache EXCEPT ![x.src] = @ \cup {x}]
    BY DEF AlCached
  <2> QED
    BY <1>1, <1>5, <1>7, <1>8, <2>1 DEF Types
<1>10. \A f \in Folders : OnceC(AlCached(x)[f])
  BY <1>1, <1>7, <1>8 DEF OnceEach
<1>11. \A f \in Folders : \A y \in AlCached(x)[f] : y.src = f
  BY <1>1, <1>7 DEF Home
<1> QED
  BY <1>2, <1>3, <1>4, <1>5, <1>6, <1>7, <1>9, <1>10, <1>11

\* ... and keeps it in its cache, ...
LEMMA KeepInv ==
  ASSUME FrameInv, ActiveLearn, NEW x, x = Head(inbox["active_learning"]),
         al_cache' = AlCached(x), inbox' = [inbox EXCEPT !["active_learning"] = Tail(@)], settled' = settled
  PROVE  FrameInv'
<1>1. Types /\ Home /\ OnceEach
  BY DEF FrameInv
<1>2. PICK s, t, f : s = inbox["active_learning"] /\ t = Tail(s) /\ f = x.src
  OBVIOUS
<1>3. /\ s \in Seq(Frame) /\ x \in Frame /\ f \in Folders
      /\ t \in Seq(Frame) /\ Once(t) /\ ToSet(s) = ToSet(t) \cup {x} /\ Key(x) \notin Keys(ToSet(t))
      /\ al_cache' \in [Folders -> SUBSET Frame] /\ al_cache'[f] = al_cache[f] \cup {x}
      /\ \A g \in Folders : g # f => al_cache'[g] = al_cache[g]
      /\ \A g \in Folders : OnceC(al_cache'[g]) /\ \A y \in al_cache'[g] : y.src = g
  BY <1>2, Learned
<1>4. /\ mode' = mode /\ frame_id' = frame_id /\ saved' = saved /\ flagged' = flagged /\ lost' = lost
      /\ wire' = wire /\ batch' = batch /\ batch_queue' = batch_queue /\ frame_cache' = frame_cache
  BY DEF ActiveLearn, config, readers, batcher
<1>5. inbox'["active_learning"] = t /\ \A m \in Inboxes : m # "active_learning" => inbox'[m] = inbox[m]
  BY <1>1, <1>2 DEF Types, Inboxes
<1>6. PICK a, b, X : a = <<"inbox", "active_learning">> /\ b = <<"al_cache", f>> /\ X = {x}
  OBVIOUS
<1>7. \A p \in Place : p \in {a, b} \/ FramesAt'[p] = FramesAt[p]
  BY <1>3, <1>4, <1>5, <1>6, Elsewhere
<1>8. /\ "active_learning" \in Inboxes \ {"create_dataset"}
      /\ "create_dataset" \in Inboxes /\ "create_dataset" # "active_learning"
  BY DEF Inboxes
<1>9. a \in Place /\ FramesAt[a] = ToSet(s) /\ FramesAt'[a] = ToSet(t)
  BY <1>2, <1>5, <1>6, <1>8, FramesAtAre, FramesAtNext, PlacesAre
<1>10. b \in Place /\ FramesAt[b] = al_cache[f] /\ FramesAt'[b] = al_cache'[f]
  BY <1>3, <1>6, FramesAtAre, FramesAtNext, PlacesAre
<1>11. FramesAt[a] = FramesAt'[a] \cup X /\ Keys(FramesAt'[a]) \cap Keys(X) = {} /\ FramesAt'[b] = FramesAt[b] \cup X
  BY <1>3, <1>6, <1>9, <1>10 DEF Keys
<1>12. inbox'["create_dataset"] = inbox["create_dataset"] /\ a # b
  BY <1>5, <1>6, <1>8
<1>13. Spread(KeysAt, WasRead)' /\ Flags' /\ Written' /\ Losses' /\ OneRound'
  <2>1. a \in Place /\ b \in Place
    BY <1>9, <1>10
  <2>2. flagged' = flagged /\ lost' = lost /\ frame_id' = frame_id /\ mode' = mode /\ saved' = saved
    BY <1>4
  <2> QED
    BY ONLY FrameInv, settled' = settled, <1>7, <1>11, <1>12, <2>1, <2>2, BlockStep
<1>14. Types'
  BY <1>1, <1>3, <1>4, <1>5 DEF Types
<1>15. Home'
  BY <1>1, <1>3, <1>4 DEF Home
<1>16. OnceEach'
  BY <1>1, <1>3, <1>4, <1>5 DEF OnceEach
<1> QED
  BY <1>13, <1>14, <1>15, <1>16 DEF FrameInv

\* ... or is done with everything it has cached.
LEMMA SettleInv ==
  ASSUME FrameInv, ActiveLearn, NEW x, x = Head(inbox["active_learning"]), NEW c, c = AlCached(x),
         NEW chosen \in SUBSET Candidates(c), NEW frames \in Enumerations(chosen),
         inbox' = [inbox EXCEPT !["active_learning"] = Tail(@), !["create_dataset"] = @ \o frames],
         al_cache' \in [Folders -> SUBSET Frame], \A f \in Folders : al_cache'[f] = {},
         NEW M, settled' = settled \cup M, \A k : k \in M <=> \E f \in Folders : k \in Keys(c[f])
  PROVE  FrameInv'
<1>1. Types /\ Home /\ OnceEach /\ Spread(KeysAt, WasRead) /\ Flags /\ Written /\ Losses /\ OneRound
  BY DEF FrameInv
<1>2. PICK s, t, w : s = inbox["active_learning"] /\ t = Tail(s) /\ w = inbox["create_dataset"]
  OBVIOUS
<1>3. /\ s \in Seq(Frame) /\ x \in Frame /\ x.src \in Folders
      /\ t \in Seq(Frame) /\ Once(t) /\ ToSet(s) = ToSet(t) \cup {x} /\ Key(x) \notin Keys(ToSet(t))
      /\ c \in [Folders -> SUBSET Frame] /\ c[x.src] = al_cache[x.src] \cup {x}
      /\ \A g \in Folders : g # x.src => c[g] = al_cache[g]
  BY <1>2, Learned
<1>4. /\ mode' = mode /\ frame_id' = frame_id /\ saved' = saved /\ flagged' = flagged /\ lost' = lost
      /\ wire' = wire /\ batch' = batch /\ batch_queue' = batch_queue /\ frame_cache' = frame_cache
      /\ LostKeys' = LostKeys /\ WasRead' = WasRead
  BY DEF ActiveLearn, config, readers, batcher, LostKeys, WasRead
<1>5. /\ "active_learning" \in Inboxes \ {"create_dataset"}
      /\ "create_dataset" \in Inboxes /\ "create_dataset" # "active_learning"
  BY DEF Inboxes
<1>6. w \in Seq(Frame)
  BY <1>1, <1>2, <1>5 DEF Types
<1>7. \A y \in chosen : y \in Frame /\ ~y.drop /\ \E f \in Folders : y \in c[f]
  BY <1>3 DEF Candidates
<1>8. frames \in Seq(Frame) /\ ToSet(frames) = chosen
  BY <1>7, EnumerationIs
<1>9. w \o frames \in Seq(Frame) /\ ToSet(w \o frames) = ToSet(w) \cup chosen
  BY <1>6, <1>8, JoinIs
<1>10. /\ inbox'["active_learning"] = t /\ inbox'["create_dataset"] = w \o frames
       /\ \A m \in Inboxes : m \notin {"active_learning", "create_dataset"} => inbox'[m] = inbox[m]
  BY <1>1, <1>2, <1>5 DEF Types
<1>11. PICK a, A : a = <<"inbox", "active_learning">> /\ A = {<<"al_cache", f>> : f \in Folders}
  OBVIOUS
<1>12. a \in Place /\ FramesAt[a] = ToSet(s) /\ FramesAt'[a] = ToSet(t)
  BY <1>2, <1>5, <1>10, <1>11, FramesAtAre, FramesAtNext, PlacesAre
<1>13. \A f \in Folders : /\ <<"al_cache", f>> \in Place /\ <<"al_cache", f>> \in A /\ a # <<"al_cache", f>>
                          /\ FramesAt[<<"al_cache", f>>] = al_cache[f] /\ FramesAt'[<<"al_cache", f>>] = {}
  BY <1>11, FramesAtAre, FramesAtNext, PlacesAre
<1>14. \A p \in Place : p \in A \cup {a} \/ FramesAt'[p] = FramesAt[p]
  <2>1. PICK C : C = A \cup {a}
    OBVIOUS
  <2>2. \A f \in Folders : <<"al_cache", f>> \in C
    BY <1>13, <2>1
  <2>3. \A n \in Inboxes \ {"create_dataset"} : <<"inbox", n>> \in C \/ inbox'[n] = inbox[n]
    BY <1>10, <1>11, <2>1
  <2>4. \A p \in Place : p \in C \/ FramesAt'[p] = FramesAt[p]
    BY <1>4, <2>2, <2>3, Elsewhere
  <2> QED
    BY <2>1, <2>4
<1>15. \A k : k \in M <=> k = Key(x) \/ \E f \in Folders : k \in Keys(al_cache[f])
  <2>1. Keys(c[x.src]) = Keys(al_cache[x.src]) \cup {Key(x)}
    BY <1>3 DEF Keys
  <2>2. \A f \in Folders : f # x.src => Keys(c[f]) = Keys(al_cache[f])
    BY <1>3
  <2>3. x.src \in Folders /\ \A k : k \in M <=> \E f \in Folders : k \in Keys(c[f])
    BY <1>3
  <2> QED
    BY ONLY <2>1, <2>2, <2>3
<1>16. \A k \in M : \E p \in A \cup {a} : p \in Place /\ k \in Keys(FramesAt[p])
  <2>1. Key(x) \in Keys(FramesAt[a])
    BY <1>3, <1>12 DEF Keys
  <2> SUFFICES ASSUME NEW k \in M PROVE \E p \in A \cup {a} : p \in Place /\ k \in Keys(FramesAt[p])
    OBVIOUS
  <2>2. CASE k = Key(x)
    BY <1>12, <2>1, <2>2
  <2>3. ASSUME NEW f \in Folders, k \in Keys(al_cache[f])
        PROVE  \E p \in A \cup {a} : p \in Place /\ k \in Keys(FramesAt[p])
    <3>1. PICK p : p = <<"al_cache", f>>
      OBVIOUS
    <3>2. p \in A \cup {a} /\ p \in Place /\ k \in Keys(FramesAt[p])
      BY <1>13, <2>3, <3>1
    <3> QED
      BY <3>2
  <2> QED
    BY <1>15, <2>2, <2>3
<1>17. M \cap settled = {} /\ M \cap LostKeys = {} /\ M \subseteq WasRead
  BY <1>16, Apart
<1>18. \A p \in Place : p \in A \cup {a} \/ Keys(FramesAt[p]) \cap M = {}
  BY <1>16, Apart
<1>19. \A k : k \in Keys(FramesAt'[a]) <=> k \in Keys(FramesAt[a]) /\ k \notin M
  <2>1. Keys(ToSet(s)) = Keys(ToSet(t)) \cup {Key(x)}
    BY <1>3 DEF Keys
  <2>2. \A f \in Folders : Keys(FramesAt[a]) \cap Keys(al_cache[f]) = {}
    BY <1>12, <1>13, Apart
  <2> QED
    BY <1>3, <1>12, <1>15, <2>1, <2>2
<1>20. \A f \in Folders : \A k : k \in Keys(FramesAt'[<<"al_cache", f>>]) <=> k \in Keys(FramesAt[<<"al_cache", f>>]) /\ k \notin M
  BY <1>13, <1>15 DEF Keys
<1>21. \A p \in Place : \A k : k \in Keys(FramesAt'[p]) <=> k \in Keys(FramesAt[p]) /\ k \notin M
  BY <1>11, <1>14, <1>18, <1>19, <1>20
<1>22. Spread(KeysAt', WasRead)
  <2>1. PICK g : g = [k \in M |-> Settled]
    OBVIOUS
  <2>2. M \in SUBSET WasRead /\ g \in [M -> Spots] /\ \A k \in M : g[k] = Settled
    BY <1>17, <2>1, KeysAtAre
  <2>3. \A p \in Place : p # Settled
    BY PlacesAre
  <2>4. \A p \in Place : \A k : k \in KeysAt'[p] <=> (k \in KeysAt[p] /\ k \notin M) \/ (k \in M /\ g[k] = p)
    BY <1>21, <2>2, <2>3, KeysAtAre
  <2>5. \A k : k \in KeysAt'[Settled] <=> (k \in KeysAt[Settled] /\ k \notin M) \/ (k \in M /\ g[k] = Settled)
    BY <1>17, <2>2, KeysAtAre
  <2>6. Lost # Settled /\ \A k : k \in KeysAt'[Lost] <=> (k \in KeysAt[Lost] /\ k \notin M) \/ (k \in M /\ g[k] = Lost)
    BY <1>4, <1>17, <2>2, KeysAtAre, PlacesAre
  <2>7. \A p \in Spots : \A k : k \in KeysAt'[p] <=> (k \in KeysAt[p] /\ k \notin M) \/ (k \in M /\ g[k] = p)
    BY <2>4, <2>5, <2>6, KeysAtAre
  <2> QED
    BY ONLY <1>1, <2>2, <2>7, Relocated
<1>23. Spread(KeysAt, WasRead)'
  BY <1>4, <1>22 DEF Spread
<1>24. Flags'
  <2>1. \A p \in Place : FramesAt'[p] \subseteq FramesAt[p]
    <3> SUFFICES ASSUME NEW p \in Place PROVE FramesAt'[p] \subseteq FramesAt[p]
      OBVIOUS
    <3>1. CASE p \in A
      BY <1>11, <1>13, <3>1
    <3>2. CASE p = a
      BY <1>3, <1>12, <3>2
    <3> QED
      BY <1>14, <3>1, <3>2
  <2> QED
    BY <1>1, <1>4, <2>1 DEF Flags
<1>25. Written'
  <2>1. ASSUME NEW y \in chosen PROVE Key(y) \in M /\ Key(y) \notin flagged
    <3>1. PICK f \in Folders : y \in c[f]
      BY <1>7
    <3>2. Key(y) \in M
      BY <3>1 DEF Keys
    <3>3. y \in al_cache[f] \/ y = x
      BY <1>3, <3>1
    <3>4. \E p \in Place : y \in FramesAt[p]
      <4>1. CASE y \in al_cache[f]
        BY <1>13, <4>1
      <4>2. CASE y = x
        BY <1>3, <1>12, <4>2
      <4> QED
        BY <3>3, <4>1, <4>2
    <3> QED
      BY <1>1, <1>7, <3>2, <3>4 DEF Flags
  <2>2. settled' = settled \cup M
    OBVIOUS
  <2>3. \A y \in ToSet(inbox'["create_dataset"]) : y \in ToSet(w) \/ y \in chosen
    BY <1>9, <1>10
  <2>4. \A y \in ToSet(w) : Key(y) \in settled /\ Key(y) \notin flagged
    BY <1>1, <1>2 DEF Written
  <2>5. \A y \in ToSet(inbox'["create_dataset"]) : Key(y) \in settled' /\ Key(y) \notin flagged'
    BY <1>4, <2>1, <2>2, <2>3, <2>4
  <2> QED
    BY <1>1, <1>4, <2>2, <2>5 DEF Written
<1>26. Losses' /\ OneRound'
  BY <1>1, <1>4 DEF Losses, OneRound
<1>27. Types'
  <2>1. inbox' \in [Inboxes -> Seq(Frame)]
    BY <1>1, <1>3, <1>9, <1>10 DEF Types
  <2> QED
    BY <1>1, <1>4, <2>1 DEF Types
<1>28. Home'
  BY <1>1, <1>4 DEF Home
<1>29. OnceEach'
  BY <1>1, <1>3, <1>4, <1>10 DEF OnceEach, OnceC
<1> QED
  BY <1>23, <1>24, <1>25, <1>26, <1>27, <1>28, <1>29 DEF FrameInv

\* Active learning.
LEMMA ActiveLearnInv == ASSUME FrameInv, ActiveLearn PROVE FrameInv'
<1>1. PICK x : x = Head(inbox["active_learning"])
  OBVIOUS
<1>2. PICK c : c = AlCached(x)
  OBVIOUS
<1>3. PICK rest : rest = [inbox EXCEPT !["active_learning"] = Tail(@)]
  OBVIOUS
<1>4. \/ al_cache' = c /\ inbox' = rest /\ settled' = settled
      \/ /\ \E chosen \in active_select(Candidates(c)) : \E frames \in Enumerations(chosen) :
              inbox' = [rest EXCEPT !["create_dataset"] = @ \o frames]
         /\ al_cache' = [f \in Folders |-> {}]
         /\ settled' = settled \cup UNION {Keys(c[f]) : f \in Folders}
  BY <1>1, <1>2, <1>3 DEF ActiveLearn
<1>5. CASE al_cache' = c /\ inbox' = rest /\ settled' = settled
  BY <1>1, <1>2, <1>3, <1>5, KeepInv
<1>6. CASE /\ \E chosen \in active_select(Candidates(c)) : \E frames \in Enumerations(chosen) :
                inbox' = [rest EXCEPT !["create_dataset"] = @ \o frames]
           /\ al_cache' = [f \in Folders |-> {}]
           /\ settled' = settled \cup UNION {Keys(c[f]) : f \in Folders}
  <2>1. PICK chosen \in active_select(Candidates(c)) : \E frames \in Enumerations(chosen) :
          inbox' = [rest EXCEPT !["create_dataset"] = @ \o frames]
    BY <1>6
  <2>2. PICK frames \in Enumerations(chosen) : inbox' = [rest EXCEPT !["create_dataset"] = @ \o frames]
    BY <2>1
  <2>3. chosen \in SUBSET Candidates(c)
    BY DEF active_select, kSubset
  <2>4. inbox' = [inbox EXCEPT !["active_learning"] = Tail(@), !["create_dataset"] = @ \o frames]
    <3>1. "create_dataset" # "active_learning" /\ inbox \in [Inboxes -> Seq(Frame)]
      BY DEF FrameInv, Types
    <3> QED
      BY <1>3, <2>2, <3>1
  <2>5. PICK M : M = UNION {Keys(c[f]) : f \in Folders}
    OBVIOUS
  <2>6. settled' = settled \cup M /\ \A k : k \in M <=> \E f \in Folders : k \in Keys(c[f])
    BY <1>6, <2>5
  <2>7. al_cache' \in [Folders -> SUBSET Frame] /\ \A f \in Folders : al_cache'[f] = {}
    BY <1>6
  <2> QED
    BY <1>1, <1>2, <2>3, <2>4, <2>5, <2>6, <2>7, SettleInv
<1> QED
  BY <1>4, <1>5, <1>6

-----------------------------------------------------------------------------
\* Clustering only flags frames.
LEMMA SelectIs ==
  ASSUME NEW C \in SUBSET Frame, OnceC(C), NEW picked, NEW S, S = Select(C, picked)
  PROVE  /\ S \in SUBSET Frame /\ Keys(S) = Keys(C) /\ OnceC(S)
         /\ \A z \in S : \E y \in C : Key(z) = Key(y) /\ (y.drop => z.drop)
<1> DEFINE sel(y) == IF y.drop THEN y ELSE [y EXCEPT !.drop = Key(y) \notin picked]
<1>1. S = {sel(y) : y \in C}
  BY DEF Select
<1>2. \A y \in C : sel(y) \in Frame /\ Key(sel(y)) = Key(y) /\ (y.drop => sel(y).drop)
  <2> SUFFICES ASSUME NEW y \in C PROVE sel(y) \in Frame /\ Key(sel(y)) = Key(y) /\ (y.drop => sel(y).drop)
    OBVIOUS
  <2>1. y \in Frame /\ (Key(y) \notin picked) \in BOOLEAN
    OBVIOUS
  <2>2. PICK d : d = (Key(y) \notin picked)
    OBVIOUS
  <2>3. [y EXCEPT !.drop = d] \in Frame /\ Key([y EXCEPT !.drop = d]) = Key(y)
    BY <2>1, <2>2, FrameKey
  <2> QED
    BY <2>1, <2>2, <2>3
<1> HIDE DEF sel
<1>3. S \in SUBSET Frame
  BY <1>1, <1>2
<1>4. Keys(S) = Keys(C)
  BY <1>1, <1>2 DEF Keys
<1>5. OnceC(S)
  BY <1>1, <1>2 DEF OnceC
<1> QED
  BY <1>1, <1>2, <1>3, <1>4, <1>5

\* The frames of a queue that are of a folder.
FromFolder(s, f) == {x \in ToSet(s) : x.src = f}

\* A folder's cache with the frames of a queue of that folder.
CacheOf(h, f) == frame_cache[f] \cup FromFolder(h, f)

\* The caches after the first k frames of a batch, a queue h of their own.
LEMMA CachedIs ==
  ASSUME NEW b \in Seq(Frame), NEW k \in 0..Len(b), NEW h \in Seq(Frame), DOMAIN h = 1..k, \A i \in 1..k : h[i] = b[i]
  PROVE  /\ DOMAIN Cached(b, k) = Folders
         /\ \A f \in Folders : Cached(b, k)[f] = CacheOf(h, f)
<1>1. DOMAIN Cached(b, k) = Folders
  BY DEF Cached
<1>2. ASSUME NEW f \in Folders PROVE Cached(b, k)[f] = CacheOf(h, f)
  <2>1. Cached(b, k)[f] = frame_cache[f] \cup {b[i] : i \in {j \in 1..k : b[j].src = f}}
    BY DEF Cached
  <2>2. {b[i] : i \in {j \in 1..k : b[j].src = f}} = FromFolder(h, f)
    BY DEF ToSet, FromFolder
  <2> QED
    BY <2>1, <2>2 DEF CacheOf
<1> QED
  BY <1>1, <1>2

\* The batch that the embedding node takes is split: frames that go to the caches of
\* their folders, and frames that are lost.
LEMMA CacheStage ==
  ASSUME FrameInv, NEW q, q = batch_queue["embedding"], q # <<>>, NEW h \in Seq(Frame), NEW cut,
         Keys(ToSet(Head(q))) = Keys(ToSet(h)) \cup cut, Keys(ToSet(h)) \cap cut = {},
         NEW L, L[<<"batch_queue", "embedding">>] = Keys(Queued(Tail(q))), L[Lost] = LostKeys \cup cut,
         \A f \in Folders : L[<<"frame_cache", f>>] = Keys(frame_cache[f]) \cup Keys(FromFolder(h, f)),
         \A p \in Spots : \/ p \in {<<"batch_queue", "embedding">>, Lost}
                          \/ \E f \in Folders : p = <<"frame_cache", f>>
                          \/ L[p] = KeysAt[p]
  PROVE  Spread(L, WasRead)
<1>1. Types /\ OnceEach /\ Spread(KeysAt, WasRead)
  BY DEF FrameInv
<1>2. "embedding" \in BatchNodes
  BY DEF BatchNodes
<1>3. q \in Seq(Seq(Frame)) /\ OnceQ(q)
  BY <1>1, <1>2 DEF Types, OnceEach
<1>4. PICK a, M, R : a = <<"batch_queue", "embedding">> /\ M = Keys(ToSet(Head(q))) /\ R = Keys(Queued(Tail(q)))
  OBVIOUS
<1>5. a \in Place /\ FramesAt[a] = Queued(q)
  BY <1>2, <1>4, FramesAtAre, PlacesAre
<1>6. KeysAt[a] = M \cup R /\ M \cap R = {}
  <2>1. Queued(q) = ToSet(Head(q)) \cup Queued(Tail(q)) /\ Keys(ToSet(Head(q))) \cap Keys(Queued(Tail(q))) = {}
    BY <1>3, GetIs
  <2>2. Keys(Queued(q)) = Keys(ToSet(Head(q))) \cup Keys(Queued(Tail(q)))
    BY <2>1, KeysUnion
  <2>3. KeysAt[a] = Keys(Queued(q))
    BY <1>5, KeysAtAre
  <2> QED
    BY <1>4, <2>1, <2>2, <2>3
<1>7. a \in Spots /\ Lost \in Spots /\ a # Lost /\ M \subseteq WasRead /\ \A p \in Spots : p # a => KeysAt[p] \cap M = {}
  BY <1>1, <1>5, <1>6, KeysAtAre, PlacesAre DEF Spread
<1>8. \A k \in Keys(ToSet(h)) : k[1] \in Folders
  BY FrameKey DEF Keys, ToSet, KeySet
<1>9. \A k \in M : k \notin cut => k[1] \in Folders
  BY <1>4, <1>8
<1>10. PICK g : g = [k \in M |-> IF k \in cut THEN Lost ELSE <<"frame_cache", k[1]>>]
  OBVIOUS
<1>11. M \in SUBSET WasRead /\ g \in [M -> Spots]
  BY <1>7, <1>9, <1>10, KeysAtAre, PlacesAre
<1>12. \A k \in M : k \in cut => g[k] = Lost
  BY <1>10
<1>13. \A k \in M : k \notin cut => g[k] = <<"frame_cache", k[1]>>
  BY <1>10
<1>14. \A k \in M : g[k] # a
  BY <1>4, <1>7, <1>12, <1>13
<1>15. \A k : k \in L[a] <=> (k \in KeysAt[a] /\ k \notin M) \/ (k \in M /\ g[k] = a)
  BY <1>4, <1>6, <1>14
<1>16. \A f : <<"frame_cache", f>> # Lost
  BY DEF Lost
<1>17. \A k : k \in L[Lost] <=> (k \in KeysAt[Lost] /\ k \notin M) \/ (k \in M /\ g[k] = Lost)
  BY <1>4, <1>7, <1>12, <1>13, <1>16, KeysAtAre
<1>18. ASSUME NEW f \in Folders, NEW p, p = <<"frame_cache", f>>
       PROVE  \A k : k \in L[p] <=> (k \in KeysAt[p] /\ k \notin M) \/ (k \in M /\ g[k] = p)
  <2>1. p \in Place /\ p \in Spots /\ p # a /\ FramesAt[p] = frame_cache[f]
    BY <1>4, <1>18, KeysAtAre, FramesAtAre, PlacesAre
  <2>2. KeysAt[p] = Keys(frame_cache[f]) /\ KeysAt[p] \cap M = {}
    BY <1>7, <2>1, KeysAtAre
  <2>3. \A k : k \in Keys(FromFolder(h, f)) <=> k \in Keys(ToSet(h)) /\ k[1] = f
    BY FrameKey DEF Keys, ToSet, FromFolder
  <2>4. \A k \in M : g[k] = p <=> k \notin cut /\ k[1] = f
    BY <1>12, <1>13, <1>16, <1>18
  <2>5. L[p] = Keys(frame_cache[f]) \cup Keys(FromFolder(h, f))
    BY <1>18
  <2> QED
    BY <1>4, <2>2, <2>3, <2>4, <2>5
<1>19. ASSUME NEW p \in Spots, p # a, p # Lost, \A f \in Folders : p # <<"frame_cache", f>>
       PROVE  \A k : k \in L[p] <=> (k \in KeysAt[p] /\ k \notin M) \/ (k \in M /\ g[k] = p)
  <2>1. L[p] = KeysAt[p] /\ KeysAt[p] \cap M = {}
    BY <1>4, <1>7, <1>19
  <2>2. \A k \in M : g[k] # p
    BY <1>9, <1>12, <1>13, <1>19
  <2> QED
    BY <2>1, <2>2
<1>20. \A p \in Spots : \A k : k \in L[p] <=> (k \in KeysAt[p] /\ k \notin M) \/ (k \in M /\ g[k] = p)
  BY <1>15, <1>17, <1>18, <1>19
<1> QED
  BY ONLY <1>1, <1>11, <1>20, Relocated

\* The batch that the embedding node takes.
LEMMA Taken ==
  ASSUME FrameInv, NEW q, q = batch_queue["embedding"], q # <<>>, NEW a, a = <<"batch_queue", "embedding">>
  PROVE  /\ q \in Seq(Seq(Frame)) /\ Tail(q) \in Seq(Seq(Frame)) /\ OnceQ(Tail(q))
         /\ Head(q) \in Seq(Frame) /\ Once(Head(q)) /\ "embedding" \in BatchNodes
         /\ a \in Place /\ FramesAt[a] = Queued(q) /\ Queued(q) = ToSet(Head(q)) \cup Queued(Tail(q))
         /\ Keys(ToSet(Head(q))) \cap Keys(Queued(Tail(q))) = {}
<1>1. Types /\ OnceEach
  BY DEF FrameInv
<1>2. "embedding" \in BatchNodes
  BY DEF BatchNodes
<1>3. q \in Seq(Seq(Frame)) /\ OnceQ(q)
  BY <1>1, <1>2 DEF Types, OnceEach
<1>4. a \in Place /\ FramesAt[a] = Queued(q)
  BY <1>2, FramesAtAre, PlacesAre
<1> QED
  BY <1>2, <1>3, <1>4, GetIs

\* A cache with the frames of the batch holds a frame once, and with its flag; its keys are nowhere else.
LEMMA CachesAre ==
  ASSUME FrameInv, batch_queue["embedding"] # <<>>, NEW h \in Seq(Frame), Once(h),
         ToSet(h) \subseteq ToSet(Head(batch_queue["embedding"])), NEW f \in Folders
  PROVE  /\ CacheOf(h, f) \in SUBSET Frame /\ OnceC(CacheOf(h, f)) /\ \A x \in CacheOf(h, f) : x.src = f
         /\ Keys(CacheOf(h, f)) = Keys(frame_cache[f]) \cup Keys(FromFolder(h, f))
         /\ Keys(CacheOf(h, f)) \cap settled = {} /\ Keys(CacheOf(h, f)) \cap LostKeys = {}
         /\ Keys(CacheOf(h, f)) \subseteq WasRead
         /\ \A x \in CacheOf(h, f) : Key(x) \in flagged => x.drop
         /\ \A p \in Place : p \notin {<<"batch_queue", "embedding">>, <<"frame_cache", f>>}
                               => Keys(CacheOf(h, f)) \cap Keys(FramesAt[p]) = {}
<1>0. PICK q, a, C : q = batch_queue["embedding"] /\ a = <<"batch_queue", "embedding">> /\ C = CacheOf(h, f)
  OBVIOUS
<1>1. Types /\ Home /\ OnceEach /\ Flags
  BY DEF FrameInv
<1>2. PICK e, B : e = <<"frame_cache", f>> /\ B = FromFolder(h, f)
  OBVIOUS
<1>3. /\ Head(q) \in Seq(Frame) /\ a \in Place /\ FramesAt[a] = Queued(q) /\ ToSet(Head(q)) \subseteq Queued(q)
  BY <1>0, Taken
<1>4. e \in Place /\ FramesAt[e] = frame_cache[f] /\ a # e
  BY <1>0, <1>2, FramesAtAre, PlacesAre
<1>5. frame_cache[f] \in SUBSET Frame /\ OnceC(frame_cache[f]) /\ \A x \in frame_cache[f] : x.src = f
  BY <1>1 DEF Types, Home, OnceEach
<1>6. B \in SUBSET Frame /\ B \subseteq FramesAt[a] /\ \A x \in B : x.src = f
  <2>1. B \subseteq ToSet(h) /\ \A x \in B : x.src = f
    BY <1>2 DEF FromFolder
  <2>2. ToSet(Head(q)) \subseteq Frame
    BY <1>3 DEF ToSet
  <2> QED
    BY <1>0, <1>3, <2>1, <2>2
<1>7. OnceC(B)
  BY <1>2 DEF OnceC, Once, ToSet, FromFolder
<1>8. C = FramesAt[e] \cup B /\ C = frame_cache[f] \cup B
  BY <1>0, <1>2, <1>4 DEF CacheOf
<1>9. Keys(FramesAt[e]) \cap Keys(FramesAt[a]) = {}
  BY <1>3, <1>4, Apart
<1>10. Keys(B) \subseteq Keys(FramesAt[a])
  BY <1>6 DEF Keys
<1>11. OnceC(C)
  <2>1. \A x \in frame_cache[f] : \A y \in B : Key(x) # Key(y)
    BY <1>4, <1>9, <1>10 DEF Keys
  <2> QED
    BY <1>5, <1>7, <1>8, <2>1 DEF OnceC
<1>12. Keys(C) = Keys(FramesAt[e]) \cup Keys(B)
  BY <1>8, KeysUnion
<1>13. Keys(C) \subseteq Keys(FramesAt[e]) \cup Keys(FramesAt[a])
  BY <1>10, <1>12
<1>14. \A x \in C : Key(x) \in flagged => x.drop
  BY <1>1, <1>3, <1>4, <1>6, <1>8 DEF Flags
<1>15. Keys(C) \cap settled = {} /\ Keys(C) \cap LostKeys = {} /\ Keys(C) \subseteq WasRead
  BY <1>3, <1>4, <1>13, Apart
<1>16. \A p \in Place : p \notin {a, e} => Keys(C) \cap Keys(FramesAt[p]) = {}
  BY <1>3, <1>4, <1>13, Apart
<1>17. C \in SUBSET Frame /\ \A x \in C : x.src = f
  BY <1>5, <1>6, <1>8
<1> QED
  BY <1>0, <1>2, <1>4, <1>11, <1>12, <1>14, <1>15, <1>16, <1>17

\* A batch that completes no folder is cached whole.
LEMMA CacheAllInv ==
  ASSUME FrameInv, NEW q, q = batch_queue["embedding"], q # <<>>, EmbeddingProcess,
         frame_cache' = Cached(Head(q), Len(Head(q))), inbox' = inbox, flagged' = flagged, lost' = lost
  PROVE  FrameInv'
<1>1. Types /\ Home /\ OnceEach /\ Spread(KeysAt, WasRead) /\ Flags /\ Written /\ Losses /\ OneRound
  BY DEF FrameInv
<1>2. PICK b, r, a : b = Head(q) /\ r = Tail(q) /\ a = <<"batch_queue", "embedding">>
  OBVIOUS
<1>3. /\ q \in Seq(Seq(Frame)) /\ r \in Seq(Seq(Frame)) /\ OnceQ(r) /\ b \in Seq(Frame) /\ Once(b)
      /\ "embedding" \in BatchNodes /\ a \in Place /\ FramesAt[a] = Queued(q) /\ Queued(q) = ToSet(b) \cup Queued(r)
  BY <1>2, Taken
<1>4. /\ mode' = mode /\ frame_id' = frame_id /\ wire' = wire /\ batch' = batch /\ al_cache' = al_cache
      /\ saved' = saved /\ settled' = settled /\ LostKeys' = LostKeys /\ WasRead' = WasRead
  <2>1. UNCHANGED <<config, readers, batch, al_cache, saved, settled>>
    BY ONLY EmbeddingProcess, Zenon DEF EmbeddingProcess
  <2>2. lost' = lost
    OBVIOUS
  <2> QED
    BY ONLY <2>1, <2>2 DEF config, readers, LostKeys, WasRead
<1>5. batch_queue' = [batch_queue EXCEPT !["embedding"] = Tail(@)]
  BY DEF EmbeddingProcess, Unqueue
<1>6. batch_queue'["embedding"] = r /\ \A m \in BatchNodes : m # "embedding" => batch_queue'[m] = batch_queue[m]
  BY <1>1, <1>2, <1>3, <1>5 DEF Types
<1>7. DOMAIN frame_cache' = Folders /\ \A f \in Folders : frame_cache'[f] = CacheOf(b, f)
  <2>1. Len(b) \in 0..Len(b) /\ DOMAIN b = 1..Len(b) /\ \A i \in 1..Len(b) : b[i] = b[i]
    BY <1>3
  <2>2. PICK k : k = Len(b)
    OBVIOUS
  <2>3. k \in 0..Len(b) /\ DOMAIN b = 1..k /\ \A i \in 1..k : b[i] = b[i]
    BY <2>1, <2>2
  <2>4. /\ DOMAIN Cached(b, k) = Folders
        /\ \A f \in Folders : Cached(b, k)[f] = CacheOf(b, f)
    BY ONLY <1>3, <2>3, CachedIs
  <2>5. frame_cache' = Cached(b, k)
    BY <1>2, <2>2
  <2> QED
    BY ONLY <2>4, <2>5
<1>8. ASSUME NEW f \in Folders
      PROVE  /\ frame_cache'[f] \in SUBSET Frame /\ OnceC(frame_cache'[f]) /\ \A x \in frame_cache'[f] : x.src = f
             /\ Keys(frame_cache'[f]) = Keys(frame_cache[f]) \cup Keys(FromFolder(b, f))
             /\ \A x \in frame_cache'[f] : Key(x) \in flagged => x.drop
  <2>1. /\ batch_queue["embedding"] # <<>> /\ b \in Seq(Frame) /\ Once(b)
        /\ ToSet(b) \subseteq ToSet(Head(batch_queue["embedding"]))
    BY <1>2, <1>3
  <2>2. frame_cache'[f] = CacheOf(b, f)
    BY <1>7
  <2>3. /\ CacheOf(b, f) \in SUBSET Frame /\ OnceC(CacheOf(b, f)) /\ \A x \in CacheOf(b, f) : x.src = f
        /\ Keys(CacheOf(b, f)) = Keys(frame_cache[f]) \cup Keys(FromFolder(b, f))
        /\ \A x \in CacheOf(b, f) : Key(x) \in flagged => x.drop
    BY ONLY FrameInv, f \in Folders, <2>1, CachesAre
  <2> QED
    BY ONLY <2>2, <2>3
<1>9. FramesAt'[a] = Queued(r) /\ \A f \in Folders : FramesAt'[<<"frame_cache", f>>] = frame_cache'[f]
  BY <1>2, <1>3, <1>6, FramesAtNext
<1>10. PICK A : A = {<<"frame_cache", f>> : f \in Folders}
  OBVIOUS
<1>11. \A p \in Place : p \in A \cup {a} \/ FramesAt'[p] = FramesAt[p]
  <2>1. PICK C : C = A \cup {a}
    OBVIOUS
  <2>2. \A f \in Folders : <<"frame_cache", f>> \in C
    BY <1>10, <2>1
  <2>3. \A n \in BatchNodes : <<"batch_queue", n>> \in C \/ batch_queue'[n] = batch_queue[n]
    BY <1>2, <1>6, <2>1
  <2>4. \A p \in Place : p \in C \/ FramesAt'[p] = FramesAt[p]
    BY <1>4, <2>2, <2>3, Elsewhere
  <2> QED
    BY <2>1, <2>4
<1>12. Spread(KeysAt', WasRead)
  <2>1. PICK L, cut : L = KeysAt' /\ cut = {}
    OBVIOUS
  <2>2. Keys(ToSet(Head(q))) = Keys(ToSet(b)) \cup cut /\ Keys(ToSet(b)) \cap cut = {}
    BY <1>2, <2>1
  <2>3. L[<<"batch_queue", "embedding">>] = Keys(Queued(Tail(q))) /\ L[Lost] = LostKeys \cup cut
    BY <1>2, <1>3, <1>4, <1>9, <2>1, KeysAtAre
  <2>4. \A f \in Folders : L[<<"frame_cache", f>>] = Keys(frame_cache[f]) \cup Keys(FromFolder(b, f))
    <3> SUFFICES ASSUME NEW f \in Folders
                 PROVE  L[<<"frame_cache", f>>] = Keys(frame_cache[f]) \cup Keys(FromFolder(b, f))
      OBVIOUS
    <3>1. KeysAt'[<<"frame_cache", f>>] = Keys(FramesAt'[<<"frame_cache", f>>])
      BY KeysAtAre, PlacesAre
    <3> QED
      BY <1>8, <1>9, <2>1, <3>1
  <2>5. \A p \in Spots : \/ p \in {<<"batch_queue", "embedding">>, Lost}
                         \/ \E f \in Folders : p = <<"frame_cache", f>>
                         \/ L[p] = KeysAt[p]
    BY <1>2, <1>4, <1>10, <1>11, <2>1, KeysAtAre
  <2>6. Spread(L, WasRead)
    BY <1>3, <2>2, <2>3, <2>4, <2>5, CacheStage
  <2> QED
    BY <2>1, <2>6
<1>13. Spread(KeysAt, WasRead)'
  BY <1>4, <1>12 DEF Spread
<1>14. Flags'
  <2>1. ASSUME NEW p \in Place, NEW x \in FramesAt'[p], Key(x) \in flagged PROVE x.drop
    <3>1. CASE p = a
      BY <1>1, <1>3, <1>9, <2>1, <3>1 DEF Flags
    <3>2. CASE p \in A
      BY <1>8, <1>9, <1>10, <2>1, <3>2
    <3>3. CASE FramesAt'[p] = FramesAt[p]
      BY <1>1, <2>1, <3>3 DEF Flags
    <3> QED
      BY <1>11, <3>1, <3>2, <3>3
  <2> QED
    BY <1>1, <1>4, <2>1 DEF Flags
<1>15. Types'
  <2>1. frame_cache' \in [Folders -> SUBSET Frame]
    <3>1. frame_cache' = [f \in Folders |-> frame_cache'[f]]
      BY DEF Cached
    <3> QED
      BY <1>8, <3>1
  <2>2. batch_queue' \in [BatchNodes -> Seq(Seq(Frame))]
    BY <1>1, <1>3, <1>5, <1>6 DEF Types
  <2> QED
    BY <1>1, <1>4, <2>1, <2>2 DEF Types
<1>16. Home'
  BY <1>1, <1>4, <1>8 DEF Home
<1>17. OnceEach'
  BY <1>1, <1>3, <1>4, <1>6, <1>8 DEF OnceEach
<1>18. Written' /\ Losses' /\ OneRound'
  BY <1>1, <1>4 DEF Written, Losses, OneRound
<1> QED
  BY <1>13, <1>14, <1>15, <1>16, <1>17, <1>18 DEF FrameInv

\* A frame of the batch behind the one that completes a folder is of another folder,
\* unless a reader has begun a second round.
LEMMA MixedBatch ==
  ASSUME FrameInv, mode = "only_one", NEW src \in Folders, NEW C \in SUBSET Frame, OnceC(C), \A x \in C : x.src = src,
         Keys(C) \subseteq WasRead, Cardinality(C) = NumImages[src], NEW x \in C,
         NEW y \in Frame, Key(y) \in WasRead, Key(y) \notin Keys(C)
  PROVE  \E f, g \in Folders : f # g /\ frame_id[f] > 0 /\ frame_id[g] > 0
<1>1. Types /\ OneRound
  BY DEF FrameInv
<1>2. ASSUME NEW z \in Frame, Key(z) \in WasRead PROVE z.src \in Folders /\ z.id \in 0..(frame_id[z.src] - 1)
  <2>1. PICK f \in Folders : Key(z) \in {f} \X (0..(frame_id[f] - 1))
    BY <1>2 DEF WasRead
  <2>2. z.src = f /\ z.id \in 0..(frame_id[f] - 1)
    BY <2>1, FrameKey
  <2> QED
    BY <2>2
<1>3. \A z \in C : Key(z) \in WasRead
  BY DEF Keys
<1>4. frame_id[src] \in Nat /\ NumImages[src] \in Nat /\ frame_id[src] <= NumImages[src]
  BY <1>1, SizesAssumption DEF Types, OneRound
<1>5. frame_id[src] > 0
  BY <1>2, <1>3, <1>4
<1>6. frame_id[y.src] \in Nat /\ frame_id[y.src] > 0 /\ y.src \in Folders /\ y.id \in 0..(frame_id[y.src] - 1)
  BY <1>1, <1>2 DEF Types
<1>7. y.src # src
  <2> SUFFICES ASSUME y.src = src PROVE FALSE
    OBVIOUS
  <2> DEFINE N == NumImages[src]
             J == 0..(N - 1)
             I == J \ {y.id}
  <2>1. N \in Nat /\ y.id \in J /\ \A z \in C : z.id \in J
    <3>1. \A z \in C : z.id \in 0..(frame_id[src] - 1)
      BY <1>2, <1>3
    <3>2. 0..(frame_id[src] - 1) \subseteq 0..(NumImages[src] - 1)
      BY <1>4
    <3> QED
      BY <1>4, <1>6, <3>1, <3>2
  <2>2. \A z \in C : z.id # y.id
    BY FrameKey DEF Keys, Key
  <2>3. IsFiniteSet(J) /\ Cardinality(J) = N
    <3>1. 0 \in Int /\ N - 1 \in Int
      BY <2>1
    <3>2. IsFiniteSet(0..(N - 1)) /\ Cardinality(0..(N - 1)) = IF 0 > N - 1 THEN 0 ELSE (N - 1) - 0 + 1
      BY <3>1, FS_Interval
    <3> QED
      BY <2>1, <3>2
  <2>4. IsFiniteSet(I) /\ Cardinality(I) = N - 1
    <3>1. IsFiniteSet(I) /\ Cardinality(I) = IF y.id \in J THEN Cardinality(J) - 1 ELSE Cardinality(J)
      BY <2>3, FS_RemoveElement
    <3> QED
      BY <2>1, <2>3, <3>1
  <2>5. \A z \in C : z.id \in I
    BY <2>1, <2>2
  <2> HIDE DEF I
  <2>6. Cardinality(C) <= Cardinality(I)
    BY <2>4, <2>5, CountIds
  <2> QED
    BY <2>1, <2>4, <2>6
<1> QED
  BY <1>5, <1>6, <1>7

\* A batch that completes a folder: the folder's frames are sent on, some of them
\* flagged, and the rest of the batch is lost.
Completing(q, b, k, src, folder, picked, final, frames, F) ==
  /\ q = batch_queue["embedding"] /\ q # <<>> /\ b = Head(q) /\ k \in FirstComplete(b)
  /\ src = b[k].src /\ folder = Cached(b, k)[src] /\ final = Select(folder, picked) /\ frames \in InOrder(final)
  /\ frame_cache' = [Cached(b, k) EXCEPT ![src] = {}]
  /\ inbox' = [inbox EXCEPT !["model"] = @ \o frames]
  /\ flagged' = flagged \cup F /\ \A c : c \in F <=> \E z \in final : z.drop /\ c = Key(z)
  /\ \A l : l \in lost' <=> l \in lost \/ \E c \in KeysFrom(b, k) : l = <<"batch", c>>

\* Such a step keeps the invariant.
LEMMA CompleteInv ==
  ASSUME FrameInv, EmbeddingProcess, NEW q, NEW b, NEW k, NEW src, NEW folder, NEW picked, NEW final, NEW frames, NEW F,
         Completing(q, b, k, src, folder, picked, final, frames, F)
  PROVE  FrameInv'
<1>q. q = batch_queue["embedding"] /\ q # <<>> /\ b = Head(q) /\ k \in FirstComplete(b)
  BY DEF Completing
<1>f. src = b[k].src /\ folder = Cached(b, k)[src] /\ final = Select(folder, picked) /\ frames \in InOrder(final)
  BY DEF Completing
<1>c. frame_cache' = [Cached(b, k) EXCEPT ![src] = {}]
  BY DEF Completing
<1>i. inbox' = [inbox EXCEPT !["model"] = @ \o frames]
  BY DEF Completing
<1>d. flagged' = flagged \cup F /\ \A c : c \in F <=> \E z \in final : z.drop /\ c = Key(z)
  BY DEF Completing
<1>l. \A l : l \in lost' <=> l \in lost \/ \E c \in KeysFrom(b, k) : l = <<"batch", c>>
  BY DEF Completing
<1>1. Types /\ Home /\ OnceEach /\ Spread(KeysAt, WasRead) /\ Flags /\ Written /\ Losses /\ OneRound
  BY DEF FrameInv
<1>2. PICK r, a, h, cut : /\ r = Tail(q) /\ a = <<"batch_queue", "embedding">>
                          /\ h = SubSeq(b, 1, k) /\ cut = KeysFrom(b, k)
  OBVIOUS
<1>3. /\ q \in Seq(Seq(Frame)) /\ r \in Seq(Seq(Frame)) /\ OnceQ(r) /\ b \in Seq(Frame) /\ Once(b)
      /\ "embedding" \in BatchNodes /\ a \in Place /\ FramesAt[a] = Queued(q) /\ Queued(q) = ToSet(b) \cup Queued(r)
      /\ Keys(ToSet(b)) \cap Keys(Queued(r)) = {}
  BY <1>q, <1>2, Taken
<1>4. k \in 1..Len(b) /\ k \in 0..Len(b) /\ Len(b) \in Nat /\ CompletesAt(b, k)
  BY <1>q, <1>3 DEF FirstComplete
<1>5. /\ h \in Seq(Frame) /\ Once(h) /\ ToSet(h) \subseteq ToSet(b)
      /\ Keys(ToSet(b)) = Keys(ToSet(h)) \cup cut /\ Keys(ToSet(h)) \cap cut = {}
  BY <1>2, <1>3, <1>4, PrefixIs
<1>6. DOMAIN h = 1..k /\ \A i \in 1..k : h[i] = b[i]
  BY <1>2, <1>3, <1>4
<1>7. DOMAIN Cached(b, k) = Folders /\ \A f \in Folders : Cached(b, k)[f] = CacheOf(h, f)
  <2>1. b \in Seq(Frame) /\ k \in 0..Len(b) /\ h \in Seq(Frame)
    BY <1>3, <1>4, <1>5
  <2> QED
    BY ONLY <2>1, <1>6, CachedIs
<1>8. b[k] \in Frame /\ src \in Folders /\ b[k] \in ToSet(h)
  <2>1. b[k] \in Frame
    BY <1>3, <1>4
  <2>2. k \in 1..k
    BY <1>4
  <2>3. b[k] \in ToSet(h)
    BY <1>6, <2>2 DEF ToSet
  <2> QED
    BY <1>f, <2>1, <2>3 DEF Frame
<1>9. ASSUME NEW f \in Folders
      PROVE  /\ Cached(b, k)[f] \in SUBSET Frame /\ OnceC(Cached(b, k)[f]) /\ \A x \in Cached(b, k)[f] : x.src = f
             /\ Keys(Cached(b, k)[f]) = Keys(frame_cache[f]) \cup Keys(FromFolder(h, f))
             /\ Keys(Cached(b, k)[f]) \cap settled = {} /\ Keys(Cached(b, k)[f]) \cap LostKeys = {}
             /\ Keys(Cached(b, k)[f]) \subseteq WasRead
             /\ \A x \in Cached(b, k)[f] : Key(x) \in flagged => x.drop
             /\ \A p \in Place : p \notin {a, <<"frame_cache", f>>} => Keys(Cached(b, k)[f]) \cap Keys(FramesAt[p]) = {}
  <2>1. /\ batch_queue["embedding"] # <<>> /\ h \in Seq(Frame) /\ Once(h) /\ a = <<"batch_queue", "embedding">>
        /\ ToSet(h) \subseteq ToSet(Head(batch_queue["embedding"]))
    BY <1>q, <1>2, <1>5
  <2>2. Cached(b, k)[f] = CacheOf(h, f)
    BY <1>7
  <2>3. /\ CacheOf(h, f) \in SUBSET Frame /\ OnceC(CacheOf(h, f)) /\ \A x \in CacheOf(h, f) : x.src = f
        /\ Keys(CacheOf(h, f)) = Keys(frame_cache[f]) \cup Keys(FromFolder(h, f))
        /\ \A x \in CacheOf(h, f) : Key(x) \in flagged => x.drop
    BY ONLY FrameInv, f \in Folders, <2>1, CachesAre
  <2>4. /\ Keys(CacheOf(h, f)) \cap settled = {} /\ Keys(CacheOf(h, f)) \cap LostKeys = {}
        /\ Keys(CacheOf(h, f)) \subseteq WasRead
        /\ \A p \in Place : p \notin {a, <<"frame_cache", f>>} => Keys(CacheOf(h, f)) \cap Keys(FramesAt[p]) = {}
    BY ONLY FrameInv, f \in Folders, <2>1, CachesAre
  <2> QED
    BY ONLY <2>2, <2>3, <2>4
<1>10. /\ folder \in SUBSET Frame /\ OnceC(folder) /\ \A x \in folder : x.src = src
       /\ Keys(folder) \cap settled = {} /\ Keys(folder) \subseteq WasRead
       /\ \A x \in folder : Key(x) \in flagged => x.drop
       /\ \A p \in Place : p \notin {a, <<"frame_cache", src>>} => Keys(folder) \cap Keys(FramesAt[p]) = {}
  BY <1>f, <1>8, <1>9
<1>11. /\ final \in SUBSET Frame /\ Keys(final) = Keys(folder) /\ OnceC(final)
       /\ \A z \in final : \E y \in folder : Key(z) = Key(y) /\ (y.drop => z.drop)
  BY ONLY <1>10, <1>f, SelectIs
<1>12. frames \in Seq(Frame) /\ ToSet(frames) = final /\ Once(frames)
  <2>1. frames \in Enumerations(final)
    BY <1>f DEF InOrder
  <2> QED
    BY ONLY <1>11, <2>1, EnumerationIs
<1>13. /\ mode' = mode /\ frame_id' = frame_id /\ wire' = wire /\ batch' = batch /\ al_cache' = al_cache
       /\ saved' = saved /\ settled' = settled /\ WasRead' = WasRead
       /\ batch_queue' = [batch_queue EXCEPT !["embedding"] = Tail(@)]
  <2>1. Unqueue("embedding") /\ UNCHANGED <<config, readers, batch, al_cache, saved, settled>>
    BY ONLY EmbeddingProcess, Zenon DEF EmbeddingProcess
  <2> QED
    BY ONLY <2>1 DEF Unqueue, config, readers, WasRead
<1>14. batch_queue'["embedding"] = r /\ \A m \in BatchNodes : m # "embedding" => batch_queue'[m] = batch_queue[m]
  BY <1>q, <1>1, <1>2, <1>3, <1>13 DEF Types
<1>15. frame_cache'[src] = {} /\ \A f \in Folders : f # src => frame_cache'[f] = Cached(b, k)[f]
  BY <1>c, <1>7, <1>8
<1>16. /\ "model" \in Inboxes \ {"create_dataset"} /\ "create_dataset" \in Inboxes /\ "create_dataset" # "model"
  BY DEF Inboxes
<1>17. PICK t, u, m, e : t = inbox["model"] /\ u = t \o frames /\ m = <<"inbox", "model">> /\ e = <<"frame_cache", src>>
  OBVIOUS
<1>18. inbox'["model"] = u /\ \A n \in Inboxes : n # "model" => inbox'[n] = inbox[n]
  BY <1>i, <1>1, <1>16, <1>17 DEF Types
<1>19. /\ t \in Seq(Frame) /\ Once(t) /\ m \in Place /\ FramesAt[m] = ToSet(t) /\ FramesAt'[m] = ToSet(u)
       /\ e \in Place /\ e # m /\ m # a /\ e # a
  <2>1. t \in Seq(Frame) /\ Once(t)
    BY <1>1, <1>16, <1>17 DEF Types, OnceEach
  <2>2. m \in Place /\ FramesAt[m] = ToSet(t) /\ FramesAt'[m] = ToSet(u)
    BY ONLY <1>16, <1>17, <1>18, FramesAtAre, FramesAtNext, PlacesAre
  <2>3. e \in Place /\ e # m /\ m # a /\ e # a
    BY <1>2, <1>8, <1>17, PlacesAre
  <2> QED
    BY <2>1, <2>2, <2>3
<1>20. Keys(ToSet(t)) \cap Keys(ToSet(frames)) = {}
  <2>1. Keys(folder) \cap Keys(FramesAt[m]) = {}
    BY <1>10, <1>17, <1>19
  <2> QED
    BY <1>11, <1>12, <1>19, <2>1
<1>21. u \in Seq(Frame) /\ Once(u) /\ ToSet(u) = ToSet(t) \cup final /\ Keys(ToSet(u)) = Keys(ToSet(t)) \cup Keys(folder)
  <2>1. u \in Seq(Frame) /\ ToSet(u) = ToSet(t) \cup final
    <3>1. t \in Seq(Frame) /\ frames \in Seq(Frame) /\ u = t \o frames /\ ToSet(frames) = final
      BY <1>12, <1>17, <1>19
    <3> QED
      BY ONLY <3>1, JoinIs
  <2>2. Once(u)
    BY <1>12, <1>17, <1>19, <1>20, JoinOnce
  <2>3. Keys(ToSet(u)) = Keys(ToSet(t)) \cup Keys(final)
    BY ONLY <2>1, KeysUnion
  <2> QED
    BY <1>11, <2>1, <2>2, <2>3
<1>22. FramesAt'[a] = Queued(r) /\ \A f \in Folders : FramesAt'[<<"frame_cache", f>>] = frame_cache'[f]
  BY <1>q, <1>2, <1>3, <1>14, FramesAtNext
<1>23. PICK A : A = {<<"frame_cache", f>> : f \in Folders}
  OBVIOUS
<1>24. \A p \in Place : p \in A \cup {a, m} \/ FramesAt'[p] = FramesAt[p]
  <2>1. PICK C : C = A \cup {a, m}
    OBVIOUS
  <2>2. \A f \in Folders : <<"frame_cache", f>> \in C
    BY <1>23, <2>1
  <2>3. \A n \in BatchNodes : <<"batch_queue", n>> \in C \/ batch_queue'[n] = batch_queue[n]
    BY <1>2, <1>14, <2>1
  <2>4. \A n \in Inboxes \ {"create_dataset"} : <<"inbox", n>> \in C \/ inbox'[n] = inbox[n]
    BY <1>17, <1>18, <2>1
  <2>5. \A p \in Place : p \in C \/ FramesAt'[p] = FramesAt[p]
    BY <1>13, <2>2, <2>3, <2>4, Elsewhere
  <2> QED
    BY <2>1, <2>5
\* --- the frames that are lost
<1>25. cut \subseteq Keys(FramesAt[a]) /\ cut \subseteq KeySet /\ cut \cap LostKeys = {} /\ cut \subseteq WasRead
  <2>1. Keys(FramesAt[a]) = Keys(ToSet(b)) \cup Keys(Queued(r))
    <3>1. FramesAt[a] = ToSet(b) \cup Queued(r)
      BY <1>3
    <3> QED
      BY ONLY <3>1, KeysUnion
  <2>2. Keys(ToSet(b)) \subseteq KeySet
    BY <1>3, FrameKey DEF Keys, ToSet
  <2>3. Keys(FramesAt[a]) \cap LostKeys = {} /\ Keys(FramesAt[a]) \subseteq WasRead
    BY <1>3, Apart
  <2> QED
    BY <1>5, <2>1, <2>2, <2>3
<1>26. /\ LostKeys' = LostKeys \cup cut
       /\ lost' \subseteq Reason \X KeySet
       /\ \A l, n \in lost' : l[2] = n[2] => l = n
       /\ \A l \in lost' : l[1] = "batch" => l \in lost \/ cut # {}
  <2>1. "batch" \in Reason /\ lost \subseteq Reason \X KeySet /\ cut \in SUBSET KeySet /\ cut \cap LostKeys = {}
    BY <1>1, <1>25 DEF Types, Reason
  <2>2. \A l, n \in lost : l[2] = n[2] => l = n
    BY <1>1 DEF Losses
  <2>3. \A l : l \in lost' <=> l \in lost \/ \E c \in cut : l = <<"batch", c>>
    BY <1>l, <1>2
  <2>4. /\ LostKeys' = LostKeys \cup cut
        /\ lost' \subseteq Reason \X KeySet
        /\ \A l, n \in lost' : l[2] = n[2] => l = n
        /\ \A l \in lost' : l[1] = "batch" => l \in lost \/ ("batch" = "batch" /\ cut # {})
    BY ONLY <2>1, <2>2, <2>3, LoseStep
  <2> QED
    BY <2>4
<1>27. cut # {} => mode = "loop" \/ \E f, g \in Folders : f # g /\ frame_id[f] > 0 /\ frame_id[g] > 0
  <2> SUFFICES ASSUME cut # {}, mode # "loop" PROVE \E f, g \in Folders : f # g /\ frame_id[f] > 0 /\ frame_id[g] > 0
    OBVIOUS
  <2>1. mode = "only_one"
    BY <1>1 DEF Types
  <2>2. PICK c \in cut : c \in Keys(ToSet(b)) /\ c \in WasRead /\ c \notin Keys(ToSet(h))
    BY <1>5, <1>25
  <2>3. PICK y \in ToSet(b) : Key(y) = c
    BY <2>2 DEF Keys
  <2>4. y \in Frame /\ Key(y) \in WasRead
    BY <1>3, <2>2, <2>3 DEF ToSet
  <2>5. Key(y) \notin Keys(folder)
    <3>1. Keys(folder) = Keys(frame_cache[src]) \cup Keys(FromFolder(h, src))
      BY <1>f, <1>8, <1>9
    <3>2. Keys(FromFolder(h, src)) \subseteq Keys(ToSet(h))
      BY DEF FromFolder, Keys
    <3>3. FramesAt[e] = frame_cache[src]
      BY <1>8, <1>17, FramesAtAre
    <3>4. Keys(FramesAt[e]) \cap Keys(FramesAt[a]) = {}
      BY <1>3, <1>19, Apart
    <3>5. c \in Keys(FramesAt[a])
      BY <1>25
    <3> QED
      BY <2>2, <2>3, <3>1, <3>2, <3>3, <3>4, <3>5
  <2>6. b[k] \in folder
    <3>1. b[k] \in FromFolder(h, src)
      BY <1>f, <1>8 DEF FromFolder
    <3> QED
      BY <1>f, <1>7, <1>8, <3>1 DEF CacheOf
  <2>7. Cardinality(folder) = NumImages[src]
    BY <1>f, <1>4 DEF CompletesAt
  <2>8. PICK x \in folder : x = b[k]
    BY <2>6
  <2> QED
    BY ONLY FrameInv, <1>8, <1>10, <2>1, <2>4, <2>5, <2>7, x \in folder, MixedBatch
<1>28. Losses'
  BY <1>1, <1>13, <1>26, <1>27 DEF Losses
\* --- where the keys are now
<1>29. PICK L : L = [p \in Spots |-> IF p = a THEN Keys(Queued(r)) ELSE IF p = Lost THEN LostKeys \cup cut
                                     ELSE IF p \in A THEN Keys(Cached(b, k)[p[2]]) ELSE KeysAt[p]]
  OBVIOUS
<1>30. a \in Spots /\ e \in Spots /\ m \in Spots /\ Lost \in Spots /\ a # Lost /\ e # Lost /\ m # Lost /\ a \notin A /\ m \notin A
  BY <1>2, <1>3, <1>17, <1>19, <1>23, KeysAtAre, PlacesAre
<1>31. L[a] = Keys(Queued(r)) /\ L[Lost] = LostKeys \cup cut
  BY <1>29, <1>30
<1>32. ASSUME NEW f \in Folders
       PROVE  L[<<"frame_cache", f>>] = Keys(Cached(b, k)[f])
  <2>1. PICK p : p = <<"frame_cache", f>>
    OBVIOUS
  <2>2. p \in Spots /\ p # a /\ p # Lost /\ p \in A /\ p[2] = f
    BY <1>2, <1>23, <2>1, KeysAtAre, PlacesAre DEF Lost
  <2>3. L[p] = Keys(Cached(b, k)[p[2]])
    BY <1>29, <2>2
  <2> QED
    BY <2>1, <2>2, <2>3
<1>33. \A p \in Spots : p \notin {a, Lost} /\ p \notin A => L[p] = KeysAt[p]
  BY <1>29
<1>34. Spread(L, WasRead)
  <2>1. Keys(ToSet(Head(q))) = Keys(ToSet(h)) \cup cut /\ Keys(ToSet(h)) \cap cut = {}
    BY <1>q, <1>5
  <2>2. L[<<"batch_queue", "embedding">>] = Keys(Queued(Tail(q))) /\ L[Lost] = LostKeys \cup cut
    BY <1>2, <1>31
  <2>3. \A f \in Folders : L[<<"frame_cache", f>>] = Keys(frame_cache[f]) \cup Keys(FromFolder(h, f))
    <3>1. ASSUME NEW f \in Folders
          PROVE  L[<<"frame_cache", f>>] = Keys(frame_cache[f]) \cup Keys(FromFolder(h, f))
      BY ONLY <1>9, <1>32, f \in Folders
    <3> QED
      BY ONLY <3>1
  <2>4. \A p \in Spots : \/ p \in {<<"batch_queue", "embedding">>, Lost}
                         \/ \E f \in Folders : p = <<"frame_cache", f>>
                         \/ L[p] = KeysAt[p]
    BY <1>2, <1>23, <1>33
  <2> QED
    BY ONLY FrameInv, <1>q, <1>5, <2>1, <2>2, <2>3, <2>4, CacheStage
<1>34a. KeysAt[m] = Keys(ToSet(t)) /\ KeysAt'[m] = Keys(ToSet(t)) \cup Keys(folder)
  <2>1. KeysAt[m] = Keys(FramesAt[m]) /\ KeysAt'[m] = Keys(FramesAt'[m])
    BY <1>19, KeysAtAre
  <2> QED
    BY <1>19, <1>21, <2>1
<1>34b. KeysAt'[e] = {}
  <2>1. KeysAt'[e] = Keys(FramesAt'[e])
    BY <1>19, KeysAtAre
  <2>2. FramesAt'[e] = {}
    BY <1>8, <1>15, <1>17, <1>22
  <2> QED
    BY <2>1, <2>2 DEF Keys
<1>35. Spread(KeysAt', WasRead)
  <2>1. PICK M : M = Keys(folder)
    OBVIOUS
  <2>3. L[e] = KeysAt'[e] \cup M /\ KeysAt'[e] \cap M = {}
    <3>1. KeysAt'[e] = {}
      BY <1>34b
    <3>2. L[e] = M
      BY <1>f, <1>8, <1>17, <1>32, <2>1
    <3> QED
      BY <3>1, <3>2
  <2>4. KeysAt'[m] = L[m] \cup M
    <3>1. L[m] = KeysAt[m]
      BY <1>19, <1>30, <1>33
    <3> QED
      BY <1>34a, <2>1, <3>1
  <2>5. ASSUME NEW p \in Spots, p # e, p # m PROVE KeysAt'[p] = L[p]
    <3>1. CASE p = a
      BY <1>3, <1>22, <1>31, <3>1, KeysAtAre
    <3>2. CASE p = Lost
      BY <1>26, <1>31, <3>2, KeysAtAre
    <3>3. CASE p = Settled
      <4>1. Settled # a /\ Settled # Lost /\ Settled \notin A /\ Settled \in Spots
        BY <1>3, <1>23, KeysAtAre, PlacesAre
      <4>2. KeysAt'[Settled] = settled' /\ KeysAt[Settled] = settled
        BY KeysAtAre
      <4> QED
        BY <1>13, <1>33, <3>3, <4>1, <4>2
    <3>4. CASE p \in A
      <4>1. PICK f \in Folders : p = <<"frame_cache", f>>
        BY ONLY <1>23, <3>4
      <4>2. f # src
        BY <1>17, <2>5, <4>1
      <4>3. KeysAt'[p] = Keys(FramesAt'[p])
        BY <4>1, KeysAtAre, PlacesAre
      <4> QED
        BY <1>15, <1>22, <1>32, <4>1, <4>2, <4>3
    <3>5. CASE p \in Place /\ p \notin A /\ p # a
      <4>1. FramesAt'[p] = FramesAt[p]
        BY <1>24, <2>5, <3>5
      <4>2. p # Lost
        BY <3>5, PlacesAre
      <4> QED
        BY <1>33, <3>5, <4>1, <4>2, KeysAtAre
    <3> QED
      BY <3>1, <3>2, <3>3, <3>4, <3>5, KeysAtAre
  <2>6. \A p \in Spots : p \in {e, m} \/ KeysAt'[p] = L[p]
    BY <2>5
  <2>7. e \in Spots /\ m \in Spots /\ e # m
    BY <1>19, <1>30
  <2> QED
    BY ONLY <1>34, <2>3, <2>4, <2>6, <2>7, Moved
<1>36. Spread(KeysAt, WasRead)'
  BY <1>13, <1>35 DEF Spread
\* --- the flags
<1>37. F \subseteq Keys(folder)
  BY ONLY <1>d, <1>11 DEF Keys
<1>38. Flags'
  <2>1. flagged' \subseteq WasRead'
    BY <1>d, <1>1, <1>10, <1>13, <1>37 DEF Flags
  <2>2. ASSUME NEW x \in final, Key(x) \in flagged' PROVE x.drop
    <3>1. CASE Key(x) \in F
      BY ONLY <1>d, <1>11, <3>1, x \in final DEF OnceC
    <3>2. CASE Key(x) \in flagged
      <4>1. PICK y \in folder : Key(x) = Key(y) /\ (y.drop => x.drop)
        BY <1>11
      <4>2. y.drop
        BY <1>10, <3>2, <4>1
      <4> QED
        BY <4>1, <4>2
    <3> QED
      BY <1>d, <2>2, <3>1, <3>2
  <2>3. ASSUME NEW p \in Place, NEW x \in FramesAt'[p], Key(x) \in flagged', ~(p = m /\ x \in final) PROVE x.drop
    <3>1. Key(x) \notin Keys(folder)
      <4>1. CASE p = m
        <5>1. x \in ToSet(t)
          BY ONLY <1>19, <1>21, <2>3, <4>1
        <5>2. Key(x) \in Keys(FramesAt[m])
          BY <1>19, <5>1 DEF Keys
        <5>3. Keys(folder) \cap Keys(FramesAt[m]) = {}
          BY <1>10, <1>17, <1>19
        <5> QED
          BY <5>2, <5>3
      <4>2. CASE p # m
        <5>1. Key(x) \in KeysAt'[p] /\ p \in Spots
          BY KeysAtAre DEF Keys
        <5>2. Keys(folder) \subseteq KeysAt'[m]
          BY <1>34a
        <5>3. m \in Spots
          BY <1>30
        <5> QED
          BY ONLY <1>35, <4>2, <5>1, <5>2, <5>3 DEF Spread
      <4> QED
        BY <4>1, <4>2
    <3>2. Key(x) \in flagged
      BY <1>d, <1>37, <2>3, <3>1
    <3>3. CASE p = a
      BY <1>1, <1>3, <1>22, <3>2, <3>3 DEF Flags
    <3>4. CASE p \in A
      <4>1. PICK f \in Folders : p = <<"frame_cache", f>>
        BY <1>23, <3>4
      <4>2. x \in frame_cache'[f]
        BY <1>22, <4>1
      <4>3. f # src /\ x \in Cached(b, k)[f]
        BY <1>15, <4>2
      <4> QED
        BY <1>9, <3>2, <4>3
    <3>5. CASE p = m
      <4>1. x \in FramesAt[m]
        BY <1>19, <1>21, <2>3, <3>5
      <4> QED
        BY <1>1, <1>19, <3>2, <4>1 DEF Flags
    <3>6. CASE FramesAt'[p] = FramesAt[p]
      BY <1>1, <3>2, <3>6 DEF Flags
    <3> QED
      BY <1>24, <3>3, <3>4, <3>5, <3>6
  <2> QED
    BY <2>1, <2>2, <2>3 DEF Flags
\* --- the rest
<1>39. Written'
  <2>1. inbox'["create_dataset"] = inbox["create_dataset"]
    BY <1>16, <1>18
  <2>2. F \cap settled = {}
    BY <1>10, <1>37
  <2> QED
    BY <1>d, <1>1, <1>13, <2>1, <2>2 DEF Written
<1>40. Types'
  <2>1. frame_cache' \in [Folders -> SUBSET Frame]
    <3>1. Cached(b, k) \in [Folders -> SUBSET Frame]
      <4>1. Cached(b, k) = [f \in Folders |-> Cached(b, k)[f]]
        BY DEF Cached
      <4> QED
        BY <1>9, <4>1
    <3> QED
      BY <1>c, <3>1
  <2>2. batch_queue' \in [BatchNodes -> Seq(Seq(Frame))]
    BY <1>1, <1>3, <1>13, <1>14 DEF Types
  <2>3. inbox' \in [Inboxes -> Seq(Frame)]
    BY <1>i, <1>1, <1>18, <1>21 DEF Types
  <2> QED
    BY <1>1, <1>13, <1>26, <2>1, <2>2, <2>3 DEF Types
<1>41. \A f \in Folders : OnceC(frame_cache'[f]) /\ \A x \in frame_cache'[f] : x.src = f
  <2>1. OnceC({})
    BY DEF OnceC
  <2> QED
    BY <1>9, <1>15, <2>1
<1>42. Home'
  BY <1>1, <1>13, <1>41 DEF Home
<1>43. OnceEach'
  BY <1>1, <1>3, <1>13, <1>14, <1>18, <1>21, <1>41 DEF OnceEach
<1>44. OneRound'
  BY <1>1, <1>13 DEF OneRound
<1> QED
  BY <1>28, <1>36, <1>38, <1>39, <1>40, <1>42, <1>43, <1>44 DEF FrameInv

\* The embedding node.
LEMMA EmbeddingProcessInv == ASSUME FrameInv, EmbeddingProcess PROVE FrameInv'
<1> DEFINE b == Head(batch_queue["embedding"])
<1>1. PICK q : q = batch_queue["embedding"] /\ b = Head(q)
  OBVIOUS
<1>2. q # <<>>
  BY <1>1 DEF EmbeddingProcess, Ready
<1>5. \/ frame_cache' = Cached(b, Len(b)) /\ UNCHANGED <<inbox, flagged, lost>>
      \/ \E k \in FirstComplete(b) :
           /\ frame_cache' = [Cached(b, k) EXCEPT ![b[k].src] = {}]
           /\ \E noise \in SUBSET Keys(Cached(b, k)[b[k].src]) :
                \E reps \in Representatives(Keys(Cached(b, k)[b[k].src]) \ noise) :
                  LET final == Select(Cached(b, k)[b[k].src], noise \cup reps) IN
                    /\ \E frames \in InOrder(final) : Deliver("model", frames)
                    /\ flagged' = flagged \cup {Key(f) : f \in {g \in final : g.drop}}
           /\ lost' = lost \cup {<<"batch", Key(b[i])>> : i \in (k + 1)..Len(b)}
  BY Zenon DEF EmbeddingProcess
<1> HIDE DEF b
<1>3. CASE frame_cache' = Cached(b, Len(b)) /\ UNCHANGED <<inbox, flagged, lost>>
  BY <1>1, <1>2, <1>3, CacheAllInv
<1>4. ASSUME NEW k \in FirstComplete(b),
             frame_cache' = [Cached(b, k) EXCEPT ![b[k].src] = {}],
             \E noise \in SUBSET Keys(Cached(b, k)[b[k].src]) :
               \E reps \in Representatives(Keys(Cached(b, k)[b[k].src]) \ noise) :
                 LET final == Select(Cached(b, k)[b[k].src], noise \cup reps) IN
                   /\ \E frames \in InOrder(final) : Deliver("model", frames)
                   /\ flagged' = flagged \cup {Key(f) : f \in {g \in final : g.drop}},
             lost' = lost \cup {<<"batch", Key(b[i])>> : i \in (k + 1)..Len(b)}
      PROVE  FrameInv'
  <2>1. PICK src : src = b[k].src
    OBVIOUS
  <2>2. PICK folder : folder = Cached(b, k)[src]
    OBVIOUS
  <2>3. PICK noise, reps :
          LET final == Select(folder, noise \cup reps) IN
            /\ \E frames \in InOrder(final) : Deliver("model", frames)
            /\ flagged' = flagged \cup {Key(f) : f \in {g \in final : g.drop}}
    BY <1>4, <2>1, <2>2
  <2>4. PICK picked : picked = noise \cup reps
    OBVIOUS
  <2>5. PICK final : final = Select(folder, picked)
    OBVIOUS
  <2>6. PICK frames \in InOrder(final) : inbox' = [inbox EXCEPT !["model"] = @ \o frames]
    BY <2>3, <2>4, <2>5 DEF Deliver
  <2>7. PICK F : F = {Key(f) : f \in {g \in final : g.drop}}
    OBVIOUS
  <2>8. flagged' = flagged \cup F
    BY <2>3, <2>4, <2>5, <2>7
  <2>9. \A c : c \in F <=> \E z \in final : z.drop /\ c = Key(z)
    BY <2>7
  <2>10. \A l : l \in lost' <=> l \in lost \/ \E c \in KeysFrom(b, k) : l = <<"batch", c>>
    BY <1>4 DEF KeysFrom
  <2>11. frame_cache' = [Cached(b, k) EXCEPT ![src] = {}]
    BY <1>4, <2>1
  <2>12. Completing(q, b, k, src, folder, picked, final, frames, F)
    BY <1>1, <1>2, <2>1, <2>2, <2>5, <2>6, <2>8, <2>9, <2>10, <2>11 DEF Completing
  <2> QED
    BY ONLY FrameInv, EmbeddingProcess, <2>12, CompleteInv
<1> QED
  BY <1>3, <1>4, <1>5

\* The embedding node raises: the frames before k are cached, the others are lost, with
\* the folders in D that were taken out of the caches.
Raised(q, b, k, D, M) ==
  /\ q = batch_queue["embedding"] /\ q # <<>> /\ b = Head(q) /\ k \in 0..Len(b) /\ D \in SUBSET Folders
  /\ batch_queue' = [batch_queue EXCEPT !["embedding"] = Tail(@)]
  /\ DOMAIN frame_cache' = Folders
  /\ \A f \in Folders : frame_cache'[f] = IF f \in D THEN {} ELSE Cached(b, k)[f]
  /\ frame_cache' = [f \in Folders |-> frame_cache'[f]]
  /\ \A c : c \in M <=> c \in KeysFrom(b, k) \/ \E f \in D : c \in Keys(Cached(b, k)[f])
  /\ \A l : l \in lost' <=> l \in lost \/ \E c \in M : l = <<"raise", c>>
  /\ UNCHANGED <<mode, frame_id, wire, inbox, batch, al_cache, saved, flagged, settled>>

\* Such a step keeps the invariant.
LEMMA RaisedInv ==
  ASSUME FrameInv, NEW q, NEW b, NEW k, NEW D, NEW M, Raised(q, b, k, D, M)
  PROVE  FrameInv'
<1>q. q = batch_queue["embedding"] /\ q # <<>> /\ b = Head(q) /\ k \in 0..Len(b) /\ D \in SUBSET Folders
  BY DEF Raised
<1>u. batch_queue' = [batch_queue EXCEPT !["embedding"] = Tail(@)]
  BY DEF Raised
<1>c. DOMAIN frame_cache' = Folders /\ \A f \in Folders : frame_cache'[f] = IF f \in D THEN {} ELSE Cached(b, k)[f]
  BY DEF Raised
<1>v. frame_cache' = [f \in Folders |-> frame_cache'[f]]
  BY ONLY Raised(q, b, k, D, M), Zenon DEF Raised
<1>m. \A c : c \in M <=> c \in KeysFrom(b, k) \/ \E f \in D : c \in Keys(Cached(b, k)[f])
  BY DEF Raised
<1>l. \A l : l \in lost' <=> l \in lost \/ \E c \in M : l = <<"raise", c>>
  BY DEF Raised
<1>1. Types /\ Home /\ OnceEach /\ Spread(KeysAt, WasRead) /\ Flags /\ Written /\ Losses /\ OneRound
  BY DEF FrameInv
<1>2. PICK r, a, h, cut : /\ r = Tail(q) /\ a = <<"batch_queue", "embedding">>
                          /\ h = SubSeq(b, 1, k) /\ cut = KeysFrom(b, k)
  OBVIOUS
<1>3. /\ q \in Seq(Seq(Frame)) /\ r \in Seq(Seq(Frame)) /\ OnceQ(r) /\ b \in Seq(Frame) /\ Once(b)
      /\ "embedding" \in BatchNodes /\ a \in Place /\ FramesAt[a] = Queued(q) /\ Queued(q) = ToSet(b) \cup Queued(r)
  BY <1>q, <1>2, Taken
<1>4. /\ mode' = mode /\ frame_id' = frame_id /\ wire' = wire /\ batch' = batch /\ al_cache' = al_cache
      /\ inbox' = inbox /\ saved' = saved /\ flagged' = flagged /\ settled' = settled /\ WasRead' = WasRead
  BY DEF Raised, WasRead
<1>5. /\ h \in Seq(Frame) /\ Once(h) /\ ToSet(h) \subseteq ToSet(b)
      /\ Keys(ToSet(b)) = Keys(ToSet(h)) \cup cut /\ Keys(ToSet(h)) \cap cut = {}
  BY ONLY <1>q, <1>2, <1>3, PrefixIs
<1>6. DOMAIN h = 1..k /\ \A i \in 1..k : h[i] = b[i]
  <2>1. h = SubSeq(b, 1, k) /\ k \in 0..Len(b) /\ b \in Seq(Frame) /\ Len(b) \in Nat
    BY <1>q, <1>2, <1>3
  <2> QED
    BY ONLY <2>1
<1>7. \A f \in Folders : Cached(b, k)[f] = CacheOf(h, f)
  <2>1. b \in Seq(Frame) /\ k \in 0..Len(b) /\ h \in Seq(Frame)
    BY ONLY <1>q, <1>3, <1>5
  <2> QED
    BY ONLY <2>1, <1>6, CachedIs
<1>8. batch_queue'["embedding"] = r /\ \A n \in BatchNodes : n # "embedding" => batch_queue'[n] = batch_queue[n]
  BY <1>q, <1>u, <1>1, <1>2, <1>3 DEF Types
<1>9. ASSUME NEW f \in Folders
      PROVE  /\ Cached(b, k)[f] \in SUBSET Frame /\ OnceC(Cached(b, k)[f]) /\ \A x \in Cached(b, k)[f] : x.src = f
             /\ Keys(Cached(b, k)[f]) = Keys(frame_cache[f]) \cup Keys(FromFolder(h, f))
             /\ Keys(Cached(b, k)[f]) \cap LostKeys = {} /\ Keys(Cached(b, k)[f]) \subseteq WasRead
             /\ \A x \in Cached(b, k)[f] : Key(x) \in flagged => x.drop
  <2>1. /\ batch_queue["embedding"] # <<>> /\ h \in Seq(Frame) /\ Once(h)
        /\ ToSet(h) \subseteq ToSet(Head(batch_queue["embedding"]))
    BY <1>q, <1>5
  <2>2. Cached(b, k)[f] = CacheOf(h, f)
    BY <1>7
  <2>3. /\ CacheOf(h, f) \in SUBSET Frame /\ OnceC(CacheOf(h, f)) /\ \A x \in CacheOf(h, f) : x.src = f
        /\ Keys(CacheOf(h, f)) = Keys(frame_cache[f]) \cup Keys(FromFolder(h, f))
        /\ \A x \in CacheOf(h, f) : Key(x) \in flagged => x.drop
    BY ONLY FrameInv, f \in Folders, <2>1, CachesAre
  <2>4. Keys(CacheOf(h, f)) \cap LostKeys = {} /\ Keys(CacheOf(h, f)) \subseteq WasRead
    BY ONLY FrameInv, f \in Folders, <2>1, CachesAre
  <2> QED
    BY ONLY <2>2, <2>3, <2>4
<1>10. FramesAt'[a] = Queued(r) /\ \A f \in Folders : FramesAt'[<<"frame_cache", f>>] = frame_cache'[f]
  BY <1>2, <1>3, <1>8, FramesAtNext
<1>11. PICK A : A = {<<"frame_cache", f>> : f \in Folders}
  OBVIOUS
<1>12. \A p \in Place : p \in A \cup {a} \/ FramesAt'[p] = FramesAt[p]
  <2>1. PICK C : C = A \cup {a}
    OBVIOUS
  <2>2. \A f \in Folders : <<"frame_cache", f>> \in C
    BY <1>11, <2>1
  <2>3. \A n \in BatchNodes : <<"batch_queue", n>> \in C \/ batch_queue'[n] = batch_queue[n]
    BY <1>2, <1>8, <2>1
  <2>4. \A p \in Place : p \in C \/ FramesAt'[p] = FramesAt[p]
    BY <1>4, <2>2, <2>3, Elsewhere
  <2> QED
    BY <2>1, <2>4
\* --- the frames that are lost
<1>13. cut \subseteq KeySet /\ cut \cap LostKeys = {}
  <2>1. FramesAt[a] = ToSet(b) \cup Queued(r)
    BY ONLY <1>3
  <2>2. Keys(FramesAt[a]) = Keys(ToSet(b)) \cup Keys(Queued(r))
    BY ONLY <2>1, KeysUnion
  <2>3. Keys(ToSet(b)) \subseteq KeySet
    BY <1>3, FrameKey DEF Keys, ToSet
  <2>4. Keys(FramesAt[a]) \cap LostKeys = {}
    BY <1>3, Apart
  <2> QED
    BY <1>5, <2>2, <2>3, <2>4
<1>14. M \in SUBSET KeySet /\ M \cap LostKeys = {}
  <2> SUFFICES ASSUME NEW c \in M PROVE c \in KeySet /\ c \notin LostKeys
    OBVIOUS
  <2>1. CASE c \in cut
    BY <1>13, <2>1
  <2>2. CASE \E f \in D : c \in Keys(Cached(b, k)[f])
    <3>1. PICK f \in Folders : c \in Keys(Cached(b, k)[f])
      BY <1>q, <2>2
    <3>2. Keys(Cached(b, k)[f]) \subseteq KeySet
      BY <1>9, FrameKey DEF Keys
    <3> QED
      BY <1>9, <3>1, <3>2
  <2> QED
    BY <1>m, <1>2, <2>1, <2>2
<1>15. /\ LostKeys' = LostKeys \cup M
       /\ lost' \subseteq Reason \X KeySet
       /\ \A l, n \in lost' : l[2] = n[2] => l = n
       /\ \A l \in lost' : l[1] = "batch" => l \in lost
  <2>1. "raise" \in Reason /\ lost \subseteq Reason \X KeySet
    BY <1>1 DEF Types, Reason
  <2>2. \A l, n \in lost : l[2] = n[2] => l = n
    BY <1>1 DEF Losses
  <2>3. /\ LostKeys' = LostKeys \cup M
        /\ lost' \subseteq Reason \X KeySet
        /\ \A l, n \in lost' : l[2] = n[2] => l = n
        /\ \A l \in lost' : l[1] = "batch" => l \in lost \/ ("raise" = "batch" /\ M # {})
    BY ONLY <1>l, <1>14, <2>1, <2>2, LoseStep
  <2> QED
    BY <2>3
\* --- where the keys are now
<1>16. PICK L : L = [p \in Spots |-> IF p = a THEN Keys(Queued(r)) ELSE IF p = Lost THEN LostKeys \cup cut
                                     ELSE IF p \in A THEN Keys(Cached(b, k)[p[2]]) ELSE KeysAt[p]]
  OBVIOUS
<1>17. a \in Spots /\ Lost \in Spots /\ a # Lost /\ a \notin A
  BY <1>2, <1>3, <1>11, KeysAtAre, PlacesAre
<1>18. L[a] = Keys(Queued(r)) /\ L[Lost] = LostKeys \cup cut
  BY <1>16, <1>17
<1>19. ASSUME NEW f \in Folders
       PROVE  L[<<"frame_cache", f>>] = Keys(Cached(b, k)[f])
  <2>1. PICK p : p = <<"frame_cache", f>>
    OBVIOUS
  <2>2. p \in Spots /\ p # a /\ p # Lost /\ p \in A /\ p[2] = f
    BY <1>2, <1>11, <2>1, KeysAtAre, PlacesAre DEF Lost
  <2>3. L[p] = Keys(Cached(b, k)[p[2]])
    BY <1>16, <2>2
  <2> QED
    BY <2>1, <2>2, <2>3
<1>20. \A p \in Spots : p \notin {a, Lost} /\ p \notin A => L[p] = KeysAt[p]
  BY <1>16
<1>21. Spread(L, WasRead)
  <2>1. Keys(ToSet(Head(q))) = Keys(ToSet(h)) \cup cut /\ Keys(ToSet(h)) \cap cut = {}
    BY <1>q, <1>5
  <2>2. L[<<"batch_queue", "embedding">>] = Keys(Queued(Tail(q))) /\ L[Lost] = LostKeys \cup cut
    BY <1>2, <1>18
  <2>3. \A f \in Folders : L[<<"frame_cache", f>>] = Keys(frame_cache[f]) \cup Keys(FromFolder(h, f))
    <3>1. ASSUME NEW f \in Folders
          PROVE  L[<<"frame_cache", f>>] = Keys(frame_cache[f]) \cup Keys(FromFolder(h, f))
      BY ONLY <1>9, <1>19, f \in Folders
    <3> QED
      BY ONLY <3>1
  <2>4. \A p \in Spots : \/ p \in {<<"batch_queue", "embedding">>, Lost}
                         \/ \E f \in Folders : p = <<"frame_cache", f>>
                         \/ L[p] = KeysAt[p]
    BY <1>2, <1>11, <1>20
  <2> QED
    BY ONLY FrameInv, <1>q, <1>5, <2>1, <2>2, <2>3, <2>4, CacheStage
<1>22. PICK N : \A c : c \in N <=> \E f \in D : c \in Keys(Cached(b, k)[f])
  <2>1. PICK N : N = UNION {Keys(Cached(b, k)[f]) : f \in D}
    OBVIOUS
  <2> QED
    BY <2>1
<1>23. N \in SUBSET WasRead
  BY <1>q, <1>9, <1>22
<1>24. \A p \in Spots : \A c : c \in KeysAt'[p] <=> (c \in L[p] /\ c \notin N) \/ (c \in N /\ p = Lost)
  <2> SUFFICES ASSUME NEW p \in Spots, NEW c
               PROVE  c \in KeysAt'[p] <=> (c \in L[p] /\ c \notin N) \/ (c \in N /\ p = Lost)
    OBVIOUS
  <2>1. \A s, t \in Spots : c \in L[s] /\ c \in L[t] => s = t
    BY ONLY <1>21, Zenon DEF Spread
  <2>2. \A f \in Folders : <<"frame_cache", f>> \in Spots /\ <<"frame_cache", f>> # Lost
    BY KeysAtAre, PlacesAre DEF Lost
  <2>3. c \in N => \E f \in D : c \in L[<<"frame_cache", f>>] /\ <<"frame_cache", f>> \in Spots
    BY <1>q, <1>19, <1>22, <2>2
  <2>4. (\A f \in D : p # <<"frame_cache", f>>) => ~(c \in L[p] /\ c \in N)
    BY <1>q, <2>1, <2>3
  <2>5. CASE p = Lost
    <3>1. c \in KeysAt'[p] <=> c \in LostKeys \/ c \in M
      BY <1>15, <2>5, KeysAtAre
    <3>2. c \in M <=> c \in cut \/ c \in N
      BY <1>m, <1>2, <1>22
    <3>3. c \in L[p] <=> c \in LostKeys \/ c \in cut
      BY <1>18, <2>5
    <3> QED
      BY <2>5, <3>1, <3>2, <3>3
  <2>6. CASE p = a
    <3>1. KeysAt'[p] = L[p]
      BY <1>3, <1>10, <1>18, <2>6, KeysAtAre
    <3>2. \A f \in D : p # <<"frame_cache", f>>
      BY <1>2, <2>6
    <3> QED
      BY <1>17, <2>4, <2>6, <3>1, <3>2
  <2>7. CASE p \in A
    <3>1. PICK f \in Folders : p = <<"frame_cache", f>>
      BY ONLY <1>11, <2>7
    <3>2. KeysAt'[p] = Keys(frame_cache'[f])
      BY <1>10, <3>1, KeysAtAre, PlacesAre
    <3>3. L[p] = Keys(Cached(b, k)[f]) /\ p # Lost
      BY <1>19, <2>2, <3>1
    <3>4. CASE f \in D
      <4>1. KeysAt'[p] = {}
        BY <1>c, <3>2, <3>4 DEF Keys
      <4> QED
        BY <1>22, <3>3, <3>4, <4>1
    <3>5. CASE f \notin D
      <4>1. KeysAt'[p] = L[p]
        BY <1>c, <3>2, <3>3, <3>5
      <4>2. \A g \in D : p # <<"frame_cache", g>>
        BY <3>1, <3>5
      <4> QED
        BY <2>4, <3>3, <4>1, <4>2
    <3> QED
      BY <3>4, <3>5
  <2>8. CASE p \notin {a, Lost} /\ p \notin A
    <3>1. \A f \in D : p # <<"frame_cache", f>>
      BY <1>q, <1>11, <2>8
    <3>2. KeysAt'[p] = KeysAt[p]
      <4>1. CASE p \in Place
        BY <1>12, <2>8, <4>1, KeysAtAre
      <4>2. CASE p = Settled
        BY <1>4, <4>2, KeysAtAre
      <4> QED
        BY <2>8, <4>1, <4>2, KeysAtAre
    <3>3. L[p] = KeysAt[p]
      BY <1>20, <2>8
    <3> QED
      BY <2>4, <2>8, <3>1, <3>2, <3>3
  <2> QED
    BY <2>5, <2>6, <2>7, <2>8
<1>25. Spread(KeysAt', WasRead)
  <2>1. PICK g : g = [c \in N |-> Lost]
    OBVIOUS
  <2>2. g \in [N -> Spots] /\ \A c \in N : g[c] = Lost
    BY <1>17, <2>1
  <2>3. \A p \in Spots : \A c : c \in KeysAt'[p] <=> (c \in L[p] /\ c \notin N) \/ (c \in N /\ g[c] = p)
    BY ONLY <1>24, <2>2
  <2> QED
    BY ONLY <1>21, <1>23, <2>2, <2>3, Relocated
<1>26. Spread(KeysAt, WasRead)'
  BY <1>4, <1>25 DEF Spread
\* --- the rest
<1>27. \A f \in Folders : /\ frame_cache'[f] \in SUBSET Frame /\ OnceC(frame_cache'[f])
                          /\ \A x \in frame_cache'[f] : x.src = f /\ (Key(x) \in flagged => x.drop)
  <2>1. OnceC({})
    BY DEF OnceC
  <2> QED
    BY <1>c, <1>9, <2>1
<1>28. Flags'
  <2>1. ASSUME NEW p \in Place, NEW x \in FramesAt'[p], Key(x) \in flagged PROVE x.drop
    <3>1. CASE p = a
      BY <1>1, <1>3, <1>10, <2>1, <3>1 DEF Flags
    <3>2. CASE p \in A
      BY <1>10, <1>11, <1>27, <2>1, <3>2
    <3>3. CASE FramesAt'[p] = FramesAt[p]
      BY <1>1, <2>1, <3>3 DEF Flags
    <3> QED
      BY <1>12, <3>1, <3>2, <3>3
  <2> QED
    BY <1>1, <1>4, <2>1 DEF Flags
<1>29. Types'
  <2>1. frame_cache' \in [Folders -> SUBSET Frame]
    BY <1>v, <1>27
  <2>2. batch_queue' \in [BatchNodes -> Seq(Seq(Frame))]
    BY <1>u, <1>1, <1>3, <1>8 DEF Types
  <2> QED
    BY <1>1, <1>4, <1>15, <2>1, <2>2 DEF Types
<1>30. Home'
  BY <1>1, <1>4, <1>27 DEF Home
<1>31. OnceEach'
  BY <1>1, <1>3, <1>4, <1>8, <1>27 DEF OnceEach
<1>32. Written' /\ Losses' /\ OneRound'
  BY <1>1, <1>4, <1>15 DEF Written, Losses, OneRound
<1> QED
  BY <1>26, <1>28, <1>29, <1>30, <1>31, <1>32 DEF FrameInv

\* The embedding node raises, before, while or after it caches the batch.
LEMMA EmbeddingRaiseInv == ASSUME FrameInv, EmbeddingRaise PROVE FrameInv'
<1> DEFINE b == Head(batch_queue["embedding"])
<1>1. PICK q : q = batch_queue["embedding"] /\ b = Head(q)
  OBVIOUS
<1>2. q # <<>> /\ batch_queue' = [batch_queue EXCEPT !["embedding"] = Tail(@)]
  BY <1>1 DEF EmbeddingRaise, Ready, Unqueue
<1>3. UNCHANGED <<mode, frame_id, wire, inbox, batch, al_cache, saved, flagged, settled>>
  BY DEF EmbeddingRaise, config, readers
<1>4. \/ \E k \in 0..Len(b) :
           /\ frame_cache' = Cached(b, k)
           /\ lost' = lost \cup {<<"raise", c>> : c \in {Key(b[i]) : i \in (k + 1)..Len(b)}}
      \/ \E k \in FirstComplete(b) :
           /\ frame_cache' = [Cached(b, k) EXCEPT ![b[k].src] = {}]
           /\ lost' = lost \cup {<<"raise", c>> : c \in {Key(b[i]) : i \in (k + 1)..Len(b)}
                                                          \cup Keys(Cached(b, k)[b[k].src])}
  BY Zenon DEF EmbeddingRaise
<1>5. b \in Seq(Frame) /\ DOMAIN b = 1..Len(b) /\ Len(b) \in Nat
  <2>1. Head(q) \in Seq(Frame)
    BY <1>1, <1>2, Taken
  <2>2. b \in Seq(Frame)
    BY <1>1, <2>1
  <2> HIDE DEF b
  <2> QED
    BY ONLY <2>2
<1> HIDE DEF b
<1>6. ASSUME NEW k \in 0..Len(b), frame_cache' = Cached(b, k),
             lost' = lost \cup {<<"raise", c>> : c \in {Key(b[i]) : i \in (k + 1)..Len(b)}}
      PROVE  FrameInv'
  <2>1. PICK D, M : D = {} /\ M = KeysFrom(b, k)
    OBVIOUS
  <2>2. \A l : l \in lost' <=> l \in lost \/ \E c \in M : l = <<"raise", c>>
    BY <1>6, <2>1 DEF KeysFrom
  <2>3. DOMAIN frame_cache' = Folders /\ frame_cache' = [f \in Folders |-> frame_cache'[f]]
    BY <1>6 DEF Cached
  <2>4. Raised(q, b, k, D, M)
    BY <1>1, <1>2, <1>3, <1>6, <2>1, <2>2, <2>3 DEF Raised
  <2> QED
    BY ONLY FrameInv, <2>4, RaisedInv
<1>7. ASSUME NEW k \in FirstComplete(b), frame_cache' = [Cached(b, k) EXCEPT ![b[k].src] = {}],
             lost' = lost \cup {<<"raise", c>> : c \in {Key(b[i]) : i \in (k + 1)..Len(b)}
                                                         \cup Keys(Cached(b, k)[b[k].src])}
      PROVE  FrameInv'
  <2>1. k \in 1..Len(b) /\ k \in 0..Len(b)
    BY <1>5 DEF FirstComplete
  <2>2. PICK src, D, M : src = b[k].src /\ D = {src} /\ M = KeysFrom(b, k) \cup Keys(Cached(b, k)[src])
    OBVIOUS
  <2>3. src \in Folders
    <3>1. b[k] \in Frame
      BY ONLY <1>5, <2>1
    <3> QED
      BY <2>2, <3>1 DEF Frame
  <2>4. \A l : l \in lost' <=> l \in lost \/ \E c \in M : l = <<"raise", c>>
    BY <1>7, <2>2 DEF KeysFrom
  <2>5. DOMAIN Cached(b, k) = Folders
    BY DEF Cached
  <2>6. frame_cache' = [Cached(b, k) EXCEPT ![src] = {}]
    BY <1>7, <2>2
  <2>7. /\ DOMAIN frame_cache' = Folders /\ frame_cache' = [f \in Folders |-> frame_cache'[f]]
        /\ \A f \in Folders : frame_cache'[f] = IF f \in D THEN {} ELSE Cached(b, k)[f]
    BY ONLY <2>2, <2>3, <2>5, <2>6
  <2>8. \A c : c \in M <=> c \in KeysFrom(b, k) \/ \E f \in D : c \in Keys(Cached(b, k)[f])
    BY <2>2
  <2>9. Raised(q, b, k, D, M)
    BY <1>1, <1>2, <1>3, <2>1, <2>2, <2>3, <2>4, <2>7, <2>8 DEF Raised
  <2> QED
    BY ONLY FrameInv, <2>9, RaisedInv
<1> QED
  BY <1>4, <1>6, <1>7

-----------------------------------------------------------------------------
\* Every step keeps the invariant.
LEMMA ChainSteps == FrameInv /\ [Next]_vars => FrameInv'
<1> SUFFICES ASSUME FrameInv, [Next]_vars PROVE FrameInv'
  OBVIOUS
<1>1. ASSUME NEW f \in Folders, ReadFrame(f) \/ ReadEnd(f) \/ HashProcess(f) PROVE FrameInv'
  BY <1>1, ReadFrameInv, ReadEndInv, HashProcessInv
<1>2. CASE BlurProcess \/ BlurRaise
  BY <1>2, BlurProcessInv, BlurRaiseInv
<1>3. ASSUME NEW n \in BatchNodes, InitRuntime(n) \/ CollectDone(n) \/ CollectFull(n) PROVE FrameInv'
  <2>1. UNCHANGED <<mode, frame_id, wire, inbox, batch, batch_queue, frame_cache, al_cache, saved, flagged, settled, lost>>
    BY <1>3 DEF InitRuntime, CollectDone, CollectFull, collecting, config, readers, caches, history
  <2> QED
    BY <2>1, Untouched
<1>4. ASSUME NEW n \in BatchNodes, CollectFrame(n) \/ CollectPut(n) \/ CollectExit(n) PROVE FrameInv'
  BY <1>4, CollectFrameInv, CollectPutInv, CollectExitInv
<1>5. CASE EmbeddingProcess \/ EmbeddingRaise \/ DetectProcess \/ DetectRaise
  BY <1>5, EmbeddingProcessInv, EmbeddingRaiseInv, DetectProcessInv, DetectRaiseInv
<1>6. CASE ActiveLearn \/ CreateDatasetProcess
  BY <1>6, ActiveLearnInv, CreateDatasetProcessInv
<1>7. CASE Stop \/ UNCHANGED vars
  <2>1. UNCHANGED <<mode, frame_id, wire, inbox, batch, batch_queue, frame_cache, al_cache, saved, flagged, settled, lost>>
    BY <1>7 DEF Stop, vars, config, readers, batcher, caches, history
  <2> QED
    BY <2>1, Untouched
<1> QED
  BY <1>1, <1>2, <1>3, <1>4, <1>5, <1>6, <1>7 DEF Next, Collect

\* The frames at a place and the slots that they are in.
LEMMA SlotsAre ==
  ASSUME Types, OnceEach, NEW p \in Place
  PROVE  /\ \A s \in Slots(p) : s[2] \in FramesAt[p]
         /\ \A x \in FramesAt[p] : \E s \in Slots(p) : s[2] = x
         /\ \A s, t \in Slots(p) : Key(s[2]) = Key(t[2]) => s = t
<1>1. ASSUME NEW q, Once(q), Slots(p) = {<<i, q[i]>> : i \in DOMAIN q}, FramesAt[p] = ToSet(q)
      PROVE  /\ \A s \in Slots(p) : s[2] \in FramesAt[p]
             /\ \A x \in FramesAt[p] : \E s \in Slots(p) : s[2] = x
             /\ \A s, t \in Slots(p) : Key(s[2]) = Key(t[2]) => s = t
  <2>1. \A s \in Slots(p) : \E i \in DOMAIN q : s = <<i, q[i]>> /\ s[2] = q[i]
    BY <1>1
  <2>2. \A i \in DOMAIN q : <<i, q[i]>> \in Slots(p) /\ <<i, q[i]>>[2] = q[i]
    BY <1>1
  <2>3. \A x : x \in FramesAt[p] <=> \E i \in DOMAIN q : x = q[i]
    BY <1>1 DEF ToSet
  <2>4. \A s, t \in Slots(p) : Key(s[2]) = Key(t[2]) => s = t
    <3> SUFFICES ASSUME NEW s \in Slots(p), NEW t \in Slots(p), Key(s[2]) = Key(t[2]) PROVE s = t
      OBVIOUS
    <3>1. PICK i \in DOMAIN q : s = <<i, q[i]>> /\ s[2] = q[i]
      BY <2>1
    <3>2. PICK j \in DOMAIN q : t = <<j, q[j]>> /\ t[2] = q[j]
      BY <2>1
    <3>3. i = j
      BY <1>1, <3>1, <3>2 DEF Once
    <3> QED
      BY <3>1, <3>2, <3>3
  <2>5. \A s \in Slots(p) : s[2] \in FramesAt[p]
    BY <2>1, <2>3
  <2>6. \A x \in FramesAt[p] : \E s \in Slots(p) : s[2] = x
    BY <2>2, <2>3
  <2> QED
    BY <2>4, <2>5, <2>6
<1>2. ASSUME NEW C, OnceC(C), Slots(p) = {<<0, f>> : f \in C}, FramesAt[p] = C
      PROVE  /\ \A s \in Slots(p) : s[2] \in FramesAt[p]
             /\ \A x \in FramesAt[p] : \E s \in Slots(p) : s[2] = x
             /\ \A s, t \in Slots(p) : Key(s[2]) = Key(t[2]) => s = t
  <2>1. \A s \in Slots(p) : s = <<0, s[2]>> /\ s[2] \in C
    BY <1>2
  <2>2. \A x \in C : <<0, x>> \in Slots(p) /\ <<0, x>>[2] = x
    BY <1>2
  <2>3. \A s, t \in Slots(p) : Key(s[2]) = Key(t[2]) => s = t
    <3> SUFFICES ASSUME NEW s \in Slots(p), NEW t \in Slots(p), Key(s[2]) = Key(t[2]) PROVE s = t
      OBVIOUS
    <3>1. s[2] = t[2]
      BY <1>2, <2>1 DEF OnceC
    <3> QED
      BY <2>1, <3>1
  <2>4. \A x \in FramesAt[p] : \E s \in Slots(p) : s[2] = x
    BY <1>2, <2>2
  <2> QED
    BY <1>2, <2>1, <2>3, <2>4
<1>3. ASSUME NEW f \in Folders, p = <<"wire", f>>
      PROVE  Once(wire[f]) /\ Slots(p) = {<<i, wire[f][i]>> : i \in DOMAIN wire[f]} /\ FramesAt[p] = ToSet(wire[f])
  BY <1>3, FramesAtAre DEF Slots, OnceEach
<1>4. ASSUME NEW f \in Folders, p = <<"frame_cache", f>>
      PROVE  OnceC(frame_cache[f]) /\ Slots(p) = {<<0, x>> : x \in frame_cache[f]} /\ FramesAt[p] = frame_cache[f]
  BY <1>4, FramesAtAre DEF Slots, OnceEach
<1>5. ASSUME NEW f \in Folders, p = <<"al_cache", f>>
      PROVE  OnceC(al_cache[f]) /\ Slots(p) = {<<0, x>> : x \in al_cache[f]} /\ FramesAt[p] = al_cache[f]
  BY <1>5, FramesAtAre DEF Slots, OnceEach
<1>6. ASSUME NEW n \in Inboxes \ {"create_dataset"}, p = <<"inbox", n>>
      PROVE  Once(inbox[n]) /\ Slots(p) = {<<i, inbox[n][i]>> : i \in DOMAIN inbox[n]} /\ FramesAt[p] = ToSet(inbox[n])
  BY <1>6, FramesAtAre DEF Slots, OnceEach
<1>7. ASSUME NEW n \in BatchNodes, p = <<"batch", n>>
      PROVE  Once(batch[n]) /\ Slots(p) = {<<i, batch[n][i]>> : i \in DOMAIN batch[n]} /\ FramesAt[p] = ToSet(batch[n])
  BY <1>7, FramesAtAre DEF Slots, OnceEach
<1>8. ASSUME NEW n \in BatchNodes, p = <<"batch_queue", n>>
      PROVE  /\ \A s \in Slots(p) : s[2] \in FramesAt[p]
             /\ \A x \in FramesAt[p] : \E s \in Slots(p) : s[2] = x
             /\ \A s, t \in Slots(p) : Key(s[2]) = Key(t[2]) => s = t
  <2>1. PICK q : q = batch_queue[n]
    OBVIOUS
  <2>2. OnceQ(q) /\ FramesAt[p] = Queued(q)
    BY <1>8, <2>1, FramesAtAre DEF OnceEach
  <2>3. Slots(p) = UNION {{<<<<i, j>>, q[i][j]>> : j \in DOMAIN q[i]} : i \in DOMAIN q}
    BY <1>8, <2>1 DEF Slots
  <2>4. \A s \in Slots(p) : \E i \in DOMAIN q : \E j \in DOMAIN q[i] : s = <<<<i, j>>, q[i][j]>>
    BY <2>3
  <2>5. \A i \in DOMAIN q : \A j \in DOMAIN q[i] : <<<<i, j>>, q[i][j]>> \in Slots(p)
    BY <2>3
  <2>6. \A i \in DOMAIN q : \A j \in DOMAIN q[i] : q[i][j] \in FramesAt[p]
    BY <2>2 DEF Queued, ToSet
  <2>7. \A x \in FramesAt[p] : \E i \in DOMAIN q : \E j \in DOMAIN q[i] : x = q[i][j]
    BY <2>2 DEF Queued, ToSet
  <2>8. \A s, t \in Slots(p) : Key(s[2]) = Key(t[2]) => s = t
    <3> SUFFICES ASSUME NEW s \in Slots(p), NEW t \in Slots(p), Key(s[2]) = Key(t[2]) PROVE s = t
      OBVIOUS
    <3>1. PICK i \in DOMAIN q : \E j \in DOMAIN q[i] : s = <<<<i, j>>, q[i][j]>>
      BY <2>4
    <3>2. PICK j \in DOMAIN q[i] : s = <<<<i, j>>, q[i][j]>>
      BY <3>1
    <3>3. PICK c \in DOMAIN q : \E d \in DOMAIN q[c] : t = <<<<c, d>>, q[c][d]>>
      BY <2>4
    <3>4. PICK d \in DOMAIN q[c] : t = <<<<c, d>>, q[c][d]>>
      BY <3>3
    <3>5. i = c /\ j = d
      BY <2>2, <3>2, <3>4 DEF OnceQ
    <3> QED
      BY <3>2, <3>4, <3>5
  <2>9. \A s \in Slots(p) : s[2] \in FramesAt[p]
    BY <2>4, <2>6
  <2>10. \A x \in FramesAt[p] : \E s \in Slots(p) : s[2] = x
    <3> SUFFICES ASSUME NEW x \in FramesAt[p] PROVE \E s \in Slots(p) : s[2] = x
      OBVIOUS
    <3>1. PICK i \in DOMAIN q : \E j \in DOMAIN q[i] : x = q[i][j]
      BY <2>7
    <3>2. PICK j \in DOMAIN q[i] : x = q[i][j]
      BY <3>1
    <3>3. PICK s : s = <<<<i, j>>, q[i][j]>>
      OBVIOUS
    <3>4. s \in Slots(p) /\ s[2] = x
      BY <2>5, <3>2, <3>3
    <3> QED
      BY <3>4
  <2> QED
    BY <2>8, <2>9, <2>10
<1> QED
  BY <1>1, <1>2, <1>3, <1>4, <1>5, <1>6, <1>7, <1>8, PlacesAre

\* The invariant gives what is claimed of the dataset.
LEMMA InvSound == FrameInv => DatasetSound
<1> SUFFICES ASSUME FrameInv PROVE DatasetSound
  OBVIOUS
<1>1. Types /\ OnceEach /\ Spread(KeysAt, WasRead) /\ Written /\ Losses
  BY DEF FrameInv
<1>2. \A p \in Place : \A s \in Slots(p) : s[2] \in FramesAt[p] /\ Key(s[2]) \in KeysAt[p] /\ p \in Spots
  BY <1>1, SlotsAre, KeysAtAre DEF Keys
<1>3. \A p, q \in Place : \A s \in Slots(p), t \in Slots(q) : Key(s[2]) = Key(t[2]) => p = q /\ s = t
  <2> SUFFICES ASSUME NEW p \in Place, NEW q \in Place, NEW s \in Slots(p), NEW t \in Slots(q), Key(s[2]) = Key(t[2])
               PROVE  p = q /\ s = t
    OBVIOUS
  <2>1. p = q
    BY <1>1, <1>2 DEF Spread
  <2> QED
    BY <1>1, <2>1, SlotsAre
<1>4. \A k : k \in Held <=> \E p \in Place : k \in KeysAt[p]
  <2>1. \A k : k \in Held <=> \E p \in Place : \E s \in Slots(p) : k = Key(s[2])
    BY DEF Held
  <2>2. \A p \in Place : \A k : k \in KeysAt[p] <=> \E s \in Slots(p) : k = Key(s[2])
    <3> SUFFICES ASSUME NEW p \in Place, NEW k PROVE k \in KeysAt[p] <=> \E s \in Slots(p) : k = Key(s[2])
      OBVIOUS
    <3>1. k \in KeysAt[p] <=> \E x \in FramesAt[p] : k = Key(x)
      BY KeysAtAre DEF Keys
    <3> QED
      BY <1>1, <3>1, SlotsAre
  <2> QED
    BY <2>1, <2>2
<1>5. Settled \in Spots /\ Lost \in Spots /\ Settled # Lost /\ \A p \in Place : p \in Spots /\ p # Settled /\ p # Lost
  BY KeysAtAre, PlacesAre
<1>6. KeysAt[Settled] = settled /\ KeysAt[Lost] = LostKeys
  BY KeysAtAre
<1>7. Held \cap settled = {} /\ Held \cap LostKeys = {} /\ settled \cap LostKeys = {}
  BY <1>1, <1>4, <1>5, <1>6 DEF Spread
<1>8. Held \cup settled \cup LostKeys = WasRead
  <2>1. \A p \in Spots : p \in Place \/ p \in {Settled, Lost}
    BY KeysAtAre
  <2> QED
    BY <1>1, <1>4, <1>5, <1>6, <2>1 DEF Spread
<1>9. FramesAccounted
  BY <1>1, <1>3, <1>7, <1>8 DEF FramesAccounted, Losses
<1>10. OnlyKeptSaved
  BY <1>1 DEF OnlyKeptSaved, Written
<1> QED
  BY <1>9, <1>10 DEF DatasetSound

\* Every frame read has one known fate, and only frames that no filter flagged are
\* saved, for any folders, batch sizes and order of the threads.
THEOREM FramesAreAccountedFor == Spec => []DatasetSound
<1>1. Init => FrameInv
  BY ChainStarts
<1>2. FrameInv /\ [Next]_vars => FrameInv'
  BY ChainSteps
<1>3. FrameInv => DatasetSound
  BY InvSound
<1> QED
  BY <1>1, <1>2, <1>3, PTL DEF Spec
=============================================================================
