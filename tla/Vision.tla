------------------------------- MODULE Vision -------------------------------
(***************************************************************************)
(* The labelling chain of assets/configs/pipeline.yaml: folder readers, the *)
(* perceptual-hash filter, the blur filter, the embedding and detection     *)
(* nodes with their batch-collecting threads, active learning, and the      *)
(* dataset writer.  Frames of several folders share the chain.              *)
(*                                                                          *)
(* Pixels, hashes, embeddings and boxes are abstracted: whether a frame is a *)
(* near-duplicate or blurred, how DBSCAN clusters a folder and which frames *)
(* score best are free choices.  Every node has the default skip policy: a  *)
(* process() that raises loses what it was given.                           *)
(***************************************************************************)
EXTENDS Naturals, SequencesExt

CONSTANTS
  Folders,          \* directories of images, each with a reader of its own
  NumImages,        \* folder -> how many files it holds
  MaxFrames,        \* bound: frames a looping reader sends
  BatchSize, BatchQueueSize,
  NumExtremes, NumToSelect,
  Scenarios         \* <<mode, fault, folders>>: only_one or loop, the one kind of
                    \* trouble this behaviour may meet, and the folders configured

ASSUME SizesAssumption ==
  /\ NumImages \in [Folders -> Nat \ {0}] /\ MaxFrames \in Nat /\ BatchSize \in Nat \ {0}
  /\ BatchQueueSize \in Nat \ {0} /\ NumExtremes \in Nat /\ NumToSelect \in Nat
  /\ IsFiniteSet(Folders) /\ Scenarios \subseteq {"only_one", "loop"} \X STRING \X SUBSET Folders

BatchNodes == {"embedding", "model"}
Inboxes    == {"blur", "embedding", "model", "active_learning", "create_dataset"}
FrameId    == 0..(MaxFrames - 1)
Frame      == [src : Folders, id : FrameId, drop : BOOLEAN]
Key(f)     == <<f.src, f.id>>
Keys(s)    == {Key(f) : f \in s}

VARIABLES
  mode, fault, unreadable,      \* the scenario, and the files that cannot be read
  booted,                       \* batch nodes whose model and mailbox are up
  frame_id, reading, wire,      \* per folder: next frame, loop running, edge to the hash node
  inbox,                        \* inbound queue of every other node
  cpc, batch, batch_queue,      \* _collect_batch thread, its batch, finished batches
  hash_cache,                   \* HashFilterMixin.cache
  frame_cache,                  \* ProcessEmbeddingInference.frame_cache
  al_cache,                     \* ActiveLearningMixin.cache
  saved,                        \* files written by create_dataset
  stopped,                      \* stop() was called on the nodes
  flagged, settled, lost        \* history: flagged by a filter, through active learning, lost

config  == <<mode, fault, unreadable>>
readers == <<frame_id, reading, wire>>
batcher == <<booted, cpc, batch, batch_queue>>
caches  == <<hash_cache, frame_cache, al_cache>>
history == <<flagged, settled, lost>>
vars    == <<config, readers, inbox, batcher, caches, saved, stopped, history>>

Init ==
  /\ \E s \in Scenarios :
       mode = s[1] /\ fault = s[2] /\ reading = [f \in Folders |-> f \in s[3]]
  /\ unreadable \in IF fault = "read" THEN {{<<f, 0>>} : f \in Folders} ELSE {{}}
  /\ booted = {}
  /\ frame_id = [f \in Folders |-> 0]
  /\ wire = [f \in Folders |-> <<>>]
  /\ inbox = [n \in Inboxes |-> <<>>]
  /\ cpc = [n \in BatchNodes |-> "none"]
  /\ batch = [n \in BatchNodes |-> <<>>]
  /\ batch_queue = [n \in BatchNodes |-> <<>>]
  /\ hash_cache = [f \in Folders |-> {}]
  /\ frame_cache = [f \in Folders |-> {}]
  /\ al_cache = [f \in Folders |-> {}]
  /\ saved = {} /\ stopped = FALSE
  /\ flagged = {} /\ settled = {} /\ lost = {}

Started == booted = BatchNodes      \* main() starts the threaded nodes only then

-----------------------------------------------------------------------------
(* FolderImageNode.process.  An unreadable file returns None and leaves      *)
(* frame_id where it is, so that the same file is tried again: a stutter.    *)
AtEnd(f) == mode = "only_one" /\ frame_id[f] >= NumImages[f]

ReadFrame(f) ==
  /\ Started /\ reading[f] /\ ~AtEnd(f)
  /\ frame_id[f] < MaxFrames
  /\ <<f, frame_id[f] % NumImages[f]>> \notin unreadable
  /\ wire' = [wire EXCEPT ![f] = Append(@, [src |-> f, id |-> frame_id[f], drop |-> FALSE])]
  /\ frame_id' = [frame_id EXCEPT ![f] = @ + 1]
  /\ UNCHANGED <<config, reading, inbox, batcher, caches, saved, stopped, history>>

(* In only_one mode the reader stops itself after the last file: its mailbox  *)
(* closes, and what its socket still holds after the linger is gone.         *)
ReadEnd(f) ==
  /\ Started /\ reading[f] /\ AtEnd(f)
  /\ reading' = [reading EXCEPT ![f] = FALSE]
  /\ \E k \in (IF fault = "linger" THEN 0 ELSE Len(wire[f]))..Len(wire[f]) :
        /\ wire' = [wire EXCEPT ![f] = SubSeq(@, 1, k)]
        /\ lost' = lost \cup {<<"linger", Key(wire[f][i])>> : i \in (k + 1)..Len(wire[f])}
  /\ UNCHANGED <<config, frame_id, inbox, batcher, caches, saved, stopped, flagged, settled>>

-----------------------------------------------------------------------------
Deliver(n, fs) == inbox' = [inbox EXCEPT ![n] = @ \o fs]

(* HashFilterMixin.process: a near-duplicate of a cached frame of the same    *)
(* folder is flagged and not cached.                                          *)
HashProcess(f) ==
  /\ ~stopped /\ wire[f] # <<>>
  /\ wire' = [wire EXCEPT ![f] = Tail(@)]
  /\ LET frame == Head(wire[f]) IN
       \/ /\ hash_cache[f] # {}
          /\ Deliver("blur", <<[frame EXCEPT !.drop = TRUE]>>)
          /\ flagged' = flagged \cup {Key(frame)}
          /\ UNCHANGED hash_cache
       \/ /\ Deliver("blur", <<frame>>)
          /\ hash_cache' = [hash_cache EXCEPT ![f] = @ \cup {frame.id}]
          /\ UNCHANGED flagged
  /\ UNCHANGED <<config, frame_id, reading, batcher, frame_cache, al_cache, saved, stopped, settled, lost>>

(* ProcessBlurInference: a frame the model calls blurred is flagged, every    *)
(* frame is passed on.  A frame that is flagged already is examined again.    *)
Pass(from, to, frame) ==
  inbox' = [inbox EXCEPT ![from] = Tail(@), ![to] = Append(@, frame)]

BlurProcess ==
  /\ ~stopped /\ inbox["blur"] # <<>>
  /\ LET frame == Head(inbox["blur"]) IN
       \/ /\ Pass("blur", "embedding", frame)
          /\ UNCHANGED flagged
       \/ /\ Pass("blur", "embedding", [frame EXCEPT !.drop = TRUE])
          /\ flagged' = flagged \cup {Key(frame)}
  /\ UNCHANGED <<config, readers, batcher, caches, saved, stopped, settled, lost>>

(* A model that raises: the skip policy drops the frame.                      *)
BlurRaise ==
  /\ fault = "raise" /\ ~stopped /\ inbox["blur"] # <<>>
  /\ inbox' = [inbox EXCEPT !["blur"] = Tail(@)]
  /\ lost' = lost \cup {<<"raise", Key(Head(inbox["blur"]))>>}
  /\ UNCHANGED <<config, readers, batcher, caches, saved, stopped, flagged, settled>>

-----------------------------------------------------------------------------
(* BaseBatchProcessInference.  init_process_runtime builds the model, creates *)
(* the batch queue and starts the collecting thread; the node's mailbox is    *)
(* rebound right after.                                                       *)
InitRuntime(n) ==
  /\ n \notin booted /\ ~stopped
  /\ booted' = booted \cup {n}
  /\ cpc' = [cpc EXCEPT ![n] = "fill"]
  /\ UNCHANGED <<config, readers, inbox, batch, batch_queue, caches, saved, stopped, history>>

collecting == <<config, readers, booted, caches, saved, stopped, flagged, settled>>

(* The thread takes a message while the batch is short of batch_size.         *)
CollectFrame(n) ==
  /\ cpc[n] = "fill" /\ Len(batch[n]) < BatchSize /\ inbox[n] # <<>>
  /\ batch' = [batch EXCEPT ![n] = Append(@, Head(inbox[n]))]
  /\ inbox' = [inbox EXCEPT ![n] = Tail(@)]
  /\ UNCHANGED <<collecting, cpc, batch_queue, lost>>

(* The batch is full, or batch_collect_timeout has passed with part of it.    *)
CollectDone(n) ==
  /\ cpc[n] = "fill" /\ batch[n] # <<>>
  /\ cpc' = [cpc EXCEPT ![n] = "put"]
  /\ UNCHANGED <<collecting, inbox, batch, batch_queue, lost>>

(* batch_queue.put, at once or after the thread has seen room in the queue;   *)
(* the loop then looks at stop_event.                                         *)
CollectPut(n) ==
  /\ cpc[n] \in {"put", "full"} /\ Len(batch_queue[n]) < BatchQueueSize
  /\ batch_queue' = [batch_queue EXCEPT ![n] = Append(@, batch[n])]
  /\ batch' = [batch EXCEPT ![n] = <<>>]
  /\ cpc' = [cpc EXCEPT ![n] = IF stopped THEN "exit" ELSE "fill"]
  /\ UNCHANGED <<collecting, inbox, lost>>

\* Faulty variant of CollectFull: a full queue drops the batch
CollectFullDropping(n) ==
  /\ cpc[n] = "put" /\ Len(batch_queue[n]) = BatchQueueSize
  /\ cpc' = [cpc EXCEPT ![n] = "fill"]
  /\ batch' = [batch EXCEPT ![n] = <<>>]
  /\ UNCHANGED <<collecting, inbox, batch_queue, lost>>

CollectFull(n) ==
  /\ cpc[n] = "put" /\ Len(batch_queue[n]) = BatchQueueSize
  /\ cpc' = [cpc EXCEPT ![n] = "full"]
  /\ UNCHANGED <<collecting, inbox, batch, batch_queue, lost>>

\* Faulty variant of CollectExit: stop_event is looked at between batches only
CollectExitIdle(n) ==
  /\ stopped /\ cpc[n] = "fill" /\ batch[n] = <<>>
  /\ cpc' = [cpc EXCEPT ![n] = "exit"]
  /\ UNCHANGED <<collecting, inbox, batch, batch_queue, lost>>

(* stop_event ends the thread between two batches, or while it waits for the  *)
(* queue, in which case the batch in its hand is gone.                        *)
CollectExit(n) ==
  /\ stopped
  /\ (cpc[n] = "fill" /\ batch[n] = <<>>) \/ cpc[n] = "full"
  /\ cpc' = [cpc EXCEPT ![n] = "exit"]
  /\ batch' = [batch EXCEPT ![n] = <<>>]
  /\ lost' = lost \cup {<<"stop", Key(batch[n][i])>> : i \in DOMAIN batch[n]}
  /\ UNCHANGED <<collecting, inbox, batch_queue>>

Collect(n) ==
  CollectFrame(n) \/ CollectDone(n) \/ CollectPut(n) \/ CollectFull(n) \/ CollectExit(n)

(* _collect_data of the run loop: the next finished batch.                    *)
Ready(n) == ~stopped /\ batch_queue[n] # <<>>
Unqueue(n) == batch_queue' = [batch_queue EXCEPT ![n] = Tail(@)]

-----------------------------------------------------------------------------
(* ProcessEmbeddingInference.cluster_and_select: noise is kept whole; of a     *)
(* cluster, the medoid, the frame farthest from it unless all are alike, and   *)
(* farthest-first picks until 1 + num_extremes are selected.                   *)
Representatives(C) ==
  IF C = {} THEN {{}}
  ELSE LET sizes == IF NumExtremes = 0 THEN {1, 2} ELSE {1 + NumExtremes}
           most(k) == IF k > Cardinality(C) THEN Cardinality(C) ELSE k
       IN UNION {kSubset(most(k), C) : k \in sizes}

(* A frame no representative stands for is flagged; one flagged by a filter    *)
(* before stays flagged.                                                       *)
Select(frames, picked) ==
  {IF f.drop THEN f ELSE [f EXCEPT !.drop = Key(f) \notin picked] : f \in frames}

(* Frames of one folder in the order they were cached, that is by frame_id.    *)
Enumerations(S) == Bijection(1..Cardinality(S), S)
InOrder(frames) == {s \in Enumerations(frames) : \A i, j \in DOMAIN s : i < j => s[i].id < s[j].id}

(* postprocess_result caches the batch frame by frame and, when a folder has   *)
(* frame_id_last frames, RETURNS its selection: what follows in the batch is   *)
(* never cached.                                                               *)
Cached(b, k) == [f \in Folders |-> frame_cache[f] \cup {b[i] : i \in {j \in 1..k : b[j].src = f}}]
CompletesAt(b, k) == Cardinality(Cached(b, k)[b[k].src]) = NumImages[b[k].src]
FirstComplete(b) == {k \in DOMAIN b : CompletesAt(b, k) /\ \A j \in 1..(k - 1) : ~CompletesAt(b, j)}

EmbeddingProcess ==
  /\ Ready("embedding") /\ Unqueue("embedding")
  /\ LET b == Head(batch_queue["embedding"])
     IN \/ /\ FirstComplete(b) = {}
           /\ frame_cache' = Cached(b, Len(b))
           /\ UNCHANGED <<inbox, flagged, lost>>
        \/ \E k \in FirstComplete(b) :
           /\ LET src == b[k].src
                  folder == Cached(b, k)[src]
              IN /\ frame_cache' = [Cached(b, k) EXCEPT ![src] = {}]
                 /\ \E noise \in SUBSET Keys(folder) :
                      \E reps \in Representatives(Keys(folder) \ noise) :
                        LET final == Select(folder, noise \cup reps) IN
                          /\ \E frames \in InOrder(final) : Deliver("model", frames)
                          /\ flagged' = flagged \cup {Key(f) : f \in {g \in final : g.drop}}
           /\ lost' = lost \cup {<<"batch", Key(b[i])>> : i \in (k + 1)..Len(b)}
  /\ UNCHANGED <<config, readers, booted, cpc, batch, hash_cache, al_cache, saved, stopped, settled>>

(* The embedding node loses what a raise leaves behind: the model raises before *)
(* anything is cached (k = 0); zip(strict) finds fewer or more embeddings than  *)
(* frames after those before were cached, and these wait on for their folder;   *)
(* cluster_and_select has taken both caches when DBSCAN raises, and the folder  *)
(* is gone with the rest of the batch.                                          *)
EmbeddingRaise ==
  /\ fault = "raise" /\ Ready("embedding") /\ Unqueue("embedding")
  /\ LET b == Head(batch_queue["embedding"])
         rest(k) == {Key(b[i]) : i \in (k + 1)..Len(b)}
     IN \/ \E k \in 0..Len(b) :
             /\ \A j \in 1..k : ~CompletesAt(b, j)
             /\ frame_cache' = Cached(b, k)
             /\ lost' = lost \cup {<<"raise", c>> : c \in rest(k)}
        \/ \E k \in FirstComplete(b) :
             /\ frame_cache' = [Cached(b, k) EXCEPT ![b[k].src] = {}]
             /\ lost' = lost \cup {<<"raise", c>> : c \in rest(k) \cup Keys(Cached(b, k)[b[k].src])}
  /\ UNCHANGED <<config, readers, inbox, booted, cpc, batch, hash_cache, al_cache, saved, stopped, flagged, settled>>

(* ProcessDetBatchInference: boxes and embeddings are added, the batch is sent *)
(* on frame by frame.                                                          *)
DetectProcess ==
  /\ Ready("model") /\ Unqueue("model")
  /\ Deliver("active_learning", Head(batch_queue["model"]))
  /\ UNCHANGED <<config, readers, booted, cpc, batch, caches, saved, stopped, history>>

(* It keeps nothing between batches: a raise loses the batch.                  *)
DetectRaise ==
  /\ fault = "raise" /\ Ready("model") /\ Unqueue("model")
  /\ lost' = lost \cup {<<"raise", k>> : k \in Keys(ToSet(Head(batch_queue["model"])))}
  /\ UNCHANGED <<config, readers, inbox, booted, cpc, batch, caches, saved, stopped, flagged, settled>>

-----------------------------------------------------------------------------
(* ActiveLearningMixin.process caches the frame; when every folder seen so     *)
(* far is complete it selects num_to_select of the frames not flagged, and     *)
(* forgets everything.  With an unknown conf_strategy active_select raises as   *)
(* soon as a candidate has boxes, and the caches stay as they are.             *)
\* Faulty variant of AlCached: flagged frames are not counted
AlCachedKept(frame) ==
  IF frame.drop THEN al_cache ELSE [al_cache EXCEPT ![frame.src] = @ \cup {frame}]

AlCached(frame) == [al_cache EXCEPT ![frame.src] = @ \cup {frame}]
AlReady(c) == \A f \in Folders : c[f] # {} => Cardinality(c[f]) = NumImages[f]
Candidates(c) == {f \in UNION {c[g] : g \in Folders} : ~f.drop}

active_select(cand) ==
  kSubset(IF Cardinality(cand) < NumToSelect THEN Cardinality(cand) ELSE NumToSelect, cand)

ActiveLearn ==
  /\ ~stopped /\ inbox["active_learning"] # <<>>
  /\ LET frame == Head(inbox["active_learning"])
         c == AlCached(frame)
         rest == [inbox EXCEPT !["active_learning"] = Tail(@)]
     IN \/ /\ ~AlReady(c)
           /\ al_cache' = c /\ inbox' = rest
           /\ UNCHANGED settled
        \/ /\ AlReady(c)
           /\ \E chosen \in active_select(Candidates(c)) : \E frames \in Enumerations(chosen) :
                inbox' = [rest EXCEPT !["create_dataset"] = @ \o frames]
           /\ al_cache' = [f \in Folders |-> {}]
           /\ settled' = settled \cup UNION {Keys(c[f]) : f \in Folders}
        \/ /\ AlReady(c) /\ fault = "strategy" /\ active_select(Candidates(c)) # {{}}
           /\ al_cache' = c /\ inbox' = rest
           /\ UNCHANGED settled
  /\ UNCHANGED <<config, readers, batcher, hash_cache, frame_cache, saved, stopped, flagged, lost>>

(* CreateDatasetMixin.process: a flagged frame is not written.                 *)
CreateDatasetProcess ==
  /\ ~stopped /\ inbox["create_dataset"] # <<>>
  /\ LET frame == Head(inbox["create_dataset"]) IN
       saved' = IF frame.drop THEN saved ELSE saved \cup {Key(frame)}
  /\ inbox' = [inbox EXCEPT !["create_dataset"] = Tail(@)]
  /\ UNCHANGED <<config, readers, batcher, caches, stopped, history>>

(* The pipeline stops its nodes.                                               *)
Stop ==
  /\ fault = "stop" /\ Started /\ ~stopped
  /\ stopped' = TRUE
  /\ reading' = [f \in Folders |-> FALSE]
  /\ UNCHANGED <<config, frame_id, wire, inbox, batcher, caches, saved, history>>

Next ==
  \/ \E f \in Folders : ReadFrame(f) \/ ReadEnd(f) \/ HashProcess(f)
  \/ BlurProcess \/ BlurRaise
  \/ \E n \in BatchNodes : InitRuntime(n) \/ Collect(n)
  \/ EmbeddingProcess \/ EmbeddingRaise \/ DetectProcess \/ DetectRaise
  \/ ActiveLearn \/ CreateDatasetProcess
  \/ Stop

(* Every loop is a thread or a process of its own.                             *)
Fairness ==
  /\ \A f \in Folders : WF_vars(ReadFrame(f)) /\ WF_vars(HashProcess(f))
  /\ WF_vars(BlurProcess)
  /\ \A n \in BatchNodes : WF_vars(InitRuntime(n)) /\ WF_vars(Collect(n))
  /\ WF_vars(EmbeddingProcess) /\ WF_vars(DetectProcess)
  /\ WF_vars(ActiveLearn) /\ WF_vars(CreateDatasetProcess)

Spec == Init /\ [][Next]_vars /\ Fairness

-----------------------------------------------------------------------------
Configured == {f \in Folders : reading[f] \/ frame_id[f] > 0}
Sources == UNION {{<<f, i>> : i \in 0..(NumImages[f] - 1)} : f \in Configured}

TypeOK ==
  /\ \A f \in Folders : frame_id[f] \in 0..MaxFrames /\ wire[f] \in Seq(Frame)
  /\ \A n \in Inboxes : inbox[n] \in Seq(Frame)
  /\ \A n \in BatchNodes : Len(batch[n]) <= BatchSize /\ Len(batch_queue[n]) <= BatchQueueSize

(* Where a frame can be before active learning is done with it.                *)
Place ==
  ({"wire", "frame_cache", "al_cache"} \X Folders)
    \cup ({"inbox"} \X (Inboxes \ {"create_dataset"}))
    \cup ({"batch", "batch_queue"} \X BatchNodes)

(* The frames there, each with its position.                                   *)
Slots(p) ==
  CASE p[1] = "wire"        -> {<<i, wire[p[2]][i]>> : i \in DOMAIN wire[p[2]]}
    [] p[1] = "inbox"       -> {<<i, inbox[p[2]][i]>> : i \in DOMAIN inbox[p[2]]}
    [] p[1] = "batch"       -> {<<i, batch[p[2]][i]>> : i \in DOMAIN batch[p[2]]}
    [] p[1] = "batch_queue" -> UNION {{<<<<i, j>>, batch_queue[p[2]][i][j]>> : j \in DOMAIN batch_queue[p[2]][i]} :
                                        i \in DOMAIN batch_queue[p[2]]}
    [] p[1] = "frame_cache" -> {<<0, f>> : f \in frame_cache[p[2]]}
    [] p[1] = "al_cache"    -> {<<0, f>> : f \in al_cache[p[2]]}

Held     == UNION {{Key(s[2]) : s \in Slots(p)} : p \in Place}
LostKeys == {l[2] : l \in lost}
WasRead  == UNION {{f} \X (0..(frame_id[f] - 1)) : f \in Folders}

(* Every frame read is in exactly one place: on an edge, in a batch or a      *)
(* cache, through active learning, or lost for one known reason: a linger that *)
(* ran out, a stop, a node that raised (a whole folder, when DBSCAN does), or   *)
(* its place in a batch after the frame that completed a folder, which needs a  *)
(* batch that mixes folders or rounds of a looping reader.                      *)
FramesAccounted ==
  /\ \A p, q \in Place : \A s \in Slots(p), t \in Slots(q) : Key(s[2]) = Key(t[2]) => p = q /\ s = t
  /\ Held \cap settled = {} /\ Held \cap LostKeys = {} /\ settled \cap LostKeys = {}
  /\ Held \cup settled \cup LostKeys = WasRead
  /\ \A l, m \in lost : l[2] = m[2] => l = m
  /\ \A l \in lost : l[1] = "batch" =>
       mode = "loop" \/ \E f, g \in Folders : f # g /\ frame_id[f] > 0 /\ frame_id[g] > 0

(* A frame that the hash filter, the blur filter or the clustering flagged is *)
(* never written to the dataset, whatever later nodes decide about it.        *)
OnlyKeptSaved == saved \cap flagged = {} /\ saved \subseteq settled

(* The dataset can be trusted: every frame read has one known fate, and only    *)
(* frames that no filter flagged are saved.                                     *)
DatasetSound == FramesAccounted /\ OnlyKeptSaved

(* README: the chain ends with the dataset.  When the folders are read once,  *)
(* every file can be read and nothing is lost on the way, active learning     *)
(* does get to select from every folder.                                      *)
SelectionHappens ==
  (mode = "only_one" /\ fault \notin {"read", "strategy"})
    ~> (Sources \subseteq settled \/ lost # {} \/ stopped)

(* stop() ends both collecting threads, also one that waits for a full batch  *)
(* queue nobody empties any more.                                             *)
CollectorsExit == stopped ~> \A n \in BatchNodes : cpc[n] = "exit"

(* ActiveLearningMixin's docstring: it "waits until every folder is complete". *)
SelectsWhenAllComplete == settled # {} => Sources \subseteq settled

(* HashFilterMixin.process: "The same Frame if unique; otherwise None."  A      *)
(* near-duplicate goes no further.                                            *)
DuplicatesStop == \A f \in ToSet(inbox["blur"]) : ~f.drop

(* ProcessBlurInference.postprocess_result: "None if no blur is detected         *)
(* (filtering out sharp images)".  Only blurred frames go further.             *)
SharpOnesStop == \A f \in ToSet(inbox["embedding"]) : Key(f) \in flagged
=============================================================================
