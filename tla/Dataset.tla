------------------------------- MODULE Dataset -------------------------------
(***************************************************************************)
(* A pipeline's dataset directory, shared by the CreateDataset node that    *)
(* writes it and the label review routes of the service that read and       *)
(* correct it.  There is no lock and no database: an image file, a label     *)
(* file per frame and one JSON manifest of reviewed frames.  Opening a file  *)
(* for writing truncates it; its contents appear with a later step, so that  *)
(* other threads, a stop or a crash can come in between.                     *)
(*                                                                          *)
(* Boxes are abstracted to who wrote them: the node, or a PUT request.       *)
(***************************************************************************)
EXTENDS Naturals, FiniteSets

CONSTANTS
  Frames,       \* frame ids `folder:stem` the pipeline produces
  Requests,     \* requests to the review routes, each served once by a thread of its own
  Ops,          \* subset of {"put", "get", "list"}
  Clients,      \* subset of {"serial", "concurrent"}: may two PUTs overlap?
  MaxStarts,    \* bound: how often the pipeline is started
  MaxCrashes    \* bound: how often the service is killed and started again

VARIABLES
  clients, starts, crashes,
  wiped,          \* history: the service died while it was rewriting the manifest
  registered,     \* the pipeline's node config is in pipeline_nodes_configs
  image, label,   \* files on disk
  manifest,       \* .review_state.json: whether it is JSON, and the frames it names
  todo, writer,   \* frames still to be written in this run; CreateDataset.process
  request,        \* the threads serving requests
  corrected,      \* history: frames whose boxes a PUT has written
  acked,          \* history: frames whose PUT was answered
  reported        \* history: frames some answer called reviewed

disk    == <<image, label, manifest>>
service == <<clients, crashes, wiped, registered, request, acked, reported>>
node    == <<starts, todo, writer>>
reviewVars    == <<disk, service, node, corrected>>

Idle == [at |-> "idle"]
New  == [at |-> "new"]
Done == [at |-> "done"]

ReviewInit ==
  /\ clients \in Clients /\ starts = 0 /\ crashes = 0
  /\ registered = FALSE /\ wiped = FALSE
  /\ image = {} /\ label = [f \in Frames |-> "none"] /\ manifest = [json |-> FALSE, reviewed |-> {}]
  /\ todo = {} /\ writer = Idle
  /\ request = [r \in Requests |-> New]
  /\ corrected = {} /\ acked = {} /\ reported = {}

(* Contents written through a file opened earlier: at offset 0 of whatever the *)
(* file holds by now.                                                          *)
WriteInto(old, new) == IF old = "empty" THEN new ELSE "mixed"

-----------------------------------------------------------------------------
(* CreateDatasetMixin.process.  Frame ids start again at 0 with every start of *)
(* the pipeline, and so do the file names.                                     *)
StartPipeline ==
  /\ ~registered /\ writer = Idle /\ todo = {} /\ starts < MaxStarts
  /\ starts' = starts + 1 /\ registered' = TRUE /\ todo' = Frames
  /\ UNCHANGED <<disk, clients, crashes, wiped, request, acked, reported, writer, corrected>>

(* The stop route forgets the node config; the node is stopped between frames, *)
(* or killed in the middle of one.                                             *)
StopPipeline ==
  /\ registered
  /\ registered' = FALSE /\ todo' = {} /\ writer' = Idle
  /\ UNCHANGED <<disk, clients, crashes, wiped, request, acked, reported, starts, corrected>>

SkipDropped(f) ==
  /\ writer = Idle /\ f \in todo
  /\ todo' = todo \ {f}
  /\ UNCHANGED <<disk, service, starts, writer, corrected>>

(* save_image: a failed imwrite is only logged.                                *)
SaveImage(f) ==
  /\ writer = Idle /\ f \in todo
  /\ image' \in {image, image \cup {f}}
  /\ todo' = todo \ {f}
  /\ writer' = [at |-> "labels", frame |-> f]
  /\ UNCHANGED <<label, manifest, service, starts, corrected>>

(* save_labels: open("w"), then a line per box; a frame without boxes leaves    *)
(* the file as open left it.                                                    *)
OpenLabels ==
  /\ writer.at = "labels"
  /\ label' = [label EXCEPT ![writer.frame] = "empty"]
  /\ writer' = [writer EXCEPT !.at = "boxes"]
  /\ UNCHANGED <<image, manifest, service, starts, todo, corrected>>

SaveLabels ==
  /\ writer.at = "boxes"
  /\ label' \in {label, [label EXCEPT ![writer.frame] = WriteInto(@, "machine")]}
  /\ writer' = Idle
  /\ UNCHANGED <<image, manifest, service, starts, todo, corrected>>

CreateDataset ==
  (\E f \in Frames : SkipDropped(f) \/ SaveImage(f)) \/ OpenLabels \/ SaveLabels

-----------------------------------------------------------------------------
(* labels.py.  _resolve_frame_paths wants both files; _iter_labeled_frames      *)
(* lists the frames that have them.                                             *)
Labeled(f) == f \in image /\ label[f] # "none"
LabeledFrames == {f \in Frames : Labeled(f)}

(* _load_reviewed: no manifest, or one that is not JSON, means nothing is       *)
(* reviewed.                                                                     *)
_load_reviewed == IF manifest.json THEN manifest.reviewed ELSE {}

Torn == [json |-> FALSE, reviewed |-> {}]
Json(s) == [json |-> TRUE, reviewed |-> s]

Saving(r) == request[r].at \in {"open", "boxes", "load", "mark", "manifest"}
At(r, pc) == request[r].at = pc
Goto(r, pc) == request' = [request EXCEPT ![r].at = pc]
unserved == <<clients, crashes, wiped, registered, node>>

(* _dataset_root_or_404, then the frame: a 404 leaves everything as it is.      *)
NotFound(r) ==
  /\ At(r, "new") /\ (~registered \/ LabeledFrames # Frames)
  /\ request' = [request EXCEPT ![r] = Done]
  /\ UNCHANGED <<disk, unserved, acked, reported, corrected>>

PutBegin(r, f) ==
  /\ "put" \in Ops /\ At(r, "new") /\ registered /\ Labeled(f)
  /\ clients = "serial" => \A s \in Requests : ~Saving(s)
  /\ request' = [request EXCEPT ![r] = [at |-> "open", frame |-> f, reviewed |-> {}]]
  /\ UNCHANGED <<disk, unserved, acked, reported, corrected>>

\* Faulty variant of PutOpen: the frame is marked before its boxes are written
PutOpenMarked(r) ==
  /\ At(r, "open") /\ Goto(r, "boxes")
  /\ label' = [label EXCEPT ![request[r].frame] = "empty"]
  /\ manifest' = Json(_load_reviewed \cup {request[r].frame})
  /\ UNCHANGED <<image, unserved, acked, reported, corrected>>

(* _write_boxes                                                                  *)
PutOpen(r) ==
  /\ At(r, "open") /\ Goto(r, "boxes")
  /\ label' = [label EXCEPT ![request[r].frame] = "empty"]
  /\ UNCHANGED <<image, manifest, unserved, acked, reported, corrected>>

PutBoxes(r) ==
  /\ At(r, "boxes") /\ Goto(r, "load")
  /\ label' = [label EXCEPT ![request[r].frame] = WriteInto(@, r)]
  /\ corrected' = corrected \cup {request[r].frame}
  /\ UNCHANGED <<image, manifest, unserved, acked, reported>>

(* _mark_reviewed: load, open (which truncates), write.                          *)
PutLoad(r) ==
  /\ At(r, "load")
  /\ request' = [request EXCEPT ![r].at = "mark", ![r].reviewed = _load_reviewed]
  /\ UNCHANGED <<disk, unserved, acked, reported, corrected>>

PutMark(r) ==
  /\ At(r, "mark") /\ Goto(r, "manifest")
  /\ manifest' = Torn
  /\ UNCHANGED <<image, label, unserved, acked, reported, corrected>>

(* Two writers of the manifest at once leave the longer text's tail behind the   *)
(* shorter one's.                                                                *)
\* Faulty variant of PutManifest: the frame replaces the set instead of joining it
PutManifestAlone(r) ==
  /\ At(r, "manifest")
  /\ request' = [request EXCEPT ![r] = Done]
  /\ manifest' = Json({request[r].frame})
  /\ acked' = acked \cup {request[r].frame}
  /\ UNCHANGED <<image, label, unserved, reported, corrected>>

PutManifest(r) ==
  /\ At(r, "manifest")
  /\ request' = [request EXCEPT ![r] = Done]
  /\ LET new == request[r].reviewed \cup {request[r].frame} IN
       manifest' \in {Json(new)} \cup (IF manifest.json THEN {Torn} ELSE {})
  /\ acked' = acked \cup {request[r].frame}
  /\ UNCHANGED <<image, label, unserved, reported, corrected>>

(* get_frame_detail and list_label_frames only read; an answer calls reviewed    *)
(* what the manifest holds when it is loaded.                                    *)
GetLabel(r, f) ==
  /\ "get" \in Ops /\ At(r, "new") /\ registered /\ Labeled(f)
  /\ request' = [request EXCEPT ![r] = Done]
  /\ reported' = reported \cup ({f} \cap _load_reviewed)
  /\ UNCHANGED <<disk, unserved, acked, corrected>>

ListLabels(r) ==
  /\ "list" \in Ops /\ At(r, "new") /\ registered
  /\ request' = [request EXCEPT ![r] = Done]
  /\ reported' = reported \cup (LabeledFrames \cap _load_reviewed)
  /\ UNCHANGED <<disk, unserved, acked, corrected>>

(* The service dies: its threads and its memory are gone; the files, and the     *)
(* pipeline's own process, are not.                                              *)
Crash ==
  /\ crashes < MaxCrashes
  /\ crashes' = crashes + 1
  /\ wiped' = (wiped \/ \E r \in Requests : At(r, "manifest"))
  /\ registered' = FALSE
  /\ request' = [r \in Requests |-> IF At(r, "new") THEN New ELSE Done]
  /\ UNCHANGED <<disk, clients, node, acked, reported, corrected>>

Serve(r) ==
  \/ NotFound(r) \/ PutOpen(r) \/ PutBoxes(r) \/ PutLoad(r) \/ PutMark(r) \/ PutManifest(r)
  \/ ListLabels(r)
  \/ \E f \in Frames : PutBegin(r, f) \/ GetLabel(r, f)

ReviewNext == StartPipeline \/ StopPipeline \/ CreateDataset \/ (\E r \in Requests : Serve(r)) \/ Crash

ReviewSpec == ReviewInit /\ [][ReviewNext]_reviewVars

-----------------------------------------------------------------------------
(* A frame is called reviewed, by the manifest or in an answer, only after a     *)
(* human's boxes were written to its label file, whatever crashes or overlaps.   *)
ReviewedWasCorrected == _load_reviewed \cup reported \subseteq corrected

(* README: "PUT marks it reviewed".  While no PUT is under way, every frame      *)
(* whose PUT was answered is in the manifest.                                    *)
MarksKept ==
  (\A r \in Requests : ~Saving(r)) => acked \subseteq _load_reviewed

(* It holds when PUTs do not overlap, whatever reads, pipeline restarts and      *)
(* writes of the node interleave, unless the service died while it was           *)
(* rewriting the manifest.                                                       *)
SerialMarksKept == clients = "serial" /\ ~wiped => MarksKept
=============================================================================
