----------------------------- MODULE Inference -----------------------------
(***************************************************************************)
(* The memory behind a model call: the TensorRT, PyTorch and ONNX Runtime    *)
(* backends, the models that call them (EmbeddingFilter, BlurClassification, *)
(* SAHIDetector, YOLOv8) and what their callers keep of the results.         *)
(*                                                                         *)
(* An array is a sequence of rows; a row of a result is named by the input   *)
(* row it was computed from, so a wrong row shows as another number.  The    *)
(* GPU executes the stream's operations in order, whenever it likes.         *)
(***************************************************************************)
EXTENDS Integers, Sequences, FiniteSets

CONSTANTS
  EngineBatch,   \* rows of the TensorRT engine's bindings, which are fixed
  EngineRow,     \* elements of one row of the engine's input binding
  RowSizes,      \* elements of one row, an image or a block, as the models may prepare it
  SahiBatch,     \* SAHIDetector.batch; -1 for everything at once
  LastId,        \* frame_id_last: the frames of the one source
  MaxRows,       \* bound on the rows of one model call
  MaxCalls       \* bound on the number of backend calls

ASSUME InferenceAssumption ==
  /\ EngineBatch \in Nat \ {0} /\ SahiBatch \in {-1} \cup (Nat \ {0})
  /\ EngineRow \in Nat \ {0} /\ RowSizes \subseteq Nat \ {0}
  /\ LastId \in Nat \ {0} /\ MaxRows \in Nat \ {0} /\ MaxCalls \in Nat

VARIABLES
  config,   \* the backend, whether it runs on CUDA, the model, the elements of a row it
            \* prepares and whether their type casts safely to the engine's
  pc,       \* "new" | "idle" | "call" | "staged" | "launched" | "returned" | "failed"
  rows,     \* input rows made so far, over all calls
  calls,    \* backend calls made so far
  todo,     \* rows of the current model call not yet given to the backend
  ask,      \* the rows of the current backend call
  pinned,   \* pinned host memory the input is copied from: TensorRT's, or _pinned_staging
  device,   \* [input, output]: device memory
  stream,   \* operations queued on the CUDA stream
  mem,      \* host arrays results live in; array 0 is the host side of TensorRT's output
  got,      \* the array the last backend call returned
  kept,     \* result rows held over calls: emb_cache, or SAHI's pred_chunks
  used,     \* the result rows the last model call based its answer on
  given,    \* rows of the current model call: SAHI's letterbox_params
  refused,  \* history: the engine refused to enqueue the current backend call
  writer    \* history: the last backend call that wrote each row of pinned

history == <<given, refused, writer>>
backendVars == <<config, pc, rows, calls, todo, ask, pinned, device, stream, mem, got, kept, used, history>>
engine == <<pinned, device, stream, mem>>

\* A row that is no image: memory never written, a row nobody asked for, a row packed
\* from pieces of several images.
Garbage == 0

BackendType == {"TorchBackend", "TensorRTBackend", "ONNXRuntimeBackend"}
Models == {"EmbeddingFilter", "BlurClassification", "SAHIDetector", "YOLOv8", "YOLOv8 embeddings"}

FixedBatch == config.backend = "TensorRTBackend"

\* The rows of the input are as long as the engine's.
Aligned == config.row = EngineRow

\* Whether a call goes through the stream; ONNX Runtime's run() and PyTorch on the
\* CPU compute in place.
UsesStream == FixedBatch \/ (config.backend = "TorchBackend" /\ config.cuda)

BackendInit ==
  /\ config \in [backend : BackendType, cuda : BOOLEAN, model : Models,
                 row : RowSizes \cup {EngineRow}, cast : BOOLEAN]
  /\ FixedBatch \/ (Aligned /\ config.cast)      \* only the engine has a size and a type
  /\ pc = "new"
  /\ rows = 0 /\ calls = 0 /\ todo = <<>> /\ ask = <<>>
  /\ pinned = <<>> /\ device = [input |-> <<>>, output |-> <<>>] /\ stream = <<>>
  /\ mem = [a \in 0..MaxCalls |-> <<>>] /\ got = 0
  /\ kept = {} /\ used = {}
  /\ given = 0 /\ refused = FALSE /\ writer = [i \in 1..EngineBatch |-> 0]

\* _allocate_buffers: a host and a device buffer per binding, none of them written.
AllocateBuffers ==
  LET blank == [i \in 1..EngineBatch |-> Garbage]
  IN  /\ pinned' = blank
      /\ device' = [input |-> blank, output |-> blank]
      /\ mem' = [mem EXCEPT ![0] = blank]

LoadTensorRT ==
  /\ config.backend = "TensorRTBackend"
  /\ AllocateBuffers
  /\ config' = config

\* PyTorch and ONNX Runtime switch to the CPU when there is no CUDA; nothing is staged yet.
CudaOrCpu == config' = config \/ (config.cuda /\ config' = [config EXCEPT !.cuda = FALSE])

LoadTorch == config.backend = "TorchBackend" /\ CudaOrCpu /\ UNCHANGED <<pinned, device, mem>>

LoadONNXRuntime == config.backend = "ONNXRuntimeBackend" /\ CudaOrCpu /\ UNCHANGED <<pinned, device, mem>>

Load ==
  /\ pc = "new"
  /\ pc' = "idle"
  /\ LoadTensorRT \/ LoadTorch \/ LoadONNXRuntime
  /\ UNCHANGED <<rows, calls, todo, ask, stream, got, kept, used, history>>

\* An unavailable backend, a file that is no model, a binding of dynamic shape, a
\* detector without imgsz; and SAHIDetector, which takes no backend, cannot be made by
\* ModelFactory at all (it can be by hand).
LoadRaises ==
  /\ pc = "new"
  /\ pc' = "failed"
  /\ UNCHANGED <<config, rows, calls, todo, ask, engine, got, kept, used, history>>

-----------------------------------------------------------------------------
Lesser(a, b) == IF a < b THEN a ELSE b

\* The rows of a chunk: SAHI splits its crops, unless there are fewer than a batch.
Chunk(s) ==
  IF config.model # "SAHIDetector" \/ SahiBatch = -1 \/ Len(s) < SahiBatch
  THEN Len(s) ELSE SahiBatch

\* The next backend call of the model takes a chunk of what is left.
NextChunk(s) ==
  /\ ask' = SubSeq(s, 1, Lesser(Chunk(s), Len(s)))
  /\ todo' = SubSeq(s, Len(ask') + 1, Len(s))
  /\ calls' = calls + 1
  /\ refused' = FALSE

\* model(images), up to the first backend call: n images, crops or, for blur, the
\* blocks of one image that have texture.
Call(n) ==
  /\ pc = "idle" /\ calls < MaxCalls
  /\ NextChunk([i \in 1..n |-> rows + i])
  /\ rows' = rows + n
  /\ used' = {}
  /\ given' = n
  /\ pc' = "call"
  /\ UNCHANGED <<config, engine, got, kept, writer>>

\* An image without a single textured block: pre_transform gives None, which goes to
\* the backend and raises.  Nothing is kept of the call.
CallFeatureless ==
  /\ pc = "idle" /\ config.model = "BlurClassification"
  /\ used' = {}
  /\ UNCHANGED <<config, pc, rows, calls, todo, ask, engine, got, kept, history>>

\* The call leaves with an exception; SAHI's list of chunks goes with it, the
\* embedding node's cache does not.
Raised ==
  /\ pc' = "idle"
  /\ todo' = <<>>
  /\ kept' = IF config.model = "SAHIDetector" THEN {} ELSE kept

\* The host setter counts elements, not rows: those of the input fill the front of
\* the buffer and the rest stays as it is.
Elements == Len(ask) * config.row
Written(i) == (i - 1) * EngineRow < Elements

\* It takes no more elements than it has, of a type that casts safely.
Fits == Elements <= EngineBatch * EngineRow /\ config.cast

\* HostDeviceMem.host = input: rows of another length than the engine's run into one
\* another; _stage_input: a pinned tensor of the input's own shape.
Stage ==
  /\ pc = "call" /\ UsesStream
  /\ FixedBatch => Fits
  /\ pinned' = IF FixedBatch
               THEN [i \in 1..EngineBatch |->
                       IF ~Written(i) THEN pinned[i] ELSE IF Aligned THEN ask[i] ELSE Garbage]
               ELSE ask
  /\ writer' = IF FixedBatch
               THEN [i \in 1..EngineBatch |-> IF Written(i) THEN calls ELSE writer[i]]
               ELSE writer
  /\ pc' = "staged"
  /\ UNCHANGED <<config, rows, calls, todo, ask, device, stream, mem, got, kept, used, given, refused>>

StageRaises ==
  /\ pc = "call" /\ FixedBatch /\ ~Fits
  /\ Raised
  /\ UNCHANGED <<config, rows, calls, ask, engine, got, used, history>>

\* Faulty variant: PyTorch's results are put where the last ones were.
OutArrayShared == 0

\* The array the result arrives in: TensorRT's one host buffer, or a new one.
OutArray == IF FixedBatch THEN 0 ELSE calls

\* do_inference_base; model(torch_input) and the copy of its output to the CPU.
Operations == <<[op |-> "to_device"], [op |-> "execute"], [op |-> "to_host", array |-> OutArray]>>

Launch ==
  /\ pc = "staged"
  /\ stream' = stream \o Operations
  /\ pc' = "launched"
  /\ UNCHANGED <<config, rows, calls, todo, ask, pinned, device, mem, got, kept, used, history>>

\* execute_async_v2 and _v3 say that they enqueued nothing by returning False, which
\* execute_async_func drops: the output is copied back as if there were one.
LaunchRefused ==
  /\ pc = "staged" /\ FixedBatch
  /\ stream' = stream \o <<Operations[1], Operations[3]>>
  /\ refused' = TRUE
  /\ pc' = "launched"
  /\ UNCHANGED <<config, rows, calls, todo, ask, pinned, device, mem, got, kept, used, given, writer>>

StreamStep ==
  /\ stream # <<>>
  /\ stream' = Tail(stream)
  /\ CASE Head(stream).op = "to_device" ->
            device' = [device EXCEPT !.input = pinned] /\ mem' = mem
       [] Head(stream).op = "execute" ->
            device' = [device EXCEPT !.output = device.input] /\ mem' = mem
       [] Head(stream).op = "to_host" ->
            mem' = [mem EXCEPT ![Head(stream).array] = device.output] /\ device' = device
  /\ UNCHANGED <<config, pc, rows, calls, todo, ask, pinned, got, kept, used, history>>

\* Faulty variant: the arrays are returned without waiting for the stream.
SynchronizeNot ==
  /\ pc = "launched"
  /\ got' = OutArray
  /\ pc' = "returned"
  /\ UNCHANGED <<config, rows, calls, todo, ask, engine, kept, used, history>>

\* cudaStreamSynchronize; .to("cpu", non_blocking=False).
Synchronize ==
  /\ pc = "launched" /\ stream = <<>>
  /\ got' = OutArray
  /\ pc' = "returned"
  /\ UNCHANGED <<config, rows, calls, todo, ask, engine, kept, used, history>>

\* An error of CUDA or of the network, with operations queued that nobody waits for.
LaunchRaises ==
  /\ \/ pc = "staged" /\ \E k \in 0..2 : stream' = stream \o SubSeq(Operations, 1, k)
     \/ pc = "launched" /\ stream' = stream
  /\ Raised
  /\ UNCHANGED <<config, rows, calls, ask, pinned, device, mem, got, used, history>>

RunInPlace ==
  /\ pc = "call" /\ ~UsesStream
  /\ mem' = [mem EXCEPT ![OutArray] = ask]
  /\ got' = OutArray
  /\ pc' = "returned"
  /\ UNCHANGED <<config, rows, calls, todo, ask, pinned, device, stream, kept, used, history>>

RunRaises ==
  /\ pc = "call" /\ ~UsesStream
  /\ Raised
  /\ UNCHANGED <<config, rows, calls, ask, engine, got, used, history>>

-----------------------------------------------------------------------------
(* What the callers do with a result: row i of an array, kept as a view.      *)

View(i) == [array |-> got, i |-> i, of |-> IF i <= Len(ask) THEN ask[i] ELSE Garbage, call |-> calls]
Views(n) == {View(i) : i \in 1..n}
Row(a, i) == IF i \in DOMAIN mem[a] THEN mem[a][i] ELSE Garbage
Read(views) == {[i |-> v.i, of |-> v.of, read |-> Row(v.array, v.i), call |-> v.call] : v \in views}

\* EmbeddingFilter and ProcessEmbeddingInference.postprocess_result: the rows go into
\* the cache until the source is complete, when all of them are read; zip(strict)
\* then raises if the rows are not as many as the frames, with the pairs cached already.
PostEmbedding ==
  /\ pc = "returned" /\ config.model = "EmbeddingFilter"
  /\ \E n \in 1..Lesser(Len(ask), Len(mem[got])) :
       LET cached == kept \cup Views(n)
           complete(m) == Cardinality(kept \cup Views(m)) = LastId
       IN  /\ \A m \in 1..(n - 1) : ~complete(m)
           /\ IF complete(n)
              THEN kept' = {} /\ used' = Read(cached)
              ELSE n = Lesser(Len(ask), Len(mem[got])) /\ kept' = cached /\ used' = {}
  /\ pc' = "idle"
  /\ UNCHANGED <<config, rows, calls, todo, ask, engine, got, history>>

\* BlurClassification.post_transform: the share of blurred blocks over every row.
PostBlur ==
  /\ pc = "returned" /\ config.model = "BlurClassification"
  /\ used' = Read(Views(Len(mem[got])))
  /\ pc' = "idle"
  /\ UNCHANGED <<config, rows, calls, todo, ask, engine, got, kept, history>>

\* SAHIDetector.__call__: keep the chunk and ask for the next one.
PostChunk ==
  /\ pc = "returned" /\ config.model = "SAHIDetector"
  /\ todo # <<>> /\ calls < MaxCalls
  /\ kept' = kept \cup Views(Len(mem[got]))
  /\ NextChunk(todo)
  /\ pc' = "call"
  /\ UNCHANGED <<config, rows, engine, got, used, given, writer>>

\* Concatenate the chunks and go through them with letterbox_params, which has one
\* entry per crop: more predictions than crops raise.
PostSahi ==
  /\ pc = "returned" /\ config.model = "SAHIDetector" /\ todo = <<>>
  /\ LET all == kept \cup Views(Len(mem[got]))
     IN  used' = IF Cardinality(all) > given THEN {} ELSE Read(all)
  /\ kept' = {}
  /\ pc' = "idle"
  /\ UNCHANGED <<config, rows, calls, todo, ask, engine, got, history>>

\* YOLOv8.__call__ in extract_embeddings mode takes the first output; otherwise it
\* hands the list of outputs to post_transform as if it were the batch, and
\* decode_output refuses what it gets.
PostYolo ==
  /\ pc = "returned" /\ config.model \in {"YOLOv8", "YOLOv8 embeddings"}
  /\ used' = IF config.model = "YOLOv8" \/ Len(mem[got]) > Len(ask)
             THEN {} ELSE Read(Views(Len(mem[got])))
  /\ pc' = "idle"
  /\ UNCHANGED <<config, rows, calls, todo, ask, engine, got, kept, history>>

BackendNext ==
  \/ Load \/ LoadRaises
  \/ \E n \in 1..MaxRows : Call(n)
  \/ CallFeatureless
  \/ Stage \/ StageRaises \/ Launch \/ LaunchRefused \/ StreamStep \/ Synchronize \/ LaunchRaises
  \/ RunInPlace \/ RunRaises
  \/ PostEmbedding \/ PostBlur \/ PostChunk \/ PostSahi \/ PostYolo

BackendSpec == BackendInit /\ [][BackendNext]_backendVars

-----------------------------------------------------------------------------
(* A backend answers the call it was given: whatever earlier calls left in the   *)
(* pinned and device buffers or, having failed, on the stream, when a call       *)
(* returns its i-th row was computed from the i-th row of this call's input, and *)
(* a backend without fixed bindings returns exactly as many rows as it was given. *)
(* TensorRT gives no such answer, and says nothing, when the engine refused to    *)
(* enqueue the call, whose result is then the last one's, or when the input's     *)
(* rows are not as long as the engine's, which it never looks at.                 *)
AnswersItsInput ==
  pc = "returned" =>
    /\ FixedBatch \/ Len(mem[got]) = Len(ask)
    /\ ~refused /\ Aligned =>
         Len(mem[got]) >= Len(ask) /\ \A i \in DOMAIN ask : mem[got][i] = ask[i]

(* What a model bases its answer on is what the network said of these images: a   *)
(* row read late, from emb_cache or from SAHI's chunks, is still the row that was  *)
(* stored, and a failed call in between, or a shorter one, does not change it.     *)
(* With TensorRT's one host array the row read is another one if a later call has  *)
(* written that row of it, if there was no such image in the batch, if the last    *)
(* call before the reading was refused or if rows are not as long as the engine's. *)
ReadsWhatItStored ==
  \A u \in used :
    \/ u.read = u.of
    \/ FixedBatch /\ (writer[u.i] > u.call \/ u.of = Garbage \/ refused \/ ~Aligned)
=============================================================================
