----------------------------- MODULE Detection -----------------------------
(***************************************************************************)
(* One call of SAHIDetector around a YOLOv8 detector: the checks of its     *)
(* constructor, letterbox and slicing of the image, the batches given to    *)
(* the network, and the decoding and suppression of what the network found. *)
(*                                                                         *)
(* Sizes are whole pixels, ratios exact fractions (the code's floats round). *)
(* A box is <<x1, y1, x2, y2>>.  The network is external: what it reports    *)
(* per crop is an input.                                                     *)
(***************************************************************************)
EXTENDS Integers, Sequences, FiniteSets, SequencesExt

CONSTANTS
  Inputs,          \* calls: [imgsz, crop, overlap, im, batch, dets]
  IouNum, IouDen,  \* the iou threshold
  MaxDet           \* max_det

Pixels == (Nat \ {0}) \X (Nat \ {0})
Detections == [crop : Nat \ {0}, box : Int \X Int \X Int \X Int, score : Int]

ASSUME DetectionAssumption ==
  /\ Inputs \subseteq [imgsz : Pixels, crop : Int \X Int, overlap : Int \X Int, im : Pixels,
                      batch : {-1} \cup (Nat \ {0}), dets : SUBSET Detections]
  /\ IouNum \in Nat /\ IouDen \in Nat \ {0} /\ IouNum <= IouDen
  /\ MaxDet \in Nat \ {0}

VARIABLES
  input,     \* imgsz of the detector, crop_size and crop_overlap as given, the image's
             \* size, the batch size, and the detections above conf: [crop, box, score]
  phase,     \* "init" | "pre" | "infer" | "crop" | "final" | "done" | "raised"
  size,      \* self.crop_size
  overlap,   \* self.crop_overlap
  crops,     \* crop_images with their crop_params
  seen,      \* crops the backend has been given, in order
  at,        \* the crop _post_transform is at
  left,      \* detections apply_nms has not decided on
  keep,      \* detections it has kept, in order
  output     \* output[0][:counts[0]]

vars == <<input, phase, size, overlap, crops, seen, at, left, keep, output>>
geometry == <<input, size, overlap>>

Init ==
  /\ input \in Inputs
  /\ phase = "init"
  /\ size = input.crop /\ overlap = input.overlap
  /\ crops = <<>> /\ seen = <<>> /\ at = 0
  /\ left = {} /\ keep = <<>> /\ output = <<>>

(* SAHIDetector.__init__: a detector of another size imposes it, but the overlap *)
(* is compared with the size that was passed.                                    *)
Construct ==
  /\ phase = "init"
  /\ size' = input.imgsz
  /\ overlap' = IF \/ \E a \in 1..2 : input.overlap[a] >= input.crop[a]
                   \/ \E a \in 1..2 : input.overlap[a] < 0
                THEN <<0, 0>> ELSE input.overlap
  /\ phase' = "pre"
  /\ UNCHANGED <<input, crops, seen, at, left, keep, output>>

-----------------------------------------------------------------------------
(* letterbox, with auto, scale_fill and scaleup off.                          *)

\* Python's round: to the nearest integer, halves to the even one.
Round(n, d) ==
  LET q == n \div d
      twice == 2 * (n % d)
  IN  IF twice < d \/ (twice = d /\ q % 2 = 0) THEN q ELSE q + 1

\* compute_letterbox_params: the smaller ratio of the two axes, at most 1.
Ratio(im, new) ==
  LET a == IF new[1] * im[2] <= new[2] * im[1] THEN 1 ELSE 2
  IN  IF new[a] >= im[a] THEN [num |-> 1, den |-> 1] ELSE [num |-> new[a], den |-> im[a]]

Unpadded(im, r) == [a \in 1..2 |-> Round(im[a] * r.num, r.den)]

\* The border before the image and the one after it, from twice the padding:
\* round(d - 0.1) and round(d + 0.1).
BorderBefore(twice) == Round(5 * twice - 1, 10)
BorderAfter(twice) == Round(5 * twice + 1, 10)

Letterbox(im, new) ==
  LET r == Ratio(im, new)
      unpad == Unpadded(im, r)
      pad == [a \in 1..2 |-> new[a] - unpad[a]]
  IN  [size |-> [a \in 1..2 |-> unpad[a] + BorderBefore(pad[a]) + BorderAfter(pad[a])],
       ratio |-> r, pad2 |-> pad, origin |-> <<0, 0>>]

-----------------------------------------------------------------------------
(* calculate_slices_coordinates, per axis.                                    *)

FloorDiv(a, b) == IF b > 0 THEN a \div b ELSE (-a) \div (-b)

\* Faulty variant: the last, partial step is not counted.
NStepsFloor(img, crop, step) == IF img <= crop THEN 1 ELSE FloorDiv(img - crop, step) + 1

NSteps(img, crop, step) ==
  IF img <= crop THEN 1 ELSE FloorDiv(img - crop + step - 1, step) + 1

Starts(img, crop, step) ==
  LET n == NSteps(img, crop, step)
  IN  [k \in 1..n |-> IF img > crop /\ n > 1 /\ k = n THEN img - crop ELSE (k - 1) * step]

\* make_slices: rows by columns; a crop ends at the image's border.
Slices(im, crop, ov) ==
  LET ys == Starts(im[1], crop[1], crop[1] - ov[1])
      xs == Starts(im[2], crop[2], crop[2] - ov[2])
      cut(y, x) ==
        [size |-> <<IF y + crop[1] < im[1] THEN crop[1] ELSE im[1] - y,
                    IF x + crop[2] < im[2] THEN crop[2] ELSE im[2] - x>>,
         ratio |-> [num |-> 1, den |-> 1], pad2 |-> <<0, 0>>, origin |-> <<y, x>>]
  IN  [k \in 1..(Len(ys) * Len(xs)) |->
         cut(ys[((k - 1) \div Len(xs)) + 1], xs[((k - 1) % Len(xs)) + 1])]

Larger(a) == input.im[a] > size[a]

\* A step of zero divides by zero; an empty image cannot be resized to.
PreRaises ==
  \/ \E a \in 1..2 : Unpadded(input.im, Ratio(input.im, size))[a] = 0
  \/ \E a \in 1..2 : Larger(a) /\ size[a] = overlap[a]

\* pre_transform: the whole image letterboxed, then, unless it fits in one crop, its
\* slices; np.stack refuses images of different sizes.
PreTransform ==
  /\ phase = "pre"
  /\ IF PreRaises
     THEN phase' = "raised" /\ crops' = crops
     ELSE /\ crops' = <<Letterbox(input.im, size)>> \o
                        (IF Larger(1) \/ Larger(2) THEN Slices(input.im, size, overlap) ELSE <<>>)
          /\ phase' = IF \A k \in DOMAIN crops' : crops'[k].size = crops'[1].size
                      THEN "infer" ELSE "raised"
  /\ UNCHANGED <<geometry, seen, at, left, keep, output>>

-----------------------------------------------------------------------------
(* __call__: the crops go to the backend whole, or in chunks of self.batch.   *)
Infer ==
  /\ phase = "infer"
  /\ Len(seen) < Len(crops)
  /\ LET chunk == IF input.batch = -1 \/ Len(crops) < input.batch THEN Len(crops) ELSE input.batch
         last == IF Len(seen) + chunk < Len(crops) THEN Len(seen) + chunk ELSE Len(crops)
     IN  seen' = seen \o [k \in 1..(last - Len(seen)) |-> Len(seen) + k]
  /\ UNCHANGED <<geometry, phase, crops, at, left, keep, output>>

-----------------------------------------------------------------------------
(* _post_transform.                                                           *)

\* Coordinates are kept in units of 1/Scale pixel, in which decoding is exact.
Scale == 2 * size[1] * size[2]

\* decode_output and the crop's origin, along axis a.
Decode(b, c, a) ==
  ((2 * b - c.pad2[a]) * Scale * c.ratio.den) \div (2 * c.ratio.num) + c.origin[a] * Scale

Decoded(d) ==
  LET c == crops[d.crop]
  IN  [d EXCEPT !.box = <<Decode(d.box[1], c, 2), Decode(d.box[2], c, 1),
                          Decode(d.box[3], c, 2), Decode(d.box[4], c, 1)>>]

\* The detections of one crop, decoded: what its network output held.
Candidates(k) == {Decoded(d) : d \in {e \in input.dets : e.crop = k}}

Lower(a, b) == IF a < b THEN a ELSE b
Upper(a, b) == IF a > b THEN a ELSE b
Positive(a) == Upper(0, a)

Area(b) == (b[3] - b[1]) * (b[4] - b[2])
Intersection(b, c) ==
  Positive(Lower(b[3], c[3]) - Upper(b[1], c[1])) * Positive(Lower(b[4], c[4]) - Upper(b[2], c[2]))
Union(b, c) == Area(b) + Area(c) - Intersection(b, c)

\* compute_iou < iou.  Two boxes without area give 0/0, which is not less.
Apart(b, c) == Union(b, c) # 0 /\ Intersection(b, c) * IouDen < IouNum * Union(b, c)

\* Crops are done in order once every prediction is there.
StartCrop ==
  /\ \/ phase = "infer" /\ Len(seen) = Len(crops)
     \/ phase = "crop" /\ left = {} /\ at < Len(crops) /\ keep = <<>>
  /\ at' = at + 1
  /\ left' = Candidates(at + 1)
  /\ phase' = "crop"
  /\ UNCHANGED <<geometry, crops, seen, keep, output>>

\* One turn of apply_nms: the best box left is kept, those too close to it go, and
\* at max_det the rest goes too.
NmsStep ==
  /\ phase \in {"crop", "final"}
  /\ \E d \in left :
       /\ \A e \in left : e.score <= d.score
       /\ keep' = Append(keep, d)
       /\ left' = IF Len(keep) + 1 >= MaxDet THEN {}
                  ELSE {e \in left \ {d} : Apart(d.box, e.box)}
  /\ UNCHANGED <<geometry, phase, crops, seen, at, output>>

\* Faulty variant: what does not fit is cut off.
StoreCropCut ==
  /\ phase = "crop"
  /\ left = {} /\ keep # <<>>
  /\ output' = SubSeq(output \o keep, 1, Lower(MaxDet, Len(output \o keep)))
  /\ keep' = <<>>
  /\ UNCHANGED <<geometry, phase, crops, seen, at, left>>

\* The crop's detections go into the image's buffer of max_det rows.  Rows that do not
\* fit in what is left of it raise, but for a single one: it is broadcast into the
\* empty slice, which is no error and writes nothing.
StoreCrop ==
  /\ phase = "crop"
  /\ left = {} /\ keep # <<>>
  /\ \/ /\ Len(output) + Len(keep) <= MaxDet
        /\ phase' = phase /\ output' = output \o keep
     \/ /\ Len(output) + Len(keep) > MaxDet
        /\ phase' = IF Len(keep) = 1 THEN phase ELSE "raised"
        /\ output' = output
  /\ keep' = <<>>
  /\ UNCHANGED <<geometry, crops, seen, at, left>>

\* After the last crop, apply_nms once more over the whole image, whatever the class.
StartFinal ==
  /\ phase = "crop"
  /\ at = Len(crops) /\ left = {} /\ keep = <<>>
  /\ phase' = "final"
  /\ left' = ToSet(output)
  /\ UNCHANGED <<geometry, crops, seen, at, keep, output>>

Finish ==
  /\ phase = "final"
  /\ left = {}
  /\ phase' = "done"
  /\ UNCHANGED <<geometry, crops, seen, at, left, keep, output>>

Next ==
  \/ Construct \/ PreTransform \/ Infer
  \/ StartCrop \/ NmsStep \/ StoreCrop \/ StartFinal \/ Finish

Spec == Init /\ [][Next]_vars

-----------------------------------------------------------------------------
\* Every position of axis a lies in some slice, and neighbours share the overlap.
AxisCovered(a) ==
  LET from == {crops[k].origin[a] : k \in 2..Len(crops)}
  IN  /\ \A y \in 0..(input.im[a] - 1) : \E s \in from : s <= y /\ y < s + size[a]
      /\ \A s \in from : s > 0 => \E t \in from : t < s /\ s <= t + size[a] - overlap[a]
      /\ \A s \in from : 0 <= s /\ s + size[a] <= input.im[a]

\* How far, along axis a and in 1/(2 * den * im) of a letterboxed pixel, decoding
\* puts image coordinate x from where the resized, bordered image shows it.
Drift(a, x) ==
  LET c == crops[1]
      unpad == Unpadded(input.im, c.ratio)[a]
      D == c.ratio.den
      shown == 2 * D * (x * unpad + BorderBefore(c.pad2[a]) * input.im[a])
      meant == input.im[a] * (2 * x * c.ratio.num + c.pad2[a] * D)
  IN  shown - meant

\* The step between slices is positive on every axis that is cut.
OverlapFits == \A a \in 1..2 : Larger(a) => overlap[a] < size[a]

(* When slicing looks everywhere: if pre_transform hands over crops of an image  *)
(* larger than one crop, then all have the detector's size, and the letterboxed  *)
(* copy has it too and maps back to the image within one pixel.  The slices cover *)
(* the image with the configured overlap exactly if the overlap is below the     *)
(* size of a crop along each axis that is cut; otherwise part of the image is in *)
(* no slice, or neighbours lack the overlap, and nothing raises.  That happens   *)
(* only where the overlap was validated against a crop size the detector then    *)
(* overruled.  pre_transform fails only there too, or for an image that exceeds  *)
(* the crop size along one axis alone or degenerates to nothing.                 *)
SlicingSound ==
  /\ phase \in {"infer", "crop", "final", "done"} =>
       /\ \A k \in DOMAIN crops : crops[k].size = size
       /\ Larger(1) \/ Larger(2) => (OverlapFits <=> \A a \in 1..2 : AxisCovered(a))
       /\ OverlapFits \/ input.crop # size
       /\ \A a \in 1..2 : \A x \in {0, input.im[a]} :
            LET one == 2 * crops[1].ratio.den * input.im[a]
            IN  -one <= Drift(a, x) /\ Drift(a, x) <= one
  /\ phase = "raised" /\ at = 0 =>
       \/ Larger(1) # Larger(2)
       \/ \E a \in 1..2 : overlap[a] >= size[a] /\ input.crop # size
       \/ \E a \in 1..2 : input.im[a] >= 2 * input.im[3 - a] * size[a]

\* The rows of the buffer that crop k filled.
RowsOf(k) == {i \in DOMAIN output : output[i].crop = k}

\* Some detection of the set, at least as good, that d is not apart from.
SuppressedBy(d, dets) == \E e \in dets : e.score >= d.score /\ ~Apart(e.box, d.box)

\* Crop k had one detection left when the rows of earlier crops filled the buffer.
LoneDropped(k) ==
  /\ Len(output) = MaxDet /\ \A i \in DOMAIN output : output[i].crop < k
  /\ \E e \in Candidates(k) : \A d \in Candidates(k) \ {e} : SuppressedBy(d, {e}) \/ MaxDet = 1

(* What suppression may drop: the detections returned are pairwise apart, best    *)
(* first, at most max_det; each detection of a crop is in the buffer, or gives    *)
(* way to one of its crop that is at least as good, or its crop had max_det better *)
(* ones; and the same again from the buffer to the result.  A buffer that         *)
(* overflows loses nothing, because the call raises, with one exception: a crop   *)
(* whose suppression left a single detection loses it, in silence, when the crops *)
(* before it have filled all max_det rows.                                        *)
SuppressionSound ==
  phase = "done" =>
    /\ Len(keep) <= MaxDet
    /\ \A i, j \in DOMAIN keep :
         i < j => keep[i].score >= keep[j].score /\ Apart(keep[i].box, keep[j].box)
    /\ \A k \in DOMAIN crops : \A d \in Candidates(k) :
         \/ d \in ToSet(output)
         \/ SuppressedBy(d, {output[i] : i \in RowsOf(k)})
         \/ Cardinality(RowsOf(k)) = MaxDet
         \/ LoneDropped(k)
    /\ \A d \in ToSet(output) :
         d \in ToSet(keep) \/ SuppressedBy(d, ToSet(keep)) \/ Len(keep) = MaxDet

(* "validate crop overlap": the constructor warns that the overlap is larger than *)
(* the crop size and resets it, so no step is zero or negative.                   *)
OverlapValidated == phase # "init" => \A a \in 1..2 : overlap[a] < size[a]

(* max_det, "maximum number of detections to return": only better detections may  *)
(* make a detection go.                                                           *)
NoneDropped ==
  phase = "done" =>
    \A k \in DOMAIN crops : \A d \in Candidates(k) :
      d \in ToSet(output) \/ SuppressedBy(d, ToSet(output)) \/ \A e \in ToSet(output) : e.score >= d.score
=============================================================================
