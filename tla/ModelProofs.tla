---------------------------- MODULE ModelProofs -----------------------------
(***************************************************************************)
(* Safety of the models for every image, crop size, set of detections and  *)
(* batch.  Detection: GeometrySound says what pre_transform has cut, SInv  *)
(* what apply_nms has done so far of the crop it is at.  Inference: Inv says *)
(* whose rows the buffers hold at each stage of a call, and which arrays the *)
(* kept views are of.                                                      *)
(***************************************************************************)
EXTENDS Detection, Inference, FiniteSetTheorems, SequenceTheorems, TLAPS

-----------------------------------------------------------------------------
(* Detection.  The arithmetic of crops and borders first.                    *)

\* copyMakeBorder's two borders add up to the padding, and differ by at most one.
LEMMA Borders ==
  ASSUME NEW t \in Int
  PROVE  /\ BorderBefore(t) + BorderAfter(t) = t
         /\ BorderBefore(t) \in Int /\ -1 <= 2 * BorderBefore(t) - t /\ 2 * BorderBefore(t) - t <= 1
BY DEF BorderBefore, BorderAfter, Round

\* Quotient and remainder by a positive divisor.
LEMMA DivMod ==
  ASSUME NEW n \in Int, NEW d \in Nat \ {0}
  PROVE  /\ n \div d \in Int /\ n % d \in 0..(d - 1)
         /\ n = d * (n \div d) + (n % d)
OBVIOUS

\* round() is off by at most a half.
LEMMA RoundNear ==
  ASSUME NEW n \in Int, NEW d \in Nat \ {0}
  PROVE  /\ Round(n, d) \in Int
         /\ -d <= 2 * (d * Round(n, d)) - 2 * n
         /\ 2 * (d * Round(n, d)) - 2 * n <= d
<1> DEFINE q == n \div d
           r == n % d
<1>1. q \in Int /\ r \in 0..(d - 1) /\ n = d * q + r
  BY DivMod
<1>2. Round(n, d) = IF 2 * r < d \/ (2 * r = d /\ q % 2 = 0) THEN q ELSE q + 1
  BY DEF Round
<1> HIDE DEF q, r
<1>3. d * (q + 1) = d * q + d
  BY <1>1
<1> QED
  BY <1>1, <1>2, <1>3

\* A product with a natural number is monotone.
LEMMA Mul ==
  ASSUME NEW a \in Int, NEW b \in Int, NEW c \in Nat, a <= b
  PROVE  c * a <= c * b /\ c * a \in Int /\ c * b \in Int
OBVIOUS

\* Quotient and remainder of a number written with both.
LEMMA DivUnique ==
  ASSUME NEW d \in Nat \ {0}, NEW i \in Int, NEW j \in 0..(d - 1)
  PROVE  (i * d + j) \div d = i /\ (i * d + j) % d = j
<1> DEFINE n == i * d + j
<1>0. n \in Int /\ i * d = d * i
  OBVIOUS
<1>1. n \div d \in Int /\ n % d \in 0..(d - 1) /\ n = d * (n \div d) + (n % d)
  BY <1>0, DivMod
<1> DEFINE q == n \div d
<1>2. CASE q >= i + 1
  <2>1. d * (i + 1) <= d * q
    BY <1>1, <1>2, Mul
  <2> QED BY <1>0, <1>1, <2>1
<1>3. CASE q + 1 <= i
  <2>1. d * (q + 1) <= d * i
    BY <1>1, <1>3, Mul
  <2> QED BY <1>0, <1>1, <2>1
<1> QED
  BY <1>0, <1>1, <1>2, <1>3

\* A pair is its two components.
LEMMA Tuple2 ==
  ASSUME NEW p \in Pixels, NEW f, f = [a \in 1..2 |-> p[a]]
  PROVE  f = p
BY DEF Pixels

\* n_steps is the least number of steps that reaches the end of the image.
LEMMA StepCount ==
  ASSUME NEW img \in Nat \ {0}, NEW crop \in Nat \ {0}, NEW step \in Nat \ {0}, img > crop,
         NEW n, n = NSteps(img, crop, step)
  PROVE  /\ n \in Nat /\ n >= 2
         /\ (n - 2) * step < img - crop
         /\ img - crop <= (n - 1) * step
<1> DEFINE m == img - crop + step - 1
           q == m \div step
<1>1. m \in Int /\ m >= step
  OBVIOUS
<1>2. q \in Int /\ m % step \in 0..(step - 1) /\ m = step * q + (m % step)
  BY <1>1, DivMod
<1>3. n = q + 1
  BY DEF NSteps, FloorDiv
<1>4. q >= 1
  <2>1. CASE q <= 0
    <3>1. step * q <= step * 0
      BY <1>2, <2>1, Mul
    <3> QED BY <1>1, <1>2, <3>1
  <2> QED BY <1>2, <2>1
<1>5. (n - 1) * step = step * q /\ (n - 2) * step = step * q - step
  BY <1>2, <1>3
<1> QED
  BY <1>2, <1>3, <1>4, <1>5

\* One axis of an image larger than a crop.
LEMMA AxisLarger ==
  ASSUME NEW img \in Nat \ {0}, NEW crop \in Nat \ {0}, NEW step \in Nat \ {0}, step <= crop, img > crop,
         NEW s, s = Starts(img, crop, step)
  PROVE  /\ Len(s) \in Nat \ {0} /\ DOMAIN s = 1..Len(s)
         /\ \A k \in DOMAIN s : s[k] \in Int /\ 0 <= s[k] /\ s[k] + crop <= img
         /\ \A y \in 0..(img - 1) : \E k \in DOMAIN s : s[k] <= y /\ y < s[k] + crop
         /\ \A k \in DOMAIN s : s[k] > 0 => \E l \in DOMAIN s : s[l] < s[k] /\ s[k] <= s[l] + step
<1> DEFINE n == NSteps(img, crop, step)
<1>1. /\ n \in Nat /\ n >= 2
      /\ (n - 2) * step < img - crop
      /\ img - crop <= (n - 1) * step
  BY StepCount
<1>2. s = [k \in 1..n |-> IF k = n THEN img - crop ELSE (k - 1) * step]
  BY <1>1 DEF Starts
<1> HIDE DEF n
<1>3. DOMAIN s = 1..n /\ s[n] = img - crop /\ \A k \in 1..(n - 1) : s[k] = (k - 1) * step
  BY <1>1, <1>2
<1>4. \A k \in 1..n : s[k] \in Int
  BY <1>1, <1>2
<1>5. Len(s) = n
  <2>1. s \in [1..n -> Int]
    BY <1>2, <1>4
  <2>2. s \in Seq(Int)
    BY <1>1, <2>1
  <2> QED
    BY <1>1, <1>3, <2>2
<1>6. \A k \in 1..(n - 1) : 0 <= s[k] /\ s[k] <= (n - 2) * step
  <2> SUFFICES ASSUME NEW k \in 1..(n - 1) PROVE 0 <= s[k] /\ s[k] <= (n - 2) * step
    OBVIOUS
  <2>1. k \in Int /\ k - 1 >= 0 /\ k - 1 <= n - 2
    BY <1>1
  <2>2. step * 0 <= step * (k - 1) /\ step * (k - 1) <= step * (n - 2)
    BY <1>1, <2>1, Mul
  <2>3. s[k] = (k - 1) * step
    BY <1>3
  <2>4. (k - 1) * step = step * (k - 1) /\ (n - 2) * step = step * (n - 2)
    BY <1>1, <2>1
  <2> QED
    BY <2>2, <2>3, <2>4
<1>7. \A k \in 1..n : 0 <= s[k] /\ s[k] + crop <= img
  <2>1. \A k \in 1..n : k = n \/ k \in 1..(n - 1)
    BY <1>1
  <2>2. (n - 2) * step \in Int
    BY <1>1
  <2> QED
    BY <1>1, <1>3, <1>4, <1>6, <2>1, <2>2
<1>8. ASSUME NEW y \in 0..(img - 1)
      PROVE  \E k \in 1..n : s[k] <= y /\ y < s[k] + crop
  <2>1. CASE y >= img - crop
    <3>1. n \in 1..n
      BY <1>1
    <3> QED
      BY <1>3, <2>1, <3>1
  <2>2. CASE y < img - crop
    <3> DEFINE q == y \div step
    <3>0. y \in Int
      OBVIOUS
    <3>1. q \in Int /\ y % step \in 0..(step - 1) /\ y = step * q + (y % step)
      BY <3>0, DivMod
    <3> HIDE DEF q
    <3>2. q >= 0
      <4>1. CASE q <= -1
        <5>1. step * q <= step * (-1)
          BY <3>1, <4>1, Mul
        <5> QED BY <3>1, <5>1
      <4> QED BY <3>1, <4>1
    <3>3. q < n - 1
      <4>1. CASE q >= n - 1
        <5>1. step * (n - 1) <= step * q
          BY <1>1, <3>1, <4>1, Mul
        <5> QED BY <1>1, <3>1, <5>1, <2>2
      <4> QED BY <1>1, <3>1, <4>1
    <3>4. q + 1 \in 1..(n - 1) /\ q + 1 \in 1..n
      BY <1>1, <3>1, <3>2, <3>3
    <3>5. s[q + 1] = step * q
      BY <1>3, <3>1, <3>4
    <3> QED
      BY <3>1, <3>4, <3>5
  <2> QED BY <2>1, <2>2
<1>9. ASSUME NEW k \in 1..n, s[k] > 0
      PROVE  \E l \in 1..n : s[l] < s[k] /\ s[k] <= s[l] + step
  <2>1. k # 1
    <3>1. CASE k = 1
      <4>1. s[1] = 0
        BY <1>1, <1>3
      <4> QED BY <1>9, <3>1, <4>1
    <3> QED BY <3>1
  <2>2. k - 1 \in 1..(n - 1) /\ k - 1 \in 1..n
    BY <1>1, <2>1
  <2>3. s[k - 1] = (k - 2) * step
    BY <1>3, <2>2
  <2>4. CASE k = n
    BY <1>1, <1>3, <2>2, <2>3, <2>4
  <2>5. CASE k # n
    <3>1. k \in 1..(n - 1)
      BY <1>1, <2>5
    <3>2. s[k] = (k - 1) * step
      BY <1>3, <3>1
    <3>3. (k - 1) * step = (k - 2) * step + step
      BY <3>1
    <3>4. (k - 2) * step \in Int
      OBVIOUS
    <3> QED
      BY <2>2, <2>3, <3>2, <3>3, <3>4
  <2> QED BY <2>4, <2>5
<1>10. Len(s) \in Nat \ {0} /\ DOMAIN s = 1..Len(s)
  BY <1>1, <1>3, <1>5
<1>11. \A k \in DOMAIN s : s[k] \in Int /\ 0 <= s[k] /\ s[k] + crop <= img
  BY <1>3, <1>4, <1>7
<1>12. \A y \in 0..(img - 1) : \E k \in DOMAIN s : s[k] <= y /\ y < s[k] + crop
  BY <1>3, <1>8
<1>13. \A k \in DOMAIN s : s[k] > 0 => \E l \in DOMAIN s : s[l] < s[k] /\ s[k] <= s[l] + step
  BY <1>3, <1>9
<1> QED
  BY <1>10, <1>11, <1>12, <1>13

\* Along an axis the image does not exceed there is one crop, at zero.
LEMMA AxisFits ==
  ASSUME NEW img \in Nat \ {0}, NEW crop \in Nat \ {0}, NEW step \in Int, img <= crop,
         NEW s, s = Starts(img, crop, step)
  PROVE  Len(s) = 1 /\ DOMAIN s = 1..1 /\ s[1] = 0
<1>1. NSteps(img, crop, step) = 1
  BY DEF NSteps
<1>2. s = [k \in 1..1 |-> (k - 1) * step]
  BY <1>1 DEF Starts
<1>3. s[1] = 0 /\ DOMAIN s = 1..1
  BY <1>2
<1>4. s \in [1..1 -> Int]
  BY <1>2
<1>5. s \in Seq(Int)
  <2> DEFINE n == 1
  <2>1. n \in Nat /\ s \in [1..n -> Int]
    BY <1>4
  <2> HIDE DEF n
  <2> QED
    BY <2>1
<1> QED
  BY <1>3, <1>5

\* Whatever the step, the crops' positions are a sequence.
LEMMA AxisAny ==
  ASSUME NEW img \in Nat \ {0}, NEW crop \in Nat \ {0}, NEW step \in Int, img > crop => step # 0,
         NEW s, s = Starts(img, crop, step)
  PROVE  Len(s) \in Nat /\ DOMAIN s = 1..Len(s) /\ \A k \in DOMAIN s : s[k] \in Int
<1> DEFINE n == NSteps(img, crop, step)
<1>1. n \in Int
  <2>1. CASE img <= crop
    BY <2>1 DEF NSteps
  <2>2. CASE img > crop
    <3>1. n = FloorDiv(img - crop + step - 1, step) + 1
      BY <2>2 DEF NSteps
    <3>2. CASE step > 0
      <4>1. (img - crop + step - 1) \div step \in Int
        BY <3>2, DivMod
      <4> QED
        BY <3>1, <3>2, <4>1 DEF FloorDiv
    <3>3. CASE step < 0
      <4>1. -(img - crop + step - 1) \in Int /\ -step \in Nat \ {0}
        BY <3>3
      <4>2. (-(img - crop + step - 1)) \div (-step) \in Int
        BY <4>1, DivMod
      <4> QED
        BY <3>1, <3>3, <4>2 DEF FloorDiv
    <3> QED BY <2>2, <3>2, <3>3
  <2> QED BY <2>1, <2>2
<1>2. s = [k \in 1..n |-> IF img > crop /\ n > 1 /\ k = n THEN img - crop ELSE (k - 1) * step]
  BY DEF Starts
<1> HIDE DEF n
<1>3. DOMAIN s = 1..n /\ s \in [1..n -> Int]
  BY <1>1, <1>2
<1>3a. \A k \in DOMAIN s : s[k] \in Int
  BY <1>3
<1>4. CASE n >= 0
  <2>1. s \in Seq(Int)
    BY <1>1, <1>3, <1>4
  <2> QED
    BY <1>1, <1>3, <1>3a, <1>4, <2>1
<1>5. CASE n < 0
  <2>1. 1..n = {} /\ 1..0 = {}
    BY <1>1, <1>5
  <2>2. s \in [1..0 -> Int]
    BY <1>3, <2>1
  <2>3. s \in Seq(Int)
    BY <2>2
  <2> QED
    BY <1>3, <1>3a, <2>1, <2>3
<1> QED BY <1>1, <1>4, <1>5

Extent(y, crop, img) == IF y + crop < img THEN crop ELSE img - y
Cut(c, y, x, im, crop) ==
  /\ c.origin = <<y, x>>
  /\ c.size = <<Extent(y, crop[1], im[1]), Extent(x, crop[2], im[2])>>

\* slice_image makes one crop for each pair of positions along the two axes.
LEMMA SlicesAre ==
  ASSUME NEW s, s = Slices(input.im, size, overlap),
         NEW ys, ys = Starts(input.im[1], size[1], size[1] - overlap[1]),
         NEW xs, xs = Starts(input.im[2], size[2], size[2] - overlap[2]),
         Len(ys) \in Nat, Len(xs) \in Nat, DOMAIN ys = 1..Len(ys), DOMAIN xs = 1..Len(xs)
  PROVE  /\ Len(s) \in Nat /\ DOMAIN s = 1..Len(s) /\ s \in Seq(ToSet(s))
         /\ \A k \in DOMAIN s : \E i \in DOMAIN ys, j \in DOMAIN xs : Cut(s[k], ys[i], xs[j], input.im, size)
         /\ \A i \in DOMAIN ys, j \in DOMAIN xs : \E k \in DOMAIN s : Cut(s[k], ys[i], xs[j], input.im, size)
<1> DEFINE n == Len(ys) * Len(xs)
           row(k) == ((k - 1) \div Len(xs)) + 1
           col(k) == ((k - 1) % Len(xs)) + 1
           cut(y, x) == [size |-> <<Extent(y, size[1], input.im[1]), Extent(x, size[2], input.im[2])>>,
                         ratio |-> [num |-> 1, den |-> 1], pad2 |-> <<0, 0>>, origin |-> <<y, x>>]
<1>1. n \in Nat
  OBVIOUS
<1>2. s = [k \in 1..n |-> cut(ys[row(k)], xs[col(k)])]
  BY DEF Slices, Extent
<1>3. \A c, y, x : c = cut(y, x) => Cut(c, y, x, input.im, size)
  BY DEF Cut
<1> HIDE DEF cut
<1>4. DOMAIN s = 1..n /\ \A k \in 1..n : Cut(s[k], ys[row(k)], xs[col(k)], input.im, size)
  BY <1>2, <1>3
<1> HIDE DEF n
<1>5. s \in [1..n -> ToSet(s)]
  BY <1>2, <1>4 DEF ToSet
<1>6. s \in Seq(ToSet(s))
  BY <1>1, <1>5
<1>7. Len(s) = n
  BY <1>1, <1>4, <1>6
<1>8. ASSUME NEW k \in 1..n
      PROVE  row(k) \in DOMAIN ys /\ col(k) \in DOMAIN xs
  <2>1. Len(xs) # 0 /\ Len(ys) # 0
    BY <1>1 DEF n
  <2> DEFINE q == (k - 1) \div Len(xs)
             r == (k - 1) % Len(xs)
             L == Len(xs)
  <2>2. k - 1 \in Int /\ L \in Nat \ {0}
    BY <1>1, <2>1
  <2>3. q \in Int /\ r \in 0..(L - 1) /\ k - 1 = L * q + r
    BY <2>2, DivMod
  <2>0. row(k) = q + 1 /\ col(k) = r + 1 /\ L = Len(xs)
    OBVIOUS
  <2> HIDE DEF q, r, L
  <2>4. q >= 0
    <3>1. CASE q <= -1
      <4>1. L * q <= L * (-1)
        BY <2>2, <2>3, <3>1, Mul
      <4> QED BY <2>2, <2>3, <4>1, <1>1
    <3> QED BY <2>3, <3>1
  <2>5. q < Len(ys)
    <3>1. CASE q >= Len(ys)
      <4>1. L * Len(ys) <= L * q
        BY <2>2, <2>3, <3>1, Mul
      <4>2. L * Len(ys) = n
        BY <2>0 DEF n
      <4> QED BY <1>1, <2>2, <2>3, <4>1, <4>2
    <3> QED BY <2>3, <3>1
  <2> QED
    BY <2>0, <2>2, <2>3, <2>4, <2>5
<1>9. ASSUME NEW i \in DOMAIN ys, NEW j \in DOMAIN xs
      PROVE  \E k \in 1..n : row(k) = i /\ col(k) = j
  <2> DEFINE L == Len(xs)
  <2> HIDE DEF L
  <2>0. L = Len(xs)
    BY DEF L
  <2>1. i - 1 \in Int /\ j - 1 \in 0..(L - 1) /\ L \in Nat \ {0} /\ i \in 1..Len(ys)
    BY <2>0
  <2>2. ((i - 1) * L + (j - 1)) \div L = i - 1 /\ ((i - 1) * L + (j - 1)) % L = j - 1
    BY <2>1, DivUnique
  <2>2a. PICK p \in Int : p = (i - 1) * L
    BY <2>1
  <2>3. PICK k \in Int : k = p + j
    BY <2>1
  <2>4. k - 1 = (i - 1) * L + (j - 1)
    <3>1. k - 1 = p + (j - 1)
      <4>1. j \in Int
        OBVIOUS
      <4> QED
        BY ONLY <4>1, <2>3, p \in Int, k \in Int
    <3> QED
      BY ONLY <2>2a, <3>1
  <2>5. (k - 1) \div L = i - 1 /\ (k - 1) % L = j - 1
    BY <2>2, <2>4
  <2>6. row(k) = i /\ col(k) = j
    BY <2>0, <2>1, <2>5
  <2>7. k \in 1..n
    <3>1. L * 0 <= L * (i - 1) /\ L * i <= L * Len(ys)
      BY <2>1, Mul
    <3>2. L * Len(ys) = n
      BY <2>0 DEF n
    <3>4. L * (i - 1) = p /\ L * i = p + L /\ L * 0 = 0
      BY ONLY <2>1, <2>2a
    <3>5. 0 <= p /\ p + L <= n
      BY <3>1, <3>2, <3>4
    <3>6. k = p + j
      BY <2>3
    <3>7. 1 <= j /\ j <= L /\ j \in Int
      BY <2>0
    <3> QED
      BY ONLY <1>1, <2>1, <3>5, <3>6, <3>7, p \in Int, k \in Int
  <2> QED
    BY <2>6, <2>7
<1>10. \A k \in DOMAIN s : \E i \in DOMAIN ys, j \in DOMAIN xs : Cut(s[k], ys[i], xs[j], input.im, size)
  BY <1>4, <1>8
<1>11. ASSUME NEW i \in DOMAIN ys, NEW j \in DOMAIN xs
       PROVE  \E k \in DOMAIN s : Cut(s[k], ys[i], xs[j], input.im, size)
  <2>1. PICK k \in 1..n : row(k) = i /\ col(k) = j
    BY <1>9
  <2>2. Cut(s[k], ys[row(k)], xs[col(k)], input.im, size)
    BY <1>4
  <2> HIDE DEF row, col
  <2> QED
    BY <1>4, <2>1, <2>2
<1> QED
  BY <1>1, <1>4, <1>6, <1>7, <1>10, <1>11

\* A size is a pair of positive numbers.
LEMMA PixelsAre ==
  ASSUME NEW p \in Pixels
  PROVE  /\ p = <<p[1], p[2]>> /\ \A a \in 1..2 : p[a] \in Nat \ {0}
         /\ \A q : q = <<p[1], p[2]>> => q = p
BY DEF Pixels

\* letterbox's ratio is one, or that of an axis.
LEMMA RatioIs ==
  ASSUME NEW im \in Pixels, NEW new \in Pixels, NEW r, r = Ratio(im, new)
  PROVE  /\ r.num \in Nat \ {0} /\ r.den \in Nat \ {0}
         /\ \/ r.num = 1 /\ r.den = 1
            \/ \E a \in 1..2 : r.num = new[a] /\ r.den = im[a]
BY PixelsAre DEF Ratio

\* The scaled size is off by at most half a pixel.
LEMMA UnpaddedIs ==
  ASSUME NEW im \in Pixels, NEW new \in Pixels, NEW r, r = Ratio(im, new), NEW a \in 1..2,
         NEW u, u = Unpadded(im, r)[a]
  PROVE  /\ u \in Int
         /\ -r.den <= 2 * (r.den * u) - 2 * (im[a] * r.num)
         /\ 2 * (r.den * u) - 2 * (im[a] * r.num) <= r.den
<1>1. r.num \in Nat \ {0} /\ r.den \in Nat \ {0} /\ im[a] \in Nat \ {0}
  BY RatioIs, PixelsAre
<1>2. u = Round(im[a] * r.num, r.den)
  BY DEF Unpadded
<1>3. im[a] * r.num \in Int
  BY <1>1
<1> QED
  BY <1>1, <1>2, <1>3, RoundNear

\* letterbox returns exactly the size it is asked for.
LEMMA LetterboxFits ==
  ASSUME NEW im \in Pixels, NEW new \in Pixels
  PROVE  Letterbox(im, new).size = new
<1> DEFINE r == Ratio(im, new)
           u == Unpadded(im, r)
           pad == [a \in 1..2 |-> new[a] - u[a]]
           sz == [a \in 1..2 |-> u[a] + BorderBefore(pad[a]) + BorderAfter(pad[a])]
<1>1. Letterbox(im, new).size = sz
  BY DEF Letterbox
<1>2. ASSUME NEW a \in 1..2
      PROVE  u[a] + BorderBefore(pad[a]) + BorderAfter(pad[a]) = new[a]
  <2>1. u[a] \in Int
    BY UnpaddedIs
  <2>2. new[a] \in Int
    BY PixelsAre
  <2>3. pad[a] = new[a] - u[a]
    OBVIOUS
  <2> HIDE DEF u, pad
  <2>4. BorderBefore(pad[a]) + BorderAfter(pad[a]) = pad[a] /\ BorderBefore(pad[a]) \in Int
    BY <2>1, <2>2, <2>3, Borders
  <2>5. BorderAfter(pad[a]) \in Int
    BY <2>1, <2>2, <2>3 DEF BorderAfter, Round
  <2> QED
    BY <2>1, <2>2, <2>3, <2>4, <2>5
<1>3. sz = [a \in 1..2 |-> new[a]]
  <2> HIDE DEF u, pad
  <2> QED
  BY <1>2
<1> QED
  BY <1>1, <1>3, Tuple2

\* Undoing the letterbox moves an edge of the image by at most one scaled pixel.
LEMMA DriftSmall ==
  ASSUME NEW im \in Nat \ {0}, NEW num \in Nat \ {0}, NEW den \in Nat \ {0}, NEW u \in Int, NEW pad \in Int,
         -den <= 2 * (den * u) - 2 * (im * num), 2 * (den * u) - 2 * (im * num) <= den,
         NEW x \in {0, im}, NEW drift,
         drift = 2 * den * (x * u + BorderBefore(pad) * im) - im * (2 * x * num + pad * den)
  PROVE  -(2 * den * im) <= drift /\ drift <= 2 * den * im
<1> DEFINE b == BorderBefore(pad)
           e == 2 * b - pad
           f == 2 * (den * u) - 2 * (im * num)
<1>1. b \in Int /\ e \in Int /\ -1 <= e /\ e <= 1
  BY Borders
<1>2. drift = 2 * den * (x * u + b * im) - im * (2 * x * num + pad * den)
  OBVIOUS
<1>3. f \in Int /\ -den <= f /\ f <= den
  OBVIOUS
<1> HIDE DEF b
<1>4. drift = im * (den * e) + x * f
  <2>0. x \in Int
    OBVIOUS
  <2>1. 2 * den * (x * u + b * im) = x * (2 * (den * u)) + im * (den * (2 * b))
    BY <1>1, <2>0
  <2>2. im * (2 * x * num + pad * den) = x * (2 * (im * num)) + im * (den * pad)
    BY <2>0
  <2>3. im * (den * (2 * b - pad)) = im * (den * (2 * b)) - im * (den * pad)
    BY <1>1
  <2>4. x * (2 * (den * u) - 2 * (im * num)) = x * (2 * (den * u)) - x * (2 * (im * num))
    BY <2>0
  <2>5. PICK A, B, C, D \in Int :
          /\ A = x * (2 * (den * u)) /\ B = im * (den * (2 * b))
          /\ C = x * (2 * (im * num)) /\ D = im * (den * pad)
    BY <1>1, <2>0
  <2>6. drift = (A + B) - (C + D)
    BY <1>2, <2>1, <2>2, <2>5
  <2>7. im * (den * e) = B - D /\ x * f = A - C
    BY <2>3, <2>4, <2>5
  <2> QED
    BY <2>5, <2>6, <2>7
<1> HIDE DEF e, f
<1>5. den * (-1) <= den * e /\ den * e <= den * 1
  BY <1>1, Mul
<1>6. PICK g \in Int : g = den * e /\ -den <= g /\ g <= den
  BY <1>1, <1>5
<1>7. im * (-den) <= im * g /\ im * g <= im * den
  BY <1>6, Mul
<1>8. im * (-den) <= x * f /\ x * f <= im * den
  <2>1. CASE x = 0
    <3>1. im * 0 <= im * den /\ im * (-den) <= im * 0
      BY Mul
    <3> QED BY <1>3, <2>1, <3>1
  <2>2. CASE x = im
    <3>1. im * (-den) <= im * f /\ im * f <= im * den
      BY <1>3, Mul
    <3> QED BY <2>2, <3>1
  <2> QED BY <2>1, <2>2
<1>9. PICK p \in Int : p = im * den
  OBVIOUS
<1>10. im * (-den) = -p /\ 2 * den * im = 2 * p
  BY <1>9
<1>11. im * g \in Int /\ x * f \in Int /\ drift = im * g + x * f
  BY <1>3, <1>4, <1>6
<1> QED
  BY <1>7, <1>8, <1>9, <1>10, <1>11

Late == {"crop", "final", "done"}

\* What pre_transform stacks, when it can.
Shown ==
  <<Letterbox(input.im, size)>> \o
    (IF Larger(1) \/ Larger(2) THEN Slices(input.im, size, overlap) ELSE <<>>)

Stackable == \A k \in DOMAIN Shown : Shown[k].size = Shown[1].size

\* The overlap the constructor settled on.
Checked ==
  /\ input \in Inputs /\ size = input.imgsz
  /\ \/ overlap = <<0, 0>>
     \/ overlap = input.overlap /\ \A a \in 1..2 : 0 <= overlap[a] /\ overlap[a] < input.crop[a]

GeometrySound ==
  /\ input \in Inputs
  /\ phase # "init" => Checked
  /\ phase \in {"infer"} \cup Late => crops = Shown /\ ~PreRaises /\ Stackable
  /\ phase = "raised" /\ at = 0 => PreRaises \/ ~Stackable

\* What the constructor has checked of sizes and overlaps.
LEMMA GeometryTypes ==
  ASSUME Checked
  PROVE  /\ input.im \in Pixels /\ size \in Pixels
         /\ \A a \in 1..2 : overlap[a] \in Int /\ 0 <= overlap[a]
         /\ \A a \in 1..2 : input.im[a] \in Nat \ {0} /\ size[a] \in Nat \ {0}
         /\ \A a \in 1..2 : overlap[a] >= size[a] => input.crop # size
<1>1. input \in [imgsz : Pixels, crop : Int \X Int, overlap : Int \X Int, im : Pixels,
                 batch : {-1} \cup (Nat \ {0}), dets : SUBSET Detections]
  BY DetectionAssumption DEF Checked
<1>2. input.im \in Pixels /\ input.imgsz \in Pixels /\ input.overlap \in Int \X Int /\ input.crop \in Int \X Int
  BY <1>1
<1>3. size \in Pixels
  BY <1>2 DEF Checked
<1>4. \A a \in 1..2 : input.im[a] \in Nat \ {0} /\ size[a] \in Nat \ {0}
  BY <1>2, <1>3, PixelsAre
<1>5. \A a \in 1..2 : input.overlap[a] \in Int /\ input.crop[a] \in Int
  BY <1>2
<1>6. \A a \in 1..2 : overlap[a] \in Int /\ 0 <= overlap[a]
  BY <1>5 DEF Checked
<1>7. ASSUME NEW a \in 1..2, overlap[a] >= size[a], input.crop = size PROVE FALSE
  BY <1>4, <1>5, <1>7 DEF Checked
<1> QED
  BY <1>2, <1>3, <1>4, <1>6, <1>7

\* The elements of a sequence with one element in front.
LEMMA ConcatIs ==
  ASSUME NEW e, NEW T, NEW t \in Seq(T), NEW s, s = <<e>> \o t
  PROVE  /\ Len(s) = 1 + Len(t) /\ Len(s) \in Nat \ {0} /\ DOMAIN s = 1..Len(s)
         /\ s[1] = e
         /\ \A k \in 1..Len(t) : s[k + 1] = t[k]
         /\ \A k \in 2..Len(s) : k - 1 \in 1..Len(t) /\ s[k] = t[k - 1]
<1> DEFINE U == T \cup {e}
<1>1. <<e>> \in Seq(U) /\ t \in Seq(U)
  OBVIOUS
<1>2. Len(<<e>>) = 1 /\ <<e>>[1] = e
  OBVIOUS
<1> HIDE DEF U
<1> QED
  BY <1>1, <1>2

\* The slices, as pre_transform makes them.
LEMMA SlicesShown ==
  ASSUME Checked, ~PreRaises, Larger(1) \/ Larger(2),
         NEW ys, ys = Starts(input.im[1], size[1], size[1] - overlap[1]),
         NEW xs, xs = Starts(input.im[2], size[2], size[2] - overlap[2])
  PROVE  /\ Len(ys) \in Nat /\ Len(xs) \in Nat /\ DOMAIN ys = 1..Len(ys) /\ DOMAIN xs = 1..Len(xs)
         /\ Len(Shown) \in Nat \ {0} /\ DOMAIN Shown = 1..Len(Shown)
         /\ Shown[1] = Letterbox(input.im, size)
         /\ \A k \in 2..Len(Shown) : \E i \in DOMAIN ys, j \in DOMAIN xs :
              Cut(Shown[k], ys[i], xs[j], input.im, size)
         /\ \A i \in DOMAIN ys, j \in DOMAIN xs : \E k \in 2..Len(Shown) :
              Cut(Shown[k], ys[i], xs[j], input.im, size)
<1>0. PICK s : s = Slices(input.im, size, overlap)
  OBVIOUS
<1> DEFINE Y == size[1] - overlap[1]
           X == size[2] - overlap[2]
<1>1. /\ \A a \in 1..2 : overlap[a] \in Int /\ input.im[a] \in Nat \ {0} /\ size[a] \in Nat \ {0}
      /\ \A a \in 1..2 : input.im[a] > size[a] => size[a] # overlap[a]
  BY GeometryTypes DEF PreRaises, Larger
<1>2. Y \in Int /\ (input.im[1] > size[1] => Y # 0) /\ X \in Int /\ (input.im[2] > size[2] => X # 0)
  BY <1>1
<1>3. ys = Starts(input.im[1], size[1], Y) /\ xs = Starts(input.im[2], size[2], X)
  OBVIOUS
<1> HIDE DEF Y, X
<1>4. Len(ys) \in Nat /\ DOMAIN ys = 1..Len(ys) /\ Len(xs) \in Nat /\ DOMAIN xs = 1..Len(xs)
  BY <1>1, <1>2, <1>3, AxisAny
<1>5. /\ Len(s) \in Nat /\ DOMAIN s = 1..Len(s) /\ s \in Seq(ToSet(s))
      /\ \A k \in DOMAIN s : \E i \in DOMAIN ys, j \in DOMAIN xs : Cut(s[k], ys[i], xs[j], input.im, size)
      /\ \A i \in DOMAIN ys, j \in DOMAIN xs : \E k \in DOMAIN s : Cut(s[k], ys[i], xs[j], input.im, size)
  BY <1>0, <1>4, SlicesAre
<1>6. Shown = <<Letterbox(input.im, size)>> \o s
  BY <1>0 DEF Shown
<1> DEFINE l == Letterbox(input.im, size)
<1> HIDE DEF l
<1>7. /\ Len(Shown) = 1 + Len(s) /\ Len(Shown) \in Nat \ {0} /\ DOMAIN Shown = 1..Len(Shown)
      /\ Shown[1] = l
      /\ \A k \in 1..Len(s) : Shown[k + 1] = s[k]
      /\ \A k \in 2..Len(Shown) : k - 1 \in 1..Len(s) /\ Shown[k] = s[k - 1]
  <2>1. Shown = <<l>> \o s
    BY <1>6 DEF l
  <2> QED
    BY <1>5, <2>1, ConcatIs
<1>8. \A k \in 2..Len(Shown) : \E i \in DOMAIN ys, j \in DOMAIN xs : Cut(Shown[k], ys[i], xs[j], input.im, size)
  <2>1. \A k \in 2..Len(Shown) : k - 1 \in DOMAIN s /\ Shown[k] = s[k - 1]
    BY ONLY <1>5, <1>7
  <2> QED
    BY ONLY <1>5, <2>1
<1>9. ASSUME NEW i \in DOMAIN ys, NEW j \in DOMAIN xs
      PROVE  \E k \in 2..Len(Shown) : Cut(Shown[k], ys[i], xs[j], input.im, size)
  <2>1. PICK k \in DOMAIN s : Cut(s[k], ys[i], xs[j], input.im, size)
    BY <1>5
  <2>0. k \in 1..Len(s) /\ Len(s) \in Nat
    BY <1>5
  <2>2. k \in 1..Len(s) /\ k + 1 \in 2..Len(Shown)
    BY <1>7, <2>0
  <2>3. Shown[k + 1] = s[k]
    BY <1>7, <2>2
  <2> QED
    BY <2>1, <2>2, <2>3
<1> QED
  BY <1>4, <1>7, <1>8, <1>9 DEF l

\* Of what pre_transform shows the detector, the whole image comes first.
LEMMA ShownIs ==
  ASSUME Checked, ~PreRaises
  PROVE  /\ Len(Shown) \in Nat \ {0} /\ DOMAIN Shown = 1..Len(Shown)
         /\ Shown[1] = Letterbox(input.im, size) /\ Shown[1].size = size
         /\ ~(Larger(1) \/ Larger(2)) => Len(Shown) = 1
<1>1. Letterbox(input.im, size).size = size
  BY GeometryTypes, LetterboxFits
<1> DEFINE l == Letterbox(input.im, size)
<1> HIDE DEF l
<1>2. CASE Larger(1) \/ Larger(2)
  BY <1>1, <1>2, SlicesShown
<1>3. CASE ~(Larger(1) \/ Larger(2))
  <2>1. Shown = <<l>> \o <<>>
    BY <1>3 DEF Shown, l
  <2>2. <<>> \in Seq({}) /\ Len(<<>>) = 0
    OBVIOUS
  <2>3. Len(Shown) = 1 + 0 /\ DOMAIN Shown = 1..Len(Shown) /\ Shown[1] = l
    BY <2>1, <2>2, ConcatIs
  <2> QED
    BY <1>1, <1>3, <2>3 DEF l
<1> QED
  BY <1>2, <1>3

\* Where the slices begin along an axis.
Lines(a) == Starts(input.im[a], size[a], size[a] - overlap[a])

\* Along each axis the positions cover the image, in steps that leave the overlap.
LEMMA LinesAre ==
  ASSUME Checked, ~PreRaises, NEW a \in 1..2, OverlapFits, NEW s, s = Lines(a)
  PROVE  /\ Len(s) \in Nat \ {0} /\ DOMAIN s = 1..Len(s)
         /\ \A k \in DOMAIN s : s[k] \in Int /\ 0 <= s[k]
         /\ Larger(a) => \A k \in DOMAIN s : s[k] + size[a] <= input.im[a]
         /\ ~Larger(a) => \A k \in DOMAIN s : s[k] = 0
         /\ input.im[a] >= size[a] =>
              \A y \in 0..(input.im[a] - 1) : \E k \in DOMAIN s : s[k] <= y /\ y < s[k] + size[a]
         /\ \A k \in DOMAIN s : s[k] > 0 => \E l \in DOMAIN s : s[l] < s[k] /\ s[k] <= s[l] + size[a] - overlap[a]
<1>1. input.im[a] \in Nat \ {0} /\ size[a] \in Nat \ {0} /\ overlap[a] \in Int /\ 0 <= overlap[a]
  BY GeometryTypes
<1>2. PICK step \in Int : step = size[a] - overlap[a] /\ step <= size[a]
  BY <1>1
<1>3. s = Starts(input.im[a], size[a], step)
  BY <1>2 DEF Lines
<1>4. CASE Larger(a)
  <2>0. step \in Nat \ {0}
    BY <1>1, <1>2, <1>4 DEF OverlapFits
  <2>1. input.im[a] > size[a]
    BY <1>4 DEF Larger
  <2>2. /\ Len(s) \in Nat \ {0} /\ DOMAIN s = 1..Len(s)
        /\ \A k \in DOMAIN s : s[k] \in Int /\ 0 <= s[k] /\ s[k] + size[a] <= input.im[a]
        /\ \A y \in 0..(input.im[a] - 1) : \E k \in DOMAIN s : s[k] <= y /\ y < s[k] + size[a]
        /\ \A k \in DOMAIN s : s[k] > 0 => \E l \in DOMAIN s : s[l] < s[k] /\ s[k] <= s[l] + step
    BY <1>1, <1>2, <1>3, <2>0, <2>1, AxisLarger
  <2>3. \A k, l \in DOMAIN s : s[k] <= s[l] + step => s[k] <= s[l] + size[a] - overlap[a]
    BY <1>1, <1>2, <2>2
  <2>4. \A k \in DOMAIN s : s[k] > 0 => \E l \in DOMAIN s : s[l] < s[k] /\ s[k] <= s[l] + size[a] - overlap[a]
    BY <2>2, <2>3
  <2> QED
    BY <1>4, <2>2, <2>4
<1>5. CASE ~Larger(a)
  <2>1. input.im[a] <= size[a] /\ step \in Int
    BY <1>1, <1>2, <1>5 DEF Larger
  <2>2. Len(s) = 1 /\ DOMAIN s = 1..1 /\ s[1] = 0
    BY <1>1, <1>3, <2>1, AxisFits
  <2>3. \A k \in DOMAIN s : s[k] = 0
    BY <2>2
  <2>4. 1 \in DOMAIN s
    BY <2>2
  <2> QED
    BY <1>1, <1>5, <2>1, <2>2, <2>3, <2>4
<1> QED
  BY <1>4, <1>5

\* A crop begins at y along axis a, and ends with its size or with the image.
Begins(c, a, y) == c.origin[a] = y /\ c.size[a] = Extent(y, size[a], input.im[a])

\* The crops begin at those positions, and each position begins one.
LEMMA CropsAre ==
  ASSUME Checked, ~PreRaises, Larger(1) \/ Larger(2), OverlapFits
  PROVE  /\ \A k \in 2..Len(Shown), a \in 1..2 : \E i \in DOMAIN Lines(a) : Begins(Shown[k], a, Lines(a)[i])
         /\ \A k \in 2..Len(Shown) : Shown[k].size = <<Shown[k].size[1], Shown[k].size[2]>>
         /\ \A a \in 1..2 : \A i \in DOMAIN Lines(a) : \E k \in 2..Len(Shown) : Begins(Shown[k], a, Lines(a)[i])
<1>1. PICK ys : ys = Lines(1)
  OBVIOUS
<1>2. PICK xs : xs = Lines(2)
  OBVIOUS
<1>3. /\ ys = Starts(input.im[1], size[1], size[1] - overlap[1])
      /\ xs = Starts(input.im[2], size[2], size[2] - overlap[2])
  BY <1>1, <1>2 DEF Lines
<1>4. /\ \A k \in 2..Len(Shown) : \E i \in DOMAIN ys, j \in DOMAIN xs :
              Cut(Shown[k], ys[i], xs[j], input.im, size)
      /\ \A i \in DOMAIN ys, j \in DOMAIN xs : \E k \in 2..Len(Shown) :
              Cut(Shown[k], ys[i], xs[j], input.im, size)
  BY <1>3, SlicesShown
<1>5. 1 \in DOMAIN ys /\ 1 \in DOMAIN xs
  BY <1>1, <1>2, LinesAre
<1>6. ASSUME NEW c, NEW y, NEW x, Cut(c, y, x, input.im, size)
      PROVE  Begins(c, 1, y) /\ Begins(c, 2, x) /\ c.size = <<c.size[1], c.size[2]>>
  BY <1>6 DEF Cut, Begins
<1>7. ASSUME NEW k \in 2..Len(Shown)
      PROVE  /\ \E i \in DOMAIN ys : Begins(Shown[k], 1, ys[i])
             /\ \E j \in DOMAIN xs : Begins(Shown[k], 2, xs[j])
             /\ Shown[k].size = <<Shown[k].size[1], Shown[k].size[2]>>
  <2>1. PICK i \in DOMAIN ys, j \in DOMAIN xs : Cut(Shown[k], ys[i], xs[j], input.im, size)
    BY <1>4
  <2> QED
    BY <1>6, <2>1
<1>8. ASSUME NEW i \in DOMAIN ys
      PROVE  \E k \in 2..Len(Shown) : Begins(Shown[k], 1, ys[i])
  <2>1. PICK k \in 2..Len(Shown) : Cut(Shown[k], ys[i], xs[1], input.im, size)
    BY <1>4, <1>5
  <2> QED
    BY <1>6, <2>1
<1>9. ASSUME NEW j \in DOMAIN xs
      PROVE  \E k \in 2..Len(Shown) : Begins(Shown[k], 2, xs[j])
  <2>1. PICK k \in 2..Len(Shown) : Cut(Shown[k], ys[1], xs[j], input.im, size)
    BY <1>4, <1>5
  <2> QED
    BY <1>6, <2>1
<1>10. \A a \in 1..2 : a = 1 \/ a = 2
  OBVIOUS
<1>11. ASSUME NEW k \in 2..Len(Shown), NEW a \in 1..2
       PROVE  \E i \in DOMAIN Lines(a) : Begins(Shown[k], a, Lines(a)[i])
  BY <1>1, <1>2, <1>7, <1>10
<1>12. ASSUME NEW a \in 1..2, NEW i \in DOMAIN Lines(a)
       PROVE  \E k \in 2..Len(Shown) : Begins(Shown[k], a, Lines(a)[i])
  BY <1>1, <1>2, <1>8, <1>9, <1>10
<1> QED
  BY <1>7, <1>11, <1>12

\* A slice that begins where its whole size fits has that size.
LEMMA BothLarger ==
  ASSUME Checked, ~PreRaises, Larger(1), Larger(2), OverlapFits
  PROVE  Stackable
<1>1. \A a \in 1..2 : \A i \in DOMAIN Lines(a) : Extent(Lines(a)[i], size[a], input.im[a]) = size[a]
  <2> SUFFICES ASSUME NEW a \in 1..2, NEW i \in DOMAIN Lines(a)
               PROVE  Extent(Lines(a)[i], size[a], input.im[a]) = size[a]
    OBVIOUS
  <2>1. PICK y : y = Lines(a)[i]
    OBVIOUS
  <2>2. y \in Int /\ y + size[a] <= input.im[a]
    <3>1. Larger(a)
      OBVIOUS
    <3> QED
      BY <2>1, <3>1, LinesAre
  <2>3. input.im[a] \in Int /\ size[a] \in Int
    BY GeometryTypes
  <2> QED
    BY <2>1, <2>2, <2>3 DEF Extent
<1>2. ASSUME NEW k \in 2..Len(Shown), NEW a \in 1..2
      PROVE  Shown[k].size[a] = size[a]
  <2>1. PICK i \in DOMAIN Lines(a) : Begins(Shown[k], a, Lines(a)[i])
    BY CropsAre
  <2> QED
    BY <1>1, <2>1 DEF Begins
<1>3. ASSUME NEW k \in 2..Len(Shown)
      PROVE  Shown[k].size = <<size[1], size[2]>>
  <2>1. Shown[k].size = <<Shown[k].size[1], Shown[k].size[2]>>
    BY CropsAre
  <2>2. Shown[k].size[1] = size[1] /\ Shown[k].size[2] = size[2]
    BY <1>2
  <2> QED
    BY <2>1, <2>2
<1>4. <<size[1], size[2]>> = size
  BY GeometryTypes, PixelsAre
<1>5. Shown[1].size = size /\ DOMAIN Shown = 1..Len(Shown) /\ Len(Shown) \in Nat
  BY ShownIs
<1>6. \A k \in 1..Len(Shown) : k = 1 \/ k \in 2..Len(Shown)
  BY <1>5
<1> QED
  BY <1>3, <1>4, <1>5, <1>6 DEF Stackable

\* Crops of one size cover their axis, each overlapping an earlier one.
LEMMA Covered ==
  ASSUME Checked, ~PreRaises, Stackable, crops = Shown, Larger(1) \/ Larger(2),
         OverlapFits, NEW a \in 1..2
  PROVE  AxisCovered(a)
<1> DEFINE from == {crops[k].origin[a] : k \in 2..Len(crops)}
<1>1. PICK s : s = Lines(a)
  OBVIOUS
<1>2. (\A i \in DOMAIN s : s[i] \in from) /\ \A v \in from : \E i \in DOMAIN s : v = s[i]
  <2>1. ASSUME NEW k \in 2..Len(crops)
        PROVE  \E i \in DOMAIN s : crops[k].origin[a] = s[i]
    <3>1. PICK i \in DOMAIN Lines(a) : Begins(Shown[k], a, Lines(a)[i])
      BY CropsAre
    <3> QED
      BY <1>1, <3>1 DEF Begins
  <2>2. ASSUME NEW i \in DOMAIN s
        PROVE  \E k \in 2..Len(crops) : s[i] = crops[k].origin[a]
    <3>1. PICK k \in 2..Len(Shown) : Begins(Shown[k], a, Lines(a)[i])
      BY <1>1, CropsAre
    <3> QED
      BY <1>1, <3>1 DEF Begins
  <2> QED
    BY <2>1, <2>2
<1>3. input.im[a] \in Int /\ size[a] \in Int /\ overlap[a] \in Int
  BY GeometryTypes
<1>4. input.im[a] >= size[a]
  <2>1. CASE Larger(a)
    BY <1>3, <2>1 DEF Larger
  <2>2. CASE ~Larger(a)
    <3>1. 1 \in DOMAIN s /\ s[1] = 0
      BY <1>1, <2>2, LinesAre
    <3>2. PICK k \in 2..Len(Shown) : Begins(Shown[k], a, s[1])
      BY <1>1, <3>1, CropsAre
    <3>3. k \in DOMAIN Shown
      BY ShownIs
    <3>4. Shown[k].size = size
      BY <3>3, ShownIs DEF Stackable
    <3>5. size[a] = input.im[a]
      BY <1>3, <2>2, <3>1, <3>2, <3>4 DEF Begins, Extent, Larger
    <3> QED
      BY <1>3, <3>5
  <2> QED BY <2>1, <2>2
<1>5. /\ \A k \in DOMAIN s : s[k] \in Int /\ 0 <= s[k]
      /\ Larger(a) => \A k \in DOMAIN s : s[k] + size[a] <= input.im[a]
      /\ ~Larger(a) => \A k \in DOMAIN s : s[k] = 0
      /\ \A y \in 0..(input.im[a] - 1) : \E k \in DOMAIN s : s[k] <= y /\ y < s[k] + size[a]
      /\ \A k \in DOMAIN s : s[k] > 0 => \E l \in DOMAIN s : s[l] < s[k] /\ s[k] <= s[l] + size[a] - overlap[a]
  BY <1>1, <1>4, LinesAre
<1> HIDE DEF from
<1>6. \A y \in 0..(input.im[a] - 1) : \E v \in from : v <= y /\ y < v + size[a]
  BY <1>2, <1>5
<1>7. \A v \in from : v > 0 => \E t \in from : t < v /\ v <= t + size[a] - overlap[a]
  BY <1>2, <1>5
<1>8. \A v \in from : 0 <= v /\ v + size[a] <= input.im[a]
  BY <1>2, <1>3, <1>4, <1>5
<1> QED
  BY <1>6, <1>7, <1>8 DEF AxisCovered, from

\* Where the overlap is no less than a crop's size, slices in steps that leave the
\* overlap would all have to begin at zero, and then they miss the end of the image.
LEMMA Uncovered ==
  ASSUME Checked, ~PreRaises, crops = Shown, NEW a \in 1..2, Larger(a), ~(overlap[a] < size[a])
  PROVE  ~AxisCovered(a)
<1> DEFINE from == {crops[k].origin[a] : k \in 2..Len(crops)}
<1>1. /\ input.im[a] \in Nat \ {0} /\ size[a] \in Nat \ {0} /\ overlap[a] \in Int
      /\ input.im[a] > size[a] /\ overlap[a] >= size[a]
  BY GeometryTypes DEF Larger
<1>2. \A v \in from : v \in Int
  <2>0. PICK ys, xs : ys = Lines(1) /\ xs = Lines(2)
    OBVIOUS
  <2>1. Larger(1) \/ Larger(2)
    BY a = 1 \/ a = 2
  <2>2. \A k \in 2..Len(Shown) : \E i \in DOMAIN ys, j \in DOMAIN xs :
          Cut(Shown[k], ys[i], xs[j], input.im, size)
    BY <2>0, <2>1, SlicesShown DEF Lines
  <2>3. ASSUME NEW b \in 1..2
        PROVE  \A k \in DOMAIN Lines(b) : Lines(b)[k] \in Int
    <3>1. /\ input.im[b] \in Nat \ {0} /\ size[b] \in Nat \ {0} /\ overlap[b] \in Int
          /\ input.im[b] > size[b] => size[b] # overlap[b]
      BY GeometryTypes DEF PreRaises, Larger
    <3>2. PICK step \in Int : step = size[b] - overlap[b] /\ (input.im[b] > size[b] => step # 0)
      BY <3>1
    <3>3. Lines(b) = Starts(input.im[b], size[b], step)
      BY <3>2 DEF Lines
    <3> QED
      BY <3>1, <3>2, <3>3, AxisAny
  <2>4. (\A i \in DOMAIN ys : ys[i] \in Int) /\ \A j \in DOMAIN xs : xs[j] \in Int
    BY <2>0, <2>3
  <2>5. ASSUME NEW k \in 2..Len(crops) PROVE crops[k].origin[a] \in Int
    <3>1. PICK i \in DOMAIN ys, j \in DOMAIN xs : Cut(Shown[k], ys[i], xs[j], input.im, size)
      BY <2>2
    <3>2. crops[k].origin = <<ys[i], xs[j]>>
      BY <3>1 DEF Cut
    <3> QED
      BY <2>4, <3>2
  <2> QED
    BY <2>5
<1> HIDE DEF from
<1> SUFFICES ASSUME AxisCovered(a) PROVE FALSE
  OBVIOUS
<1>3. /\ \A y \in 0..(input.im[a] - 1) : \E v \in from : v <= y /\ y < v + size[a]
      /\ \A v \in from : v > 0 => \E t \in from : t < v /\ v <= t + size[a] - overlap[a]
  BY DEF AxisCovered, from
<1>4. \A v \in from : ~(v > 0)
  BY <1>1, <1>2, <1>3
<1>5. PICK v \in from : v <= input.im[a] - 1 /\ input.im[a] - 1 < v + size[a]
  BY <1>1, <1>3
<1> QED
  BY <1>1, <1>2, <1>4, <1>5

\* Rescaling the boxes found in the whole image puts its edges back in place.
LEMMA DriftBounded ==
  ASSUME Checked, ~PreRaises, crops = Shown, NEW a \in 1..2, NEW x \in {0, input.im[a]}, NEW one,
         one = 2 * crops[1].ratio.den * input.im[a]
  PROVE  -one <= Drift(a, x) /\ Drift(a, x) <= one
<1>1. input.im \in Pixels /\ size \in Pixels
  BY GeometryTypes
<1>2. PICK r : r = Ratio(input.im, size)
  OBVIOUS
<1>3. PICK u : u = Unpadded(input.im, r)[a]
  OBVIOUS
<1>4. PICK pad : pad = size[a] - u
  OBVIOUS
<1>5. crops[1].ratio = r /\ crops[1].pad2[a] = pad
  <2>1. crops[1] = Letterbox(input.im, size)
    BY ShownIs
  <2> QED
    BY <1>2, <1>3, <1>4, <2>1 DEF Letterbox
<1>6. /\ input.im[a] \in Nat \ {0} /\ r.num \in Nat \ {0} /\ r.den \in Nat \ {0} /\ u \in Int /\ pad \in Int
      /\ -r.den <= 2 * (r.den * u) - 2 * (input.im[a] * r.num)
      /\ 2 * (r.den * u) - 2 * (input.im[a] * r.num) <= r.den
  BY <1>1, <1>2, <1>3, <1>4, PixelsAre, RatioIs, UnpaddedIs
<1>7. PICK drift : drift = Drift(a, x)
  OBVIOUS
<1>8. PICK im : im = input.im[a]
  OBVIOUS
<1>9. drift = 2 * r.den * (x * u + BorderBefore(pad) * im) - im * (2 * x * r.num + pad * r.den)
  BY <1>3, <1>5, <1>7, <1>8 DEF Drift
<1>10. PICK num \in Nat \ {0}, den \in Nat \ {0} : num = r.num /\ den = r.den
  BY <1>6
<1>11. -(2 * den * im) <= drift /\ drift <= 2 * den * im
  BY <1>6, <1>8, <1>9, <1>10, DriftSmall
<1> QED
  BY <1>5, <1>7, <1>8, <1>10, <1>11

\* An image that resizes to nothing is far longer than the crop.
LEMMA Degenerate ==
  ASSUME Checked, NEW a \in 1..2, Unpadded(input.im, Ratio(input.im, size))[a] = 0
  PROVE  \E b \in 1..2 : input.im[b] >= 2 * input.im[3 - b] * size[b]
<1>1. input.im \in Pixels /\ size \in Pixels /\ \A b \in 1..2 : input.im[b] \in Nat \ {0} /\ size[b] \in Nat \ {0}
  BY GeometryTypes
<1>2. PICK r : r = Ratio(input.im, size)
  OBVIOUS
<1>3. /\ r.num \in Nat \ {0} /\ r.den \in Nat \ {0}
      /\ -r.den <= 2 * (r.den * 0) - 2 * (input.im[a] * r.num)
  BY <1>1, <1>2, RatioIs, UnpaddedIs
<1>4. 2 * (input.im[a] * r.num) <= r.den
  BY <1>1, <1>3
<1>5. CASE r.num = 1 /\ r.den = 1
  BY <1>1, <1>4, <1>5
<1>6. ASSUME NEW b \in 1..2, r.num = size[b], r.den = input.im[b]
      PROVE  input.im[b] >= 2 * input.im[3 - b] * size[b]
  <2>1. 2 * (input.im[a] * size[b]) <= input.im[b]
    BY <1>4, <1>6
  <2>2. CASE a = b
    <3>1. PICK m \in Nat \ {0}, c \in Nat \ {0} : m = input.im[b] /\ c = size[b]
      BY <1>1
    <3>2. m * 1 <= m * c
      <4>1. 1 \in Int /\ c \in Int /\ m \in Nat /\ 1 <= c
        OBVIOUS
      <4> QED
        BY <4>1, Mul
    <3>3. m * c \in Int /\ 2 * (m * c) <= m
      BY <2>1, <2>2, <3>1
    <3> QED
      BY <3>1, <3>2, <3>3
  <2>3. CASE a # b
    <3>1. 3 - b = a
      BY <2>3
    <3> QED
      BY <1>1, <2>1, <3>1
  <2> QED
    BY <2>2, <2>3
<1> QED
  BY <1>1, <1>2, <1>5, <1>6, RatioIs

\* The geometry's invariant is enough for SlicingSound.
LEMMA GeometryImplies == ASSUME GeometrySound, phase = "infer" => at = 0 PROVE SlicingSound
<1>1. ASSUME phase \in {"infer"} \cup Late
      PROVE  /\ \A k \in DOMAIN crops : crops[k].size = size
             /\ Larger(1) \/ Larger(2) => (OverlapFits <=> \A a \in 1..2 : AxisCovered(a))
             /\ OverlapFits \/ input.crop # size
             /\ \A a \in 1..2 : \A x \in {0, input.im[a]} :
                  LET one == 2 * crops[1].ratio.den * input.im[a]
                  IN  -one <= Drift(a, x) /\ Drift(a, x) <= one
  <2>1. Checked /\ crops = Shown /\ ~PreRaises /\ Stackable
    BY <1>1 DEF GeometrySound, Late
  <2>2. \A k \in DOMAIN crops : crops[k].size = size
    BY <2>1, ShownIs DEF Stackable
  <2>3. ASSUME Larger(1) \/ Larger(2)
        PROVE  OverlapFits <=> \A a \in 1..2 : AxisCovered(a)
    <3>1. OverlapFits => \A a \in 1..2 : AxisCovered(a)
      BY <2>1, <2>3, Covered
    <3>2. ASSUME ~OverlapFits PROVE \E a \in 1..2 : ~AxisCovered(a)
      <4>1. PICK a \in 1..2 : Larger(a) /\ ~(overlap[a] < size[a])
        BY <3>2 DEF OverlapFits
      <4> QED
        BY <2>1, <4>1, Uncovered
    <3> QED
      BY <3>1, <3>2
  <2>3a. OverlapFits \/ input.crop # size
    <3>1. \A a \in 1..2 : overlap[a] \in Int /\ size[a] \in Int /\ (overlap[a] >= size[a] => input.crop # size)
      BY <2>1, GeometryTypes
    <3> QED
      BY <3>1 DEF OverlapFits
  <2>4. ASSUME NEW a \in 1..2, NEW x \in {0, input.im[a]}
        PROVE  LET one == 2 * crops[1].ratio.den * input.im[a]
               IN  -one <= Drift(a, x) /\ Drift(a, x) <= one
    BY <2>1, DriftBounded
  <2> QED
    BY <2>2, <2>3, <2>3a, <2>4
<1>2. ASSUME phase = "raised", at = 0
      PROVE  \/ Larger(1) # Larger(2)
             \/ \E a \in 1..2 : overlap[a] >= size[a] /\ input.crop # size
             \/ \E a \in 1..2 : input.im[a] >= 2 * input.im[3 - a] * size[a]
  <2>1. Checked /\ (PreRaises \/ ~Stackable)
    BY <1>2 DEF GeometrySound
  <2>2. \A a \in 1..2 : overlap[a] \in Int /\ size[a] \in Int /\ (overlap[a] >= size[a] => input.crop # size)
    BY <2>1, GeometryTypes
  <2>3. CASE \E a \in 1..2 : Unpadded(input.im, Ratio(input.im, size))[a] = 0
    BY <2>1, <2>3, Degenerate
  <2>4. CASE \E a \in 1..2 : overlap[a] >= size[a]
    BY <2>2, <2>4
  <2>5. CASE /\ ~\E a \in 1..2 : Unpadded(input.im, Ratio(input.im, size))[a] = 0
             /\ ~\E a \in 1..2 : overlap[a] >= size[a]
    <3>1. ~PreRaises
      BY <2>2, <2>5 DEF PreRaises
    <3>2. OverlapFits
      BY <2>2, <2>5 DEF OverlapFits
    <3>3. ~(Larger(1) /\ Larger(2))
      BY <2>1, <3>1, <3>2, BothLarger
    <3>4. Larger(1) \/ Larger(2)
      <4> SUFFICES ASSUME ~(Larger(1) \/ Larger(2)) PROVE FALSE
        OBVIOUS
      <4>1. DOMAIN Shown = 1..1
        BY <2>1, <3>1, ShownIs
      <4> QED
        BY <2>1, <3>1, <4>1 DEF Stackable
    <3>5. Larger(1) \in BOOLEAN /\ Larger(2) \in BOOLEAN
      BY DEF Larger
    <3> QED
      BY <3>3, <3>4, <3>5
  <2> QED
    BY <2>3, <2>4, <2>5
<1> QED
  BY <1>1, <1>2 DEF SlicingSound, Late
\* Everything the network reported, decoded.
Found == {Decoded(d) : d \in input.dets}

BufferTypes ==
  /\ input \in Inputs
  /\ phase \in {"init", "pre", "infer", "raised"} \cup Late
  /\ at \in Nat
  /\ phase \in {"init", "pre", "infer"} => at = 0
  /\ phase \in {"infer"} \cup Late => Len(crops) \in Nat \ {0} /\ DOMAIN crops = 1..Len(crops)
  /\ phase \in Late => keep \in Seq(Found) /\ output \in Seq(Found) /\ left \subseteq Found
  /\ phase \in {"init", "pre", "infer"} => keep = <<>> /\ output = <<>> /\ left = {}

\* A run of apply_nms over a set of detections, so far.
NmsSound(dets) ==
  /\ left \subseteq dets
  /\ Len(keep) <= MaxDet /\ (left # {} => Len(keep) < MaxDet)
  /\ \A i, j \in DOMAIN keep :
       i < j => keep[i].score >= keep[j].score /\ Apart(keep[i].box, keep[j].box)
  /\ \A i \in DOMAIN keep, e \in left :
       keep[i].score >= e.score /\ Apart(keep[i].box, e.box)
  /\ \A i \in DOMAIN keep : keep[i] \in dets
  /\ \A d \in dets :
       d \in left \/ d \in ToSet(keep) \/ SuppressedBy(d, ToSet(keep)) \/ Len(keep) = MaxDet

\* What StoreCrop has made of the detections of crop k.
Stored(k) ==
  \A d \in Candidates(k) :
    \/ d \in ToSet(output)
    \/ SuppressedBy(d, {output[i] : i \in RowsOf(k)})
    \/ Cardinality(RowsOf(k)) = MaxDet
    \/ LoneDropped(k)

Idling == left = {} /\ keep = <<>>

CropSound ==
  phase = "crop" =>
    /\ at \in 1..Len(crops)
    /\ \A k \in 1..(at - 1) : Stored(k)
    /\ IF Idling THEN Stored(at) ELSE NmsSound(Candidates(at))
    /\ \A i \in DOMAIN output : output[i].crop <= at /\ (~Idling => output[i].crop < at)
    /\ Len(output) <= MaxDet

FinalSound ==
  phase \in {"final", "done"} =>
    /\ \A k \in DOMAIN crops : Stored(k)
    /\ NmsSound(ToSet(output))
    /\ phase = "done" => left = {}

SInv == BufferTypes /\ CropSound /\ FinalSound
IInv == GeometrySound /\ SInv

\* Nothing is cut or found yet.
LEMMA InitInv == Init => IInv
<1> SUFFICES ASSUME Init PROVE IInv
  OBVIOUS
<1>1. GeometrySound
  BY DEF Init, GeometrySound, Late
<1>2. BufferTypes
  BY DEF Init, BufferTypes, Late
<1> QED
  BY <1>1, <1>2 DEF Init, IInv, SInv, CropSound, FinalSound

\* The constructor fills in the sizes that were left out.
LEMMA ConstructInv == ASSUME IInv, Construct PROVE IInv'
<1>1. /\ phase = "init" /\ phase' = "pre" /\ input' = input /\ at' = at
      /\ UNCHANGED <<crops, keep, left, output>>
      /\ size' = input.imgsz
  BY DEF Construct
<1>2. input \in Inputs
  BY DEF IInv, GeometrySound
<1>3. \A a \in 1..2 : input.overlap[a] \in Int /\ input.crop[a] \in Int
  <2>1. input.overlap \in Int \X Int /\ input.crop \in Int \X Int
    BY <1>2, DetectionAssumption
  <2> QED
    BY <2>1
<1>4. Checked'
  BY <1>1, <1>2, <1>3 DEF Construct, Checked
<1>5. GeometrySound'
  BY <1>1, <1>2, <1>4 DEF GeometrySound, Late
<1>6. BufferTypes'
  BY <1>1 DEF IInv, SInv, BufferTypes, Late
<1> QED
  BY <1>1, <1>5, <1>6 DEF IInv, SInv, CropSound, FinalSound

\* What is shown depends on the call's sizes alone.
LEMMA GeometryUnchanged ==
  ASSUME UNCHANGED geometry
  PROVE  /\ Checked' = Checked /\ Shown' = Shown /\ Stackable' = Stackable /\ PreRaises' = PreRaises
         /\ input' = input /\ size' = size /\ overlap' = overlap
<1>1. input' = input /\ size' = size /\ overlap' = overlap
  BY DEF geometry
<1>2. Shown' = Shown
  BY <1>1 DEF Shown, Larger
<1> QED
  BY <1>1, <1>2 DEF Checked, Stackable, PreRaises, Larger

\* pre_transform cuts the crops.
LEMMA PreTransformInv == ASSUME IInv, PreTransform PROVE IInv'
<1>1. /\ phase = "pre" /\ UNCHANGED geometry /\ at' = at
      /\ UNCHANGED <<keep, left, output>>
  BY DEF PreTransform
<1>2. Checked /\ at = 0 /\ input \in Inputs
  BY <1>1 DEF IInv, GeometrySound, SInv, BufferTypes
<1>3. CASE PreRaises
  <2>1. phase' = "raised"
    BY <1>3 DEF PreTransform
  <2>2. GeometrySound'
    BY <1>1, <1>2, <1>3, <2>1, GeometryUnchanged DEF GeometrySound, Late
  <2>3. BufferTypes'
    BY <1>1, <1>2, <2>1, GeometryUnchanged DEF IInv, SInv, BufferTypes, Late
  <2> QED
    BY <2>1, <2>2, <2>3 DEF IInv, SInv, CropSound, FinalSound
<1>4. CASE ~PreRaises
  <2>1. crops' = Shown
    BY <1>4 DEF PreTransform, Shown
  <2>2. phase' = IF Stackable THEN "infer" ELSE "raised"
    BY <1>4, <2>1 DEF PreTransform, Stackable
  <2>3. Stackable \in BOOLEAN
    BY DEF Stackable
  <2>4. GeometrySound'
    BY <1>1, <1>2, <1>4, <2>1, <2>2, <2>3, GeometryUnchanged DEF GeometrySound, Late
  <2>5. Len(Shown) \in Nat \ {0} /\ DOMAIN Shown = 1..Len(Shown)
    BY <1>2, <1>4, ShownIs
  <2>6. BufferTypes'
    BY <1>1, <1>2, <2>1, <2>2, <2>5, GeometryUnchanged DEF IInv, SInv, BufferTypes, Late
  <2> QED
    BY <2>2, <2>4, <2>6 DEF IInv, SInv, CropSound, FinalSound
<1> QED
  BY <1>3, <1>4

\* The detector is given the crops in batches, in their order.
LEMMA InferInv == ASSUME IInv, Infer PROVE IInv'
<1>1. phase = "infer" /\ UNCHANGED <<geometry, phase, crops, at, left, keep, output>>
  BY DEF Infer
<1>2. GeometrySound'
  BY <1>1, GeometryUnchanged DEF IInv, GeometrySound, Late
<1>3. BufferTypes'
  BY <1>1, GeometryUnchanged DEF IInv, SInv, BufferTypes, Late
<1> QED
  BY <1>1, <1>2, <1>3 DEF IInv, SInv, CropSound, FinalSound

\* A step of _post_transform leaves the geometry behind.
LEMMA GeometryKept ==
  ASSUME GeometrySound, UNCHANGED <<geometry, crops>>, phase \in {"infer"} \cup Late,
         phase' \in Late \/ (phase' = "raised" /\ at' # 0)
  PROVE  GeometrySound'
BY GeometryUnchanged DEF GeometrySound, Late

\* ... and the detections it works on.
LEMMA FoundKept ==
  ASSUME UNCHANGED <<geometry, crops>>
  PROVE  /\ Found' = Found
         /\ \A k : Candidates(k)' = Candidates(k)
         /\ \A d : Decoded(d)' = Decoded(d)
<1>1. input' = input /\ size' = size /\ crops' = crops
  BY DEF geometry
<1>2. Scale' = Scale
  BY <1>1 DEF Scale
<1>3. \A b, c, a : Decode(b, c, a)' = Decode(b, c, a)
  BY <1>2 DEF Decode
<1>4. \A d : Decoded(d)' = Decoded(d)
  BY <1>1, <1>2 DEF Decoded, Decode
<1> QED
  BY <1>1, <1>4 DEF Found, Candidates

\* The types of a detection.
LEMMA FoundAre ==
  ASSUME input \in Inputs, NEW d \in Found
  PROVE  d.score \in Int /\ d.crop \in Nat \ {0}
<1>1. PICK e \in input.dets : d = Decoded(e)
  BY DEF Found
<1>2. e \in [crop : Nat \ {0}, box : Int \X Int \X Int \X Int, score : Int]
  BY DetectionAssumption DEF Detections
<1>3. d.score = e.score /\ d.crop = e.crop
  BY <1>1, <1>2 DEF Decoded
<1> QED
  BY <1>2, <1>3

\* A crop's candidates are detections of that crop.
LEMMA CandidatesAre ==
  ASSUME input \in Inputs, NEW k
  PROVE  /\ Candidates(k) \subseteq Found
         /\ \A d \in Candidates(k) : d.crop = k
<1>1. ASSUME NEW e \in input.dets
      PROVE  Decoded(e).crop = e.crop
  <2>1. e \in [crop : Nat \ {0}, box : Int \X Int \X Int \X Int, score : Int]
    BY DetectionAssumption DEF Detections
  <2> QED
    BY <2>1 DEF Decoded
<1> QED
  BY <1>1 DEF Candidates, Found

\* What is stored of a crop changes with the output alone.
LEMMA StoredKept ==
  ASSUME UNCHANGED <<geometry, crops, output>>
  PROVE  \A k : Stored(k)' = Stored(k)
<1>1. /\ \A k : Candidates(k)' = Candidates(k)
      /\ output' = output
  BY FoundKept
<1>2. \A k : LoneDropped(k)' = LoneDropped(k)
  BY ONLY <1>1 DEF LoneDropped, SuppressedBy, Apart, Union, Area, Intersection, Positive, Lower, Upper
<1> QED
  BY <1>1, <1>2 DEF Stored, RowsOf

\* apply_nms begins on one crop with all its candidates.
LEMMA StartCropInv == ASSUME IInv, StartCrop PROVE IInv'
<1>1. /\ phase' = "crop" /\ at' = at + 1 /\ left' = Candidates(at + 1)
      /\ UNCHANGED <<geometry, crops, keep, output>>
  BY DEF StartCrop
<1>2. /\ phase \in {"infer", "crop"} /\ keep = <<>> /\ left = {}
      /\ phase = "crop" => at < Len(crops)
  BY DEF StartCrop, IInv, SInv, BufferTypes
<1>3. /\ Len(crops) \in Nat \ {0} /\ DOMAIN crops = 1..Len(crops) /\ at \in Nat /\ input \in Inputs
      /\ phase = "infer" => at = 0 /\ output = <<>>
      /\ phase = "crop" => output \in Seq(Found)
  BY <1>2 DEF IInv, SInv, BufferTypes, Late
<1>4. GeometrySound'
  BY <1>1, <1>2, GeometryKept DEF IInv, Late
<1>5. BufferTypes'
  <2>1. Found' = Found /\ input' = input
    BY <1>1, FoundKept, GeometryUnchanged
  <2>2. <<>> \in Seq(Found)
    OBVIOUS
  <2>3. output' \in Seq(Found) /\ keep' \in Seq(Found) /\ left' \subseteq Found
    BY <1>1, <1>2, <1>3, <2>2, CandidatesAre
  <2> QED
    BY <1>1, <1>2, <1>3, <2>1, <2>3 DEF BufferTypes, Late
<1>6. CropSound'
  <2>1. at' \in 1..Len(crops)
    BY <1>1, <1>2, <1>3
  <2>2. \A k \in 1..at : Stored(k)
    <3>1. CASE phase = "infer"
      BY <1>3, <3>1
    <3>2. CASE phase = "crop"
      <4>1. Stored(at) /\ (\A k \in 1..(at - 1) : Stored(k)) /\ at \in Nat
        BY <1>2, <1>3, <3>2 DEF IInv, SInv, CropSound, Idling
      <4>2. \A k \in 1..at : k = at \/ k \in 1..(at - 1)
        BY <1>3
      <4> QED
        BY <4>1, <4>2
    <3> QED BY <1>2, <3>1, <3>2
  <2>3. \A k \in 1..(at' - 1) : Stored(k)'
    <3>1. at' - 1 = at
      BY <1>1, <1>3
    <3> QED
      BY <1>1, <2>2, <3>1, StoredKept
  <2>4. Candidates(at)' = left'
    BY <1>1, FoundKept
  <2>5. NmsSound(left)'
    <3>1. Len(keep') = 0 /\ DOMAIN keep' = {} /\ left' \subseteq left'
      BY <1>1, <1>2
    <3> QED
      BY <3>1, DetectionAssumption DEF NmsSound
  <2>6. IF Idling' THEN Stored(at)' ELSE NmsSound(Candidates(at))'
    <3>1. Idling' => Stored(at)'
      BY <2>4 DEF Idling, Stored
    <3>2. NmsSound(Candidates(at))'
      BY <2>4, <2>5 DEF NmsSound
    <3> QED
      BY <3>1, <3>2
  <2>7. \A i \in DOMAIN output' : output'[i].crop < at'
    <3>1. CASE phase = "infer"
      BY <1>1, <1>3, <3>1
    <3>2. CASE phase = "crop"
      <4>1. \A i \in DOMAIN output : output[i].crop <= at /\ output[i] \in Found
        BY <1>3, <3>2 DEF IInv, SInv, CropSound
      <4> QED
        BY <1>1, <1>3, <4>1, FoundAre
    <3> QED BY <1>2, <3>1, <3>2
  <2>8. \A i \in DOMAIN output' : output'[i].crop <= at'
    <3>1. CASE phase = "infer"
      BY <1>1, <1>3, <3>1
    <3>2. CASE phase = "crop"
      <4>1. \A i \in DOMAIN output : output[i].crop <= at /\ output[i] \in Found
        BY <1>3, <3>2 DEF IInv, SInv, CropSound
      <4> QED
        BY <1>1, <1>3, <4>1, FoundAre
    <3> QED BY <1>2, <3>1, <3>2
  <2>9. Len(output') <= MaxDet
    <3>1. CASE phase = "infer"
      <4>1. Len(output') = 0 /\ MaxDet \in Nat
        BY <1>1, <1>3, <3>1, DetectionAssumption
      <4> QED
        BY <4>1
    <3>2. CASE phase = "crop"
      BY <1>1, <3>2 DEF IInv, SInv, CropSound
    <3> QED BY <1>2, <3>1, <3>2
  <2> QED
    BY <1>1, <2>1, <2>3, <2>6, <2>7, <2>8, <2>9 DEF CropSound
<1> QED
  BY <1>1, <1>4, <1>5, <1>6 DEF IInv, SInv, FinalSound

\* One turn of apply_nms: what is kept stays apart and sorted, and what is let go
\* is suppressed by what is kept, or comes after the limit.
LEMMA NmsKept ==
  ASSUME NEW D, NmsSound(D), input \in Inputs, D \subseteq Found, keep \in Seq(Found),
         NEW d \in left, \A e \in left : e.score <= d.score,
         keep' = Append(keep, d),
         left' = IF Len(keep) + 1 >= MaxDet THEN {} ELSE {e \in left \ {d} : Apart(d.box, e.box)}
  PROVE  /\ NmsSound(D)'
         /\ keep' \in Seq(Found) /\ left' \subseteq left /\ keep' # <<>>
<1>0. MaxDet \in Nat \ {0}
  BY DetectionAssumption
<1>1. left \subseteq D /\ Len(keep) < MaxDet
  BY DEF NmsSound
<1>2. /\ keep' \in Seq(Found) /\ Len(keep') = Len(keep) + 1 /\ Len(keep) \in Nat
      /\ DOMAIN keep = 1..Len(keep) /\ DOMAIN keep' = 1..(Len(keep) + 1)
      /\ keep'[Len(keep) + 1] = d /\ \A i \in DOMAIN keep : keep'[i] = keep[i]
  BY <1>1
<1>3. \A i \in DOMAIN keep' : i \in DOMAIN keep \/ i = Len(keep) + 1
  BY <1>2
<1>4. left' \subseteq left \ {d} /\ (left' # {} => Len(keep) + 1 < MaxDet) /\ \A e \in left' : Apart(d.box, e.box)
  BY <1>0, <1>2
<1>5. Len(keep') <= MaxDet /\ (left' # {} => Len(keep') < MaxDet)
  BY <1>0, <1>1, <1>2, <1>4
<1>6. \A i \in DOMAIN keep, e \in left : keep[i].score >= e.score /\ Apart(keep[i].box, e.box)
  BY DEF NmsSound
<1>7. \A i, j \in DOMAIN keep' :
        i < j => keep'[i].score >= keep'[j].score /\ Apart(keep'[i].box, keep'[j].box)
  <2> SUFFICES ASSUME NEW i \in DOMAIN keep', NEW j \in DOMAIN keep', i < j
               PROVE  keep'[i].score >= keep'[j].score /\ Apart(keep'[i].box, keep'[j].box)
    OBVIOUS
  <2>1. i \in DOMAIN keep /\ keep'[i] = keep[i]
    BY <1>2
  <2>2. CASE j \in DOMAIN keep
    BY <1>2, <2>1, <2>2 DEF NmsSound
  <2>3. CASE j = Len(keep) + 1
    BY <1>2, <1>6, <2>1, <2>3
  <2> QED
    BY <1>3, <2>2, <2>3
<1>8. \A e \in left : e.score \in Int
  BY <1>1, FoundAre
<1>9. \A i \in DOMAIN keep', e \in left' : keep'[i].score >= e.score /\ Apart(keep'[i].box, e.box)
  BY <1>2, <1>3, <1>4, <1>6, <1>8
<1>10. \A i \in DOMAIN keep' : keep'[i] \in D
  BY <1>1, <1>2, <1>3 DEF NmsSound
<1>11. ToSet(keep') = ToSet(keep) \cup {d}
  <2>1. \A i \in DOMAIN keep : i \in DOMAIN keep'
    BY <1>2
  <2>2. Len(keep) + 1 \in DOMAIN keep'
    BY <1>2
  <2> QED
    BY <1>2, <1>3, <2>1, <2>2 DEF ToSet
<1>12. ASSUME NEW e \in D
       PROVE  e \in left' \/ e \in ToSet(keep') \/ SuppressedBy(e, ToSet(keep')) \/ Len(keep') = MaxDet
  <2>1. e \in left \/ e \in ToSet(keep) \/ SuppressedBy(e, ToSet(keep)) \/ Len(keep) = MaxDet
    BY DEF NmsSound
  <2>2. CASE SuppressedBy(e, ToSet(keep))
    BY <1>11, <2>2 DEF SuppressedBy
  <2>3. CASE e \in left
    <3>1. CASE Len(keep) + 1 >= MaxDet
      BY <1>0, <1>1, <1>2, <3>1
    <3>2. CASE ~(Len(keep) + 1 >= MaxDet) /\ e # d /\ ~Apart(d.box, e.box)
      <4>1. d.score >= e.score
        BY <1>8, <2>3
      <4> QED
        BY <1>11, <3>2, <4>1 DEF SuppressedBy
    <3>3. CASE ~(Len(keep) + 1 >= MaxDet) /\ e # d /\ Apart(d.box, e.box)
      BY <2>3, <3>3
    <3>4. CASE e = d
      BY <1>11, <3>4
    <3> QED BY <3>1, <3>2, <3>3, <3>4
  <2>4. CASE e \in ToSet(keep)
    BY <1>11, <2>4
  <2>5. Len(keep) # MaxDet
    <3>1. \A m, n \in Nat : m < n => m # n
      OBVIOUS
    <3>2. Len(keep) \in Nat
      OBVIOUS
    <3> QED
      BY <1>0, <1>1, <3>1, <3>2
  <2> QED
    BY <2>1, <2>2, <2>3, <2>4, <2>5
<1>13. NmsSound(D)'
  BY <1>1, <1>4, <1>5, <1>7, <1>9, <1>10, <1>12 DEF NmsSound
<1>14. keep' # <<>>
  BY <1>2
<1> QED
  BY <1>2, <1>4, <1>13, <1>14

\* A turn of apply_nms on a crop or on the merged detections.
LEMMA NmsStepInv == ASSUME IInv, NmsStep PROVE IInv'
<1>1. /\ phase \in {"crop", "final"} /\ UNCHANGED <<geometry, phase, crops, at, output>>
  BY DEF NmsStep
<1>2. PICK d \in left :
        /\ \A e \in left : e.score <= d.score
        /\ keep' = Append(keep, d)
        /\ left' = IF Len(keep) + 1 >= MaxDet THEN {} ELSE {e \in left \ {d} : Apart(d.box, e.box)}
  BY DEF NmsStep
<1>3. keep \in Seq(Found) /\ output \in Seq(Found) /\ left \subseteq Found /\ input \in Inputs /\ at \in Nat
  BY <1>1 DEF IInv, SInv, BufferTypes, Late
<1>4. PICK D : D = IF phase = "crop" THEN Candidates(at) ELSE ToSet(output)
  OBVIOUS
<1>5. D \subseteq Found
  BY <1>3, <1>4, CandidatesAre DEF ToSet
<1>6. ~Idling
  BY <1>2 DEF Idling
<1>7. NmsSound(D)
  BY <1>1, <1>4, <1>6 DEF IInv, SInv, CropSound, FinalSound
<1>8. /\ NmsSound(D)'
      /\ keep' \in Seq(Found) /\ left' \subseteq left /\ keep' # <<>>
  BY <1>2, <1>3, <1>5, <1>7, NmsKept
<1>9. Found' = Found /\ Candidates(at)' = Candidates(at) /\ ToSet(output)' = ToSet(output) /\ input' = input
  BY <1>1, FoundKept, GeometryUnchanged DEF ToSet
<1>10. GeometrySound'
  BY <1>1, GeometryKept DEF IInv, Late
<1>11. BufferTypes'
  BY <1>1, <1>3, <1>8, <1>9 DEF IInv, SInv, BufferTypes, Late
<1>12. CropSound'
  <2> SUFFICES ASSUME phase = "crop" PROVE CropSound'
    BY <1>1 DEF CropSound
  <2>1. NmsSound(Candidates(at))'
    BY <1>4, <1>8, <1>9 DEF NmsSound
  <2>2. ~Idling'
    BY <1>8 DEF Idling
  <2>3. \A k \in 1..(at - 1) : Stored(k)'
    BY <1>1, StoredKept DEF IInv, SInv, CropSound
  <2>4. \A i \in DOMAIN output : output[i].crop <= at /\ output[i].crop < at
    BY <1>6 DEF IInv, SInv, CropSound
  <2>5. at \in 1..Len(crops) /\ Len(output) <= MaxDet
    BY DEF IInv, SInv, CropSound
  <2> QED
    BY <1>1, <2>1, <2>2, <2>3, <2>4, <2>5 DEF CropSound
<1>13. FinalSound'
  <2> SUFFICES ASSUME phase = "final" PROVE FinalSound'
    BY <1>1 DEF FinalSound
  <2>1. NmsSound(ToSet(output))'
    BY <1>4, <1>8, <1>9 DEF NmsSound
  <2>2. \A k \in DOMAIN crops : Stored(k)'
    BY <1>1, StoredKept DEF IInv, SInv, FinalSound
  <2> QED
    BY <1>1, <2>1, <2>2 DEF FinalSound
<1> QED
  BY <1>10, <1>11, <1>12, <1>13 DEF IInv, SInv

\* The kept detections of a crop are written behind those of earlier crops.
LEMMA StoreCropInv == ASSUME IInv, StoreCrop PROVE IInv'
<1>1. /\ phase = "crop" /\ UNCHANGED <<geometry, crops, at, left>> /\ left = {} /\ keep # <<>> /\ keep' = <<>>
  BY DEF StoreCrop
<1>2. keep \in Seq(Found) /\ output \in Seq(Found) /\ input \in Inputs /\ at \in 1..Len(crops) /\ Len(crops) \in Nat
  BY <1>1 DEF IInv, SInv, BufferTypes, CropSound, Late
<1>3. Found' = Found /\ (\A k : Candidates(k)' = Candidates(k)) /\ input' = input
  BY <1>1, FoundKept, GeometryUnchanged
<1>4. ~Idling /\ NmsSound(Candidates(at)) /\ \A i \in DOMAIN output : output[i].crop < at
  BY <1>1 DEF Idling, IInv, SInv, CropSound
<1>4a. MaxDet \in Nat \ {0} /\ Len(output) <= MaxDet
  BY <1>1, DetectionAssumption DEF IInv, SInv, CropSound
<1>4b. Len(output) + Len(keep) > MaxDet =>
         phase' = (IF Len(keep) = 1 THEN "crop" ELSE "raised") /\ output' = output
  <2>1. Len(output) \in Nat /\ Len(keep) \in Nat
    BY <1>2
  <2> QED
    BY <1>1, <1>4a, <2>1 DEF StoreCrop
<1>5. CASE Len(output) + Len(keep) > MaxDet /\ Len(keep) # 1
  <2>1. phase' = "raised" /\ at' # 0
    BY <1>1, <1>2, <1>4b, <1>5
  <2>2. GeometrySound'
    BY <1>1, <2>1, GeometryKept DEF IInv, Late
  <2>3. BufferTypes'
    BY <1>1, <1>3, <2>1 DEF IInv, SInv, BufferTypes, Late
  <2> QED
    BY <2>1, <2>2, <2>3 DEF IInv, SInv, CropSound, FinalSound
<1>7. CASE Len(output) + Len(keep) > MaxDet /\ Len(keep) = 1
  <2>1. phase' = "crop" /\ output' = output
    BY <1>4b, <1>7
  <2>2. GeometrySound'
    BY <1>1, <2>1, GeometryKept DEF IInv, Late
  <2>3. Len(output) = MaxDet
    <3>1. Len(output) \in Nat
      BY <1>2
    <3> QED
      BY <1>4a, <1>7, <3>1
  <2>4. BufferTypes'
    <3>1. <<>> \in Seq(Found)
      OBVIOUS
    <3> QED
      BY <1>1, <1>2, <1>3, <2>1, <3>1 DEF IInv, SInv, BufferTypes, Late
  <2>5. \A k \in 1..(at - 1) : Stored(k)'
    BY <1>1, <2>1, StoredKept DEF IInv, SInv, CropSound
  <2>6. LoneDropped(at)
    <3>1. PICK e : e = keep[1]
      OBVIOUS
    <3>2. ToSet(keep) = {e} /\ 1 \in DOMAIN keep
      <4>1. DOMAIN keep = 1..1
        BY <1>2, <1>7
      <4> QED
        BY <3>1, <4>1 DEF ToSet
    <3>3. e \in Candidates(at)
      BY <1>4, <3>1, <3>2 DEF NmsSound
    <3>4. \A d \in Candidates(at) : d = e \/ SuppressedBy(d, {e}) \/ MaxDet = 1
      BY <1>1, <1>4, <1>7, <3>2 DEF NmsSound
    <3> QED
      BY <1>4, <2>3, <3>3, <3>4 DEF LoneDropped
  <2>7. Stored(at)'
    <3>1. Stored(at)
      BY <2>6 DEF Stored
    <3> QED
      BY <1>1, <2>1, <3>1, StoredKept
  <2>8. Idling'
    BY <1>1 DEF Idling
  <2>9. \A i \in DOMAIN output : output[i].crop <= at
    BY <1>1 DEF IInv, SInv, CropSound
  <2> QED
    BY <1>1, <1>2, <1>4a, <2>1, <2>2, <2>4, <2>5, <2>7, <2>8, <2>9 DEF IInv, SInv, CropSound, FinalSound
<1>6. CASE ~(Len(output) + Len(keep) > MaxDet)
  <2>1. phase' = "crop" /\ output' = output \o keep
    BY <1>1, <1>2, <1>4a, <1>6 DEF StoreCrop
  <2>2. GeometrySound'
    BY <1>1, <2>1, GeometryKept DEF IInv, Late
  <2>3. PICK o, n \in Nat : o = Len(output) /\ n = Len(keep)
    BY <1>2
  <2>4. /\ output' \in Seq(Found) /\ DOMAIN output = 1..o /\ DOMAIN keep = 1..n /\ DOMAIN output' = 1..(o + n)
        /\ \A i \in 1..o : output'[i] = output[i]
        /\ \A i \in 1..n : output'[o + i] = keep[i]
    BY <1>2, <2>1, <2>3
  <2>5. BufferTypes'
    <3>1. <<>> \in Seq(Found)
      OBVIOUS
    <3> QED
      BY <1>1, <1>2, <1>3, <2>1, <2>4, <3>1 DEF IInv, SInv, BufferTypes, Late
  <2>6. \A i \in 1..(o + n) : i \in 1..o \/ (i - o \in 1..n /\ output'[i] = keep[i - o])
    <3> SUFFICES ASSUME NEW i \in 1..(o + n), i \notin 1..o
                 PROVE  i - o \in 1..n /\ output'[i] = keep[i - o]
      OBVIOUS
    <3>1. i - o \in 1..n /\ o + (i - o) = i
      BY <2>3
    <3> QED
      BY <2>4, <3>1
  <2>7. \A i \in 1..n : keep[i].crop = at /\ keep[i] \in Found
    BY <1>2, <1>4, <2>4, CandidatesAre DEF NmsSound
  <2>8. \A i \in 1..o : output'[i].crop < at
    BY <1>4, <2>4
  <2>9. \A i \in 1..(o + n) : i \notin 1..o => output'[i].crop = at
    BY <2>6, <2>7
  <2>10. \A i \in 1..(o + n) : output'[i].crop <= at
    <3>1. ASSUME NEW i \in 1..(o + n), output'[i].crop = at PROVE output'[i].crop <= at
      BY <1>2, <3>1
    <3>2. ASSUME NEW i \in 1..o PROVE output'[i].crop <= at
      <4>1. output[i].crop \in Int
        BY <1>2, <2>4, FoundAre
      <4> QED
        BY <1>2, <2>4, <2>8, <4>1
    <3> QED
      BY <2>9, <3>1, <3>2
  <2>11. ToSet(output') = ToSet(output) \cup ToSet(keep)
    <3>1. \A i \in 1..n : o + i \in 1..(o + n)
      BY <2>3
    <3>2. \A i \in 1..o : i \in 1..(o + n)
      BY <2>3
    <3> QED
      BY ONLY <2>4, <2>6, <3>1, <3>2 DEF ToSet
  <2>12. ASSUME NEW k \in 1..(at - 1)
         PROVE  Stored(k)'
    <3>1. k # at /\ Stored(k)
      BY <1>1, <1>2 DEF IInv, SInv, CropSound
    <3>2. RowsOf(k)' = RowsOf(k)
      <4>1. RowsOf(k)' = {i \in 1..(o + n) : output'[i].crop = k}
        BY <2>4 DEF RowsOf
      <4>2. RowsOf(k) = {i \in 1..o : output[i].crop = k}
        BY <2>4 DEF RowsOf
      <4>3. \A i \in 1..o : i \in 1..(o + n)
        BY <2>3
      <4> QED
        BY <2>4, <2>9, <3>1, <4>1, <4>2, <4>3
    <3>3. \A i \in RowsOf(k) : output'[i] = output[i]
      BY <2>4 DEF RowsOf
    <3>4. {output'[i] : i \in RowsOf(k)'} = {output[i] : i \in RowsOf(k)}
      BY <3>2, <3>3
    <3>4a. ~LoneDropped(k)
      <4>1. n # 0 /\ o + n <= MaxDet
        BY <1>1, <1>2, <1>4a, <1>6, <2>3
      <4> QED
        BY <1>4a, <2>3, <4>1 DEF LoneDropped
    <3>5. \A d \in Candidates(k)' :
            \/ d \in ToSet(output')
            \/ SuppressedBy(d, {output'[i] : i \in RowsOf(k)'})
            \/ Cardinality(RowsOf(k)') = MaxDet
      BY <1>3, <2>11, <3>1, <3>2, <3>4, <3>4a DEF Stored
    <3> QED
      BY <3>5 DEF Stored, SuppressedBy
  <2>13. Stored(at)'
    <3>1. RowsOf(at)' = (o + 1)..(o + n)
      <4>1. RowsOf(at)' = {i \in 1..(o + n) : output'[i].crop = at}
        BY <1>1, <2>4 DEF RowsOf
      <4>2. \A i \in 1..(o + n) : i \notin 1..o <=> i \in (o + 1)..(o + n)
        BY <2>3
      <4>3. \A i \in 1..o : output'[i].crop # at
        <5>1. \A i \in 1..o : output'[i].crop \in Int
          BY <1>2, <2>4, FoundAre
        <5> QED
          BY <1>2, <2>8, <5>1
      <4>4. \A i \in (o + 1)..(o + n) : i \in 1..(o + n)
        BY <2>3
      <4> QED
        BY <2>9, <4>1, <4>2, <4>3, <4>4
    <3>2. {output'[i] : i \in RowsOf(at)'} = ToSet(keep)
      <4>1. \A i \in (o + 1)..(o + n) : i - o \in 1..n /\ output'[i] = keep[i - o]
        <5>1. \A i \in (o + 1)..(o + n) : i \in 1..(o + n) /\ i \notin 1..o
          BY <2>3
        <5> QED
          BY <2>6, <5>1
      <4>2. \A i \in 1..n : o + i \in (o + 1)..(o + n) /\ output'[o + i] = keep[i]
        BY <2>3, <2>4
      <4>3. ToSet(keep) = {keep[i] : i \in 1..n}
        BY ONLY <2>4 DEF ToSet
      <4>4. \A y : y \in {output'[i] : i \in (o + 1)..(o + n)} => y \in {keep[i] : i \in 1..n}
        BY ONLY <4>1
      <4>5. \A y : y \in {keep[i] : i \in 1..n} => y \in {output'[i] : i \in (o + 1)..(o + n)}
        BY ONLY <4>2
      <4> QED
        BY ONLY <3>1, <4>3, <4>4, <4>5
    <3>3. Cardinality(RowsOf(at)') = n
      <4>1. o + 1 \in Int /\ o + n \in Int /\ (o + n) - (o + 1) + 1 = n
        BY <2>3
      <4>2. Cardinality((o + 1)..(o + n)) = IF o + 1 > o + n THEN 0 ELSE (o + n) - (o + 1) + 1
        BY <4>1, FS_Interval
      <4> QED
        BY <2>3, <3>1, <4>1, <4>2
    <3>4. \A d \in Candidates(at) : d \in ToSet(keep) \/ SuppressedBy(d, ToSet(keep)) \/ n = MaxDet
      BY <1>1, <1>4, <2>3 DEF NmsSound
    <3>5. \A d \in Candidates(at)' :
            \/ d \in ToSet(output')
            \/ SuppressedBy(d, {output'[i] : i \in RowsOf(at)'})
            \/ Cardinality(RowsOf(at)') = MaxDet
      <4>1. Candidates(at)' = Candidates(at)
        BY <1>1, FoundKept
      <4> QED
        BY <2>11, <3>2, <3>3, <3>4, <4>1
    <3> QED
      BY <3>5 DEF Stored, SuppressedBy
  <2>14. Idling'
    BY <1>1 DEF Idling
  <2>15. Len(output') <= MaxDet
    BY <1>4a, <1>6, <2>3, <2>4
  <2> QED
    BY <1>1, <1>2, <2>1, <2>2, <2>4, <2>5, <2>10, <2>12, <2>13, <2>14, <2>15 DEF IInv, SInv, CropSound, FinalSound
<1> QED
  BY <1>2, <1>4a, <1>5, <1>6, <1>7

\* The last apply_nms begins with every row that was stored.
LEMMA StartFinalInv == ASSUME IInv, StartFinal PROVE IInv'
<1>1. /\ phase = "crop" /\ at = Len(crops) /\ left = {} /\ keep = <<>> /\ phase' = "final" /\ left' = ToSet(output)
      /\ UNCHANGED <<geometry, crops, at, keep, output>>
  BY DEF StartFinal
<1>2. output \in Seq(Found) /\ DOMAIN crops = 1..Len(crops) /\ Len(crops) \in Nat
  BY <1>1 DEF IInv, SInv, BufferTypes, Late
<1>3. GeometrySound'
  BY <1>1, GeometryKept DEF IInv, Late
<1>4. ToSet(output) \subseteq Found /\ Found' = Found /\ input' = input
  BY <1>1, <1>2, FoundKept, GeometryUnchanged DEF ToSet
<1>5. BufferTypes'
  BY <1>1, <1>4 DEF IInv, SInv, BufferTypes, Late
<1>6. \A k \in DOMAIN crops : Stored(k)'
  <2>1. Stored(at) /\ \A k \in 1..(at - 1) : Stored(k)
    BY <1>1 DEF IInv, SInv, CropSound, Idling
  <2>2. \A k \in DOMAIN crops : k = at \/ k \in 1..(at - 1)
    BY <1>1, <1>2
  <2> QED
    BY <1>1, <2>1, <2>2, StoredKept
<1>7. NmsSound(ToSet(output))'
  <2>1. Len(keep') = 0 /\ DOMAIN keep' = {} /\ left' = ToSet(output)'
    BY <1>1
  <2> QED
    BY <2>1, DetectionAssumption DEF NmsSound
<1> QED
  BY <1>1, <1>3, <1>5, <1>6, <1>7 DEF IInv, SInv, CropSound, FinalSound

\* The output is what the last apply_nms has kept.
LEMMA FinishInv == ASSUME IInv, Finish PROVE IInv'
<1>1. phase = "final" /\ left = {} /\ phase' = "done" /\ UNCHANGED <<geometry, crops, seen, at, left, keep, output>>
  BY DEF Finish
<1>2. GeometrySound'
  BY <1>1, GeometryKept DEF IInv, Late
<1>3. Found' = Found /\ input' = input
  BY <1>1, FoundKept, GeometryUnchanged
<1>4. BufferTypes'
  BY <1>1, <1>3 DEF IInv, SInv, BufferTypes, Late
<1>5. \A k \in DOMAIN crops : Stored(k)'
  BY <1>1, StoredKept DEF IInv, SInv, FinalSound
<1>6. NmsSound(ToSet(output))'
  BY <1>1 DEF IInv, SInv, FinalSound, NmsSound, ToSet
<1> QED
  BY <1>1, <1>2, <1>4, <1>5, <1>6 DEF IInv, SInv, CropSound, FinalSound

\* Every step preserves the invariant.
LEMMA StepInv == IInv /\ [Next]_vars => IInv'
<1> SUFFICES ASSUME IInv, [Next]_vars PROVE IInv'
  OBVIOUS
<1>1. CASE UNCHANGED vars
  <2>1. UNCHANGED <<geometry, crops, phase, at, keep, left, output>>
    BY <1>1 DEF vars, geometry
  <2>2. GeometrySound'
    BY <2>1, GeometryUnchanged DEF IInv, GeometrySound
  <2>3. BufferTypes'
    BY <2>1, FoundKept, GeometryUnchanged DEF IInv, SInv, BufferTypes
  <2>4. \A k : Stored(k)' = Stored(k) /\ Candidates(k)' = Candidates(k)
    BY <2>1, StoredKept, FoundKept
  <2>5. ToSet(output)' = ToSet(output) /\ Candidates(at)' = Candidates(at) /\ Stored(at)' = Stored(at)
    BY <2>1, FoundKept, StoredKept DEF ToSet, Stored
  <2>6. NmsSound(ToSet(output))' = NmsSound(ToSet(output)) /\ NmsSound(Candidates(at))' = NmsSound(Candidates(at))
    BY <2>1, <2>5 DEF NmsSound
  <2>7. Idling' = Idling
    BY <2>1 DEF Idling
  <2> QED
    BY <2>1, <2>2, <2>3, <2>4, <2>5, <2>6, <2>7 DEF IInv, SInv, CropSound, FinalSound
<1> QED
  BY <1>1, ConstructInv, PreTransformInv, InferInv, StartCropInv, NmsStepInv, StoreCropInv, StartFinalInv,
     FinishInv DEF Next

\* The invariant holds throughout.
LEMMA Inductive == Spec => []IInv
  BY InitInv, StepInv, PTL DEF Spec

\* For every image, crop size and overlap: the crops a detector is given have the
\* size it expects, they cover the image with the overlap exactly if the overlap is
\* below the crop size along every axis that is cut, the letterboxed copy maps back
\* within a pixel, and pre_transform fails only as stated (SlicingSound).
THEOREM SlicingIsSound == Spec => []SlicingSound
<1>1. IInv => SlicingSound
  BY GeometryImplies DEF IInv, SInv, BufferTypes
<1> QED
  BY <1>1, Inductive, PTL

\* For every set of detections: no two boxes of the answer overlap beyond the
\* threshold, they are sorted, and what is missing was suppressed, came after max_det
\* better ones, or was alone in its crop when the buffer was full (SuppressionSound).
THEOREM SuppressionIsSound == Spec => []SuppressionSound
<1>1. IInv => SuppressionSound
  <2> SUFFICES ASSUME IInv, phase = "done" PROVE SuppressionSound
    BY DEF SuppressionSound
  <2>1. (\A k \in DOMAIN crops : Stored(k)) /\ NmsSound(ToSet(output)) /\ left = {}
    BY DEF IInv, SInv, FinalSound
  <2> QED
    BY <2>1 DEF SuppressionSound, NmsSound, Stored
<1> QED
  BY <1>1, Inductive, PTL

-----------------------------------------------------------------------------
(* Inference.                                                              *)

Queued == [op : {"to_device", "execute"}] \cup [op : {"to_host"}, array : 0..MaxCalls]
ViewRecord == [array : 0..MaxCalls, i : Nat, of : Nat, call : 0..MaxCalls]
UseRecord == [i : Nat, of : Nat, read : Nat, call : 0..MaxCalls]

Configs == [backend : BackendType, cuda : BOOLEAN, model : Models, row : Nat, cast : BOOLEAN]

Sizes ==
  /\ EngineBatch \in Nat /\ EngineRow \in Nat \ {0} /\ MaxRows \in Nat /\ MaxCalls \in Nat
  /\ SahiBatch \in Int /\ (SahiBatch = -1 \/ SahiBatch > 0)

Types ==
  /\ Sizes
  /\ config \in Configs
  /\ pc \in {"new", "idle", "call", "staged", "launched", "returned", "failed"}
  /\ rows \in Nat /\ calls \in 0..MaxCalls
  /\ todo \in Seq(Nat) /\ ask \in Seq(Nat)
  /\ pinned \in Seq(Nat) /\ device \in [input : Seq(Nat), output : Seq(Nat)]
  /\ stream \in Seq(Queued)
  /\ mem \in [0..MaxCalls -> Seq(Nat)]
  /\ got \in 0..MaxCalls
  /\ kept \subseteq ViewRecord
  /\ used \subseteq UseRecord
  /\ refused \in BOOLEAN /\ writer \in [1..EngineBatch -> 0..MaxCalls]
  /\ FixedBatch /\ pc \notin {"new", "failed"} => Len(pinned) = EngineBatch

Working == pc \in {"call", "staged", "launched", "returned"}

(* Nothing is queued, kept or used before the backend is loaded, nothing is used *)
(* while a call is on, and only TensorRT uses rows of another length or refuses;  *)
(* a backend that computes in place never uses the stream.                       *)
Unused ==
  /\ pc = "new" => stream = <<>> /\ kept = {} /\ used = {}
  /\ Working => used = {}
  /\ ~FixedBatch => ~refused /\ Aligned
  /\ ~UsesStream => stream = <<>> /\ pc \notin {"staged", "launched"}

Staged ==
  pc \in {"staged", "launched", "returned"} /\ UsesStream /\ Aligned =>
    /\ Len(ask) <= Len(pinned)
    /\ FixedBatch \/ Len(pinned) = Len(ask)
    /\ \A i \in DOMAIN ask : pinned[i] = ask[i]

(* However many operations of failed calls are ahead of them, the last ones on   *)
(* the stream are this call's, unless it was refused, and those already gone      *)
(* have moved its rows.                                                          *)
InFlight ==
  pc = "launched" /\ ~refused =>
    /\ Len(stream) >= 3 => stream[Len(stream) - 2].op = "to_device"
    /\ Len(stream) >= 2 => stream[Len(stream) - 1].op = "execute"
    /\ Len(stream) >= 1 => stream[Len(stream)].op = "to_host" /\ stream[Len(stream)].array = OutArray
    /\ Len(stream) = 2 => device.input = pinned
    /\ Len(stream) = 1 => device.output = pinned
    /\ Len(stream) = 0 => mem[OutArray] = pinned

Returned ==
  pc = "returned" =>
    /\ stream = <<>> /\ got = OutArray
    /\ UsesStream /\ ~refused => mem[got] = pinned

(* The row a view of TensorRT's array was taken of is in the pinned memory, even  *)
(* if the call was refused, until a later call writes over it.                    *)
StillThere(v) ==
  \/ v.of = Garbage
  \/ v.i \in 1..EngineBatch /\ (writer[v.i] > v.call \/ pinned[v.i] = v.of)

(* In an array of its own, a view still shows the row it was taken of.           *)
Holds(v) ==
  /\ v.call <= calls
  /\ ~FixedBatch => v.array = v.call /\ Row(v.array, v.i) = v.of
  /\ FixedBatch => v.array = 0 /\ (Aligned => StillThere(v))

(* What is read of such a view: ReadsWhatItStored, of one row.                    *)
ReadOk(u) ==
  \/ u.read = u.of
  \/ FixedBatch /\ (writer[u.i] > u.call \/ u.of = Garbage \/ refused \/ ~Aligned)

(* A view is kept over later calls only, and nothing queued will overwrite an     *)
(* array of its own.                                                             *)
KeptSafe ==
  \A v \in kept :
    /\ Working => v.call < calls
    /\ Holds(v)
    /\ ~FixedBatch =>
         \A k \in DOMAIN stream : stream[k].op = "to_host" => stream[k].array # v.array

Inv == Types /\ Unused /\ Staged /\ InFlight /\ Returned /\ AnswersItsInput /\ KeptSafe /\ ReadsWhatItStored

-----------------------------------------------------------------------------
\* The elements of a concatenation.
LEMMA JoinIs ==
  ASSUME NEW S, NEW s \in Seq(S), NEW t \in Seq(S)
  PROVE  /\ s \o t \in Seq(S) /\ Len(s \o t) = Len(s) + Len(t)
         /\ \A i \in 1..Len(s) : (s \o t)[i] = s[i]
         /\ \A i \in 1..Len(t) : (s \o t)[Len(s) + i] = t[i]
OBVIOUS

\* The elements of a subsequence.
LEMMA SubSeqIs ==
  ASSUME NEW S, NEW s \in Seq(S), NEW m \in 1..(Len(s) + 1), NEW n \in (m - 1)..Len(s)
  PROVE  /\ SubSeq(s, m, n) \in Seq(S) /\ Len(SubSeq(s, m, n)) = n - m + 1
         /\ \A i \in 1..(n - m + 1) : SubSeq(s, m, n)[i] = s[m + i - 1]
<1>1. \A i \in m..n : s[i] \in S
  OBVIOUS
<1>2. m \in Int /\ n \in Int
  OBVIOUS
<1> QED
  BY <1>1, <1>2, SubSeqProperties

\* Types of the initial state.
LEMMA InitTypes == BackendInit => Types
<1> SUFFICES ASSUME BackendInit PROVE Types
  OBVIOUS
<1>1. stream \in Seq(Queued) /\ todo \in Seq(Nat) /\ ask \in Seq(Nat) /\ pinned \in Seq(Nat)
  BY DEF BackendInit
<1>2. device \in [input : Seq(Nat), output : Seq(Nat)]
  BY DEF BackendInit
<1>3. mem \in [0..MaxCalls -> Seq(Nat)]
  BY DEF BackendInit
<1>4. config \in Configs
  <2>1. RowSizes \cup {EngineRow} \subseteq Nat
    BY InferenceAssumption
  <2>2. config \in [backend : BackendType, cuda : BOOLEAN, model : Models, row : RowSizes \cup {EngineRow}, cast : BOOLEAN]
    BY DEF BackendInit
  <2> QED
    BY ONLY <2>1, <2>2 DEF Configs
<1>5. refused \in BOOLEAN /\ writer \in [1..EngineBatch -> 0..MaxCalls]
  <2>1. 0 \in 0..MaxCalls
    BY InferenceAssumption
  <2> QED
    BY <2>1 DEF BackendInit
<1>6. Sizes
  BY InferenceAssumption DEF Sizes
<1> QED
  BY <1>1, <1>2, <1>3, <1>4, <1>5, <1>6 DEF BackendInit, Types, Sizes

\* No call has been made.
LEMMA BackendInitInv == BackendInit => Inv
<1> SUFFICES ASSUME BackendInit PROVE Inv
  OBVIOUS
<1> QED
  BY InitTypes DEF BackendInit, Inv, Unused, Staged, InFlight, Returned, AnswersItsInput, KeptSafe, ReadsWhatItStored, Holds, StillThere, Aligned

\* Cutting a chunk off a sequence of rows.
LEMMA NextChunkTypes ==
  ASSUME Sizes, NEW s \in Seq(Nat), calls \in Nat, config \in Configs, NextChunk(s)
  PROVE  /\ ask' \in Seq(Nat) /\ todo' \in Seq(Nat) /\ calls' = calls + 1
<1>1. Chunk(s) \in Nat
  BY DEF Chunk, Sizes
<1>2. Lesser(Chunk(s), Len(s)) \in 0..Len(s)
  BY <1>1 DEF Lesser
<1>3. ask' \in Seq(Nat) /\ Len(ask') \in 0..Len(s)
  BY <1>2, SubSeqIs DEF NextChunk
<1>4. todo' \in Seq(Nat)
  <2>1. Len(ask') + 1 \in 1..(Len(s) + 1) /\ Len(s) \in ((Len(ask') + 1) - 1)..Len(s)
    BY <1>3
  <2> QED
    BY <2>1, SubSeqIs DEF NextChunk
<1> QED
  BY <1>3, <1>4 DEF NextChunk

\* Loading allocates memory nothing refers to yet.
LEMMA LoadInv == ASSUME Inv, Load PROVE Inv'
<1> USE DEF Inv, Types
<1>1. config' \in Configs /\ config'.backend = config.backend /\ config'.row = config.row
  <2>1. config' = config \/ config' = [config EXCEPT !.cuda = FALSE]
    BY DEF Load, LoadTensorRT, LoadTorch, LoadONNXRuntime, CudaOrCpu
  <2> QED
    BY ONLY <2>1, config \in Configs DEF Configs
<1>2. pinned' \in Seq(Nat) /\ device' \in [input : Seq(Nat), output : Seq(Nat)] /\ mem' \in [0..MaxCalls -> Seq(Nat)]
      /\ (FixedBatch => Len(pinned') = EngineBatch)
  <2>1. CASE LoadTensorRT
    <3> DEFINE blank == [i \in 1..EngineBatch |-> Garbage]
    <3>1. blank \in Seq(Nat) /\ Len(blank) = EngineBatch
      BY DEF Garbage, Sizes
    <3> QED
      BY <2>1, <3>1 DEF LoadTensorRT, AllocateBuffers
  <2>2. CASE LoadTorch \/ LoadONNXRuntime
    BY <2>2 DEF LoadTorch, LoadONNXRuntime, FixedBatch
  <2> QED
    BY <2>1, <2>2 DEF Load
<1>3. pc = "new" /\ pc' = "idle" /\ UNCHANGED <<rows, calls, todo, ask, stream, got, kept, used, refused, writer>>
  BY DEF Load, history
<1>4. stream = <<>> /\ kept = {} /\ used = {}
  BY <1>3 DEF Unused, Aligned, Working
<1>5. Types'
  BY <1>1, <1>2, <1>3 DEF FixedBatch
<1>6. Unused'
  BY <1>1, <1>3, <1>4 DEF Unused, Working, FixedBatch, Aligned, UsesStream
<1> QED
  BY <1>3, <1>4, <1>5, <1>6 DEF Staged, InFlight, Returned, AnswersItsInput, KeptSafe, ReadsWhatItStored

\* A backend that fails to load takes no call.
LEMMA LoadRaisesInv == ASSUME Inv, LoadRaises PROVE Inv'
<1> USE DEF Inv, Types
<1>1. pc = "new" /\ pc' = "failed" /\ UNCHANGED <<config, rows, calls, todo, ask, pinned, device, stream, mem, got, kept, used, refused, writer>>
  BY DEF LoadRaises, engine, history
<1>2. stream = <<>> /\ kept = {} /\ used = {}
  BY <1>1 DEF Unused, Aligned, Working
<1>3. Types'
  BY <1>1 DEF FixedBatch
<1> QED
  BY <1>1, <1>2, <1>3 DEF Unused, Staged, InFlight, Returned, AnswersItsInput, KeptSafe, ReadsWhatItStored, UsesStream, FixedBatch, Holds, StillThere, Aligned

\* A call's input rows are new.
LEMMA CallInv == ASSUME Inv, NEW n \in 1..MaxRows, Call(n) PROVE Inv'
<1> USE DEF Inv
<1> DEFINE s == [i \in 1..n |-> rows + i]
<1>1. s \in Seq(Nat)
  BY DEF Sizes, Types
<1>2. NextChunk(s)
  BY DEF Call
<1> HIDE DEF s
<1>3. ask' \in Seq(Nat) /\ todo' \in Seq(Nat) /\ calls' = calls + 1
  BY <1>1, <1>2, NextChunkTypes DEF Types
<1>4. /\ pc = "idle" /\ calls < MaxCalls /\ rows' = rows + n /\ used' = {} /\ pc' = "call"
      /\ UNCHANGED <<config, pinned, device, stream, mem, got, kept, writer>> /\ refused' = FALSE
  BY DEF Call, NextChunk, engine, history
<1>5. Types'
  <2>1. calls' \in 0..MaxCalls
    BY <1>3, <1>4 DEF Sizes, Types
  <2>2. rows' \in Nat
    BY <1>4 DEF Sizes, Types
  <2> QED
    BY <1>3, <1>4, <2>1, <2>2 DEF Types, FixedBatch
<1>6. KeptSafe'
  <2> SUFFICES ASSUME NEW v \in kept PROVE KeptSafe!(v)'
    BY <1>4 DEF KeptSafe, Holds, StillThere, Aligned
  <2>1. v.call \in Nat /\ v.call <= calls /\ calls \in Nat
    BY DEF KeptSafe, Types, ViewRecord, Holds, StillThere, Aligned
  <2> QED
    BY <1>3, <1>4, <2>1 DEF KeptSafe, Row, FixedBatch, Holds, StillThere, Aligned
<1> QED
  BY <1>3, <1>4, <1>5, <1>6 DEF Unused, Staged, InFlight, Returned, AnswersItsInput, ReadsWhatItStored, UsesStream, FixedBatch, Aligned, Working

\* An image without a textured block raises, and nothing is kept of the call.
LEMMA CallFeaturelessInv == ASSUME Inv, CallFeatureless PROVE Inv'
<1>1. used' = {} /\ UNCHANGED <<config, pc, rows, calls, todo, ask, pinned, device, stream, mem, got, kept, refused, writer>>
  BY DEF CallFeatureless, engine, history
<1> QED
  BY <1>1 DEF Inv, Types, FixedBatch, UsesStream, OutArray, Row, Working, Unused, Staged, InFlight, Returned, AnswersItsInput, KeptSafe, ReadsWhatItStored, Holds, StillThere, Aligned

\* The rows of a call are copied to the front of the pinned memory.
LEMMA StageInv == ASSUME Inv, Stage PROVE Inv'
<1> USE DEF Inv
<1>1. /\ pc = "call" /\ UsesStream /\ pc' = "staged"
      /\ UNCHANGED <<config, rows, calls, todo, ask, device, stream, mem, got, kept, used, refused>>
  BY DEF Stage, history
<1>0. /\ ask \in Seq(Nat) /\ pinned \in Seq(Nat) /\ config.row \in Nat /\ EngineBatch \in Nat /\ EngineRow \in Nat \ {0}
      /\ calls \in 0..MaxCalls /\ writer \in [1..EngineBatch -> 0..MaxCalls] /\ config.cast \in BOOLEAN
  BY DEF Types, Sizes, Configs
<1>2. ASSUME FixedBatch
      PROVE  /\ pinned' \in Seq(Nat) /\ Len(pinned') = EngineBatch
             /\ writer' \in [1..EngineBatch -> 0..MaxCalls]
             /\ Aligned => Len(ask) <= EngineBatch /\ \A i \in DOMAIN ask : pinned'[i] = ask[i]
             /\ \A i \in 1..EngineBatch : writer'[i] = calls \/ (writer'[i] = writer[i] /\ pinned'[i] = pinned[i])
  <2>1. Elements \in Nat /\ Len(ask) \in Nat /\ DOMAIN ask = 1..Len(ask)
    BY <1>0 DEF Elements
  <2>2. Elements <= EngineBatch * EngineRow
    BY <1>2 DEF Stage, Fits
  <2>3. Len(pinned) = EngineBatch
    BY <1>1, <1>2 DEF Types
  <2>4. pinned' = [i \in 1..EngineBatch |->
                     IF ~Written(i) THEN pinned[i] ELSE IF Aligned THEN ask[i] ELSE Garbage]
    BY <1>2 DEF Stage
  <2>5. writer' = [i \in 1..EngineBatch |-> IF Written(i) THEN calls ELSE writer[i]]
    BY <1>2 DEF Stage
  <2>6. ASSUME NEW i \in 1..EngineBatch, Aligned
        PROVE  Written(i) <=> i <= Len(ask)
    <3>1. Elements = EngineRow * Len(ask)
      BY <2>6, <1>0, <2>1 DEF Elements, Aligned
    <3>2. CASE i <= Len(ask)
      <4>1. EngineRow * i <= EngineRow * Len(ask)
        <5>1. i \in Int /\ Len(ask) \in Int /\ i <= Len(ask) /\ EngineRow \in Nat
          BY ONLY <1>0, <2>1, <3>2
        <5> QED BY ONLY <5>1, Mul
      <4>2. (i - 1) * EngineRow = EngineRow * i - EngineRow /\ EngineRow * i \in Int
        BY <1>0
      <4> QED
        BY <1>0, <2>1, <3>1, <3>2, <4>1, <4>2 DEF Written
    <3>3. CASE i >= Len(ask) + 1
      <4>1. EngineRow * Len(ask) <= EngineRow * (i - 1)
        <5>1. i - 1 \in Int /\ Len(ask) \in Int /\ Len(ask) <= i - 1 /\ EngineRow \in Nat
          BY ONLY <1>0, <2>1, <3>3
        <5> QED BY ONLY <5>1, Mul
      <4>2. (i - 1) * EngineRow = EngineRow * (i - 1) /\ EngineRow * (i - 1) \in Int
        BY <1>0
      <4> QED
        BY <1>0, <2>1, <3>1, <3>3, <4>1, <4>2 DEF Written
    <3> QED BY <2>1, <3>2, <3>3
  <2>7. Aligned => Len(ask) <= EngineBatch
    <3> SUFFICES ASSUME Aligned, Len(ask) >= EngineBatch + 1 PROVE FALSE
      BY <1>0, <2>1
    <3>1. EngineRow * (EngineBatch + 1) <= EngineRow * Len(ask)
      <4>1. EngineBatch + 1 \in Int /\ Len(ask) \in Int /\ EngineBatch + 1 <= Len(ask) /\ EngineRow \in Nat
        BY ONLY <1>0, <2>1, Len(ask) >= EngineBatch + 1
      <4> QED BY ONLY <4>1, Mul
    <3>2. Elements = EngineRow * Len(ask) /\ EngineRow * (EngineBatch + 1) = EngineBatch * EngineRow + EngineRow
          /\ EngineBatch * EngineRow \in Int
      BY <1>0, <2>1 DEF Elements, Aligned
    <3> QED
      BY <1>0, <2>1, <2>2, <3>1, <3>2
  <2>8. ASSUME NEW i \in 1..EngineBatch
        PROVE  pinned'[i] \in Nat
    <3>1. pinned[i] \in Nat
      BY <1>0, <2>3
    <3>2. Written(i) /\ Aligned => ask[i] \in Nat
      BY <1>0, <2>1, <2>6
    <3> QED
      BY <2>4, <3>1, <3>2 DEF Garbage
  <2>9. pinned' \in [1..EngineBatch -> Nat]
    BY ONLY <2>4, <2>8
  <2>10. pinned' \in Seq(Nat) /\ Len(pinned') = EngineBatch
    BY ONLY <1>0, <2>9
  <2>11. writer' \in [1..EngineBatch -> 0..MaxCalls]
    BY ONLY <1>0, <2>5
  <2>12. Aligned => \A i \in DOMAIN ask : pinned'[i] = ask[i]
    <3> SUFFICES ASSUME Aligned, NEW i \in DOMAIN ask PROVE pinned'[i] = ask[i]
      OBVIOUS
    <3>1. i \in 1..EngineBatch /\ i <= Len(ask)
      BY <1>0, <2>1, <2>7
    <3>2. Written(i)
      BY <2>6, <3>1
    <3> QED
      BY <2>4, <3>1, <3>2
  <2>13. \A i \in 1..EngineBatch : writer'[i] = calls \/ (writer'[i] = writer[i] /\ pinned'[i] = pinned[i])
    BY ONLY <2>4, <2>5
  <2> QED
    BY <2>7, <2>10, <2>11, <2>12, <2>13
<1>2a. ASSUME ~FixedBatch PROVE pinned' = ask /\ writer' = writer
  BY <1>2a DEF Stage
<1>3. Types'
  <2>1. pinned' \in Seq(Nat) /\ writer' \in [1..EngineBatch -> 0..MaxCalls] /\ (FixedBatch => Len(pinned') = EngineBatch)
    BY <1>0, <1>2, <1>2a
  <2> QED
    BY <1>1, <2>1 DEF Types, FixedBatch
<1>4. Staged'
  <2> SUFFICES ASSUME Aligned
               PROVE  /\ Len(ask) <= Len(pinned')
                      /\ FixedBatch \/ Len(pinned') = Len(ask)
                      /\ \A i \in DOMAIN ask : pinned'[i] = ask[i]
    BY <1>1 DEF Staged, FixedBatch, Aligned
  <2> QED
    BY <1>0, <1>2, <1>2a
<1>5. KeptSafe'
  <2> SUFFICES ASSUME NEW v \in kept, FixedBatch, Aligned PROVE StillThere(v)'
    BY <1>1 DEF KeptSafe, Holds, Row, FixedBatch, Working, Aligned
  <2>1. StillThere(v) /\ v.call < calls
    BY <1>1 DEF KeptSafe, Holds, Working
  <2>2. CASE v.of = Garbage
    BY <2>2 DEF StillThere
  <2>3. CASE v.of # Garbage
    <3>1. v.i \in 1..EngineBatch /\ (writer[v.i] > v.call \/ pinned[v.i] = v.of)
      BY <2>1, <2>3 DEF StillThere
    <3>2. writer'[v.i] = calls \/ (writer'[v.i] = writer[v.i] /\ pinned'[v.i] = pinned[v.i])
      BY <1>2, <3>1
    <3>3. v.call \in Nat /\ calls \in Nat
      BY DEF Types, ViewRecord
    <3>4. writer'[v.i] > v.call \/ pinned'[v.i] = v.of
      BY <2>1, <3>1, <3>2, <3>3
    <3> QED
      BY <3>1, <3>4 DEF StillThere
  <2> QED BY <2>2, <2>3
<1>6. Unused' /\ ReadsWhatItStored'
  BY <1>1 DEF Unused, Working, ReadsWhatItStored, UsesStream, FixedBatch, Aligned
<1> QED
  BY <1>1, <1>3, <1>4, <1>5, <1>6 DEF InFlight, Returned, AnswersItsInput

\* A call that raises leaves nothing to be used; what it has queued stays queued.
LEMMA RaisedInv ==
  ASSUME Inv, Raised, UNCHANGED <<config, rows, calls, ask, pinned, device, mem, got, used, refused, writer>>,
         pc \notin {"new", "failed"}, stream' \in Seq(Queued),
         ~UsesStream => stream' = <<>>,
         \A k \in DOMAIN stream' : stream'[k].op = "to_host" => k \in DOMAIN stream /\ stream'[k] = stream[k]
  PROVE  Inv'
<1> USE DEF Inv
<1>1. pc' = "idle" /\ todo' = <<>> /\ kept' \subseteq kept
  BY DEF Raised
<1>2. Types'
  BY <1>1 DEF Types, FixedBatch
<1>3. KeptSafe'
  BY <1>1 DEF KeptSafe, Row, FixedBatch, Working, Holds, StillThere, Aligned
<1> QED
  BY <1>1, <1>2, <1>3 DEF Unused, Staged, InFlight, Returned, AnswersItsInput, ReadsWhatItStored, UsesStream, FixedBatch, Aligned, Working

\* A call that fails to stage raises.
LEMMA StageRaisesInv == ASSUME Inv, StageRaises PROVE Inv'
BY RaisedInv DEF StageRaises, engine, history, Inv, Types, Unused, Aligned, Working

\* A call that fails to run raises.
LEMMA RunRaisesInv == ASSUME Inv, RunRaises PROVE Inv'
BY RaisedInv DEF RunRaises, engine, history, Inv, Types, Unused, Aligned, Working

\* The three operations of a call, in the order they are queued.
LEMMA OperationsAre ==
  ASSUME Types
  PROVE  /\ Operations \in Seq(Queued) /\ Len(Operations) = 3
         /\ Operations[1] \in Queued /\ Operations[3] \in Queued
         /\ Operations[1].op = "to_device" /\ Operations[2].op = "execute"
         /\ Operations[3].op = "to_host" /\ Operations[3].array = OutArray
         /\ OutArray \in 0..MaxCalls
<1>1. OutArray \in 0..MaxCalls
  BY DEF Sizes, Types, OutArray
<1>2. /\ [op |-> "to_device"] \in Queued /\ [op |-> "execute"] \in Queued
      /\ [op |-> "to_host", array |-> OutArray] \in Queued
  BY <1>1 DEF Queued
<1> QED
  BY <1>1, <1>2 DEF Operations

\* A launch puts this call's operations behind those of failed calls.
LEMMA LaunchInv == ASSUME Inv, Launch PROVE Inv'
<1> USE DEF Inv
<1>1. /\ pc = "staged" /\ pc' = "launched" /\ stream' = stream \o Operations
      /\ UNCHANGED <<config, rows, calls, todo, ask, pinned, device, mem, got, kept, used, refused, writer>>
  BY DEF Launch, history
<1>2. /\ stream' \in Seq(Queued) /\ Len(stream') = Len(stream) + 3
      /\ \A k \in 1..Len(stream) : stream'[k] = stream[k]
      /\ \A k \in 1..3 : stream'[Len(stream) + k] = Operations[k]
  <2>1. Operations \in Seq(Queued) /\ Len(Operations) = 3 /\ stream \in Seq(Queued)
    BY OperationsAre DEF Types
  <2> DEFINE ops == Operations
  <2> HIDE DEF ops
  <2>1a. ops = Operations /\ ops \in Seq(Queued)
    BY <2>1 DEF ops
  <2>2. /\ stream \o ops \in Seq(Queued) /\ Len(stream \o ops) = Len(stream) + Len(ops)
        /\ \A i \in 1..Len(stream) : (stream \o ops)[i] = stream[i]
        /\ \A i \in 1..Len(ops) : (stream \o ops)[Len(stream) + i] = ops[i]
    <3>1. ASSUME NEW S, stream \in Seq(S), ops \in Seq(S)
          PROVE  /\ stream \o ops \in Seq(S) /\ Len(stream \o ops) = Len(stream) + Len(ops)
                 /\ \A i \in 1..Len(stream) : (stream \o ops)[i] = stream[i]
                 /\ \A i \in 1..Len(ops) : (stream \o ops)[Len(stream) + i] = ops[i]
      BY ONLY <3>1, JoinIs
    <3> QED
      BY ONLY <2>1, <2>1a, <3>1
  <2> QED
    BY <1>1, <2>1, <2>1a, <2>2
<1>3. Types'
  BY <1>1, <1>2 DEF Types, FixedBatch
<1>4. InFlight'
  <2>1. Len(stream) \in Nat
    BY DEF Types
  <2>2. /\ stream'[Len(stream) + 1].op = "to_device" /\ stream'[Len(stream) + 2].op = "execute"
        /\ stream'[Len(stream) + 3].op = "to_host" /\ stream'[Len(stream) + 3].array = OutArray
    BY <1>2, OperationsAre
  <2> QED
    BY <1>1, <1>2, <2>1, <2>2 DEF InFlight, OutArray, FixedBatch
<1>5. KeptSafe'
  <2> SUFFICES ASSUME NEW v \in kept, ~FixedBatch, NEW k \in DOMAIN stream', stream'[k].op = "to_host"
               PROVE  stream'[k].array # v.array
    BY <1>1 DEF KeptSafe, Row, FixedBatch, Working, Holds, StillThere, Aligned
  <2>1. Len(stream) \in Nat /\ k \in 1..(Len(stream) + 3)
    BY <1>2 DEF Types
  <2>2. CASE k \in 1..Len(stream)
    <3>1. stream'[k] = stream[k] /\ k \in DOMAIN stream
      BY <1>2, <2>2 DEF Types
    <3> QED
      BY <3>1 DEF KeptSafe, Holds, StillThere, Aligned
  <2>3. CASE k \notin 1..Len(stream)
    <3>1. k = Len(stream) + 1 \/ k = Len(stream) + 2 \/ k = Len(stream) + 3
      BY <2>1, <2>3
    <3>2. stream'[k].array = calls
      BY <3>1, <1>2, OperationsAre DEF OutArray
    <3>3. v.array < calls
      BY <1>1 DEF KeptSafe, Working, Holds, StillThere, Aligned
    <3> QED
      BY <3>2, <3>3 DEF Types
  <2> QED
    BY <2>2, <2>3
<1> QED
  BY <1>1, <1>3, <1>4, <1>5 DEF Unused, Staged, Returned, AnswersItsInput, ReadsWhatItStored, UsesStream, FixedBatch, Aligned, Working

\* A refused call has its two copies queued, into TensorRT's array.
LEMMA LaunchRefusedInv == ASSUME Inv, LaunchRefused PROVE Inv'
<1> USE DEF Inv
<1>1. /\ pc = "staged" /\ pc' = "launched" /\ FixedBatch /\ refused' = TRUE
      /\ UNCHANGED <<config, rows, calls, todo, ask, pinned, device, mem, got, kept, used, writer>>
  BY DEF LaunchRefused, history
<1>2. stream' \in Seq(Queued)
  <2>1. Operations[1] \in Queued /\ Operations[3] \in Queued
    <3>1. Types
      BY ONLY Inv DEF Inv
    <3> QED
      BY ONLY <3>1, OperationsAre
  <2>2. <<Operations[1], Operations[3]>> \in Seq(Queued)
    BY <2>1
  <2>3. PICK t \in Seq(Queued) : t = <<Operations[1], Operations[3]>>
    BY <2>2
  <2>4. stream \in Seq(Queued) /\ stream' = stream \o t
    BY <2>3 DEF Types, LaunchRefused
  <2> HIDE DEF Inv
  <2> QED
    BY <2>4, JoinIs
<1>3. Types'
  BY <1>1, <1>2 DEF Types, FixedBatch
<1>4. KeptSafe'
  BY <1>1 DEF KeptSafe, Holds, StillThere, Row, FixedBatch, Working, Aligned
<1> QED
  BY <1>1, <1>3, <1>4 DEF Unused, Staged, InFlight, Returned, AnswersItsInput, ReadsWhatItStored, UsesStream, FixedBatch, Aligned, Working

\* A launch may fail after any number of its operations is queued.
LEMMA LaunchRaisesInv == ASSUME Inv, LaunchRaises PROVE Inv'
<1> USE DEF Inv
<1>1. CASE pc = "launched" /\ stream' = stream
  BY <1>1, RaisedInv DEF LaunchRaises, history, Types, Unused
<1>2. CASE pc = "staged" /\ \E k \in 0..2 : stream' = stream \o SubSeq(Operations, 1, k)
  <2> PICK k \in 0..2 : stream' = stream \o SubSeq(Operations, 1, k)
    BY <1>2
  <2>1. /\ SubSeq(Operations, 1, k) \in Seq(Queued) /\ Len(SubSeq(Operations, 1, k)) = k
        /\ \A i \in 1..k : SubSeq(Operations, 1, k)[i] = Operations[i]
    <3>1. Operations \in Seq(Queued) /\ Len(Operations) = 3
      BY OperationsAre
    <3>2. 1 \in 1..(Len(Operations) + 1) /\ k \in (1 - 1)..Len(Operations)
      BY <3>1
    <3>3. /\ SubSeq(Operations, 1, k) \in Seq(Queued) /\ Len(SubSeq(Operations, 1, k)) = k - 1 + 1
          /\ \A i \in 1..(k - 1 + 1) : SubSeq(Operations, 1, k)[i] = Operations[1 + i - 1]
      BY <3>1, <3>2, SubSeqIs
    <3> QED
      BY <3>3
  <2>2. /\ stream' \in Seq(Queued) /\ Len(stream') = Len(stream) + k
        /\ \A i \in 1..Len(stream) : stream'[i] = stream[i]
        /\ \A i \in 1..k : stream'[Len(stream) + i] = Operations[i]
    <3> HIDE DEF Operations, Inv
    <3>1. stream \in Seq(Queued)
      BY DEF Inv, Types
    <3>2. PICK t \in Seq(Queued) : t = SubSeq(Operations, 1, k)
      BY <2>1
    <3>3. /\ stream \o t \in Seq(Queued) /\ Len(stream \o t) = Len(stream) + Len(t)
          /\ \A i \in 1..Len(stream) : (stream \o t)[i] = stream[i]
          /\ \A i \in 1..Len(t) : (stream \o t)[Len(stream) + i] = t[i]
      BY <3>1, JoinIs
    <3>4. stream' = stream \o t /\ Len(t) = k /\ \A i \in 1..k : t[i] = Operations[i]
      BY <2>1, <3>2
    <3> QED
      BY <3>3, <3>4
  <2>3. ASSUME NEW i \in DOMAIN stream', stream'[i].op = "to_host"
        PROVE  i \in DOMAIN stream /\ stream'[i] = stream[i]
    <3>1. Len(stream) \in Nat /\ i \in 1..(Len(stream) + k)
      BY <2>2 DEF Types
    <3>2. CASE i \in 1..Len(stream)
      BY <2>2, <3>2 DEF Types
    <3>3. CASE i \notin 1..Len(stream)
      <4>1. i = Len(stream) + 1 \/ (i = Len(stream) + 2 /\ k = 2)
        BY <3>1, <3>3
      <4> QED
        BY <2>2, <2>3, <4>1, <3>1, OperationsAre
    <3> QED
      BY <3>2, <3>3
  <2>4. UsesStream
    BY <1>2 DEF Unused, Aligned, Working
  <2> QED
    BY <1>2, <2>2, <2>3, <2>4, RaisedInv DEF LaunchRaises, history
<1> QED
  BY <1>1, <1>2 DEF LaunchRaises

\* The stream takes its operations in order, this call's last.
LEMMA StreamStepInv == ASSUME Inv, StreamStep PROVE Inv'
<1> USE DEF Inv
<1> DEFINE head == Head(stream)
<1>0. stream # <<>> /\ stream' = Tail(stream)
  BY DEF StreamStep, history
<1>1. UNCHANGED <<config, pc, rows, calls, todo, ask, pinned, got, kept, used, refused, writer>>
  BY DEF StreamStep, history
<1>2. /\ head = stream[1] /\ head \in Queued /\ Len(stream) >= 1 /\ Len(stream) \in Nat
      /\ stream' \in Seq(Queued) /\ Len(stream') = Len(stream) - 1
      /\ \A k \in 1..(Len(stream) - 1) : stream'[k] = stream[k + 1]
  BY <1>0 DEF Types
<1> HIDE DEF head
<1>3. /\ head.op = "to_device" => device' = [device EXCEPT !.input = pinned] /\ mem' = mem
      /\ head.op = "execute" => device' = [device EXCEPT !.output = device.input] /\ mem' = mem
      /\ head.op = "to_host" => mem' = [mem EXCEPT ![head.array] = device.output] /\ device' = device
      /\ head.op \in {"to_device", "execute", "to_host"}
      /\ head.op = "to_host" => head.array \in 0..MaxCalls
  <2>1. /\ head.op \in {"to_device", "execute", "to_host"}
        /\ head.op = "to_host" => head.array \in 0..MaxCalls
    BY <1>2 DEF Queued
  <2> QED
    BY <2>1 DEF StreamStep, head
<1>4. device' \in [input : Seq(Nat), output : Seq(Nat)] /\ mem' \in [0..MaxCalls -> Seq(Nat)]
  BY <1>3 DEF Types
<1>5. Types'
  BY <1>1, <1>2, <1>4 DEF Types, FixedBatch
<1>6. pc \notin {"new", "returned"} /\ UsesStream
  BY <1>0 DEF Unused, Returned, Aligned, Working
<1>7. InFlight'
  <2> SUFFICES ASSUME pc = "launched", ~refused PROVE InFlight'
    BY <1>1 DEF InFlight
  <2> DEFINE len == Len(stream)
  <2>0. OutArray' = OutArray /\ OutArray \in 0..MaxCalls
    BY <1>1 DEF Sizes, OutArray, FixedBatch, Types
  <2>1. /\ len >= 3 => stream[len - 2].op = "to_device"
        /\ len >= 2 => stream[len - 1].op = "execute"
        /\ stream[len].op = "to_host" /\ stream[len].array = OutArray
        /\ len = 2 => device.input = pinned
        /\ len = 1 => device.output = pinned
    <3>1. len >= 1 /\ InFlight
      BY <1>2
    <3> QED
      BY ONLY <3>1, pc = "launched", ~refused DEF InFlight
  <2>2. Len(stream') = len - 1 /\ len \in Nat
    BY <1>2
  <2>3. CASE len >= 4
    <3>1. stream'[len - 3] = stream[len - 2] /\ stream'[len - 2] = stream[len - 1] /\ stream'[len - 1] = stream[len]
      <4>1. \A k \in 1..(len - 1) : stream'[k] = stream[k + 1]
        BY <1>2
      <4>2. /\ len - 3 \in 1..(len - 1) /\ len - 2 \in 1..(len - 1) /\ len - 1 \in 1..(len - 1)
            /\ (len - 3) + 1 = len - 2 /\ (len - 2) + 1 = len - 1 /\ (len - 1) + 1 = len
        BY ONLY <2>2, <2>3
      <4> HIDE DEF len
      <4> QED
        BY ONLY <4>1, <4>2
    <3>2. /\ Len(stream') >= 3 /\ Len(stream') - 2 = len - 3 /\ Len(stream') - 1 = len - 2
          /\ Len(stream') = len - 1
      BY <2>2, <2>3
    <3>3. /\ stream'[Len(stream') - 2].op = "to_device" /\ stream'[Len(stream') - 1].op = "execute"
          /\ stream'[Len(stream')].op = "to_host" /\ stream'[Len(stream')].array = OutArray
      BY <2>1, <2>3, <3>1, <3>2
    <3>4. Len(stream') # 2 /\ Len(stream') # 1 /\ Len(stream') # 0
      BY <3>2
    <3> QED
      BY <1>1, <2>0, <3>3, <3>4 DEF InFlight
  <2>4. CASE len = 3
    <3>1. stream'[1] = stream[2] /\ stream'[2] = stream[3] /\ head.op = "to_device"
      BY <1>2, <2>1, <2>4
    <3>2. device'.input = pinned
      BY <1>3, <3>1 DEF Types
    <3>3. Len(stream') = 2
      BY <2>2, <2>4
    <3>4. stream'[1].op = "execute" /\ stream'[2].op = "to_host" /\ stream'[2].array = OutArray
      BY <2>1, <2>4, <3>1
    <3> QED
      BY <1>1, <2>0, <3>2, <3>3, <3>4 DEF InFlight
  <2>5. CASE len = 2
    <3>1. stream'[1] = stream[2] /\ head.op = "execute"
      BY <1>2, <2>1, <2>5
    <3>2. device'.output = pinned
      BY <1>3, <2>1, <2>5, <3>1 DEF Types
    <3>3. Len(stream') = 1
      BY <2>2, <2>5
    <3>4. stream'[1].op = "to_host" /\ stream'[1].array = OutArray
      BY <2>1, <2>5, <3>1
    <3> QED
      BY <1>1, <2>0, <3>2, <3>3, <3>4 DEF InFlight
  <2>6. CASE len = 1
    <3>1. head.op = "to_host" /\ head.array = OutArray
      BY <1>2, <2>1, <2>6
    <3>2. mem'[OutArray] = pinned
      BY <1>3, <2>0, <2>1, <2>6, <3>1 DEF Types
    <3>3. Len(stream') = 0
      BY <2>2, <2>6
    <3> QED
      BY <1>1, <2>0, <3>2, <3>3 DEF InFlight
  <2> QED
    BY <1>2, <2>3, <2>4, <2>5, <2>6
<1>8. KeptSafe'
  <2> SUFFICES ASSUME NEW v \in kept, ~FixedBatch
               PROVE  /\ Row(v.array, v.i)' = v.of
                      /\ \A k \in DOMAIN stream' : stream'[k].op = "to_host" => stream'[k].array # v.array
    BY <1>1 DEF KeptSafe, FixedBatch, Working, Holds, StillThere, Aligned
  <2>1. Row(v.array, v.i) = v.of
    BY DEF KeptSafe, Holds, StillThere, Aligned
  <2>2. \A k \in 1..Len(stream) : stream[k].op = "to_host" => stream[k].array # v.array
    BY DEF KeptSafe, Types, Holds, StillThere, Aligned
  <2>3. v.array \in 0..MaxCalls
    BY DEF Types, ViewRecord
  <2>4. mem'[v.array] = mem[v.array]
    <3>1. head.op = "to_host" => head.array # v.array
      BY <1>2, <2>2
    <3>2. mem \in [0..MaxCalls -> Seq(Nat)]
      BY DEF Types
    <3> QED
      BY <1>3, <2>3, <3>1, <3>2
  <2>5. \A k \in DOMAIN stream' : stream'[k].op = "to_host" => stream'[k].array # v.array
    <3> SUFFICES ASSUME NEW k \in DOMAIN stream', stream'[k].op = "to_host" PROVE stream'[k].array # v.array
      OBVIOUS
    <3>1. k \in 1..(Len(stream) - 1)
      BY <1>2
    <3>2. stream'[k] = stream[k + 1] /\ k + 1 \in 1..Len(stream)
      BY <1>2, <3>1
    <3> QED
      BY <2>2, <3>2
  <2> QED
    BY <2>1, <2>4, <2>5 DEF Row
<1> QED
  BY <1>1, <1>5, <1>6, <1>7, <1>8 DEF Unused, Staged, Returned, AnswersItsInput, ReadsWhatItStored, UsesStream, FixedBatch, Aligned, Working

\* A synchronised stream is empty, so the output is this call's.
LEMMA SynchronizeInv == ASSUME Inv, Synchronize PROVE Inv'
<1> USE DEF Inv
<1>1. /\ pc = "launched" /\ stream = <<>> /\ got' = OutArray /\ pc' = "returned"
      /\ UNCHANGED <<config, rows, calls, todo, ask, pinned, device, stream, mem, kept, used, refused, writer>>
  BY DEF Synchronize, engine, history
<1>2. OutArray \in 0..MaxCalls /\ UNCHANGED OutArray
  BY <1>1 DEF Sizes, OutArray, Types, FixedBatch
<1>3. Types'
  BY <1>1, <1>2 DEF Types, FixedBatch
<1>4. ~refused => mem[OutArray] = pinned
  BY <1>1 DEF InFlight, Types
<1>5. AnswersItsInput'
  <2>1. UsesStream /\ (~FixedBatch => ~refused /\ Aligned)
    BY <1>1 DEF Unused
  <2>2. Aligned => /\ Len(ask) <= Len(pinned) /\ (FixedBatch \/ Len(pinned) = Len(ask))
                   /\ \A i \in DOMAIN ask : pinned[i] = ask[i]
    BY <1>1, <2>1 DEF Staged
  <2> QED
    BY <1>1, <1>2, <1>4, <2>1, <2>2 DEF AnswersItsInput, FixedBatch, Aligned
<1>6. KeptSafe'
  BY <1>1 DEF KeptSafe, Row, FixedBatch, Working, Holds, StillThere, Aligned
<1> QED
  BY <1>1, <1>2, <1>3, <1>5, <1>6 DEF Unused, Staged, InFlight, Returned, ReadsWhatItStored, UsesStream, FixedBatch, Aligned, Working

\* A backend without a stream writes an array of its own.
LEMMA RunInPlaceInv == ASSUME Inv, RunInPlace PROVE Inv'
<1> USE DEF Inv
<1>1. /\ pc = "call" /\ ~UsesStream /\ got' = OutArray /\ pc' = "returned"
      /\ mem' = [mem EXCEPT ![OutArray] = ask]
      /\ UNCHANGED <<config, rows, calls, todo, ask, pinned, device, stream, kept, used, refused, writer>>
  BY DEF RunInPlace, history
<1>2. OutArray = calls /\ calls \in 0..MaxCalls /\ UNCHANGED OutArray /\ ~FixedBatch
  BY <1>1 DEF OutArray, Types, FixedBatch, UsesStream
<1>3. Types'
  BY <1>1, <1>2 DEF Types, FixedBatch
<1>4. AnswersItsInput'
  BY <1>1, <1>2 DEF AnswersItsInput, Types, Aligned, Working
<1>5. KeptSafe'
  <2> SUFFICES ASSUME NEW v \in kept PROVE Row(v.array, v.i)' = v.of
    BY <1>1 DEF KeptSafe, FixedBatch, Working, Holds, StillThere, Aligned
  <2>1. Row(v.array, v.i) = v.of /\ v.array < calls /\ v.array \in 0..MaxCalls
    BY <1>1, <1>2 DEF KeptSafe, Working, Types, ViewRecord, Holds, StillThere, Aligned
  <2>2. mem'[v.array] = mem[v.array]
    BY <1>1, <1>2, <2>1 DEF Types
  <2> QED
    BY <2>1, <2>2 DEF Row
<1>6. stream = <<>>
  BY <1>1 DEF Unused, Aligned, Working
<1> QED
  BY <1>1, <1>2, <1>3, <1>4, <1>5, <1>6 DEF Unused, Staged, InFlight, Returned, ReadsWhatItStored, UsesStream, FixedBatch, Aligned, Working

\* What a call that has returned may be taken to say.
LEMMA ViewsAre ==
  ASSUME Inv, pc = "returned", NEW n \in Nat, n <= Len(mem[got])
  PROVE  /\ Views(n) \subseteq ViewRecord
         /\ \A v \in Views(n) : v.call = calls /\ Holds(v)
<1> USE DEF Inv
<1> SUFFICES ASSUME NEW i \in 1..n
             PROVE  View(i) \in ViewRecord /\ View(i).call = calls /\ Holds(View(i))
  BY DEF Views
<1>1. /\ ask \in Seq(Nat) /\ Len(ask) \in Nat /\ DOMAIN ask = 1..Len(ask) /\ got \in 0..MaxCalls
      /\ mem[got] \in Seq(Nat) /\ calls \in 0..MaxCalls
  <2>1. ask \in Seq(Nat) /\ got \in 0..MaxCalls /\ mem \in [0..MaxCalls -> Seq(Nat)] /\ calls \in 0..MaxCalls
    BY DEF Types
  <2> QED
    BY ONLY <2>1
<1>2. i \in DOMAIN mem[got]
  BY <1>1
<1> DEFINE v == View(i)
<1>3. v.array = got /\ v.i = i /\ v.call = calls /\ v.of = IF i <= Len(ask) THEN ask[i] ELSE Garbage
  BY DEF View
<1>4. i <= Len(ask) => i \in DOMAIN ask /\ ask[i] \in Nat
  BY <1>1
<1>5. v \in ViewRecord
  BY <1>1, <1>4 DEF View, ViewRecord, Garbage
<1> HIDE DEF v
<1>6. ~FixedBatch => v.array = calls /\ Row(v.array, v.i) = v.of
  <2> SUFFICES ASSUME ~FixedBatch PROVE v.array = calls /\ Row(v.array, v.i) = v.of
    OBVIOUS
  <2>1. Len(mem[got]) = Len(ask) /\ \A k \in DOMAIN ask : mem[got][k] = ask[k]
    BY DEF AnswersItsInput, Unused
  <2>2. i <= Len(ask)
    BY <1>1, <2>1
  <2>3. got = calls
    BY DEF Returned, OutArray
  <2> QED
    BY <1>2, <1>3, <1>4, <2>1, <2>2, <2>3 DEF Row
<1>7. FixedBatch => v.array = 0 /\ (Aligned => StillThere(v))
  <2> SUFFICES ASSUME FixedBatch PROVE v.array = 0 /\ (Aligned => StillThere(v))
    OBVIOUS
  <2>1. v.array = 0
    BY <1>3 DEF Returned, OutArray
  <2>2. ASSUME Aligned, i <= Len(ask) PROVE StillThere(v)
    <3>1. Len(ask) <= Len(pinned) /\ \A k \in DOMAIN ask : pinned[k] = ask[k]
      BY <2>2 DEF Staged, UsesStream
    <3>2. Len(pinned) = EngineBatch /\ EngineBatch \in Nat
      BY DEF Types, Sizes
    <3>3. i \in 1..EngineBatch
      BY <1>1, <2>2, <3>1, <3>2
    <3> QED
      BY <1>3, <1>4, <2>2, <3>1, <3>3 DEF StillThere
  <2>3. ~(i <= Len(ask)) => StillThere(v)
    BY <1>3 DEF StillThere
  <2> QED BY <2>1, <2>2, <2>3
<1>8. Holds(v)
  BY <1>1, <1>3, <1>6, <1>7 DEF Holds
<1> QED
  BY <1>3, <1>5, <1>8 DEF v

\* What is read of kept and of new views is sound.
LEMMA ReadSound ==
  ASSUME Inv, pc = "returned", NEW n \in Nat, n <= Len(mem[got]), NEW K \in SUBSET kept
  PROVE  /\ Read(K \cup Views(n)) \subseteq UseRecord
         /\ \A u \in Read(K \cup Views(n)) : ReadOk(u)
<1> USE DEF Inv
<1> SUFFICES ASSUME NEW v \in K \cup Views(n)
             PROVE  LET u == [i |-> v.i, of |-> v.of, read |-> Row(v.array, v.i), call |-> v.call]
                    IN  u \in UseRecord /\ ReadOk(u)
  <2> HIDE DEF Inv
  <2> QED BY DEF Read
<1>1. v \in ViewRecord
  BY ViewsAre DEF Types
<1>2. Row(v.array, v.i) \in Nat
  <2>1. v.array \in 0..MaxCalls
    BY ONLY <1>1 DEF ViewRecord
  <2>2. mem[v.array] \in Seq(Nat)
    BY <2>1 DEF Types
  <2>3. \A i \in DOMAIN mem[v.array] : mem[v.array][i] \in Nat
    BY ONLY <2>2
  <2> QED
    BY ONLY <2>3 DEF Row, Garbage
<1>3. Holds(v)
  BY ViewsAre DEF KeptSafe
<1>4. \/ Row(v.array, v.i) = v.of
      \/ FixedBatch /\ (writer[v.i] > v.call \/ v.of = Garbage \/ refused \/ ~Aligned)
  <2> SUFFICES ASSUME FixedBatch, Aligned, ~refused, v.of # Garbage, ~(writer[v.i] > v.call)
               PROVE  Row(v.array, v.i) = v.of
    BY <1>3 DEF Holds
  <2>1. v.array = 0 /\ v.i \in 1..EngineBatch /\ pinned[v.i] = v.of
    BY <1>3 DEF Holds, StillThere
  <2>2. got = 0 /\ mem[got] = pinned
    BY DEF Returned, OutArray, UsesStream
  <2>3. DOMAIN pinned = 1..EngineBatch
    BY DEF Types
  <2> QED
    BY <2>1, <2>2, <2>3 DEF Row
<1> QED
  BY <1>1, <1>2, <1>4 DEF UseRecord, ViewRecord, ReadOk

\* A model call that is over, having kept K and based its answer on U.
LEMMA CallOver ==
  ASSUME Inv, pc = "returned", pc' = "idle",
         UNCHANGED <<config, rows, calls, todo, ask, pinned, device, stream, mem, got, refused, writer>>,
         NEW n \in Nat, n <= Len(mem[got]),
         NEW K \in SUBSET kept,
         kept' \subseteq kept \cup Views(n),
         used' \subseteq Read(K \cup Views(n))
  PROVE  Inv'
<1> USE DEF Inv
<1>1. used' \subseteq UseRecord /\ ReadsWhatItStored'
  <2>1. used' \subseteq UseRecord /\ \A u \in used' : ReadOk(u)
    <3> HIDE DEF Inv
    <3> QED BY ReadSound
  <2> QED
    BY <2>1 DEF ReadsWhatItStored, ReadOk, FixedBatch, Aligned
<1>2. kept' \subseteq ViewRecord
  BY ViewsAre DEF Types
<1>3. Types'
  BY <1>1, <1>2 DEF Types, FixedBatch
<1>4. KeptSafe'
  <2>1. \A v \in kept \cup Views(n) : Holds(v)
    BY ViewsAre DEF KeptSafe
  <2>2. \A v : Holds(v) => Holds(v)'
    BY DEF Holds, FixedBatch, Row, Aligned, StillThere
  <2>3. stream' = <<>>
    BY DEF Returned
  <2> QED
    BY <2>1, <2>2, <2>3 DEF KeptSafe, Working
<1> QED
  BY <1>1, <1>3, <1>4 DEF Unused, Staged, InFlight, Returned, AnswersItsInput, UsesStream, FixedBatch, Aligned, Working

\* The embedding model keeps the rows of earlier calls beside the new ones.
LEMMA PostEmbeddingInv == ASSUME Inv, PostEmbedding PROVE Inv'
<1> DEFINE most == Lesser(Len(ask), Len(mem[got]))
<1>0. PICK n \in 1..most :
       IF Cardinality(kept \cup Views(n)) = LastId
       THEN kept' = {} /\ used' = Read(kept \cup Views(n))
       ELSE n = most /\ kept' = kept \cup Views(n) /\ used' = {}
  BY DEF PostEmbedding
<1>1. /\ pc = "returned" /\ pc' = "idle"
      /\ UNCHANGED <<config, rows, calls, todo, ask, pinned, device, stream, mem, got, refused, writer>>
  BY DEF PostEmbedding, engine, history
<1>2. n \in Nat /\ n <= Len(mem[got])
  <2>1. Len(ask) \in Nat /\ Len(mem[got]) \in Nat
    BY DEF Inv, Types
  <2> QED
    BY <2>1 DEF Lesser
<1>3. kept' \subseteq kept \cup Views(n) /\ used' \subseteq Read(kept \cup Views(n))
  BY <1>0
<1> QED
  BY <1>1, <1>2, <1>3, CallOver

\* The blur model uses the rows of this call.
LEMMA PostBlurInv == ASSUME Inv, PostBlur PROVE Inv'
<1>1. /\ pc = "returned" /\ pc' = "idle"
      /\ UNCHANGED <<config, rows, calls, todo, ask, pinned, device, stream, mem, got, kept, refused, writer>>
      /\ used' = Read(Views(Len(mem[got])))
  BY DEF PostBlur, engine, history
<1>2. Len(mem[got]) \in Nat /\ Len(mem[got]) <= Len(mem[got])
  BY DEF Inv, Types
<1>3. used' \subseteq Read({} \cup Views(Len(mem[got])))
  BY <1>1 DEF Read
<1>4. kept' \subseteq kept \cup Views(Len(mem[got])) /\ {} \in SUBSET kept
  BY <1>1
<1> QED
  BY <1>1, <1>2, <1>3, <1>4, CallOver

\* SAHI's last chunk is read with the chunks held back.
LEMMA PostSahiInv == ASSUME Inv, PostSahi PROVE Inv'
<1>1. /\ pc = "returned" /\ pc' = "idle"
      /\ UNCHANGED <<config, rows, calls, todo, ask, pinned, device, stream, mem, got, refused, writer>>
      /\ used' \subseteq Read(kept \cup Views(Len(mem[got])))
      /\ kept' = {}
  BY DEF PostSahi, engine, history
<1>2. Len(mem[got]) \in Nat /\ Len(mem[got]) <= Len(mem[got])
  BY DEF Inv, Types
<1>3. kept' \subseteq kept \cup Views(Len(mem[got])) /\ kept \in SUBSET kept
  BY <1>1
<1> QED
  BY <1>1, <1>2, <1>3, CallOver

\* The detector uses the rows of this call.
LEMMA PostYoloInv == ASSUME Inv, PostYolo PROVE Inv'
<1>1. /\ pc = "returned" /\ pc' = "idle"
      /\ UNCHANGED <<config, rows, calls, todo, ask, pinned, device, stream, mem, got, kept, refused, writer>>
      /\ used' \subseteq Read(Views(Len(mem[got])))
  BY DEF PostYolo, engine, history
<1>2. Len(mem[got]) \in Nat /\ Len(mem[got]) <= Len(mem[got])
  BY DEF Inv, Types
<1>3. used' \subseteq Read({} \cup Views(Len(mem[got])))
  BY <1>1 DEF Read
<1>4. kept' \subseteq kept \cup Views(Len(mem[got])) /\ {} \in SUBSET kept
  BY <1>1
<1> QED
  BY <1>1, <1>2, <1>3, <1>4, CallOver

\* A chunk that is not the last is held and the next one is asked for.
LEMMA PostChunkInv == ASSUME Inv, PostChunk PROVE Inv'
<1>0. Len(mem[got]) \in Nat /\ Len(mem[got]) <= Len(mem[got]) /\ pc = "returned"
  BY DEF Inv, Types, PostChunk
<1>3. /\ Views(Len(mem[got])) \subseteq ViewRecord
      /\ \A v \in Views(Len(mem[got])) : v.call = calls /\ Holds(v)
  BY <1>0, ViewsAre
<1> USE DEF Inv
<1>1. /\ pc = "returned" /\ pc' = "call" /\ calls < MaxCalls
      /\ kept' = kept \cup Views(Len(mem[got]))
      /\ UNCHANGED <<config, rows, pinned, device, stream, mem, got, used, writer>> /\ refused' = FALSE
  BY DEF PostChunk, NextChunk, engine, history
<1>2. ask' \in Seq(Nat) /\ todo' \in Seq(Nat) /\ calls' = calls + 1
  <2>1. NextChunk(todo)
    BY DEF PostChunk
  <2> QED
    BY <2>1, NextChunkTypes DEF Types
<1>4. Types'
  <2>1. kept' \subseteq ViewRecord
    BY <1>1, <1>3 DEF Types
  <2>2. calls' \in 0..MaxCalls
    BY <1>1, <1>2 DEF Sizes, Types
  <2> QED
    BY <1>1, <1>2, <2>1, <2>2 DEF Types, FixedBatch
<1>5. KeptSafe'
  <2>1. ASSUME NEW v \in kept \cup Views(Len(mem[got]))
        PROVE  v.call < calls' /\ Holds(v)'
    <3>1. calls \in Nat /\ v \in ViewRecord /\ v.call \in Nat
      BY <1>1, <1>3 DEF Types, ViewRecord
    <3>2. v.call <= calls /\ Holds(v)
      BY <1>3, <3>1 DEF KeptSafe, Holds
    <3>3. v.call < calls' /\ v.call <= calls'
      BY <1>2, <3>1, <3>2
    <3>4. Holds(v)'
      BY <1>1, <3>2, <3>3 DEF Holds, FixedBatch, Row, Aligned, StillThere
    <3> QED BY <3>3, <3>4
  <2>2. stream' = <<>>
    BY <1>1 DEF Returned
  <2> QED
    BY <1>1, <2>1, <2>2 DEF KeptSafe
<1>6. used' = {}
  BY <1>1 DEF Unused, Working
<1> QED
  BY <1>1, <1>4, <1>5, <1>6 DEF Unused, Staged, InFlight, Returned, AnswersItsInput, ReadsWhatItStored, UsesStream, FixedBatch, Aligned, Working

\* Every step preserves the invariant.
LEMMA NextInv == Inv /\ [BackendNext]_backendVars => Inv'
<1> SUFFICES ASSUME Inv, [BackendNext]_backendVars PROVE Inv'
  OBVIOUS
<1>1. CASE UNCHANGED backendVars
  <2>1. Types'
    BY <1>1 DEF backendVars, history, Inv, Types, FixedBatch
  <2>2. Unused' /\ Staged' /\ InFlight' /\ Returned'
    BY <1>1 DEF backendVars, history, Inv, Unused, Staged, InFlight, Returned, UsesStream, FixedBatch, OutArray, Aligned, Working
  <2>3. AnswersItsInput' /\ ReadsWhatItStored'
    BY <1>1 DEF backendVars, history, Inv, AnswersItsInput, ReadsWhatItStored, FixedBatch, Aligned, Working
  <2>4. KeptSafe'
    BY <1>1 DEF backendVars, history, Inv, KeptSafe, Working, FixedBatch, Row, Holds, StillThere, Aligned
  <2> QED
    BY <2>1, <2>2, <2>3, <2>4 DEF Inv
<1>2. CASE BackendNext
  BY <1>2, LoadInv, LoadRaisesInv, CallInv, CallFeaturelessInv, StageInv, StageRaisesInv, LaunchInv,
     LaunchRefusedInv, StreamStepInv,
     SynchronizeInv, LaunchRaisesInv, RunInPlaceInv, RunRaisesInv, PostEmbeddingInv, PostBlurInv, PostChunkInv,
     PostSahiInv, PostYoloInv DEF BackendNext
<1> QED
  BY <1>1, <1>2

\* The invariant holds throughout, for every batch size and number of calls.
THEOREM InferenceInvariant == BackendSpec => []Inv
BY BackendInitInv, NextInv, PTL DEF BackendSpec

\* A model answers about the rows it was just given, not about what an earlier
\* or a failed call left in the buffers; a TensorRT engine does if it enqueued the
\* call and the rows are as long as its own (AnswersItsInput).
THEOREM AnswersAreThisCalls == BackendSpec => []AnswersItsInput
<1>1. Inv => AnswersItsInput
  BY DEF Inv
<1> QED
  BY <1>1, InferenceInvariant, PTL

\* A result row read late is the row that was stored; in TensorRT's one host array,
\* until a later call writes over it (ReadsWhatItStored).
THEOREM ReadsAreStored == BackendSpec => []ReadsWhatItStored
<1>1. Inv => ReadsWhatItStored
  BY DEF Inv
<1> QED
  BY <1>1, InferenceInvariant, PTL
=============================================================================
