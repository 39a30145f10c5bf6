------------------------ MODULE ImageResizerProofs ------------------------
(***************************************************************************)
(* Proofs about the image resizer, for every bound, every size of the      *)
(* picture and each of the eight orientations: how large the result is,    *)
(* that each cell of it is painted once, and that it stands upright.       *)
(*                                                                         *)
(* The transforms are computed once and for all (Transforms): what is left *)
(* of them are eight ways to place a cell (Lands) and their inverses       *)
(* (Comes).                                                                *)
(***************************************************************************)
EXTENDS ImageResizer, TLAPS

(***************************************************************************)
(* Where the cells go                                                      *)
(***************************************************************************)
\* The six numbers of an affine transform.
Affine(t, a, b, c, d, tx, ty) ==
    /\ DOMAIN t = {"a", "b", "c", "d", "tx", "ty"}
    /\ t.a = a /\ t.b = b /\ t.c = c /\ t.d = d /\ t.tx = tx /\ t.ty = ty

\* What the operations of Quartz make of the six numbers.
LEMMA Operations ==
    ASSUME NEW t, NEW a, NEW b, NEW c, NEW d, NEW tx, NEW ty, Affine(t, a, b, c, d, tx, ty)
    PROVE  /\ \A x, y : Affine(Translate(t, x, y), a, b, c, d,
                               a * x + c * y + tx, b * x + d * y + ty)
           /\ Affine(FlipX(t), -a, -b, c, d, tx, ty)
           /\ Affine(HalfTurn(t), -a, -b, -c, -d, tx, ty)
           /\ Affine(QuarterLeft(t), c, d, -a, -b, tx, ty)
           /\ Affine(QuarterRight(t), -c, -d, a, b, tx, ty)
<1>1. ASSUME NEW x, NEW y
      PROVE  Affine(Translate(t, x, y), a, b, c, d, a * x + c * y + tx, b * x + d * y + ty)
  BY DEF Translate, Affine
<1>2. Affine(FlipX(t), -a, -b, c, d, tx, ty)
  BY DEF FlipX, Affine
<1>3. Affine(HalfTurn(t), -a, -b, -c, -d, tx, ty)
  BY DEF HalfTurn, Affine
<1>4. Affine(QuarterLeft(t), c, d, -a, -b, tx, ty)
  BY DEF QuarterLeft, Affine
<1>5. Affine(QuarterRight(t), -c, -d, a, b, tx, ty)
  BY DEF QuarterRight, Affine
<1> QED BY <1>1, <1>2, <1>3, <1>4, <1>5

\* The transform of each orientation, for a picture of W by H half cells.
LEMMA Transforms ==
    ASSUME NEW W \in Int, NEW H \in Int
    PROVE  /\ Affine(TransformForOrientation("Up", W, H), 1, 0, 0, 1, 0, 0)
           /\ Affine(TransformForOrientation("UpMirrored", W, H), -1, 0, 0, 1, W, 0)
           /\ Affine(TransformForOrientation("Down", W, H), -1, 0, 0, -1, W, H)
           /\ Affine(TransformForOrientation("DownMirrored", W, H), 1, 0, 0, -1, 0, H)
           /\ Affine(TransformForOrientation("Left", W, H), 0, 1, -1, 0, W, 0)
           /\ Affine(TransformForOrientation("LeftMirrored", W, H), 0, -1, -1, 0, W, H)
           /\ Affine(TransformForOrientation("Right", W, H), 0, -1, 1, 0, 0, H)
           /\ Affine(TransformForOrientation("RightMirrored", W, H), 0, 1, 1, 0, 0, 0)
<1>1. Affine(Identity, 1, 0, 0, 1, 0, 0)
  BY DEF Identity, Affine
<1>2. \A x, y \in Int : Affine(Translate(Identity, x, y), 1, 0, 0, 1, x, y)
  <2> TAKE x, y \in Int
  <2>1. Affine(Translate(Identity, x, y), 1, 0, 0, 1, 1 * x + 0 * y + 0, 0 * x + 1 * y + 0)
    BY <1>1, Operations
  <2>2. 1 * x + 0 * y + 0 = x /\ 0 * x + 1 * y + 0 = y
    OBVIOUS
  <2> QED BY <2>1, <2>2, Zenon
<1>3. /\ -0 = 0
      /\ -(-1) = 1
      /\ 1 * W + 0 * 0 + 0 = W
      /\ 0 * W + 1 * 0 + 0 = 0
      /\ (-1) * W + 0 * 0 + W = 0
      /\ 0 * W + (-1) * 0 + H = H
      /\ 0 * H + (-1) * 0 + W = W
      /\ 1 * H + 0 * 0 + 0 = H
      /\ 0 * H + 1 * 0 + 0 = 0
      /\ (-1) * H + 0 * 0 + H = 0
  <2>1. -0 = 0 /\ -(-1) = 1
    <3>1. (\A x \in Int : -(-x) = x) /\ 1 \in Int
      OBVIOUS
    <3>2. \A x \in Int : x + x = x => -x = x
      OBVIOUS
    <3>3. 0 \in Int /\ 0 + 0 = 0
      OBVIOUS
    <3> QED BY <3>1, <3>2, <3>3, Zenon
  <2>2. 1 * W + 0 * 0 + 0 = W /\ 0 * W + 1 * 0 + 0 = 0
    OBVIOUS
  <2>3. (-1) * W + 0 * 0 + W = 0 /\ 0 * W + (-1) * 0 + H = H
    OBVIOUS
  <2>4. 0 * H + (-1) * 0 + W = W /\ 1 * H + 0 * 0 + 0 = H
    OBVIOUS
  <2>5. 0 * H + 1 * 0 + 0 = 0 /\ (-1) * H + 0 * 0 + H = 0
    OBVIOUS
  <2> QED BY <2>1, <2>2, <2>3, <2>4, <2>5, Zenon
<1>4. Affine(HalfTurn(Translate(Identity, W, H)), -1, 0, 0, -1, W, H)
  <2>1. Affine(HalfTurn(Translate(Identity, W, H)), -1, -0, -0, -1, W, H)
    BY <1>2, Operations
  <2> QED BY <2>1, <1>3, Zenon
<1>5. Affine(QuarterLeft(Translate(Identity, W, 0)), 0, 1, -1, 0, W, 0)
  <2>1. Affine(QuarterLeft(Translate(Identity, W, 0)), 0, 1, -1, -0, W, 0)
    BY <1>2, <1>3, Operations
  <2> QED BY <2>1, <1>3, Zenon
<1>6. Affine(QuarterRight(Translate(Identity, 0, H)), 0, -1, 1, 0, 0, H)
  <2>1. Affine(QuarterRight(Translate(Identity, 0, H)), -0, -1, 1, 0, 0, H)
    BY <1>2, <1>3, Operations
  <2> QED BY <2>1, <1>3, Zenon
<1>7. ASSUME NEW t, NEW x, NEW a, NEW b, NEW c, NEW d, NEW tx, NEW ty,
             Affine(t, a, b, c, d, tx, ty)
      PROVE  Affine(FlipX(Translate(t, x, 0)), -a, -b, c, d,
                    a * x + c * 0 + tx, b * x + d * 0 + ty)
  <2>1. Affine(Translate(t, x, 0), a, b, c, d, a * x + c * 0 + tx, b * x + d * 0 + ty)
    BY <1>7, Operations
  <2> QED BY <2>1, Operations
<1>8. Affine(FlipX(Translate(Identity, W, 0)), -1, 0, 0, 1, W, 0)
  BY <1>1, <1>3, <1>7
<1>9. Affine(FlipX(Translate(HalfTurn(Translate(Identity, W, H)), W, 0)), 1, 0, 0, -1, 0, H)
  BY <1>3, <1>4, <1>7
<1>10. Affine(FlipX(Translate(QuarterLeft(Translate(Identity, W, 0)), H, 0)), 0, -1, -1, 0, W, H)
  BY <1>3, <1>5, <1>7
<1>11. Affine(FlipX(Translate(QuarterRight(Translate(Identity, 0, H)), H, 0)), 0, 1, 1, 0, 0, 0)
  BY <1>3, <1>6, <1>7
<1> QED BY <1>1, <1>4, <1>5, <1>6, <1>8, <1>9, <1>10, <1>11 DEF TransformForOrientation, Turned

\* Where a stored cell goes, orientation by orientation.
Lands(o, w, h, row, col) ==
    CASE o = "Up"            -> [col |-> col, row |-> row]
      [] o = "UpMirrored"    -> [col |-> w - 1 - col, row |-> row]
      [] o = "Down"          -> [col |-> w - 1 - col, row |-> h - 1 - row]
      [] o = "DownMirrored"  -> [col |-> col, row |-> h - 1 - row]
      [] o = "Left"          -> [col |-> row, row |-> h - 1 - col]
      [] o = "LeftMirrored"  -> [col |-> row, row |-> col]
      [] o = "Right"         -> [col |-> w - 1 - row, row |-> col]
      [] o = "RightMirrored" -> [col |-> w - 1 - row, row |-> h - 1 - col]

\* The transforms and the halves of cells come to that.
LEMMA CellsLand ==
    ASSUME NEW o \in Orientation, NEW w \in Nat, NEW h \in Nat, NEW row \in Nat, NEW col \in Nat
    PROVE  DrawnAt(o, w, h, row, col) = Lands(o, w, h, row, col)
<1>0. 2 * w \in Int /\ 2 * h \in Int
  OBVIOUS
<1>9. \A n \in Int : (2 * n) \div 2 = n
  OBVIOUS
<1>1. CASE o = "Up"
  <2>1. DrawnHeight(o, w, h) = h /\ Lands(o, w, h, row, col) = [col |-> col, row |-> row]
    BY <1>1 DEF DrawnHeight, DrawTransposed, Lands
  <2>2. Affine(TransformForOrientation(o, 2 * w, 2 * h), 1, 0, 0, 1, 0, 0)
    BY <1>0, <1>1, Transforms
  <2>3. 1 * (2 * col + 1) + 0 * (2 * (h - row) - 1) + 0 - 1 = 2 * (col)
    OBVIOUS
  <2>4. 0 * (2 * col + 1) + 1 * (2 * (h - row) - 1) + 0 + 1 = 2 * (h - row)
    OBVIOUS
  <2>5. col \in Int /\ h - row \in Int /\ h - (h - row) = row
    OBVIOUS
  <2>6. DrawnAt(o, w, h, row, col) = [col |-> col, row |-> h - (h - row)]
    BY <2>1, <2>2, <2>3, <2>4, <2>5, <1>9 DEF DrawnAt, Affine
  <2> QED BY <2>1, <2>5, <2>6
<1>2. CASE o = "UpMirrored"
  <2>1. /\ DrawnHeight(o, w, h) = h
        /\ Lands(o, w, h, row, col) = [col |-> w - 1 - col, row |-> row]
    BY <1>2 DEF DrawnHeight, DrawTransposed, Lands
  <2>2. Affine(TransformForOrientation(o, 2 * w, 2 * h), -1, 0, 0, 1, 2 * w, 0)
    BY <1>0, <1>2, Transforms
  <2>3. (-1) * (2 * col + 1) + 0 * (2 * (h - row) - 1) + 2 * w - 1 = 2 * (w - 1 - col)
    OBVIOUS
  <2>4. 0 * (2 * col + 1) + 1 * (2 * (h - row) - 1) + 0 + 1 = 2 * (h - row)
    OBVIOUS
  <2>5. w - 1 - col \in Int /\ h - row \in Int /\ h - (h - row) = row
    OBVIOUS
  <2>6. DrawnAt(o, w, h, row, col) = [col |-> w - 1 - col, row |-> h - (h - row)]
    BY <2>1, <2>2, <2>3, <2>4, <2>5, <1>9 DEF DrawnAt, Affine
  <2> QED BY <2>1, <2>5, <2>6
<1>3. CASE o = "Down"
  <2>1. /\ DrawnHeight(o, w, h) = h
        /\ Lands(o, w, h, row, col) = [col |-> w - 1 - col, row |-> h - 1 - row]
    BY <1>3 DEF DrawnHeight, DrawTransposed, Lands
  <2>2. Affine(TransformForOrientation(o, 2 * w, 2 * h), -1, 0, 0, -1, 2 * w, 2 * h)
    BY <1>0, <1>3, Transforms
  <2>3. (-1) * (2 * col + 1) + 0 * (2 * (h - row) - 1) + 2 * w - 1 = 2 * (w - 1 - col)
    OBVIOUS
  <2>4. 0 * (2 * col + 1) + (-1) * (2 * (h - row) - 1) + 2 * h + 1 = 2 * (row + 1)
    OBVIOUS
  <2>5. w - 1 - col \in Int /\ row + 1 \in Int /\ h - (row + 1) = h - 1 - row
    OBVIOUS
  <2>6. DrawnAt(o, w, h, row, col) = [col |-> w - 1 - col, row |-> h - (row + 1)]
    BY <2>1, <2>2, <2>3, <2>4, <2>5, <1>9 DEF DrawnAt, Affine
  <2> QED BY <2>1, <2>5, <2>6
<1>4. CASE o = "DownMirrored"
  <2>1. /\ DrawnHeight(o, w, h) = h
        /\ Lands(o, w, h, row, col) = [col |-> col, row |-> h - 1 - row]
    BY <1>4 DEF DrawnHeight, DrawTransposed, Lands
  <2>2. Affine(TransformForOrientation(o, 2 * w, 2 * h), 1, 0, 0, -1, 0, 2 * h)
    BY <1>0, <1>4, Transforms
  <2>3. 1 * (2 * col + 1) + 0 * (2 * (h - row) - 1) + 0 - 1 = 2 * (col)
    OBVIOUS
  <2>4. 0 * (2 * col + 1) + (-1) * (2 * (h - row) - 1) + 2 * h + 1 = 2 * (row + 1)
    OBVIOUS
  <2>5. col \in Int /\ row + 1 \in Int /\ h - (row + 1) = h - 1 - row
    OBVIOUS
  <2>6. DrawnAt(o, w, h, row, col) = [col |-> col, row |-> h - (row + 1)]
    BY <2>1, <2>2, <2>3, <2>4, <2>5, <1>9 DEF DrawnAt, Affine
  <2> QED BY <2>1, <2>5, <2>6
<1>5. CASE o = "Left"
  <2>1. /\ DrawnHeight(o, w, h) = w
        /\ Lands(o, w, h, row, col) = [col |-> row, row |-> h - 1 - col]
    BY <1>5 DEF DrawnHeight, DrawTransposed, Lands
  <2>2. Affine(TransformForOrientation(o, 2 * w, 2 * h), 0, 1, -1, 0, 2 * w, 0)
    BY <1>0, <1>5, Transforms
  <2>3. 0 * (2 * col + 1) + (-1) * (2 * (w - row) - 1) + 2 * w - 1 = 2 * (row)
    OBVIOUS
  <2>4. 1 * (2 * col + 1) + 0 * (2 * (w - row) - 1) + 0 + 1 = 2 * (col + 1)
    OBVIOUS
  <2>5. row \in Int /\ col + 1 \in Int /\ h - (col + 1) = h - 1 - col
    OBVIOUS
  <2>6. DrawnAt(o, w, h, row, col) = [col |-> row, row |-> h - (col + 1)]
    BY <2>1, <2>2, <2>3, <2>4, <2>5, <1>9 DEF DrawnAt, Affine
  <2> QED BY <2>1, <2>5, <2>6
<1>6. CASE o = "LeftMirrored"
  <2>1. DrawnHeight(o, w, h) = w /\ Lands(o, w, h, row, col) = [col |-> row, row |-> col]
    BY <1>6 DEF DrawnHeight, DrawTransposed, Lands
  <2>2. Affine(TransformForOrientation(o, 2 * w, 2 * h), 0, -1, -1, 0, 2 * w, 2 * h)
    BY <1>0, <1>6, Transforms
  <2>3. 0 * (2 * col + 1) + (-1) * (2 * (w - row) - 1) + 2 * w - 1 = 2 * (row)
    OBVIOUS
  <2>4. (-1) * (2 * col + 1) + 0 * (2 * (w - row) - 1) + 2 * h + 1 = 2 * (h - col)
    OBVIOUS
  <2>5. row \in Int /\ h - col \in Int /\ h - (h - col) = col
    OBVIOUS
  <2>6. DrawnAt(o, w, h, row, col) = [col |-> row, row |-> h - (h - col)]
    BY <2>1, <2>2, <2>3, <2>4, <2>5, <1>9 DEF DrawnAt, Affine
  <2> QED BY <2>1, <2>5, <2>6
<1>7. CASE o = "Right"
  <2>1. /\ DrawnHeight(o, w, h) = w
        /\ Lands(o, w, h, row, col) = [col |-> w - 1 - row, row |-> col]
    BY <1>7 DEF DrawnHeight, DrawTransposed, Lands
  <2>2. Affine(TransformForOrientation(o, 2 * w, 2 * h), 0, -1, 1, 0, 0, 2 * h)
    BY <1>0, <1>7, Transforms
  <2>3. 0 * (2 * col + 1) + 1 * (2 * (w - row) - 1) + 0 - 1 = 2 * (w - 1 - row)
    OBVIOUS
  <2>4. (-1) * (2 * col + 1) + 0 * (2 * (w - row) - 1) + 2 * h + 1 = 2 * (h - col)
    OBVIOUS
  <2>5. w - 1 - row \in Int /\ h - col \in Int /\ h - (h - col) = col
    OBVIOUS
  <2>6. DrawnAt(o, w, h, row, col) = [col |-> w - 1 - row, row |-> h - (h - col)]
    BY <2>1, <2>2, <2>3, <2>4, <2>5, <1>9 DEF DrawnAt, Affine
  <2> QED BY <2>1, <2>5, <2>6
<1>8. CASE o = "RightMirrored"
  <2>1. /\ DrawnHeight(o, w, h) = w
        /\ Lands(o, w, h, row, col) = [col |-> w - 1 - row, row |-> h - 1 - col]
    BY <1>8 DEF DrawnHeight, DrawTransposed, Lands
  <2>2. Affine(TransformForOrientation(o, 2 * w, 2 * h), 0, 1, 1, 0, 0, 0)
    BY <1>0, <1>8, Transforms
  <2>3. 0 * (2 * col + 1) + 1 * (2 * (w - row) - 1) + 0 - 1 = 2 * (w - 1 - row)
    OBVIOUS
  <2>4. 1 * (2 * col + 1) + 0 * (2 * (w - row) - 1) + 0 + 1 = 2 * (col + 1)
    OBVIOUS
  <2>5. w - 1 - row \in Int /\ col + 1 \in Int /\ h - (col + 1) = h - 1 - col
    OBVIOUS
  <2>6. DrawnAt(o, w, h, row, col) = [col |-> w - 1 - row, row |-> h - (col + 1)]
    BY <2>1, <2>2, <2>3, <2>4, <2>5, <1>9 DEF DrawnAt, Affine
  <2> QED BY <2>1, <2>5, <2>6
<1> QED BY <1>1, <1>2, <1>3, <1>4, <1>5, <1>6, <1>7, <1>8 DEF Orientation

\* The stored cell that lands at a row and column.
Comes(o, w, h, row, col) ==
    CASE o = "Up"            -> <<row, col>>
      [] o = "UpMirrored"    -> <<row, w - 1 - col>>
      [] o = "Down"          -> <<h - 1 - row, w - 1 - col>>
      [] o = "DownMirrored"  -> <<h - 1 - row, col>>
      [] o = "Left"          -> <<col, h - 1 - row>>
      [] o = "LeftMirrored"  -> <<col, row>>
      [] o = "Right"         -> <<w - 1 - col, row>>
      [] o = "RightMirrored" -> <<w - 1 - col, h - 1 - row>>

\* Landing there is the inverse of coming from there.
LEMMA LandsWhereItComesFrom ==
    ASSUME NEW o \in Orientation, NEW w \in Nat, NEW h \in Nat,
           NEW row \in 0 .. h - 1, NEW col \in 0 .. w - 1
    PROVE  LET s == Comes(o, w, h, row, col)
           IN  /\ s \in StoredCells(o, w, h)
               /\ Lands(o, w, h, s[1], s[2]) = [row |-> row, col |-> col]
               /\ \A r \in StoredCells(o, w, h) :
                     Lands(o, w, h, r[1], r[2]) = [row |-> row, col |-> col] => r = s
<1> DEFINE G(p) == LET s == Comes(p, w, h, row, col)
           IN  /\ s \in StoredCells(p, w, h)
               /\ Lands(p, w, h, s[1], s[2]) = [row |-> row, col |-> col]
               /\ \A r \in StoredCells(p, w, h) :
                     Lands(p, w, h, r[1], r[2]) = [row |-> row, col |-> col] => r = s
<1>1. G("Up")
  BY DEF Comes, Lands, StoredCells, DrawnHeight, DrawnWidth, DrawTransposed
<1>2. G("UpMirrored")
  BY DEF Comes, Lands, StoredCells, DrawnHeight, DrawnWidth, DrawTransposed
<1>3. G("Down")
  BY DEF Comes, Lands, StoredCells, DrawnHeight, DrawnWidth, DrawTransposed
<1>4. G("DownMirrored")
  BY DEF Comes, Lands, StoredCells, DrawnHeight, DrawnWidth, DrawTransposed
<1>5. G("Left")
  BY DEF Comes, Lands, StoredCells, DrawnHeight, DrawnWidth, DrawTransposed
<1>6. G("LeftMirrored")
  BY DEF Comes, Lands, StoredCells, DrawnHeight, DrawnWidth, DrawTransposed
<1>7. G("Right")
  BY DEF Comes, Lands, StoredCells, DrawnHeight, DrawnWidth, DrawTransposed
<1>8. G("RightMirrored")
  BY DEF Comes, Lands, StoredCells, DrawnHeight, DrawnWidth, DrawTransposed
<1>9. G(o)
  <2> HIDE DEF G
  <2> QED BY <1>1, <1>2, <1>3, <1>4, <1>5, <1>6, <1>7, <1>8 DEF Orientation
<1> QED BY <1>9

-----------------------------------------------------------------------------
(***************************************************************************)
(* The size of the result                                                  *)
(***************************************************************************)
\* A side of the result.
Scaled(side) == ScaledSide(side, image.width, image.height)

\* The resizer is used once; what it returns is what the algorithm makes of the picture.
ResizerInv == /\ image \in Picture
              /\ \/ resized = NotYet
                 \/ resized = Resized(image.orientation, Scaled(image.width), Scaled(image.height))

\* The invariant the theorems below rest on.
LEMMA ResizerInvariant == Spec => []ResizerInv
<1>1. Init => ResizerInv
  BY DEF Init, ResizerInv
<1>2. ResizerInv /\ [Next]_vars => ResizerInv'
  BY DEF ResizerInv, Next, ResizeImage, vars, Scaled
<1> QED BY <1>1, <1>2, PTL DEF Spec

\* Rounding down, said without a division.
LEMMA QuotientBounds ==
    ASSUME NEW y \in Nat, NEW w \in Nat \ {0}, NEW n \in Nat
    PROVE  y \div w \in Nat /\ (n <= y \div w <=> n * w <= y)
<1> DEFINE q == y \div w
<1>1. q \in Nat /\ q * w <= y /\ y < q * w + w
  OBVIOUS
<1> HIDE DEF q
<1>2. CASE n <= q
  <2>1. (q - n) * w \in Nat /\ (q - n) * w = q * w - n * w
    BY <1>1, <1>2
  <2> QED BY <1>1, <1>2, <2>1 DEF q
<1>3. CASE q + 1 <= n
  <2>1. (n - (q + 1)) * w \in Nat /\ (n - (q + 1)) * w = n * w - (q * w + w)
    BY <1>1, <1>3
  <2> QED BY <1>1, <1>3, <2>1 DEF q
<1> QED BY <1>1, <1>2, <1>3

\* roundf of a side: zero for less than half a point, and the bound for the longer side.
LEMMA RoundedSide ==
    ASSUME NEW longer \in Nat \ {0}, NEW side \in 0 .. longer
    PROVE  /\ Rounded(side, longer) \in 0 .. MaxDimension
           /\ Rounded(longer, longer) = MaxDimension
           /\ Rounded(side, longer) = 0 <=> 2 * MaxDimension * side < longer
<1> DEFINE x(s) == 2 * s * MaxDimension + longer
           w == 2 * longer
           q(s) == x(s) \div w
           p == side * MaxDimension
           m == longer * MaxDimension
<1>1. /\ p \in Nat /\ m \in Nat /\ p <= m
      /\ x(side) = 2 * p + longer /\ x(longer) = 2 * m + longer
      /\ MaxDimension * w = 2 * m /\ (MaxDimension + 1) * w = 2 * m + w
      /\ 2 * MaxDimension * side = 2 * p
      /\ w \in Nat \ {0} /\ MaxDimension \in Nat \ {0}
  <2>1. MaxDimension \in Nat \ {0}
    BY ResizerAssumption
  <2>2. p \in Nat /\ m \in Nat
    BY <2>1
  <2>3. p <= m
    <3>1. (longer - side) * MaxDimension \in Nat
      BY <2>1
    <3>2. (longer - side) * MaxDimension = m - p
      BY <2>1
    <3> QED BY <2>2, <3>1, <3>2
  <2>4. x(side) = 2 * p + longer /\ x(longer) = 2 * m + longer
    BY <2>1
  <2>5. MaxDimension * w = 2 * m /\ (MaxDimension + 1) * w = 2 * m + w
    BY <2>1
  <2>6. 2 * MaxDimension * side = 2 * p
    BY <2>1
  <2> QED BY <2>1, <2>2, <2>3, <2>4, <2>5, <2>6
<1> HIDE DEF p, m
<1>2. ASSUME NEW y \in Nat, NEW n \in Nat
      PROVE  y \div w \in Nat /\ (n <= y \div w <=> n * w <= y)
  <2> HIDE DEF w
  <2> QED BY <1>1, <1>2, QuotientBounds
<1>3. x(side) \in Nat /\ x(longer) \in Nat
  BY <1>1
<1>4. q(side) \in Nat /\ q(longer) \in Nat
  BY <1>2, <1>3
<1>5. /\ ~(MaxDimension + 1 <= q(side)) /\ ~(MaxDimension + 1 <= q(longer))
      /\ MaxDimension <= q(longer)
  <2>1. MaxDimension + 1 <= q(side) <=> (MaxDimension + 1) * w <= x(side)
    BY <1>1, <1>2, <1>3
  <2>2. MaxDimension + 1 <= q(longer) <=> (MaxDimension + 1) * w <= x(longer)
    BY <1>1, <1>2, <1>3
  <2>3. MaxDimension <= q(longer) <=> MaxDimension * w <= x(longer)
    BY <1>1, <1>2, <1>3
  <2> HIDE DEF q, x
  <2> QED BY <2>1, <2>2, <2>3, <1>1 DEF w
<1>6. 1 <= q(side) <=> w <= x(side)
  <2>1. 1 <= q(side) <=> 1 * w <= x(side)
    BY <1>2, <1>3
  <2>2. 1 * w = w
    BY <1>1
  <2> HIDE DEF q, x, w
  <2> QED BY <2>1, <2>2
<1>7. Rounded(side, longer) = q(side) /\ Rounded(longer, longer) = q(longer)
  BY DEF Rounded
<1> HIDE DEF q, x
<1> QED BY <1>1, <1>4, <1>5, <1>6, <1>7 DEF w

\* The sides of the result: within the bound, one of them at it, and none without points
\* unless the picture is a strip.
LEMMA SidesScaled ==
    ASSUME ResizerInv
    PROVE  /\ Scaled(image.width) \in Nat /\ Scaled(image.height) \in Nat
           /\ image.width > 0 /\ image.height > 0 =>
                 /\ Scaled(image.width) <= MaxDimension
                 /\ Scaled(image.height) <= MaxDimension
                 /\ MaxDimension \in {Scaled(image.width), Scaled(image.height)}
                 /\ Scaled(image.width) = 0 <=> image.height > 2 * MaxDimension * image.width
                 /\ Scaled(image.height) = 0 <=> image.width > 2 * MaxDimension * image.height
<1>1. /\ image.width \in Nat /\ image.height \in Nat
      /\ image.width = 0 <=> image.height = 0
  BY ResizerAssumption DEF ResizerInv, Picture
<1>2. CASE image.width = 0
  BY <1>1, <1>2 DEF Scaled, ScaledSide
<1>3. CASE image.width # 0
  <2> DEFINE longer == Longer(image.width, image.height)
  <2>1. /\ longer \in Nat \ {0} /\ longer \in {image.width, image.height}
        /\ image.width <= longer /\ image.height <= longer
    BY <1>1, <1>3 DEF Longer
  <2>2. /\ Scaled(image.width) = Rounded(image.width, longer)
        /\ Scaled(image.height) = Rounded(image.height, longer)
    BY <1>3 DEF Scaled, ScaledSide
  <2> HIDE DEF longer
  <2>3. /\ image.width \in 0 .. longer /\ image.height \in 0 .. longer
    BY <1>1, <2>1
  <2>4. /\ Rounded(image.width, longer) \in 0 .. MaxDimension
        /\ Rounded(image.height, longer) \in 0 .. MaxDimension
        /\ Rounded(longer, longer) = MaxDimension
        /\ Rounded(image.width, longer) = 0 <=> 2 * MaxDimension * image.width < longer
        /\ Rounded(image.height, longer) = 0 <=> 2 * MaxDimension * image.height < longer
    BY <2>1, <2>3, RoundedSide
  <2>5. /\ MaxDimension \in Nat \ {0}
    BY ResizerAssumption
  <2>6. /\ 2 * MaxDimension * image.width \in Nat /\ image.width <= 2 * MaxDimension * image.width
        /\ 2 * MaxDimension * image.height \in Nat /\ image.height <= 2 * MaxDimension * image.height
    <3>1. ASSUME NEW n \in Nat
          PROVE  2 * MaxDimension * n \in Nat /\ n <= 2 * MaxDimension * n
      <4>1. 2 * MaxDimension * n = n + (2 * MaxDimension - 1) * n
        BY <2>5
      <4>2. (2 * MaxDimension - 1) * n \in Nat
        BY <2>5
      <4> QED BY <4>1, <4>2
    <3> QED BY <1>1, <3>1
  <2>7. MaxDimension \in {Scaled(image.width), Scaled(image.height)}
    BY <2>1, <2>2, <2>4
  <2>8. Scaled(image.width) = 0 <=> image.height > 2 * MaxDimension * image.width
    BY <1>1, <2>1, <2>2, <2>4, <2>6
  <2>9. Scaled(image.height) = 0 <=> image.width > 2 * MaxDimension * image.height
    BY <1>1, <2>1, <2>2, <2>4, <2>6
  <2> QED BY <2>2, <2>4, <2>5, <2>7, <2>8, <2>9
<1> QED BY <1>2, <1>3

\* The image there is.
LEMMA TheImage ==
    ASSUME ResizerInv, resized # NotYet
    PROVE  LET o == image.orientation
               w == Scaled(image.width)
               h == Scaled(image.height)
           IN  /\ o \in Orientation /\ resized.width = w /\ resized.height = h
               /\ HasImage <=> w # 0 /\ h # 0
               /\ HasImage => /\ Cells = StoredCells(o, w, h)
                              /\ \A s \in Cells : resized.cells[s] = Lands(o, w, h, s[1], s[2])
<1> DEFINE o == image.orientation
           w == Scaled(image.width)
           h == Scaled(image.height)
<1>1. resized = Resized(o, w, h) /\ o \in Orientation
  BY DEF ResizerInv, Picture
<1>2. w \in Nat /\ h \in Nat
  BY SidesScaled
<1> HIDE DEF o, w, h
<1>3. resized.width = w /\ resized.height = h
  BY <1>1 DEF Resized
<1>4. CASE w = 0 \/ h = 0
  BY <1>1, <1>3, <1>4 DEF Resized, HasImage, o, w, h
<1>5. CASE w # 0 /\ h # 0
  <2>1. resized.cells = [s \in StoredCells(o, w, h) |-> DrawnAt(o, w, h, s[1], s[2])]
    BY <1>1, <1>5 DEF Resized
  <2>2. Cells = StoredCells(o, w, h)
    BY <2>1 DEF Cells
  <2>3. <<0, 0>> \in StoredCells(o, w, h)
    BY <1>2, <1>5 DEF StoredCells, DrawnHeight, DrawnWidth
  <2>4. HasImage
    <3>1. DOMAIN <<>> = {}
      OBVIOUS
    <3> QED BY <2>2, <2>3, <3>1 DEF HasImage, Cells
  <2>5. ASSUME NEW s \in Cells PROVE resized.cells[s] = Lands(o, w, h, s[1], s[2])
    <3>1. s[1] \in Nat /\ s[2] \in Nat
      BY <1>2, <2>2, <2>5 DEF StoredCells, DrawnHeight, DrawnWidth
    <3> QED BY <1>1, <1>2, <2>1, <2>2, <3>1, CellsLand
  <2> QED BY <1>1, <1>3, <1>5, <2>2, <2>4, <2>5 DEF o, w, h
<1> QED BY <1>4, <1>5

\* resizeImage:toBoundBothDimensionsTo:, for a bound and a picture of any size: the result
\* fits the bound and touches it, and is empty for strips only.
THEOREM ResultFitsTheBound == Spec => []FitsTheBound
<1>1. ResizerInv => FitsTheBound
  <2> SUFFICES ASSUME ResizerInv, resized # NotYet, image.width > 0, image.height > 0
               PROVE  /\ resized.width <= MaxDimension /\ resized.height <= MaxDimension
                      /\ MaxDimension \in {resized.width, resized.height}
                      /\ ~HasImage <=> \/ image.width > 2 * MaxDimension * image.height
                                      \/ image.height > 2 * MaxDimension * image.width
    BY DEF FitsTheBound
  <2> QED BY SidesScaled, TheImage
<1> QED BY <1>1, ResizerInvariant, PTL

\* Every point of the result is painted once, whatever the orientation and the sides.
THEOREM ResultIsCovered == Spec => []CoversTheBitmap
<1>1. ResizerInv => CoversTheBitmap
  <2> SUFFICES ASSUME ResizerInv, HasImage,
                      NEW row \in 0 .. resized.height - 1, NEW col \in 0 .. resized.width - 1
               PROVE  \E s \in Cells :
                         /\ resized.cells[s] = [row |-> row, col |-> col]
                         /\ \A r \in Cells \ {s} : resized.cells[r] # resized.cells[s]
    BY DEF CoversTheBitmap
  <2> DEFINE o == image.orientation
             w == Scaled(image.width)
             h == Scaled(image.height)
             s == Comes(o, w, h, row, col)
  <2>1. resized # NotYet
    BY DEF HasImage, NotYet
  <2>2. /\ o \in Orientation /\ w \in Nat /\ h \in Nat
        /\ row \in 0 .. h - 1 /\ col \in 0 .. w - 1
        /\ Cells = StoredCells(o, w, h)
        /\ \A r \in Cells : resized.cells[r] = Lands(o, w, h, r[1], r[2])
    BY <2>1, TheImage, SidesScaled
  <2> HIDE DEF o, w, h
  <2>3. /\ s \in Cells /\ Lands(o, w, h, s[1], s[2]) = [row |-> row, col |-> col]
        /\ \A r \in Cells : Lands(o, w, h, r[1], r[2]) = [row |-> row, col |-> col] => r = s
    BY <2>2, LandsWhereItComesFrom
  <2> HIDE DEF s
  <2>4. resized.cells[s] = [row |-> row, col |-> col]
    BY <2>2, <2>3
  <2>5. \A r \in Cells \ {s} : resized.cells[r] # resized.cells[s]
    BY <2>2, <2>3, <2>4
  <2> QED BY <2>3, <2>4, <2>5
<1> QED BY <1>1, ResizerInvariant, PTL

\* transformForOrientation:image: turns and flips the picture as its orientation says.
THEOREM ResultIsUpright == Spec => []DrawnUpright
<1>1. ResizerInv => DrawnUpright
  <2> SUFFICES ASSUME ResizerInv, HasImage PROVE DrawnUpright
    BY DEF DrawnUpright
  <2> DEFINE o == image.orientation
             w == Scaled(image.width)
             h == Scaled(image.height)
  <2>1. resized # NotYet
    BY DEF HasImage, NotYet
  <2>2. /\ o \in Orientation /\ w \in Nat /\ h \in Nat
        /\ resized.width = w /\ resized.height = h
        /\ Cells = StoredCells(o, w, h)
        /\ \A s \in Cells : resized.cells[s] = Lands(o, w, h, s[1], s[2])
    BY <2>1, TheImage, SidesScaled
  <2>3. o = image.orientation
    OBVIOUS
  <2> HIDE DEF o, w, h
  <2>0. \A s \in Cells : s[1] \in Nat /\ s[2] \in Nat
    BY <2>2 DEF StoredCells, DrawnWidth, DrawnHeight
  <2>4. CASE o = "Up"
    <3>1. \A s \in Cells : resized.cells[s] = [col |-> s[2], row |-> s[1]]
      BY <2>2, <2>4 DEF Lands
    <3>2. ASSUME NEW s \in Cells
          PROVE  resized.cells[s].col = s[2] /\ resized.cells[s].row = s[1]
      <4> DEFINE p == resized.cells[s]
      <4>1. p = [col |-> s[2], row |-> s[1]]
        BY <3>1
      <4> HIDE DEF p
      <4>2. p.col = s[2] /\ p.row = s[1]
        BY <4>1
      <4> QED BY <4>2 DEF p
    <3>3. RowZeroAt("top")
      BY <2>2, <2>0, <3>2 DEF RowZeroAt
    <3>4. ColumnZeroAt("left")
      BY <2>2, <2>0, <3>2 DEF ColumnZeroAt
    <3>5. Exif(1)
      BY <3>3, <3>4 DEF Exif
    <3> QED BY <2>3, <2>4, <3>5 DEF DrawnUpright
  <2>5. CASE o = "UpMirrored"
    <3>1. \A s \in Cells : resized.cells[s] = [col |-> w - 1 - s[2], row |-> s[1]]
      BY <2>2, <2>5 DEF Lands
    <3>2. ASSUME NEW s \in Cells
          PROVE  resized.cells[s].col = w - 1 - s[2] /\ resized.cells[s].row = s[1]
      <4> DEFINE p == resized.cells[s]
      <4>1. p = [col |-> w - 1 - s[2], row |-> s[1]]
        BY <3>1
      <4> HIDE DEF p
      <4>2. p.col = w - 1 - s[2] /\ p.row = s[1]
        BY <4>1
      <4> QED BY <4>2 DEF p
    <3>3. RowZeroAt("top")
      BY <2>2, <2>0, <3>2 DEF RowZeroAt
    <3>4. ColumnZeroAt("right")
      BY <2>2, <2>0, <3>2 DEF ColumnZeroAt
    <3>5. Exif(2)
      BY <3>3, <3>4 DEF Exif
    <3> QED BY <2>3, <2>5, <3>5 DEF DrawnUpright
  <2>6. CASE o = "Down"
    <3>1. \A s \in Cells : resized.cells[s] = [col |-> w - 1 - s[2], row |-> h - 1 - s[1]]
      BY <2>2, <2>6 DEF Lands
    <3>2. ASSUME NEW s \in Cells
          PROVE  resized.cells[s].col = w - 1 - s[2] /\ resized.cells[s].row = h - 1 - s[1]
      <4> DEFINE p == resized.cells[s]
      <4>1. p = [col |-> w - 1 - s[2], row |-> h - 1 - s[1]]
        BY <3>1
      <4> HIDE DEF p
      <4>2. p.col = w - 1 - s[2] /\ p.row = h - 1 - s[1]
        BY <4>1
      <4> QED BY <4>2 DEF p
    <3>3. RowZeroAt("bottom")
      BY <2>2, <2>0, <3>2 DEF RowZeroAt
    <3>4. ColumnZeroAt("right")
      BY <2>2, <2>0, <3>2 DEF ColumnZeroAt
    <3>5. Exif(3)
      BY <3>3, <3>4 DEF Exif
    <3> QED BY <2>3, <2>6, <3>5 DEF DrawnUpright
  <2>7. CASE o = "DownMirrored"
    <3>1. \A s \in Cells : resized.cells[s] = [col |-> s[2], row |-> h - 1 - s[1]]
      BY <2>2, <2>7 DEF Lands
    <3>2. ASSUME NEW s \in Cells
          PROVE  resized.cells[s].col = s[2] /\ resized.cells[s].row = h - 1 - s[1]
      <4> DEFINE p == resized.cells[s]
      <4>1. p = [col |-> s[2], row |-> h - 1 - s[1]]
        BY <3>1
      <4> HIDE DEF p
      <4>2. p.col = s[2] /\ p.row = h - 1 - s[1]
        BY <4>1
      <4> QED BY <4>2 DEF p
    <3>3. RowZeroAt("bottom")
      BY <2>2, <2>0, <3>2 DEF RowZeroAt
    <3>4. ColumnZeroAt("left")
      BY <2>2, <2>0, <3>2 DEF ColumnZeroAt
    <3>5. Exif(4)
      BY <3>3, <3>4 DEF Exif
    <3> QED BY <2>3, <2>7, <3>5 DEF DrawnUpright
  <2>8. CASE o = "LeftMirrored"
    <3>1. \A s \in Cells : resized.cells[s] = [col |-> s[1], row |-> s[2]]
      BY <2>2, <2>8 DEF Lands
    <3>2. ASSUME NEW s \in Cells
          PROVE  resized.cells[s].col = s[1] /\ resized.cells[s].row = s[2]
      <4> DEFINE p == resized.cells[s]
      <4>1. p = [col |-> s[1], row |-> s[2]]
        BY <3>1
      <4> HIDE DEF p
      <4>2. p.col = s[1] /\ p.row = s[2]
        BY <4>1
      <4> QED BY <4>2 DEF p
    <3>3. RowZeroAt("left")
      BY <2>2, <2>0, <3>2 DEF RowZeroAt
    <3>4. ColumnZeroAt("top")
      BY <2>2, <2>0, <3>2 DEF ColumnZeroAt
    <3>5. Exif(5)
      BY <3>3, <3>4 DEF Exif
    <3> QED BY <2>3, <2>8, <3>5 DEF DrawnUpright
  <2>9. CASE o = "Right"
    <3>1. \A s \in Cells : resized.cells[s] = [col |-> w - 1 - s[1], row |-> s[2]]
      BY <2>2, <2>9 DEF Lands
    <3>2. ASSUME NEW s \in Cells
          PROVE  resized.cells[s].col = w - 1 - s[1] /\ resized.cells[s].row = s[2]
      <4> DEFINE p == resized.cells[s]
      <4>1. p = [col |-> w - 1 - s[1], row |-> s[2]]
        BY <3>1
      <4> HIDE DEF p
      <4>2. p.col = w - 1 - s[1] /\ p.row = s[2]
        BY <4>1
      <4> QED BY <4>2 DEF p
    <3>3. RowZeroAt("right")
      BY <2>2, <2>0, <3>2 DEF RowZeroAt
    <3>4. ColumnZeroAt("top")
      BY <2>2, <2>0, <3>2 DEF ColumnZeroAt
    <3>5. Exif(6)
      BY <3>3, <3>4 DEF Exif
    <3> QED BY <2>3, <2>9, <3>5 DEF DrawnUpright
  <2>10. CASE o = "RightMirrored"
    <3>1. \A s \in Cells : resized.cells[s] = [col |-> w - 1 - s[1], row |-> h - 1 - s[2]]
      BY <2>2, <2>10 DEF Lands
    <3>2. ASSUME NEW s \in Cells
          PROVE  resized.cells[s].col = w - 1 - s[1] /\ resized.cells[s].row = h - 1 - s[2]
      <4> DEFINE p == resized.cells[s]
      <4>1. p = [col |-> w - 1 - s[1], row |-> h - 1 - s[2]]
        BY <3>1
      <4> HIDE DEF p
      <4>2. p.col = w - 1 - s[1] /\ p.row = h - 1 - s[2]
        BY <4>1
      <4> QED BY <4>2 DEF p
    <3>3. RowZeroAt("right")
      BY <2>2, <2>0, <3>2 DEF RowZeroAt
    <3>4. ColumnZeroAt("bottom")
      BY <2>2, <2>0, <3>2 DEF ColumnZeroAt
    <3>5. Exif(7)
      BY <3>3, <3>4 DEF Exif
    <3> QED BY <2>3, <2>10, <3>5 DEF DrawnUpright
  <2>11. CASE o = "Left"
    <3>1. \A s \in Cells : resized.cells[s] = [col |-> s[1], row |-> h - 1 - s[2]]
      BY <2>2, <2>11 DEF Lands
    <3>2. ASSUME NEW s \in Cells
          PROVE  resized.cells[s].col = s[1] /\ resized.cells[s].row = h - 1 - s[2]
      <4> DEFINE p == resized.cells[s]
      <4>1. p = [col |-> s[1], row |-> h - 1 - s[2]]
        BY <3>1
      <4> HIDE DEF p
      <4>2. p.col = s[1] /\ p.row = h - 1 - s[2]
        BY <4>1
      <4> QED BY <4>2 DEF p
    <3>3. RowZeroAt("left")
      BY <2>2, <2>0, <3>2 DEF RowZeroAt
    <3>4. ColumnZeroAt("bottom")
      BY <2>2, <2>0, <3>2 DEF ColumnZeroAt
    <3>5. Exif(8)
      BY <3>3, <3>4 DEF Exif
    <3> QED BY <2>3, <2>11, <3>5 DEF DrawnUpright
  <2> QED BY <2>2, <2>4, <2>5, <2>6, <2>7, <2>8, <2>9, <2>10, <2>11 DEF Orientation
<1> QED BY <1>1, ResizerInvariant, PTL
=============================================================================
