---------------------------- MODULE ImageResizer ----------------------------
(***************************************************************************)
(* ImageResizer.m: the picked picture is scaled so that its longer side is *)
(* MaxDimension, and redrawn upright whatever orientation the camera left  *)
(* it in.  Sizes are those of the upright picture.                         *)
(*                                                                         *)
(* Quartz (external) puts the origin at the lower left with y upwards, and *)
(* a new operation on a transform applies before the ones it has already.  *)
(* Interpolation is left out: the model follows the cells of the picture   *)
(* as CGContextDrawImage has scaled them, from where they are stored to    *)
(* where they are drawn.  Coordinates count half cells, so that the centre *)
(* of a cell is an integer.                                                *)
(***************************************************************************)
EXTENDS Integers

CONSTANTS MaxDimension,  \* maxImageDimension of the creator
          MaxSide        \* bound: the longest side of a picture

ASSUME ResizerAssumption == MaxDimension \in Nat \ {0} /\ MaxSide \in Nat

VARIABLES image,   \* the picture picked
          resized  \* what resizeImage:toBoundBothDimensionsTo: returned

vars == <<image, resized>>

Orientation == {"Up", "UpMirrored", "Down", "DownMirrored",
                "Left", "LeftMirrored", "Right", "RightMirrored"}

\* A picture has cells, or (no original image in the picker's info) is empty.
Picture == {p \in [orientation : Orientation, width : 0 .. MaxSide,
                   height : 0 .. MaxSide] : p.width = 0 <=> p.height = 0}

\* Faulty: the picture covers the square instead of fitting it.
Shorter(w, h) == IF w > h THEN h ELSE w

Longer(w, h) == IF w > h THEN w ELSE h

\* roundf(side * MaxDimension / longer), in integers.
Rounded(side, longer) == (2 * side * MaxDimension + longer) \div (2 * longer)

\* scaledSizeFromSize:forMaxDimension:
ScaledSide(side, w, h) == IF w = 0 /\ h = 0 THEN side
                                            ELSE Rounded(side, Longer(w, h))

-----------------------------------------------------------------------------
\* Affine transforms: (x, y) goes to (a x + c y + tx, b x + d y + ty).
Identity == [a |-> 1, b |-> 0, c |-> 0, d |-> 1, tx |-> 0, ty |-> 0]

Translate(t, x, y) == [t EXCEPT !.tx = t.a * x + t.c * y + @,
                                !.ty = t.b * x + t.d * y + @]

\* Faulty: a mirrored picture is not flipped.
NoFlipX(t) == t

FlipX(t) == [t EXCEPT !.a = -@, !.b = -@]

HalfTurn(t)    == [t EXCEPT !.a = -@,  !.b = -@,  !.c = -@,   !.d = -@]
QuarterLeft(t) == [t EXCEPT !.a = t.c, !.b = t.d, !.c = -t.a, !.d = -t.b]
QuarterRight(t) == [t EXCEPT !.a = -t.c, !.b = -t.d, !.c = t.a, !.d = t.b]

\* The first switch of transformForOrientation:image: on a picture of w by h.
Turned(o, w, h) ==
    CASE o \in {"Down", "DownMirrored"}   -> HalfTurn(Translate(Identity, w, h))
      [] o \in {"Left", "LeftMirrored"}   -> QuarterLeft(Translate(Identity, w, 0))
      [] o \in {"Right", "RightMirrored"} -> QuarterRight(Translate(Identity, 0, h))
      [] OTHER                            -> Identity

\* The second one.
TransformForOrientation(o, w, h) ==
    CASE o \in {"UpMirrored", "DownMirrored"}
           -> FlipX(Translate(Turned(o, w, h), w, 0))
      [] o \in {"LeftMirrored", "RightMirrored"}
           -> FlipX(Translate(Turned(o, w, h), h, 0))
      [] OTHER -> Turned(o, w, h)

\* Faulty: forgets the mirrored cases.
DrawTransposedUnlessMirrored(o) == o \in {"Left", "Right"}

DrawTransposed(o) == o \in {"Left", "LeftMirrored", "Right", "RightMirrored"}

\* The rectangle the stored bitmap is drawn into.
DrawnWidth(o, w, h)  == IF DrawTransposed(o) THEN h ELSE w
DrawnHeight(o, w, h) == IF DrawTransposed(o) THEN w ELSE h

\* Where the cell of a stored row and column is drawn, rows counted from the
\* top: its centre, in half cells, under the transform.
DrawnAt(o, w, h, row, col) ==
    LET t == TransformForOrientation(o, 2 * w, 2 * h)
        x == 2 * col + 1
        y == 2 * (DrawnHeight(o, w, h) - row) - 1
    IN  [col |-> (t.a * x + t.c * y + t.tx - 1) \div 2,
         row |-> h - (t.b * x + t.d * y + t.ty + 1) \div 2]

StoredCells(o, w, h) == (0 .. DrawnHeight(o, w, h) - 1) \X (0 .. DrawnWidth(o, w, h) - 1)

\* No bitmap context has an empty side; without one there is no image: nil.
Resized(o, w, h) ==
    [width |-> w, height |-> h,
     cells |-> IF w = 0 \/ h = 0
               THEN <<>>
               ELSE [s \in StoredCells(o, w, h) |-> DrawnAt(o, w, h, s[1], s[2])]]

NotYet == [width |-> 0, height |-> 0, cells |-> <<>>]

Init == image \in Picture /\ resized = NotYet

ResizeImage ==
    /\ resized = NotYet
    /\ LET w == ScaledSide(image.width, image.width, image.height)
           h == ScaledSide(image.height, image.width, image.height)
       IN  resized' = Resized(image.orientation, w, h)
    /\ UNCHANGED image

Next == ResizeImage

Spec == Init /\ [][Next]_vars

-----------------------------------------------------------------------------
(***************************************************************************)
(* Properties                                                              *)
(***************************************************************************)
Cells == DOMAIN resized.cells
HasImage == resized.cells # <<>>

\* A non-empty picture fits the bound and touches it, enlarged if it is small. Its
\* image is empty, and has no data to upload, exactly when one side is more than
\* 2 * MaxDimension times the other: these are StreamItemCreator's Degenerate
\* pictures.
FitsTheBound ==
    resized # NotYet /\ image.width > 0 /\ image.height > 0
       => /\ resized.width <= MaxDimension /\ resized.height <= MaxDimension
          /\ MaxDimension \in {resized.width, resized.height}
          /\ ~HasImage <=> \/ image.width > 2 * MaxDimension * image.height
                          \/ image.height > 2 * MaxDimension * image.width

\* Every cell of the result is painted with exactly one cell of the picture:
\* the rectangle, the translations and the turn fit together.
CoversTheBitmap ==
    HasImage =>
       \A row \in 0 .. resized.height - 1, col \in 0 .. resized.width - 1 :
          \E s \in Cells :
             /\ resized.cells[s] = [row |-> row, col |-> col]
             /\ \A r \in Cells \ {s} : resized.cells[r] # resized.cells[s]

\* The sides of the result where row 0 and column 0 of the stored bitmap end up.
\* EXIF numbers the eight orientations by these two sides.
RowZeroAt(side) ==
    \A s \in Cells : s[1] = 0 =>
       CASE side = "top"    -> resized.cells[s].row = 0
         [] side = "bottom" -> resized.cells[s].row = resized.height - 1
         [] side = "left"   -> resized.cells[s].col = 0
         [] side = "right"  -> resized.cells[s].col = resized.width - 1

ColumnZeroAt(side) ==
    \A s \in Cells : s[2] = 0 =>
       CASE side = "top"    -> resized.cells[s].row = 0
         [] side = "bottom" -> resized.cells[s].row = resized.height - 1
         [] side = "left"   -> resized.cells[s].col = 0
         [] side = "right"  -> resized.cells[s].col = resized.width - 1

Exif(n) == CASE n = 1 -> RowZeroAt("top")    /\ ColumnZeroAt("left")
             [] n = 2 -> RowZeroAt("top")    /\ ColumnZeroAt("right")
             [] n = 3 -> RowZeroAt("bottom") /\ ColumnZeroAt("right")
             [] n = 4 -> RowZeroAt("bottom") /\ ColumnZeroAt("left")
             [] n = 5 -> RowZeroAt("left")   /\ ColumnZeroAt("top")
             [] n = 6 -> RowZeroAt("right")  /\ ColumnZeroAt("top")
             [] n = 7 -> RowZeroAt("right")  /\ ColumnZeroAt("bottom")
             [] n = 8 -> RowZeroAt("left")   /\ ColumnZeroAt("bottom")

\* The picture is drawn as UIKit shows its orientation: Left turns it a quarter
\* counterclockwise (EXIF 8), Right clockwise (EXIF 6), Mirrored flips it first.
DrawnUpright ==
    HasImage => Exif(CASE image.orientation = "Up"            -> 1
                       [] image.orientation = "UpMirrored"    -> 2
                       [] image.orientation = "Down"          -> 3
                       [] image.orientation = "DownMirrored"  -> 4
                       [] image.orientation = "LeftMirrored"  -> 5
                       [] image.orientation = "Right"         -> 6
                       [] image.orientation = "RightMirrored" -> 7
                       [] image.orientation = "Left"          -> 8)
=============================================================================
