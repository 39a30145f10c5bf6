------------------------------- MODULE Carousel -------------------------------
(***************************************************************************)
(* CarouselCollectionViewLayout.m: a row of items of one size, with margins *)
(* that let the first and the last of them stand in the middle.            *)
(*                                                                         *)
(* The collection view (external) has an invalid layout prepare itself     *)
(* before it asks it anything, and asks it before each change of its       *)
(* bounds whether that change invalidates it.  Sizes are in points; margins *)
(* and positions in half points, so that halves are integers.              *)
(***************************************************************************)
EXTENDS Integers

CONSTANTS BoundsSize,     \* sizes the collection view may have
          ItemSize,       \* sizes the items may be given
          InterItemSpace, \* space between two items
          NumberOfItems,  \* what the data source answers
          MaxBounce       \* bound: how far beyond its ends the view scrolls

ASSUME CarouselAssumption ==
    /\ BoundsSize \subseteq [width : Nat \ {0}, height : Nat \ {0}]
    /\ ItemSize \subseteq [width : Nat \ {0}, height : Nat \ {0}]
    /\ InterItemSpace \in Nat
    /\ NumberOfItems \in Nat \ {0}
    /\ MaxBounce \in Nat

VARIABLES size,      \* bounds.size of the collection view
          offset,    \* bounds.origin.x, in half points
          itemSize,  \* the property of that name
          rightLeftMargin, topBottomMargin,
          valid      \* the layout is prepared since it was invalidated

vars == <<size, offset, itemSize, rightLeftMargin, topBottomMargin, valid>>

\* collectionViewContentSize.
ContentWidth  == 2 * (NumberOfItems * itemSize.width
                        + (NumberOfItems - 1) * InterItemSpace)
                   + 2 * rightLeftMargin
ContentHeight == 2 * itemSize.height + 2 * topBottomMargin

CombinedItemWidth == 2 * (itemSize.width + InterItemSpace)

\* The item that starts at or before a position, by its index.
ItemAt(x) == (x - rightLeftMargin) \div CombinedItemWidth

\* floorf, not below zero.
FirstVisibleItem == IF ItemAt(offset) < 0 THEN 0 ELSE ItemAt(offset)

\* Faulty: rounds down.
LastVisibleItemFloored ==
    IF ItemAt(offset + 2 * size.width) > NumberOfItems
    THEN NumberOfItems ELSE ItemAt(offset + 2 * size.width)

\* ceilf, not above the number of items: the index after the last.
LastVisibleItem ==
    LET ceiling == -((rightLeftMargin - offset - 2 * size.width)
                        \div CombinedItemWidth)
    IN  IF ceiling > NumberOfItems THEN NumberOfItems ELSE ceiling

\* Faulty: a change of the height alone is not noticed.
ShouldInvalidateForWidth(newSize) == size.width # newSize.width

ShouldInvalidateLayoutForBoundsChange(newSize) == size # newSize

-----------------------------------------------------------------------------
Init == /\ size \in BoundsSize
        /\ itemSize \in ItemSize
        /\ offset = 0 /\ rightLeftMargin = 0 /\ topBottomMargin = 0
        /\ valid = FALSE

PrepareLayout ==
    /\ ~valid
    /\ rightLeftMargin' = size.width - itemSize.width
    /\ topBottomMargin' = size.height - itemSize.height
    /\ valid' = TRUE
    /\ UNCHANGED <<size, offset, itemSize>>

SetItemSize(newSize) ==
    /\ newSize # itemSize
    /\ itemSize' = newSize
    /\ valid' = FALSE
    /\ UNCHANGED <<size, offset, rightLeftMargin, topBottomMargin>>

\* A rotation, or the view gets another place: the collection view changes size.
Resize(newSize) ==
    /\ size' = newSize
    /\ valid' = (valid /\ ~ShouldInvalidateLayoutForBoundsChange(newSize))
    /\ UNCHANGED <<offset, itemSize, rightLeftMargin, topBottomMargin>>

\* targetContentOffsetForProposedContentOffset: corrects the end of a drag to an
\* item to centre on, but layoutAttributesForUserFingerMovingWithVelocity: names none.
TargetContentOffset(proposed) == proposed

\* The user scrolls, as far as the content goes and a little beyond.
Scroll(newOffset) ==
    /\ valid
    /\ offset' = TargetContentOffset(newOffset)
    /\ UNCHANGED <<size, itemSize, rightLeftMargin, topBottomMargin, valid>>

Next == \/ PrepareLayout
        \/ \E newSize \in ItemSize : SetItemSize(newSize)
        \/ \E newSize \in BoundsSize : Resize(newSize)
        \/ \E newOffset \in -MaxBounce .. ContentWidth - 2 * size.width + MaxBounce :
              Scroll(newOffset)

Spec == Init /\ [][Next]_vars

-----------------------------------------------------------------------------
(***************************************************************************)
(* Properties                                                              *)
(***************************************************************************)

\* The shape of the state, and margins that fit it once the layout is prepared.
Inv == /\ size \in BoundsSize /\ itemSize \in ItemSize
       /\ offset \in Int /\ valid \in BOOLEAN
       /\ rightLeftMargin \in Int /\ topBottomMargin \in Int
       /\ valid => /\ rightLeftMargin = size.width - itemSize.width
                   /\ topBottomMargin = size.height - itemSize.height

\* Where the arithmetic of the layout takes an item to be: its left edge.
LeftEdge(i) == rightLeftMargin + i * CombinedItemWidth

\* When the layout may be asked, scrolling to either end puts the first or the
\* last item in the middle, and there is nothing to scroll vertically: no change of
\* the collection view or the items leaves a margin behind that is out of date.
EndsAreCentred ==
    valid =>
       /\ LeftEdge(0) + itemSize.width = size.width
       /\ LeftEdge(NumberOfItems - 1) + itemSize.width
            = (ContentWidth - 2 * size.width) + size.width
       /\ ContentHeight = 2 * size.height

Visible(i) == /\ LeftEdge(i) < offset + 2 * size.width
              /\ LeftEdge(i) + 2 * itemSize.width > offset

\* The items from the first to before the last visible one are those in the
\* rectangle, and at most one more, behind which the rectangle begins.
RangeIsVisible ==
    valid =>
       \A i \in 0 .. NumberOfItems - 1 :
          LET asked == FirstVisibleItem <= i /\ i < LastVisibleItem
          IN  /\ Visible(i) => asked
              /\ asked => \/ Visible(i)
                          \/ /\ LeftEdge(i) <= offset
                             /\ offset < LeftEdge(i) + CombinedItemWidth
=============================================================================
