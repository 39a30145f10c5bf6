\* Three items a point apart, in half points; every scroll position.
CONSTANTS
  BoundsSize <- BoundsSizeMC
  ItemSize <- ItemSizeMC
  InterItemSpace = 1
  NumberOfItems = 3
  MaxBounce = 4
SPECIFICATION Spec
INVARIANTS EndsAreCentred RangeIsVisible
