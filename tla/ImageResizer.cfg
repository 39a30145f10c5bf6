\* Every orientation and every size up to 9 by 9, bounded to 3: larger and
\* smaller pictures, and strips more than 6 times as long as wide.
CONSTANTS
  MaxDimension = 3
  MaxSide = 9
SPECIFICATION Spec
INVARIANTS FitsTheBound CoversTheBitmap DrawnUpright
CHECK_DEADLOCK FALSE
