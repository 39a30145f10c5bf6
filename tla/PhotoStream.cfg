\* Two items, two downloads at a time, a lost answer and a retry; the server can
\* hold more objects than it returns (two items, twice each, and one of another client).
CONSTANTS
  Photo = {normal, strip}
  Degenerate = {strip}
  Title = {title}
  DeviceSource = {"library"}
  MaxItems = 2
  MaxAttempts = 2
  Query = {q1, q2}
  QueryLimit = 3
  MaxObjects = 1
SPECIFICATION Spec
INVARIANTS Inv ServerHoldsUploads ReadYourWrites
PROPERTIES ImplementsSharedStream
SYMMETRY QuerySymmetry
