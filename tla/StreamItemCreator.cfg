\* The dialogue with two pictures and two items, on every kind of device.
CONSTANTS
  Photo = {normal, strip}
  Degenerate = {strip}
  Title = {title}
  DeviceSource = {"library", "camera"}
  MaxItems = 2
SPECIFICATION Spec
INVARIANTS Inv
PROPERTIES ButtonsKeepTheirWord YieldsThePickedItem
