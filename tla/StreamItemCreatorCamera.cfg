\* A device whose only source of pictures is its camera.
CONSTANTS
  Photo = {normal, strip}
  Degenerate = {strip}
  Title = {title}
  DeviceSource = {"camera"}
  MaxItems = 2
SPECIFICATION Spec
PROPERTIES EveryButtonDoesWhatItSays
