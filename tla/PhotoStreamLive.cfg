\* One item, two downloads at a time: what must eventually happen.
CONSTANTS
  Photo = {normal, strip}
  Degenerate = {strip}
  Title = {title}
  DeviceSource = {"library"}
  MaxItems = 1
  MaxAttempts = 2
  Query = {q1, q2}
  QueryLimit = 2
  MaxObjects = 1
SPECIFICATION FairSpec
PROPERTIES DownloadsEnd UploadsEnd
