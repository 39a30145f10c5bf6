CONSTANTS Call = {c1, c2}
          MaxAttempts = 2
          a = a
          b = b
          QueuedObject = {a, b}
          Address <- MCAddress
          MaxObjects = 2
          Op = {x, y, z}
          Key = {k}
          MaxOps = 3
          MaxJobs = 3
          Number = {0, 5}
          MaxSent = 2
          ParentNumber = {5}
          MaxParentSent = 1
          QueryCall = {q1, q2, q3}
          FirstCall = {q1}
          NoCall = NoCall
SPECIFICATION ParseSpec
INVARIANTS Inv QueuesAgree EstimateIsUpToDate OwnChangesStay UnsavedIsDirty SavedIsOnTheServer CallsInOrder CancelStopsUnanswered
PROPERTIES StaysCancellable EveryCallEnds
CHECK_DEADLOCK FALSE
