CONSTANTS Key = {k}
          Value = {5}
          MayHaveChild = TRUE
          MaxOps = 4
          MaxJobs = 3
          MaxSent = 1
SPECIFICATION FairSpec
INVARIANTS UnsavedIsDirty
CHECK_DEADLOCK FALSE
