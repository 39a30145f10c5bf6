CONSTANTS Thread = {t1, t2, t3}
          Waiter = {t1, t2}
          Continuation = {c1, c2}
          SuccessOnly = {c2}
          Children = 3
          Observer = {o1, o2}
          Asking = {o1}
          Disposers = {t1, t2}
          Owners = {t1}
          Timers = {t3}
SPECIFICATION BoltsSpec
INVARIANTS Inv FailurePropagates NoWakeUpIsLost GroupReports TokenTells
PROPERTIES CallbacksFrozen KeepsPromise DisposeSilences NobodyWaitsForEver
CHECK_DEADLOCK FALSE
