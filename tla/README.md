# A verification project for the UICollectionView workshop application

The application is an iOS program for a workshop on collection views. On a phone it
shows tabs with speakers, a calendar and a photo stream
(`PhoneRootTabBarController.m:18-22`), on any other device a carousel
(`AppDelegate.m:29-34`). The photo stream is complete: it downloads pictures from a
Parse server, lets the user add one through a dialogue, and uploads it. Carousel and
calendar compute a good part of their layout and leave the positions of their items
as exercises. This project models the photo stream from the screen down to the retry
loop of the Parse SDK that carries its uploads; the objects, queries and task queues of
Parse and the tasks, groups and cancellation tokens of Bolts all of this is built from;
and what there is of the two layouts. It checks the models with TLC and proves the main
results with TLAPS.

Paths below are relative to `src/UICollectionViewWorkshop/`; `Classes/` stands for
`UICollectionViewWorkshop/Classes/`.

## 1. Inventory

| Component | State it keeps | Operations | Talks to | Hard behaviour | What makes it correct |
|---|---|---|---|---|---|
| Photo stream screen, `Classes/Photo Stream/PhotoStreamViewController.m` | `streamItems` (nil before the first download), the refresh control, the count the collection view made at its last reload | view loaded, pull to refresh, add, item created, download finished, selection | creator, uploader and downloader as their delegate; UIKit | downloads finish in any order and replace the list while the user works on it; an item can be created before there is a list | the list is a beginning of the server's objects plus the items made since; the collection view never counts on an item that is gone; the spinner stops |
| Creation dialogue, `Model/StreamItemCreator.m` | `createdItem`; what is on the screen | action sheet, image picker, dismissal, title alert | screen (delegate), `ImageResizer`, UIKit | four callbacks share one property; the sources of pictures change while the sheet is up | each request is dropped or yields the picture picked for it |
| Uploader and transformer, `Model/StreamItemUploader.m`, `StreamItemTransformer.m` | none of its own; the saves under way | `uploadStreamItem:`, its two outcomes | `PFObject`, an optional delegate | a failure is silent; an item without data raises | a confirmed item is on the server; every item is uploaded |
| Downloader, `Model/StreamItemDownloader.m` | the queries under way | `downloadStreamItems`, its block | `PFQuery`, the screen | the error is ignored | an answer shows every upload confirmed before it |
| Image resizer, `Classes/Utils/ImageResizer.m` | none | scale and redraw upright | Quartz | eight orientations, rounding to zero | the result fits, is covered, stands upright |
| Parse command runner, `Pods/Parse/.../PFURLSessionCommandRunner.m`, `PFURLSession.m`, the task delegates | attempts, delay, the task of the attempt, its delegate, the cancellation token | run, attempt, retry, complete, cancel | `NSURLSession`, Bolts | lost and late requests, retries of what was already done, cancellation in the middle | bounded attempts, no false success, a cancellation that comes in time is reported |
| Parse task queues, `PFTaskQueue.m`, `_enqueue:forObjects:` in `PFObject.m` | per object a mutex and a tail: the task the next operation awaits | enqueue in one queue, in several | threads of the callers, Bolts | an operation needs several mutexes; one that is cancelled ends out of turn | one order in all queues, one operation at a time, everything ends |
| Parse object, `PFObject.m`, `PFOperationSet.m`, `PFFieldOperation.m` | server data, operation sets, estimate, the dirty flag | set, delete, increment, revert, save, fetch | task queue, command runner | the user changes what is being saved; saves fail, or are carried out though they failed | no change is lost; what is read is the server's data with the changes on top; what is not dirty is on the server |
| Parse query, `PFQuery.m`, `BFTask+Private.m` | the token source of the call under way | find, count, cancel | tokens, command runner, main queue | a call ends while the next begins; cancellation before and after the answer | one call at a time, `cancel` reaches it, an unanswered cancelled call is silent |
| Bolts tasks, `Pods/Bolts/Bolts/Common/BFTask.m` | outcome, callbacks, a recursive lock and a condition | complete, continue, wait; a group of tasks | executors | completion races continuations, waiters and other completions; callbacks re-enter | each continuation is called once, after completion; failures propagate; waiters wake; a group completes last and reports the worst |
| Bolts cancellation tokens, `BFCancellationToken.m`, `...Registration.m`, `...Source.m` | requested, disposed, registrations, the delayed cancellation; a lock per token and per registration | cancel, cancel after a delay, register, dispose of a registration, of the token | blocks of the observers | observers told outside the lock while others dispose, cancel, or are told | told once; silent once disposed of; nobody waits for ever |
| Carousel, `Classes/Carousel/` | margins, item size, centred index path | prepare, content size, elements in a rectangle, invalidation, target offset | UIKit | stale margins, rounding at the ends | both ends of the row can be centred; the items laid out are the visible ones |
| Calendar, `Classes/Calendar/` | displayed day and events, fixed at launch; the layout's span and bead date; cached attributes | launch, prepare, content size, attribute lookup | MTDates, UIKit | midnight passes; days of 23 and 25 hours; a cache shorter than the data | events, span and content belong to one day |
| Launch and configuration, `AppDelegate.m`, `Classes/App Configuration/`, `TabBarControllers/` | none that changes | launch | Parse | none | - |
| Speakers; views and preview; MTDates; the rest of Parse; the test frameworks | - | - | - | - | not modelled, see section 7 |

The screen, the creator and the callbacks of downloads and uploads run on the main
thread, so each handler is atomic. Downloads, uploads and the caller's `cancel` run
beside it, on the executors of Bolts and the queues of `NSURLSession`. Tasks, tokens,
task queues, objects and queries are used by any thread: their models are as fine as
their locks, one action for what is done under a lock in one go.

## 2. The modules and the code

| Module | Models | State and code |
|---|---|---|
| `CreationRequest` | abstract: what the creator promises | a request is asked, then dropped, or picked and delivered |
| `StreamItemCreator` | `StreamItemCreator.m` | `createdItem` is the property of that name; `ui` says which of UIKit's modal views is up; `sheet` is the list of titles the action sheet was given; `available` is what `isSourceTypeAvailable:` answers; `handed` is the history of `didCreateItem:` |
| `RemoteCall` | abstract: what a command to the server promises | per call the outcome its caller knows, the requests sent, the requests carried out |
| `CommandRunner` | `PFURLSessionCommandRunner.m` with `PFURLSession.m` and the two task delegates, for one data command | `attempts` and `delay` are the parameters of `_performCommandRunningBlock:...forAttempts:`; `phase` says which block is to run next; `current` and `late` are requests on the wire |
| `SharedStream` | abstract: what the user sees | a log that grows and a view that is a beginning of it plus drafts |
| `PhotoStream` | the view controller, the downloader, the uploader and the transformer, composed with `StreamItemCreator` and one `RemoteCall` per item | `hasList` and `streamItems` are the property `streamItems` (nil or not); `shown` is what `numberOfItemsInSection:` answered at the last `reloadData`; `query` the downloads under way; `server` the objects on the server |
| `MCPhotoStream` | - | `PhotoStream` with the symmetry of queries for TLC |
| `ImageResizer` | `ImageResizer.m` | one picture and what became of it, cell by cell |
| `Carousel` | `CarouselCollectionViewLayout.m` with the sizes its controller gives it | the margins and `itemSize` are the properties of those names; `size` and `offset` are the bounds of the collection view; `valid` says that nothing was invalidated since `prepareLayout` |
| `Calendar` | `CalendarEventsProvider.m`, `CalendarViewController.m`, `CalendarCollectionViewLayout.m`, and of MTDates what they call | `displayedDay` is the provider's, `events` the controller's, the rest are the layout's properties; `now` is the clock |
| `Promise` | abstract: what a task promises those who continue it | its outcome, the continuations asked for, how often each was called |
| `Task` | `BFTask.m` | `outcome`, `callbacks`, `lock`, `condition` are the ivars and properties; `pc` is where a thread is in `trySet...`, `runContinuations` or `waitUntilFinished`; `blocks` the blocks it is in; `derived` the task each `continueWith...` returned |
| `TaskGroup` | `taskForCompletionOfAllTasks:` | `total` is the counter; `noted` the lists of errors and exceptions; `registered` how far the loop is, `at` how far each child's continuation |
| `CancellationToken` | `BFCancellationToken.m`, its registrations and source | `requested`, `disposed`, `registrations`, `scheduled` are the token's properties; `tokenLock` its lock; a registration's lock is held by the thread in its block (`inBlock`); `stage`, `todo`, `disposing` are where a thread is |
| `TaskQueue` | `PFTaskQueue.m`, `_enqueue:forObjects:` | `mutex` and `tail` per object; `phase`, `at` are where an operation is; `awaits` the task it was given |
| `ObjectSave` | `PFObject.m` with the operations it merges | `serverData`, `queue` (operationSetQueue), `estimated`, `dirty`, `childDirty` are the object's; `jobs` its task queue; `server`, `wire`, `late` are beyond it |
| `Query` | `PFQuery.m`, its controller, `thenCallBackOnMainThreadAsync:` | `source` is `_cancellationTokenSource`; `stage` and `outcome` are per leg (cache, network) of a call |
| `Bolts`, `Parse` | - | the modules of Bolts, and those of Parse, side by side, with the properties stated of them together: see section 4 |
| `MCParse`, `MCCarousel`, `MCCalendar` | - | addresses, sizes and days for TLC |
| `SequenceFacts`, `StreamItemCreatorProofs`, `ImageResizerProofs`, `CommandRunnerProofs`, `ParseProofs`, `PhotoStreamProofs`, `BoltsProofs`, `LayoutProofs` | - | lemmas, theorems and proofs; `LayoutProofs` is about `Carousel` and `Calendar` |

How they fit together:

    SharedStream   <= implemented by =   PhotoStream
                                           | INSTANCE        | INSTANCE (one per item)
    CreationRequest <= implemented by = StreamItemCreator   RemoteCall <= implemented by = CommandRunner
                                           : Degenerate
                                         ImageResizer

    Promise <= implemented by = Task        TaskGroup, CancellationToken
                                            TaskQueue, ObjectSave, Query

`Carousel` and `Calendar` stand alone, as their tabs do. The modules in the last two
lines use each other's promises: a group is made of tasks whose continuations are called
once (`Promise`); the observer in `CommandRunner` is one of a token; the operations that
`TaskQueue` lets through one at a time are the jobs of `ObjectSave`; the command of a save
is sent, repeated and lost as `RemoteCall` allows; the call of a `Query` holds a token
source, and a leg of it is a command that ends, as `CommandCompletes` says.

The chain matters: the uploads of `PhotoStream` are abstract calls, and that the
retry loop keeps what those calls promise is what `CommandRunner` is checked and
proved for. The set `Degenerate` of pictures whose resized image has no data is a
parameter of the dialogue; `ImageResizer` says which pictures these are.

### What an action stands for

`PhotoStream`: `ViewDidLoad` (viewDidLoad's download), `DidPullToRefresh`,
`QuerySucceeds`/`QueryFails` (how a query's task completes after its attempts),
`DidDownloadItems` (the downloader's block with the delegate method: replace,
reload, end refreshing, with the error ignored), `DidCreateItem` (the alert's
callback, all of it: `addObject:`, `reloadData`, `uploadStreamItem:`),
`CrashOnUpload` (the same callback when the item has no data: `addObject:` and
`reloadData` no longer matter, since the transformer raises and the process ends),
`Dialogue` (the creator's other handlers), `ServerSaves`, `UploadProceeds`,
`OtherSaves`, `Kill`.

`CommandRunner`: `RunCommand` (the first check and the random delay), `CheckToken`
(the two checks before a data task is made), `RegisterObserver`, `ResumeDataTask`,
`AttemptEnds` (`didCompleteWithError:` and the JSON delegate's classification),
`ReturnAttempt` (without the option the caller holds the attempt's task),
`ContinueAfterAttempt` (the continuation's look at the token and its block with the test
for another attempt), `DelayElapses`, `LookAtToken` and `SetOutcome` (`setupWithTask` of
`BFTask.m:344` for the tasks around the attempt, from the inside out: each retry adds two,
that of the continuation and that of its delay; the last one sets the caller's task in a
step of its own), `CancelCalled`; and of the network `RequestLands`,
`LateRequestLands`.

`Task`: `TrySet` (take the lock, set the outcome), `Broadcast` (under the condition),
`RunCallback` (the next callback, under the lock), `FinishRun` (forget the callbacks,
unlock), `Continue` (under the lock: add, or hand to the executor at once; also from a
block of the same task), `Dispatch` (a queue runs a posted block), `Return` and
`InnerCompletes` (what the block returned, or a task that is awaited), `RequestCancel` (of
a continuation's token), and `Wait`, `TakeCondition`, `Sleep`, `StopWaiting` of
`waitUntilFinished`.

`TaskGroup`: `Register` (the loop), `ChildCompletes`, `Note` (a continuation adds its
child to a list), `Count` (the decrement), `Settle` (the last one reads the lists).

`CancellationToken`: `Register`, `Cancel` (set the flag and copy the registrations under
the lock), `Notify` and `BlockEnds`, `CancelReturns`, a registration's `Dispose`,
`Unregister` and `Release`, the token's `DisposeToken`, `DisposeNext` and `TokenDisposed`,
`CancelAfterDelay` and `TimerFires`.

`TaskQueue`: `Start`, `Lock` (the mutexes in the order of their addresses), `Enqueue`,
`Unlock`, `Run`, `End` (also as cancelled, while it still waits).

`ObjectSave`: the user's `PerformOperation`, `ChildChanges` and `Revert`; `Begin` (a save
or fetch joins the task queue); `SaveNothing`, `StartSave`, `SaveChildren`,
`EndWithChildren`; `Send`, `Land`, `LandLate`; `SaveSucceeds` and `SaveFails`
(`handleSaveResultAsync:` with the merge of an answer and the roll forward of a failure);
`FetchSucceeds`, `FetchFails`.

`Query`: `FindWithBlock` (check, mark and start under one lock), `Check` and
`MarkAsRunning` (the same in two), `StartLeg`, `Answer`, `ClearSource`, `CallBack`,
`Cancel`.

## 3. The hard parts

* A download answers late. Between the query's answer and its block on the main
  thread the user may have created an item, another download may have been applied,
  an upload may have been confirmed. `ShowsPrefixAndDrafts` says what the list then
  shows, `ReadYourWrites` what an answer must contain, `SharedStream` how the list
  may change at all.
* A download fails. The block ignores the error, so the list becomes empty. This is
  what the code does; it is the refresh to the empty beginning in `SharedStream`.
* An item is created before the first download has answered. `streamItems` is nil,
  `addObject:` does nothing, the item is uploaded nevertheless (`EveryItemIsUploaded`).
* The answer of an upload is lost. The runner repeats the create, and the server may
  hold the object twice: `RemoteCall` allows it, `ServerHoldsUploads` and
  `EveryItemIsUploaded` hold with it, and no property claims otherwise.
* The process ends. Uploads under way are abandoned, requests on the wire still reach
  the server, everything kept in memory is gone; the next launch starts with nil.
* The query has neither an order nor a limit of its own. Once the server holds more
  objects than it returns, new uploads stay invisible: this is why `ReadYourWrites`
  speaks of answers shorter than the limit.
* A caller cancels between two steps of an attempt. See `OneRequestAfterCancel` and,
  for an attempt that is never heard of again, `CommandCompletes`: when `cancel`
  falls between the registration of the observer (`PFURLSessionDataTaskDelegate.m:43`)
  and `setDelegate:forDataTask:` (`PFURLSession.m:172`), the completion of the
  cancelled data task may find no delegate, and the task the caller holds never
  completes. The model reaches that state (`phase = "lost"`).
* A caller cancels while the outcome is on its way out. A continuation looks at the token
  before its block (`BFTask.m:329`) and again when it passes on the task the block returned
  (345), and sets its own task after that, without a lock. A cancellation that comes before
  the last look is reported even if the attempt succeeded; one that comes between that look
  and the setting of the caller's task is not (`CancelledIsReported`).
* Midnight passes while the calendar is open. The provider keeps the day of the launch,
  the layout asks for the day's start and end each time it is prepared and gets the
  same answers, only the bead follows the clock and leaves the day. `OneDayAgreed`
  holds because the delegate derives both answers from the provider and not from the
  clock; `HoursFillTheDay` says that nothing takes a day for 24 hours.
* The carousel changes its size. `UICollectionViewLayout` would not invalidate itself;
  the override of `shouldInvalidateLayoutForBoundsChange:` does, for either side.
* A task completes while another thread continues it. The lock is held from the test to
  the addition, and by the completing thread until the last callback has returned; a
  callback may continue the very task it runs for, which re-enters the lock and must not
  touch the array that is being enumerated (`CallbacksFrozen`). `Promise` is what is left
  of all this for a caller.
* A task completes while another thread begins to wait. `waitUntilFinished` looks at the
  task and takes the condition under the task's lock, and gives the condition up only by
  falling asleep; the broadcast needs the condition too, so it cannot come in between and be
  lost (`NoWakeUpIsLost`, and in time `NobodyWaitsForEver`).
* The last continuation of a group reads, without the lock, what others have written
  before they decremented the counter. `TaskGroup` has both: with the writes of one thread
  seen in order by another, the group reports the worst (exception, error, cancelled,
  result); without, it may miss some but invents nothing (`GroupReports`).
* A token tells its observers outside its lock, from a copy. Meanwhile an observer's
  registration is disposed of: the registration's own lock lets the block finish first,
  or not begin (`DisposeSilences`).
* An operation on several objects locks their mutexes one by one: sorted by address they
  cannot wait for each other in a circle, and all queues get operations in one order
  (`QueuesAgree`). An operation cancelled while it waits leaves the line early; the one
  behind it awaits everything before, not just its neighbour.
* The user changes an object while it is saved. The changes go to a new operation set;
  a success merges the old one into the server data, a failure puts it under the new one
  (`OwnChangesStay`, `EstimateIsUpToDate`). An increment whose request is carried out
  though its save failed is sent again; `SavedIsOnTheServer` excludes exactly that case.
* A query is cancelled and called again. The first call ends after the second has begun
  and finds a source that is not its own; it leaves it alone, so that the second can be
  cancelled too (`StaysCancellable`).

## 4. The runs

| Run | Module, configuration | Question | Size |
|---|---|---|---|
| `creator` | `StreamItemCreator` | Does every request end as it should on any device? | 148 states |
| `creator_camera_only` | same, only a camera | Does every button do what it says? No: see section 6. | violation |
| `photo_stream` | `MCPhotoStream` | Do list, spinner, uploads and server stay consistent? | 727,162 states, about a minute |
| `photo_stream_live` | `PhotoStream` | Does the spinner stop, the list arrive, every upload end? | 15,554 states |
| `command_runner` | `CommandRunner` | Does the retry loop keep the promises of a command? | 1,902 states |
| `image_resizer` | `ImageResizer` | Is every picture drawn whole, upright and to size? | 1,304 states |
| `bolts` | `Bolts` | Do tasks, groups and tokens tell everyone once, in time, and nobody after? | 54,463 states, about a minute |
| `parse` | `MCParse` | Do queues, saves, queries and the commands under them lose or reorder anything? | 82,591 states, under two minutes |
| `object_save_dirty` | `ObjectSave` with a child | Is what a failed save leaves always dirty? No. | violation |
| `query_cache_cancel` | `Query` with the cache first | Does `cancel` silence both legs? No. | violation |
| `carousel` | `MCCarousel` | Do margins, content and the range of visible items fit each other? | 2,619 states |
| `calendar` | `MCCalendar` | Do events, span and content belong to one day? | 160 states |

`Bolts` and `Parse` hold several modules that share no state. A variable `subject`,
chosen in the initial state, says which of them moves; the others stand still. The states
reached are the union of those of the parts and not their product, and every behaviour of
every part is there. Where an invariant is claimed of one instance only (a query whose calls
all have blocks, a token nobody disposes of), the property says so with
`subject = ... =>`. Fairness is that of the parts.

### Bounds, and why they are enough

* Two items (`MaxItems`): one can be a draft while the other is confirmed, both can
  be in flight. Proofs cover any number.
* Two queries at a time: enough for two answers to be applied out of order. The code
  allows one query per view load and one per pull; a pull is possible only while the
  control does not spin, but the first download or one whose spinner another
  ended may still be under way.
* Two attempts in `PhotoStream` (a retry), three in `CommandRunner` (a first, a middle,
  a last; the code has five, `PFCommandRunningConstants.m:12`).
* A limit of three objects, with up to four objects of the two items and one of
  another client: the answer is cut off in some states and not in others.
* `MaxObjects` stops only other clients: one of them may save the first object.
* One degenerate and one normal picture: all that is told apart.
* Delays are counted in units of the default delay (one second, `PFCommandRunning.m:12`);
  the first is drawn between one and two of them, so 1 and 2 are the extremes.
* Pictures up to nine by nine cells for a bound of three cover enlarging, reducing,
  both roundings and strips that vanish.
* A carousel of three items a point apart, in a view that is turned (3x5, 5x3) or only
  becomes lower (3x4), with items smaller, as large and larger than the view; every
  scroll position, half point by half point, up to four beyond either end (`MaxBounce`).
* Three threads on a task, of which two may wait: one completes, one waits, one continues,
  and two complete at once. Two continuations, one for successes only, each of which may be
  added from a block of the other. Two of them on three threads already meet in the list,
  on a queue and in a block; with three (1.4 million states) nothing else turned up.
  The condition may wake without a broadcast.
* Three children of a group: a first, a middle, a last; each of the four ways to
  complete, so any two of them and a third meet. Four were tried as well.
* Two observers, one of which asks the token from its block; two threads that may dispose of
  registrations, one that uses the timer. In the other instance one thread owns the token
  and disposes of it, and assertions are compiled out. Three observers were tried as well.
* Two objects and three operations on one or both of them: two that overlap and a third
  behind both. Three objects (272,000 states) were tried as well.
* One key, two numbers, three changes and three saves or fetches (`MaxOps`, `MaxJobs`); each
  save sends two requests (`MaxSent`), or one where the object has a child. Three changes are
  one before a save, one during it and one after; keys are merged one by one.
* Three calls on a query: one that ends, one that was cancelled, one that begins. All with
  blocks in one instance, one of them in the other, where the state may also be invalid.
* An ordinary day, one of 23 and one of 25 hours, and of each its first second, a time
  within an event, noon and its last second (`ClockReadings`).

The runner and the resizer stop when their one command or picture is done, the parts of
`Bolts` and `Parse` when every continuation, observer, operation or call has been used:
the cfg files say `CHECK_DEADLOCK FALSE` for them. That nobody is stuck there is what
`NobodyWaitsForEver` and `EveryCallEnds` say. The other systems never stop: deadlock is
checked.

### Fairness

* `WF(QuerySucceeds \/ QueryFails)` and `WF(UploadProceeds)`: every request times out
  in `NSURLSession` and there are finitely many attempts, so a query and an upload end
  one way or the other. No success is promised. That the runner ends is itself
  checked (`CommandCompletes`); the photo stream never cancels.
* `WF(DidDownloadItems)`: a block dispatched to the main queue runs while the process
  lives.
* `WF(Runner)` in `CommandRunner`: a queued block runs, a timer fires, an attempt ends.
* `WF(Proceed(t))` in `Task` and `CancellationToken`: a thread in the middle of a call goes
  on; an `@synchronized` or a condition that is free is given to somebody who waits for it.
  `WF(Dispatch)`: a queue is served. Nobody has to complete, continue, cancel or dispose.
* `WF(Register)` and `WF(Loop)` in `TaskGroup`: the loop and the continuations run. The
  children need not complete.
* Per operation in `TaskQueue`: it goes on, and one that runs ends, as a command does. That
  it is cancelled while it waits is never assumed.
* `WF(Job)` in `ObjectSave`, and per leg in `Query`: a save, a fetch or a leg ends one way
  or the other.
* Nothing is assumed of the user, of other clients, of the server, or of requests on
  the wire: they may never land.

## 5. What is proved

Every safety property of the passing runs, invariant or action property, is stated by a
theorem that TLAPS checks for every value of the constants, under the assumptions named in
the modules: `CreatorAssumption` (the marks for nothing are not values, the sources are the
library and the camera), `RemoteCallAssumption` (at least one attempt), `RunnerAssumption`,
`PhotoStreamAssumption`, which restates the first two for the instances of the composition;
`CarouselAssumption` (sizes are positive); `ResizerAssumption` (the bound is positive);
`CalendarAssumption` (midnights in order, 23 to 25 hours apart, with every reading of the
clock in some day); `TaskAssumption` (waiters are threads, success blocks are continuations,
nobody is called "nobody"); `BoltsAssumption` and `ParseAssumption`, which collect those of
the parts (a number of children; objects have different addresses; the bounds are numbers).
TLC evaluates them on every run.

| Module | Theorems |
|---|---|
| `StreamItemCreatorProofs` | `DialogueInvariant`; `DialogueYieldsThePickedItem` (the dialogue implements `CreationRequest`); `ButtonsDoWhatTheySay` |
| `ImageResizerProofs` | `ResultFitsTheBound`, `ResultIsCovered`, `ResultIsUpright` |
| `CommandRunnerProofs` | `RunnerInvariant`, `NeverSentTooOften`, `CancelStopsRetries`, `CancelIsReported`, `BackOffStaysBounded`; `RunnerImplementsCall` (the runner implements `RemoteCall`) |
| `PhotoStreamProofs` | `ScreenInvariant`, `ServerKeepsUploads`, `ViewIsPrefixAndDrafts`, `DownloadsShowUploads`, `SpinnerHasDownload`; `ScreenImplementsStream` (the screen implements `SharedStream`) |
| `ParseProofs`, calls | `RemoteCallInvariant` |
| `ParseProofs`, queues | `QueuesStayInAgreement` |
| `ParseProofs`, objects | `EstimateStaysUpToDate`, `UsersChangesStay`, `UnsavedStaysDirty`, `SavedReachesTheServer` |
| `ParseProofs`, queries | `CallsStayInOrder`, `CancelledStaySilent`, `CallsStayCancellable` |
| `BoltsProofs`, tasks | `TaskInvariant`, `ContinuationsCalledOnce`, `FailuresPropagate`, `QuietTaskFree`, `CallbacksStayFrozen`, `OutcomeSetOnce`, `WakeUpsAreNotLost`; `TaskImplementsPromise` (the safety part of the refinement) |
| `BoltsProofs`, groups and tokens | `GroupTellsTheWorst`, `TokenTellsOnce`, `DisposeIsFinal` |
| `LayoutProofs` | `CarouselInvariant`, `EndsCanBeCentred`, `VisibleItemsAreAsked`; `CalendarInvariant`, `EventsWithinTheDay`, `SeparatorsMeetTheContent` |

The theorems on Parse and on groups and tokens are about the compositions `ParseSpec` and
`BoltsSpec`, where each part does what it does alone: a lemma per part (`QueueMoves`,
`ObjectMoves`, `GroupMoves`, ...) says that a step of the composition is one of the part
or leaves it alone.

The inductive invariants, each checked by TLC before it was proved:

* Dialogue. That the alert has an item to give a title needs that the item exists
  exactly while the picker is being dismissed or the alert is up (`ItemHeldForTheAlert`).
  That a button does what it says is a fact about a step: while the sheet begins with the
  library its titles are in the order of the cases of the switch (`SheetOfDevice`).
* Resizer. Its invariant is the algorithm in one formula (`ResizerInv`). That the result
  fits is arithmetic of the rounded quotient (`QuotientBounds`, `RoundedSide`). That it is
  covered and upright follows from where one cell of the picture goes (`CellsLand`): the
  eight transforms, multiplied out (`Transforms`), take cells into the bitmap, and each
  has an inverse (`LandsWhereItComesFrom`).
* Runner. That a command is sent at most `MaxAttempts` times needs `AttemptsLeft`: the
  requests sent and the attempts left together never exceed what is allowed, by one
  less while the current attempt has yet to send. That a success is real needs
  `WireAccounts`: an answer is counted as landed before the attempt ends with it.
  `NothingOpensAfterCancel` does the same for cancellation: while an attempt is open,
  nothing has been sent since the cancel. The bound on the back-off needs `DelaysDouble`:
  the delay is the first one times a power of two, as many as attempts were used up, and
  what was waited is the sum of the series so far; and that powers of two grow
  (`TwoToGrows`). That a cancellation is reported needs `CancelIsPassedOn`: what came while
  a look was still ahead has turned the verdict by the time no look is left, however many
  tasks the retries have put around each other.
* Screen. That a list shows a beginning of the log needs that the answers still under
  way are snapshots (`AnswersAreSnapshots`: a finished answer was, and because the
  server only adds still is, a beginning of the server's objects). That a download
  shows the uploads confirmed before it needs that what was confirmed when it was
  issued has landed, that the server holds exactly what has landed
  (`StoredIsLanded`), and that an answer shorter than the limit is everything there
  is. That a draft is in neither the list nor the log needs `UnhandedIsIdle`: an item
  nobody has handed over has not been sent. The invariant includes the invariants of
  the dialogue and of the calls; their proofs are cited, not repeated.
* Task. That a continuation is called once needs `NotYetCalled`: while it is in the list
  behind the position of the enumeration, or on a queue, it has not been called, and it is
  in one of these places only. That it is called after completion, and that no callback
  stays in the list of a completed task, needs `RunsWhenCompleted`, and this needs
  `LockIsOwned`: nobody but the thread that completes the task is in the list then.
  `InProgressIsCalled` keeps a block's task from being settled twice. A success block is
  passed over or called in one step with the look at the outcome (`Enter`, a lemma of its
  own), and the outcome stays: so failures propagate. No wake-up is lost because the
  waiter holds the lock until it has the condition, and the condition until it sleeps (both
  in `LockIsOwned`), while a completion needs the lock and its broadcast the condition.
* Group (`GroupInv`). The continuation that counts down to zero is the only one, and by then
  every child is noted and completed. What it reports is `Worst` of the numbers of those it
  sees: all of them (`WorstOfAll`), or some (`WorstIsNotInvented`).
* Token (`TokenInv`). One cancellation goes through (`OneCanceller`), so an observer in its
  list has not been told by another; who is in a block is in that cancellation. That a
  disposal is final is a fact about a step: the registration's lock is free when it is
  marked (`DisposeFindsNobodyInBlock`), and a marked one is not told (`DisposedIsNotTold`).
* Task queues (`QueueInv`). An operation that enqueues holds the mutexes of all its objects
  until it is in all their lines, so nobody comes behind it meanwhile
  (`LastWhileEnqueueing`): two operations that meet in two lines meet in one order. It is in
  the lines of exactly the objects its loop has passed (`LineIsThePassed`), and it runs when
  those before it have ended (`RunsWhenReady`).
* Object (`DataInv`). The estimate is the end of a trace, one set of operations after
  another (`EstimateIsTraced`); a change prolongs the trace (`EstimateOfAppended`), and
  rolling a failed save forward shortens it to the same end (`EstimateOfRolled`), since
  merging two operations is doing one after the other (`MergeComposes`). What the user set
  last is decided by the operations alone, whatever the server's data become
  (`WishesAreDecided`). For an object without children (`Alone`) the server has what the
  object thinks, and in a save what one or several requests have made of it: setting and
  deleting twice is as good as once, incrementing is not (`ServerIsFollowed`); a new object
  is unknown to the server (`NewIsUnknown`).
* Query (`QueryInv`). A leg waits only while its predecessor is under way (`LegsInOrder`).
  With blocks, the call that is unanswered and not cancelled is the one the query holds the
  source of, and its leg is the one that will reset it (`OneCallAtATime`).
* Carousel. A prepared layout has margins that fit the sizes of the moment; every step
  that changes one of these sizes makes the layout invalid. `VisibleItemsAreAsked` is
  arithmetic of the two roundings, which go opposite ways (`Rounding`).
* Calendar. The displayed day is a midnight the clock has reached, the events are those
  of that day, and a prepared layout spans it. That a time has only one day
  (`DayOfIsUnique`) makes the delegate find the provider's day again.

`SequenceFacts` holds the lemmas on sequences these proofs share, and `NatSetInduction`:
induction over a set of numbers, from the fact that they are well ordered. With it the two
recursive functions of the models are unfolded, the powers of two (`TwoToUnfolds`) and the
estimate (`TraceExists`, `TracesAgree`).

What the proofs found in the models. `Worst` of a group, at first a `CASE` with overlapping
conditions, did not say which one is taken; `NothingInvented` was false of a group without
children, which reports success; `NothingDueOnceStopped` holds only where one thread uses
delays. The models now say so.

Only model-checked: what must eventually happen (`DownloadsEnd`, `UploadsEnd`,
`CommandCompletes`, `NobodyWaitsForEver`, `EveryCallEnds`, and of `KeepsPromise` the part
that is liveness), which is out of the prover's reach.


## 6. Findings

With a run that shows them:

* `StreamItemCreator.m:79` (`creator_camera_only`): the sheet's buttons depend on what is
  available, the switch on their index does not. With a camera and no library, "Take a
  photo" (index 0) asks for the library and presents nothing, and "Cancel" (index 1) opens
  the camera. `ButtonsKeepTheirWord` shows that the library being offered is the exact
  condition under which the buttons are right.
* `PFObject.m:1405` (`object_save_dirty`): a save in which only a child is dirty pushes an
  operation set (1402) and returns without taking it off again. When a later save fails,
  its changes are merged into a set that is not the last, `isDirty` is NO, and no save sends
  them any more.
* `PFQuery.m:803` (`query_cache_cancel`): with the cache before the network the end of the
  cache leg takes the source both legs share. Until the call ends `cancel` has nothing to
  cancel, and the network's callback comes, against `PFQuery.h:604`.

Met while modelling; the models do what the code does, no run is spent on them:

* `BFTask.m:441`: `waitUntilFinished` waits on the condition once. Should it wake without a
  broadcast, the method returns before completion, against `BFTask.h:252`. No property says
  that it returns only after completion; `NoWakeUpIsLost` says that it misses no broadcast.
* `BFCancellationToken.m:75`: registering with a cancelled token does not call the block;
  the header (line 36) says it is called immediately.
* `BFCancellationToken.m:127`: disposing of the token marks it disposed first; each
  registration then unregisters, which raises for a disposed token: the first registration
  ends the loop, and the others are never disposed of, against
  `BFCancellationTokenSource.h:53`.
* `BFCancellationToken.m:110`: a negative delay is meant to take back an earlier one
  (`BFCancellationTokenSource.h:48`), but `performSelector` is taken back only on the thread
  that asked for it.
* `BFCancellationToken.m:123` and `BFCancellationTokenRegistration.m:65`: the token's lock
  and a registration's are taken in both orders. A thread that disposes of the token and one
  whose block asks the token can wait for each other; the model deadlocks where both are
  allowed, no run allows both. Nothing in the application or in the runner disposes of
  a token.
* `PFQuery.m:786`: an invalid state raises after the source has been set, and nothing resets
  it: the query refuses every later call until it is cancelled.
* `PFQuery.h:604` again: a cancellation between the answer and the callback on the main
  thread does not stop the callback; `CancelStopsUnanswered` is what holds.
* `ImageResizer.m:74,79`: the comments give Left the EXIF number 6 and Right 8. The
  transforms are right, the numbers are swapped; `DrawnUpright` checks the right ones.

## 7. What is left out, and what is taken as given

* UIKit is external: a modal view keeps touches from what is below it, a refresh
  control reports a pull only while it does not spin, `reloadData` asks for the number
  of items before the next touch. The preview is modal too and touches no state here.
* The server only adds objects, and answers an unordered query with its oldest
  objects. No other client deletes or changes an object.
* A success is an answer of the server. A proxy that answers in the server's place is
  not modelled.
* Quartz is external, interpolation is left out, and floats are exact: a size is a
  rational rounded to the nearest integer.
* An error of the stream the answer is written to cancels the data task and is
  reported as a cancellation; the stream is in memory, and this case is not modelled.
* The application saves a PFObject once, right after it is made. `ObjectSave` models what the
  class offers beyond that, except saves that survive a restart (`saveEventually`), deletion,
  the local datastore, files, and operations on lists and relations.
* What a caller's block locks is not in the source: callbacks that wait for each other
  through the locks of several tasks are not modelled.
* Results, errors, answers and conditions of queries are not told apart beyond what decides
  the next step.
* The items of the carousel are where its arithmetic takes them to be; the attributes
  themselves are exercises without code, as are those of the calendar. While the
  item to centre on is one, the target of a scroll is the proposed offset.
* The time zone stays what it was at launch, the clock does not go back, and no day
  begins later than midnight.
* Launch, configuration, speakers, cells, layouts of the photo stream and the
  preview keep no state that changes. What else is in MTDates, the rest of Parse and the test
  frameworks are vendored and not used in a way that bears on the above.

## 8. Plan

Done: the photo stream from the screen to the retry loop; the resizer; the arithmetic of the
carousel and the calendar; tasks with the refinement of `Promise`; groups, tokens, task
queues, objects and queries; and the proofs of every safety property the passing runs check.

Next, in this order:

1. Proofs of what the runs check only in part or not at all: that no raise leaves a lock of
   the token held, that a query that is not valid stays refused until it is cancelled, that
   the jobs of an object run one at a time and in order.
2. `saveEventually` (`PFEventuallyQueue.m`): the queue on disk, restarts, and the two task
   queues that pop one list of operation sets (`PFObject.m:1273`).
3. `TaskQueue` under `ObjectSave`: saves of several objects that refer to each other.
