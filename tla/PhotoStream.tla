----------------------------- MODULE PhotoStream -----------------------------
(***************************************************************************)
(* PhotoStreamViewController with its three collaborators and the server:  *)
(* the creator's dialogue (StreamItemCreator), uploads that run in the     *)
(* background (RemoteCall), downloads that run in the background and are   *)
(* applied on the main thread in whatever order they finish.               *)
(*                                                                         *)
(* A StreamItem is named by its place in `handed`; 0 names an object some  *)
(* other client saved.  The server answers a query with its oldest         *)
(* QueryLimit objects (the query sets neither an order nor a limit).       *)
(***************************************************************************)
EXTENDS Naturals, Sequences, Functions

CONSTANTS Photo, Degenerate, Title, DeviceSource, MaxItems,  \* StreamItemCreator
          MaxAttempts,  \* RemoteCall
          Query,        \* names for the queries that are under way at a time
          QueryLimit,   \* objects the server returns to a query at most
          MaxObjects    \* bound: objects on the server when others may add one

VARIABLES ui, available, sheet, createdItem, handed,  \* StreamItemCreator
          outcome, sent, landed,                      \* RemoteCall, per item
          app,          \* "on" while the view of the controller is loaded
          hasList,      \* streamItems is not nil
          streamItems,  \* the items of streamItems, none when it is nil
          shown,        \* items the collection view counted when it reloaded
          refreshing,   \* the refresh control spins
          query,        \* the downloads under way
          server        \* the objects on the server, oldest first

ItemId == 1 .. MaxItems
Other  == 0
Object == ItemId \cup {Other}

Creator == INSTANCE StreamItemCreator
Upload  == INSTANCE RemoteCall WITH Call <- ItemId

ASSUME PhotoStreamAssumption ==
    /\ Creator!NoPhoto \notin Photo /\ Creator!NoTitle \notin Title
    /\ Degenerate \subseteq Photo /\ DeviceSource \subseteq Creator!Source
    /\ MaxItems \in Nat /\ MaxAttempts \in Nat \ {0} /\ QueryLimit \in Nat

creatorVars == <<ui, available, sheet, createdItem, handed>>
uploadVars  == <<outcome, sent, landed>>
listVars    == <<hasList, streamItems, shown, refreshing>>
vars == <<creatorVars, uploadVars, listVars, app, query, server>>

\* A download: where it stands, what the server answered, and (history) the
\* items whose upload had been confirmed when it was issued.
Download == [phase : {"idle", "running", "fetched", "failed"},
             items : Seq(Object), since : SUBSET ItemId]
IdleQuery == [phase |-> "idle", items |-> <<>>, since |-> {}]

Confirmed == {i \in ItemId : outcome[i] = "success"}

\* downloadStreamItems.
DownloadStreamItems(q) ==
    /\ query[q].phase = "idle"
    /\ query' = [query EXCEPT ![q] = [phase |-> "running", items |-> <<>>,
                                      since |-> Confirmed]]

\* Faulty: a query that asks for the newest objects.
NewestAnswer ==
    SubSeq(server, IF Len(server) < QueryLimit THEN 1
                                               ELSE Len(server) - QueryLimit + 1,
           Len(server))

\* Faulty: a query that prefers what an earlier one found.
CachedAnswer == IF hasList /\ Len(streamItems) <= QueryLimit THEN streamItems
                                                             ELSE <<>>

\* What the server answers: its oldest QueryLimit objects.
Answer == SubSeq(server, 1, IF Len(server) < QueryLimit THEN Len(server)
                                                        ELSE QueryLimit)

\* reloadData: the collection view asks for the number of items anew.
ReloadData(items) == shown' = Len(items)

-----------------------------------------------------------------------------
Init == /\ Creator!Init
        /\ Upload!Init
        /\ app = "off"
        /\ hasList = FALSE /\ streamItems = <<>> /\ shown = 0
        /\ refreshing = FALSE
        /\ query = [q \in Query |-> IdleQuery]
        /\ server = <<>>

\* init, loadView, viewDidLoad: the first download is issued with the view.
ViewDidLoad(q) ==
    /\ app = "off"
    /\ app' = "on"
    /\ DownloadStreamItems(q)
    /\ UNCHANGED <<creatorVars, uploadVars, listVars, server>>

\* UIKit reports a pull only while the control does not spin yet.
DidPullToRefresh(q) ==
    /\ app = "on" /\ ui = "stream" /\ ~refreshing
    /\ refreshing' = TRUE
    /\ DownloadStreamItems(q)
    /\ UNCHANGED <<creatorVars, uploadVars, hasList, streamItems, shown, app,
                   server>>

\* The last attempt of a query reaches the server and its answer arrives.
QuerySucceeds(q) ==
    /\ query[q].phase = "running"
    /\ query' = [query EXCEPT ![q].phase = "fetched", ![q].items = Answer]
    /\ UNCHANGED <<creatorVars, uploadVars, listVars, app, server>>

\* Every attempt of a query has failed: there are no objects, only an error.
QueryFails(q) ==
    /\ query[q].phase = "running"
    /\ query' = [query EXCEPT ![q].phase = "failed"]
    /\ UNCHANGED <<creatorVars, uploadVars, listVars, app, server>>

\* Faulty: stops the spinner only when there are objects.
DidDownloadItemsSpinning(q) ==
    /\ query[q].phase \in {"fetched", "failed"}
    /\ hasList' = TRUE
    /\ streamItems' = query[q].items
    /\ ReloadData(streamItems')
    /\ refreshing' = (refreshing /\ query[q].phase = "failed")
    /\ query' = [query EXCEPT ![q] = IdleQuery]
    /\ UNCHANGED <<creatorVars, uploadVars, app, server>>

\* The block of findObjectsInBackground on the main thread, with the call of
\* streamItemDownloader:didDownloadItems: it makes. It ignores the error.
DidDownloadItems(q) ==
    /\ query[q].phase \in {"fetched", "failed"}
    /\ hasList' = TRUE
    /\ streamItems' = query[q].items
    /\ ReloadData(streamItems')
    /\ refreshing' = FALSE
    /\ query' = [query EXCEPT ![q] = IdleQuery]
    /\ UNCHANGED <<creatorVars, uploadVars, app, server>>

\* Faulty: insertObject:atIndex: 0.
AddToFront(item) ==
    streamItems' = IF hasList THEN <<item>> \o streamItems ELSE streamItems

\* addObject: sent to nil does nothing.
AddToStreamItems(item) ==
    streamItems' = IF hasList THEN Append(streamItems, item) ELSE streamItems

\* uploadStreamItem: makes the parse object at once, then saves in the background.
UploadStreamItem(item) == Upload!Start(item)

\* The alert's delegate call: streamItemCreator:didCreateItem:.
DidCreateItem(title) ==
    /\ app = "on"
    /\ Creator!HasData(createdItem)
    /\ Creator!AlertViewClicked(title)
    /\ AddToStreamItems(Len(handed'))
    /\ ReloadData(streamItems')
    /\ UploadStreamItem(Len(handed'))
    /\ UNCHANGED <<hasList, refreshing, app, query, server>>

\* The rest of the dialogue does not reach the controller.
Dialogue ==
    /\ app = "on"
    /\ \/ Creator!CreateStreamItem
       \/ \E index \in 0 .. Len(sheet) - 1 : Creator!ActionSheetClicked(index)
       \/ \E photo \in Photo : Creator!DidFinishPicking(photo)
       \/ Creator!DidCancelPicking
       \/ Creator!ShowAlertView
       \/ \E sources \in SUBSET DeviceSource : Creator!AvailabilityChanges(sources)
    /\ UNCHANGED <<uploadVars, listVars, app, query, server>>

\* A request of an upload reaches the server, which adds an object.
ServerSaves(item) ==
    /\ Upload!Land(item)
    /\ server' = Append(server, item)
    /\ UNCHANGED <<creatorVars, listVars, app, query>>

\* Faulty: the last failed attempt is not reported.
UploadProceedsUnlessFailed(item) ==
    /\ Upload!Send(item) \/ Upload!Succeed(item)
    /\ UNCHANGED <<creatorVars, listVars, app, query, server>>

\* The runner sends, repeats or ends an upload. The controller implements neither of
\* the uploader's optional delegate methods, so nothing else happens.
UploadProceeds(item) ==
    /\ Upload!Send(item) \/ Upload!Succeed(item) \/ Upload!Fail(item)
    /\ UNCHANGED <<creatorVars, listVars, app, query, server>>

\* Another client saves an object of the same class.
OtherSaves ==
    /\ Len(server) < MaxObjects
    /\ server' = Append(server, Other)
    /\ UNCHANGED <<creatorVars, uploadVars, listVars, app, query>>

\* The process ends: what it kept in memory is gone, and the answers to what it
\* sent reach nobody. Requests on the wire still reach the server.
ProcessEnds ==
    /\ app' = "off"
    /\ ui' = "stream" /\ sheet' = <<>> /\ createdItem' = Creator!NoItem
    /\ hasList' = FALSE /\ streamItems' = <<>> /\ shown' = 0
    /\ refreshing' = FALSE
    /\ query' = [q \in Query |-> IdleQuery]
    /\ Upload!AbandonAll
    /\ UNCHANGED <<available, server>>

\* The user or iOS ends the app.
Kill == app = "on" /\ ProcessEnds /\ UNCHANGED handed

\* The title alert of an item without data: the transformer raises in
\* parseObject[key] = nil, nothing catches it, and nothing was sent.
CrashOnUpload(title) ==
    /\ app = "on"
    /\ ui = "alert"
    /\ ~Creator!HasData(createdItem)
    /\ handed' = Append(handed, Creator!TitledItem(title))
    /\ ProcessEnds

Next == \/ \E q \in Query : \/ ViewDidLoad(q)
                            \/ DidPullToRefresh(q)
                            \/ QuerySucceeds(q)
                            \/ QueryFails(q)
                            \/ DidDownloadItems(q)
        \/ Dialogue
        \/ \E title \in Title : DidCreateItem(title) \/ CrashOnUpload(title)
        \/ \E item \in ItemId : ServerSaves(item) \/ UploadProceeds(item)
        \/ OtherSaves
        \/ Kill

\* A query and an upload end, since every attempt times out and there are at
\* most MaxAttempts of them; the main thread keeps taking callbacks.
Fairness == /\ \A q \in Query : /\ WF_vars(QuerySucceeds(q) \/ QueryFails(q))
                                /\ WF_vars(DidDownloadItems(q))
            /\ \A item \in ItemId : WF_vars(UploadProceeds(item))

Spec == Init /\ [][Next]_vars
FairSpec == Spec /\ Fairness

-----------------------------------------------------------------------------
(***************************************************************************)
(* Properties                                                              *)
(***************************************************************************)

\* The shape of the state.
TypeOK == /\ Creator!TypeOK
          /\ Upload!TypeOK
          /\ app \in {"on", "off"}
          /\ hasList \in BOOLEAN
          /\ streamItems \in Seq(Object)
          /\ shown \in Nat
          /\ refreshing \in BOOLEAN
          /\ query \in [Query -> Download]
          /\ server \in Seq(Object)

\* The collection view never counts on an item that is not in streamItems:
\* numberOfItemsInSection:, cellForItemAtIndexPath: and didSelectItemAtIndexPath:
\* agree although downloads replace the list at any moment.
ShownIsTheList == /\ shown = Len(streamItems)
                  /\ ~hasList => streamItems = <<>>

\* While the refresh control spins, a download is under way whose callback will
\* stop it.
SpinnerMeansDownload ==
    refreshing => app = "on" /\ \E q \in Query : query[q].phase # "idle"

\* Every item handed over is being uploaded or has been; only an item without
\* data is not, and that one ends the process.
EveryItemIsUploaded ==
    \A i \in 1 .. Len(handed) : Creator!HasData(handed[i]) <=> outcome[i] # "idle"

\* The server holds an object of each item per request that reached it, so an
\* item is lost only if its upload was reported as failed or the process ended.
ServerHoldsUploads ==
    \A i \in ItemId :
       /\ outcome[i] = "success" => i \in Range(server)
       /\ i \in Range(server) => /\ i <= Len(handed)
                                 /\ outcome[i] # "idle"

\* What the list shows: a prefix of the server's objects as some download found
\* them (nothing after a failed one), then the items created since, each once
\* and none that the prefix shows already.
PrefixAndDrafts(k) ==
    /\ k <= QueryLimit /\ k <= Len(server)
    /\ \A n \in 1 .. k : streamItems[n] = server[n]
    /\ \A n \in k + 1 .. Len(streamItems) :
          /\ streamItems[n] \in 1 .. Len(handed)
          /\ \A m \in 1 .. n - 1 : streamItems[m] # streamItems[n]

ShowsPrefixAndDrafts == \E k \in 0 .. Len(streamItems) : PrefixAndDrafts(k)

\* A download shows every upload confirmed before it was issued, unless the
\* answer is as long as an answer can be.
ShowsWrites(d) ==
    d.phase = "fetched" /\ Len(d.items) < QueryLimit
       => d.since \subseteq Range(d.items)

ReadYourWrites == \A q \in Query : ShowsWrites(query[q])

\* An item that has not been handed over has not been uploaded either.
UnhandedIsIdle == \A i \in ItemId : i > Len(handed) => outcome[i] = "idle"

\* The server has an object of exactly the items a request of which it carried out.
StoredIsLanded == \A i \in ItemId : landed[i] > 0 <=> i \in Range(server)

\* A finished download holds the server's objects as they were and still are, for
\* the server only adds; and the uploads confirmed when it was issued have landed.
IsSnapshot(d) ==
    /\ d.phase # "fetched" => d.items = <<>>
    /\ Len(d.items) <= QueryLimit /\ Len(d.items) <= Len(server)
    /\ \A n \in 1 .. Len(d.items) : d.items[n] = server[n]
    /\ \A i \in d.since : landed[i] > 0

AnswersAreSnapshots == \A q \in Query : IsSnapshot(query[q])

\* The inductive invariant of the screen: the dialogue's and the uploads', the
\* safety properties above, and what their preservation needs besides.
Inv == /\ TypeOK
       /\ Creator!Inv
       /\ Upload!Inv
       /\ ShownIsTheList /\ SpinnerMeansDownload
       /\ EveryItemIsUploaded /\ UnhandedIsIdle
       /\ StoredIsLanded /\ AnswersAreSnapshots
       /\ ReadYourWrites /\ ShowsPrefixAndDrafts

\* The spinner stops, and the first download ends with a list even when it fails.
DownloadsEnd == /\ refreshing ~> ~refreshing
                /\ app = "on" ~> hasList \/ app = "off"

\* Every upload is confirmed, given up or abandoned.
UploadsEnd == \A i \in ItemId : outcome[i] = "pending" ~> outcome[i] # "pending"

Stream == INSTANCE SharedStream WITH log <- server, view <- streamItems
\* The list changes only the way the shared stream allows.
ImplementsSharedStream == Stream!Spec
=============================================================================
