-------------------------- MODULE PhotoStreamProofs --------------------------
(* Proofs about the photo stream screen. *)
EXTENDS PhotoStream, SequenceFacts, TLAPS

CreatorProofs == INSTANCE StreamItemCreatorProofs

\* Every step of the uploads keeps what RemoteCall says of them.
LEMMA UploadKeepsInv ==
    /\ Upload!Init => Upload!Inv
    /\ Upload!Inv /\ [Upload!Next]_uploadVars => Upload!Inv'
<1> USE PhotoStreamAssumption DEF uploadVars, Upload!callVars, Upload!Inv, Upload!TypeOK,
        Upload!LandsAtMostAsSent, Upload!SuccessIsReal, Upload!IdleIsUnsent, Upload!Outcome,
        Upload!RemoteCallAssumption
<1>1. Upload!Init => Upload!Inv
  BY DEF Upload!Init
<1>2. ASSUME Upload!Inv, [Upload!Next]_uploadVars PROVE Upload!Inv'
  <2>1. ASSUME NEW c \in ItemId, Upload!Start(c) PROVE Upload!Inv'
    BY <1>2, <2>1 DEF Upload!Start
  <2>2. ASSUME NEW c \in ItemId, Upload!Send(c) PROVE Upload!Inv'
    BY <1>2, <2>2 DEF Upload!Send
  <2>3. ASSUME NEW c \in ItemId, Upload!Land(c) PROVE Upload!Inv'
    BY <1>2, <2>3 DEF Upload!Land
  <2>4. ASSUME NEW c \in ItemId, Upload!Succeed(c) PROVE Upload!Inv'
    BY <1>2, <2>4 DEF Upload!Succeed
  <2>5. ASSUME NEW c \in ItemId, Upload!Fail(c) PROVE Upload!Inv'
    BY <1>2, <2>5 DEF Upload!Fail
  <2>6. CASE Upload!AbandonAll
    BY <1>2, <2>6 DEF Upload!AbandonAll
  <2>7. CASE UNCHANGED uploadVars
    BY <1>2, <2>7
  <2> QED BY <1>2, <2>1, <2>2, <2>3, <2>4, <2>5, <2>6, <2>7 DEF Upload!Next
<1> QED BY <1>1, <1>2

\* What is proved of the dialogue holds of the dialogue of the screen.
LEMMA CreatorKeepsInv ==
    /\ Creator!Init => Creator!Inv
    /\ Creator!Inv /\ [Creator!Next]_creatorVars => Creator!Inv'
BY CreatorProofs!InitInv, CreatorProofs!NextKeepsInv, PhotoStreamAssumption
   DEF creatorVars,
       Creator!creatorVars, Creator!Init, Creator!Next,
       Creator!CreateStreamItem, Creator!ActionSheetClicked,
       Creator!DidFinishPicking, Creator!DidCancelPicking,
       Creator!ShowAlertView, Creator!AlertViewClicked, Creator!TitledItem,
       Creator!AvailabilityChanges, Creator!PresentImagePicker,
       Creator!SourceAtIndex, Creator!ActionSheetButtons, Creator!Inv,
       Creator!TypeOK, Creator!ItemHeldForTheAlert, Creator!Screen,
       Creator!Source, Creator!Button, Creator!NoItem, Creator!NoPhoto,
       Creator!NoTitle, Creator!Item, Creator!Titled,
       Creator!CreatorAssumption, CreatorProofs!creatorVars,
       CreatorProofs!Init, CreatorProofs!Next,
       CreatorProofs!CreateStreamItem, CreatorProofs!ActionSheetClicked,
       CreatorProofs!DidFinishPicking, CreatorProofs!DidCancelPicking,
       CreatorProofs!ShowAlertView, CreatorProofs!AlertViewClicked,
       CreatorProofs!TitledItem, CreatorProofs!AvailabilityChanges,
       CreatorProofs!PresentImagePicker, CreatorProofs!SourceAtIndex,
       CreatorProofs!ActionSheetButtons, CreatorProofs!Inv,
       CreatorProofs!TypeOK, CreatorProofs!ItemHeldForTheAlert,
       CreatorProofs!Screen, CreatorProofs!Source, CreatorProofs!Button,
       CreatorProofs!NoItem, CreatorProofs!NoPhoto, CreatorProofs!NoTitle,
       CreatorProofs!Item, CreatorProofs!Titled,
       CreatorProofs!CreatorAssumption

\* Seen by the dialogue every step is one of its handlers, or the end of the
\* process while no item is handed over.
LEMMA IsCreatorStep == Inv /\ [Next]_vars => [Creator!Next]_creatorVars \/ Kill
<1> SUFFICES ASSUME Inv, [Next]_vars
             PROVE  Creator!Next \/ UNCHANGED creatorVars \/ Kill
  OBVIOUS
<1>1. ASSUME NEW q \in Query,
             \/ ViewDidLoad(q) \/ DidPullToRefresh(q) \/ QuerySucceeds(q)
             \/ QueryFails(q) \/ DidDownloadItems(q)
      PROVE  UNCHANGED creatorVars
  BY <1>1 DEF ViewDidLoad, DidPullToRefresh, QuerySucceeds, QueryFails,
              DidDownloadItems
<1>2. CASE Dialogue
  BY <1>2 DEF Dialogue, Creator!Next
<1>3. ASSUME NEW title \in Title, DidCreateItem(title) PROVE Creator!Next
  BY <1>3 DEF DidCreateItem, Creator!Next
<1>4. ASSUME NEW title \in Title, CrashOnUpload(title) PROVE Creator!Next
  <2>1. ui = "alert" /\ sheet = <<>>
    BY <1>4 DEF CrashOnUpload, Inv, Creator!Inv, Creator!TypeOK
  <2>2. Creator!AlertViewClicked(title)
    BY <1>4, <2>1 DEF CrashOnUpload, ProcessEnds, Creator!AlertViewClicked
  <2> QED BY <2>2 DEF Creator!Next
<1>5. ASSUME NEW item \in ItemId, ServerSaves(item) \/ UploadProceeds(item)
      PROVE  UNCHANGED creatorVars
  BY <1>5 DEF ServerSaves, UploadProceeds
<1>6. CASE OtherSaves
  BY <1>6 DEF OtherSaves
<1>7. CASE UNCHANGED vars
  BY <1>7 DEF vars
<1> QED BY <1>1, <1>2, <1>3, <1>4, <1>5, <1>6, <1>7 DEF Next

\* The alert hands over the next item, and there is room for it.
LEMMA NextItemId ==
    ASSUME Inv, NEW title, ui = "alert",
           handed' = Append(handed, Creator!TitledItem(title)), title \in Title
    PROVE  /\ Len(handed') = Len(handed) + 1 /\ Len(handed') \in ItemId
           /\ handed \in Seq(Creator!Titled) /\ Len(handed) \in Nat
           /\ Creator!TitledItem(title) \in Creator!Titled
           /\ Creator!TitledItem(title).photo = createdItem.photo
<1>1. /\ handed \in Seq(Creator!Titled) /\ Len(handed) < MaxItems
      /\ createdItem \in Creator!Item /\ createdItem # Creator!NoItem
  BY DEF Inv, Creator!Inv, Creator!TypeOK, Creator!ItemHeldForTheAlert
<1>2. /\ Creator!TitledItem(title) \in Creator!Titled
      /\ Creator!TitledItem(title).photo = createdItem.photo
  BY <1>1 DEF Creator!TitledItem, Creator!Titled, Creator!Item
<1>3. Len(handed') = Len(handed) + 1 /\ Len(handed) \in Nat
  BY <1>1, <1>2, AppendType
<1> QED BY <1>1, <1>2, <1>3, PhotoStreamAssumption DEF ItemId

\* Seen by the uploads every step is one of theirs.
LEMMA IsUploadStep == Inv /\ [Next]_vars => [Upload!Next]_uploadVars
<1> SUFFICES ASSUME Inv, [Next]_vars PROVE Upload!Next \/ UNCHANGED uploadVars
  OBVIOUS
<1>1. ASSUME NEW q \in Query,
             \/ ViewDidLoad(q) \/ DidPullToRefresh(q) \/ QuerySucceeds(q)
             \/ QueryFails(q) \/ DidDownloadItems(q)
      PROVE  UNCHANGED uploadVars
  BY <1>1 DEF ViewDidLoad, DidPullToRefresh, QuerySucceeds, QueryFails,
              DidDownloadItems
<1>2. CASE Dialogue
  BY <1>2 DEF Dialogue
<1>3. ASSUME NEW title \in Title, DidCreateItem(title) PROVE Upload!Next
  <2>1. Upload!Start(Len(handed'))
    BY <1>3 DEF DidCreateItem, UploadStreamItem
  <2>2. Len(handed') \in ItemId
    BY <1>3, NextItemId DEF DidCreateItem, Creator!AlertViewClicked
  <2> QED BY <2>1, <2>2 DEF Upload!Next
<1>4. ASSUME NEW title \in Title, CrashOnUpload(title) PROVE Upload!Next
  BY <1>4 DEF CrashOnUpload, ProcessEnds, Upload!Next
<1>5. ASSUME NEW item \in ItemId, ServerSaves(item) \/ UploadProceeds(item)
      PROVE  Upload!Next
  BY <1>5 DEF ServerSaves, UploadProceeds, Upload!Next
<1>6. CASE OtherSaves
  BY <1>6 DEF OtherSaves
<1>7. CASE Kill
  BY <1>7 DEF Kill, ProcessEnds, Upload!Next
<1>8. CASE UNCHANGED vars
  BY <1>8 DEF vars
<1> QED BY <1>1, <1>2, <1>3, <1>4, <1>5, <1>6, <1>7, <1>8 DEF Next

\* The dialogue's invariant is kept; the end of the process resets the dialogue.
LEMMA CreatorPart == Inv /\ [Next]_vars => Creator!Inv'
<1> SUFFICES ASSUME Inv, [Next]_vars PROVE Creator!Inv'
  OBVIOUS
<1>1. Creator!Inv
  BY DEF Inv
<1>2. CASE [Creator!Next]_creatorVars
  BY <1>1, <1>2, CreatorKeepsInv
<1>3. CASE Kill
  <2>1. /\ ui' = "stream" /\ sheet' = <<>> /\ createdItem' = Creator!NoItem
        /\ available' = available /\ handed' = handed
    BY <1>3 DEF Kill, ProcessEnds
  <2>2. sheet' \in Seq(Creator!Button)
    BY <2>1, EmptySeqType
  <2>3. /\ available \in SUBSET DeviceSource
        /\ handed \in Seq(Creator!Titled) /\ Len(handed) <= MaxItems
    BY <1>1 DEF Creator!Inv, Creator!TypeOK
  <2> QED BY <2>1, <2>2, <2>3
          DEF Creator!Inv, Creator!TypeOK, Creator!ItemHeldForTheAlert,
              Creator!Screen, Creator!NoItem
<1> QED BY <1>2, <1>3, IsCreatorStep

\* The uploads' invariant is kept.
LEMMA UploadPart == Inv /\ [Next]_vars => Upload!Inv'
BY IsUploadStep, UploadKeepsInv DEF Inv

\* Only a save reaches the server, and it adds one object at the end.
LEMMA ServerPart ==
    ASSUME Inv, [Next]_vars
    PROVE  /\ server' \in Seq(Object) /\ StoredIsLanded'
           /\ Len(server) <= Len(server')
           /\ \A n \in 1 .. Len(server) : server'[n] = server[n]
           /\ \A i \in ItemId : landed[i] <= landed'[i]
<1> DEFINE Kept == UNCHANGED <<server, landed>>
           Saves(e) == server' = Append(server, e)
<1>0. /\ server \in Seq(Object) /\ StoredIsLanded /\ Len(server) \in Nat
      /\ landed \in [ItemId -> 0 .. MaxAttempts] /\ MaxAttempts \in Nat
      /\ \A i \in ItemId : landed[i] \in Nat
  BY PhotoStreamAssumption DEF Inv, TypeOK, Upload!TypeOK
<1>1. CASE Kept
  BY <1>0, <1>1 DEF StoredIsLanded
<1>2. ASSUME NEW item \in ItemId, ServerSaves(item)
      PROVE  /\ server' = Append(server, item)
             /\ landed' = [landed EXCEPT ![item] = @ + 1]
  BY <1>2 DEF ServerSaves, Upload!Land
<1>3. ASSUME NEW item \in ItemId, ServerSaves(item)
      PROVE  /\ server' \in Seq(Object) /\ StoredIsLanded'
             /\ Len(server) <= Len(server')
             /\ \A n \in 1 .. Len(server) : server'[n] = server[n]
             /\ \A i \in ItemId : landed[i] <= landed'[i]
  <2>1. server' = Append(server, item) /\ item \in Object
    BY <1>2, <1>3 DEF Object
  <2>2. /\ server' \in Seq(Object) /\ Len(server') = Len(server) + 1
        /\ \A n \in 1 .. Len(server) : server'[n] = server[n]
        /\ Range(server') = Range(server) \cup {item}
    BY <1>0, <2>1, AppendType, RangeOfAppend
  <2>3. /\ \A i \in ItemId : landed[i] <= landed'[i]
        /\ \A i \in ItemId : landed'[i] > 0 <=> landed[i] > 0 \/ i = item
    BY <1>0, <1>2, <1>3
  <2>4. StoredIsLanded'
    BY <1>0, <2>2, <2>3 DEF StoredIsLanded
  <2> QED BY <1>0, <2>2, <2>3, <2>4
<1>4. CASE OtherSaves
  <2>1. server' = Append(server, Other) /\ landed' = landed /\ Other \in Object
    BY <1>4 DEF OtherSaves, uploadVars, Object
  <2>2. /\ server' \in Seq(Object) /\ Len(server') = Len(server) + 1
        /\ \A n \in 1 .. Len(server) : server'[n] = server[n]
        /\ Range(server') = Range(server) \cup {Other}
    BY <1>0, <2>1, AppendType, RangeOfAppend
  <2>3. Other \notin ItemId
    BY PhotoStreamAssumption DEF Other, ItemId
  <2>4. StoredIsLanded'
    BY <1>0, <2>1, <2>2, <2>3 DEF StoredIsLanded
  <2> QED BY <1>0, <2>1, <2>2, <2>4
<1>5. ASSUME NEW q \in Query,
             \/ ViewDidLoad(q) \/ DidPullToRefresh(q) \/ QuerySucceeds(q)
             \/ QueryFails(q) \/ DidDownloadItems(q)
      PROVE  Kept
  BY <1>5 DEF ViewDidLoad, DidPullToRefresh, QuerySucceeds, QueryFails,
              DidDownloadItems, uploadVars
<1>6. ASSUME NEW title \in Title, DidCreateItem(title) \/ CrashOnUpload(title)
      PROVE  Kept
  BY <1>6 DEF DidCreateItem, UploadStreamItem, Upload!Start, CrashOnUpload,
              ProcessEnds, Upload!AbandonAll
<1>7. ASSUME NEW item \in ItemId, UploadProceeds(item) PROVE Kept
  BY <1>7 DEF UploadProceeds, Upload!Send, Upload!Succeed, Upload!Fail
<1>8. Dialogue \/ Kill \/ UNCHANGED vars => Kept
  BY DEF Dialogue, Kill, ProcessEnds, Upload!AbandonAll, vars, uploadVars
<1> QED BY <1>1, <1>3, <1>4, <1>5, <1>6, <1>7, <1>8 DEF Next

\* A hand-over that treats the new item as its data demand, and no other item.
LEMMA HandOver ==
    ASSUME EveryItemIsUploaded, UnhandedIsIdle, Len(handed) \in 0 .. MaxItems,
           Len(handed') = Len(handed) + 1, Len(handed') \in ItemId,
           \A n \in 1 .. Len(handed) : handed'[n] = handed[n],
           \A i \in ItemId : i # Len(handed')
                               => (outcome'[i] = "idle" <=> outcome[i] = "idle"),
           Creator!HasData(handed'[Len(handed')])
              <=> outcome'[Len(handed')] # "idle"
    PROVE  EveryItemIsUploaded' /\ UnhandedIsIdle'
<1>1. UnhandedIsIdle'
  BY PhotoStreamAssumption DEF UnhandedIsIdle, ItemId
<1>2. ASSUME NEW n \in 1 .. Len(handed')
      PROVE  (Creator!HasData(handed[n]) <=> outcome[n] # "idle")'
  <2>1. CASE n = Len(handed')
    BY <2>1 DEF Creator!HasData
  <2>2. CASE n # Len(handed')
    <3>1. n \in 1 .. Len(handed) /\ n \in ItemId
      BY <1>2, <2>2, PhotoStreamAssumption DEF ItemId
    <3> QED BY <2>2, <3>1 DEF EveryItemIsUploaded, Creator!HasData
  <2> QED BY <2>1, <2>2
<1> QED BY <1>1, <1>2 DEF EveryItemIsUploaded

\* What a hand-over does to the items: the new one is uploaded or has no data.
LEMMA ItemsPart ==
    ASSUME Inv, [Next]_vars
    PROVE  EveryItemIsUploaded' /\ UnhandedIsIdle'
<1> DEFINE Same == handed' = handed
           IdleStays == \A i \in ItemId : outcome'[i] = "idle" <=> outcome[i] = "idle"
<1>0. /\ EveryItemIsUploaded /\ UnhandedIsIdle
      /\ outcome \in [ItemId -> Upload!Outcome]
      /\ handed \in Seq(Creator!Titled) /\ Len(handed) \in 0 .. MaxItems
      /\ \A n \in 1 .. Len(handed) : n \in ItemId
  <2>1. handed \in Seq(Creator!Titled) /\ Len(handed) <= MaxItems
    BY DEF Inv, TypeOK, Creator!TypeOK
  <2>2. Len(handed) \in Nat
    BY <2>1
  <2> QED BY <2>1, <2>2, PhotoStreamAssumption
          DEF Inv, TypeOK, Upload!TypeOK, ItemId
<1>1. Same /\ IdleStays => EveryItemIsUploaded' /\ UnhandedIsIdle'
  BY <1>0 DEF EveryItemIsUploaded, UnhandedIsIdle, Creator!HasData
<1>2. ASSUME NEW title \in Title, DidCreateItem(title) \/ CrashOnUpload(title)
      PROVE  /\ Len(handed') = Len(handed) + 1 /\ Len(handed') \in ItemId
             /\ \A n \in 1 .. Len(handed) : handed'[n] = handed[n]
             /\ Creator!HasData(handed'[Len(handed')]) <=> Creator!HasData(createdItem)
  <2>1. ui = "alert" /\ handed' = Append(handed, Creator!TitledItem(title))
    BY <1>2 DEF DidCreateItem, CrashOnUpload, Creator!AlertViewClicked
  <2>2. /\ Len(handed') = Len(handed) + 1 /\ Len(handed') \in ItemId
        /\ Creator!TitledItem(title) \in Creator!Titled
        /\ Creator!TitledItem(title).photo = createdItem.photo
    BY <2>1, NextItemId
  <2>3. /\ \A n \in 1 .. Len(handed) : handed'[n] = handed[n]
        /\ handed'[Len(handed) + 1] = Creator!TitledItem(title)
    BY <1>0, <2>1, <2>2, AppendType
  <2> QED BY <2>2, <2>3 DEF Creator!HasData
<1>3. ASSUME NEW title \in Title, DidCreateItem(title)
      PROVE  EveryItemIsUploaded' /\ UnhandedIsIdle'
  <2>1. Creator!HasData(createdItem) /\ Upload!Start(Len(handed'))
    BY <1>3 DEF DidCreateItem, UploadStreamItem
  <2>2. \A i \in ItemId :
           outcome'[i] = IF i = Len(handed') THEN "pending" ELSE outcome[i]
    BY <1>0, <2>1 DEF Upload!Start
  <2>3. outcome'[Len(handed')] = "pending"
    BY <1>2, <1>3, <2>2
  <2> QED BY <1>0, <1>2, <1>3, <2>1, <2>2, <2>3, HandOver
<1>4. ASSUME NEW title \in Title, CrashOnUpload(title)
      PROVE  EveryItemIsUploaded' /\ UnhandedIsIdle'
  <2>1. ~Creator!HasData(createdItem) /\ IdleStays
    BY <1>4 DEF CrashOnUpload, ProcessEnds, Upload!AbandonAll
  <2>2. outcome'[Len(handed')] = "idle"
    BY <1>0, <1>2, <1>4, <2>1 DEF UnhandedIsIdle
  <2> QED BY <1>0, <1>2, <1>4, <2>1, <2>2, HandOver
<1>5. ASSUME NEW q \in Query,
             \/ ViewDidLoad(q) \/ DidPullToRefresh(q) \/ QuerySucceeds(q)
             \/ QueryFails(q) \/ DidDownloadItems(q)
      PROVE  Same /\ IdleStays
  BY <1>5 DEF ViewDidLoad, DidPullToRefresh, QuerySucceeds, QueryFails,
              DidDownloadItems, uploadVars, creatorVars
<1>6. ASSUME NEW item \in ItemId, ServerSaves(item) \/ UploadProceeds(item)
      PROVE  Same /\ IdleStays
  BY <1>0, <1>6 DEF ServerSaves, UploadProceeds, creatorVars, Upload!Outcome,
         Upload!Land, Upload!Send, Upload!Succeed, Upload!Fail
<1>7. CASE Dialogue
  BY <1>7, <1>1 DEF Dialogue, uploadVars, Creator!CreateStreamItem,
     Creator!ActionSheetClicked, Creator!DidFinishPicking,
     Creator!DidCancelPicking, Creator!ShowAlertView, Creator!AvailabilityChanges
<1>8. CASE Kill
  BY <1>8, <1>1 DEF Kill, ProcessEnds, Upload!AbandonAll
<1>9. OtherSaves \/ UNCHANGED vars => Same /\ IdleStays
  BY DEF OtherSaves, vars, creatorVars, uploadVars
<1> QED BY <1>1, <1>3, <1>4, <1>5, <1>6, <1>7, <1>8, <1>9 DEF Next

\* A success is on the server, and whatever of an item is on the server was
\* handed over and uploaded.
LEMMA UploadsAreHeld == Inv => ServerHoldsUploads
<1> SUFFICES ASSUME Inv, NEW i \in ItemId
             PROVE  /\ outcome[i] = "success" => i \in Range(server)
                    /\ i \in Range(server) => /\ i <= Len(handed)
                                               /\ outcome[i] # "idle"
  BY DEF ServerHoldsUploads
<1>1. /\ outcome[i] = "success" => landed[i] > 0
      /\ landed[i] <= sent[i] /\ landed[i] \in Nat /\ sent[i] \in Nat
      /\ outcome[i] = "idle" => sent[i] = 0
      /\ landed[i] > 0 <=> i \in Range(server)
  BY PhotoStreamAssumption DEF Inv, Upload!Inv, Upload!TypeOK,
     Upload!LandsAtMostAsSent, Upload!SuccessIsReal, Upload!IdleIsUnsent,
     StoredIsLanded
<1>2. i > Len(handed) => outcome[i] = "idle"
  BY DEF Inv, UnhandedIsIdle
<1>3. Len(handed) \in Nat /\ i \in Nat
  BY DEF Inv, Creator!Inv, Creator!TypeOK, ItemId
<1> QED BY <1>1, <1>2, <1>3

\* Whatever happens to a download in a step.
LEMMA QueryStep ==
    ASSUME Inv, [Next]_vars, NEW q \in Query
    PROVE  \/ query'[q] = query[q]
           \/ query'[q] = IdleQuery
           \/ query'[q] = [phase |-> "running", items |-> <<>>, since |-> Confirmed]
           \/ /\ server' = server
              /\ query'[q] = [phase |-> "fetched", items |-> Answer,
                              since |-> query[q].since]
           \/ query'[q] = [phase |-> "failed", items |-> <<>>,
                           since |-> query[q].since]
<1>0. /\ query \in [Query -> Download]
      /\ \A p \in Query : query[p].phase # "fetched" => query[p].items = <<>>
  BY DEF Inv, TypeOK, AnswersAreSnapshots, IsSnapshot
<1>1. ASSUME NEW p \in Query, ViewDidLoad(p) \/ DidPullToRefresh(p)
      PROVE  \/ query'[q] = query[q]
             \/ query'[q] = [phase |-> "running", items |-> <<>>, since |-> Confirmed]
  BY <1>0, <1>1 DEF ViewDidLoad, DidPullToRefresh, DownloadStreamItems
<1>2. ASSUME NEW p \in Query, QuerySucceeds(p)
      PROVE  /\ server' = server
             /\ \/ query'[q] = query[q]
                \/ query'[q] = [phase |-> "fetched", items |-> Answer,
                                since |-> query[q].since]
  BY <1>0, <1>2 DEF QuerySucceeds, Download
<1>3. ASSUME NEW p \in Query, QueryFails(p)
      PROVE  \/ query'[q] = query[q]
             \/ query'[q] = [phase |-> "failed", items |-> <<>>,
                             since |-> query[q].since]
  BY <1>0, <1>3 DEF QueryFails, Download
<1>4. ASSUME NEW p \in Query, DidDownloadItems(p)
      PROVE  query'[q] = query[q] \/ query'[q] = IdleQuery
  BY <1>0, <1>4 DEF DidDownloadItems
<1>5. ASSUME NEW title \in Title, DidCreateItem(title) \/ CrashOnUpload(title)
      PROVE  query'[q] = query[q] \/ query'[q] = IdleQuery
  BY <1>5 DEF DidCreateItem, CrashOnUpload, ProcessEnds
<1>6. ASSUME NEW item \in ItemId, ServerSaves(item) \/ UploadProceeds(item)
      PROVE  query'[q] = query[q]
  BY <1>6 DEF ServerSaves, UploadProceeds
<1>7. Dialogue \/ Kill \/ OtherSaves \/ UNCHANGED vars
         => query'[q] = query[q] \/ query'[q] = IdleQuery
  BY DEF Dialogue, Kill, ProcessEnds, OtherSaves, vars
<1> QED BY <1>1, <1>2, <1>3, <1>4, <1>5, <1>6, <1>7 DEF Next

\* What the server answers is a beginning of what it has.
LEMMA AnswerType ==
    ASSUME Inv
    PROVE  /\ Answer \in Seq(Object)
           /\ Len(Answer) <= QueryLimit /\ Len(Answer) <= Len(server)
           /\ \A n \in 1 .. Len(Answer) : Answer[n] = server[n]
           /\ Len(Answer) < QueryLimit => Range(server) \subseteq Range(Answer)
<1> DEFINE k == IF Len(server) < QueryLimit THEN Len(server) ELSE QueryLimit
<1>1. server \in Seq(Object) /\ Len(server) \in Nat /\ QueryLimit \in Nat
  BY PhotoStreamAssumption DEF Inv, TypeOK
<1>2. k \in 0 .. Len(server) /\ k <= QueryLimit
  BY <1>1
<1>3. /\ Answer \in Seq(Object) /\ Len(Answer) = k
      /\ \A n \in 1 .. k : Answer[n] = server[n]
  BY <1>1, <1>2, PrefixType DEF Answer
<1>4. ASSUME Len(Answer) < QueryLimit PROVE Range(server) \subseteq Range(Answer)
  <2>1. k = Len(server)
    BY <1>1, <1>3, <1>4
  <2>2. /\ Range(server) = {server[n] : n \in 1 .. Len(server)}
        /\ Range(Answer) = {Answer[n] : n \in 1 .. Len(Answer)}
    BY <1>1, <1>3, RangeOfSeq
  <2> QED BY <1>3, <2>1, <2>2
<1> QED BY <1>1, <1>2, <1>3, <1>4

\* Every download keeps its type, holds a beginning of the server's objects and
\* shows the uploads that were confirmed when it was issued.
LEMMA QueryPart ==
    ASSUME Inv, [Next]_vars
    PROVE  query' \in [Query -> Download] /\ AnswersAreSnapshots' /\ ReadYourWrites'
<1>0. /\ query \in [Query -> Download] /\ server \in Seq(Object)
      /\ AnswersAreSnapshots /\ ReadYourWrites
      /\ Confirmed \in SUBSET ItemId /\ QueryLimit \in Nat
      /\ Len(server) \in Nat /\ Len(server') \in Nat
      /\ \A i \in ItemId : landed[i] \in Nat /\ landed'[i] \in Nat
  BY ServerPart, UploadPart, PhotoStreamAssumption
     DEF Inv, TypeOK, Confirmed, Upload!Inv, Upload!TypeOK
<1>1. query' = [q \in Query |-> query'[q]]
  BY <1>0 DEF Next, vars, ViewDidLoad, DidPullToRefresh, DownloadStreamItems,
     QuerySucceeds, QueryFails, DidDownloadItems, DidCreateItem, CrashOnUpload,
     ProcessEnds, Kill, Dialogue, ServerSaves, UploadProceeds, OtherSaves
<1>2. ASSUME NEW q \in Query
      PROVE  query'[q] \in Download /\ IsSnapshot(query[q])' /\ ShowsWrites(query[q])'
  <2> DEFINE d == query[q]
             e == query'[q]
  <2>0. /\ d \in Download /\ IsSnapshot(d) /\ ShowsWrites(d)
        /\ d.items \in Seq(Object) /\ Len(d.items) \in Nat
    BY <1>0 DEF AnswersAreSnapshots, ReadYourWrites, Download
  <2>a. \A i \in ItemId : landed[i] > 0 => landed'[i] > 0
    BY <1>0, ServerPart
  <2>b. /\ d.since \in SUBSET ItemId
        /\ \A i \in d.since : landed'[i] > 0
    BY <2>0, <2>a DEF Download, IsSnapshot
  <2>c. <<>> \in Seq(Object) /\ Len(<<>>) = 0
    BY EmptySeqType
  <2>1. CASE e = d
    <3>1. /\ Len(d.items) <= Len(server')
          /\ \A n \in 1 .. Len(d.items) : d.items[n] = server'[n]
      BY <1>0, <2>0, ServerPart DEF IsSnapshot
    <3>2. IsSnapshot(query[q])'
      BY <2>0, <2>1, <2>b, <3>1 DEF IsSnapshot
    <3>3. ShowsWrites(query[q])'
      BY <2>0, <2>1 DEF ShowsWrites
    <3> QED BY <2>0, <2>1, <3>2, <3>3
  <2>2. CASE e = IdleQuery
    <3>1. e \in Download
      BY <2>2, <2>c DEF IdleQuery, Download
    <3>2. e.phase = "idle" /\ e.items = <<>> /\ e.since = {}
      BY <2>2 DEF IdleQuery
    <3> QED BY <1>0, <2>c, <3>1, <3>2 DEF IsSnapshot, ShowsWrites
  <2>3. CASE e = [phase |-> "running", items |-> <<>>, since |-> Confirmed]
    <3>1. e \in Download
      BY <1>0, <2>3, <2>c DEF Download
    <3>2. e.phase = "running" /\ e.items = <<>> /\ e.since = Confirmed
      BY <2>3
    <3>3. \A i \in Confirmed : landed'[i] > 0
      BY <2>a DEF Confirmed, Inv, Upload!Inv, Upload!SuccessIsReal
    <3> QED BY <1>0, <2>c, <3>1, <3>2, <3>3 DEF IsSnapshot, ShowsWrites
  <2>4. CASE /\ server' = server
             /\ e = [phase |-> "fetched", items |-> Answer, since |-> d.since]
    <3>1. e.phase = "fetched" /\ e.items = Answer /\ e.since = d.since
      BY <2>4
    <3>2. e \in Download
      BY <2>4, <2>b, AnswerType DEF Download
    <3>3. IsSnapshot(query[q])'
      BY <2>4, <2>b, <3>1, AnswerType DEF IsSnapshot
    <3>4. d.since \subseteq Range(server)
      BY <2>0, <2>b DEF IsSnapshot, Inv, StoredIsLanded
    <3>5. ShowsWrites(query[q])'
      BY <3>1, <3>4, AnswerType DEF ShowsWrites
    <3> QED BY <3>2, <3>3, <3>5
  <2>5. CASE e = [phase |-> "failed", items |-> <<>>, since |-> d.since]
    <3>1. e \in Download
      BY <2>5, <2>b, <2>c DEF Download
    <3>2. e.phase = "failed" /\ e.items = <<>> /\ e.since = d.since
      BY <2>5
    <3> QED BY <1>0, <2>b, <2>c, <3>1, <3>2 DEF IsSnapshot, ShowsWrites
  <2> QED BY <2>1, <2>2, <2>3, <2>4, <2>5, QueryStep
<1> QED BY <1>1, <1>2 DEF AnswersAreSnapshots, ReadYourWrites

\* Whatever happens to the list in a step.
LEMMA ListStep ==
    ASSUME Inv, [Next]_vars
    PROVE  \/ UNCHANGED listVars /\ handed' = handed
              /\ (app' = app \/ app' = "on")
              /\ \A q \in Query : query[q].phase # "idle" => query'[q].phase # "idle"
           \/ \E q \in Query :
                /\ UNCHANGED <<hasList, streamItems, shown, handed>>
                /\ refreshing' = TRUE /\ app' = "on" /\ query'[q].phase # "idle"
           \/ \E q \in Query :
                /\ streamItems' = query[q].items /\ shown' = Len(streamItems')
                /\ hasList' = TRUE /\ refreshing' = FALSE
                /\ UNCHANGED <<handed, app>>
           \/ \E title \in Title : DidCreateItem(title)
           \/ /\ hasList' = FALSE /\ streamItems' = <<>> /\ shown' = 0
              /\ refreshing' = FALSE /\ app' = "off"
<1>0. query \in [Query -> Download]
  BY DEF Inv, TypeOK
<1>1. ASSUME NEW q \in Query, ViewDidLoad(q)
      PROVE  /\ UNCHANGED listVars /\ handed' = handed /\ app' = "on"
             /\ \A p \in Query : query[p].phase # "idle" => query'[p].phase # "idle"
  BY <1>0, <1>1 DEF ViewDidLoad, DownloadStreamItems, creatorVars
<1>2. ASSUME NEW q \in Query, DidPullToRefresh(q)
      PROVE  /\ UNCHANGED <<hasList, streamItems, shown, handed>>
             /\ refreshing' = TRUE /\ app' = "on" /\ query'[q].phase # "idle"
  BY <1>0, <1>2 DEF DidPullToRefresh, DownloadStreamItems, creatorVars
<1>3. ASSUME NEW q \in Query, QuerySucceeds(q) \/ QueryFails(q)
      PROVE  /\ UNCHANGED listVars /\ handed' = handed /\ app' = app
             /\ \A p \in Query : query[p].phase # "idle" => query'[p].phase # "idle"
  BY <1>0, <1>3 DEF QuerySucceeds, QueryFails, creatorVars, Download
<1>4. ASSUME NEW q \in Query, DidDownloadItems(q)
      PROVE  /\ streamItems' = query[q].items /\ shown' = Len(streamItems')
             /\ hasList' = TRUE /\ refreshing' = FALSE
             /\ UNCHANGED <<handed, app>>
  BY <1>4 DEF DidDownloadItems, ReloadData, creatorVars
<1>5. ASSUME NEW title \in Title, CrashOnUpload(title)
      PROVE  /\ hasList' = FALSE /\ streamItems' = <<>> /\ shown' = 0
             /\ refreshing' = FALSE /\ app' = "off"
  BY <1>5 DEF CrashOnUpload, ProcessEnds
<1>6. ASSUME NEW item \in ItemId, ServerSaves(item) \/ UploadProceeds(item)
      PROVE  UNCHANGED <<listVars, handed, app, query>>
  BY <1>6 DEF ServerSaves, UploadProceeds, creatorVars
<1>7. CASE Dialogue
  BY <1>7 DEF Dialogue, Creator!CreateStreamItem,
     Creator!ActionSheetClicked, Creator!DidFinishPicking,
     Creator!DidCancelPicking, Creator!ShowAlertView, Creator!AvailabilityChanges
<1>8. CASE Kill
  BY <1>8 DEF Kill, ProcessEnds
<1>9. CASE OtherSaves \/ UNCHANGED vars
  BY <1>9 DEF OtherSaves, vars, creatorVars
<1> QED BY <1>1, <1>2, <1>3, <1>4, <1>5, <1>6, <1>7, <1>8, <1>9 DEF Next

\* The draft of a hand-over: an object that is in no list and not on the server.
LEMMA DraftIsNew ==
    ASSUME Inv, NEW title \in Title, DidCreateItem(title)
    PROVE  /\ Len(handed') = Len(handed) + 1 /\ Len(handed) \in Nat
           /\ Len(handed') \in ItemId /\ Len(handed') \in Object
           /\ \A n \in 1 .. Len(server) : server[n] # Len(handed')
           /\ \A n \in 1 .. Len(streamItems) : streamItems[n] # Len(handed')
<1>1. ui = "alert" /\ handed' = Append(handed, Creator!TitledItem(title))
  BY DEF DidCreateItem, Creator!AlertViewClicked
<1>2. /\ Len(handed') = Len(handed) + 1 /\ Len(handed) \in Nat
      /\ Len(handed') \in ItemId /\ Len(handed') \in Object
  BY <1>1, NextItemId DEF Object
<1>3. ASSUME NEW n \in 1 .. Len(server) PROVE server[n] # Len(handed')
  <2>1. server \in Seq(Object) /\ server[n] \in Range(server)
    BY RangeOfSeq DEF Inv, TypeOK
  <2>2. Len(handed') \in Range(server) => Len(handed') <= Len(handed)
    BY <1>2, UploadsAreHeld DEF ServerHoldsUploads
  <2> QED BY <1>2, <2>1, <2>2
<1>4. PICK k \in 0 .. Len(streamItems) : PrefixAndDrafts(k)
  BY DEF Inv, ShowsPrefixAndDrafts
<1>5. ASSUME NEW n \in 1 .. Len(streamItems) PROVE streamItems[n] # Len(handed')
  <2>1. CASE n \in 1 .. k
    <3>1. streamItems[n] = server[n] /\ k <= Len(server)
      BY <1>4, <2>1 DEF PrefixAndDrafts
    <3>2. Len(server) \in Nat /\ n \in 1 .. Len(server)
      BY <2>1, <3>1 DEF Inv, TypeOK
    <3> QED BY <1>3, <3>1, <3>2
  <2>2. CASE n \notin 1 .. k
    <3>1. n \in k + 1 .. Len(streamItems)
      BY <1>4, <1>5, <2>2 DEF Inv, TypeOK
    <3>2. streamItems[n] \in 1 .. Len(handed)
      BY <1>4, <3>1 DEF PrefixAndDrafts
    <3> QED BY <1>2, <3>2
  <2> QED BY <2>1, <2>2
<1> QED BY <1>2, <1>3, <1>5

\* The list is replaced by a download, gains a draft, or stays.
LEMMA ViewStep ==
    ASSUME Inv, [Next]_vars
    PROVE  \/ streamItems' = streamItems /\ Len(handed) <= Len(handed')
           \/ \E q \in Query : streamItems' = query[q].items
           \/ /\ \E title \in Title : DidCreateItem(title)
              /\ streamItems' = Append(streamItems, Len(handed'))
           \/ streamItems' = <<>>
<1>1. Len(handed) \in Nat
  BY DEF Inv, TypeOK, Creator!TypeOK
<1>2. ASSUME NEW title \in Title, DidCreateItem(title)
      PROVE  \/ streamItems' = Append(streamItems, Len(handed'))
             \/ streamItems' = streamItems /\ Len(handed) <= Len(handed')
  BY <1>2, DraftIsNew DEF DidCreateItem, AddToStreamItems
<1>3. handed' = handed => Len(handed) <= Len(handed')
  BY <1>1
<1> QED BY <1>2, <1>3, ListStep DEF listVars

\* The view keeps showing a beginning of the server's objects and drafts.
LEMMA ViewPart ==
    ASSUME Inv, [Next]_vars
    PROVE  streamItems' \in Seq(Object) /\ ShowsPrefixAndDrafts'
<1>0. /\ streamItems \in Seq(Object) /\ Len(streamItems) \in Nat
      /\ Len(server) \in Nat /\ Len(server') \in Nat /\ QueryLimit \in Nat
      /\ Len(handed) \in Nat /\ Len(handed') \in Nat
      /\ Len(server) <= Len(server')
      /\ \A n \in 1 .. Len(server) : server'[n] = server[n]
  BY ServerPart, CreatorPart, PhotoStreamAssumption
     DEF Inv, TypeOK, Creator!Inv, Creator!TypeOK
<1>1. PICK k \in 0 .. Len(streamItems) : PrefixAndDrafts(k)
  BY DEF Inv, ShowsPrefixAndDrafts
<1>2. CASE streamItems' = streamItems /\ Len(handed) <= Len(handed')
  <2>1. PrefixAndDrafts(k)'
    BY <1>0, <1>1, <1>2 DEF PrefixAndDrafts
  <2> QED BY <1>0, <1>2, <2>1 DEF ShowsPrefixAndDrafts
<1>3. ASSUME NEW q \in Query, streamItems' = query[q].items
      PROVE  streamItems' \in Seq(Object) /\ ShowsPrefixAndDrafts'
  <2> DEFINE items == query[q].items
  <2>1. items \in Seq(Object) /\ Len(items) \in Nat /\ IsSnapshot(query[q])
    BY DEF Inv, TypeOK, Download, AnswersAreSnapshots
  <2>2. PrefixAndDrafts(Len(streamItems))'
    BY <1>0, <1>3, <2>1 DEF PrefixAndDrafts, IsSnapshot
  <2> QED BY <1>3, <2>1, <2>2 DEF ShowsPrefixAndDrafts
<1>4. ASSUME NEW title \in Title, DidCreateItem(title),
             streamItems' = Append(streamItems, Len(handed'))
      PROVE  streamItems' \in Seq(Object) /\ ShowsPrefixAndDrafts'
  <2>1. /\ streamItems' \in Seq(Object)
        /\ Len(streamItems') = Len(streamItems) + 1
        /\ \A n \in 1 .. Len(streamItems) : streamItems'[n] = streamItems[n]
        /\ streamItems'[Len(streamItems')] = Len(handed')
    BY <1>0, <1>4, DraftIsNew, AppendType
  <2>2. PrefixAndDrafts(k)'
    <3>1. k <= QueryLimit /\ k <= Len(server')
      BY <1>0, <1>1 DEF PrefixAndDrafts
    <3>2. \A n \in 1 .. k : streamItems'[n] = server'[n]
      BY <1>0, <1>1, <2>1 DEF PrefixAndDrafts
    <3>3. ASSUME NEW n \in k + 1 .. Len(streamItems')
          PROVE  /\ streamItems'[n] \in 1 .. Len(handed')
                 /\ \A m \in 1 .. n - 1 : streamItems'[m] # streamItems'[n]
      <4>1. CASE n = Len(streamItems')
        BY <1>0, <1>4, <2>1, <4>1, DraftIsNew
      <4>2. CASE n # Len(streamItems')
        <5>1. n \in k + 1 .. Len(streamItems)
          BY <1>0, <1>1, <2>1, <4>2
        <5>2. /\ streamItems[n] \in 1 .. Len(handed)
              /\ \A m \in 1 .. n - 1 : streamItems[m] # streamItems[n]
          BY <1>1, <5>1 DEF PrefixAndDrafts
        <5>3. \A m \in 1 .. n : streamItems'[m] = streamItems[m]
          BY <1>0, <1>1, <2>1, <5>1
        <5>4. Len(handed') = Len(handed) + 1
          BY <1>4, DraftIsNew
        <5> QED BY <1>0, <1>1, <5>1, <5>2, <5>3, <5>4
      <4> QED BY <4>1, <4>2
    <3> QED BY <3>1, <3>2, <3>3 DEF PrefixAndDrafts
  <2> QED BY <1>0, <1>1, <2>1, <2>2 DEF ShowsPrefixAndDrafts
<1>5. CASE streamItems' = <<>>
  <2>1. streamItems' \in Seq(Object) /\ Len(streamItems') = 0
    BY <1>5, EmptySeqType
  <2>2. PrefixAndDrafts(0)'
    BY <1>0, <2>1 DEF PrefixAndDrafts
  <2> QED BY <2>1, <2>2 DEF ShowsPrefixAndDrafts
<1> QED BY <1>2, <1>3, <1>4, <1>5, ViewStep

\* The collection view counts what is in the list, and the spinner has a download
\* to stop it.
LEMMA ScreenPart ==
    ASSUME Inv, [Next]_vars
    PROVE  /\ ShownIsTheList' /\ SpinnerMeansDownload'
           /\ app' \in {"on", "off"} /\ hasList' \in BOOLEAN
           /\ refreshing' \in BOOLEAN /\ shown' \in Nat
<1>0. /\ ShownIsTheList /\ SpinnerMeansDownload
      /\ app \in {"on", "off"} /\ hasList \in BOOLEAN
      /\ refreshing \in BOOLEAN /\ shown \in Nat
      /\ Len(streamItems') \in Nat /\ Len(<<>>) = 0
  BY ViewPart, EmptySeqType DEF Inv, TypeOK
<1> USE DEF ShownIsTheList, SpinnerMeansDownload
<1>1. ASSUME UNCHANGED listVars, app' = app \/ app' = "on",
             \A q \in Query : query[q].phase # "idle" => query'[q].phase # "idle"
      PROVE  /\ ShownIsTheList' /\ SpinnerMeansDownload'
             /\ app' \in {"on", "off"} /\ hasList' \in BOOLEAN
             /\ refreshing' \in BOOLEAN /\ shown' \in Nat
  BY <1>0, <1>1 DEF listVars
<1>2. ASSUME NEW q \in Query, UNCHANGED <<hasList, streamItems, shown, handed>>,
             refreshing' = TRUE, app' = "on", query'[q].phase # "idle"
      PROVE  /\ ShownIsTheList' /\ SpinnerMeansDownload'
             /\ app' \in {"on", "off"} /\ hasList' \in BOOLEAN
             /\ refreshing' \in BOOLEAN /\ shown' \in Nat
  BY <1>0, <1>2
<1>3. ASSUME shown' = Len(streamItems'), hasList' = TRUE, refreshing' = FALSE,
             app' = app
      PROVE  /\ ShownIsTheList' /\ SpinnerMeansDownload'
             /\ app' \in {"on", "off"} /\ hasList' \in BOOLEAN
             /\ refreshing' \in BOOLEAN /\ shown' \in Nat
  BY <1>0, <1>3
<1>4. ASSUME NEW title \in Title, DidCreateItem(title)
      PROVE  /\ ShownIsTheList' /\ SpinnerMeansDownload'
             /\ app' \in {"on", "off"} /\ hasList' \in BOOLEAN
             /\ refreshing' \in BOOLEAN /\ shown' \in Nat
  <2>1. /\ app' = app /\ hasList' = hasList /\ refreshing' = refreshing
        /\ query' = query /\ shown' = Len(streamItems')
        /\ ~hasList => streamItems' = streamItems
    BY <1>4 DEF DidCreateItem, ReloadData, AddToStreamItems
  <2> QED BY <1>0, <2>1
<1>5. ASSUME hasList' = FALSE, streamItems' = <<>>, shown' = 0,
             refreshing' = FALSE, app' = "off"
      PROVE  /\ ShownIsTheList' /\ SpinnerMeansDownload'
             /\ app' \in {"on", "off"} /\ hasList' \in BOOLEAN
             /\ refreshing' \in BOOLEAN /\ shown' \in Nat
  BY <1>0, <1>5
<1> QED BY <1>1, <1>2, <1>3, <1>4, <1>5, ListStep

\* Every step keeps the invariant.
LEMMA NextKeepsInv == Inv /\ [Next]_vars => Inv'
<1> SUFFICES ASSUME Inv, [Next]_vars PROVE Inv'
  OBVIOUS
<1>1. Creator!Inv' /\ Upload!Inv'
  BY CreatorPart, UploadPart
<1>2. Creator!TypeOK' /\ Upload!TypeOK'
  BY <1>1 DEF Creator!Inv, Upload!Inv
<1>3. TypeOK'
  BY <1>2, ScreenPart, ServerPart, ViewPart, QueryPart DEF TypeOK
<1> QED BY <1>1, <1>3, ScreenPart, ItemsPart, ServerPart, ViewPart, QueryPart
        DEF Inv

\* The invariant holds from the start: nothing is shown, asked for or stored.
LEMMA InitInv == Init => Inv
<1> SUFFICES ASSUME Init PROVE Inv
  OBVIOUS
<1>1. Creator!Inv
  BY CreatorKeepsInv DEF Init
<1>2. Upload!Inv
  BY UploadKeepsInv DEF Init
<1>3. /\ streamItems \in Seq(Object) /\ server \in Seq(Object)
      /\ Len(streamItems) = 0 /\ Len(server) = 0 /\ Len(handed) = 0
      /\ Range(server) = {}
  BY EmptySeqType, RangeOfEmpty DEF Init, Creator!Init
<1>4. /\ outcome = [i \in ItemId |-> "idle"] /\ landed = [i \in ItemId |-> 0]
      /\ Creator!TypeOK /\ Upload!TypeOK
  BY <1>1, <1>2 DEF Init, Upload!Init, Creator!Inv, Upload!Inv
<1>5. ASSUME NEW q \in Query
      PROVE  /\ query[q] = [phase |-> "idle", items |-> <<>>, since |-> {}]
             /\ query[q] \in Download
  BY EmptySeqType DEF Init, IdleQuery, Download
<1>6. TypeOK
  BY <1>3, <1>4, <1>5 DEF TypeOK, Init
<1>7. AnswersAreSnapshots /\ ReadYourWrites
  <2>1. Len(<<>>) = 0 /\ QueryLimit \in Nat
    BY EmptySeqType, PhotoStreamAssumption
  <2> QED BY <1>3, <1>5, <2>1
          DEF AnswersAreSnapshots, IsSnapshot, ReadYourWrites, ShowsWrites
<1>8. PrefixAndDrafts(0)
  BY <1>3, PhotoStreamAssumption DEF PrefixAndDrafts
<1>9. ShowsPrefixAndDrafts
  BY <1>3, <1>8 DEF ShowsPrefixAndDrafts
<1>10. /\ EveryItemIsUploaded /\ UnhandedIsIdle /\ StoredIsLanded
       /\ ShownIsTheList /\ SpinnerMeansDownload
  BY <1>3, <1>4 DEF Init, EveryItemIsUploaded, UnhandedIsIdle, StoredIsLanded,
     ShownIsTheList, SpinnerMeansDownload
<1> QED BY <1>1, <1>2, <1>6, <1>7, <1>9, <1>10 DEF Inv

\* Whatever pictures, titles and devices there are, however many items and queries,
\* retries and other clients: the invariant of the screen holds.
THEOREM ScreenInvariant == Spec => []Inv
BY InitInv, NextKeepsInv, PTL DEF Spec

\* A success is on the server, and nothing is there that was not handed over.
THEOREM ServerKeepsUploads == Spec => []ServerHoldsUploads
BY ScreenInvariant, UploadsAreHeld, PTL

\* The view is a beginning of the server's objects followed by drafts, each
\* object of the user once.
THEOREM ViewIsPrefixAndDrafts == Spec => []ShowsPrefixAndDrafts
<1>1. Inv => ShowsPrefixAndDrafts
  BY DEF Inv
<1> QED BY <1>1, ScreenInvariant, PTL

\* A download never misses an upload confirmed before it was issued, unless the
\* answer has its full length.
THEOREM DownloadsShowUploads == Spec => []ReadYourWrites
<1>1. Inv => ReadYourWrites
  BY DEF Inv
<1> QED BY <1>1, ScreenInvariant, PTL

\* A spinning refresh control has a download to stop it.
THEOREM SpinnerHasDownload == Spec => []SpinnerMeansDownload
<1>1. Inv => SpinnerMeansDownload
  BY DEF Inv
<1> QED BY <1>1, ScreenInvariant, PTL

\* The server and the list never change in the same step.
LEMMA ServerOrView ==
    ASSUME Inv, [Next]_vars
    PROVE  \/ server' = server
           \/ /\ streamItems' = streamItems
              /\ \E e \in Object : server' = Append(server, e)
<1>1. ASSUME NEW q \in Query,
             \/ ViewDidLoad(q) \/ DidPullToRefresh(q) \/ QuerySucceeds(q)
             \/ QueryFails(q) \/ DidDownloadItems(q)
      PROVE  server' = server
  BY <1>1 DEF ViewDidLoad, DidPullToRefresh, QuerySucceeds, QueryFails,
              DidDownloadItems
<1>2. ASSUME NEW title \in Title, DidCreateItem(title) \/ CrashOnUpload(title)
      PROVE  server' = server
  BY <1>2 DEF DidCreateItem, CrashOnUpload, ProcessEnds
<1>3. ASSUME NEW item \in ItemId, ServerSaves(item) \/ UploadProceeds(item)
      PROVE  \/ server' = server
             \/ /\ streamItems' = streamItems
                /\ \E e \in Object : server' = Append(server, e)
  BY <1>3 DEF ServerSaves, UploadProceeds, listVars, Object
<1>4. ASSUME OtherSaves
      PROVE  /\ streamItems' = streamItems
             /\ \E e \in Object : server' = Append(server, e)
  BY <1>4 DEF OtherSaves, listVars, Object
<1>5. Dialogue \/ Kill \/ UNCHANGED vars => server' = server
  BY DEF Dialogue, Kill, ProcessEnds, vars
<1> QED BY <1>1, <1>2, <1>3, <1>4, <1>5 DEF Next

\* Every step is a step of the shared stream, or none of its steps.
LEMMA NextIsStreamStep ==
    Inv /\ [Next]_vars => [Stream!Next]_<<server, streamItems>>
<1> SUFFICES ASSUME Inv, [Next]_vars
             PROVE  Stream!Next \/ UNCHANGED <<server, streamItems>>
  OBVIOUS
<1>0. server \in Seq(Object) /\ streamItems \in Seq(Object)
  BY DEF Inv, TypeOK
<1>1. CASE streamItems' = streamItems
  <2>1. ASSUME NEW e \in Object, server' = Append(server, e)
        PROVE  Stream!Save
    BY <1>0, <1>1, <2>1, AppendIsExtension DEF Stream!Save, Stream!Extends
  <2> QED BY <1>1, <2>1, ServerOrView DEF Stream!Next
<1>2. CASE streamItems' # streamItems
  <2>0. server' = server
    BY <1>2, ServerOrView
  <2>1. ASSUME NEW q \in Query, streamItems' = query[q].items
        PROVE  Stream!Refresh
    <3>1. /\ streamItems' \in Seq(Object) /\ Len(streamItems') <= Len(server)
          /\ \A n \in 1 .. Len(streamItems') : streamItems'[n] = server[n]
      BY <2>1 DEF Inv, TypeOK, Download, AnswersAreSnapshots, IsSnapshot
    <3> QED BY <1>0, <2>0, <3>1, PrefixIsSubSeq DEF Stream!Refresh
  <2>2. ASSUME NEW title \in Title, DidCreateItem(title),
               streamItems' = Append(streamItems, Len(handed'))
        PROVE  Stream!AddDraft
    <3>1. Stream!Extends(streamItems', streamItems)
      BY <1>0, <2>2, DraftIsNew, AppendIsExtension DEF Stream!Extends
    <3>2. streamItems'[Len(streamItems')] = Len(handed')
      BY <1>0, <2>2, DraftIsNew, AppendType
    <3> QED BY <2>0, <2>2, <3>1, <3>2, DraftIsNew DEF Stream!AddDraft
  <2>3. CASE streamItems' = <<>>
    <3>1. streamItems' \in Seq(Object) /\ Len(streamItems') = 0
      BY <2>3, EmptySeqType
    <3> QED BY <1>0, <2>0, <3>1, PrefixIsSubSeq DEF Stream!Refresh, Stream!Next
  <2> QED BY <1>2, <2>1, <2>2, <2>3, ViewStep DEF Stream!Next
<1> QED BY <1>1, <1>2

\* The screen implements the shared stream: the server's log only grows, the view
\* is at each refresh some beginning of it, and in between gains each draft once.
THEOREM ScreenImplementsStream == Spec => ImplementsSharedStream
<1>1. Init => Stream!Init
  BY DEF Init, Stream!Init
<1> QED BY <1>1, ScreenInvariant, NextIsStreamStep, PTL
        DEF Spec, ImplementsSharedStream, Stream!Spec
=============================================================================
