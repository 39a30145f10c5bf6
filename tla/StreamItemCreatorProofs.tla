----------------------- MODULE StreamItemCreatorProofs -----------------------
(* Proofs about the creator's dialogue. *)
EXTENDS StreamItemCreator, SequenceFacts, TLAPS

\* Any device's action sheet is a non-empty list of buttons.
LEMMA ActionSheetButtonsType ==
    ASSUME NEW S
    PROVE  ActionSheetButtons(S) \in Seq(Button) /\ ActionSheetButtons(S) # <<>>
<1>1. CASE "library" \in S /\ "camera" \in S
  BY <1>1 DEF ActionSheetButtons, Button
<1>2. CASE "library" \in S /\ "camera" \notin S
  BY <1>2 DEF ActionSheetButtons, Button
<1>3. CASE "library" \notin S /\ "camera" \in S
  BY <1>3 DEF ActionSheetButtons, Button
<1>4. CASE "library" \notin S /\ "camera" \notin S
  BY <1>4 DEF ActionSheetButtons, Button
<1> QED BY <1>1, <1>2, <1>3, <1>4

\* Every step of the dialogue keeps its invariant: one step per handler.
LEMMA NextKeepsInv == Inv /\ [Next]_creatorVars => Inv'
<1> SUFFICES ASSUME Inv, [Next]_creatorVars PROVE Inv'
  OBVIOUS
<1> USE CreatorAssumption DEF Inv, TypeOK, ItemHeldForTheAlert, Screen, Source,
        Item, NoItem, NoPhoto, NoTitle
<1>1. CASE CreateStreamItem
  BY <1>1, ActionSheetButtonsType DEF CreateStreamItem
<1>2. ASSUME NEW index \in 0 .. Len(sheet) - 1, ActionSheetClicked(index)
      PROVE  Inv'
  <2>1. ui' \in {"stream", "library", "camera"}
    BY <1>2 DEF ActionSheetClicked, SourceAtIndex, PresentImagePicker
  <2>2. sheet' = <<>> /\ sheet' \in Seq(Button)
    BY ONLY <1>2, EmptySeqType DEF ActionSheetClicked
  <2>3. UNCHANGED <<available, createdItem, handed>> /\ ui = "sheet"
    BY <1>2 DEF ActionSheetClicked
  <2> QED BY <2>1, <2>2, <2>3
<1>3. ASSUME NEW photo \in Photo, DidFinishPicking(photo) PROVE Inv'
  BY <1>3 DEF DidFinishPicking
<1>4. CASE DidCancelPicking
  BY <1>4 DEF DidCancelPicking
<1>5. CASE ShowAlertView
  BY <1>5 DEF ShowAlertView
<1>6. ASSUME NEW title \in Title, AlertViewClicked(title) PROVE Inv'
  <2>1. createdItem \in Item /\ createdItem # NoItem
    BY <1>6 DEF AlertViewClicked
  <2>2. TitledItem(title) \in Titled
    BY <2>1 DEF TitledItem, Titled
  <2>3. /\ handed' \in Seq(Titled)
        /\ Len(handed') = Len(handed) + 1
        /\ Len(handed) \in Nat
    <3>1. handed \in Seq(Titled)
      OBVIOUS
    <3>2. handed' = Append(handed, TitledItem(title))
      BY <1>6 DEF AlertViewClicked
    <3> QED BY ONLY <2>2, <3>1, <3>2, AppendType
  <2>4. /\ ui = "alert" /\ ui' = "stream" /\ createdItem' = NoItem
        /\ UNCHANGED <<available, sheet>>
    BY <1>6 DEF AlertViewClicked
  <2>5. Len(handed') <= MaxItems
    <3>1. Len(handed) < MaxItems
      BY <2>4
    <3>2. MaxItems \in Nat
      OBVIOUS
    <3>3. Len(handed') = Len(handed) + 1 /\ Len(handed) \in Nat
      BY <2>3
    <3> QED BY ONLY <3>1, <3>2, <3>3
  <2>6. sheet' \in Seq(Button) /\ sheet' = <<>>
    BY <2>4
  <2>7. available' \in SUBSET DeviceSource
    BY <2>4
  <2>8. ItemHeldForTheAlert'
    BY <2>4
  <2> QED BY ONLY <2>3, <2>4, <2>5, <2>6, <2>7, <2>8 DEF Inv, TypeOK, Screen
<1>7. ASSUME NEW sources \in SUBSET DeviceSource, AvailabilityChanges(sources)
      PROVE  Inv'
  BY <1>7 DEF AvailabilityChanges
<1>8. CASE UNCHANGED creatorVars
  BY <1>8 DEF creatorVars
<1> QED BY <1>1, <1>2, <1>3, <1>4, <1>5, <1>6, <1>7, <1>8 DEF Next

\* The invariant holds from the start.
LEMMA InitInv == Init => Inv
<1> SUFFICES ASSUME Init PROVE Inv
  OBVIOUS
<1>1. /\ sheet = <<>> /\ sheet \in Seq(Button)
      /\ handed \in Seq(Titled) /\ Len(handed) <= MaxItems
  BY EmptySeqType, CreatorAssumption DEF Init
<1>2. ui = "stream" /\ available \in SUBSET DeviceSource /\ createdItem = NoItem
  BY DEF Init
<1> QED BY <1>1, <1>2 DEF Inv, TypeOK, ItemHeldForTheAlert, Screen, NoItem

\* Whatever pictures, titles and devices there are, the item under construction
\* exists exactly from the pick to the handover, and every item handed to the
\* delegate has a picture and a title.
THEOREM DialogueInvariant == Spec => []Inv
BY InitInv, NextKeepsInv, PTL DEF Spec

\* Under the invariant every handler is a step of the request, or no step of it.
LEMMA NextIsRequestStep ==
    Inv /\ [Next]_creatorVars
       => [Request!Next]_<<RequestPhase, createdItem.photo, handed>>
<1> SUFFICES ASSUME Inv, [Next]_creatorVars
             PROVE  \/ Request!Next
                    \/ UNCHANGED <<RequestPhase, createdItem.photo, handed>>
  OBVIOUS
<1>0. /\ createdItem \in Item \cup {NoItem}
      /\ createdItem # NoItem <=> ui \in {"dismissing", "alert"}
      /\ ui \in Screen
  BY DEF Inv, TypeOK, ItemHeldForTheAlert
<1> USE DEF RequestPhase, Source, Screen
<1>1. CASE CreateStreamItem
  <2>1. Request!Ask
    BY <1>0, <1>1 DEF CreateStreamItem, Request!Ask, NoItem
  <2> QED BY <2>1 DEF Request!Next
<1>2. ASSUME NEW index \in 0 .. Len(sheet) - 1, ActionSheetClicked(index)
      PROVE  Request!Drop \/ UNCHANGED <<RequestPhase, createdItem.photo, handed>>
  <2>1. /\ ui = "sheet" /\ ui' \in {"stream", "library", "camera"}
        /\ UNCHANGED <<createdItem, handed>>
    BY <1>2 DEF ActionSheetClicked, SourceAtIndex, PresentImagePicker
  <2> QED BY <2>1 DEF Request!Drop
<1>3. ASSUME NEW photo \in Photo, DidFinishPicking(photo)
      PROVE  Request!Pick(photo)
  BY <1>3 DEF DidFinishPicking, Request!Pick
<1>4. CASE DidCancelPicking
  <2>1. Request!Drop
    BY <1>4 DEF DidCancelPicking, Request!Drop
  <2> QED BY <2>1 DEF Request!Next
<1>5. CASE ShowAlertView
  BY <1>5 DEF ShowAlertView
<1>6. ASSUME NEW title \in Title, AlertViewClicked(title)
      PROVE  Request!Deliver(title)
  <2>1. createdItem \in Item /\ createdItem # NoItem
    BY <1>0, <1>6 DEF AlertViewClicked
  <2>2. TitledItem(title) = [photo |-> createdItem.photo, title |-> title]
    BY <2>1 DEF TitledItem, Item
  <2>3. /\ ui = "alert" /\ ui' = "stream" /\ createdItem' = NoItem
        /\ handed' = Append(handed, TitledItem(title))
    BY <1>6 DEF AlertViewClicked
  <2> QED BY <2>2, <2>3 DEF Request!Deliver, NoItem
<1>7. ASSUME NEW sources \in SUBSET DeviceSource, AvailabilityChanges(sources)
      PROVE  UNCHANGED <<RequestPhase, createdItem.photo, handed>>
  BY <1>7 DEF AvailabilityChanges
<1>8. CASE UNCHANGED creatorVars
  BY <1>8 DEF creatorVars
<1> QED BY <1>1, <1>2, <1>3, <1>4, <1>5, <1>6, <1>7, <1>8
        DEF Next, Request!Next

\* The dialogue keeps the promise of a creation request: every item handed to
\* the delegate shows the picture picked for this request and carries the title
\* typed for it, and a request that was cancelled hands over nothing.
THEOREM DialogueYieldsThePickedItem == Spec => YieldsThePickedItem
<1>1. Init => Request!Init
  BY DEF Init, Request!Init, RequestPhase, NoItem
<1> QED BY <1>1, DialogueInvariant, NextIsRequestStep, PTL
        DEF Spec, YieldsThePickedItem, Request!Spec

\* The rows the sheets are put together from: of three buttons,
LEMMA ThreeInARow ==
    ASSUME NEW x, NEW y, NEW z
    PROVE  /\ Len((<<x>> \o <<y>>) \o <<z>>) = 3
           /\ ((<<x>> \o <<y>>) \o <<z>>)[1] = x
           /\ ((<<x>> \o <<y>>) \o <<z>>)[2] = y
           /\ ((<<x>> \o <<y>>) \o <<z>>)[3] = z
<1> DEFINE T == {x, y, z}
           s == <<x>> \o <<y>>
           b == s \o <<z>>
<1>0. x \in T /\ y \in T /\ z \in T
  OBVIOUS
<1> HIDE DEF T
<1>1. s \in Seq(T)
  BY <1>0
<1>2. Len(s) = 2 /\ s[1] = x /\ s[2] = y
  OBVIOUS
<1> HIDE DEF s
<1>3. b = s \o <<z>>
  OBVIOUS
<1> HIDE DEF b
<1>4. Len(b) = Len(s) + 1
  BY <1>0, <1>1, <1>3
<1>5. b[Len(s) + 1] = z
  BY <1>0, <1>1, <1>3
<1>6. b[1] = s[1] /\ b[2] = s[2]
  BY <1>1, <1>2, <1>3
<1>7. Len(b) = 3 /\ b[3] = z
  BY <1>2, <1>4, <1>5
<1> QED BY <1>2, <1>6, <1>7 DEF b, s

\* of two,
LEMMA TwoInARow ==
    ASSUME NEW x, NEW z
    PROVE  /\ Len((<<x>> \o <<>>) \o <<z>>) = 2
           /\ ((<<x>> \o <<>>) \o <<z>>)[1] = x
           /\ ((<<x>> \o <<>>) \o <<z>>)[2] = z
<1> DEFINE T == {x, z}
           s == <<x>> \o <<>>
           b == s \o <<z>>
<1>0. x \in T /\ z \in T
  OBVIOUS
<1> HIDE DEF T
<1>1. s \in Seq(T)
  BY <1>0
<1>2. Len(s) = 1 /\ s[1] = x
  OBVIOUS
<1> HIDE DEF s
<1>3. b = s \o <<z>>
  OBVIOUS
<1> HIDE DEF b
<1>4. Len(b) = Len(s) + 1
  BY <1>0, <1>1, <1>3
<1>5. b[Len(s) + 1] = z
  BY <1>0, <1>1, <1>3
<1>6. b[1] = s[1]
  BY <1>1, <1>2, <1>3
<1>7. Len(b) = 2 /\ b[2] = z
  BY <1>2, <1>4, <1>5
<1> QED BY <1>2, <1>6, <1>7 DEF b, s

\* and of two again.
LEMMA TwoInARowToo ==
    ASSUME NEW x, NEW z
    PROVE  /\ Len((<<>> \o <<x>>) \o <<z>>) = 2
           /\ ((<<>> \o <<x>>) \o <<z>>)[1] = x
           /\ ((<<>> \o <<x>>) \o <<z>>)[2] = z
<1> DEFINE T == {x, z}
           s == <<>> \o <<x>>
           b == s \o <<z>>
<1>0. x \in T /\ z \in T
  OBVIOUS
<1> HIDE DEF T
<1>1. s \in Seq(T)
  BY <1>0
<1>2. Len(s) = 1 /\ s[1] = x
  OBVIOUS
<1> HIDE DEF s
<1>3. b = s \o <<z>>
  OBVIOUS
<1> HIDE DEF b
<1>4. Len(b) = Len(s) + 1
  BY <1>0, <1>1, <1>3
<1>5. b[Len(s) + 1] = z
  BY <1>0, <1>1, <1>3
<1>6. b[1] = s[1]
  BY <1>1, <1>2, <1>3
<1>7. Len(b) = 2 /\ b[2] = z
  BY <1>2, <1>4, <1>5
<1> QED BY <1>2, <1>6, <1>7 DEF b, s

\* The buttons of the action sheet of each device, one by one.
LEMMA SheetOfDevice ==
    ASSUME NEW S, NEW b, b = ActionSheetButtons(S)
    PROVE  /\ "library" \in S /\ "camera" \in S =>
                 /\ Len(b) = 3 /\ b[1] = "Pick from library"
                 /\ b[2] = "Take a photo" /\ b[3] = "Cancel"
           /\ "library" \in S /\ "camera" \notin S =>
                 Len(b) = 2 /\ b[1] = "Pick from library" /\ b[2] = "Cancel"
           /\ "library" \notin S => b[1] # "Pick from library"
<1>1. /\ Len((<<"Pick from library">> \o <<"Take a photo">>) \o <<"Cancel">>) = 3
      /\ ((<<"Pick from library">> \o <<"Take a photo">>) \o <<"Cancel">>)[1] = "Pick from library"
      /\ ((<<"Pick from library">> \o <<"Take a photo">>) \o <<"Cancel">>)[2] = "Take a photo"
      /\ ((<<"Pick from library">> \o <<"Take a photo">>) \o <<"Cancel">>)[3] = "Cancel"
  <2>1. ASSUME NEW x, NEW y, NEW z
        PROVE  /\ Len((<<x>> \o <<y>>) \o <<z>>) = 3
               /\ ((<<x>> \o <<y>>) \o <<z>>)[1] = x
               /\ ((<<x>> \o <<y>>) \o <<z>>)[2] = y
               /\ ((<<x>> \o <<y>>) \o <<z>>)[3] = z
    BY ThreeInARow
  <2> DEFINE x == "Pick from library"
             y == "Take a photo"
             z == "Cancel"
  <2> HIDE DEF x, y, z
  <2>2. /\ Len((<<x>> \o <<y>>) \o <<z>>) = 3
        /\ ((<<x>> \o <<y>>) \o <<z>>)[1] = x
        /\ ((<<x>> \o <<y>>) \o <<z>>)[2] = y
        /\ ((<<x>> \o <<y>>) \o <<z>>)[3] = z
    BY <2>1
  <2> QED BY <2>2, Zenon DEF x, y, z
<1>2. /\ Len((<<"Pick from library">> \o <<>>) \o <<"Cancel">>) = 2
      /\ ((<<"Pick from library">> \o <<>>) \o <<"Cancel">>)[1] = "Pick from library"
      /\ ((<<"Pick from library">> \o <<>>) \o <<"Cancel">>)[2] = "Cancel"
  BY ONLY TwoInARow, Zenon
<1>3. /\ ((<<>> \o <<"Take a photo">>) \o <<"Cancel">>)[1] = "Take a photo"
  BY ONLY TwoInARowToo, Zenon
<1>4. /\ ((<<>> \o <<>>) \o <<"Cancel">>)[1] = "Cancel"
  OBVIOUS
<1>5. "library" \in S /\ "camera" \in S =>
         /\ Len(b) = 3 /\ b[1] = "Pick from library"
         /\ b[2] = "Take a photo" /\ b[3] = "Cancel"
  BY <1>1, Zenon DEF ActionSheetButtons
<1>6. "library" \in S /\ "camera" \notin S =>
         Len(b) = 2 /\ b[1] = "Pick from library" /\ b[2] = "Cancel"
  BY <1>2, Zenon DEF ActionSheetButtons
<1>7. "library" \notin S => b[1] = "Take a photo" \/ b[1] = "Cancel"
  BY <1>3, <1>4, Zenon DEF ActionSheetButtons
<1> QED BY ONLY <1>5, <1>6, <1>7

\* While the sheet offers the library, a button does what its title says, though the
\* handler looks at its index alone (actionSheet:clickedButtonAtIndex:): also "Cancel"
\* where it stands in the place of the missing camera.
THEOREM ButtonsDoWhatTheySay == Spec => ButtonsKeepTheirWord
<1>0. SourceAtIndex(0) = {"library"} /\ SourceAtIndex(1) = {"camera"} /\ SourceAtIndex(2) = {}
  BY DEF SourceAtIndex
<1>1. ASSUME NEW index \in 0 .. Len(sheet) - 1, ActionSheetClicked(index),
             sheet[1] = "Pick from library", sheet = ActionSheetButtons(available)
      PROVE  DoesWhatItSays(index)
  <2>0. ActionSheetClicked(index) /\ index \in 0 .. Len(sheet) - 1
    BY <1>1
  <2>1. "library" \in available
    BY <1>1, SheetOfDevice
  <2>2. CASE "camera" \in available
    <3>1. /\ Len(sheet) = 3 /\ sheet[1] = "Pick from library"
          /\ sheet[2] = "Take a photo" /\ sheet[3] = "Cancel"
      BY <1>1, <2>1, <2>2, SheetOfDevice
    <3>2. Len(sheet) = 3
      BY <3>1
    <3>3. index \in {0, 1, 2}
      BY ONLY <2>0, <3>2
    <3>4. CASE index = 0
      <4>1. index + 1 = 1
        BY <3>4
      <4>2. sheet[index + 1] = "Pick from library"
        BY <3>1, <4>1, Zenon
      <4>3. SourceAtIndex(index) = {"library"}
        BY ONLY <1>0, <3>4
      <4>4. ui' = "library"
        BY ONLY <2>0, <2>1, <4>3 DEF ActionSheetClicked, PresentImagePicker
      <4> QED BY <2>1, <4>2, <4>4 DEF DoesWhatItSays, Promised
    <3>5. CASE index = 1
      <4>1. index + 1 = 2
        BY <3>5
      <4>2. sheet[index + 1] = "Take a photo"
        BY <3>1, <4>1, Zenon
      <4>3. SourceAtIndex(index) = {"camera"}
        BY ONLY <1>0, <3>5
      <4>4. ui' = "camera"
        BY ONLY <2>0, <2>2, <4>3 DEF ActionSheetClicked, PresentImagePicker
      <4> QED BY <2>2, <4>2, <4>4 DEF DoesWhatItSays, Promised
    <3>6. CASE index = 2
      <4>1. index + 1 = 3
        BY <3>6
      <4>2. sheet[index + 1] = "Cancel"
        BY <3>1, <4>1, Zenon
      <4>3. SourceAtIndex(index) = {}
        BY ONLY <1>0, <3>6
      <4>4. ui' = "stream"
        BY ONLY <2>0, <4>3 DEF ActionSheetClicked, PresentImagePicker
      <4> QED BY <4>2, <4>4 DEF DoesWhatItSays, Promised
    <3> QED BY <3>3, <3>4, <3>5, <3>6
  <2>3. CASE "camera" \notin available
    <3>1. Len(sheet) = 2 /\ sheet[1] = "Pick from library" /\ sheet[2] = "Cancel"
      BY <1>1, <2>1, <2>3, SheetOfDevice
    <3>2. Len(sheet) = 2
      BY <3>1
    <3>3. index \in {0, 1}
      BY ONLY <2>0, <3>2
    <3>4. CASE index = 0
      <4>1. index + 1 = 1
        BY <3>4
      <4>2. sheet[index + 1] = "Pick from library"
        BY <3>1, <4>1, Zenon
      <4>3. SourceAtIndex(index) = {"library"}
        BY ONLY <1>0, <3>4
      <4>4. ui' = "library"
        BY ONLY <2>0, <2>1, <4>3 DEF ActionSheetClicked, PresentImagePicker
      <4> QED BY <2>1, <4>2, <4>4 DEF DoesWhatItSays, Promised
    <3>5. CASE index = 1
      <4>1. index + 1 = 2
        BY <3>5
      <4>2. sheet[index + 1] = "Cancel"
        BY <3>1, <4>1, Zenon
      <4>3. SourceAtIndex(index) = {"camera"}
        BY ONLY <1>0, <3>5
      <4>4. ui' = "stream"
        BY ONLY <2>0, <2>3, <4>3 DEF ActionSheetClicked, PresentImagePicker
      <4> QED BY <4>2, <4>4 DEF DoesWhatItSays, Promised
    <3> QED BY <3>3, <3>4, <3>5
  <2> QED BY <2>2, <2>3
<1> DEFINE Kept == \A index \in 0 .. Len(sheet) - 1 :
                      /\ ActionSheetClicked(index)
                      /\ sheet[1] = "Pick from library"
                      /\ sheet = ActionSheetButtons(available)
                      => DoesWhatItSays(index)
<1>2. Kept
  BY <1>1
<1>3. [Next]_creatorVars => [Kept]_creatorVars
  BY <1>2
<1> QED BY <1>3, PTL DEF Spec, ButtonsKeepTheirWord
=============================================================================
