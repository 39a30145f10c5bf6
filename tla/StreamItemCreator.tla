-------------------------- MODULE StreamItemCreator --------------------------
(***************************************************************************)
(* StreamItemCreator.m: the dialogue that turns "Add" into a StreamItem.   *)
(* An action sheet asks for a source, an image picker for a picture, an    *)
(* alert for a title; then the item is handed to the delegate.             *)
(*                                                                         *)
(* Every callback runs on the main thread, so a handler is one action.     *)
(* Between two handlers the user, UIKit and the device settings act.       *)
(* UIKit's modality (external) is the guard on `ui`: a sheet, a picker, a  *)
(* picker being dismissed and an alert each keep the rest of the screen    *)
(* from receiving touches.                                                 *)
(***************************************************************************)
EXTENDS Naturals, Sequences

CONSTANTS Photo,      \* pictures the image picker can return
          Degenerate, \* those whose resized image is empty (see ImageResizer)
          Title,      \* texts the user may type
          DeviceSource,  \* the sources the device can have at all
          MaxItems       \* bound: items handed to the delegate

Source  == {"library", "camera"}
NoPhoto == "no photo"
NoTitle == "no title"

ASSUME CreatorAssumption == /\ NoPhoto \notin Photo
                            /\ NoTitle \notin Title
                            /\ Degenerate \subseteq Photo
                            /\ DeviceSource \subseteq Source
                            /\ MaxItems \in Nat

VARIABLES ui,          \* what is on top of the photo stream
          available,   \* the sources isSourceTypeAvailable: answers YES for
          sheet,       \* titles of the action sheet's buttons, index 0 first
          createdItem, \* the property of that name; NoItem is nil
          handed       \* the items passed to streamItemCreator:didCreateItem:

creatorVars == <<ui, available, sheet, createdItem, handed>>

Button  == {"Pick from library", "Take a photo", "Cancel"}
NoItem  == [photo |-> NoPhoto, title |-> NoTitle]
Item    == [photo : Photo, title : Title \cup {NoTitle}]
Titled  == [photo : Photo, title : Title]

Screen == {"stream", "sheet", "library", "camera", "dismissing", "alert"}

\* UIImageJPEGRepresentation of an empty image is nil.
HasData(item) == item.photo \notin Degenerate

\* setupActionSheetButtons: the buttons depend on what is available, and
\* "Cancel" always comes last.
ActionSheetButtons(sources) ==
    (IF "library" \in sources THEN <<"Pick from library">> ELSE <<>>)
      \o (IF "camera" \in sources THEN <<"Take a photo">> ELSE <<>>)
      \o <<"Cancel">>

\* Faulty: the two cases swapped.
SourceAtIndexSwapped(index) == CASE index = 0 -> {"camera"}
                                 [] index = 1 -> {"library"}
                                 [] OTHER     -> {}

\* actionSheet:clickedButtonAtIndex: the switch on the index.
SourceAtIndex(index) == CASE index = 0 -> {"library"}
                          [] index = 1 -> {"camera"}
                          [] OTHER     -> {}

\* presentImagePickerWithSourceType: presents nothing when unavailable.
PresentImagePicker(source) ==
    ui' = IF source \in available THEN source ELSE "stream"

-----------------------------------------------------------------------------

Init == /\ ui = "stream"
        /\ available \in SUBSET DeviceSource
        /\ sheet = <<>>
        /\ createdItem = NoItem
        /\ handed = <<>>

\* addBarButtonItemPressed: and createStreamItem.
CreateStreamItem ==
    /\ ui = "stream"
    /\ Len(handed) < MaxItems
    /\ createdItem' = NoItem
    /\ sheet' = ActionSheetButtons(available)
    /\ ui' = "sheet"
    /\ UNCHANGED <<available, handed>>

ActionSheetClicked(index) ==
    /\ ui = "sheet"
    /\ \/ \E source \in SourceAtIndex(index) : PresentImagePicker(source)
       \/ SourceAtIndex(index) = {} /\ ui' = "stream"
    /\ sheet' = <<>>
    /\ UNCHANGED <<available, createdItem, handed>>

\* The picker is dismissed with a completion block that shows the alert.
DidFinishPicking(photo) ==
    /\ ui \in Source
    /\ createdItem' = [photo |-> photo, title |-> NoTitle]
    /\ ui' = "dismissing"
    /\ UNCHANGED <<available, sheet, handed>>

DidCancelPicking ==
    /\ ui \in Source
    /\ ui' = "stream"
    /\ UNCHANGED <<available, sheet, createdItem, handed>>

\* Faulty: starts over before asking for the title.
ShowAlertViewForNoItem ==
    /\ ui = "dismissing"
    /\ ui' = "alert"
    /\ createdItem' = NoItem
    /\ UNCHANGED <<available, sheet, handed>>

\* UIKit runs the completion block once the picker is gone.
ShowAlertView ==
    /\ ui = "dismissing"
    /\ ui' = "alert"
    /\ UNCHANGED <<available, sheet, createdItem, handed>>

\* Faulty: hands the item over before it has its title.
UntitledItem(title) == createdItem

\* The item the delegate receives. Messages to nil do nothing, so the title
\* of a nil item stays unset.
TitledItem(title) ==
    IF createdItem = NoItem THEN NoItem
                            ELSE [createdItem EXCEPT !.title = title]

AlertViewClicked(title) ==
    /\ ui = "alert"
    /\ handed' = Append(handed, TitledItem(title))
    /\ createdItem' = NoItem
    /\ ui' = "stream"
    /\ UNCHANGED <<available, sheet>>

\* The device: a camera or the photo library becomes (un)available while the
\* app runs, for instance by a change of the restrictions in Settings.
AvailabilityChanges(sources) ==
    /\ sources # available
    /\ available' = sources
    /\ UNCHANGED <<ui, sheet, createdItem, handed>>

Next == \/ CreateStreamItem
        \/ \E index \in 0 .. Len(sheet) - 1 : ActionSheetClicked(index)
        \/ \E photo \in Photo : DidFinishPicking(photo)
        \/ DidCancelPicking
        \/ ShowAlertView
        \/ \E title \in Title : AlertViewClicked(title)
        \/ \E sources \in SUBSET DeviceSource : AvailabilityChanges(sources)

Spec == Init /\ [][Next]_creatorVars

-----------------------------------------------------------------------------
(***************************************************************************)
(* Properties                                                              *)
(***************************************************************************)

\* The shape of the state. `handed` holds no nil item and no item without a
\* title: the transformer raises on either (StreamItemTransformer.m:23-24).
TypeOK == /\ ui \in Screen
          /\ available \in SUBSET DeviceSource
          /\ sheet \in Seq(Button) /\ (ui = "sheet" <=> sheet # <<>>)
          /\ createdItem \in Item \cup {NoItem}
          /\ handed \in Seq(Titled)
          /\ Len(handed) <= MaxItems

\* The item under construction exists exactly from the pick to the handover:
\* no earlier request leaves an item behind, no step in between loses it.
ItemHeldForTheAlert ==
    /\ createdItem # NoItem <=> ui \in {"dismissing", "alert"}
    /\ createdItem.title = NoTitle

\* The invariant of the dialogue: with room for one more item whenever one may
\* come of it, it is inductive.
Inv == /\ TypeOK
       /\ ItemHeldForTheAlert
       /\ ui # "stream" => Len(handed) < MaxItems

\* What a button's title says clicking it does.
Promised(button) ==
    CASE button = "Pick from library" -> {"library"} \cap available
      [] button = "Take a photo"      -> {"camera"} \cap available
      [] button = "Cancel"            -> {}

DoesWhatItSays(index) ==
    ui' \in IF Promised(sheet[index + 1]) = {} THEN {"stream"}
                                               ELSE Promised(sheet[index + 1])

\* While the sheet offers the library, and nothing became available since it
\* was set up, every button does what its title says.
ButtonsKeepTheirWord ==
    [][\A index \in 0 .. Len(sheet) - 1 :
          /\ ActionSheetClicked(index)
          /\ sheet[1] = "Pick from library"
          /\ sheet = ActionSheetButtons(available)
          => DoesWhatItSays(index)]_creatorVars

\* The titles at StreamItemCreator.m:67, 70 and 72 taken at their word on every
\* device, also one whose only source is the camera.
EveryButtonDoesWhatItSays ==
    [][\A index \in 0 .. Len(sheet) - 1 :
          ActionSheetClicked(index) /\ sheet = ActionSheetButtons(available)
          => DoesWhatItSays(index)]_creatorVars

RequestPhase == IF ui = "stream" THEN "none"
                ELSE IF ui \in {"dismissing", "alert"} THEN "picked" ELSE "asked"

Request == INSTANCE CreationRequest
    WITH phase     <- RequestPhase,
         picked    <- createdItem.photo,
         delivered <- handed

\* A request is dropped or yields one item, which shows the picture picked for
\* it and carries the title typed for it.
YieldsThePickedItem == Request!Spec
=============================================================================
