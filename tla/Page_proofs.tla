----------------------------- MODULE Page_proofs -----------------------------
(***************************************************************************)
(* Proofs about the page.                                                  *)
(*                                                                         *)
(* The mouse, the focus and drag and drop, for any document, any number of *)
(* presses and whatever scripts do in the listeners: what a release leaves *)
(* behind, which element gets a drop, and that a click does not undo what  *)
(* a script did to the focus.  Then RingInv: who is still to be told of a  *)
(* change of focus, and so where :focus is when it is over.                *)
(*                                                                         *)
(* The render tree, for any document and style: RepaintInv says what a     *)
(* batch and a frame in progress leave undrawn.  The components share no   *)
(* variable; the last part of this module is about RenderTreeSync only.    *)
(***************************************************************************)
EXTENDS MouseEventDispatcher, RenderTreeSync, SequenceTheorems, FiniteSetTheorems,
        WellFoundedInduction, TLAPS

\* The records keep their fields, whatever is in them.
ShapeOK ==
  /\ task = [f \in {"at", "button", "hit", "press"} |-> task[f]]
  /\ clear = [f \in {"armed", "element", "target"} |-> clear[f]]
  /\ drag = [f \in {"element", "started", "over", "allowed"} |-> drag[f]]

\* The steps of a press, of a release until its click is resolved, and of a release.
Pressing == task.at \in {"down", "mousedown", "pressed"}
Rising == task.at \in {"up", "mouseup", "noHitUp", "click"}
Releasing == Rising \/ task.at \in {"resolved", "drop", "dragend"}

PressIsHeld == Pressing => task.button \in held

\* A change of focus is pending from a press of the left button to its release, and
\* not after a script changed the focus unless the serial tells.
ClearStage ==
  /\ clear.armed => Left \in held \/ Rising
  /\ scripted /\ clear.armed => changed

\* What is lit is what was pressed, until the release has been told to it.
LitStage ==
  /\ None \notin lit
  /\ task.at \in {"mousedown", "pressed"} => task.hit # None
  /\ ~chorded =>
       /\ lit \subseteq {pressed}
       /\ lit # {} => held # {} \/ task.at \in {"up", "noHitUp"}
       /\ task.at \in {"down", "mousedown", "mouseup", "click"} => lit = {}
       /\ task.at = "noHitUp" => task.press = pressed

\* An element is dragged while the left button is down or its release is handled.
DragStage ==
  drag.element # None => strayed \/ Left \in held \/ (Releasing /\ task.button = Left)

\* Consent is that of the last dragover, except between two of them.
DropStage ==
  /\ drag.allowed /\ drag.started /\ task.at # "drag" => accepted = drag.over
  /\ task.at = "dragover" => ~drag.allowed
  /\ task.at = "drop" => drag.over # None /\ accepted = drag.over

MouseInv == ShapeOK /\ PressIsHeld /\ ClearStage /\ LitStage /\ DragStage /\ DropStage

-----------------------------------------------------------------------------
LEMMA InitMouseInv == Init => MouseInv
  BY DEF Init, FocusInit, Idle, NoClear, NoDrag, MouseInv, ShapeOK, PressIsHeld, Pressing,
         ClearStage, LitStage, DragStage, DropStage

\* The fields of the task after a step to another place, and after the last one.
LEMMA TaskFields ==
  ASSUME ShapeOK, NEW at, To(at)
  PROVE  /\ task' = [f \in {"at", "button", "hit", "press"} |-> task'[f]]
         /\ task'.at = at /\ task'.button = task.button
         /\ task'.hit = task.hit /\ task'.press = task.press
  BY DEF ShapeOK, To

LEMMA DoneFields ==
  ASSUME Done
  PROVE  /\ task' = [f \in {"at", "button", "hit", "press"} |-> task'[f]]
         /\ task'.at = "idle"
  BY DEF Done, Idle

\* Events arrive between two others.
LEMMA ArriveInv ==
  ASSUME MouseInv, NEW step \in {"down", "up", "move"}, NEW b, NEW e, Arrive(step, b, e),
         \/ step = "down" /\ held' = held \cup {b} /\ chorded' = (chorded \/ held # {})
         \/ step = "up" /\ b \in held /\ held' = held \ {b} /\ UNCHANGED chorded
         \/ step = "move" /\ UNCHANGED <<held, chorded>>,
         UNCHANGED scripted
  PROVE  MouseInv'
<1>1. /\ task' = [f \in {"at", "button", "hit", "press"} |-> task'[f]]
      /\ task'.at = step /\ task'.button = b /\ task.at = "idle"
  BY DEF Arrive, Idle
<1>2. UNCHANGED <<clear, drag, accepted, lit, pressed, strayed, changed>>
  BY DEF Arrive, pressVars, dragVars, keyVars, focusVars
<1>3. ShapeOK'
  BY <1>1, <1>2 DEF MouseInv, ShapeOK
<1>4. PressIsHeld' /\ ClearStage'
  BY <1>1, <1>2 DEF MouseInv, PressIsHeld, Pressing, ClearStage, Rising
<1>5. LitStage'
  BY <1>1, <1>2 DEF MouseInv, LitStage
<1>6. DragStage' /\ DropStage'
  BY <1>1, <1>2 DEF MouseInv, DragStage, DropStage, Releasing, Rising
<1> QED
  BY <1>3, <1>4, <1>5, <1>6 DEF MouseInv

\* PrepareFocusClearOnMouseDown and its like: what is armed is armed by the left
\* button, and the history starts again with the serial.
LEMMA PressInv ==
  ASSUME MouseInv,
         MouseDown \/ MouseDownNoHit \/ MouseDownSuppressed \/ Pressed
  PROVE  MouseInv'
<1>1. CASE MouseDown
  <2>1. /\ task' = [f \in {"at", "button", "hit", "press"} |-> task'[f]]
        /\ task.at = "down" /\ task'.at = "mousedown" /\ task'.button = task.button
        /\ task'.hit = task.hit /\ task.hit # None
    BY <1>1, TaskFields DEF MouseInv, MouseDown, At
  <2>2. UNCHANGED <<held, drag, accepted, lit, pressed, strayed, chorded>>
    BY <1>1 DEF MouseDown, dragVars, boundVars
  <2>3. /\ clear' = [f \in {"armed", "element", "target"} |-> clear'[f]]
        /\ clear'.armed => task.button = Left
    BY <1>1 DEF MouseDown, PrepareFocusClearOnMouseDown, CancelPendingFocusClear, NoClear
  <2>4. scripted' => task.button # Left
    BY <1>1 DEF MouseDown
  <2>5. ShapeOK' /\ PressIsHeld' /\ ClearStage'
    BY <2>1, <2>2, <2>3, <2>4 DEF MouseInv, ShapeOK, PressIsHeld, Pressing, ClearStage
  <2>6. LitStage' /\ DragStage' /\ DropStage'
    BY <2>1, <2>2 DEF MouseInv, LitStage, DragStage, DropStage, PressIsHeld, Pressing,
                      Releasing, Rising
  <2> QED
    BY <2>5, <2>6 DEF MouseInv
<1>2. CASE MouseDownNoHit
  <2>1. /\ task' = [f \in {"at", "button", "hit", "press"} |-> task'[f]]
        /\ task.at = "down" /\ task'.at = "idle"
    BY <1>2, DoneFields DEF MouseDownNoHit, At
  <2>2. UNCHANGED <<held, drag, accepted, lit, pressed, strayed, chorded>>
    BY <1>2 DEF MouseDownNoHit, dragVars, boundVars
  <2>3. CASE task.button = Left /\ focus # None
    <3>1. /\ clear' = [f \in {"armed", "element", "target"} |-> clear'[f]]
          /\ ~scripted'
      BY <1>2, <2>3 DEF MouseInv, ShapeOK, MouseDownNoHit
    <3>2. Left \in held
      BY <2>1, <2>3 DEF MouseInv, PressIsHeld, Pressing
    <3> QED
      BY <2>1, <2>2, <3>1, <3>2
      DEF MouseInv, ShapeOK, PressIsHeld, Pressing, ClearStage, LitStage, DragStage,
          DropStage, Releasing, Rising
  <2>4. CASE ~(task.button = Left /\ focus # None)
    <3>1. /\ clear' = [f \in {"armed", "element", "target"} |-> clear'[f]]
          /\ clear'.armed => ~scripted' /\ clear.armed
      <4>1. CASE task.button # Left
        <5>1. clear' = NoClear
          BY <1>2, <4>1 DEF MouseDownNoHit, CancelPendingFocusClear
        <5> QED
          BY <5>1 DEF NoClear
      <4>2. CASE task.button = Left /\ focus = None
        <5>1. clear' = clear /\ ~scripted'
          BY <1>2, <4>2 DEF MouseDownNoHit
        <5> QED
          BY <5>1 DEF MouseInv, ShapeOK
      <4> QED
        BY <2>4, <4>1, <4>2
    <3> QED
      BY <2>1, <2>2, <3>1
      DEF MouseInv, ShapeOK, PressIsHeld, Pressing, ClearStage, LitStage, DragStage,
          DropStage, Releasing, Rising
  <2> QED
    BY <2>3, <2>4
<1>3. CASE MouseDownSuppressed
  <2>1. /\ task' = [f \in {"at", "button", "hit", "press"} |-> task'[f]]
        /\ task.at = "down" /\ task'.at = "idle"
    BY <1>3, DoneFields DEF MouseDownSuppressed, At
  <2>2. UNCHANGED <<held, drag, accepted, strayed, chorded>>
    BY <1>3 DEF MouseDownSuppressed, dragVars, boundVars, historyVars
  <2>3. lit' = lit \ {pressed} /\ clear' = NoClear
    BY <1>3 DEF MouseDownSuppressed, CancelPendingFocusClear
  <2>4. ShapeOK' /\ PressIsHeld' /\ ClearStage'
    BY <2>1, <2>2, <2>3 DEF MouseInv, ShapeOK, PressIsHeld, Pressing, ClearStage, NoClear
  <2>5. LitStage' /\ DragStage' /\ DropStage'
    BY <2>1, <2>2, <2>3 DEF MouseInv, LitStage, DragStage, DropStage, Releasing, Rising
  <2> QED
    BY <2>4, <2>5 DEF MouseInv
<1>4. CASE Pressed
  <2>1. /\ task' = [f \in {"at", "button", "hit", "press"} |-> task'[f]]
        /\ task.at = "mousedown" /\ task'.at = "pressed" /\ task'.button = task.button
        /\ task'.hit = task.hit
    BY <1>4, TaskFields DEF MouseInv, Pressed, At
  <2>2. UNCHANGED <<held, drag, accepted, strayed, chorded, scripted, clear>>
    BY <1>4 DEF Pressed, dragVars, boundVars, historyVars
  <2>3. lit' = lit \cup {task.hit} /\ pressed' = task.hit /\ (changed => changed')
    BY <1>4 DEF Pressed, SetFocus, focusVars
  <2>4. ShapeOK' /\ PressIsHeld' /\ ClearStage'
    BY <2>1, <2>2, <2>3 DEF MouseInv, ShapeOK, PressIsHeld, Pressing, ClearStage, Rising
  <2>5. LitStage' /\ DragStage' /\ DropStage'
    BY <2>1, <2>2, <2>3 DEF MouseInv, LitStage, DragStage, DropStage, PressIsHeld,
                            Pressing, Releasing, Rising
  <2> QED
    BY <2>4, <2>5 DEF MouseInv
<1> QED
  BY <1>1, <1>2, <1>3, <1>4

LEMMA DetectionInv ==
  ASSUME MouseInv, StartDragDetection
  PROVE  MouseInv'
<1>1. /\ task' = [f \in {"at", "button", "hit", "press"} |-> task'[f]]
      /\ task.at = "pressed" /\ task'.at = "idle"
  BY DoneFields DEF StartDragDetection, At
<1>2. UNCHANGED <<held, lit, pressed, clear, changed, strayed, chorded, scripted>>
  BY DEF StartDragDetection, keyVars, focusVars, pressVars, boundVars, historyVars
<1>3. /\ drag' = [f \in {"element", "started", "over", "allowed"} |-> drag'[f]]
      /\ \/ UNCHANGED <<drag, accepted>>
         \/ task.button = Left /\ ~drag'.started
  <2> DEFINE found == SelectSeq(Chain(task.hit), LAMBDA n : n \in Draggable)
  <2>1. \/ /\ task.button = Left
           /\ drag' = [drag EXCEPT !.element = Head(found), !.started = FALSE]
        \/ UNCHANGED <<drag, accepted>>
    BY DEF StartDragDetection, dragVars
  <2> HIDE DEF found
  <2> QED
    BY <2>1 DEF MouseInv, ShapeOK
<1>4. task.button = Left => Left \in held
  BY <1>1 DEF MouseInv, PressIsHeld, Pressing
<1>5. ShapeOK' /\ PressIsHeld' /\ ClearStage'
  BY <1>1, <1>2, <1>3 DEF MouseInv, ShapeOK, PressIsHeld, Pressing, ClearStage, Rising
<1>6. LitStage'
  BY <1>1, <1>2, <1>4 DEF MouseInv, LitStage, PressIsHeld, Pressing
<1>7. DragStage' /\ DropStage'
  BY <1>1, <1>2, <1>3, <1>4 DEF MouseInv, DragStage, DropStage, Releasing, Rising
<1> QED
  BY <1>5, <1>6, <1>7 DEF MouseInv

\* ResolveFocusClearAfterClick, whatever it decides, leaves nothing armed.
LEMMA ReleaseInv ==
  ASSUME MouseInv, MouseUp \/ MouseUpElsewhere \/ Click \/ Released
  PROVE  MouseInv'
<1>1. CASE MouseUp
  <2>1. /\ task' = [f \in {"at", "button", "hit", "press"} |-> task'[f]]
        /\ task.at = "up" /\ task'.at = "mouseup" /\ task'.button = task.button
    BY <1>1 DEF MouseInv, ShapeOK, MouseUp, At
  <2>2. UNCHANGED <<held, clear, changed, drag, accepted, pressed, strayed, chorded, scripted>>
    BY <1>1 DEF MouseUp, keyVars, focusVars, dragVars, boundVars, historyVars
  <2>3. lit' = lit \ {pressed}
    BY <1>1 DEF MouseUp
  <2>4. ShapeOK' /\ PressIsHeld' /\ ClearStage'
    BY <2>1, <2>2 DEF MouseInv, ShapeOK, PressIsHeld, Pressing, ClearStage, Rising
  <2>5. LitStage' /\ DragStage' /\ DropStage'
    BY <2>1, <2>2, <2>3 DEF MouseInv, LitStage, DragStage, DropStage, Releasing, Rising
  <2> QED
    BY <2>4, <2>5 DEF MouseInv
<1>2. CASE MouseUpElsewhere
  <2>1. /\ task.at = "up"
        /\ UNCHANGED <<held, drag, accepted, pressed, lit, chorded, scripted>>
        /\ strayed' = (strayed \/ (task.hit = None /\ pressed = None))
    BY <1>2 DEF MouseUpElsewhere, At, dragVars, boundVars
  <2>2. CASE pressed # None
    <3>1. /\ task' = [f \in {"at", "button", "hit", "press"} |-> task'[f]]
          /\ task'.at = "noHitUp" /\ task'.button = task.button /\ task'.press = pressed
          /\ UNCHANGED <<clear, changed>>
      BY <1>2, <2>2 DEF MouseInv, ShapeOK, MouseUpElsewhere, focusVars
    <3> QED
      BY <2>1, <2>2, <3>1
      DEF MouseInv, ShapeOK, PressIsHeld, Pressing, ClearStage, LitStage, DragStage,
          DropStage, Releasing, Rising
  <2>3. CASE pressed = None
    <3>1. clear' = NoClear
      BY <1>2, <2>3 DEF MouseUpElsewhere, ResolveFocusClearAfterClick
    <3>2. \/ Done /\ task.hit = None
          \/ To("resolved")
      BY <1>2, <2>3 DEF MouseUpElsewhere
    <3>3. /\ task' = [f \in {"at", "button", "hit", "press"} |-> task'[f]]
          /\ \/ task'.at = "idle" /\ task.hit = None
             \/ task'.at = "resolved" /\ task'.button = task.button
      BY <3>2, DoneFields, TaskFields DEF MouseInv
    <3>4. ShapeOK' /\ PressIsHeld' /\ ClearStage'
      BY <2>1, <3>1, <3>3 DEF MouseInv, ShapeOK, PressIsHeld, Pressing, ClearStage, NoClear
    <3>5. LitStage' /\ DragStage' /\ DropStage'
      BY <2>1, <2>3, <3>3 DEF MouseInv, LitStage, DragStage, DropStage, Releasing, Rising
    <3> QED
      BY <3>4, <3>5 DEF MouseInv
  <2> QED
    BY <2>2, <2>3
<1>3. CASE Click
  <2>1. /\ task' = [f \in {"at", "button", "hit", "press"} |-> task'[f]]
        /\ task.at = "mouseup" /\ task'.at = "click" /\ task'.button = task.button
    BY <1>3, TaskFields DEF MouseInv, Click, At
  <2>2. UNCHANGED <<held, clear, changed, drag, accepted, pressed, lit, strayed, chorded, scripted>>
    BY <1>3 DEF Click, keyVars, focusVars, pressVars, dragVars, boundVars, historyVars
  <2> QED
    BY <2>1, <2>2
    DEF MouseInv, ShapeOK, PressIsHeld, Pressing, ClearStage, LitStage, DragStage,
        DropStage, Releasing, Rising
<1>4. CASE Released
  <2>1. /\ task' = [f \in {"at", "button", "hit", "press"} |-> task'[f]]
        /\ task.at \in {"noHitUp", "click", "mouseup"}
        /\ task'.at = "resolved" /\ task'.button = task.button
    BY <1>4, TaskFields DEF MouseInv, Released, At
  <2>2. /\ UNCHANGED <<held, drag, accepted, strayed, chorded, scripted>>
        /\ clear' = NoClear
    BY <1>4 DEF Released, ResolveFocusClearAfterClick, dragVars, boundVars, historyVars
  <2>3. /\ lit' \subseteq lit
        /\ task.at = "noHitUp" => lit' = lit \ {task.press}
    BY <1>4 DEF Released
  <2>4. ShapeOK' /\ PressIsHeld' /\ ClearStage'
    BY <2>1, <2>2 DEF MouseInv, ShapeOK, PressIsHeld, Pressing, ClearStage, NoClear
  <2>5. LitStage'
    BY <2>1, <2>2, <2>3 DEF MouseInv, LitStage
  <2>6. DragStage' /\ DropStage'
    BY <2>1, <2>2 DEF MouseInv, DragStage, DropStage, Releasing, Rising
  <2> QED
    BY <2>4, <2>5, <2>6 DEF MouseInv
<1> QED
  BY <1>1, <1>2, <1>3, <1>4

\* The drag manager changes nothing but the drag and the step of the task.
LEMMA DragStepInv ==
  ASSUME MouseInv,
         task' = [f \in {"at", "button", "hit", "press"} |-> task'[f]],
         drag' = [f \in {"element", "started", "over", "allowed"} |-> drag'[f]],
         task'.at \notin {"down", "mousedown", "pressed", "up", "mouseup", "noHitUp", "click"},
         task.at \notin {"down", "mousedown", "pressed", "up", "mouseup", "noHitUp", "click"},
         UNCHANGED <<keyVars, pressVars, boundVars, historyVars>>,
         DragStage', DropStage'
  PROVE  MouseInv'
<1>1. UNCHANGED <<held, clear, changed, lit, pressed, chorded, scripted>>
  BY DEF keyVars, focusVars, pressVars, boundVars, historyVars
<1>2. ShapeOK' /\ PressIsHeld' /\ ClearStage'
  BY <1>1 DEF MouseInv, ShapeOK, PressIsHeld, Pressing, ClearStage, Rising
<1>3. LitStage'
  BY <1>1 DEF MouseInv, LitStage
<1> QED
  BY <1>2, <1>3 DEF MouseInv

LEMMA EndDragInv ==
  ASSUME MouseInv, NEW effect \in BOOLEAN, EndDrag(effect)
  PROVE  MouseInv'
<1>1. /\ task.at = "resolved"
      /\ UNCHANGED <<keyVars, pressVars, boundVars, historyVars>>
      /\ UNCHANGED <<held, strayed>>
  BY DEF EndDrag, At, boundVars, historyVars
<1>2. CASE task.button # Left
  <2>1. /\ task' = [f \in {"at", "button", "hit", "press"} |-> task'[f]]
        /\ task'.at = "idle" /\ UNCHANGED <<drag, accepted>>
    BY <1>2, DoneFields DEF EndDrag, dragVars
  <2>2. DragStage' /\ DropStage'
    BY <1>1, <1>2, <2>1 DEF MouseInv, DragStage, DropStage, Releasing, Rising
  <2> QED
    BY <1>1, <2>1, <2>2, DragStepInv DEF MouseInv, ShapeOK
<1>3. CASE task.button = Left /\ drag.element = None
  <2>1. /\ task' = [f \in {"at", "button", "hit", "press"} |-> task'[f]]
        /\ task'.at = "idle" /\ drag' = [drag EXCEPT !.allowed = FALSE]
    BY <1>3, DoneFields DEF EndDrag
  <2>2. /\ drag' = [f \in {"element", "started", "over", "allowed"} |-> drag'[f]]
        /\ drag'.element = None /\ ~drag'.allowed
    BY <1>3, <2>1 DEF MouseInv, ShapeOK
  <2>3. DragStage' /\ DropStage'
    BY <2>1, <2>2 DEF DragStage, DropStage
  <2> QED
    BY <1>1, <2>1, <2>2, <2>3, DragStepInv
<1>4. CASE task.button = Left /\ drag.element # None /\ drag.started
  <2> DEFINE at == IF drag.over # None /\ drag.allowed /\ effect THEN "drop" ELSE "dragend"
  <2>1. To(at) /\ UNCHANGED <<drag, accepted>>
    BY <1>4 DEF EndDrag, dragVars
  <2>2. at \in {"drop", "dragend"} /\ (at = "drop" => drag.over # None /\ drag.allowed)
    OBVIOUS
  <2> HIDE DEF at
  <2>3. /\ task' = [f \in {"at", "button", "hit", "press"} |-> task'[f]]
        /\ task'.at = at /\ task'.button = task.button
    BY <2>1, TaskFields DEF MouseInv
  <2>4. DragStage' /\ DropStage'
    BY <1>1, <1>4, <2>1, <2>2, <2>3 DEF MouseInv, DragStage, DropStage, Releasing
  <2> QED
    BY <1>1, <2>1, <2>2, <2>3, <2>4, DragStepInv DEF MouseInv, ShapeOK
<1>5. CASE task.button = Left /\ drag.element # None /\ ~drag.started
  <2>1. /\ task' = [f \in {"at", "button", "hit", "press"} |-> task'[f]]
        /\ task'.at = "idle" /\ drag' = NoDrag
    BY <1>5, DoneFields DEF EndDrag
  <2>2. DragStage' /\ DropStage'
    BY <2>1 DEF DragStage, DropStage, NoDrag
  <2> QED
    BY <1>1, <2>1, <2>2, DragStepInv DEF NoDrag
<1> QED
  BY <1>2, <1>3, <1>4, <1>5

LEMMA DragInv ==
  ASSUME MouseInv,
         \/ Dropped \/ DragEnded \/ MouseMove \/ DragStarted
         \/ \E far \in BOOLEAN : UpdateDrag(far)
  PROVE  MouseInv'
<1>1. CASE Dropped \/ MouseMove \/ \E far \in BOOLEAN : UpdateDrag(far)
  <2>1. /\ \/ task.at = "drop" /\ To("dragend")
           \/ task.at \in {"move", "mousemove"} /\ \E at \in {"mousemove", "dragstart"} : To(at)
           \/ task.at = "mousemove" /\ To("drag")
           \/ task.at \in {"move", "mousemove"} /\ Done
        /\ UNCHANGED <<keyVars, pressVars, boundVars, historyVars, drag, accepted>>
    BY <1>1 DEF Dropped, MouseMove, UpdateDrag, At, dragVars
  <2>2. /\ task' = [f \in {"at", "button", "hit", "press"} |-> task'[f]]
        /\ \/ /\ task.at = "drop" /\ task'.at = "dragend" /\ task'.button = task.button
           \/ /\ task.at \in {"move", "mousemove"}
              /\ task'.at \in {"mousemove", "dragstart", "drag", "idle"}
    BY <2>1, TaskFields, DoneFields DEF MouseInv
  <2>3. UNCHANGED <<held, strayed>>
    BY <2>1 DEF boundVars, historyVars
  <2>4. DragStage' /\ DropStage'
    BY <2>1, <2>2, <2>3 DEF MouseInv, DragStage, DropStage, Releasing, Rising
  <2> QED
    BY <2>1, <2>2, <2>4, DragStepInv DEF MouseInv, ShapeOK
<1>2. CASE DragEnded
  <2>1. /\ task' = [f \in {"at", "button", "hit", "press"} |-> task'[f]]
        /\ task.at = "dragend" /\ task'.at = "idle" /\ drag' = NoDrag
        /\ UNCHANGED <<keyVars, pressVars, boundVars, historyVars>>
    BY <1>2, DoneFields DEF DragEnded, At
  <2>2. DragStage' /\ DropStage'
    BY <2>1 DEF DragStage, DropStage, NoDrag
  <2> QED
    BY <2>1, <2>2, DragStepInv DEF NoDrag
<1>3. CASE DragStarted
  <2>1. /\ task' = [f \in {"at", "button", "hit", "press"} |-> task'[f]]
        /\ task.at = "dragstart" /\ task'.at = "drag"
        /\ UNCHANGED <<keyVars, pressVars, boundVars, historyVars>>
        /\ UNCHANGED <<held, strayed>>
    BY <1>3, TaskFields DEF MouseInv, DragStarted, At, boundVars, historyVars
  <2>2. /\ drag' = [f \in {"element", "started", "over", "allowed"} |-> drag'[f]]
        /\ drag'.element = drag.element
    BY <1>3 DEF MouseInv, ShapeOK, DragStarted
  <2>3. DragStage' /\ DropStage'
    BY <2>1, <2>2 DEF MouseInv, DragStage, DropStage, Releasing, Rising
  <2> QED
    BY <2>1, <2>2, <2>3, DragStepInv
<1> QED
  BY <1>1, <1>2, <1>3

\* Consent is withdrawn before a dragover and given by it.
LEMMA DragOverInv ==
  ASSUME MouseInv,
         \/ \E e \in Weak : DragOver(e)
         \/ \E prevented \in BOOLEAN : DragOverDone(prevented)
  PROVE  MouseInv'
<1>1. CASE \E e \in Weak : DragOver(e)
  <2>1. /\ task' = [f \in {"at", "button", "hit", "press"} |-> task'[f]]
        /\ task.at = "drag" /\ task'.at = "dragover"
        /\ UNCHANGED <<keyVars, pressVars, boundVars, historyVars>>
        /\ UNCHANGED <<held, strayed>>
    BY <1>1 DEF MouseInv, ShapeOK, DragOver, At, boundVars, historyVars
  <2>2. /\ drag' = [f \in {"element", "started", "over", "allowed"} |-> drag'[f]]
        /\ drag'.element = drag.element /\ ~drag'.allowed
    BY <1>1 DEF MouseInv, ShapeOK, DragOver
  <2>3. DragStage' /\ DropStage'
    BY <2>1, <2>2 DEF MouseInv, DragStage, DropStage, Releasing, Rising
  <2> QED
    BY <2>1, <2>2, <2>3, DragStepInv
<1>2. ASSUME NEW prevented \in BOOLEAN, DragOverDone(prevented)
      PROVE  MouseInv'
  <2>1. /\ task' = [f \in {"at", "button", "hit", "press"} |-> task'[f]]
        /\ task.at = "dragover" /\ task'.at = "idle"
        /\ UNCHANGED <<keyVars, pressVars, boundVars, historyVars>>
        /\ UNCHANGED <<held, strayed>>
    BY <1>2, DoneFields DEF DragOverDone, At, boundVars, historyVars
  <2>2. /\ drag' = [f \in {"element", "started", "over", "allowed"} |-> drag'[f]]
        /\ drag'.element = drag.element /\ drag'.over = task.hit
        /\ drag'.allowed = (drag.allowed \/ (prevented /\ task.hit # None))
        /\ accepted' = IF prevented THEN task.hit ELSE None
    BY <1>2 DEF MouseInv, ShapeOK, DragOverDone
  <2>3. drag'.allowed => accepted' = drag'.over
    BY <2>1, <2>2 DEF MouseInv, DropStage
  <2>4. DragStage' /\ DropStage'
    BY <2>1, <2>2, <2>3 DEF MouseInv, DragStage, DropStage, Releasing, Rising
  <2> QED
    BY <2>1, <2>2, <2>4, DragStepInv
<1> QED
  BY <1>1, <1>2

LEMMA FocusInv ==
  ASSUME MouseInv,
         \/ \E e \in Elements : FocusByScript(e)
         \/ \E e \in Movable : RemoveByScript(e)
         \/ \E reverse \in BOOLEAN : Tab(reverse)
         \/ FocusEvents
         \/ UNCHANGED vars
  PROVE  MouseInv'
<1>1. UNCHANGED <<task, held, pressVars, dragVars, chorded, strayed>>
  BY DEF FocusByScript, RemoveByScript, Tab, FocusEvents, vars, mouseVars, boundVars,
         historyVars
<1>2. scripted' /\ ~scripted => changed'
  BY DEF FocusByScript, SetFocus, Blur, RemoveByScript, Tab, FocusEvents, vars, mouseVars,
         historyVars
<1>3. scripted' /\ changed => changed'
  BY DEF FocusByScript, SetFocus, Blur, RemoveByScript, TakeAway, PutBack, Tab,
         TabToNextFocusableElement, FocusEvents, FocusEventsSent, FocusChanged, focusVars,
         keyVars, vars
<1>4. ShapeOK' /\ PressIsHeld'
  BY <1>1 DEF MouseInv, ShapeOK, PressIsHeld, Pressing, pressVars, dragVars
<1>5. ClearStage'
  BY <1>1, <1>2, <1>3 DEF MouseInv, ClearStage, Rising, pressVars
<1>6. LitStage' /\ DragStage' /\ DropStage'
  BY <1>1 DEF MouseInv, LitStage, DragStage, DropStage, Rising, Releasing, pressVars, dragVars
<1> QED
  BY <1>4, <1>5, <1>6 DEF MouseInv

\* A destroyed element reads as None wherever it was remembered.
LEMMA CollectInv ==
  ASSUME MouseInv, NEW e \in Movable, Collect(e)
  PROVE  MouseInv'
<1> USE DEF MouseInv, Collect, Destroy, Expired, boundVars, historyVars
<1>1. ShapeOK' /\ PressIsHeld'
  BY DEF ShapeOK, PressIsHeld, Pressing
<1>2. ClearStage'
  BY DEF ShapeOK, ClearStage, Rising
<1>3. LitStage'
  BY DEF LitStage, TaskHolds
<1>4. DragStage'
  BY DEF ShapeOK, DragStage, Rising, Releasing
<1>5. DropStage'
  BY DEF ShapeOK, DropStage, TaskHolds
<1> QED
  BY <1>1, <1>2, <1>3, <1>4, <1>5

THEOREM MouseInvariant == Spec => []MouseInv
<1>1. MouseInv /\ [Next]_vars => MouseInv'
  <2> SUFFICES ASSUME MouseInv, [Next]_vars
               PROVE  MouseInv'
    OBVIOUS
  <2>1. ASSUME NEW b \in Buttons, NEW e \in Weak, ButtonDown(b, e)
        PROVE  MouseInv'
    BY <2>1, ArriveInv DEF ButtonDown
  <2>2. ASSUME NEW b \in Buttons, NEW e \in Weak, ButtonUp(b, e)
        PROVE  MouseInv'
    BY <2>2, ArriveInv DEF ButtonUp
  <2>3. ASSUME NEW e \in Weak, MoveTo(e)
        PROVE  MouseInv'
    BY <2>3, ArriveInv DEF MoveTo
  <2>4. CASE MouseDown \/ MouseDownNoHit \/ MouseDownSuppressed \/ Pressed
    BY <2>4, PressInv
  <2>5. CASE MouseUp \/ MouseUpElsewhere \/ Click \/ Released
    BY <2>5, ReleaseInv
  <2>6. CASE \/ Dropped \/ DragEnded \/ MouseMove \/ DragStarted
             \/ \E far \in BOOLEAN : UpdateDrag(far)
    BY <2>6, DragInv
  <2>7. CASE \/ \E e \in Weak : DragOver(e)
             \/ \E prevented \in BOOLEAN : DragOverDone(prevented)
    BY <2>7, DragOverInv
  <2>8. CASE \/ \E e \in Elements : FocusByScript(e)
             \/ \E e \in Movable : RemoveByScript(e)
             \/ \E reverse \in BOOLEAN : Tab(reverse)
             \/ FocusEvents
             \/ UNCHANGED vars
    BY <2>8, FocusInv
  <2> QED
    BY <2>1, <2>2, <2>3, <2>4, <2>5, <2>6, <2>7, <2>8, DetectionInv, EndDragInv, CollectInv
    DEF Next
<1> QED
  BY <1>1, InitMouseInv, PTL DEF Spec

\* When the buttons are up and no listener runs, nothing is left of the press
\* (HandleMouseUp, HandleNoHitMouseUp, EndDrag).
THEOREM NothingIsLeftOfAPress == Spec => []ReleaseIsClean
<1>1. MouseInv => ReleaseIsClean
  BY DEF MouseInv, ReleaseIsClean, Quiet, Idle, ClearStage, LitStage, DragStage, Rising,
         Releasing
<1> QED
  BY <1>1, MouseInvariant, PTL

\* An element that gets a drop took the last dragover (UpdateDragHoverChain, EndDrag).
THEOREM NoUnwelcomeDrop == Spec => []DropIsWelcome
<1>1. MouseInv => DropIsWelcome
  BY DEF MouseInv, DropIsWelcome, DropStage
<1> QED
  BY <1>1, MouseInvariant, PTL

\* A click does not undo what a script or the Tab key did to the focus since the
\* press (ResolveFocusClearAfterClick and the serial).
THEOREM AClickKeepsTheFocus == Spec => ClickKeepsTheScriptsFocus
<1>1. MouseInv /\ [Next]_vars =>
        [(Released \/ MouseUpElsewhere) /\ changes' # changes => ~scripted]_vars
  BY DEF MouseInv, ClearStage, Released, MouseUpElsewhere, ResolveFocusClearAfterClick,
         focusVars
<1> QED
  BY <1>1, MouseInvariant, PTL DEF Spec, ClickKeepsTheScriptsFocus

-----------------------------------------------------------------------------
(* The chains of elements.                                                 *)

\* The document is what is left of the tree its elements come from.
ParentOK == parent \in [Elements -> Weak] /\ \A e \in Elements : parent[e] \in {Home[e], None}

\* A set of elements has one whose parent is not in it.
LEMMA TopOf ==
  ASSUME ParentOK, NEW S \in SUBSET Elements, S # {}
  PROVE  \E e \in S : parent[e] \notin S
<1>1. PICK e \in S : Home[e] \notin S
  BY HomeIsATree
<1> QED
  BY <1>1, HomeIsATree DEF ParentOK

\* The chains of the elements of a set that holds their parents too.
ChainsOn(g, S) ==
  /\ S \in SUBSET Elements
  /\ \A n \in S : parent[n] = None \/ parent[n] \in S
  /\ g \in [S -> Seq(Elements)]
  /\ \A n \in S : g[n] = IF parent[n] = None THEN <<n>> ELSE <<n>> \o g[parent[n]]

LEMMA ChainsAgree ==
  ASSUME ParentOK, NEW g, NEW S, ChainsOn(g, S), NEW h, NEW T, ChainsOn(h, T)
  PROVE  \A n \in S \cap T : g[n] = h[n]
<1> DEFINE D == {n \in S \cap T : g[n] # h[n]}
<1> SUFFICES D = {}
  OBVIOUS
<1> SUFFICES ASSUME D # {} PROVE FALSE
  OBVIOUS
<1>1. D \in SUBSET Elements
  BY DEF ChainsOn
<1>2. PICK n \in D : parent[n] \notin D
  BY <1>1, TopOf
<1> QED
  BY <1>2 DEF ChainsOn

LEMMA ChainsExist ==
  ASSUME ParentOK, NEW e \in Elements
  PROVE  \E S : \E g : e \in S /\ ChainsOn(g, S)
<1> DEFINE Has(n) == \E S : \E g : n \in S /\ ChainsOn(g, S)
           B == {n \in Elements : ~Has(n)}
<1> SUFFICES B = {}
  OBVIOUS
<1> SUFFICES ASSUME B # {} PROVE FALSE
  OBVIOUS
<1>1. PICK n \in B : parent[n] \notin B
  BY TopOf
<1>2. n \in Elements /\ n # None /\ ~Has(n)
  BY <1>1, HomeIsATree
<1>3. CASE parent[n] = None
  <2>1. ChainsOn([m \in {n} |-> <<n>>], {n})
    BY <1>2, <1>3 DEF ChainsOn
  <2> QED
    BY <1>2, <2>1
<1>4. CASE parent[n] # None
  <2>1. parent[n] \in Elements /\ Has(parent[n])
    BY <1>1, <1>2, <1>4 DEF ParentOK, Weak
  <2>2. PICK S, g : parent[n] \in S /\ ChainsOn(g, S)
    BY <2>1
  <2>3. n \notin S
    BY <1>2, <2>2
  <2> DEFINE T == S \cup {n}
             h == [m \in T |-> IF m = n THEN <<n>> \o g[parent[n]] ELSE g[m]]
  <2>4. g[parent[n]] \in Seq(Elements) /\ <<n>> \in Seq(Elements)
    BY <1>2, <2>2 DEF ChainsOn
  <2>5. <<n>> \o g[parent[n]] \in Seq(Elements)
    BY <2>4, ConcatProperties
  <2>6. h \in [T -> Seq(Elements)]
    BY <2>2, <2>5 DEF ChainsOn
  <2>7. ASSUME NEW m \in T
        PROVE  /\ parent[m] = None \/ parent[m] \in T
               /\ h[m] = IF parent[m] = None THEN <<m>> ELSE <<m>> \o h[parent[m]]
    <3>1. CASE m = n
      BY <1>4, <2>2, <2>3, <3>1
    <3>2. CASE m # n
      <4>1. m \in S
        BY <3>2
      <4>2. h[m] = g[m] /\ (parent[m] = None \/ parent[m] \in S)
        BY <2>2, <3>2, <4>1 DEF ChainsOn
      <4>3. g[m] = IF parent[m] = None THEN <<m>> ELSE <<m>> \o g[parent[m]]
        BY <2>2, <4>1 DEF ChainsOn
      <4>4. parent[m] # None => h[parent[m]] = g[parent[m]]
        BY <2>3, <4>2
      <4> QED
        BY <4>2, <4>3, <4>4
    <3> QED
      BY <3>1, <3>2
  <2>8. ChainsOn(h, T)
    <3>1. T \in SUBSET Elements
      BY <1>2, <2>2 DEF ChainsOn
    <3> HIDE DEF h, T
    <3> QED
      BY <2>6, <2>7, <3>1 DEF ChainsOn
  <2> QED
    BY <1>2, <2>8
<1> QED
  BY <1>3, <1>4

\* So the function Up exists, on any tree.
LEMMA UpUnfolds ==
  ASSUME ParentOK
  PROVE  ChainsOn(Up, Elements)
<1> DEFINE IsUp(u) ==
             u = [n \in Elements |-> IF parent[n] = None THEN <<n>> ELSE <<n>> \o u[parent[n]]]
           SetOf(n) == CHOOSE S : \E g : n \in S /\ ChainsOn(g, S)
           At1(n) == CHOOSE g : n \in SetOf(n) /\ ChainsOn(g, SetOf(n))
           u == [n \in Elements |-> At1(n)[n]]
<1>1. \A n \in Elements : n \in SetOf(n) /\ ChainsOn(At1(n), SetOf(n))
  <2> TAKE n \in Elements
  <2>1. \E g : n \in SetOf(n) /\ ChainsOn(g, SetOf(n))
    BY ChainsExist
  <2> QED
    BY <2>1
<1> HIDE DEF SetOf, At1
<1>2. \A n \in Elements :
        /\ parent[n] = None \/ parent[n] \in Elements
        /\ u[n] \in Seq(Elements)
        /\ u[n] = IF parent[n] = None THEN <<n>> ELSE <<n>> \o u[parent[n]]
  <2> TAKE n \in Elements
  <2>1. At1(n) \in [SetOf(n) -> Seq(Elements)] /\ n \in SetOf(n)
    BY <1>1 DEF ChainsOn
  <2>2. At1(n)[n] = IF parent[n] = None THEN <<n>> ELSE <<n>> \o At1(n)[parent[n]]
    BY <1>1 DEF ChainsOn
  <2>3. parent[n] = None \/ parent[n] \in Elements
    BY DEF ParentOK, Weak
  <2>4. parent[n] # None => At1(n)[parent[n]] = At1(parent[n])[parent[n]]
    <3> SUFFICES ASSUME parent[n] # None PROVE At1(n)[parent[n]] = At1(parent[n])[parent[n]]
      OBVIOUS
    <3>1. parent[n] \in SetOf(n) /\ parent[n] \in SetOf(parent[n])
      BY <1>1, <2>1, <2>3 DEF ChainsOn
    <3> QED
      BY <1>1, <2>3, <3>1, ChainsAgree
  <2> QED
    BY <2>1, <2>2, <2>3, <2>4
<1>3. IsUp(u)
  BY <1>2
<1>4. Up = CHOOSE v : IsUp(v)
  BY DEF Up
<1>5. IsUp(Up)
  <2> HIDE DEF IsUp, u
  <2> QED
    BY <1>3, <1>4
<1>6. /\ Up = [n \in Elements |-> Up[n]]
      /\ \A n \in Elements : Up[n] = IF parent[n] = None THEN <<n>> ELSE <<n>> \o Up[parent[n]]
  BY <1>5
<1>7. \A n \in Elements : Up[n] \in Seq(Elements)
  <2> DEFINE D == {n \in Elements : Up[n] \notin Seq(Elements)}
  <2> SUFFICES ASSUME D # {} PROVE FALSE
    OBVIOUS
  <2>1. PICK n \in D : parent[n] \notin D
    BY TopOf
  <2>2. parent[n] = None \/ Up[parent[n]] \in Seq(Elements)
    BY <2>1 DEF ParentOK, Weak
  <2>3. <<n>> \in Seq(Elements)
    BY <2>1
  <2> QED
    BY <1>6, <2>1, <2>2, <2>3, ConcatProperties
<1>8. \A n \in Elements : parent[n] = None \/ parent[n] \in Elements
  BY DEF ParentOK, Weak
<1> QED
  BY <1>6, <1>7, <1>8 DEF ChainsOn

\* The chain of an element begins with it.
LEMMA ChainBegins ==
  ASSUME ParentOK
  PROVE  /\ Chain(None) = <<>>
         /\ \A e \in Weak : Chain(e) \in Seq(Elements) /\ Len(Chain(e)) \in Nat
                            /\ DOMAIN Chain(e) = 1..Len(Chain(e))
         /\ \A e \in Elements : 1 \in DOMAIN Chain(e) /\ Chain(e)[1] = e
<1>1. Chain(None) = <<>>
  BY DEF Chain
<1>2. ASSUME NEW e \in Weak PROVE Chain(e) \in Seq(Elements)
  BY UpUnfolds DEF Chain, ChainsOn, Weak
<1>3. ASSUME NEW e \in Elements PROVE 1 \in DOMAIN Chain(e) /\ Chain(e)[1] = e
  <2>1. Chain(e) = Up[e]
    BY HomeIsATree DEF Chain
  <2>2. CASE parent[e] = None
    <3>1. Chain(e) = <<e>>
      BY <2>1, <2>2, UpUnfolds DEF ChainsOn
    <3> QED
      BY <3>1
  <2>3. CASE parent[e] # None
    <3>1. Up[e] = <<e>> \o Up[parent[e]] /\ Up[parent[e]] \in Seq(Elements)
      BY <2>3, UpUnfolds DEF ChainsOn
    <3> QED
      BY <2>1, <3>1, ConcatProperties, LenProperties
  <2> QED
    BY <2>2, <2>3
<1> QED
  BY <1>1, <1>2, <1>3, LenProperties

\* What Except leaves: nothing new, and the first element if the other chain lacks it.
LEMMA ExceptProperties ==
  ASSUME NEW s \in Seq(Elements), NEW t
  PROVE  /\ Except(s, t) \in Seq(Elements)
         /\ s = <<>> => Except(s, t) = <<>>
         /\ 1 \in DOMAIN s /\ s[1] \notin Range(t) => s[1] \in Range(Except(s, t))
<1> DEFINE own == {i \in DOMAIN s : s[i] \notin Range(t)}
           n == Cardinality(own)
<1>1. DOMAIN s = 1..Len(s) /\ Len(s) \in Nat
  BY LenProperties
<1>2. IsFiniteSet(1..Len(s)) /\ Cardinality(1..Len(s)) = Len(s)
  BY <1>1, FS_Interval
<1>3. IsFiniteSet(own) /\ n \in Nat /\ n <= Len(s)
  BY <1>1, <1>2, FS_Subset, FS_CardinalityType
<1>4. Except(s, t) = SubSeq(s, 1, n)
  BY DEF Except
<1> HIDE DEF n
<1>5. Except(s, t) \in Seq(Elements)
  BY <1>1, <1>3, <1>4, SubSeqProperties
<1>6. s = <<>> => Except(s, t) = <<>>
  BY <1>1, <1>3, <1>4, SubSeqProperties, EmptySeq
<1>7. ASSUME 1 \in DOMAIN s, s[1] \notin Range(t) PROVE s[1] \in Range(Except(s, t))
  <2>1. 1 \in own
    BY <1>7
  <2>2. n # 0
    BY <1>3, <2>1, FS_EmptySet DEF n
  <2>3. 1 \in DOMAIN Except(s, t) /\ Except(s, t)[1] = s[1]
    BY <1>1, <1>3, <1>4, <2>2, SubSeqProperties
  <2> QED
    BY <2>3 DEF Range
<1> QED
  BY <1>5, <1>6, <1>7

\* Natural numbers have a least one, and those of a sequence's positions a greatest.
LEMMA LeastOf ==
  ASSUME NEW S \in SUBSET Nat, S # {}
  PROVE  Min(S) \in S
<1>1. PICK x \in S : \A y \in S : ~(<<y, x>> \in OpToRel(<, Nat))
  BY NatLessThanWellFounded, WFMin
<1>2. \A y \in S : x <= y
  <2> SUFFICES ASSUME NEW y \in S, ~(x <= y) PROVE FALSE
    OBVIOUS
  <2>1. y \in Nat /\ x \in Nat /\ y < x
    OBVIOUS
  <2> QED
    BY <1>1, <2>1 DEF OpToRel
<1> QED
  BY <1>2 DEF Min

LEMMA GreatestOf ==
  ASSUME NEW n \in Nat, NEW S \in SUBSET (1..n), S # {}
  PROVE  Max(S) \in S
<1> DEFINE T == {n - i : i \in S}
<1>1. T \in SUBSET Nat /\ T # {}
  <2>1. \A i \in S : n - i \in Nat
    OBVIOUS
  <2>2. \A k \in T : k \in Nat
    BY <2>1
  <2>3. T # {}
    OBVIOUS
  <2> HIDE DEF T
  <2> QED
    BY <2>2, <2>3
<1>2. PICK x \in T : \A y \in T : ~(<<y, x>> \in OpToRel(<, Nat))
  BY <1>1, NatLessThanWellFounded, WFMin
<1>3. PICK i \in S : x = n - i
  BY <1>2
<1>4. \A j \in S : i >= j
  <2> SUFFICES ASSUME NEW j \in S, ~(i >= j) PROVE FALSE
    OBVIOUS
  <2>1. n - j \in T /\ n - j < n - i /\ n - j \in Nat /\ n - i \in Nat
    OBVIOUS
  <2> QED
    BY <1>2, <1>3, <2>1 DEF OpToRel
<1> QED
  BY <1>4 DEF Max

\* A sequence is its head and its tail.
LEMMA HeadAndTail ==
  ASSUME NEW S, NEW s \in Seq(S), s # <<>>
  PROVE  /\ Head(s) \in S /\ Tail(s) \in Seq(S)
         /\ Range(s) = {Head(s)} \cup Range(Tail(s))
<1>1. Head(s) \in S /\ Tail(s) \in Seq(S)
  BY HeadTailProperties
<1>2. DOMAIN s = 1..Len(s) /\ Len(s) \in Nat \ {0} /\ Head(s) = s[1]
  BY LenProperties, HeadTailProperties, EmptySeq
<1>3. DOMAIN Tail(s) = 1..(Len(s) - 1) /\ \A i \in 1..(Len(s) - 1) : Tail(s)[i] = s[i + 1]
  BY <1>2, HeadTailProperties
<1>4. ASSUME NEW i \in DOMAIN s PROVE s[i] \in {Head(s)} \cup Range(Tail(s))
  <2>1. CASE i = 1
    BY <1>2, <2>1
  <2>2. CASE i # 1
    <3>1. i - 1 \in DOMAIN Tail(s) /\ Tail(s)[i - 1] = s[i]
      BY <1>2, <1>3, <2>2
    <3> QED
      BY <3>1 DEF Range
  <2> QED
    BY <2>1, <2>2
<1>5. ASSUME NEW i \in DOMAIN Tail(s) PROVE Tail(s)[i] \in Range(s)
  <2>1. i + 1 \in DOMAIN s /\ Tail(s)[i] = s[i + 1]
    BY <1>2, <1>3
  <2> QED
    BY <2>1 DEF Range
<1>6. Head(s) \in Range(s)
  BY <1>2 DEF Range
<1> QED
  BY <1>1, <1>4, <1>5, <1>6 DEF Range

LEMMA FoundTakesFocus ==
  ASSUME ParentOK, NEW e \in Weak
  PROVE  FindFocusableElement(e) \in Weak
<1> DEFINE found == {i \in DOMAIN Chain(e) : Chain(e)[i] \in Focusable}
<1>1. Chain(e) \in Seq(Elements) /\ DOMAIN Chain(e) = 1..Len(Chain(e)) /\ Len(Chain(e)) \in Nat
  BY ChainBegins
<1>2. found \in SUBSET Nat
  BY <1>1
<1>3. found # {} => Min(found) \in found
  BY <1>2, LeastOf
<1>4. \A i \in DOMAIN Chain(e) : Chain(e)[i] \in Elements
  BY <1>1, ElementOfSeq
<1> QED
  BY <1>3, <1>4 DEF FindFocusableElement, Weak

-----------------------------------------------------------------------------
(* :focus.                                                                 *)

\* A change of focus whose events are being sent, begun from rest, out of every
\* element of out and into every element of in that is still to be told.
Change == [old : Weak, new : Weak, out : Seq(Elements), in : Seq(Elements)]

RingAtRest ==
  /\ changes = <<>>
  /\ focus = None \/ focus \in ring
  /\ ring \subseteq {focus} \cup orphaned

RingMoves(c) ==
  /\ changes = <<c>> /\ c.old # c.new
  /\ c.new = None \/ c.new \in Range(c.in) \/ c.new \in ring
  /\ \A e \in ring : e \in orphaned \/ e = c.new \/ (e = c.old /\ e \in Range(c.out))

RingStage ==
  /\ focus \in Weak /\ ring \subseteq Elements
  /\ RingAtRest \/ \E c \in Change : RingMoves(c)

RingTypes == ParentOK /\ task.hit \in Weak /\ clear.target \in Weak

RingInv == RingTypes /\ (~nested /\ ~within => RingStage)

\* A change begins: the old element is to be told, and the new one.
LEMMA SendStage ==
  ASSUME RingInv, NEW e \in Weak, e # focus, SendFocusEvents(focus, e),
         UNCHANGED <<focus, ring, orphaned>>, ~nested', ~within'
  PROVE  RingStage'
<1>0. PICK c : c = [old |-> focus, new |-> e, out |-> Except(Chain(focus), Chain(e)),
                    in |-> Except(Chain(e), Chain(focus))]
  OBVIOUS
<1>1. changes = <<>> /\ ~nested /\ ~within /\ changes' = <<c>> \o changes
  BY <1>0 DEF SendFocusEvents
<1>2. RingStage /\ RingAtRest
  <2>1. \A d : changes # <<d>>
    BY <1>1
  <2> QED
    BY <1>1, <2>1 DEF RingInv, RingStage, RingMoves
<1>3. changes' = <<c>>
  BY <1>1
<1>4. focus \in Weak /\ ParentOK
  BY <1>2 DEF RingStage, RingInv, RingTypes
<1>5. focus \notin Range(Chain(e)) /\ e \notin Range(Chain(focus))
  BY DEF SendFocusEvents, ContainsElement
<1>6. Chain(e) \in Seq(Elements) /\ Chain(focus) \in Seq(Elements)
  BY <1>4, ChainBegins
<1>7. c \in Change
  BY <1>0, <1>4, <1>6, ExceptProperties DEF Change
<1>8. e = None \/ e \in Range(c.in)
  BY <1>0, <1>4, <1>5, <1>6, ChainBegins, ExceptProperties DEF Weak
<1>9. focus = None \/ focus \in Range(c.out)
  BY <1>0, <1>4, <1>5, <1>6, ChainBegins, ExceptProperties DEF Weak
<1>10. c.old = focus /\ c.new = e
  BY <1>0
<1>11. \A x \in ring : x # None
  BY <1>2, HomeIsATree DEF RingStage
<1>12. RingMoves(c)'
  BY <1>2, <1>3, <1>8, <1>9, <1>10, <1>11 DEF RingMoves, RingAtRest
<1> QED
  BY <1>2, <1>7, <1>12 DEF RingStage

\* SetFocus and Blur either begin a change or leave everything as it is.
LEMMA SetFocusStage ==
  ASSUME RingInv, NEW e \in Weak, SetFocus(e), UNCHANGED orphaned, ~nested', ~within'
  PROVE  RingStage'
<1>1. UNCHANGED <<focus, ring>>
  BY DEF SetFocus
<1>2. CASE e = focus
  BY <1>1, <1>2 DEF SetFocus, RingInv, RingStage, RingAtRest, RingMoves
<1>3. CASE e # focus
  BY <1>1, <1>3, SendStage DEF SetFocus
<1> QED
  BY <1>2, <1>3

LEMMA BlurStage ==
  ASSUME RingInv, NEW e, e # None, Blur(e), UNCHANGED orphaned, ~nested', ~within'
  PROVE  RingStage'
<1>1. UNCHANGED <<focus, ring>>
  BY DEF Blur
<1>2. CASE e # focus
  BY <1>1, <1>2 DEF Blur, RingInv, RingStage, RingAtRest, RingMoves
<1>3. CASE e = focus
  <2>1. None \in Weak /\ None # focus /\ SendFocusEvents(focus, None)
    BY <1>3 DEF Blur, Weak
  <2> QED
    BY <1>1, <2>1, SendStage
<1> QED
  BY <1>2, <1>3

\* The focus and the ring stay as they are.
LEMMA StillStage ==
  ASSUME RingInv, UNCHANGED <<focus, ring, changes, nested, within, orphaned>>,
         ~nested', ~within'
  PROVE  RingStage'
BY DEF RingInv, RingStage, RingAtRest, RingMoves

\* An element of the old chain is told, then one of the new.
LEMMA EventsStage ==
  ASSUME RingInv, FocusEventsSent, ~nested', ~within'
  PROVE  RingStage'
<1>1. UNCHANGED <<focus, orphaned, nested, within>> /\ changes # <<>>
  BY DEF FocusEventsSent
<1>2. PICK c \in Change : RingMoves(c)
  BY <1>1 DEF RingInv, RingStage, RingAtRest
<1>3. changes = <<c>> /\ Head(changes) = c
  BY <1>2 DEF RingMoves
<1>4. c.out \in Seq(Elements) /\ c.in \in Seq(Elements) /\ c.old \in Weak /\ c.new \in Weak
  BY DEF Change
<1>5. focus \in Weak /\ ring \subseteq Elements
  BY <1>1 DEF RingInv, RingStage
<1>6. CASE c.out # <<>>
  <2> DEFINE d == [c EXCEPT !.out = Tail(@)]
  <2>1. /\ changes' = [changes EXCEPT ![1] = d]
        /\ ring' = IF Head(c.out) = c.old THEN ring \ {c.old} ELSE ring
    BY <1>3, <1>6 DEF FocusEventsSent
  <2>2. changes' = <<d>>
    <3> HIDE DEF d
    <3> QED
      BY <1>3, <2>1
  <2>3. Tail(c.out) \in Seq(Elements) /\ Range(c.out) = {Head(c.out)} \cup Range(Tail(c.out))
    BY <1>4, <1>6, HeadAndTail
  <2>4. d \in Change /\ d.old = c.old /\ d.new = c.new /\ d.in = c.in /\ d.out = Tail(c.out)
    BY <1>4, <2>3 DEF Change
  <2> HIDE DEF d
  <2>5. RingMoves(d)'
    BY <1>1, <1>2, <2>1, <2>2, <2>3, <2>4 DEF RingMoves
  <2> QED
    BY <1>1, <1>5, <2>1, <2>4, <2>5 DEF RingStage
<1>7. CASE c.out = <<>>
  <2> DEFINE d == [c EXCEPT !.in = Tail(@)]
  <2>1. c.in # <<>>
    BY <1>3, <1>4, <1>7 DEF FocusEventsSent
  <2>2. /\ changes' = [changes EXCEPT ![1] = d]
        /\ ring' = IF Head(c.in) = c.new THEN ring \cup {c.new} ELSE ring
    BY <1>3, <1>7 DEF FocusEventsSent
  <2>3. changes' = <<d>>
    <3> HIDE DEF d
    <3> QED
      BY <1>3, <2>2
  <2>4. /\ Tail(c.in) \in Seq(Elements) /\ Range(c.in) = {Head(c.in)} \cup Range(Tail(c.in))
        /\ Head(c.in) \in Elements
    BY <1>4, <2>1, HeadAndTail
  <2>5. d \in Change /\ d.old = c.old /\ d.new = c.new /\ d.in = Tail(c.in) /\ d.out = c.out
    BY <1>4, <2>4 DEF Change
  <2> HIDE DEF d
  <2>6. RingMoves(d)'
    BY <1>1, <1>2, <2>2, <2>3, <2>4, <2>5 DEF RingMoves
  <2> QED
    BY <1>1, <1>5, <2>2, <2>4, <2>5, <2>6 DEF RingStage
<1> QED
  BY <1>6, <1>7

\* Everybody was told: the new element gets the focus.
LEMMA ChangedStage ==
  ASSUME RingInv, FocusChanged, ~nested', ~within'
  PROVE  RingStage'
<1>1. UNCHANGED <<ring, orphaned, nested, within>> /\ changes # <<>>
  BY DEF FocusChanged
<1>2. PICK c \in Change : RingMoves(c)
  BY <1>1 DEF RingInv, RingStage, RingAtRest
<1>3. changes = <<c>> /\ Head(changes) = c /\ Tail(changes) = <<>>
  BY <1>2 DEF RingMoves
<1>4. c.out \in Seq(Elements) /\ c.in \in Seq(Elements) /\ c.new \in Weak
  BY DEF Change
<1>5. c.out \o c.in = <<>> /\ focus' = c.new /\ changes' = <<>>
  BY <1>3 DEF FocusChanged
<1>6. Range(c.out) = {} /\ Range(c.in) = {}
  <2>1. Len(c.out) = 0 /\ Len(c.in) = 0
    BY <1>4, <1>5, ConcatProperties, LenProperties
  <2> QED
    BY <1>4, <2>1, LenProperties DEF Range
<1>7. RingAtRest'
  BY <1>1, <1>2, <1>5, <1>6 DEF RingMoves, RingAtRest
<1> QED
  BY <1>1, <1>4, <1>5, <1>7 DEF RingStage, RingInv

LEMMA TabStage ==
  ASSUME RingInv, NEW reverse \in BOOLEAN, TabToNextFocusableElement(reverse),
         UNCHANGED orphaned, ~nested', ~within'
  PROVE  RingStage'
<1> DEFINE there == {i \in DOMAIN TabOrder : Attached(TabOrder[i])}
           current == {i \in there : TabOrder[i] = focus}
           beyond == {i \in there : \A j \in current : IF reverse THEN i < j ELSE i > j}
           from == IF beyond = {} THEN there ELSE beyond
           next == IF reverse THEN Max(from) ELSE Min(from)
<1>1. DOMAIN TabOrder = 1..Len(TabOrder) /\ Len(TabOrder) \in Nat
  BY TabOrderOfElements, LenProperties
<1>2. there \in SUBSET (1..Len(TabOrder)) /\ from \in SUBSET there
  BY <1>1
<1>3. CASE there = {}
  <2>1. UNCHANGED focusVars
    BY <1>3 DEF TabToNextFocusableElement
  <2> QED
    BY <2>1, StillStage DEF focusVars
<1>4. CASE there # {}
  <2>1. from # {}
    BY <1>4
  <2> HIDE DEF from
  <2>2. from \in SUBSET (1..Len(TabOrder)) /\ from \in SUBSET Nat
    BY <1>2
  <2>3. Max(from) \in from /\ Min(from) \in from
    BY <1>1, <2>1, <2>2, GreatestOf, LeastOf
  <2>4. next \in 1..Len(TabOrder)
    BY <2>2, <2>3
  <2>5. TabOrder[next] \in Weak
    BY <1>1, <2>4, TabOrderOfElements, ElementOfSeq DEF Weak
  <2>6. SetFocus(TabOrder[next])
    BY <1>4 DEF TabToNextFocusableElement, from
  <2> HIDE DEF next
  <2> QED
    BY <2>5, <2>6, SetFocusStage
<1> QED
  BY <1>3, <1>4

LEMMA ResolveStage ==
  ASSUME RingInv, ResolveFocusClearAfterClick, UNCHANGED orphaned, ~nested', ~within'
  PROVE  RingStage'
<1>1. clear.target \in Weak
  BY DEF RingInv, RingTypes
<1>2. \/ SetFocus(clear.target)
      \/ clear.element # None /\ Blur(clear.element)
      \/ UNCHANGED focusVars
  BY DEF ResolveFocusClearAfterClick
<1> QED
  BY <1>1, <1>2, SetFocusStage, BlurStage, StillStage DEF focusVars

LEMMA InitRingInv == Init => RingInv
<1> SUFFICES ASSUME Init PROVE RingInv
  OBVIOUS
<1>1. parent = Home /\ task.hit = None /\ clear.target = None
  BY DEF Init, FocusInit, Idle, NoClear
<1>2. RingTypes
  BY <1>1, HomeIsATree DEF RingTypes, ParentOK, Weak
<1>3. RingStage
  BY DEF Init, FocusInit, RingStage, RingAtRest, Weak
<1> QED
  BY <1>2, <1>3 DEF RingInv

\* What the handlers hold stays an element or nothing.
LEMMA TypesKept ==
  ASSUME RingInv, UNCHANGED parent,
         task'.hit \in Weak, clear'.target \in Weak
  PROVE  RingTypes'
BY DEF RingInv, RingTypes, ParentOK

\* Steps of the mouse that leave the focus alone.
LEMMA MouseKeepsRing ==
  ASSUME RingInv, UNCHANGED <<parent, focus, ring, changes, nested, within, orphaned>>,
         task'.hit \in Weak, clear'.target \in Weak
  PROVE  RingInv'
BY TypesKept, StillStage DEF RingInv

LEMMA ArriveKeepsRing ==
  ASSUME RingInv, MouseInv, NEW step, NEW b, NEW e \in Weak, Arrive(step, b, e)
  PROVE  RingInv'
<1>1. task'.hit = e
  BY DEF Arrive
<1>2. UNCHANGED <<parent, focus, ring, changes, nested, within, orphaned, clear>>
  BY DEF Arrive, keyVars, documentVars, domVars, focusVars, pressVars
<1>3. clear'.target \in Weak
  BY <1>2 DEF RingInv, RingTypes
<1> QED
  BY <1>1, <1>2, <1>3, MouseKeepsRing

LEMMA PressKeepsRing ==
  ASSUME RingInv, MouseInv, MouseDown \/ MouseDownNoHit \/ MouseDownSuppressed
  PROVE  RingInv'
<1>0. task.hit \in Weak /\ clear.target \in Weak /\ ParentOK /\ None \in Weak /\ ShapeOK
  BY DEF RingInv, RingTypes, MouseInv, Weak
<1>1. CASE MouseDown
  <2>1. UNCHANGED <<parent, focus, ring, changes, nested, within, orphaned>>
    BY <1>1 DEF MouseDown, documentVars, domVars
  <2>2. task'.hit = task.hit
    BY <1>0, <1>1, TaskFields DEF MouseDown
  <2>3. clear'.target \in {FindFocusableElement(task.hit), None}
    BY <1>1 DEF MouseDown, PrepareFocusClearOnMouseDown, CancelPendingFocusClear, NoClear
  <2>4. clear'.target \in Weak
    BY <1>0, <2>3, FoundTakesFocus
  <2> QED
    BY <1>0, <2>1, <2>2, <2>4, MouseKeepsRing
<1>2. CASE MouseDownNoHit
  <2>1. UNCHANGED <<parent, focus, ring, changes, nested, within, orphaned>>
    BY <1>2 DEF MouseDownNoHit, documentVars, domVars
  <2>2. task'.hit = None
    BY <1>2 DEF MouseDownNoHit, Done, Idle
  <2>3. clear'.target \in {clear.target, None}
    <3>1. \/ UNCHANGED clear
          \/ clear' = NoClear
          \/ clear' = [clear EXCEPT !.armed = TRUE, !.element = focus]
      BY <1>2 DEF MouseDownNoHit, CancelPendingFocusClear
    <3>2. ASSUME clear' = [clear EXCEPT !.armed = TRUE, !.element = focus]
          PROVE  clear'.target = clear.target
      BY <1>0, <3>2 DEF ShapeOK
    <3> QED
      BY <3>1, <3>2 DEF NoClear
  <2> QED
    BY <1>0, <2>1, <2>2, <2>3, MouseKeepsRing
<1>3. CASE MouseDownSuppressed
  <2>1. UNCHANGED <<parent, focus, ring, changes, nested, within, orphaned>>
    BY <1>3 DEF MouseDownSuppressed, documentVars, domVars
  <2>2. task'.hit = None /\ clear'.target = None
    BY <1>3 DEF MouseDownSuppressed, Done, Idle, CancelPendingFocusClear, NoClear
  <2> QED
    BY <1>0, <2>1, <2>2, MouseKeepsRing
<1> QED
  BY <1>1, <1>2, <1>3

LEMMA HandlersKeepRing ==
  ASSUME RingInv, MouseInv, UNCHANGED <<keyVars, clear>>,
         Done \/ task' = task \/ (\E at : To(at)) \/ (\E at, e : task' = [task EXCEPT !.at = at, !.press = e])
              \/ (\E at : \E e \in Weak : task' = [task EXCEPT !.at = at, !.hit = e])
  PROVE  RingInv'
<1>1. task.hit \in Weak /\ clear.target \in Weak /\ None \in Weak /\ ShapeOK
  BY DEF RingInv, RingTypes, MouseInv, Weak
<1>2. task'.hit \in Weak
  <2>1. ASSUME Done PROVE task'.hit \in Weak
    BY <1>1, <2>1 DEF Done, Idle
  <2>2. ASSUME NEW at, To(at) PROVE task'.hit \in Weak
    BY <1>1, <2>2, TaskFields
  <2>3. ASSUME NEW at, NEW e, task' = [task EXCEPT !.at = at, !.press = e] PROVE task'.hit \in Weak
    BY <1>1, <2>3 DEF ShapeOK
  <2>4. ASSUME NEW at, NEW e \in Weak, task' = [task EXCEPT !.at = at, !.hit = e] PROVE task'.hit \in Weak
    BY <1>1, <2>4 DEF ShapeOK
  <2> QED
    BY <1>1, <2>1, <2>2, <2>3, <2>4
<1>3. UNCHANGED <<parent, focus, ring, changes, nested, within, orphaned>>
  BY DEF keyVars, documentVars, domVars, focusVars
<1> QED
  BY <1>1, <1>2, <1>3, MouseKeepsRing

\* A press on a field moves the focus; a release does what the press has left.
LEMMA FocusStepsKeepRing ==
  ASSUME RingInv, MouseInv,
         \/ Pressed \/ MouseUpElsewhere \/ Released
         \/ \E e \in Elements : FocusByScript(e)
         \/ \E reverse \in BOOLEAN : Tab(reverse)
  PROVE  RingInv'
<1>0. task.hit \in Weak /\ clear.target \in Weak /\ ParentOK /\ None \in Weak /\ ShapeOK
  BY DEF RingInv, RingTypes, MouseInv, Weak
<1>1. ASSUME ~nested', ~within' PROVE RingStage'
  <2>1. CASE Pressed
    <3>1. task.hit \in Weak /\ UNCHANGED orphaned
      BY <1>0, <2>1 DEF Pressed, documentVars
    <3>2. SetFocus(task.hit) \/ UNCHANGED focusVars
      BY <2>1 DEF Pressed
    <3> QED
      BY <1>1, <3>1, <3>2, SetFocusStage, StillStage DEF focusVars
  <2>2. CASE MouseUpElsewhere \/ Released
    <3>1. UNCHANGED orphaned /\ (ResolveFocusClearAfterClick \/ UNCHANGED focusVars)
      BY <2>2 DEF MouseUpElsewhere, Released, documentVars
    <3> QED
      BY <1>1, <3>1, ResolveStage, StillStage DEF focusVars
  <2>3. ASSUME NEW e \in Elements, FocusByScript(e) PROVE RingStage'
    <3>1. UNCHANGED orphaned /\ e \in Weak /\ e # None /\ (SetFocus(e) \/ Blur(e))
      BY <2>3, HomeIsATree DEF FocusByScript, documentVars, Weak
    <3> QED
      BY <1>1, <3>1, SetFocusStage, BlurStage
  <2>4. ASSUME NEW reverse \in BOOLEAN, Tab(reverse) PROVE RingStage'
    <3>1. UNCHANGED orphaned /\ TabToNextFocusableElement(reverse)
      BY <2>4 DEF Tab, documentVars
    <3> QED
      BY <1>1, <3>1, TabStage
  <2> QED
    BY <2>1, <2>2, <2>3, <2>4
<1>2. UNCHANGED parent
  BY DEF Pressed, MouseUpElsewhere, Released, FocusByScript, Tab, documentVars, domVars
<1>3. clear'.target \in {clear.target, None}
  BY DEF Pressed, MouseUpElsewhere, Released, FocusByScript, Tab, pressVars,
         ResolveFocusClearAfterClick, NoClear
<1>4. task'.hit \in {task.hit, None}
  <2>1. \/ Done \/ task' = task \/ \E at : To(at)
        \/ \E at, e : task' = [task EXCEPT !.at = at, !.press = e]
    BY DEF Pressed, MouseUpElsewhere, Released, FocusByScript, Tab
  <2>2. ASSUME NEW at, NEW e, task' = [task EXCEPT !.at = at, !.press = e]
        PROVE  task'.hit = task.hit
    BY <1>0, <2>2 DEF ShapeOK
  <2>3. ASSUME NEW at, To(at) PROVE task'.hit = task.hit
    BY <1>0, <2>3, TaskFields
  <2>4. Done => task'.hit = None
    BY DEF Done, Idle
  <2> QED
    BY <2>1, <2>2, <2>3, <2>4
<1>5. RingTypes'
  BY <1>0, <1>2, <1>3, <1>4, TypesKept
<1> QED
  BY <1>1, <1>5 DEF RingInv

LEMMA EventsKeepRing ==
  ASSUME RingInv, FocusEvents
  PROVE  RingInv'
<1>1. UNCHANGED <<parent, task, clear>> /\ (FocusEventsSent \/ FocusChanged)
  BY DEF FocusEvents, mouseVars, pressVars, FocusEventsSent, FocusChanged, domVars
<1>2. RingTypes'
  BY <1>1, TypesKept DEF RingInv, RingTypes
<1> QED
  BY <1>1, <1>2, EventsStage, ChangedStage DEF RingInv

\* What is removed takes the focus with it, and keeps its :focus as an orphan.
LEMMA RemovalKeepsRing ==
  ASSUME RingInv, NEW e \in Movable, RemoveByScript(e)
  PROVE  RingInv'
<1>1. UNCHANGED <<task, clear, ring, changes, nested, within>>
  BY DEF RemoveByScript, TakeAway, PutBack, pressVars, focusVars
<1>2. e \in Elements /\ None \in Weak
  BY MouseBounds DEF Weak
<1>3. ParentOK'
  <2>1. parent' = [parent EXCEPT ![e] = None] \/ parent' = [parent EXCEPT ![e] = Home[e]]
    BY DEF RemoveByScript, TakeAway, PutBack
  <2>2. Home[e] \in Weak
    BY <1>2, HomeIsATree
  <2> QED
    BY <1>2, <2>1, <2>2 DEF RingInv, RingTypes, ParentOK
<1>4. \/ UNCHANGED <<focus, orphaned>>
      \/ focus' = None /\ orphaned' = orphaned \cup {focus}
  BY DEF RemoveByScript, TakeAway, PutBack, OnNodeRemoved, focusVars
<1>5. ~nested' /\ ~within' => RingStage'
  BY <1>1, <1>2, <1>4 DEF RingInv, RingStage, RingAtRest, RingMoves
<1> QED
  BY <1>1, <1>3, <1>5 DEF RingInv, RingTypes

\* What is destroyed was not in a change.
LEMMA CollectKeepsRing ==
  ASSUME RingInv, MouseInv, NEW e \in Movable, Collect(e)
  PROVE  RingInv'
<1>1. UNCHANGED <<parent, task, changes, nested, within>> /\ e \notin Held
  BY DEF Collect, Destroy
<1>2. /\ focus' = Expired(focus, e) /\ ring' = ring \ {e} /\ orphaned' = orphaned \ {e}
      /\ clear'.target \in {clear.target, None} /\ None \in Weak
  BY DEF Collect, Destroy, Expired, MouseInv, ShapeOK, Weak
<1>3. RingTypes'
  BY <1>1, <1>2, TypesKept DEF RingInv, RingTypes
<1>4. ASSUME ~nested', ~within' PROVE RingStage'
  <2>1. RingStage
    BY <1>1, <1>4 DEF RingInv
  <2>2. focus' \in Weak /\ ring' \subseteq Elements
    BY <1>2, <2>1 DEF RingStage, Expired
  <2>3. CASE RingAtRest
    <3>1. RingAtRest'
      BY <1>1, <1>2, <2>3 DEF RingAtRest, Expired
    <3> QED
      BY <2>2, <3>1 DEF RingStage
  <2>4. ASSUME NEW c \in Change, RingMoves(c) PROVE RingStage'
    <3>1. Range(changes) = {c}
      BY <2>4 DEF RingMoves, Range
    <3>2. e # c.new
      BY <1>1, <3>1 DEF Held
    <3>3. RingMoves(c)'
      BY <1>1, <1>2, <2>4, <3>2 DEF RingMoves
    <3> QED
      BY <2>2, <3>3 DEF RingStage
  <2> QED
    BY <2>1, <2>3, <2>4 DEF RingStage
<1> QED
  BY <1>3, <1>4 DEF RingInv

THEOREM RingInvariant == Spec => []RingInv
<1>1. RingInv /\ MouseInv /\ [Next]_vars => RingInv'
  <2> SUFFICES ASSUME RingInv, MouseInv, [Next]_vars PROVE RingInv'
    OBVIOUS
  <2>1. CASE \/ \E b \in Buttons, e \in Weak : ButtonDown(b, e)
             \/ \E b \in Buttons, e \in Weak : ButtonUp(b, e)
             \/ \E e \in Weak : MoveTo(e)
    BY <2>1, ArriveKeepsRing DEF ButtonDown, ButtonUp, MoveTo
  <2>2. CASE MouseDown \/ MouseDownNoHit \/ MouseDownSuppressed
    BY <2>2, PressKeepsRing
  <2>3. CASE \/ StartDragDetection \/ MouseUp \/ Click
             \/ \E effect \in BOOLEAN : EndDrag(effect)
             \/ Dropped \/ DragEnded \/ MouseMove
             \/ \E far \in BOOLEAN : UpdateDrag(far)
             \/ DragStarted
             \/ \E e \in Weak : DragOver(e)
             \/ \E prevented \in BOOLEAN : DragOverDone(prevented)
             \/ UNCHANGED vars
    <3>1. UNCHANGED <<keyVars, clear>>
      BY <2>3 DEF StartDragDetection, MouseUp, Click, EndDrag, Dropped, DragEnded, MouseMove,
                  UpdateDrag, DragStarted, DragOver, DragOverDone, pressVars, vars, mouseVars
    <3>2. \/ Done \/ task' = task \/ \E at : To(at)
          \/ \E at, e : task' = [task EXCEPT !.at = at, !.press = e]
          \/ \E at : \E e \in Weak : task' = [task EXCEPT !.at = at, !.hit = e]
      BY <2>3 DEF StartDragDetection, MouseUp, Click, EndDrag, Dropped, DragEnded, MouseMove,
                  UpdateDrag, DragStarted, DragOver, DragOverDone, vars, mouseVars
    <3> QED
      BY <3>1, <3>2, HandlersKeepRing
  <2>4. CASE \/ Pressed \/ MouseUpElsewhere \/ Released
             \/ \E e \in Elements : FocusByScript(e)
             \/ \E reverse \in BOOLEAN : Tab(reverse)
    BY <2>4, FocusStepsKeepRing
  <2>5. CASE FocusEvents
    BY <2>5, EventsKeepRing
  <2>6. CASE \E e \in Movable : RemoveByScript(e) \/ Collect(e)
    BY <2>6, RemovalKeepsRing, CollectKeepsRing
  <2> QED
    BY <2>1, <2>2, <2>3, <2>4, <2>5, <2>6 DEF Next
<1> QED
  BY <1>1, InitRingInv, MouseInvariant, PTL DEF Spec

\* In any document, whatever scripts remove and put back: once no change of focus is
\* being told, :focus is where the focus is, unless a listener changed the focus or it
\* went between an element and one around it (SendFocusEvents, SetFocus, Blur).
THEOREM RingIsOnTheFocus == Spec => []RingFollowsFocus
<1>1. RingInv => RingFollowsFocus
  BY DEF RingInv, RingStage, RingAtRest, RingMoves, RingFollowsFocus
<1> QED
  BY <1>1, RingInvariant, PTL

-----------------------------------------------------------------------------
(* The render tree: what makes a change of the document reach the screen.  *)

\* A batch begins between frames, with everything drawn; what it finds invalid
\* was due, and what a script measures in it is unseen.
BatchStage ==
  batch => /\ ~drawing
           /\ ~unseen => ~undrawn /\ (~valid => due)

\* Render has drawn what was recorded, and what its listeners change is unseen.
DrawStage == drawing /\ ~unseen => ~Pending /\ ~undrawn /\ valid

RepaintInv ==
  /\ batch \in BOOLEAN /\ due \in BOOLEAN /\ drawing \in BOOLEAN /\ valid \in BOOLEAN
  /\ undrawn \in BOOLEAN /\ unseen \in BOOLEAN
  /\ BatchStage /\ DrawStage /\ RepaintIsDue

\* A change is announced: outside a batch it asks for a frame, in a frame it is
\* unseen, and in a batch it throws no tree away.
LEMMA AnnouncedInv ==
  ASSUME RepaintInv, Announce, batch' = batch, drawing' = drawing, undrawn' = undrawn,
         valid' \in BOOLEAN, batch => valid' = valid
  PROVE  RepaintInv'
<1> USE DEF RepaintInv, Announce
<1>1. /\ batch' \in BOOLEAN /\ due' \in BOOLEAN /\ drawing' \in BOOLEAN /\ valid' \in BOOLEAN
      /\ undrawn' \in BOOLEAN /\ unseen' \in BOOLEAN
  OBVIOUS
<1>2. BatchStage'
  BY DEF BatchStage
<1>3. DrawStage'
  BY DEF DrawStage
<1>4. RepaintIsDue'
  BY DEF RepaintIsDue
<1> QED
  BY <1>1, <1>2, <1>3, <1>4

LEMMA ChangeInv ==
  ASSUME RepaintInv,
         \/ \E n \in Content, p \in Parents, i \in 0..Cardinality(Content) : Place(n, p, i)
         \/ \E n \in Content : RemoveChild(n)
         \/ \E p \in Parents : RemoveAllChildren(p)
         \/ \E new, old \in Content : ReplaceChild(new, old)
         \/ \E n \in Styled, d \in Displays : SetDisplay(n, d)
  PROVE  RepaintInv'
<1>1. /\ Announce /\ batch' = batch /\ drawing' = drawing /\ undrawn' = undrawn
      /\ valid' \in BOOLEAN /\ (batch => valid' = valid)
  BY DEF RepaintInv, Place, RemoveChild, RemoveAllChildren, ReplaceChild, SetDisplay
<1> QED
  BY <1>1, AnnouncedInv

LEMMA BatchInv == ASSUME RepaintInv, BeginBatch \/ EndBatch PROVE RepaintInv'
<1>1. CASE BeginBatch
  BY <1>1 DEF BeginBatch, RepaintInv, BatchStage, DrawStage, RepaintIsDue, Pending, nodeVars,
              trackerVars
<1>2. CASE EndBatch
  <2>1. Pending' = Pending
    BY <1>2 DEF EndBatch, Pending, trackerVars
  <2>2. ~Pending => valid' = valid
    <3>1. styles = <<>> => Range(styles) = {}
      BY DEF Range
    <3> QED
      BY <1>2, <3>1 DEF EndBatch, Pending, RepaintInv
  <2> QED
    BY <1>2, <2>1, <2>2 DEF EndBatch, RepaintInv, BatchStage, DrawStage, RepaintIsDue
<1> QED
  BY <1>1, <1>2

LEMMA SynchronizeInv ==
  ASSUME RepaintInv, NEW broad \in BOOLEAN, NEW other \in BOOLEAN,
         Frame(broad, other) \/ FrameEnds(other) \/ Measure(broad)
  PROVE  RepaintInv'
<1>1. Synchronize(broad) => ~Pending' /\ valid' = TRUE
  BY DEF Synchronize, Pending
<1>2. CASE Frame(broad, other)
  BY <1>1, <1>2 DEF Frame, RepaintInv, BatchStage, DrawStage, RepaintIsDue
<1>3. CASE FrameEnds(other)
  <2>1. Pending' = Pending
    BY <1>3 DEF FrameEnds, Pending, trackerVars
  <2> QED
    BY <1>3, <2>1 DEF FrameEnds, RepaintInv, BatchStage, DrawStage, RepaintIsDue
<1>4. CASE Measure(broad)
  BY <1>1, <1>4 DEF Measure, RepaintInv, BatchStage, DrawStage, RepaintIsDue
<1> QED
  BY <1>2, <1>3, <1>4

LEMMA RepaintInvariant == RenderSpec => []RepaintInv
<1>1. RenderInit => RepaintInv
  BY DEF RenderInit, RepaintInv, BatchStage, DrawStage, RepaintIsDue
<1>2. RepaintInv /\ [RenderNext]_renderVars => RepaintInv'
  <2> SUFFICES ASSUME RepaintInv, [RenderNext]_renderVars PROVE RepaintInv'
    OBVIOUS
  <2>1. CASE UNCHANGED renderVars
    BY <2>1 DEF renderVars, trackerVars, RepaintInv, BatchStage, DrawStage, RepaintIsDue, Pending
  <2> QED
    BY <2>1, ChangeInv, BatchInv, SynchronizeInv DEF RenderNext
<1> QED
  BY <1>1, <1>2, PTL DEF RenderSpec

\* Outside a batch, what is recorded, measured or thrown away and not drawn has
\* been asked for (WindowDOMObserver, Document::EndBatch, Window::Render), for
\* any document and any style.
THEOREM UndrawnIsAskedFor == RenderSpec => []RepaintIsDue
<1>1. RepaintInv => RepaintIsDue
  BY DEF RepaintInv
<1> QED
  BY <1>1, RepaintInvariant, PTL
=============================================================================
