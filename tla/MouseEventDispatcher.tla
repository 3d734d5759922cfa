------------------------ MODULE MouseEventDispatcher ------------------------
(***************************************************************************)
(* What the mouse does to the focus, to :active and to a drag:             *)
(* core/event/dispatch/mouse_event_dispatcher.cpp and                      *)
(* core/editing/drag_manager.cpp over FocusManager.                        *)
(*                                                                         *)
(* A mouse event is handled in steps, one dispatch to the listeners in     *)
(* each; in a dispatch a script may change the focus or the document.      *)
(* Hovering, scroll bars, drop-down lists, text selection and the panel of *)
(* the developer tools are left out: the events they take do not get here. *)
(***************************************************************************)
EXTENDS FocusManager

CONSTANTS
  Fields,     \* elements that take the focus when they are pressed: inputs, editors
  Disabled,   \* disabled form controls
  Draggable,  \* elements with draggable="true"
  Left, Right, \* the buttons
  Targets,    \* bound: the elements under the pointer, the others are covered
  Movable,    \* bound: the elements that scripts remove and put back
  MaxPresses, \* bound: presses of a button
  MaxCalls    \* bound: what scripts do to the focus and the document

ASSUME FieldsTakeFocus == Fields \subseteq Focusable
ASSUME MouseBounds == MaxPresses \in Nat /\ MaxCalls \in Nat /\ Movable \subseteq Elements
                      /\ Targets \subseteq Elements
ASSUME ButtonsDiffer == Left # Right

VARIABLES
  held,     \* environment: the buttons that are down
  task,     \* the event being handled: the step, the button, the element hit and
            \* the element pressed as it was read
  buttons,  \* mouse_buttons_state_
  pressed,  \* last_mousedown_element_
  lit,      \* elements with :active
  clear,    \* pending_focus_clear_; the serial is FocusManager's changed
  drag,     \* DragManager: drag_element_, drag_started_, drag_hover_element_, drop_allowed_
  presses,  \* presses made
  calls,    \* calls made
  scripted, \* history: a script or a key changed the focus since the left button went down
  chorded,  \* history: two buttons were down at once
  strayed,  \* history: a release over nothing found nothing pressed
  accepted  \* history: the element that took the last dragover of this drag

documentVars == <<domVars, orphaned>>
keyVars == <<documentVars, focusVars>>
pressVars == <<buttons, pressed, lit, clear>>
dragVars == <<drag, accepted>>
boundVars == <<held, presses, calls>>
historyVars == <<scripted, chorded, strayed>>
mouseVars == <<boundVars, task, pressVars, dragVars, historyVars>>
vars == <<keyVars, mouseVars>>

Buttons == {Left, Right}
Idle == [at |-> "idle", button |-> None, hit |-> None, press |-> None]
NoClear == [armed |-> FALSE, element |-> None, target |-> None]
NoDrag == [element |-> None, started |-> FALSE, over |-> None, allowed |-> FALSE]

\* The steps in which listeners run.
InDispatch ==
  {"idle", "down", "mousedown", "up", "mouseup", "noHitUp", "click", "move", "mousemove",
   "dragstart", "drag", "dragover", "drop", "dragend"}

To(at) == task' = [task EXCEPT !.at = at]
Done == task' = Idle
At(step) == task.at = step /\ changes = <<>>

Suppressed(e) == \E n \in Range(Chain(e)) : n \in Disabled

-----------------------------------------------------------------------------
(* The pending change of focus.                                            *)

CancelPendingFocusClear == clear' = NoClear /\ UNCHANGED changed

\* A press outside the focused element may move the focus once it is a click.
PrepareFocusClearOnMouseDown(e, b) ==
  IF b = Left /\ focus # None /\ ~ContainsElement(focus, e)
  THEN /\ clear' = [armed |-> TRUE, element |-> focus, target |-> FindFocusableElement(e)]
       /\ changed' = FALSE
  ELSE CancelPendingFocusClear

ResolveFocusClearAfterClick ==
  /\ clear' = NoClear
  /\ IF clear.armed /\ clear.element # None /\ focus = clear.element /\ ~changed
     THEN IF clear.target # None THEN SetFocus(clear.target) ELSE Blur(clear.element)
     ELSE UNCHANGED focusVars

-----------------------------------------------------------------------------
(* The buttons.                                                            *)

Arrive(step, b, e) ==
  /\ task = Idle /\ changes = <<>>
  /\ e = None \/ (e \in Targets /\ Attached(e))
  /\ task' = [at |-> step, button |-> b, hit |-> e, press |-> None]
  /\ UNCHANGED <<keyVars, pressVars, dragVars, calls, strayed>>

\* The listeners of the hover events run first.
ButtonDown(b, e) ==
  /\ b \notin held /\ presses < MaxPresses
  /\ presses' = presses + 1
  /\ Arrive("down", b, e)
  /\ held' = held \cup {b}
  /\ chorded' = (chorded \/ held # {})
  /\ UNCHANGED scripted

ButtonUp(b, e) ==
  /\ b \in held
  /\ Arrive("up", b, e)
  /\ held' = held \ {b}
  /\ UNCHANGED <<presses, scripted, chorded>>

MouseDown ==
  /\ At("down") /\ task.hit # None /\ ~Suppressed(task.hit)
  /\ PrepareFocusClearOnMouseDown(task.hit, task.button)
  /\ buttons' = buttons \cup {task.button}
  /\ To("mousedown")
  /\ scripted' = (scripted /\ task.button # Left)
  /\ UNCHANGED <<documentVars, dragVars, boundVars, focus, active, ring, changes, nested, within,
                 pressed, lit, chorded, strayed>>

\* HandleMouseEvent, nothing hit: the target of the pending change is left as it was.
MouseDownNoHit ==
  /\ At("down") /\ task.hit = None
  /\ IF task.button # Left THEN CancelPendingFocusClear
     ELSE IF focus = None THEN UNCHANGED <<clear, changed>>
     ELSE /\ clear' = [clear EXCEPT !.armed = TRUE, !.element = focus]
          /\ changed' = FALSE
  /\ scripted' = (scripted /\ task.button # Left)
  /\ Done
  /\ UNCHANGED <<documentVars, dragVars, boundVars, focus, active, ring, changes, nested, within,
                 buttons, pressed, lit, chorded, strayed>>

MouseDownSuppressed ==
  /\ At("down") /\ task.hit # None /\ Suppressed(task.hit)
  /\ buttons' = buttons \cup {task.button}
  /\ CancelPendingFocusClear
  /\ lit' = lit \ {pressed} /\ pressed' = None
  /\ Done
  /\ UNCHANGED <<documentVars, dragVars, boundVars, historyVars, focus, active, ring, changes,
                 nested, within>>

\* After the mousedown listeners; a field takes the focus.
Pressed ==
  /\ At("mousedown")
  /\ lit' = lit \cup {task.hit} /\ pressed' = task.hit
  /\ IF task.hit \in Fields THEN SetFocus(task.hit) ELSE UNCHANGED focusVars
  /\ To("pressed")
  /\ UNCHANGED <<documentVars, dragVars, boundVars, historyVars, buttons, clear>>

\* DragManager::StartDragDetection.
StartDragDetection ==
  /\ At("pressed")
  /\ LET found == SelectSeq(Chain(task.hit), LAMBDA n : n \in Draggable)
     IN IF task.button = Left /\ found # <<>>
        THEN drag' = [drag EXCEPT !.element = Head(found), !.started = FALSE] /\ accepted' = None
        ELSE UNCHANGED <<dragVars>>
  /\ Done
  /\ UNCHANGED <<keyVars, pressVars, boundVars, historyVars>>

MouseUp ==
  /\ At("up") /\ task.hit # None /\ ~Suppressed(task.hit)
  /\ buttons' = buttons \ {task.button}
  /\ lit' = lit \ {pressed}
  /\ task' = [task EXCEPT !.at = "mouseup", !.press = pressed]
  /\ UNCHANGED <<keyVars, dragVars, boundVars, historyVars, pressed, clear>>

\* HandleNoHitMouseUp: the element pressed hears of a release elsewhere.  Over nothing,
\* with nothing pressed, the drag is not ended and the buttons keep their state.
MouseUpElsewhere ==
  /\ At("up") /\ (task.hit = None \/ Suppressed(task.hit))
  /\ buttons' = IF task.hit = None THEN buttons ELSE buttons \ {task.button}
  /\ strayed' = (strayed \/ (task.hit = None /\ pressed = None))
  /\ IF pressed # None
     THEN /\ task' = [task EXCEPT !.at = "noHitUp", !.press = pressed]
          /\ UNCHANGED <<focusVars, clear>>
     ELSE /\ ResolveFocusClearAfterClick
          /\ IF task.hit = None THEN Done ELSE To("resolved")
  /\ UNCHANGED <<documentVars, dragVars, boundVars, pressed, lit, scripted, chorded>>

\* The element pressed is the element hit.
Click ==
  /\ At("mouseup") /\ task.press = task.hit
  /\ To("click")
  /\ UNCHANGED <<keyVars, pressVars, dragVars, boundVars, historyVars>>

\* Mutant: the release over another element leaves what was pressed lit.
Released_Lit ==
  /\ At("noHitUp") \/ At("click") \/ (At("mouseup") /\ task.press # task.hit)
  /\ pressed' = None
  /\ lit' = lit
  /\ ResolveFocusClearAfterClick
  /\ To("resolved")
  /\ UNCHANGED <<documentVars, dragVars, boundVars, historyVars, buttons>>

\* After the listeners of mouseup and click, whichever button it was.
Released ==
  /\ At("noHitUp") \/ At("click") \/ (At("mouseup") /\ task.press # task.hit)
  /\ pressed' = None
  /\ lit' = IF task.at = "noHitUp" THEN lit \ {task.press} ELSE lit
  /\ ResolveFocusClearAfterClick
  /\ To("resolved")
  /\ UNCHANGED <<documentVars, dragVars, boundVars, historyVars, buttons>>

-----------------------------------------------------------------------------
(* Dragging.                                                               *)

\* DragManager::EndDrag.  With the dragged element destroyed the drag stays started.
EndDrag(effect) ==
  /\ At("resolved")
  /\ IF task.button # Left THEN Done /\ UNCHANGED <<dragVars>>
     ELSE IF drag.element = None
     THEN Done /\ drag' = [drag EXCEPT !.allowed = FALSE] /\ UNCHANGED accepted
     ELSE IF drag.started
     THEN To(IF drag.over # None /\ drag.allowed /\ effect THEN "drop" ELSE "dragend") /\ UNCHANGED <<dragVars>>
     ELSE Done /\ drag' = NoDrag /\ accepted' = None
  /\ UNCHANGED <<keyVars, pressVars, boundVars, historyVars>>

Dropped ==
  /\ At("drop") /\ To("dragend")
  /\ UNCHANGED <<keyVars, pressVars, dragVars, boundVars, historyVars>>

DragEnded ==
  /\ At("dragend") /\ Done
  /\ drag' = NoDrag /\ accepted' = None
  /\ UNCHANGED <<keyVars, pressVars, boundVars, historyVars>>

MoveTo(e) ==
  /\ e # None
  /\ Arrive("move", None, e)
  /\ UNCHANGED <<held, presses, scripted, chorded>>

MouseMove ==
  /\ At("move")
  /\ IF Suppressed(task.hit) THEN Done ELSE To("mousemove")
  /\ UNCHANGED <<keyVars, pressVars, dragVars, boundVars, historyVars>>

\* DragManager::UpdateDrag; far: the pointer has left the place of the press.
UpdateDrag(far) ==
  /\ At("mousemove")
  /\ IF drag.element = None \/ ~(drag.started \/ far) THEN Done
     ELSE To(IF drag.started THEN "drag" ELSE "dragstart")
  /\ UNCHANGED <<keyVars, pressVars, dragVars, boundVars, historyVars>>

DragStarted ==
  /\ At("dragstart")
  /\ drag' = [drag EXCEPT !.started = TRUE]
  /\ To("drag")
  /\ UNCHANGED <<keyVars, pressVars, boundVars, historyVars, accepted>>

\* Mutant: the consent of an earlier dragover stays.
DragOver_NoReset(e) ==
  /\ At("drag")
  /\ e = task.hit \/ ~Attached(task.hit)
  /\ e = None \/ (e \in Targets /\ Attached(e))
  /\ task' = [task EXCEPT !.at = "dragover", !.hit = e]
  /\ UNCHANGED <<keyVars, pressVars, dragVars, boundVars, historyVars>>

\* UpdateDragHoverChain up to dragover: the element under the pointer now.
DragOver(e) ==
  /\ At("drag")
  /\ e = task.hit \/ ~Attached(task.hit)
  /\ e = None \/ (e \in Targets /\ Attached(e))
  /\ drag' = [drag EXCEPT !.allowed = FALSE]
  /\ task' = [task EXCEPT !.at = "dragover", !.hit = e]
  /\ UNCHANGED <<keyVars, pressVars, boundVars, historyVars, accepted>>

DragOverDone(prevented) ==
  /\ At("dragover")
  /\ drag' = [drag EXCEPT !.over = task.hit, !.allowed = (@ \/ (prevented /\ task.hit # None))]
  /\ accepted' = IF prevented THEN task.hit ELSE None
  /\ Done
  /\ UNCHANGED <<keyVars, pressVars, boundVars, historyVars>>

-----------------------------------------------------------------------------
(* Scripts and the keyboard.                                               *)

\* Where listeners run, and between events.
ScriptRuns ==
  /\ calls < MaxCalls
  /\ IF changes = <<>> THEN task.at \in InDispatch ELSE Head(changes).out \o Head(changes).in # <<>>

FocusByScript(e) ==
  /\ ScriptRuns /\ e \notin dead
  /\ (e \in Focusable /\ SetFocus(e)) \/ Blur(e)
  /\ calls' = calls + 1 /\ scripted' = TRUE
  /\ UNCHANGED <<documentVars, pressVars, dragVars, held, presses, task, chorded, strayed>>

RemoveByScript(e) ==
  /\ ScriptRuns
  /\ TakeAway(e) \/ PutBack(e)
  /\ calls' = calls + 1
  /\ UNCHANGED <<pressVars, dragVars, historyVars, held, presses, task>>

\* What the handler of the event holds; the dragged element only while it is dispatched to.
TaskHolds ==
  {task.hit, task.press}
  \cup (IF task.at \in {"dragstart", "drag", "dragover", "drop", "dragend"} THEN {drag.element} ELSE {})
  \cup (IF task.at \in {"drop", "dragend"} THEN {drag.over} ELSE {})

Collect(e) ==
  /\ Destroy(e) /\ e \notin TaskHolds
  /\ pressed' = Expired(pressed, e) /\ lit' = lit \ {e}
  /\ clear' = [clear EXCEPT !.element = Expired(@, e), !.target = Expired(@, e)]
  /\ drag' = [drag EXCEPT !.element = Expired(@, e), !.over = Expired(@, e)]
  /\ accepted' = Expired(accepted, e)
  /\ UNCHANGED <<boundVars, historyVars, task, buttons>>

Tab(reverse) ==
  /\ task = Idle /\ changes = <<>>
  /\ TabToNextFocusableElement(reverse)
  /\ scripted' = (scripted \/ changed')
  /\ UNCHANGED <<documentVars, pressVars, dragVars, boundVars, task, chorded, strayed>>

FocusEvents ==
  /\ FocusEventsSent \/ FocusChanged
  /\ UNCHANGED mouseVars

Init ==
  /\ FocusInit
  /\ held = {} /\ presses = 0 /\ task = Idle
  /\ buttons = {} /\ pressed = None /\ lit = {}
  /\ clear = NoClear /\ drag = NoDrag
  /\ calls = 0 /\ scripted = FALSE
  /\ chorded = FALSE /\ strayed = FALSE /\ accepted = None

Next ==
  \/ \E b \in Buttons, e \in Weak : ButtonDown(b, e)
  \/ \E b \in Buttons, e \in Weak : ButtonUp(b, e)
  \/ \E e \in Weak : MoveTo(e)
  \/ MouseDown \/ MouseDownNoHit \/ MouseDownSuppressed
  \/ Pressed \/ StartDragDetection
  \/ MouseUp \/ MouseUpElsewhere \/ Click \/ Released
  \/ \E effect \in BOOLEAN : EndDrag(effect)
  \/ Dropped \/ DragEnded
  \/ MouseMove
  \/ \E far \in BOOLEAN : UpdateDrag(far)
  \/ DragStarted
  \/ \E e \in Weak : DragOver(e)
  \/ \E prevented \in BOOLEAN : DragOverDone(prevented)
  \/ \E e \in Elements : FocusByScript(e)
  \/ \E e \in Movable : RemoveByScript(e)
  \/ \E e \in Movable : Collect(e)
  \/ \E reverse \in BOOLEAN : Tab(reverse)
  \/ FocusEvents

Spec == Init /\ [][Next]_vars

-----------------------------------------------------------------------------
(* Properties.                                                             *)

Quiet == task = Idle /\ changes = <<>>

\* Unless a listener changed the focus, or the focus went from an element to one inside
\* or around it, :focus is on the element that has the focus and on nothing else but
\* elements that were removed with it.
RingFollowsFocus ==
  changes = <<>> /\ ~nested /\ ~within =>
    /\ focus = None \/ focus \in ring
    /\ ring \subseteq {focus} \cup orphaned

\* ":focus - has the focus" (element.h), set by the focus manager on its own
\* (focus_manager.h): also when the element is inside the one that had it.
RingIsSetWithin ==
  changes = <<>> /\ ~nested => focus = None \/ focus \in ring

\* A click moves or clears the focus only if nothing else set it since the press, be
\* it to the same element again.
ClickKeepsTheScriptsFocus ==
  [][(Released \/ MouseUpElsewhere) /\ changes' # changes => ~scripted]_vars

\* When the buttons are up nothing is left of the press: no pending change of focus,
\* nothing lit, nothing dragged, but for two buttons at once and the one release that
\* is not handled.
ReleaseIsClean ==
  Quiet /\ held = {} =>
    /\ ~clear.armed
    /\ chorded \/ lit = {}
    /\ strayed \/ drag.element = None

\* An element gets a drop only if it took the last dragover of this drag.
DropIsWelcome ==
  task.at = "drop" => drag.over # None /\ accepted = drag.over

\* The active element is one of the document: "if no new element takes the focus,
\* activeElement returns the body" (focus_manager.cpp).
RemovedIsNotActive ==
  Quiet => active = None \/ Attached(active)
=============================================================================
