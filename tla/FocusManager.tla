---------------------------- MODULE FocusManager ----------------------------
(***************************************************************************)
(* Which element has the keyboard: core/event/input/focus_manager.cpp,     *)
(* Element::Focus and Blur, and Document's active element.                 *)
(*                                                                         *)
(* A change of focus dispatches its events before it writes the new        *)
(* element, and a listener may change the focus again, or the document, so *)
(* the changes that have begun form a stack.  The elements a dispatch      *)
(* waits for are held; the others are weak references, which read as None  *)
(* once the element is destroyed.                                          *)
(***************************************************************************)
EXTENDS Naturals, Sequences, FiniteSets, FiniteSetsExt, Functions

CONSTANTS
  Home,      \* the element an element is put under; the root's is None
  TabOrder,  \* the focusable elements in the order of Tab
  None

Elements == DOMAIN Home
Focusable == Range(TabOrder)
Weak == Elements \cup {None}

\* No set of elements holds the homes of all of its own: nothing is above itself.
ASSUME HomeIsATree ==
  /\ None \notin Elements
  /\ Home \in [Elements -> Weak]
  /\ \A S \in SUBSET Elements : S # {} => \E e \in S : Home[e] \notin S
ASSUME TabOrderOfElements == TabOrder \in Seq(Elements) /\ TabOrder # <<>>

VARIABLES
  parent,   \* the element each element is under, None at the root and when detached
  dead,     \* elements that were destroyed
  focus,    \* focus_element_
  active,   \* the document's active_element_
  ring,     \* elements with :focus
  changed,  \* focus_change_serial_ moved since a press last noted it
  changes,  \* the calls of SendFocusEvents that have not returned
  nested,   \* history: the focus was changed while it was changing
  within,   \* history: it went from an element to one inside it or around it
  orphaned  \* history: elements that had the focus when they were removed

domVars == <<parent, dead>>
focusVars == <<focus, active, ring, changed, changes, nested, within>>

-----------------------------------------------------------------------------

Root == CHOOSE e \in Elements : Home[e] = None

\* From an element up to the top of its tree.
Up[n \in Elements] == IF parent[n] = None THEN <<n>> ELSE <<n>> \o Up[parent[n]]
Chain(e) == IF e = None THEN <<>> ELSE Up[e]

ContainsElement(a, e) == a \in Range(Chain(e))
Attached(e) == ContainsElement(Root, e)

\* The nearest element that takes the focus, the element itself first.
FindFocusableElement(e) ==
  LET found == {i \in DOMAIN Chain(e) : Chain(e)[i] \in Focusable}
  IN IF found = {} THEN None ELSE Chain(e)[Min(found)]

-----------------------------------------------------------------------------

\* What is in the chain s and not in t: the start of s, as chains of one tree end alike.
Except(s, t) == SubSeq(s, 1, Cardinality({i \in DOMAIN s : s[i] \notin Range(t)}))

\* SendFocusEvents: out of the old chain, into the new one.
SendFocusEvents(old, new) ==
  /\ changes' = <<[old |-> old, new |-> new,
                   out |-> Except(Chain(old), Chain(new)),
                   in |-> Except(Chain(new), Chain(old))]>> \o changes
  /\ nested' = (nested \/ changes # <<>>)
  /\ within' = (within \/ ContainsElement(old, new) \/ ContainsElement(new, old))

\* Mutant: the serial moves only when the element does.
SetFocus_OnChange(e) ==
  IF e = focus THEN UNCHANGED focusVars
  ELSE /\ changed' = TRUE
       /\ SendFocusEvents(focus, e)
       /\ UNCHANGED <<focus, active, ring>>

\* FocusManager::SetFocus, for an element that takes the focus.
SetFocus(e) ==
  /\ changed' = TRUE
  /\ IF e = focus THEN UNCHANGED <<changes, nested, within>> ELSE SendFocusEvents(focus, e)
  /\ UNCHANGED <<focus, active, ring>>

Blur(e) ==
  /\ changed' = TRUE
  /\ IF e # focus THEN UNCHANGED <<changes, nested, within>> ELSE SendFocusEvents(focus, None)
  /\ UNCHANGED <<focus, active, ring>>

\* Mutant: :focus stays when nothing follows.
FocusEventsSent_Stays ==
  /\ changes # <<>>
  /\ LET c == Head(changes)
         leaving == c.out # <<>>
         e == IF leaving THEN Head(c.out) ELSE Head(c.in)
     IN /\ c.out \o c.in # <<>>
        /\ changes' = [changes EXCEPT ![1] = IF leaving THEN [c EXCEPT !.out = Tail(@)]
                                             ELSE [c EXCEPT !.in = Tail(@)]]
        /\ ring' = CASE leaving /\ e = c.old /\ c.new # None -> ring \ {e}
                     [] ~leaving /\ e = c.new -> ring \cup {e}
                     [] OTHER -> ring
  /\ UNCHANGED <<domVars, focus, active, changed, nested, within, orphaned>>

\* The events of one element; then :focus goes, or comes.
FocusEventsSent ==
  /\ changes # <<>>
  /\ LET c == Head(changes)
         leaving == c.out # <<>>
         e == IF leaving THEN Head(c.out) ELSE Head(c.in)
     IN /\ c.out \o c.in # <<>>
        /\ changes' = [changes EXCEPT ![1] = IF leaving THEN [c EXCEPT !.out = Tail(@)]
                                             ELSE [c EXCEPT !.in = Tail(@)]]
        /\ ring' = CASE leaving /\ e = c.old -> ring \ {e}
                     [] ~leaving /\ e = c.new -> ring \cup {e}
                     [] OTHER -> ring
  /\ UNCHANGED <<domVars, focus, active, changed, nested, within, orphaned>>

\* SetFocus and Blur after their events.
FocusChanged ==
  /\ changes # <<>>
  /\ LET c == Head(changes)
     IN /\ c.out \o c.in = <<>>
        /\ focus' = c.new /\ active' = c.new
        /\ changes' = Tail(changes)
  /\ UNCHANGED <<domVars, ring, changed, nested, within, orphaned>>

\* TabToNextFocusableElement.
TabToNextFocusableElement(reverse) ==
  LET there == {i \in DOMAIN TabOrder : Attached(TabOrder[i])}
      current == {i \in there : TabOrder[i] = focus}
      beyond == {i \in there : \A j \in current : IF reverse THEN i < j ELSE i > j}
      from == IF beyond = {} THEN there ELSE beyond
  IN IF there = {} THEN UNCHANGED focusVars
     ELSE SetFocus(TabOrder[IF reverse THEN Max(from) ELSE Min(from)])

-----------------------------------------------------------------------------
(* The document changes under it.                                          *)

\* The focus goes with the subtree that holds it, without events.
OnNodeRemoved(e) ==
  LET had == focus # None /\ ContainsElement(e, focus)
  IN /\ focus' = IF had THEN None ELSE focus
     /\ orphaned' = IF had THEN orphaned \cup {focus} ELSE orphaned

TakeAway(e) ==
  /\ parent[e] # None
  /\ OnNodeRemoved(e)
  /\ parent' = [parent EXCEPT ![e] = None]
  /\ UNCHANGED <<dead, active, ring, changed, changes, nested, within>>

\* Bound: an element comes back to where it was.
PutBack(e) ==
  /\ parent[e] = None /\ e # Root /\ e \notin dead /\ Home[e] \notin dead
  /\ parent' = [parent EXCEPT ![e] = Home[e]]
  /\ UNCHANGED <<dead, focusVars, orphaned>>

Held == UNION {{c.old, c.new} \cup Range(c.out \o c.in) : c \in Range(changes)}

\* A detached element that nothing holds; weak references to it read as None.
Expired(w, e) == IF w = e THEN None ELSE w
Destroy(e) ==
  /\ e # Root /\ parent[e] = None /\ e \notin dead \cup Held
  /\ \A k \in Elements : parent[k] # e
  /\ dead' = dead \cup {e}
  /\ focus' = Expired(focus, e) /\ active' = Expired(active, e)
  /\ ring' = ring \ {e} /\ orphaned' = orphaned \ {e}
  /\ UNCHANGED <<parent, changed, changes, nested, within>>

FocusInit ==
  /\ parent = Home /\ dead = {}
  /\ focus = None /\ active = None /\ ring = {}
  /\ changed = FALSE /\ changes = <<>> /\ nested = FALSE /\ within = FALSE
  /\ orphaned = {}
=============================================================================
