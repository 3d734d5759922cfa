--------------------------- MODULE RenderTreeSync ---------------------------
(***************************************************************************)
(* How the render tree follows the document.  A change of the DOM          *)
(* (core/dom/node.cpp) is recorded by the DirtyNodeTracker and announced   *)
(* to the WindowDOMObserver, which asks for a repaint unless the document  *)
(* is in a batch.  A frame (Window::Render) or a script that measures      *)
(* (Window::ForceLayoutSync) merges the recorded changes and applies them  *)
(* to the render objects (RenderTreeSynchronizer), or builds the render    *)
(* tree anew when the observer threw it away.                              *)
(*                                                                         *)
(* A node is named, its style is its inline display; layout, painting and  *)
(* text content are left out.  Render objects are told apart because a     *)
(* node can be left with two of them.                                      *)
(***************************************************************************)
EXTENDS Naturals, Sequences, FiniteSets, SequencesExt

CONSTANTS
  Body,       \* the element at the root of the render tree
  Containers, \* the other nodes that take children
  Leaves,     \* nodes without children
  Styled,     \* the elements whose display a script sets ...
  Displays,   \* ... to some of "", "none" and "contents"
  NoRO,       \* no render object
  ParentChanges,    \* parent_changes_threshold_ (3)
  ReplacedChildren, \* replaced_children_threshold_ (5)
  Copies,     \* bound: render objects of one node at a time (MaxChanges + 1)
  MaxChanges  \* bound: changes recorded between two synchronizations

Parents == {Body} \cup Containers
Nodes == Parents \cup Leaves
Content == Nodes \ {Body}
ROs == Nodes \X (1..Copies)

ASSUME NodesAreApart == Body \notin Containers \cup Leaves /\ Containers \cap Leaves = {}
ASSUME StyledAreContainers == Styled \subseteq Containers
ASSUME DisplaysAreKnown == {""} \subseteq Displays /\ Displays \subseteq {"", "none", "contents"}
ASSUME SyncBounds ==
  /\ ParentChanges \in Nat /\ ReplacedChildren \in Nat
  /\ Copies \in Nat \ {0} /\ MaxChanges \in Nat \ {0}

VARIABLES
  kids,      \* child_nodes_
  display,   \* the inline display of every element
  structural,\* structural_changes_
  styles,    \* style_changes_, each an element and its display before
  tree,      \* kids: children_ of the render objects; link: render_object_ of the nodes
  valid,     \* render_tree_valid_
  batch,     \* batch_depth_ > 0
  due,       \* needs_repaint_
  drawing,   \* Render has synchronized and not yet returned
  undrawn,   \* history: changes were applied that no frame has shown
  exact,     \* history: the last synchronization left an exact tree
  unseen     \* history: a change was made in Render, or measured in a batch

nodeVars == <<kids, display>>
trackerVars == <<structural, styles>>
renderVars == <<nodeVars, trackerVars, tree, valid, batch, due, drawing, undrawn, exact, unseen>>

-----------------------------------------------------------------------------
(* The document.                                                           *)

ParentOf(k, n) == {p \in Parents : n \in Range(k[p])}
HasParent(k, n) == ParentOf(k, n) # {}
Parent(k, n) == CHOOSE p \in ParentOf(k, n) : TRUE

Ancestors[n \in Nodes] ==
  UNION {{p} \cup Ancestors[p] : p \in ParentOf(kids, n)}

Within(n) == {m \in Nodes : m = n \/ n \in Ancestors[m]}
InDocument(n) == n = Body \/ Body \in Ancestors[n]
Depth(n) == Cardinality(Ancestors[n])
Display(n) == IF n \in Styled THEN display[n] ELSE ""
HasBox(n) == Display(n) = ""

Position(s, x) == CHOOSE i \in DOMAIN s : s[i] = x

-----------------------------------------------------------------------------
(* DirtyNodeTracker.                                                       *)

Record(type, n, old, p, oldp, i) ==
  [type |-> type, node |-> n, old |-> old, parent |-> p, oldParent |-> oldp, index |-> i]

OfType(s, types) == SelectSeq(s, LAMBDA c : c.type \in types)
Gone(s) == {c.node : c \in Range(OfType(s, {"Removed"}))}
           \cup {c.old : c \in Range(OfType(s, {"Replaced"}))}
Come(s) == {c.node : c \in Range(OfType(s, {"Added", "Replaced"}))}

\* The first Added or Removed of a node.
First(s, n) == Head(SelectSeq(s, LAMBDA c : c.type \in {"Added", "Removed"} /\ c.node = n)).type

\* Nodes added and removed: dropped if the first of it was the adding, moved otherwise.
Back(s, type) ==
  {n \in Gone(s) : /\ \E c \in Range(s) : c.type = "Added" /\ c.node = n
                   /\ First(s, n) = type}
Cancelled(s) == Back(s, "Added")
MovedBack(s) == Back(s, "Removed")

LastAdd(s, n) == Last(SelectSeq(s, LAMBDA c : c.type = "Added" /\ c.node = n))

\* A Removed becomes a move to where the node was added last.
AsMove(s, c) ==
  IF c.type = "Removed" /\ c.node \in MovedBack(s)
  THEN Record("Moved", c.node, c.node, LastAdd(s, c.node).parent, c.parent, LastAdd(s, c.node).index)
  ELSE c

\* Mutant: a sort that reverses nodes of the same depth.
ByDepth_Reverses(s) ==
  FoldLeft(LAMBDA acc, c : LET i == Cardinality({j \in DOMAIN acc : Depth(acc[j].node) < Depth(c.node)})
                           IN InsertAt(acc, i + 1, c), <<>>, s)

\* Stable insertion by depth, parents first.
ByDepth(s) ==
  FoldLeft(LAMBDA acc, c : LET i == Cardinality({j \in DOMAIN acc : Depth(acc[j].node) <= Depth(c.node)})
                           IN InsertAt(acc, i + 1, c), <<>>, s)

Covers(roots, n) == Ancestors[n] \cap roots # {}

\* Mutant: a root covers itself.
Covered_ByItself(s, c) == c.node \in Come(s) \/ Covers(Come(s) \cup Gone(s), c.node)

\* A change inside a subtree that is itself added or removed needs nothing more.
Covered(s, c) ==
  CASE c.type = "Added" -> Covers(Come(s), c.node)
    [] c.type = "Removed" -> Covers(Gone(s), c.node)
    [] c.type = "Moved" -> Covers(Come(s) \cup Gone(s), c.node)
    [] c.type = "Replaced" -> Covers(Gone(s), c.old) \/ Covers(Come(s), c.node)

Pruned(s) == SelectSeq(s, LAMBDA c : ~Covered(s, c))

\* Replaced first, then Added, then the rest: new subtrees before what moves.
Merged(s) ==
  LET kept == SelectSeq(s, LAMBDA c :
                /\ c.type # "Replaced" => c.node \notin Cancelled(s)
                /\ c.type \in {"Added", "Moved"} => c.node \notin MovedBack(s))
      moved == [i \in DOMAIN kept |-> AsMove(s, kept[i])]
  IN OfType(moved, {"Replaced"}) \o ByDepth(OfType(moved, {"Added"}))
     \o OfType(moved, {"Removed", "Moved"})

Optimized(s) == Pruned(Merged(s))

\* Styles of added or removed subtrees go, the first of an element is kept.
OptimizedStyles(s, st) ==
  LET roots == Come(Merged(s)) \cup Gone(Merged(s))
      open == SelectSeq(st, LAMBDA c : c.node \notin roots /\ ~Covers(roots, c.node))
  IN FoldLeft(LAMBDA acc, c : IF \E i \in DOMAIN acc : acc[i].node = c.node
                              THEN acc ELSE Append(acc, c), <<>>, open)

-----------------------------------------------------------------------------
(* Render objects: R.kids are the children, R.link the object of a node.   *)

\* The synchronizer's methods are functions on these: TLC evaluates a function's
\* argument once.
Trees == [kids : [ROs -> Seq(ROs)], link : [Nodes -> ROs \cup {NoRO}]]

HasRO(R, n) == R.link[n] # NoRO
RootRO == <<Body, 1>>
Holder(R, x) == {y \in ROs : x \in Range(R.kids[y])}

\* An object lives as long as something holds it, up to the root.
Reach[R \in Trees, X \in SUBSET ROs] ==
  LET more == X \cup UNION {Range(R.kids[x]) : x \in X}
  IN IF more = X THEN X ELSE Reach[R, more]
Objects(R) == Reach[R, {RootRO}]

\* A node's link is weak: it goes with its object.
Swept[R \in Trees] ==
  LET O == Objects(R)
  IN [kids |-> [x \in ROs |-> IF x \in O THEN R.kids[x] ELSE <<>>],
      link |-> [n \in Nodes |-> IF R.link[n] \in O THEN R.link[n] ELSE NoRO]]

Linked(R, n, x) == [R EXCEPT !.link[n] = x]
Unlinked(R, S) == [R EXCEPT !.link = [n \in Nodes |-> IF n \in S THEN NoRO ELSE @[n]]]
Put(R, y, i, x) == [R EXCEPT !.kids[y] = InsertAt(@, i + 1, x)]
TakeOut(R, x) == [R EXCEPT !.kids = [y \in ROs |-> SelectSeq(@[y], LAMBDA z : z # x)]]
NewRO(R, n) == <<n, CHOOSE k \in 1..Copies : <<n, k>> \notin Objects(R)>>

\* The object of the nearest ancestor that has one, the node itself first.
LayoutRO(R, p) ==
  LET up == {q \in {p} \cup Ancestors[p] : HasRO(R, q)}
  IN IF up = {} THEN NoRO ELSE R.link[CHOOSE q \in up : \A r \in up : Depth(r) <= Depth(q)]

\* A node without a box gives its children to the parent object, hidden or not.
CreateRenderSubtree[R \in Trees, n \in Nodes, y \in ROs] ==
  LET below(T, z) == FoldLeft(LAMBDA r, c : CreateRenderSubtree[r, c, z], T, kids[n])
      x == NewRO(R, n)
  IN IF HasRO(R, n) THEN below(R, R.link[n])
     ELSE IF ~HasBox(n) THEN below(R, y)
     ELSE below(Linked(Put(R, y, Len(R.kids[y]), x), n, x), x)

CreateRenderObjects(R, n, y) ==
  FoldLeft(LAMBDA r, c : CreateRenderSubtree[r, c, y], R, kids[n])

\* Mutant: one position too far.
FindInsertPosition_TooFar(R, y, index, p) ==
  LET before == {i \in DOMAIN kids[p] : i <= index + 1 /\ HasRO(R, kids[p][i])}
      room == Len(R.kids[y])
  IN IF Cardinality(before) < room THEN Cardinality(before) ELSE room

\* How many of the first children of p have an object.
FindInsertPosition(R, y, index, p) ==
  LET before == {i \in DOMAIN kids[p] : i <= index /\ HasRO(R, kids[p][i])}
      room == Len(R.kids[y])
  IN IF Cardinality(before) < room THEN Cardinality(before) ELSE room

InsertRenderObject[R \in Trees, n \in Nodes, p \in Nodes, index \in Nat] ==
  LET y == LayoutRO(R, p)
      x == NewRO(R, n)
      L == Linked(R, n, x)
  IN IF HasRO(R, n) \/ y = NoRO THEN R
     ELSE IF ~HasBox(n) THEN CreateRenderObjects(R, n, y)
     ELSE CreateRenderObjects(Put(L, y, FindInsertPosition(L, y, index, p), x), n, x)

RemoveRenderObject[R \in Trees, n \in Nodes] ==
  IF HasRO(R, n) THEN Unlinked(TakeOut(R, R.link[n]), Within(n))
  ELSE FoldLeft(LAMBDA r, c : RemoveRenderObject[r, c], R, kids[n])

\* The new node gets an object of its own even if it has one already.
ReplaceRenderObject[R \in Trees, old \in Nodes, new \in Nodes, p \in Nodes, index \in Nat] ==
  LET y == LayoutRO(R, p)
      layoutParent == y[1]
      x == NewRO(R, new)
      L == IF HasBox(new) THEN Linked(R, new, x) ELSE R
      at == Position(R.kids[y], R.link[old])
      placed ==
        IF HasRO(R, old)
        THEN Unlinked(
               IF R.link[old] \notin Range(R.kids[y]) THEN L
               ELSE IF HasBox(new) THEN [L EXCEPT !.kids[y][at] = x]
               ELSE CreateRenderObjects(TakeOut(L, R.link[old]), new, y),
               Within(old))
        ELSE IF HasBox(new) THEN Put(L, y, FindInsertPosition(L, y, index, layoutParent), x)
        ELSE CreateRenderObjects(L, new, y)
  IN IF y = NoRO THEN R
     ELSE IF HasBox(new) THEN CreateRenderObjects(placed, new, x) ELSE placed

\* The objects that stand for a node in its layout parent.
Boxes[R \in Trees, n \in Nodes] ==
  IF HasRO(R, n) THEN <<R.link[n]>>
  ELSE FlattenSeq([i \in DOMAIN kids[n] |-> Boxes[R, kids[n][i]]])

PreviousSibling[R \in Trees, n \in Nodes] ==
  IF ~HasParent(kids, n) THEN <<>>
  ELSE LET p == Parent(kids, n)
           before == SubSeq(kids[p], 1, Position(kids[p], n) - 1)
           boxes == FlattenSeq([i \in DOMAIN before |-> Boxes[R, before[i]]])
       IN IF boxes # <<>> THEN <<Last(boxes)>>
          ELSE IF HasRO(R, p) THEN <<>> ELSE PreviousSibling[R, p]

CalculateInsertPosition(R, prev, y) ==
  IF prev = <<>> THEN 0
  ELSE IF prev[1] \in Range(R.kids[y]) THEN Position(R.kids[y], prev[1]) ELSE Len(R.kids[y])

MoveRenderObject[R \in Trees, n \in Nodes, p \in Nodes] ==
  LET y == LayoutRO(R, p)
      x == R.link[n]
      T == TakeOut(R, x)
  IN IF y = NoRO THEN R
     ELSE IF ~HasRO(R, n) THEN FoldLeft(LAMBDA r, c : MoveRenderObject[r, c, p], R, kids[n])
     ELSE IF Holder(R, x) = {} THEN R
     ELSE Put(T, y, CalculateInsertPosition(T, PreviousSibling[T, n], y), x)

\* The object of an element that lost its box: its children take its place, or go.
ReplaceForStyle[R \in Trees, n \in Nodes] ==
  LET x == R.link[n]
      y == CHOOSE z \in ROs : z \in Holder(R, x)
      at == Position(R.kids[y], x)
      spliced == [R EXCEPT !.kids[x] = <<>>,
                           !.kids[y] = SubSeq(@, 1, at - 1) \o R.kids[x] \o SubSeq(@, at + 1, Len(@))]
  IN IF Holder(R, x) = {} THEN R
     ELSE IF Display(n) = "contents" THEN Unlinked(spliced, {n})
     ELSE Unlinked(TakeOut(R, x), Within(n))

RefreshElementSubtreeStyles[R \in Trees, n \in Nodes] ==
  LET p == Parent(kids, n)
      below(T) == FoldLeft(LAMBDA r, c : RefreshElementSubtreeStyles[r, c], T,
                           SelectSeq(kids[n], LAMBDA c : c \in Parents))
      allowed == HasRO(R, p) \/ Display(p) = "contents"
      inserted == InsertRenderObject[R, n, p, Position(kids[p], n) - 1]
  IN IF HasRO(R, n)
     THEN CASE Display(n) = "none" -> ReplaceForStyle[R, n]
            [] Display(n) = "contents" -> below(ReplaceForStyle[R, n])
            [] OTHER -> below(R)
     ELSE IF Display(n) = "none" THEN RemoveRenderObject[R, n]
     ELSE IF ~allowed THEN R
     ELSE IF HasBox(n) THEN below(inserted) ELSE inserted

ApplyStyleChange[R \in Trees, n \in Nodes] ==
  IF ~InDocument(n) THEN Unlinked(R, Within(n))
  ELSE IF ~HasRO(R, n) THEN IF n = Body THEN R ELSE RefreshElementSubtreeStyles[R, n]
  ELSE IF HasBox(n) THEN R ELSE ReplaceForStyle[R, n]

-----------------------------------------------------------------------------
(* RenderTreeSynchronizer::Synchronize.                                    *)

\* Many changes in one parent or a large replaced subtree; the third rule,
\* that the changes cover half of the window, is the caller's.
NeedsSubtreeRebuild(s) ==
  \/ \E c \in Range(s) : c.type = "Replaced" /\ Len(kids[c.old]) > ReplacedChildren
  \/ \E p \in Nodes : Len(SelectSeq(s, LAMBDA c : c.parent = p)) > ParentChanges

\* The node whose subtree is rebuilt for a change.
RebuildRoot(R, c) ==
  LET firstOf == SelectSeq(<<LayoutRO(R, c.parent), LayoutRO(R, c.oldParent), LayoutRO(R, c.node)>>,
                           LAMBDA y : y # NoRO)
  IN IF firstOf = <<>> THEN <<>> ELSE <<firstOf[1][1]>>

RebuildRoots(R, s) ==
  LET all == FlattenSeq([i \in DOMAIN s |-> RebuildRoot(R, s[i])])
      roots == Range(all)
  IN FoldLeft(LAMBDA acc, n : IF n \in Range(acc) \/ Covers(roots, n) THEN acc ELSE Append(acc, n),
              <<>>, all)

\* All objects below a node are made anew; a node without one leaves it to its ancestor.
RebuildSubtree[R \in Trees, root \in Nodes] ==
  LET y == LayoutRO(R, root)
      n == y[1]
      bare == Swept[[Unlinked(R, Within(n) \ {n}) EXCEPT !.kids[y] = <<>>]]
  IN IF y = NoRO THEN R ELSE CreateRenderObjects(bare, n, y)

ApplyStructural(R, c) ==
  CASE c.type = "Added" -> InsertRenderObject[R, c.node, c.parent, c.index]
    [] c.type = "Removed" -> RemoveRenderObject[R, c.node]
    [] c.type = "Replaced" -> ReplaceRenderObject[R, c.old, c.node, c.parent, c.index]
    [] c.type = "Moved" -> MoveRenderObject[R, c.node, c.parent]

Synchronized(R, s, st, rebuild) ==
  LET step(r, c) == Swept[ApplyStructural(r, c)]
      restyle(r, n) == Swept[ApplyStyleChange[r, n]]
      remake(r, n) == Swept[RebuildSubtree[restyle(r, n), n]]
      roots == IF rebuild THEN RebuildRoots(R, s) ELSE <<>>
      built == IF rebuild THEN FoldLeft(remake, R, roots) ELSE FoldLeft(step, R, s)
      left == SelectSeq(st, LAMBDA c : c.node \notin Range(roots) /\ ~Covers(Range(roots), c.node))
  IN FoldLeft(restyle, built, [i \in DOMAIN left |-> left[i].node])

NoObjects == [kids |-> [x \in ROs |-> <<>>], link |-> [n \in Nodes |-> NoRO]]

BuildRenderTree[R \in Trees, n \in Nodes, y \in ROs] ==
  FoldLeft(LAMBDA r, c :
             IF Display(c) = "none" THEN r
             ELSE IF Display(c) = "contents" THEN BuildRenderTree[r, c, y]
             ELSE BuildRenderTree[Linked(Put(r, y, Len(r.kids[y]), <<c, 1>>), c, <<c, 1>>), c, <<c, 1>>],
           R, kids[n])

Built == BuildRenderTree[Linked(NoObjects, Body, RootRO), Body, RootRO]

-----------------------------------------------------------------------------
(* What an exact tree is: the boxes of the document, in its order.         *)

Picture[R \in Trees, x \in ROs] ==
  <<x[1], [i \in DOMAIN R.kids[x] |-> Picture[R, R.kids[x][i]]]>>

Exact(R) ==
  /\ Picture[R, RootRO] = Picture[Built, RootRO]
  /\ \A x \in Objects(R) : R.link[x[1]] = x

\* The same boxes below the same boxes, in any order.
Edges(R) == UNION {{<<y[1], x[1]>> : x \in Range(R.kids[y])} : y \in ROs}
Complete(R) ==
  /\ Edges(R) = Edges(Built)
  /\ Cardinality(Objects(R)) = Cardinality(Objects(Built))

-----------------------------------------------------------------------------
(* Scripts change the document.                                            *)

RenderInit ==
  /\ kids \in {[n \in Nodes |-> IF n = Body THEN s ELSE <<>>] : s \in SetToSeqs(Content) \cup {<<>>}}
  /\ display = [n \in Styled |-> ""]
  /\ structural = <<>> /\ styles = <<>>
  /\ tree = NoObjects /\ valid = FALSE
  /\ batch = FALSE /\ due = TRUE /\ drawing = FALSE
  /\ undrawn = FALSE /\ exact = FALSE /\ unseen = FALSE

Pending == structural # <<>> \/ styles # <<>>

\* Bounds: MaxChanges, one while the tree is thrown away, none on an inexact tree
\* before it is built anew, none between a measurement or an unseen change and the
\* next frame.
MayChange(k) ==
  /\ Len(structural) + Len(styles) + k <= (IF valid THEN MaxChanges ELSE 1)
  /\ (valid => exact) /\ ~unseen /\ ~undrawn

\* WindowDOMObserver::OnNodeAdded and OnNodeRemoved: no call in a batch.
Announce ==
  /\ due' = (due \/ ~batch)
  /\ unseen' = (unseen \/ drawing)

InsertedBefore(k, n, p, i) ==
  LET without == [q \in Nodes |-> SelectSeq(k[q], LAMBDA m : m # n)]
  IN [without EXCEPT ![p] = InsertAt(@, i + 1, n)]

\* AppendChild and InsertBefore: a node that has a parent is moved.
Place(n, p, i) ==
  /\ MayChange(1) /\ n # p /\ n \notin Ancestors[p]
  /\ i <= Len(SelectSeq(kids[p], LAMBDA m : m # n))
  /\ kids' = InsertedBefore(kids, n, p, i)
  /\ structural' = Append(structural,
       IF HasParent(kids, n) THEN Record("Moved", n, n, p, Parent(kids, n), i)
       ELSE Record("Added", n, n, p, p, i))
  /\ Announce
  /\ UNCHANGED <<display, styles, tree, valid, batch, drawing, undrawn, exact>>

RemoveChild(n) ==
  LET p == Parent(kids, n) IN
  /\ MayChange(1) /\ HasParent(kids, n)
  /\ kids' = [kids EXCEPT ![p] = SelectSeq(@, LAMBDA m : m # n)]
  /\ structural' = Append(structural, Record("Removed", n, n, p, p, Position(kids[p], n) - 1))
  /\ Announce
  /\ UNCHANGED <<display, styles, tree, valid, batch, drawing, undrawn, exact>>

RemoveAllChildren(p) ==
  /\ kids[p] # <<>> /\ MayChange(Len(kids[p]))
  /\ structural' = structural \o
       [i \in DOMAIN kids[p] |-> Record("Removed", kids[p][i], kids[p][i], p, p, i - 1)]
  /\ kids' = [kids EXCEPT ![p] = <<>>]
  /\ Announce
  /\ UNCHANGED <<display, styles, tree, valid, batch, drawing, undrawn, exact>>

\* ReplaceChild leaves one record, wherever the new node came from.
ReplaceChild(new, old) ==
  LET p == Parent(kids, old)
      without == [q \in Nodes |-> SelectSeq(kids[q], LAMBDA m : m # new)]
      i == Position(without[p], old)
  IN /\ MayChange(1) /\ new # old /\ HasParent(kids, old)
     /\ new # p /\ new \notin Ancestors[p]
     /\ kids' = [without EXCEPT ![p][i] = new]
     /\ structural' = Append(structural, Record("Replaced", new, old, p, p, i - 1))
     /\ Announce
     /\ UNCHANGED <<display, styles, tree, valid, batch, drawing, undrawn, exact>>

WasNone(d) == d \in {"none", ""}
Toggles(c) == WasNone(c.old) # (c.new = "none")

\* Element::SetStyle of display.  A toggle throws the render tree away at once.
SetDisplay(n, d) ==
  LET c == [node |-> n, old |-> display[n], new |-> d] IN
  /\ d # display[n] /\ (MayChange(1) \/ (Toggles(c) /\ ~Pending /\ ~batch))
  /\ display' = [display EXCEPT ![n] = d]
  /\ styles' = Append(styles, c)
  /\ valid' = (valid /\ (batch \/ ~Toggles(c)))
  /\ tree' = IF valid' THEN tree ELSE NoObjects
  /\ Announce
  /\ UNCHANGED <<kids, structural, batch, drawing, undrawn, exact>>

\* EventLoop's DocumentBatchScope around the callbacks of a pass.  Bound: it starts
\* with everything drawn.
BeginBatch ==
  /\ ~batch /\ ~drawing /\ ~Pending /\ ~undrawn
  /\ batch' = TRUE
  /\ UNCHANGED <<nodeVars, trackerVars, tree, valid, due, drawing, undrawn, exact, unseen>>

\* Mutant: only structural changes ask for a repaint.
EndBatch_StructureOnly ==
  /\ batch
  /\ batch' = FALSE
  /\ due' = (due \/ structural # <<>>)
  /\ UNCHANGED <<nodeVars, trackerVars, tree, valid, drawing, undrawn, exact, unseen>>

\* EndBatch and OnSubtreeModified: nothing recorded, nothing asked for.
EndBatch ==
  /\ batch
  /\ batch' = FALSE
  /\ due' = (due \/ Pending)
  /\ valid' = (valid /\ ~(structural = <<>> /\ \E c \in Range(styles) : Toggles(c)))
  /\ tree' = IF valid' THEN tree ELSE NoObjects
  /\ UNCHANGED <<nodeVars, trackerVars, drawing, undrawn, exact, unseen>>

-----------------------------------------------------------------------------
(* The render tree is brought up to date.                                  *)

\* What Render and ForceLayoutSync share; broad: the changes cover half the window.
Synchronize(broad) ==
  LET once == Optimized(structural)
      onceStyles == OptimizedStyles(structural, styles)
      s == Optimized(once)
      st == OptimizedStyles(once, onceStyles)
      rebuild == s # <<>> /\ (broad \/ NeedsSubtreeRebuild(s))
  IN /\ tree' = IF valid THEN Synchronized(tree, s, st, rebuild) ELSE Built
     /\ exact' = Exact(tree')
     /\ valid' = TRUE
     /\ structural' = <<>> /\ styles' = <<>>
     /\ UNCHANGED nodeVars

\* Window::Render up to the layers; other: an animation or the caret wants a frame.
Frame(broad, other) ==
  /\ ~batch /\ ~drawing
  /\ due \/ (other /\ (Pending \/ ~valid))
  /\ drawing' = TRUE
  /\ Synchronize(broad)
  /\ undrawn' = FALSE /\ unseen' = FALSE
  /\ UNCHANGED <<batch, due>>

\* The rest of Render; the listeners of finished animations run before it ends.
FrameEnds(running) ==
  /\ drawing
  /\ drawing' = FALSE
  /\ due' = (due /\ running)
  /\ UNCHANGED <<nodeVars, trackerVars, tree, valid, batch, undrawn, exact, unseen>>

\* Window::ForceLayoutSync, from a script that measures.
Measure(broad) ==
  /\ Pending \/ ~valid
  /\ Synchronize(broad)
  /\ undrawn' = TRUE
  /\ unseen' = (unseen \/ batch)
  /\ UNCHANGED <<batch, due, drawing>>

RenderNext ==
  \/ \E n \in Content, p \in Parents, i \in 0..Cardinality(Content) : Place(n, p, i)
  \/ \E n \in Content : RemoveChild(n)
  \/ \E p \in Parents : RemoveAllChildren(p)
  \/ \E new, old \in Content : ReplaceChild(new, old)
  \/ \E n \in Styled, d \in Displays : SetDisplay(n, d)
  \/ BeginBatch
  \/ EndBatch
  \/ \E broad, other \in BOOLEAN : Frame(broad, other)
  \/ \E running \in BOOLEAN : FrameEnds(running)
  \/ \E broad \in BOOLEAN : Measure(broad)

RenderSpec == RenderInit /\ [][RenderNext]_renderVars

-----------------------------------------------------------------------------
(* Properties.                                                             *)

\* Render and Synchronize both call Optimize on the same changes: merging what
\* is merged changes nothing.
OptimizeTwiceIsOnce ==
  Optimized(Optimized(structural)) = Optimized(structural)

Syncs == structural # <<>> /\ structural' = <<>>
Incremental == (\E other \in BOOLEAN : Frame(FALSE, other)) \/ Measure(FALSE)

AllHaveBoxes == \A n \in Styled : HasBox(n)

\* The changes that the synchronizer gets right by themselves.
Simple(c) ==
  CASE c.type = "Added" -> AllHaveBoxes
    [] c.type = "Removed" -> AllHaveBoxes \/ Incremental
    [] c.type = "Replaced" -> AllHaveBoxes /\ ~HasRO(tree, c.node)
    [] c.type = "Moved" -> /\ AllHaveBoxes /\ Incremental
                           /\ HasRO(tree, c.node) /\ HasRO(tree, c.parent)

\* One change of an exact tree, drawn by itself, leaves an exact tree: every box
\* under the right box, in the order of the document.
OneChangeIsExact ==
  [][Syncs /\ exact /\ styles = <<>> /\ Len(structural) = 1 /\ Simple(structural[1])
     => exact']_renderVars

EachOnce(s) ==
  /\ \A c \in Range(s) : c.type \in {"Added", "Removed"}
  /\ \A i, j \in DOMAIN s : s[i].node = s[j].node => i = j

\* Nodes that are only added or only removed between two frames all get to, or
\* out of, the tree: none is lost, none is drawn twice.
AddsAndRemovesArrive ==
  [][Syncs /\ exact /\ AllHaveBoxes /\ styles = <<>> /\ EachOnce(structural)
     => Complete(tree')]_renderVars

\* Outside a batch, what is not drawn yet has been asked for.
RepaintIsDue ==
  ~batch /\ ~unseen /\ (Pending \/ undrawn \/ ~valid) => due
=============================================================================
