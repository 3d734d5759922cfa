----------------------- MODULE MCMouseEventDispatcher -----------------------
(* A page with a draggable box that takes the focus (tabindex) and holds a *)
(* field, a disabled button and a button of its own.                       *)
EXTENDS MouseEventDispatcher

CONSTANTS page, box, field, button, off

Tree == [e \in {page, box, field, button, off} |->
           CASE e = page -> None [] e = field -> box [] OTHER -> page]
Tabs == <<box, field, button>>
=============================================================================
