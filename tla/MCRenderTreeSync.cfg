SPECIFICATION RenderSpec
CONSTANTS
  Body = body
  Containers = {a}
  Leaves = {t, u}
  Styled = {a}
  Displays = {"", "none", "contents"}
  NoRO = NoRO
  ParentChanges = 2
  ReplacedChildren = 1
  Copies = 3
  MaxChanges = 2
SYMMETRY Twins
INVARIANTS  RepaintIsDue
PROPERTIES OneChangeIsExact AddsAndRemovesArrive
