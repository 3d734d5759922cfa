SPECIFICATION Spec
CONSTANTS
  page = page
  box = box
  field = field
  button = button
  off = off
  None = None
  Home <- Tree
  TabOrder <- Tabs
  Fields = {field}
  Disabled = {off}
  Draggable = {box}
  Left = left
  Right = right
  Targets = {field, button, off}
  Movable = {box, field}
  MaxPresses = 2
  MaxCalls = 2
INVARIANTS RingFollowsFocus ReleaseIsClean DropIsWelcome
PROPERTIES ClickKeepsTheScriptsFocus
