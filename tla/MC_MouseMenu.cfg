CONSTANTS
  MaxMenus <- MCMaxMenus
  Points <- MCMenuPoints
SPECIFICATION Spec
INVARIANTS
  OnlyCurrentMenuListens
  FocusNotOnDroppedMenu
