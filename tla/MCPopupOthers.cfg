SPECIFICATION Spec
CONSTANTS
  Popups = {p1, p2, p3}
  None = None
PROPERTY OthersPopupKept
