SPECIFICATION Spec
CONSTANTS
  Popups = {p1, p2, p3, p4}
  None = None
SYMMETRY Symmetry
INVARIANT TypeOK
INVARIANT PopupOnDock
PROPERTY SurfacesKept
