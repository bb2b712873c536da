CONSTANTS
  Node = {1, 2, 3}
  MaxMissed = 1
  Link = {1, 2, 3, 4, 5, 6}
  Setups <- MCSetups
SPECIFICATION MeshSpec
INVARIANTS
  ViewsSound
PROPERTIES
  MeshForms
CHECK_DEADLOCK FALSE
