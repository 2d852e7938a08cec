SPECIFICATION Spec
CONSTANTS
  s1 = s1
  s2 = s2
  Server = {s1, s2}
  LastBuild = 3
  Tamperable = {1}
  Corruptible = {2}
  Removable = {2}
INVARIANTS
  TypeOK
  ActiveIsPublished
  SuccessIsPublished
PROPERTIES
  SelectionEndures
SYMMETRY MCSymmetry
