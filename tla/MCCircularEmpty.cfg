CONSTANTS
  Threads = {t1, t2}
  NoThread = none
  Size = 3
  MaxPuts = 5
SPECIFICATION Spec
SYMMETRY Symmetry
PROPERTIES EmptyIsTrue
