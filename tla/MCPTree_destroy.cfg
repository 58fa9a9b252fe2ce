SPECIFICATION Spec
CONSTANTS
  Keys = {1, 2, 3}
  NULL = NULL
INVARIANTS DestroysWhatLeaves
