\* Two instances and the descriptors of two clients beside them, batches of up
\* to three events.
CONSTANTS
  n1 = n1
  n2 = n2
  User = {n1, n2}
  MaxFd = 5
  BatchMax = 3
SPECIFICATION Spec
SYMMETRY NameSymmetry
INVARIANTS OwnsItsSocket HandledIsOwn ServedUnlessStale
