\* An instance that has lost its socket and the next run of the timer.
CONSTANTS
  n1 = n1
  n2 = n2
  User = {n1, n2}
  MaxFd = 5
  BatchMax = 3
SPECIFICATION Spec
PROPERTY InitResolves
