\* Three sockets and four dispatches around a cap of two: the cap is reached by
\* one socket alone and by two, with one more waiting and handlers left hanging.
CONSTANTS
  Sockets = {s1, s2, s3}
  Messages = {m1, m2, m3, m4}
  Cap = 2
  None = None
SPECIFICATION Spec
SYMMETRY Symmetric
INVARIANTS
  LiveWorkBounded
  RegistryCurrent
  CountersExact
CHECK_DEADLOCK FALSE
