SPECIFICATION Spec
CONSTANTS
  p1 = p1
  p2 = p2
  p3 = p3
  a = a
  b = b
  c = c
  None = None
  Torn = Torn
  Paths = {p1, p2, p3}
  Digests = {a, b, c}
  Handlers = {h1, h2}
  Tarballs <- MCTwo
  MayFail = FALSE
INVARIANT LoadedIsWhole
CHECK_DEADLOCK FALSE
