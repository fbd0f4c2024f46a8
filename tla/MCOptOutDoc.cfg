SPECIFICATION Spec
CONSTANTS
    None = None
    s1 = s1  s2 = s2  h1 = h1  h2 = h2
    d1 = d1  d2 = d2  p1 = p1  b1 = b1
    Parts = {"build"}
CHECK_DEADLOCK FALSE
INVARIANT OptOutKeepsAttributes
