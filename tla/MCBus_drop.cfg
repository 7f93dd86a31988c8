CONSTANTS
  p1 = p1  p2 = p2  s1 = s1  s2 = s2  s3 = s3  a = a  b = b
  NoSub = NoSub
  Publishers = {p1}
  Names = {a, b}
  Subs = {s1, s2, s3}
  NameOf <- MCNameOf
  BufferSize = 1
  SubBuffer = 1
  DropOnFull = TRUE
  MaxEvents = 3
SPECIFICATION Spec
INVARIANTS TypeOK InOrder Accounted
PROPERTY FeedSpec
CHECK_DEADLOCK FALSE
