CONSTANTS
  p1 = p1  p2 = p2  s1 = s1  s2 = s2  s3 = s3  a = a  b = b
  NoSub = NoSub
  Publishers = {p1}
  Names = {a}
  Subs = {s1, s2}
  NameOf <- OneName
  BufferSize = 1
  SubBuffer = 1
  DropOnFull = FALSE
  MaxEvents = 4
SPECIFICATION FairSpec
INVARIANT Lossless
PROPERTIES FeedSpec EventuallyRead PublishReturns RunStops
CHECK_DEADLOCK FALSE
