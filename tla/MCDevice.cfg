CONSTANTS
  NoOne = NoOne
  Workers = {t1, t2}
  PoolIds = {p1, p2, p3}
  GraphIds = {g1}
  MaxPlain = 1
  MaxPools = 1
  Room = 1
  None = None
  FrameIds = {t1, t2, t3}
  Images = 2
  Drawables = 1
  Extents = {e1, e2}
  MaxGen = 1
SPECIFICATION MCSpec
INVARIANTS
  BooksMatchTheBackend
  FramesKeepTheirImage
  DrawablesComeBack
PROPERTIES
  ImplementsRegistry
  CallsEnd
