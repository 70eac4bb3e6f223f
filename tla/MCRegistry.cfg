SPECIFICATION Spec
CONSTANTS
  a = a
  b = b
  plain = plain
  Names <- MCNames
  Empty = Empty
  Nil = Nil
  Values = {plain}
  Top <- MCTop
  PathMax = 2
  Calls <- MCCalls
  NoCall = NoCall
  Absent = Absent
  MaxKeys = 13
  Grown = 3
  MaxMade = 1
INVARIANTS
  TreeShape
  PathLeadsBack
PROPERTIES
  ImplementsNamespace
  CallsReturn
