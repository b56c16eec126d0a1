SPECIFICATION LiveSpec
CONSTANTS
  Thread = {main, co}
  UpVal = {}
  Func = {}
  Udata = {d}
  Str = {}
  Main = main
  Registry = reg
  Fixed = {}
  Page = {p0, p1}
  PageOf <- MCPageOf
  StackSize = 2
  KeyObj = {}
  MetaTable = {}
  Modes <- MCModes
  Nil = Nil
  Table = {reg}
  main = main
  reg = reg
  co = co
  d = d
  p0 = p0
  p1 = p1
PROPERTIES
  GarbageFreed
  MarkingEnds
