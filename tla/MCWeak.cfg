SPECIFICATION WeakSpec
CONSTANTS
  Thread = {main}
  UpVal = {}
  Func = {}
  Udata = {d}
  Str = {s}
  Main = main
  Registry = reg
  Fixed = {}
  Page = {p0, p1}
  PageOf <- MCPageOf
  StackSize = 2
  KeyObj = {d}
  MetaTable = {m}
  Modes <- MCModes
  Nil = Nil
  Table = {reg, m}
  main = main
  reg = reg
  m = m
  s = s
  d = d
  p0 = p0
  p1 = p1
PROPERTIES
  InvisibleCollector
  ImplementsHeap
