SPECIFICATION MCSpec
CONSTANTS
  Thread = {main, co}
  UpVal = {uv}
  Func = {f}
  Udata = {d}
  Str = {e}
  Main = main
  Registry = reg
  Fixed = {e}
  Page = {p0, p1}
  PageOf <- MCPageOf
  StackSize = 2
  KeyObj = {}
  MetaTable = {reg}
  Modes <- MCModes
  Nil = Nil
  Table = {reg}
  main = main
  reg = reg
  co = co
  uv = uv
  f = f
  d = d
  e = e
  p0 = p0
  p1 = p1
INVARIANTS
  NoDangling
  NoBlackToWhite
  OneList
  PauseClean
  ThreadColors
  ResumeChain
PROPERTIES
  ClosesOnlyOrphans
