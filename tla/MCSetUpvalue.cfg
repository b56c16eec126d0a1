SPECIFICATION SharedSpec
CONSTANTS
  Thread = {main}
  UpVal = {uv}
  Func = {f, g}
  Udata = {d}
  Str = {}
  Main = main
  Registry = reg
  Fixed = {}
  Page = {p0}
  PageOf <- MCPageOf
  StackSize = 2
  KeyObj = {}
  MetaTable = {}
  Modes <- MCModes
  Nil = Nil
  Table = {reg}
  main = main
  reg = reg
  uv = uv
  f = f
  g = g
  d = d
  p0 = p0
INVARIANTS
  NoBlackToWhite
