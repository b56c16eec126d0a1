SPECIFICATION SharedSpec
CONSTANTS
  vm1 = vm1
  vm2 = vm2
  p11 = p11
  p12 = p12
  p21 = p21
  p22 = p22
  small = small
  large = large
  Nil = Nil
  NoId = NoId
  NoVM = NoVM
  VM = {vm1, vm2}
  Proto = {p11, p12, p21, p22}
  Module = {m1, m2}
  Id = {small, large}
  owner <- Owners
  natives <- Natives
SYMMETRY Symmetric
INVARIANTS
  EraserFindsModule
