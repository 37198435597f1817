CONSTANTS
  nblocks = 3
  nlayers = 2
  nspec = 1
  nbands = 2
  Thermal = {1}
  Columns = 2
  Calls = 2
  Nil = Nil
SPECIFICATION Spec
INVARIANTS
  TypeOK
  DisortSeesColumn
  InterfaceFlux
