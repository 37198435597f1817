CONSTANTS
  nblocks = 2
  nlayers = 2
  nspec = 2
  nbands = 1
  Thermal = {}
  Columns = 1
  Calls = 1
  Nil = Nil
SPECIFICATION Spec
INVARIANT DisortSeesColumn
