CONSTANTS
  Alignment = 2
  ChunkBytes = 6
  Bytes = {0, 2, 3, 7}
  Tensor = {t1, t2, t3}
  MaxChunks = 2
SPECIFICATION Spec
SYMMETRY TensorSymmetry
INVARIANTS
  BlocksLieApart
  OwnedOrFree
  NoGrowthAfterWarmUp
