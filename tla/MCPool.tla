-------------------------------- MODULE MCPool --------------------------------
EXTENDS PoolAllocator, TLC

TensorSymmetry == Permutations(Tensor)

================================================================================
