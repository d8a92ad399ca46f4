SPECIFICATION Spec
CONSTANTS
  Body = {b1, b2, b3}
  Limiter = {k1, k2}
  Max = 3
  Total = 4
  MaxResponses = 2
  Length <- Lengths
  Chunk = {1, 3, 8}
SYMMETRY Symmetry
INVARIANTS PassedBudget
