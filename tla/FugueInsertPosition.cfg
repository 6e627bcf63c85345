SPECIFICATION CausalSpec
CONSTANTS
  Replica <- TwoReplicas
  Char = {a}
  MaxOps = 3
PROPERTIES
  InsertLandsAtPos
