SPECIFICATION Spec
CONSTANTS
  MinAlto = 1
  MinBajo = 2
  SinContenedor = SinContenedor
  Listados = {c1, c2, c3}
  Ajeno = ajeno
  MaxProcesos = 3
SYMMETRY Simetria
INVARIANTS CycleBalances HeaviestFirst WholeContainer
CHECK_DEADLOCK FALSE
