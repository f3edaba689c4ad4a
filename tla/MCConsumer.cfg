SPECIFICATION Spec
CONSTANTS
  r1 = r1  r2 = r2  m1 = m1
  Reporte = {r1, r2, m1}
  Malformado = {m1}
  Pais <- Paises
  pais <- PaisDe
  Asignado = "ESP"
  valor <- ValorDe
  Worker = {w1, w2}
  Prefetch = 2
  Nulo = Nulo
  MaxFallos = 1
SYMMETRY Simetria
INVARIANTS TypeOK Custody AckedAreCounted OvercountBounded ExactWithoutFailures ExtremesExact
PROPERTY ImplementaEntrega
CHECK_DEADLOCK FALSE
