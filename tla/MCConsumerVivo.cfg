SPECIFICATION FairSpec
CONSTANTS
  r1 = r1  r2 = r2  m1 = m1
  Reporte = {r1, m1}
  Malformado = {m1}
  Pais <- Paises
  pais <- PaisDe
  Asignado = "ESP"
  valor <- ValorDe
  Worker = {w1, w2}
  Prefetch = 2
  Nulo = Nulo
  MaxFallos = 2
PROPERTY Drains
CHECK_DEADLOCK FALSE
