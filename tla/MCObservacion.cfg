SPECIFICATION Spec
CONSTANTS
  N = 4
  SinContenedor = "host"
  MinAlto = 1
  MinBajo = 1
  duenno <- MCduenno
  pesos <- MCpesos
  texto <- MCtexto
  Texto = Texto
  Ram = Ram
  MaxCiclos = 2
  MaxLen = 2
  Intentos = 2
  MaxFallosValkey = 1
INVARIANTS TypeOK FreedOnlyAfterExit WalkIsExact ParsedRight CorrelatedRight MainCorrelated TotalsAgree PeakKept
CHECK_DEADLOCK FALSE
