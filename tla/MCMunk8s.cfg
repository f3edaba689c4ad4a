SPECIFICATION FairSpec
CONSTANTS
  Reporte = {r1, r2}
  Pais = {ESP, RUlarga, FRA}
  ValidoRust = {ESP, RUlarga}
  ValidoGo = {ESP}
  Buffer = 1
  MaxFallos = 3
  MaxCuentas = 1
INVARIANTS OkWasPublished RefusedNeverCounted
PROPERTIES Answered OkIsCounted
CHECK_DEADLOCK FALSE
