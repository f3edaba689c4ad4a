SPECIFICATION Spec
CONSTANTS
  a1 = a1  a2 = a2  b1 = b1  b2 = b2  i1 = i1  i2 = i2
  MinAlto = 0
  MinBajo = 1
  SinContenedor = SinContenedor
  Pid = {p1, p2}
  RingCap = 1
  ChanCap = 1
  Container = {b1, b2}
  Perfil <- PerfilPoda
  Ajeno = Ajeno
  Nadie = Nadie
  PidReuse = TRUE
  MaxProcesos = 1
  MaxAjenos = 1
  ReservaPid = 0
  MaxAdversidad = 1
INVARIANT OnlyDecidedSignalled
