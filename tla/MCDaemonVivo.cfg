SPECIFICATION FairSpec
CONSTANTS
  a1 = a1  a2 = a2  b1 = b1  b2 = b2  i1 = i1  i2 = i2
  MinAlto = 1
  MinBajo = 0
  SinContenedor = SinContenedor
  Pid = {p1, p2, p3}
  RingCap = 1
  ChanCap = 1
  Container = {a1, i1}
  Perfil <- PerfilPoda
  Ajeno = Ajeno
  Nadie = Nadie
  PidReuse = FALSE
  MaxProcesos = 2
  MaxAjenos = 0
  ReservaPid = 1
  MaxAdversidad = 1
PROPERTIES IntrusoFalls MinimumRestored
