SPECIFICATION SpecJusta
CONSTANTS
  a = a
  b = b
  c = c
  d = d
  MisSalidas = {a, b}
  SalidasCaja = {c, d}
  Altura <- AlturaMC
  MinTip = 2
  MaxTip = 4
  AlturasSemilla = {1, 4}
  LOOKBACK = 1
  PASO_SCAN = 2
  PASO_ATRAS = 2
  MAX_HISTORIA = 4
  DESBLOQUEO = 1
  MaxPedidos = 1
  MaxGastos = 1
  MaxMalas = 2
  Nada = Nada
INVARIANT SinHuecos
INVARIANT FaltaDeVerdad
PROPERTY NoRevive
PROPERTY SaldoCierto
CHECK_DEADLOCK FALSE
