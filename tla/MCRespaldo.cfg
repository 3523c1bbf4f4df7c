SPECIFICATION SpecJusta
CONSTANTS
  Obras = {o1}
  Nada = Nada
  MaxCajas = 2
  MaxCopias = 2
  MaxGen = 2
  MaxFallas = 2
INVARIANT NadaSePierde
INVARIANT SinMezcla
INVARIANT FaltaHonesta
PROPERTY RestauraTermina
CHECK_DEADLOCK FALSE
