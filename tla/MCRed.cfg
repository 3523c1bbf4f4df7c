SPECIFICATION SpecJusta
CONSTANTS
  Emisor = Emisor
  Receptor = Receptor
  Nada = Nada
  Buscan = {Receptor}
  MaxMensajes = 2
  MaxSesiones = 3
  MaxFallas = 1
  MaxBuzon = 1
  MaxCaja = 1
INVARIANT UnaVez
PROPERTY NoSueltaLaNueva
PROPERTY Entrega
CHECK_DEADLOCK FALSE
