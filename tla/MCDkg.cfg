SPECIFICATION SpecJusta
CONSTANTS
  Mandante = Mandante
  Contratista = Contratista
  Nada = Nada
  MaxTropiezos = 3
INVARIANT MismaCaja
PROPERTY CajaTermina
CHECK_DEADLOCK FALSE
