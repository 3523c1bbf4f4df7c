SPECIFICATION SpecJusta
CONSTANTS
  Mandante = Mandante
  Contratista = Contratista
  Nada = Nada
  Pcts = {50, 100}
  MaxNotas = 1
  MaxTropiezos = 1
  MaxIntentos = 2
  MaxSesiones = 4
  U32 = 256
  U64 = 2048
  PICONERO = 7
INVARIANT PagoNoSeOlvida
INVARIANT ReciboCuadra
PROPERTY FirmanAmbos
PROPERTY PagoNoSeCuelga
CHECK_DEADLOCK FALSE
