SPECIFICATION SpecJusta
CONSTANTS
  Mandante = Mandante
  Contratista = Contratista
  Nada = Nada
  Etapas = {1}
  Salidas <- MCSalidas
  Halladas = {"c1", "c2"}
  Propone = Mandante
  MaxTropiezos = 1
  MaxIntentos = 2
INVARIANT FondeoUnico
INVARIANT FondeoNoSeOlvida
INVARIANT LibroHonesto
PROPERTY FirmanAmbos
PROPERTY FondeoTermina
CHECK_DEADLOCK FALSE
