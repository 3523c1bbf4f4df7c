SPECIFICATION Spec
CONSTANTS
  Mandante = Mandante
  Contratista = Contratista
  Nadie = Nadie
  Rele = Rele
  IdMenor = Contratista
  Precios = {}
  Pcts = {}
  Textos = {}
  TrabajoOferta = 1
  GarantiaPublicada = 1
  Garantias = {1}
  DetalleOferta = "muro"
  MontosExtra = {}
  EsUsd = FALSE
  Nodos = {Mandante, Contratista}
  Escritorio = {}
  Fallan = {}
  MaxSeq = 2
  MaxNotas = 1
  MaxExtra = 0
  MaxCierre = 1
INVARIANT FondosConsentidos
