SPECIFICATION SpecViva
CONSTANTS
  Mandante = Mandante
  Contratista = Contratista
  Nadie = Nadie
  Rele = Rele
  IdMenor = Contratista
  Precios = {7, 8}
  Pcts = {50, 100}
  Textos = {}
  TrabajoOferta = 2
  GarantiaPublicada = 2
  Garantias = {2}
  DetalleOferta = "muro"
  MontosExtra = {}
  EsUsd = TRUE
  Nodos = {Mandante, Contratista, Rele}
  Escritorio = {}
  Fallan = {}
  MaxSeq = 1
  MaxNotas = 3
  MaxExtra = 0
  MaxCierre = 0
INVARIANT PagoAcordado
INVARIANT ReciboCoherente
INVARIANT GastoCuadra
INVARIANT FondeoCuadra
INVARIANT Conmuta
PROPERTY EncierreTermina
PROPERTY Convergen
