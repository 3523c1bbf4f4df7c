SPECIFICATION Spec
CONSTRAINT UnaCosaPorVez
CONSTANTS
  Mandante = Mandante
  Contratista = Contratista
  Nadie = Nadie
  Rele = Rele
  IdMenor = Contratista
  Precios = {}
  Pcts = {}
  Textos = {"techo"}
  TrabajoOferta = 2
  GarantiaPublicada = 2
  Garantias = {1, 2}
  DetalleOferta = "muro"
  MontosExtra = {3}
  EsUsd = FALSE
  Nodos = {Mandante, Contratista}
  Escritorio = {}
  Fallan = {}
  MaxSeq = 1
  MaxNotas = 1
  MaxExtra = 1
  MaxCierre = 1
INVARIANT MontosCuadran
PROPERTY CorteConsentido
