SPECIFICATION Spec
CONSTANTS
  Mandante = Mandante
  Contratista = Contratista
  Nadie = Nadie
  Rele = Rele
  IdMenor = Contratista
  Precios = {}
  Pcts = {50, 100}
  Textos = {}
  TrabajoOferta = 2
  GarantiaPublicada = 2
  Garantias = {2}
  DetalleOferta = "muro"
  MontosExtra = {}
  EsUsd = FALSE
  Nodos = {Mandante, Contratista}
  Escritorio = {Mandante, Contratista}
  Fallan = {Mandante, Contratista}
  MaxSeq = 2
  MaxNotas = 1
  MaxExtra = 0
  MaxCierre = 0
INVARIANT PagadaConGasto
INVARIANT NoVuelveDelTrato
