SPECIFICATION SpecJusta
CONSTANTS
  Mandante = Mandante
  Contratistas = {Alba}
  Ofertas = {o1, o2}
  Responden = {Alba}
  Tratables = {o1}
  Caen = {Mandante}
  Nada = Nada
  MaxRetiradas = 1
  MaxCaidas = 2
  MaxRetiros = 2
  MaxRespuestas = 2
INVARIANT UnoConsintio
PROPERTY RetiroQueda
PROPERTY MismoTrato
CHECK_DEADLOCK FALSE
