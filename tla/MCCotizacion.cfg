SPECIFICATION PrecioSpec
CONSTANTS
  Ninguno = Ninguno
  Llamadas = {k1, k2}
  MaxMalas = 1
PROPERTY DirectoConsentido
PROPERTY Insiste
PROPERTY SalaAbre
PROPERTY OrbotSinCulpa
