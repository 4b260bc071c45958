SPECIFICATION FairSpec
CONSTANTS
  a1 = a1 a2 = a2
  Alvos = {a1, a2}
  Required = 2
  BreachGap = 2
  Notificavel = TRUE
  MaxFalhas = 2
INVARIANTS
  TypeOK
  IncidenteLembrado
PROPERTIES
  DuracaoExigida
  ViolacaoDispara
  VoltaFecha
