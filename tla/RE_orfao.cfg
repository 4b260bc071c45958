SPECIFICATION FairSpec
CONSTANTS
  a1 = a1 a2 = a2
  Alvos = {a1}
  Required = 1
  BreachGap = 2
  Notificavel = TRUE
  MaxFalhas = 1
PROPERTIES
  FechaOProprio
