SPECIFICATION Spec
CONSTANTS
  Ids = {1, 2}
  Graficos = {"a", "b"}
  MaxPanels = 2
  MaxDashboards = 2
  Vagas = {1, 2}
  MaxAcoes = 3
PROPERTY
  RenomeiaMantem
CHECK_DEADLOCK FALSE
