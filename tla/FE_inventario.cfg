SPECIFICATION Spec
CONSTANTS
  Sites = {1, 2}
  Ips = {"i"}
  Tipos = {"nas"}
  Salas = {"x"}
  Ids = {1, 2}
  Alcance = {0, 1, 2}
  Monitorados = {"i"}
  Vagas = {1}
  MaxAcoes = 4
PROPERTY
  SoOHostEditado
CHECK_DEADLOCK FALSE
