SPECIFICATION FairSpec
CONSTANTS
  Sessoes = {"s1", "s2"}
  Admins = {"s1"}
  Unidades = {"u1"}
  UnidadesDe <- DoAdmin
  TemToken = TRUE
  Vagas = {1, 2}
  MaxEventos = 1
INVARIANTS
  QuadroCoerente
PROPERTIES
  RevogadaVoltaAoLogin
CHECK_DEADLOCK FALSE
