SPECIFICATION Spec
CONSTANTS
  k1 = k1 k2 = k2 d1 = d1 d2 = d2 o1 = o1 p1 = p1 p2 = p2
  Chaves = {k1}
  Detectores = {d1}
  Operadores = {o1}
  Verbos = {"acked", "resolved"}
  Processos = {p1}
  NCanais = 2
  Configs = {{2}}
  MaxAlertas = 2
  MaxQuedas = 1
  Lote = 2
  MaxTentativas = 1
  Lease = 1
  EsperaBase = 1
  EsperaMax = 1
  Cooldown = 1
  Retomada = 0
  Visto = 1
  Duracao = 0
  Retencao = 0
  Poda = TRUE
  RecoveryEnabled = TRUE
  BancoFalha = TRUE
  ChaveDe <- UmaChave
  Casa <- CasaAmbos
INVARIANTS
  UmaVivaPorChave
  AberturaIntegra
