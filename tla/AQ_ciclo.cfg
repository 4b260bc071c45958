SPECIFICATION FairSpec
CONSTANTS
  k1 = k1 k2 = k2 d1 = d1 d2 = d2 o1 = o1 p1 = p1 p2 = p2
  Chaves = {k1}
  Detectores = {d1}
  Operadores = {}
  Verbos = {}
  Processos = {p1}
  NCanais = 1
  Configs = {{},{1}}
  MaxAlertas = 2
  MaxQuedas = 0
  Lote = 2
  MaxTentativas = 2
  Lease = 1
  EsperaBase = 1
  EsperaMax = 1
  Cooldown = 2
  Retomada = 1
  Visto = 1
  Duracao = 1
  Retencao = 0
  Poda = FALSE
  RecoveryEnabled = TRUE
  BancoFalha = FALSE
  ChaveDe <- UmaChave
  Casa <- CasaDetector
INVARIANTS
  TypeOK
  RecuperacaoAnunciada
PROPERTIES
  CooldownPorLinha
  PendenteSai
  FalhouERetomado
