SPECIFICATION Spec
CONSTANTS
  k1 = k1 k2 = k2 d1 = d1 d2 = d2 o1 = o1 p1 = p1 p2 = p2
  Chaves = {k1}
  Detectores = {d1}
  Operadores = {}
  Verbos = {}
  Processos = {p1}
  NCanais = 2
  Configs = {{1,2}}
  MaxAlertas = 2
  MaxQuedas = 0
  Lote = 1
  MaxTentativas = 2
  Lease = 1
  EsperaBase = 1
  EsperaMax = 1
  Cooldown = 1
  Retomada = 1
  Visto = 1
  Duracao = 0
  Retencao = 0
  Poda = FALSE
  RecoveryEnabled = TRUE
  BancoFalha = FALSE
  ChaveDe <- UmaChave
  Casa <- CasaDetector
INVARIANTS
  EnviadoFoiAvisado
  DispensadoNuncaSaiu
PROPERTIES
  CumpreCiclo
