SPECIFICATION Spec
CONSTANTS
  k1 = k1 k2 = k2 d1 = d1 d2 = d2 o1 = o1 p1 = p1 p2 = p2
  Chaves = {k1, k2}
  Detectores = {d1, d2}
  Operadores = {}
  Verbos = {}
  Processos = {p1,p2}
  NCanais = 2
  Configs = {{2}}
  MaxAlertas = 2
  MaxQuedas = 0
  Lote = 2
  MaxTentativas = 1
  Lease = 3
  EsperaBase = 1
  EsperaMax = 1
  Cooldown = 1
  Retomada = 0
  Visto = 1
  Duracao = 2
  Retencao = 0
  Poda = FALSE
  RecoveryEnabled = FALSE
  BancoFalha = FALSE
  ChaveDe <- DuasChaves
  Casa <- CasaDupla
INVARIANTS
  SoUmDespacha
