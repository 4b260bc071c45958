SPECIFICATION FairSpec
CONSTANTS
  s1 = s1 s2 = s2 s3 = s3 u0 = u0 u1 = u1
  Servidores = {s1, s2}
  Grupos = {u0, u1}
  SemUnidade = u0
  MaxReq = 2
  Ciclos = 2
  Margem = 100
  Muda = TRUE
  BancoFalha = TRUE
  Cai = TRUE
INVARIANTS
  TypeOK
  UmPrincipal
PROPERTIES
  SemVaivem
  FailoverReconhecido
