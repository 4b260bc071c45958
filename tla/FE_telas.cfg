SPECIFICATION FairSpec
CONSTANTS
  esta = esta aquela = aquela Nada = Nada
  Selecoes = {esta, aquela}
  Itens = {esta, aquela}
  Vagas = {1, 2}
  MaxEventos = 3
  MaxCliques = 2
  MaxAlheios = 1
  MaxEfeitos = 3
  MaxQuedas = 3
  MaxAcoes = 3
  Ids = {1, 2}
  Graficos = {esta}
  MaxPanels = 2
  MaxDashboards = 2
  UnidadesDoEditor = {"u"}
  Plantas = {"p", "q"}
  SiteDe <- DuasPlantas
  HostsDaPlanta = {"h"}
  LarguraDaImagem = 40
  Cliques <- AForaEADentro
  Inventarios <- DoisInventarios
  Esquemas <- DoisEsquemas
  Listas <- DuasListas
  Buscas = {{1, 2, 3}, {1}, {2, 3}}
  Sites = {1, 2}
  Ips = {"i"}
  Tipos = {"nas"}
  Salas = {"x"}
  Alcance = {0, 1, 2}
  Monitorados = {"i"}
  VagasDaRede = {1}
  MaxAcoesNaRede = 4
  PAGE_SIZE = 2
  Iniciais = 3
  MaxRegistros = 4
  MaxFiltros = 1
  ServidoresMedidos = {"s"}
  Metricas = {"cpu", "latency"}
  PrimeiraMetrica = "cpu"
  ComTendencia = {"cpu"}
  Instantes = {1, 2}
  Tabelas = {1, 2, 3}
  Primarias <- UmaQuatroENove
  MaxRelacoes = 3
  Cadastros <- DoisCadastros
  Enlaces <- DoisEnlaces
  HostsDaMalha = {"h1", "h2"}
  Portas = {80}
  LbIp = "nenhum"
  MaxLinhas = 2
INVARIANTS
  TypeOK
  OutraChavePassa FalhaNuncaViraVazio FluxoIntegro RascunhoIntegro 
  DiagramaDoAlvo OrdemESoma NadaPulado JanelaProntaCabe DesenhoCerto MalhaConfere
  UmaLinhaPorChave
PROPERTIES
  EdicaoFica EdicaoParcial
  TelaChega OcupadoSai
CHECK_DEADLOCK FALSE
