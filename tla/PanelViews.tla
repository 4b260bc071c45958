------------------------------ MODULE PanelViews ------------------------------
(***************************************************************************)
(* The views of the panel.  App draws one view at a time and a view that   *)
(* is left loses its memory, so the views share the variables: `tela` is   *)
(* the view on screen and m1..m13 are its memory, with that of the server  *)
(* behind it.  What a view does not use is Nada.                           *)
(***************************************************************************)
EXTENDS FiniteSets, Integers, Sequences

CONSTANTS
  Nada,
  Selecoes,      \* what a reading or a stream may be of
  Itens,         \* what a handler inserts or removes
  Vagas,         \* bound: slots for the requests and operations in course
  MaxEventos, MaxCliques, MaxAlheios, MaxEfeitos, MaxQuedas, MaxAcoes,  \* bounds, by module
  Ids,           \* bound: the identifiers the server hands out
  Graficos, MaxPanels, MaxDashboards,
  UnidadesDoEditor, Plantas, SiteDe, HostsDaPlanta, LarguraDaImagem, Cliques,
  Inventarios, Esquemas,
  Listas, Buscas,
  Sites, Ips, Tipos, Salas, Alcance, Monitorados, VagasDaRede, MaxAcoesNaRede,
  PAGE_SIZE, Iniciais, MaxRegistros, MaxFiltros,
  ServidoresMedidos, Metricas, PrimeiraMetrica, ComTendencia, Instantes,
  Tabelas, Primarias, MaxRelacoes,
  Cadastros, Enlaces, HostsDaMalha, Portas, LbIp, MaxLinhas

VARIABLES tela, m1, m2, m3, m4, m5, m6, m7, m8, m9, m10, m11, m12, m13

memoria == <<tela, m1, m2, m3, m4, m5, m6, m7, m8, m9, m10, m11, m12, m13>>

-----------------------------------------------------------------------------
(* The readings and the writes of every view, by their records. *)

CatalogoDeLeituras == INSTANCE ReadCatalog
CatalogoDeEdicoes  == INSTANCE EditCatalog

Reads == INSTANCE ViewReads WITH
  Chaves <- Selecoes, Leituras <- CatalogoDeLeituras!LeiturasDoPainel,
  leitura <- m1, chave <- m2, versao <- m3, pedidos <- m4, dados <- m5, erro <- m6, primeira <- m7,
  concluido <- m8, eventos <- m9

Edits == INSTANCE ViewEdits WITH
  Mesas <- Vagas, Edicoes <- CatalogoDeEdicoes!EdicoesDoPainel,
  edicao <- m1, servidor <- m2, vista <- m3, dialogo <- m4, mesa <- m5, ocupado <- m6, cliques <- m7,
  alheios <- m8

Stream == INSTANCE StreamReconnect WITH
  Fontes <- Selecoes,
  atual <- m1, chave <- m2, pedidos <- m3, fontes <- m4, timers <- m5, tentativa <- m6, estado <- m7,
  linhas <- m8, quedas <- m9

-----------------------------------------------------------------------------
(* The views with a state of their own. *)

Draft == INSTANCE DashboardDraft WITH
  gravados <- m1, dashboards <- m2, selectedId <- m3, draft <- m4, nextKey <- m5, saving <- m6,
  dialogo <- m7, pedidos <- m8, acoes <- m9

Floor == INSTANCE FloorPlanEditor WITH
  Unidades <- UnidadesDoEditor, Hosts <- HostsDaPlanta, Largura <- LarguraDaImagem,
  gravados <- m1, numericSiteId <- m2, plans <- m3, current <- m4, pins <- m5, mode <- m6,
  pendingHost <- m7, dirty <- m8, leitura <- m9, pedidos <- m10, acoes <- m11

Data == INSTANCE DatabaseExplorer WITH
  instancias <- m1, filtros <- m2, selecionada <- m3, alvo <- m4, esquema <- m5, carga <- m6,
  escolhido <- m7, raiz <- m8, saltos <- m9, aberta <- m10, realce <- m11

Board == INSTANCE ContainerBoard WITH
  Leituras <- Listas,
  containers <- m1, search <- m2, prefs <- m3, guardado <- m4, aceita <- m5, recolhidos <- m6,
  selecionado <- m7

Net == INSTANCE NetworkInventory WITH
  Vagas <- VagasDaRede, MaxAcoes <- MaxAcoesNaRede,
  unidades <- m1, rede <- m2, inventory <- m3, unidade <- m4, filter <- m5, detalhe <- m6, aba <- m7,
  editing <- m8, form <- m9, saving <- m10, pedidos <- m11, quebrada <- m12, acoes <- m13

Audit == INSTANCE AuditPages WITH
  proximo <- m1, primeira <- m2, pendentes <- m3, applied <- m4, offset <- m5, items <- m6, total <- m7,
  erro <- m8, pedido <- m9, filtros <- m10, base <- m11, vistos <- m12, mexeu <- m13

History == INSTANCE MetricsHistory WITH
  Servidores <- ServidoresMedidos, Primeira <- PrimeiraMetrica,
  catalogo <- m1, servers <- m2, serverId <- m3, escolhida <- m4, range <- m5, customFrom <- m6,
  customTo <- m7, custom <- m8, customError <- m9, consulta <- m10

-----------------------------------------------------------------------------
(* The drawings. *)

Diagram == INSTANCE SchemaDiagram WITH
  presentes <- m1, relacoes <- m2, pedida <- m3, pedidos <- m4, estado <- m5, nivel <- m6, pilha <- m7,
  nos <- m8

Mesh == INSTANCE MeshTraffic WITH
  Hosts <- HostsDaMalha,
  servers <- m1, topologia <- m2, stats <- m3

ASSUME ConstantesDasTelas ==
  /\ Reads!ConstantesOk /\ Edits!ConstantesOk /\ Stream!ConstantesOk /\ Draft!ConstantesOk
  /\ Floor!ConstantesOk /\ Data!ConstantesOk /\ Board!ConstantesOk /\ Net!ConstantesOk
  /\ Audit!ConstantesOk /\ History!ConstantesOk /\ Diagram!ConstantesOk /\ Mesh!ConstantesOk

-----------------------------------------------------------------------------
\* The memory from a variable on is not used.
De4  == <<m4, m5, m6, m7, m8, m9, m10, m11, m12, m13>>
De8  == <<m8, m9, m10, m11, m12, m13>>
De9  == <<m9, m10, m11, m12, m13>>
De10 == <<m10, m11, m12, m13>>
De11 == <<m11, m12, m13>>
De12 == <<m12, m13>>

EmBranco12 == m12 = Nada /\ m13 = Nada
EmBranco11 == m11 = Nada /\ EmBranco12
EmBranco10 == m10 = Nada /\ EmBranco11
EmBranco9  == m9 = Nada /\ EmBranco10
EmBranco8  == m8 = Nada /\ EmBranco9
EmBranco4  == m4 = Nada /\ m5 = Nada /\ m6 = Nada /\ m7 = Nada /\ EmBranco8

Init ==
  \/ tela = "leituras"   /\ Reads!Init   /\ EmBranco10
  \/ tela = "edicoes"    /\ Edits!Init    /\ EmBranco9
  \/ tela = "fluxo"      /\ Stream!Init      /\ EmBranco10
  \/ tela = "rascunho"   /\ Draft!Init   /\ EmBranco10
  \/ tela = "plantas"    /\ Floor!Init    /\ EmBranco12
  \/ tela = "bancos"     /\ Data!Init     /\ EmBranco12
  \/ tela = "containers" /\ Board!Init /\ EmBranco8
  \/ tela = "rede"       /\ Net!Init
  \/ tela = "auditoria"  /\ Audit!Init
  \/ tela = "historico"  /\ History!Init  /\ EmBranco11
  \/ tela = "esquema"    /\ Diagram!Init    /\ EmBranco9
  \/ tela = "malha"      /\ Mesh!Init      /\ EmBranco4

TelaDeLeituras   == tela = "leituras"   /\ Reads!Next   /\ UNCHANGED <<tela, De10>>
TelaDeEdicoes    == tela = "edicoes"    /\ Edits!Next    /\ UNCHANGED <<tela, De9>>
TelaDeFluxo      == tela = "fluxo"      /\ Stream!Next      /\ UNCHANGED <<tela, De10>>
TelaDeRascunho   == tela = "rascunho"   /\ Draft!Next   /\ UNCHANGED <<tela, De10>>
TelaDePlantas    == tela = "plantas"    /\ Floor!Next    /\ UNCHANGED <<tela, De12>>
TelaDeBancos     == tela = "bancos"     /\ Data!Next     /\ UNCHANGED <<tela, De12>>
TelaDeContainers == tela = "containers" /\ Board!Next /\ UNCHANGED <<tela, De8>>
TelaDeRede       == tela = "rede"       /\ Net!Next       /\ UNCHANGED tela
TelaDeAuditoria  == tela = "auditoria"  /\ Audit!Next  /\ UNCHANGED tela
TelaDeHistorico  == tela = "historico"  /\ History!Next  /\ UNCHANGED <<tela, De11>>
TelaDeEsquema    == tela = "esquema"    /\ Diagram!Next    /\ UNCHANGED <<tela, De9>>
TelaDeMalha      == tela = "malha"      /\ Mesh!Next      /\ UNCHANGED <<tela, De4>>

Next ==
  \/ TelaDeLeituras \/ TelaDeEdicoes \/ TelaDeFluxo \/ TelaDeRascunho \/ TelaDePlantas \/ TelaDeBancos
  \/ TelaDeContainers \/ TelaDeRede \/ TelaDeAuditoria \/ TelaDeHistorico \/ TelaDeEsquema \/ TelaDeMalha

Spec == Init /\ [][Next]_memoria

\* The fairness of each module, for the view on screen.
Na(t, P) == tela = t /\ P

JusticaDasLeituras ==
  /\ WF_(Reads!vars)(Na("leituras", Reads!Repete))
  /\ \A v \in Vagas : /\ WF_(Reads!vars)(Na("leituras", Reads!Responde(v)))
                       /\ WF_(Reads!vars)(Na("leituras", Reads!Recebe(v)))

JusticaDasEdicoes ==
  /\ \A v \in Vagas : /\ WF_(Edits!vars)(Na("edicoes", Edits!Executa(v)))
                      /\ WF_(Edits!vars)(Na("edicoes", Edits!Termina(v)))
                      /\ WF_(Edits!vars)(Na("edicoes", Edits!Dispara(v)))
  /\ \A v \in Vagas \cup {Edits!Relogio} : /\ WF_(Edits!vars)(Na("edicoes", Edits!Le(v)))
                                           /\ WF_(Edits!vars)(Na("edicoes", Edits!Mostra(v)))
  /\ WF_(Edits!vars)(Na("edicoes", Edits!Repete))

JusticaDoFluxo ==
  \A e \in 1..MaxEfeitos : /\ WF_(Stream!vars)(Na("fluxo", Stream!Abre(e)))
                  /\ WF_(Stream!vars)(Na("fluxo", Stream!Dispara(e)))

FairSpec == Spec /\ JusticaDasLeituras /\ JusticaDasEdicoes /\ JusticaDoFluxo

-----------------------------------------------------------------------------
(* Properties: those of the modules, for the view on screen.               *)

\* Whatever the view, its state keeps its types.
TypeOK ==
  /\ tela = "leituras"   => Reads!TypeOK
  /\ tela = "edicoes"    => Edits!TypeOK
  /\ tela = "fluxo"      => Stream!TypeOK
  /\ tela = "rascunho"   => Draft!TypeOK
  /\ tela = "plantas"    => Floor!TypeOK
  /\ tela = "bancos"     => Data!TypeOK
  /\ tela = "containers" => Board!TypeOK
  /\ tela = "rede"       => Net!TypeOK
  /\ tela = "auditoria"  => Audit!TypeOK
  /\ tela = "historico"  => History!TypeOK
  /\ tela = "esquema"    => Diagram!TypeOK
  /\ tela = "malha"      => Mesh!TypeOK

\* The data of a selection that was left passes: views that hide what they wait for never
\* draw it, and protected ones only until the new answer arrives, or under its failure; not
\* every one of these marks the wait on screen (the effects of the views).
OutraChavePassa == tela = "leituras" => Reads!OutraChavePassa

\* A reading that failed is never drawn as an empty list, in the views that report
\* their failures (the catch of each poll).
FalhaNuncaViraVazio == tela = "leituras" => Reads!FalhaNuncaViraVazio

\* A stream of log lines or container lines: one EventSource open for the selection,
\* lines of no other one, a state that tells what it is doing and a wait that grows
\* (components/ui/stream-reconnect.ts and its callers).
FluxoIntegro == tela = "fluxo" => Stream!SoUmaFonte /\ Stream!LinhasDaSelecao /\ Stream!EstadoFiel /\ Stream!EsperaCresce

\* The dashboard in edition: its charts keep keys of their own, the one selected is
\* listed, and "saving" lasts as long as a save, whatever charts the lists leave out
\* (DashboardsView.tsx).
RascunhoIntegro == tela = "rascunho" => Draft!ChavesProprias /\ Draft!SelecaoListada

\* A busy flag is up exactly while an operation that raised it is in course, and no two
\* operations hold the same one (the disabled of the buttons, the finally of the handlers,
\* DialogProvider.tsx), whatever dialogs replaced one another; of every handler but the one
\* that asks only before it stops a container.
TravaExata == tela = "edicoes" => Edits!TravaExata

\* The diagram, its schema and its focus are of the base that is open, whichever lists
\* the inventory answered meanwhile (BancosView.tsx, EsquemaDiagrama.tsx).
DiagramaDoAlvo == tela = "bancos" => Data!DiagramaDoAlvo

\* The board of containers: groups hold every container once and in the order chosen,
\* absent measures last, sums over what they hold, and the preferences come back
\* (lib/containers.ts, ContainersView.tsx).
OrdemESoma == tela = "containers" => Board!OrdemESoma /\ Board!PreferenciaVolta

\* Page after page with no filter changed, no record that the trail held all along
\* is skipped (AuditView.tsx).
NadaPulado == tela = "auditoria" => Audit!NadaPulado

\* A ready-made window is never asked of a metric that keeps no sample for it, nor a period
\* typed out of order; the length and the open end of a period of the user's own are left to
\* the server to refuse (MetricsHistoryView.tsx).
JanelaProntaCabe == tela = "historico" => History!JanelaProntaCabe

\* The drawing of a schema: levels without a gap, a relation goes down unless a cycle
\* forces it, everything fits, and the neighbourhood is exact (lib/erd.ts).
DesenhoCerto ==
  tela = "esquema" =>
    Diagram!NiveisContiguos /\ Diagram!RelacaoDesce /\ Diagram!CabeNoDesenho /\ Diagram!VizinhancaExata

\* The mesh: requests neither lost nor counted twice among the nodes, the worst
\* severity wins, and traffic is drawn where there is an edge (lib/upstream.ts).
MalhaConfere ==
  tela = "malha" => Mesh!ReqsConservadas /\ Mesh!SeveridadePior /\ Mesh!TrafegoDesenhado

\* The key of a host is its site and its address, however the statements of scans, telemetry,
\* adoptions, removals and saves alternate (database.AdoptNetworkHostsWithoutSite, whose
\* NOT EXISTS is what keeps the index from refusing it).
UmaLinhaPorChave == tela = "rede" => Net!UmaLinhaPorChave

\* A reading of the pins that answers during an edition leaves the edited pins alone
\* (FloorPlanView.tsx, the effects of the polling).
EdicaoFica == [][tela = "plantas" => Floor!MarcadoresQuietos]_memoria

\* A save of a host changes no field that its form left as it was, whoever changed it
\* meanwhile (handleSubmit of HostEditModal, networkHostUpdateHandler).
EdicaoParcial == [][tela = "rede" => Net!GravaSoOMudado]_memoria

\* A view arrives, for good: when the polls go on being answered it ends showing the last
\* version with no error; a view that reads once ends with the data of its selection or with
\* its failure; a stream of a selection ends connected; a list that is edited and that a
\* timer reads again ends as the server has it.
Chegou ==
  /\ Na("leituras", Reads!Repetida) => Reads!EmDia
  /\ Na("leituras", Reads!Cancelada) => Reads!DaSelecao
  /\ tela = "fluxo" => Stream!Ligada
  /\ Na("edicoes", Edits!ComRelogio) => Edits!EmDia
TelaChega == <>[]Chegou

\* A button that was disabled by a write comes back: every path of the handlers goes
\* through their finally.
OcupadoSai == Na("edicoes", Edits!Ocupada) ~> ~Na("edicoes", Edits!Ocupada)
=============================================================================
