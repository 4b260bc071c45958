----------------------------- MODULE ReadCatalog -----------------------------
(***************************************************************************)
(* The readings of the panel's views, each as the record ViewReads runs:   *)
(* what its effect depends on, what its clean-up cancels, whether a timer, *)
(* a handler or a button asks again, and what a failure leaves on screen.  *)
(* One definition per reading, named for what it reads.                    *)
(***************************************************************************)

\* An effect that asks once, cancels nothing and shows its failure over what it had.
Leitura ==
  [porChave |-> FALSE, sinal |-> FALSE, timer |-> FALSE, timerSinal |-> FALSE, recarga |-> FALSE,
   limpa |-> FALSE, avisa |-> TRUE, espera |-> "nenhuma", esconde |-> FALSE]

ComCancelamento(l) == [l EXCEPT !.sinal = TRUE]
ComTimer(l)        == [l EXCEPT !.sinal = TRUE, !.timer = TRUE, !.timerSinal = TRUE]
ComRecarga(l)      == [l EXCEPT !.recarga = TRUE]
PorSelecao(l)      == [l EXCEPT !.porChave = TRUE]
AteAPrimeira(l)    == [l EXCEPT !.espera = "primeira"]
LimpaNaFalha(l)    == [l EXCEPT !.limpa = TRUE]
Calada(l)          == [l EXCEPT !.avisa = FALSE]

\* Dashboard
AoVivoDoPainel     == ComRecarga(ComTimer(Leitura))
HistoricoDeDisco   == PorSelecao(ComTimer(Leitura))
CadastroDaMalha    == Calada(LimpaNaFalha(ComRecarga(Leitura)))

\* MachineDetailView and its panels: App keys the view by the machine, so another machine
\* is another view
MaquinaAoVivo      == AteAPrimeira(ComTimer(Leitura))
FichaDaMaquina     == ComCancelamento(Leitura)
InventarioDaMaquina == PorSelecao(ComCancelamento(Leitura))
HistoricoDaMaquina ==
  [LimpaNaFalha(ComRecarga(PorSelecao(ComTimer(Leitura)))) EXCEPT !.espera = "chave"]
CadastroDaMaquina  == Leitura
InterfacesDoHost   == PorSelecao(ComTimer(Leitura))

\* charts
SerieDoGrafico     ==
  [LimpaNaFalha(ComRecarga(PorSelecao(ComTimer(Leitura)))) EXCEPT !.espera = "chave"]
SerieDaInterface   == [LimpaNaFalha(PorSelecao(ComTimer(Leitura))) EXCEPT !.espera = "chave"]
AnotacoesDoGrafico == LimpaNaFalha(ComRecarga(PorSelecao(ComCancelamento(Leitura))))

\* NetworkView, BancosView, FloorPlanView
InventarioDeRede   == AteAPrimeira(ComRecarga(ComTimer(Leitura)))
Instancias         == AteAPrimeira(PorSelecao(ComTimer(Leitura)))
EsquemaDeUmaBase   == PorSelecao(ComCancelamento(Leitura))
PlantasDaUnidade   == AteAPrimeira(ComRecarga(PorSelecao(Leitura)))
HostsDaUnidade     == PorSelecao(ComCancelamento(Leitura))
ImagemDaPlanta     == LimpaNaFalha(PorSelecao(ComCancelamento(Leitura)))

\* lists that a handler reads again after a write
Paineis            == AteAPrimeira(ComRecarga(Leitura))
Servidores         == AteAPrimeira(ComRecarga(Leitura))
EstadoDosServidores == ComRecarga(ComTimer(Leitura))
Contas             == AteAPrimeira(ComRecarga(Leitura))
Regras             == AteAPrimeira(ComRecarga(Leitura))
Dispositivos       == AteAPrimeira(ComRecarga(Leitura))
Unidades           == AteAPrimeira(ComRecarga(Leitura))
Dominios           == [AteAPrimeira(ComRecarga(Leitura)) EXCEPT !.timer = TRUE]
DominiosDoNginx    == ComRecarga(Leitura)
CadastroDoNginx    == Calada(LimpaNaFalha(ComRecarga(Leitura)))

\* lists that a timer reads again
Containers         == ComTimer(Leitura)
TrafegoDoNginx     == ComTimer(Leitura)
Estacoes           == AteAPrimeira(ComTimer(Leitura))
MaquinasDaUnidade  == AteAPrimeira(ComTimer(Leitura))
FichaDaUnidade     == ComCancelamento(Leitura)
Prontidao          == LimpaNaFalha(ComTimer(Leitura))
ResumoDeAlertas    == Calada(PorSelecao(ComTimer(Leitura)))

\* the timer of AlertsView asks without the token of the effect
Alertas            ==
  [ComRecarga(PorSelecao(ComTimer(Leitura))) EXCEPT !.timerSinal = FALSE, !.espera = "chave"]

\* options of a form, read once; each attempt at the catalogue is a selection
ServidoresDoHistorico == Leitura
AlvosDasRegras     == ComCancelamento(Leitura)
ServidoresDosLogs  == ComCancelamento(Leitura)
ServidoresDaSeguranca == ComCancelamento(Leitura)
Catalogo           == PorSelecao(ComCancelamento(Leitura))

\* answers hidden until they are for what is selected
Auditoria          == [LimpaNaFalha(PorSelecao(ComCancelamento(Leitura))) EXCEPT
                        !.espera = "chave", !.esconde = TRUE]
PortasDoServidor   == [LimpaNaFalha(PorSelecao(ComCancelamento(Leitura))) EXCEPT
                        !.espera = "chave", !.esconde = TRUE]

\* each submission of the form is a selection, and nothing cancels the earlier one
BuscaDeLogs        == LimpaNaFalha(PorSelecao(Leitura))

LeiturasDoPainel ==
  {AoVivoDoPainel, HistoricoDeDisco, CadastroDaMalha, MaquinaAoVivo, FichaDaMaquina,
   InventarioDaMaquina, HistoricoDaMaquina, CadastroDaMaquina, InterfacesDoHost, SerieDoGrafico, SerieDaInterface,
   AnotacoesDoGrafico, InventarioDeRede, Instancias, EsquemaDeUmaBase, PlantasDaUnidade,
   HostsDaUnidade, ImagemDaPlanta, Paineis, Servidores, EstadoDosServidores, Contas, Regras,
   Dispositivos, Unidades, Dominios, DominiosDoNginx, CadastroDoNginx, Containers, TrafegoDoNginx,
   Estacoes, MaquinasDaUnidade, FichaDaUnidade, Prontidao, ResumoDeAlertas, Alertas,
   ServidoresDoHistorico, AlvosDasRegras, ServidoresDosLogs, ServidoresDaSeguranca, Catalogo,
   Auditoria, PortasDoServidor, BuscaDeLogs}
=============================================================================
