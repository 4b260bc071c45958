----------------------------- MODULE EditCatalog -----------------------------
(***************************************************************************)
(* The handlers of the panel's views that write, each as the record        *)
(* ViewEdits runs.  One definition per handler, named for what it does.    *)
(***************************************************************************)

\* A handler that sends one item without asking and reads again without waiting.
Envio ==
  [pergunta |-> "nunca", trava |-> FALSE, porItem |-> FALSE, lista |-> FALSE, exige |-> FALSE,
   depois |-> "le", limpa |-> FALSE, timer |-> FALSE]

Perguntando(e)  == [e EXCEPT !.pergunta = "sempre"]
AoTirar(e)      == [e EXCEPT !.pergunta = "ao tirar"]
Travando(e)     == [e EXCEPT !.trava = TRUE]
PorItem(e)      == [Travando(e) EXCEPT !.porItem = TRUE]
Aplicando(e)    == [e EXCEPT !.depois = "aplica"]
Esperando(e)    == [e EXCEPT !.depois = "le e espera"]
Agendando(e)    == [e EXCEPT !.depois = "agenda"]
AoVencer(e)     == [e EXCEPT !.depois = "agenda e espera"]
SemReler(e)     == [e EXCEPT !.depois = "nada"]
ComListaToda(e) == [e EXCEPT !.lista = TRUE]
ComTimer(e)     == [e EXCEPT !.timer = TRUE]

\* ServersView
CadastrarServidor     == Envio
MarcarBalanceador     == Esperando(Envio)
AlternarColetaDoNginx == Esperando(Envio)
AlternarSondaDeBancos == Esperando(Envio)
RenomearServidor      == Perguntando(Esperando(Envio))
RemoverServidor       == Perguntando(Envio)

\* UsersView
CriarConta            == Envio
AlternarConta         == AoTirar(Envio)
TrocarPapel           == Envio
TrocarSenha           == Perguntando(SemReler(Envio))
RemoverConta          == Perguntando(Envio)

\* SslView
RecheckOne            == ComTimer(PorItem(Aplicando(Envio)))
RecheckAll            == ComTimer(Travando(AoVencer(Envio)))
AddDomain             == ComTimer(Perguntando(Agendando(Envio)))
DeleteDomain          == ComTimer(Perguntando(Aplicando(Envio)))
ImportAll             == Perguntando(Travando(Esperando(Envio)))

\* AlertRulesView, AlertsView
CriarRegra            == Envio
RemoverRegra          == Perguntando(Envio)
AlternarRegra         == Envio
Agir                  == ComTimer(Perguntando(Esperando(Envio)))

\* DevicesView, SitesView, ContainersView
EmitirConvite         == Travando(Aplicando(Envio))
RevogarDispositivo    == Perguntando(Envio)
CriarUnidade          == Envio
RemoverUnidade        == Perguntando(Envio)
AcaoNoContainer       == ComTimer(AoTirar(PorItem(SemReler(Envio))))

\* NetworkView: the form sends only the fields that changed
GravarHost            == ComTimer(Travando(Aplicando(Envio)))
DispararVarredura     == ComTimer(Travando(Esperando(Envio)))

\* MetricsHistoryView
Anotar                == Travando(Envio)
RemoverAnotacao       == Perguntando(Envio)

\* MachineAdminPanel
AlternarAusencia      == Travando(Aplicando(Envio))
RemoverAlias          == Perguntando(Travando(Aplicando(ComListaToda(Envio))))

\* The two places that give an address to a machine read the register again without
\* waiting, and empty it when that fails; the mesh refuses a machine it cannot find.
AssociarNoNginx       == [Travando(ComListaToda(Envio)) EXCEPT !.limpa = TRUE]
AssociarNaMalha       == [AssociarNoNginx EXCEPT !.exige = TRUE]

EdicoesDoPainel ==
  {CadastrarServidor, MarcarBalanceador, AlternarColetaDoNginx, AlternarSondaDeBancos,
   RenomearServidor, RemoverServidor, CriarConta, AlternarConta, TrocarPapel, TrocarSenha,
   RemoverConta, RecheckOne, RecheckAll, AddDomain, DeleteDomain, ImportAll, CriarRegra,
   RemoverRegra, AlternarRegra, Agir, EmitirConvite, RevogarDispositivo, CriarUnidade,
   RemoverUnidade, AcaoNoContainer, GravarHost, DispararVarredura, Anotar, RemoverAnotacao,
   AlternarAusencia, RemoverAlias, AssociarNoNginx, AssociarNaMalha}
=============================================================================
