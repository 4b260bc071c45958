----------------------------- MODULE PanelSession -----------------------------
(***************************************************************************)
(* The frame of the panel (frontend/src/App.tsx with lib/session.ts,       *)
(* lib/rotas.ts, lib/panels.ts and the request function of lib/api.ts):    *)
(* who is signed in, in React's state and in localStorage, the path and    *)
(* the panel on screen, the list of sites and the one chosen.              *)
(*                                                                         *)
(* A request takes its credential from localStorage when it is made and    *)
(* may answer under a later session.  The effects of App that follow from  *)
(* a change (the panel of the tab, the redirects) run before the next      *)
(* event and belong to the action that causes them.  One browser tab; the  *)
(* clock of the panel and that of the server are two (Vence, Invalida).    *)
(* The notice over the login form is left out.                             *)
(***************************************************************************)
EXTENDS FiniteSets, Integers

CONSTANTS
  Sessoes,     \* logins, each with its token and its accesses
  Admins,      \* those with a global admin access
  Unidades,    \* sites
  UnidadesDe,  \* the sites each login may list, and create with a global access
  TemToken,    \* whether the build carries a development API token
  Vagas,       \* bound: slots for the requests in flight
  MaxEventos   \* bound: navigations, sites asked for and removed, network failures

Nenhuma == "nenhuma"
Todas   == "all"

ASSUME SessoesOk ==
  /\ Admins \subseteq Sessoes /\ Nenhuma \notin Sessoes
  /\ UnidadesDe \in [Sessoes -> SUBSET Unidades] /\ Todas \notin Unidades
  /\ TemToken \in BOOLEAN /\ MaxEventos \in Nat

VARIABLES
  sessao,       \* session of App
  guardada,     \* the session in localStorage
  usadas,       \* logins made so far
  vencidas,     \* past expires_at on the clock of the panel
  invalidas,    \* refused by the server: expired, idle or revoked
  modoToken,
  caminho, painel, destino,
  sites, siteId, sitesError,
  situacao,     \* each site at the server: not created yet, there, removed
  pedidos,      \* requests in flight, by slot
  entrando,     \* a login form is being sent
  eventos

conta    == <<sessao, guardada, usadas, vencidas, invalidas, modoToken, entrando>>
rota     == <<caminho, painel, destino>>
unidades == <<sites, siteId, sitesError, situacao>>
vars     == <<conta, rota, unidades, pedidos, eventos>>

-----------------------------------------------------------------------------
\* The tabs the properties tell apart: one of each panel, one of both, and an admin one.
PANELS == [dev |-> {"dashboard", "alertas", "servers"}, suporte |-> {"stations", "alertas"}]
PANEL_IDS  == DOMAIN PANELS
ADMIN_TABS == {"servers"}
Primeira   == [dev |-> "dashboard", suporte |-> "stations"]

Abas      == UNION {PANELS[p] : p \in PANEL_IDS}
Login     == "/login"
Detalhe   == "/maquinas/1"
Caminhos  == Abas \cup {Login, Detalhe, "/desconhecido"}

\* painelDaAba: stay if the tab belongs to this panel too.
PainelDaAba(aba, atual) ==
  IF aba \in PANELS[atual] THEN atual ELSE CHOOSE p \in PANEL_IDS : aba \in PANELS[p]

\* sessionState: the session, or the token once it was chosen.
Dentro(s, token) == s # Nenhuma \/ (token /\ TemToken)
Administra(s)    == s = Nenhuma \/ s \in Admins

AbaValida(c, s) == c \in Abas /\ (c \in ADMIN_TABS => Administra(s))

\* The render and the effects of App over a new session, path and panel.
Assentado(s, token, c, p, d) ==
  LET novo == IF AbaValida(c, s) THEN PainelDaAba(c, p) ELSE p
  IN IF ~Dentro(s, token)
     THEN [caminho |-> Login, painel |-> novo, destino |-> IF c = Login THEN d ELSE c]
     ELSE [caminho |-> IF AbaValida(c, s) \/ c = Detalhe THEN c ELSE Primeira[novo],
           painel |-> novo, destino |-> d]

Assenta(s, token, c, p, d) ==
  LET r == Assentado(s, token, c, p, d)
  IN caminho' = r.caminho /\ painel' = r.painel /\ destino' = r.destino

\* The tab on screen.
EffectiveTab == IF AbaValida(caminho, sessao) THEN caminho ELSE Primeira[painel]

\* loadSession: an expired session is removed from localStorage by whoever reads it.
LoadSession == IF guardada \in vencidas THEN Nenhuma ELSE guardada

Livre == [tipo |-> "livre"]
Pedido == [tipo : {"leitura", "sites", "saida", "criacao"}, sessao : Sessoes \cup {Nenhuma}]

\* A request in slot v with the credential of the moment.
Pedir(v, tipo, s) == pedidos[v] = Livre /\ pedidos' = [pedidos EXCEPT ![v] = [tipo |-> tipo, sessao |-> s]]

\* The sites a credential reaches (the build's token reaches all), and those it lists.
Alcanca(s) == IF s = Nenhuma THEN Unidades ELSE UnidadesDe[s]
Lista(s)   == {u \in Alcanca(s) : situacao[u] = "existe"}

TypeOK ==
  /\ {sessao, guardada} \subseteq Sessoes \cup {Nenhuma}
  /\ vencidas \subseteq Sessoes /\ invalidas \subseteq Sessoes /\ usadas \subseteq Sessoes
  /\ modoToken \in BOOLEAN /\ entrando \in BOOLEAN
  /\ caminho \in Caminhos /\ painel \in PANEL_IDS /\ destino \in Caminhos \cup {Nenhuma}
  /\ sites \subseteq Unidades /\ siteId \in Unidades \cup {Todas} /\ sitesError \in BOOLEAN
  /\ situacao \in [Unidades -> {"por criar", "existe", "removida"}]
  /\ pedidos \in [Vagas -> Pedido \cup {Livre}]
  /\ eventos \in 0..MaxEventos

Init ==
  /\ sessao \in Sessoes \cup {Nenhuma} /\ guardada = sessao /\ usadas = {sessao} \ {Nenhuma}
  /\ vencidas = {} /\ invalidas = {}
  /\ modoToken = FALSE /\ entrando = FALSE
  /\ \E c \in Caminhos, p \in PANEL_IDS :
       LET r == Assentado(sessao, FALSE, c, p, Nenhuma)
       IN caminho = r.caminho /\ painel = r.painel /\ destino = r.destino
  /\ sites = {} /\ siteId = Todas /\ sitesError = FALSE
  /\ situacao \in [Unidades -> {"por criar", "existe"}]
  /\ \E v \in Vagas : pedidos = [w \in Vagas |->
       IF w = v /\ sessao # Nenhuma THEN [tipo |-> "sites", sessao |-> sessao] ELSE Livre]
  /\ eventos = 0

Evento == eventos < MaxEventos /\ eventos' = eventos + 1

-----------------------------------------------------------------------------
\* LoginView.handleSubmit; a click on the token button may come before its answer.
Envia ==
  /\ ~Dentro(sessao, modoToken) /\ ~entrando
  /\ entrando' = TRUE
  /\ UNCHANGED <<sessao, guardada, usadas, vencidas, invalidas, modoToken,
                 rota, unidades, pedidos, eventos>>

\* saveSession and handleLogin; the effect on the new session reads the sites.
HandleLogin ==
  /\ entrando /\ entrando' = FALSE
  /\ \E s \in Sessoes \ usadas, v \in Vagas :
       /\ usadas' = usadas \cup {s}
       /\ guardada' = s /\ sessao' = s
       /\ Assenta(s, modoToken, IF destino = Nenhuma THEN Primeira[painel] ELSE destino, painel, Nenhuma)
       /\ Pedir(v, "sites", s)
  /\ siteId' = Todas
  /\ UNCHANGED <<vencidas, invalidas, modoToken, sites, sitesError, situacao, eventos>>

LoginRecusado ==
  /\ entrando /\ entrando' = FALSE
  /\ UNCHANGED <<sessao, guardada, usadas, vencidas, invalidas, modoToken,
                 rota, unidades, pedidos, eventos>>

EntrarComToken ==
  /\ TemToken /\ ~Dentro(sessao, modoToken)
  /\ modoToken' = TRUE
  /\ Assenta(sessao, TRUE, IF destino = Nenhuma THEN Primeira[painel] ELSE destino, painel, Nenhuma)
  /\ guardada' = LoadSession
  /\ \E v \in Vagas : Pedir(v, "sites", LoadSession)
  /\ UNCHANGED <<sessao, usadas, vencidas, invalidas, entrando, unidades, eventos>>

HandleLogout ==
  /\ Dentro(sessao, modoToken)
  /\ \E v \in Vagas : Pedir(v, "saida", LoadSession)
  /\ guardada' = Nenhuma /\ sessao' = Nenhuma /\ modoToken' = FALSE
  /\ siteId' = Todas /\ sites' = {}
  /\ Assenta(Nenhuma, FALSE, Login, painel, destino)
  /\ UNCHANGED <<usadas, vencidas, invalidas, entrando, sitesError, situacao, eventos>>

\* A view asks for something, or asks for the sites again after a change.
Pede(v) ==
  /\ Dentro(sessao, modoToken)
  /\ \E tipo \in {"leitura", "sites"} : Pedir(v, tipo, LoadSession)
  /\ guardada' = LoadSession
  /\ UNCHANGED <<sessao, usadas, vencidas, invalidas, modoToken, entrando,
                 rota, unidades, eventos>>

\* The form of a new site is sent.
PedeUnidade(v) ==
  /\ Dentro(sessao, modoToken) /\ Evento
  /\ Pedir(v, "criacao", LoadSession)
  /\ guardada' = LoadSession
  /\ UNCHANGED <<sessao, usadas, vencidas, invalidas, modoToken, entrando, rota, unidades>>

Aceito(v) == pedidos[v].sessao \notin invalidas /\ (pedidos[v].sessao = Nenhuma => TemToken)

\* reloadSites: a choice that is no longer listed goes back to all.
RecebeSites(lista) ==
  /\ sites' = lista /\ sitesError' = FALSE
  /\ siteId' = IF siteId \in lista THEN siteId ELSE Todas

\* logoutHandler: the server forgets the session that asked.
Encerra(s) == invalidas' = invalidas \cup ({s} \ {Nenhuma})

\* sitesHandler: a new site, for a credential of global reach.
Cria(s, u) ==
  /\ u \in Alcanca(s) /\ situacao[u] = "por criar"
  /\ situacao' = [situacao EXCEPT ![u] = "existe"]

Responde(v) ==
  /\ pedidos[v] # Livre /\ Aceito(v) /\ pedidos[v].tipo # "criacao"
  /\ pedidos' = [pedidos EXCEPT ![v] = Livre]
  /\ IF pedidos[v].tipo = "sites" THEN RecebeSites(Lista(pedidos[v].sessao)) ELSE UNCHANGED <<sites, siteId, sitesError>>
  /\ IF pedidos[v].tipo = "saida" THEN Encerra(pedidos[v].sessao) ELSE UNCHANGED invalidas
  /\ UNCHANGED <<sessao, guardada, usadas, vencidas, modoToken, entrando, rota, situacao, eventos>>

\* createSiteInline: the list is asked for again, and the new site chosen without waiting
\* for it, whoever is signed in by then.
CreateSiteInline(v) ==
  /\ pedidos[v] # Livre /\ Aceito(v) /\ pedidos[v].tipo = "criacao"
  /\ \E u \in Unidades : Cria(pedidos[v].sessao, u) /\ siteId' = u
  /\ guardada' = LoadSession
  /\ pedidos' = [pedidos EXCEPT ![v] = [tipo |-> "sites", sessao |-> LoadSession]]
  /\ UNCHANGED <<sessao, usadas, vencidas, invalidas, modoToken, entrando,
                 rota, sites, sitesError, eventos>>

\* The server refuses the site: a code that exists, or an account of no global access.
CriacaoNegada(v) ==
  /\ pedidos[v] # Livre /\ Aceito(v) /\ pedidos[v].tipo = "criacao"
  /\ pedidos' = [pedidos EXCEPT ![v] = Livre]
  /\ UNCHANGED <<conta, rota, unidades, eventos>>

\* Mutant: the session stays in localStorage.
Expira_SoNaTela ==
  /\ guardada' = guardada /\ sessao' = Nenhuma
  /\ Assenta(Nenhuma, modoToken, caminho, painel, destino)

\* Mutant: nobody listens to the refusal.
Expira_Nada == UNCHANGED <<guardada, sessao, rota>>

\* handleUnauthorized and onExpired: only for a request that carried a session, whichever.
Expira ==
  /\ guardada' = Nenhuma /\ sessao' = Nenhuma
  /\ Assenta(Nenhuma, modoToken, caminho, painel, destino)

Recusa(v) ==
  /\ pedidos[v] # Livre /\ ~Aceito(v)
  /\ pedidos' = [pedidos EXCEPT ![v] = Livre]
  /\ IF pedidos[v].sessao # Nenhuma THEN Expira ELSE UNCHANGED <<guardada, sessao, rota>>
  /\ sitesError' = (sitesError \/ pedidos[v].tipo = "sites")
  /\ UNCHANGED <<usadas, vencidas, invalidas, modoToken, entrando, sites, siteId, situacao, eventos>>

\* A request or its answer is lost: the server may have done what was asked.
FalhaDeRede(v) ==
  /\ pedidos[v] # Livre /\ Evento
  /\ pedidos' = [pedidos EXCEPT ![v] = Livre]
  /\ sitesError' = (sitesError \/ pedidos[v].tipo = "sites")
  /\ \/ UNCHANGED <<invalidas, situacao>>
     \/ pedidos[v].tipo = "saida" /\ Encerra(pedidos[v].sessao) /\ UNCHANGED situacao
     \/ pedidos[v].tipo = "criacao" /\ (\E u \in Unidades : Cria(pedidos[v].sessao, u)) /\ UNCHANGED invalidas
  /\ UNCHANGED <<sessao, guardada, usadas, vencidas, modoToken, entrando, rota, sites, siteId>>

-----------------------------------------------------------------------------
\* useRota: a link, the browser's back and forward, goBack.
Navega ==
  /\ Evento
  /\ \E c \in Caminhos \ {caminho} : Assenta(sessao, modoToken, c, painel, destino)
  /\ UNCHANGED <<conta, unidades, pedidos>>

TrocarPainel ==
  /\ Dentro(sessao, modoToken) /\ Evento
  /\ \E p \in PANEL_IDS \ {painel} : Assenta(sessao, modoToken, Primeira[p], p, destino)
  /\ UNCHANGED <<conta, unidades, pedidos>>

EscolheUnidade ==
  /\ Dentro(sessao, modoToken)
  /\ \E u \in (sites \cup {Todas}) \ {siteId} : siteId' = u
  /\ UNCHANGED <<conta, rota, sites, sitesError, situacao, pedidos, eventos>>

UnidadeSai ==
  /\ Evento
  /\ \E u \in Unidades : situacao[u] = "existe" /\ situacao' = [situacao EXCEPT ![u] = "removida"]
  /\ UNCHANGED <<conta, rota, sites, siteId, sitesError, pedidos>>

\* Time passes for a session in use; nobody looks at the clock for the others.
Vence ==
  /\ \E s \in {sessao, guardada} \ (vencidas \cup {Nenhuma}) : vencidas' = vencidas \cup {s}
  /\ UNCHANGED <<sessao, guardada, usadas, invalidas, modoToken, entrando,
                 rota, unidades, pedidos, eventos>>

Invalida ==
  /\ \E s \in usadas \ invalidas : invalidas' = invalidas \cup {s}
  /\ UNCHANGED <<sessao, guardada, usadas, vencidas, modoToken, entrando,
                 rota, unidades, pedidos, eventos>>

Next ==
  \/ Envia \/ HandleLogin \/ LoginRecusado \/ EntrarComToken \/ HandleLogout
  \/ \E v \in Vagas : \/ Pede(v) \/ PedeUnidade(v) \/ Responde(v) \/ CreateSiteInline(v)
                      \/ CriacaoNegada(v) \/ Recusa(v) \/ FalhaDeRede(v)
  \/ Navega \/ TrocarPainel \/ EscolheUnidade \/ UnidadeSai \/ Vence \/ Invalida

Spec == Init /\ [][Next]_vars

\* Every view on screen polls, and every request is answered.
Atendida(v) == Responde(v) \/ CreateSiteInline(v) \/ CriacaoNegada(v)
Justica == \A v \in Vagas : WF_vars(Pede(v)) /\ WF_vars(Atendida(v)) /\ WF_vars(Recusa(v))
FairSpec == Spec /\ Justica

-----------------------------------------------------------------------------
\* The path, the panel and the accesses agree: a path of the panel only when signed in,
\* the tab on screen belongs to the panel on screen, and an admin tab only to a global
\* admin, whoever left the destination the login returns to (rotas.test.tsx, 'o caminho
\* decide o painel, sem a aba discordar da URL').
AbaCoerente ==
  /\ Dentro(sessao, modoToken) <=> caminho # Login
  /\ EffectiveTab \in PANELS[painel]
  /\ EffectiveTab \in ADMIN_TABS => Administra(sessao)

\* The session in React is the one in localStorage, unless that one expired on the clock
\* of the panel: late answers, refusals and logins never leave one without the other.
SessaoGuardada == sessao = guardada \/ (guardada = Nenhuma /\ sessao \in vencidas)

\* A chosen site that the selector does not list (one just created, FloorPlanView) is
\* passing: the list is being read again, or its reading failed and the sidebar says so.
UnidadeListada ==
  siteId \in sites \cup {Todas} \/ sitesError \/ \E v \in Vagas : pedidos[v].tipo = "sites"

\* The frame agrees with itself whatever the order of the answers, refusals and logins.
QuadroCoerente == TypeOK /\ AbaCoerente /\ SessaoGuardada /\ UnidadeListada

\* A session the server refuses ends at the login, while its own clock has not run out.
RevogadaVoltaAoLogin ==
  \A s \in Sessoes : (sessao = s /\ s \in invalidas) ~> (sessao # s \/ s \in vencidas)
=============================================================================
