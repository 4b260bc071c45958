-------------------------- MODULE PanelSessionProofs --------------------------
(***************************************************************************)
(* Theorems of PanelSession, for any logins, sites and requests in flight. *)
(*                                                                         *)
(* QuadroCoerente is inductive as it stands.  Its first part is a matter   *)
(* of what the render settles on (Assentado), the rest of what each answer *)
(* and each click does to the session and to the list of sites.            *)
(***************************************************************************)
EXTENDS PanelSession, TLAPS

Quem == Sessoes \cup {Nenhuma}

\* The tab on screen for a session, a path and a panel.
Aba(s, c, p) == IF AbaValida(c, s) THEN c ELSE Primeira[p]

Coerente(s, token, c, p) ==
  /\ Dentro(s, token) <=> c # Login
  /\ Aba(s, c, p) \in PANELS[p]
  /\ Aba(s, c, p) \in ADMIN_TABS => Administra(s)

-----------------------------------------------------------------------------
(* The render.                                                              *)

\* The panels, their tabs and their first ones.
LEMMA PaineisTipo ==
  /\ PANEL_IDS = {"dev", "suporte"}
  /\ Abas = {"dashboard", "alertas", "servers", "stations"}
  /\ \A p \in PANEL_IDS : /\ Primeira[p] \in PANELS[p] /\ PANELS[p] \subseteq Abas
                          /\ Primeira[p] \in Abas \ ADMIN_TABS
  /\ Login \notin Abas /\ Detalhe \notin Abas /\ Detalhe # Login
  /\ Abas \subseteq Caminhos /\ Login \in Caminhos /\ Detalhe \in Caminhos
  <1>1. PANEL_IDS = {"dev", "suporte"}
    BY DEF PANEL_IDS, PANELS
  <1>2. /\ PANELS["dev"] = {"dashboard", "alertas", "servers"}
        /\ PANELS["suporte"] = {"stations", "alertas"}
        /\ Primeira["dev"] = "dashboard" /\ Primeira["suporte"] = "stations"
    BY DEF PANELS, Primeira
  <1>3. Abas = {"dashboard", "alertas", "servers", "stations"}
    BY <1>1, <1>2 DEF Abas
  <1>4. ASSUME NEW p \in PANEL_IDS
        PROVE  /\ Primeira[p] \in PANELS[p] /\ PANELS[p] \subseteq Abas
               /\ Primeira[p] \in Abas \ ADMIN_TABS
    <2>1. CASE p = "dev"
      BY <1>2, <1>3, <2>1 DEF ADMIN_TABS
    <2>2. CASE p = "suporte"
      BY <1>2, <1>3, <2>2 DEF ADMIN_TABS
    <2>. QED  BY <1>1, <2>1, <2>2
  <1>5. Login \notin Abas /\ Detalhe \notin Abas /\ Detalhe # Login
    BY <1>3 DEF Login, Detalhe
  <1>6. Abas \subseteq Caminhos /\ Login \in Caminhos /\ Detalhe \in Caminhos
    BY DEF Caminhos
  <1>. QED  BY <1>1, <1>3, <1>4, <1>5, <1>6

\* A tab of either panel brings a panel that has it.
LEMMA PainelTemAba ==
  ASSUME NEW aba \in Abas, NEW p \in PANEL_IDS
  PROVE  PainelDaAba(aba, p) \in PANEL_IDS /\ aba \in PANELS[PainelDaAba(aba, p)]
  <1>1. \E q \in PANEL_IDS : aba \in PANELS[q]
    BY DEF Abas
  <1>. QED  BY <1>1 DEF PainelDaAba

\* Wherever the user was going, the render settles on a path, a panel and a tab that
\* agree with the session.
LEMMA AssentadoCoerente ==
  ASSUME NEW s \in Quem, NEW token \in BOOLEAN, NEW c \in Caminhos, NEW p \in PANEL_IDS,
         NEW d \in Caminhos \cup {Nenhuma}
  PROVE  LET r == Assentado(s, token, c, p, d) IN
         /\ r.caminho \in Caminhos /\ r.painel \in PANEL_IDS /\ r.destino \in Caminhos \cup {Nenhuma}
         /\ Coerente(s, token, r.caminho, r.painel)
  <1>. DEFINE novo == IF AbaValida(c, s) THEN PainelDaAba(c, p) ELSE p
              r == Assentado(s, token, c, p, d)
  <1>1. novo \in PANEL_IDS /\ (AbaValida(c, s) => c \in PANELS[novo])
    BY PainelTemAba DEF AbaValida
  <1>2. /\ Primeira[novo] \in PANELS[novo] /\ Primeira[novo] \in Abas \ ADMIN_TABS
        /\ AbaValida(Primeira[novo], s) /\ ~AbaValida(Login, s) /\ ~AbaValida(Detalhe, s)
    BY <1>1, PaineisTipo DEF AbaValida
  <1>. HIDE DEF novo
  <1>3. CASE ~Dentro(s, token)
    <2>1. r = [caminho |-> Login, painel |-> novo, destino |-> IF c = Login THEN d ELSE c]
      BY <1>3 DEF Assentado, novo
    <2>. QED  BY <1>1, <1>2, <1>3, <2>1, PaineisTipo DEF Coerente, Aba
  <1>4. CASE Dentro(s, token)
    <2>1. r = [caminho |-> IF AbaValida(c, s) \/ c = Detalhe THEN c ELSE Primeira[novo],
               painel |-> novo, destino |-> d]
      BY <1>4 DEF Assentado, novo
    <2>2. CASE AbaValida(c, s)
      BY <1>1, <1>4, <2>1, <2>2, PaineisTipo DEF Coerente, Aba, AbaValida
    <2>3. CASE ~AbaValida(c, s) /\ c = Detalhe
      BY <1>1, <1>2, <1>4, <2>1, <2>3, PaineisTipo DEF Coerente, Aba
    <2>4. CASE ~AbaValida(c, s) /\ c # Detalhe
      BY <1>1, <1>2, <1>4, <2>1, <2>4, PaineisTipo DEF Coerente, Aba
    <2>. QED  BY <2>2, <2>3, <2>4
  <1>. QED  BY <1>3, <1>4

\* AbaCoerente, of the state.
LEMMA AbaCoerenteDef ==
  /\ AbaCoerente <=> Coerente(sessao, modoToken, caminho, painel)
  /\ AbaCoerente' <=> Coerente(sessao', modoToken', caminho', painel')
  BY DEF AbaCoerente, Coerente, Aba, EffectiveTab, AbaValida, Dentro, Administra

\* What a step that renders leaves on screen.
LEMMA AssentaCoerente ==
  ASSUME NEW c \in Caminhos, NEW d \in Caminhos \cup {Nenhuma}, NEW p \in PANEL_IDS,
         sessao' \in Quem, modoToken' \in BOOLEAN,
         Assenta(sessao', modoToken', c, p, d)
  PROVE  /\ caminho' \in Caminhos /\ painel' \in PANEL_IDS /\ destino' \in Caminhos \cup {Nenhuma}
         /\ AbaCoerente'
  BY AssentadoCoerente, AbaCoerenteDef DEF Assenta

\* A step that changes neither the session nor the path leaves them in agreement.
LEMMA AbaFica ==
  ASSUME AbaCoerente, UNCHANGED <<sessao, modoToken, rota>>
  PROVE  AbaCoerente'
  BY DEF AbaCoerente, EffectiveTab, AbaValida, Dentro, Administra, rota

-----------------------------------------------------------------------------
(* The steps.                                                               *)

\* A request takes a free slot.
LEMMA PedidoTipo ==
  ASSUME TypeOK, NEW v \in Vagas, NEW tipo \in {"leitura", "sites", "saida", "criacao"}, NEW s \in Quem,
         Pedir(v, tipo, s)
  PROVE  /\ pedidos' \in [Vagas -> Pedido \cup {Livre}]
         /\ pedidos'[v].tipo = tipo /\ \A w \in Vagas \ {v} : pedidos'[w] = pedidos[w]
         /\ \A w \in Vagas : pedidos[w].tipo = "sites" => pedidos'[w].tipo = "sites"
  <1>1. [tipo |-> tipo, sessao |-> s] \in Pedido
    BY DEF Pedido, Quem
  <1>2. pedidos[v].tipo = "livre"
    BY DEF Pedir, Livre
  <1>. QED  BY <1>1, <1>2 DEF TypeOK, Pedir

\* A request that ends leaves its slot; it carried a session or none.
LEMMA RespostaTipo ==
  ASSUME TypeOK, NEW v \in Vagas, pedidos[v] # Livre, pedidos' = [pedidos EXCEPT ![v] = Livre]
  PROVE  pedidos' \in [Vagas -> Pedido \cup {Livre}] /\ pedidos[v].sessao \in Quem
  <1>1. pedidos[v] \in Pedido
    BY DEF TypeOK
  <1>2. pedidos[v].sessao \in Quem
    BY <1>1 DEF Pedido, Quem
  <1>. QED  BY <1>2 DEF TypeOK

\* An event is counted within its bound.
LEMMA EventoTipo ==
  ASSUME TypeOK
  PROVE  /\ 0 \in 0..MaxEventos
         /\ eventos < MaxEventos /\ eventos' = eventos + 1 => eventos' \in 0..MaxEventos
  <1>1. MaxEventos \in Nat
    BY SessoesOk
  <1>2. eventos \in 0..MaxEventos
    BY DEF TypeOK
  <1>. QED  BY <1>1, <1>2

\* A site that is chosen and not listed stays so while the lists asked for, the choice and
\* the mark of the sidebar stay.
LEMMA UnidadeFica ==
  ASSUME UnidadeListada, UNCHANGED <<sites, siteId>>, sitesError => sitesError',
         \A v \in Vagas : pedidos[v].tipo = "sites" => pedidos'[v].tipo = "sites" \/ sitesError'
  PROVE  UnidadeListada'
  BY DEF UnidadeListada

\* What whoever reads the session leaves in localStorage.
LEMMA GuardadaLida ==
  ASSUME TypeOK, SessaoGuardada
  PROVE  /\ LoadSession \in Quem
         /\ sessao = LoadSession \/ (LoadSession = Nenhuma /\ sessao \in vencidas)
         /\ sessao = Nenhuma => LoadSession = Nenhuma
  BY SessoesOk DEF TypeOK, SessaoGuardada, LoadSession, Quem

\* The sites listed for a session.
LEMMA ListaTipo ==
  ASSUME NEW s \in Quem
  PROVE  Lista(s) \subseteq Unidades
  BY SessoesOk DEF Alcanca, Lista, Quem

\* The frame as it is first drawn.
LEMMA QuadroInicia ==
  ASSUME Init
  PROVE  QuadroCoerente
  <1>1. sessao \in Quem /\ guardada = sessao /\ modoToken = FALSE
    BY DEF Init, Quem
  <1>2. PICK c \in Caminhos, p \in PANEL_IDS :
          LET r == Assentado(sessao, FALSE, c, p, Nenhuma)
          IN caminho = r.caminho /\ painel = r.painel /\ destino = r.destino
    BY DEF Init
  <1>3. /\ caminho \in Caminhos /\ painel \in PANEL_IDS /\ destino \in Caminhos \cup {Nenhuma}
        /\ AbaCoerente
    BY <1>1, <1>2, AssentadoCoerente, AbaCoerenteDef
  <1>4. pedidos \in [Vagas -> Pedido \cup {Livre}]
    <2>1. PICK v \in Vagas : pedidos = [w \in Vagas |->
            IF w = v /\ sessao # Nenhuma THEN [tipo |-> "sites", sessao |-> sessao] ELSE Livre]
      BY DEF Init
    <2>2. [tipo |-> "sites", sessao |-> sessao] \in Pedido
      BY <1>1 DEF Pedido, Quem
    <2>. QED  BY <2>1, <2>2
  <1>5. TypeOK
    <2>1. /\ usadas \subseteq Sessoes /\ invalidas \subseteq Sessoes /\ vencidas \subseteq Sessoes
          /\ {sessao, guardada} \subseteq Sessoes \cup {Nenhuma}
      BY <1>1 DEF Init, Quem
    <2>2. /\ modoToken = FALSE /\ entrando = FALSE /\ sitesError = FALSE
          /\ sites = {} /\ siteId = Todas /\ eventos = 0
      BY DEF Init
    <2>4. eventos \in 0..MaxEventos
      <3>1. MaxEventos \in Nat
        BY SessoesOk
      <3>. QED  BY <2>2, <3>1
    <2>3. situacao \in [Unidades -> {"por criar", "existe", "removida"}]
      BY DEF Init
    <2>. QED  BY <1>3, <1>4, <2>1, <2>2, <2>3, <2>4 DEF TypeOK
  <1>6. SessaoGuardada /\ UnidadeListada
    BY <1>1 DEF Init, SessaoGuardada, UnidadeListada
  <1>. QED  BY <1>3, <1>5, <1>6 DEF QuadroCoerente

\* Signing in, with an account or with the token of the build.
LEMMA EntradaMantem ==
  ASSUME QuadroCoerente, Envia \/ HandleLogin \/ LoginRecusado \/ EntrarComToken
  PROVE  QuadroCoerente'
  <1>. USE DEF QuadroCoerente
  <1>1. CASE Envia \/ LoginRecusado
    <2>1. UNCHANGED <<sessao, guardada, usadas, vencidas, invalidas, modoToken,
                      rota, unidades, pedidos, eventos>> /\ entrando' \in BOOLEAN
      BY <1>1 DEF Envia, LoginRecusado
    <2>2. TypeOK'
      BY <2>1 DEF TypeOK, rota, unidades
    <2>3. SessaoGuardada' /\ UnidadeListada'
      BY <2>1 DEF SessaoGuardada, UnidadeListada, unidades
    <2>. QED  BY <2>1, <2>2, <2>3, AbaFica
  <1>2. CASE HandleLogin
    <2>1. PICK s \in Sessoes \ usadas, v \in Vagas :
            /\ usadas' = usadas \cup {s} /\ guardada' = s /\ sessao' = s
            /\ Assenta(s, modoToken, IF destino = Nenhuma THEN Primeira[painel] ELSE destino, painel, Nenhuma)
            /\ Pedir(v, "sites", s)
      BY <1>2 DEF HandleLogin
    <2>2. /\ entrando' = FALSE /\ siteId' = Todas
          /\ UNCHANGED <<vencidas, invalidas, modoToken, sites, sitesError, situacao, eventos>>
      BY <1>2 DEF HandleLogin
    <2>3. s \in Quem /\ painel \in PANEL_IDS /\ modoToken \in BOOLEAN
      BY DEF Quem, TypeOK
    <2>4. (IF destino = Nenhuma THEN Primeira[painel] ELSE destino) \in Caminhos
      BY PaineisTipo DEF TypeOK
    <2>5. /\ caminho' \in Caminhos /\ painel' \in PANEL_IDS /\ destino' \in Caminhos \cup {Nenhuma}
          /\ AbaCoerente'
      BY <2>1, <2>2, <2>3, <2>4, AssentaCoerente
    <2>6. pedidos' \in [Vagas -> Pedido \cup {Livre}]
      BY <2>1, <2>3, PedidoTipo
    <2>7. TypeOK'
      BY <2>1, <2>2, <2>5, <2>6 DEF TypeOK
    <2>. QED  BY <2>1, <2>2, <2>5, <2>7 DEF SessaoGuardada, UnidadeListada
  <1>3. CASE EntrarComToken
    <2>1. PICK v \in Vagas : Pedir(v, "sites", LoadSession)
      BY <1>3 DEF EntrarComToken
    <2>2. /\ modoToken' = TRUE /\ guardada' = LoadSession
          /\ Assenta(sessao, TRUE, IF destino = Nenhuma THEN Primeira[painel] ELSE destino, painel, Nenhuma)
          /\ UNCHANGED <<sessao, usadas, vencidas, invalidas, entrando, unidades, eventos>>
      BY <1>3 DEF EntrarComToken
    <2>3. (IF destino = Nenhuma THEN Primeira[painel] ELSE destino) \in Caminhos
      BY PaineisTipo DEF TypeOK
    <2>4. sessao' \in Quem /\ painel \in PANEL_IDS
      BY <2>2 DEF TypeOK, Quem
    <2>5. /\ caminho' \in Caminhos /\ painel' \in PANEL_IDS /\ destino' \in Caminhos \cup {Nenhuma}
          /\ AbaCoerente'
      BY <2>2, <2>3, <2>4, AssentaCoerente
    <2>6. /\ LoadSession \in Quem /\ pedidos' \in [Vagas -> Pedido \cup {Livre}]
          /\ \A w \in Vagas : pedidos[w].tipo = "sites" => pedidos'[w].tipo = "sites"
      BY <2>1, PedidoTipo, GuardadaLida
    <2>7. TypeOK'
      BY <2>2, <2>4, <2>5, <2>6 DEF TypeOK, Quem, unidades
    <2>8. SessaoGuardada' /\ UnidadeListada'
      BY <2>2, <2>6, GuardadaLida, UnidadeFica DEF SessaoGuardada, unidades
    <2>. QED  BY <2>5, <2>7, <2>8
  <1>. QED  BY <1>1, <1>2, <1>3

\* Signing out.
LEMMA SaidaMantem ==
  ASSUME QuadroCoerente, HandleLogout
  PROVE  QuadroCoerente'
  <1>. USE DEF QuadroCoerente
  <1>1. PICK v \in Vagas : Pedir(v, "saida", LoadSession)
    BY DEF HandleLogout
  <1>2. /\ guardada' = Nenhuma /\ sessao' = Nenhuma /\ modoToken' = FALSE
        /\ siteId' = Todas /\ sites' = {}
        /\ Assenta(Nenhuma, FALSE, Login, painel, destino)
        /\ UNCHANGED <<usadas, vencidas, invalidas, entrando, sitesError, situacao, eventos>>
    BY DEF HandleLogout
  <1>3. /\ caminho' \in Caminhos /\ painel' \in PANEL_IDS /\ destino' \in Caminhos \cup {Nenhuma}
        /\ AbaCoerente'
    BY <1>2, AssentaCoerente, PaineisTipo DEF TypeOK, Quem
  <1>4. pedidos' \in [Vagas -> Pedido \cup {Livre}]
    BY <1>1, PedidoTipo, GuardadaLida
  <1>5. TypeOK'
    BY <1>2, <1>3, <1>4 DEF TypeOK
  <1>. QED  BY <1>2, <1>3, <1>5 DEF SessaoGuardada, UnidadeListada

\* A request that leaves, for a view or for a new site.
LEMMA PedidoMantem ==
  ASSUME QuadroCoerente, NEW v \in Vagas, Pede(v) \/ PedeUnidade(v)
  PROVE  QuadroCoerente'
  <1>. USE DEF QuadroCoerente
  <1>1. \E tipo \in {"leitura", "sites", "saida", "criacao"} : Pedir(v, tipo, LoadSession)
    BY DEF Pede, PedeUnidade
  <1>2. /\ guardada' = LoadSession /\ eventos' \in 0..MaxEventos
        /\ UNCHANGED <<sessao, usadas, vencidas, invalidas, modoToken, entrando, rota, unidades>>
    BY EventoTipo DEF Pede, PedeUnidade, Evento, TypeOK
  <1>3. /\ LoadSession \in Quem /\ pedidos' \in [Vagas -> Pedido \cup {Livre}]
        /\ \A w \in Vagas : pedidos[w].tipo = "sites" => pedidos'[w].tipo = "sites"
    BY <1>1, PedidoTipo, GuardadaLida
  <1>4. TypeOK'
    BY <1>2, <1>3 DEF TypeOK, Quem, rota, unidades
  <1>5. SessaoGuardada' /\ UnidadeListada'
    BY <1>2, <1>3, GuardadaLida, UnidadeFica DEF SessaoGuardada, unidades
  <1>. QED  BY <1>2, <1>4, <1>5, AbaFica

\* The server ends a session, or makes a site.
LEMMA EncerraTipo ==
  ASSUME TypeOK, NEW s \in Quem, Encerra(s)
  PROVE  invalidas' \subseteq Sessoes
  BY DEF TypeOK, Encerra, Quem

LEMMA CriaTipo ==
  ASSUME TypeOK, NEW s, NEW u \in Unidades, Cria(s, u)
  PROVE  situacao' \in [Unidades -> {"por criar", "existe", "removida"}]
  BY DEF TypeOK, Cria

\* A request that is answered: a reading, the sites, the end of the session.
LEMMA RespostaMantem ==
  ASSUME QuadroCoerente, NEW v \in Vagas, Responde(v)
  PROVE  QuadroCoerente'
  <1>. USE DEF QuadroCoerente
  <1>1. /\ pedidos[v] # Livre /\ pedidos' = [pedidos EXCEPT ![v] = Livre]
        /\ UNCHANGED <<sessao, guardada, usadas, vencidas, modoToken, entrando, rota, situacao, eventos>>
        /\ \/ pedidos[v].tipo = "sites" /\ RecebeSites(Lista(pedidos[v].sessao))
           \/ pedidos[v].tipo # "sites" /\ UNCHANGED <<sites, siteId, sitesError>>
        /\ Encerra(pedidos[v].sessao) \/ UNCHANGED invalidas
    BY DEF Responde
  <1>2. pedidos[v].sessao \in Quem /\ pedidos' \in [Vagas -> Pedido \cup {Livre}]
    BY <1>1, RespostaTipo
  <1>3. invalidas' \subseteq Sessoes
    BY <1>1, <1>2, EncerraTipo DEF TypeOK
  <1>4. /\ sites' \subseteq Unidades /\ siteId' \in Unidades \cup {Todas} /\ sitesError' \in BOOLEAN
        /\ UnidadeListada'
    <2>1. CASE pedidos[v].tipo = "sites" /\ RecebeSites(Lista(pedidos[v].sessao))
      BY <1>2, <2>1, ListaTipo DEF TypeOK, RecebeSites, UnidadeListada
    <2>2. CASE pedidos[v].tipo # "sites" /\ UNCHANGED <<sites, siteId, sitesError>>
      <3>1. \A w \in Vagas : pedidos[w].tipo = "sites" => pedidos'[w].tipo = "sites"
        BY <1>1, <2>2 DEF TypeOK
      <3>. QED  BY <2>2, <3>1, UnidadeFica DEF TypeOK
    <2>. QED  BY <1>1, <2>1, <2>2
  <1>5. TypeOK'
    BY <1>1, <1>2, <1>3, <1>4 DEF TypeOK, rota
  <1>. QED  BY <1>1, <1>4, <1>5, AbaFica DEF SessaoGuardada

\* A new site, chosen before its list arrives, and one that is refused.
LEMMA CriacaoMantem ==
  ASSUME QuadroCoerente, NEW v \in Vagas, CreateSiteInline(v) \/ CriacaoNegada(v)
  PROVE  QuadroCoerente'
  <1>. USE DEF QuadroCoerente
  <1>1. CASE CreateSiteInline(v)
    <2>1. PICK u \in Unidades : Cria(pedidos[v].sessao, u) /\ siteId' = u
      BY <1>1 DEF CreateSiteInline
    <2>2. /\ guardada' = LoadSession
          /\ pedidos' = [pedidos EXCEPT ![v] = [tipo |-> "sites", sessao |-> LoadSession]]
          /\ UNCHANGED <<sessao, usadas, vencidas, invalidas, modoToken, entrando,
                         rota, sites, sitesError, eventos>>
      BY <1>1 DEF CreateSiteInline
    <2>3. LoadSession \in Quem /\ [tipo |-> "sites", sessao |-> LoadSession] \in Pedido
      BY GuardadaLida DEF Pedido, Quem
    <2>4. pedidos' \in [Vagas -> Pedido \cup {Livre}] /\ pedidos'[v].tipo = "sites"
      BY <2>2, <2>3 DEF TypeOK
    <2>5. TypeOK'
      BY <2>1, <2>2, <2>3, <2>4, CriaTipo DEF TypeOK, Quem, rota
    <2>6. SessaoGuardada' /\ UnidadeListada'
      BY <2>2, <2>4, GuardadaLida DEF SessaoGuardada, UnidadeListada
    <2>. QED  BY <2>2, <2>5, <2>6, AbaFica
  <1>2. CASE CriacaoNegada(v)
    <2>1. /\ pedidos[v] # Livre /\ pedidos[v].tipo = "criacao" /\ pedidos' = [pedidos EXCEPT ![v] = Livre]
          /\ UNCHANGED <<conta, rota, unidades, eventos>>
      BY <1>2 DEF CriacaoNegada
    <2>2. pedidos' \in [Vagas -> Pedido \cup {Livre}]
      BY <2>1, RespostaTipo
    <2>3. \A w \in Vagas : pedidos[w].tipo = "sites" => pedidos'[w].tipo = "sites"
      BY <2>1 DEF TypeOK
    <2>4. TypeOK'
      BY <2>1, <2>2 DEF TypeOK, conta, rota, unidades
    <2>. QED  BY <2>1, <2>3, <2>4, AbaFica, UnidadeFica DEF SessaoGuardada, conta, unidades
  <1>. QED  BY <1>1, <1>2

\* A request that is refused and one that is lost.
LEMMA RecusaMantem ==
  ASSUME QuadroCoerente, NEW v \in Vagas, Recusa(v) \/ FalhaDeRede(v)
  PROVE  QuadroCoerente'
  <1>. USE DEF QuadroCoerente
  <1>1. /\ pedidos[v] # Livre /\ pedidos' = [pedidos EXCEPT ![v] = Livre]
        /\ sitesError' = (sitesError \/ pedidos[v].tipo = "sites")
        /\ UNCHANGED <<usadas, vencidas, modoToken, entrando, sites, siteId>>
    BY DEF Recusa, FalhaDeRede
  <1>2. pedidos[v].sessao \in Quem /\ pedidos' \in [Vagas -> Pedido \cup {Livre}]
    BY <1>1, RespostaTipo
  <1>3. sitesError' \in BOOLEAN
    BY <1>1
  <1>4. UnidadeListada'
    <2>1. \A w \in Vagas : pedidos[w].tipo = "sites" => pedidos'[w].tipo = "sites" \/ sitesError'
      BY <1>1 DEF TypeOK
    <2>. QED  BY <1>1, <2>1, UnidadeFica
  <1>5. CASE Recusa(v)
    <2>1. /\ Expira \/ UNCHANGED <<guardada, sessao, rota>>
          /\ UNCHANGED <<invalidas, situacao, eventos>>
      BY <1>5 DEF Recusa
    <2>2. /\ caminho' \in Caminhos /\ painel' \in PANEL_IDS /\ destino' \in Caminhos \cup {Nenhuma}
          /\ AbaCoerente' /\ SessaoGuardada' /\ {sessao', guardada'} \subseteq Quem
      <3>1. CASE Expira
        BY <1>1, <3>1, AssentaCoerente DEF Expira, TypeOK, Quem, SessaoGuardada
      <3>2. CASE UNCHANGED <<guardada, sessao, rota>>
        BY <1>1, <3>2, AbaFica DEF TypeOK, Quem, SessaoGuardada, rota
      <3>. QED  BY <2>1, <3>1, <3>2
    <2>3. TypeOK'
      BY <1>1, <1>2, <1>3, <2>1, <2>2 DEF TypeOK, Quem
    <2>. QED  BY <1>4, <2>2, <2>3
  <1>6. CASE FalhaDeRede(v)
    <2>1. /\ eventos < MaxEventos /\ eventos' = eventos + 1
          /\ UNCHANGED <<sessao, guardada, rota>>
          /\ \/ UNCHANGED <<invalidas, situacao>>
             \/ Encerra(pedidos[v].sessao) /\ UNCHANGED situacao
             \/ (\E u \in Unidades : Cria(pedidos[v].sessao, u)) /\ UNCHANGED invalidas
      BY <1>6 DEF FalhaDeRede, Evento
    <2>2. eventos' \in 0..MaxEventos
      BY <2>1, EventoTipo
    <2>3. invalidas' \subseteq Sessoes /\ situacao' \in [Unidades -> {"por criar", "existe", "removida"}]
      BY <1>2, <2>1, EncerraTipo, CriaTipo DEF TypeOK
    <2>4. TypeOK'
      BY <1>1, <1>2, <1>3, <2>1, <2>2, <2>3 DEF TypeOK, rota
    <2>. QED  BY <1>1, <1>4, <2>1, <2>4, AbaFica DEF SessaoGuardada
  <1>. QED  BY <1>5, <1>6

\* The browser, the switch of panel and the selector of sites.
LEMMA NavegacaoMantem ==
  ASSUME QuadroCoerente, Navega \/ TrocarPainel \/ EscolheUnidade
  PROVE  QuadroCoerente'
  <1>. USE DEF QuadroCoerente
  <1>1. CASE Navega \/ TrocarPainel
    <2>1. /\ eventos < MaxEventos /\ eventos' = eventos + 1 /\ UNCHANGED <<conta, unidades, pedidos>>
          /\ \E c \in Caminhos, p \in PANEL_IDS : Assenta(sessao, modoToken, c, p, destino)
      BY <1>1, PaineisTipo DEF Navega, TrocarPainel, Evento, TypeOK
    <2>2. sessao' = sessao /\ modoToken' = modoToken /\ sessao' \in Quem /\ modoToken' \in BOOLEAN
      BY <2>1 DEF conta, TypeOK, Quem
    <2>3. /\ caminho' \in Caminhos /\ painel' \in PANEL_IDS /\ destino' \in Caminhos \cup {Nenhuma}
          /\ AbaCoerente'
      BY <2>1, <2>2, AssentaCoerente DEF TypeOK
    <2>4. eventos' \in 0..MaxEventos
      BY <2>1, EventoTipo
    <2>5. TypeOK'
      BY <2>1, <2>3, <2>4 DEF TypeOK, conta, unidades
    <2>. QED  BY <2>1, <2>3, <2>5 DEF SessaoGuardada, UnidadeListada, conta, unidades
  <1>2. CASE EscolheUnidade
    <2>1. siteId' \in sites \cup {Todas} /\ UNCHANGED <<conta, rota, sites, sitesError, situacao, pedidos, eventos>>
      BY <1>2 DEF EscolheUnidade
    <2>2. TypeOK'
      BY <2>1 DEF TypeOK, conta, rota
    <2>. QED  BY <2>1, <2>2, AbaFica DEF SessaoGuardada, UnidadeListada, conta
  <1>. QED  BY <1>1, <1>2

\* A site that is removed, and sessions that run out on either clock.
LEMMA TempoMantem ==
  ASSUME QuadroCoerente, UnidadeSai \/ Vence \/ Invalida
  PROVE  QuadroCoerente'
  <1>. USE DEF QuadroCoerente
  <1>1. CASE UnidadeSai
    <2>1. /\ eventos < MaxEventos /\ eventos' = eventos + 1
          /\ UNCHANGED <<conta, rota, sites, siteId, sitesError, pedidos>>
          /\ situacao' \in [Unidades -> {"por criar", "existe", "removida"}]
      BY <1>1 DEF UnidadeSai, Evento, TypeOK
    <2>2. eventos' \in 0..MaxEventos
      BY <2>1, EventoTipo
    <2>3. TypeOK'
      BY <2>1, <2>2 DEF TypeOK, conta, rota
    <2>. QED  BY <2>1, <2>3, AbaFica DEF SessaoGuardada, UnidadeListada, conta
  <1>2. CASE Vence \/ Invalida
    <2>1. /\ UNCHANGED <<sessao, guardada, usadas, modoToken, entrando,
                         rota, unidades, pedidos, eventos>>
          /\ vencidas \subseteq vencidas' /\ vencidas' \subseteq Sessoes /\ invalidas' \subseteq Sessoes
      BY <1>2 DEF Vence, Invalida, TypeOK
    <2>2. TypeOK'
      BY <2>1 DEF TypeOK, rota, unidades
    <2>. QED  BY <2>1, <2>2, AbaFica DEF SessaoGuardada, UnidadeListada, unidades
  <1>. QED  BY <1>1, <1>2

\* Any step, by its action.
LEMMA QuadroMantem ==
  ASSUME QuadroCoerente, [Next]_vars
  PROVE  QuadroCoerente'
  <1>1. CASE UNCHANGED vars
    <2>1. UNCHANGED <<conta, rota, unidades, pedidos, eventos>>
      BY <1>1 DEF vars
    <2>2. TypeOK'
      BY <2>1 DEF QuadroCoerente, TypeOK, conta, rota, unidades
    <2>. QED  BY <2>1, <2>2, AbaFica DEF QuadroCoerente, SessaoGuardada, UnidadeListada, conta, unidades
  <1>. QED  BY <1>1, EntradaMantem, SaidaMantem, PedidoMantem, RespostaMantem, CriacaoMantem, RecusaMantem,
           NavegacaoMantem, TempoMantem DEF Next

-----------------------------------------------------------------------------
\* Whatever the order of logins, refusals, late answers and clicks, the path, the panel,
\* the session in memory and the one stored agree, and a site chosen before it is listed
\* does not stay so in silence (App.tsx, lib/session.ts, lib/rotas.ts, FloorPlanView.tsx).
THEOREM QuadroSempreCoerente == Spec => []QuadroCoerente
  <1>1. Init => QuadroCoerente
    BY QuadroInicia
  <1>2. QuadroCoerente /\ [Next]_vars => QuadroCoerente'
    BY QuadroMantem
  <1>. QED  BY <1>1, <1>2, PTL DEF Spec
=============================================================================
