--------------------------- MODULE NetworkInventory ---------------------------
(***************************************************************************)
(* The network inventory from both ends: the rows the server keeps, which  *)
(* the scans, the telemetry, the removal of a site and the operators write *)
(* (backend/internal/discovery/worker.go, api/inventory_ingest.go,         *)
(* api/network_metrics_ingest.go, api/site_handler.go), and the view that  *)
(* lists and edits them (frontend/src/components/NetworkView.tsx).         *)
(*                                                                         *)
(* The room stands for the seven fields of text, and the open ports for    *)
(* the type they tell.  A host is online until it has not been seen for a  *)
(* while, and only then may it be pruned.  The user operates every site    *)
(* seen.  ReadCatalog has the order of the readings and EditCatalog the    *)
(* scan asked for by hand; the search by text is left out.                 *)
(***************************************************************************)
EXTENDS FiniteSets, Integers

CONSTANTS
  Sites,    \* the sites, identified from 1
  Ips,
  Tipos,    \* what the ports of a host may tell it to be
  Salas,    \* what may be typed as a room
  Ids,      \* bound: the identifiers the table hands out, from 1
  Alcance,  \* the sites the user operates; SemUnidade is in it for a global role
  Monitorados, \* the addresses of servers
  Vagas,    \* bound: slots for the requests in flight
  MaxAcoes  \* bound: what the user does in the view and the scans do to the table

\* 0 stands for no site and for no host.
ConstantesOk == Sites \subseteq Nat \ {0} /\ Ids \subseteq Nat \ {0} /\ MaxAcoes \in Nat

SemUnidade    == 0
Automatico    == ""
Desconhecido  == "unknown"
SemEdicao     == [id |-> 0]
SemQuadro     == [x \in {} |-> 0]
Campos        == {"site", "tipo", "sala"}
Filtros       == {"all", "unmonitored", "online"}

VARIABLES
  unidades,   \* the sites that exist
  rede,       \* network_hosts, by id
  inventory,  \* the hosts the view lists, by the id each was read with
  unidade, filter, detalhe, aba,
  editing,    \* the host of the form, as it was when the form opened
  form, saving,
  pedidos,    \* the saves in flight, by slot
  quebrada,   \* the view threw while it was drawn, which unmounts the panel
  acoes

vars == <<unidades, rede, inventory, unidade, filter, detalhe, aba, editing, form, saving,
          pedidos, quebrada, acoes>>

-----------------------------------------------------------------------------
\* A type is fixed by typing one.
Digitado(l) == l.tipoTravado => l.tipo \in Tipos

Linha ==
  {l \in [site : Sites \cup {SemUnidade}, ip : Ips, portas : Tipos \cup {Desconhecido},
          tipo : Tipos \cup {Automatico, Desconhecido}, tipoTravado : BOOLEAN,
          siteTravado : BOOLEAN, sala : Salas \cup {""}, online : BOOLEAN, snmp : BOOLEAN] :
     Digitado(l)}

\* NetworkHostConflictTarget: the key the unique index is on.
Chave(l) == <<l.site, l.ip>>
ChavesUnicas(r) == \A i, j \in DOMAIN r : Chave(r[i]) = Chave(r[j]) => i = j
DoIp(r, ip) == {i \in DOMAIN r : r[i].ip = ip}
Primeiro(S) == CHOOSE i \in S : \A j \in S : i <= j

Form == [site : Sites \cup {SemUnidade}, tipo : Tipos \cup {Automatico}, sala : Salas \cup {""}]

\* buildForm: what is not fixed by hand is shown as automatic.
BuildForm(h) ==
  [site |-> IF h.siteTravado THEN h.site ELSE SemUnidade,
   tipo |-> IF h.tipoTravado THEN h.tipo ELSE Automatico,
   sala |-> h.sala]

-----------------------------------------------------------------------------
(* What the server writes. *)

Age == acoes < MaxAcoes /\ acoes' = acoes + 1

\* Mutant: the rows of no site are handed over without asking for those of the site.
Adota_SemConferir(r, s, ip) ==
  IF s = SemUnidade THEN r
  ELSE [i \in DOMAIN r |-> IF Chave(r[i]) = <<SemUnidade, ip>> /\ ~r[i].siteTravado
                           THEN [r[i] EXCEPT !.site = s] ELSE r[i]]

\* AdoptNetworkHostsWithoutSite
Adota(r, s, ip) ==
  IF s = SemUnidade \/ \E i \in DOMAIN r : Chave(r[i]) = <<s, ip>> THEN r
  ELSE [i \in DOMAIN r |-> IF Chave(r[i]) = <<SemUnidade, ip>> /\ ~r[i].siteTravado
                           THEN [r[i] EXCEPT !.site = s] ELSE r[i]]

Acrescenta(r, l) ==
  LET i == Primeiro(Ids \ DOMAIN r)
  IN [k \in DOMAIN r \cup {i} |-> IF k = i THEN l ELSE r[k]]

Nova(s, ip, portas, tipo, snmp) ==
  [site |-> s, ip |-> ip, portas |-> portas, tipo |-> tipo, tipoTravado |-> FALSE,
   siteTravado |-> FALSE, sala |-> "", online |-> TRUE, snmp |-> snmp]

Vista(l, portas) ==
  [l EXCEPT !.online = TRUE, !.portas = portas,
            !.tipo = IF l.tipoTravado THEN l.tipo ELSE portas]

\* The statement of its own that comes before the write of a scan or of the telemetry of a
\* site.  A scan goes on to write when it fails (the error is only logged), and anything may
\* happen between the two.
AdotaSemUnidade(s, ip) ==
  /\ Adota(rede, s, ip) # rede /\ Age
  /\ rede' = Adota(rede, s, ip)
  /\ UNCHANGED <<unidades, inventory, unidade, filter, detalhe, aba, editing, form, saving,
                 pedidos, quebrada>>

DaChave(s, ip) == {i \in DOMAIN rede : Chave(rede[i]) = <<s, ip>>}

\* persist and storeInventory: a scan of a site, which the scanner may remember after it is
\* gone, or of none, found the address.
Varre(s, ip, portas) ==
  LET mesmas == DaChave(s, ip)
  IN /\ Age
     /\ mesmas = {} => Ids \ DOMAIN rede # {}
     /\ rede' = IF mesmas = {} THEN Acrescenta(rede, Nova(s, ip, portas, portas, FALSE))
                ELSE [i \in DOMAIN rede |-> IF i \in mesmas THEN Vista(rede[i], portas) ELSE rede[i]]
     /\ UNCHANGED <<unidades, inventory, unidade, filter, detalhe, aba, editing, form, saving,
                    pedidos, quebrada>>

\* registrarAparelhoSNMP: the collector of a site read the host over SNMP, or failed to.
Telemetria(s, ip, alcancado) ==
  LET mesmas == DaChave(s, ip)
  IN /\ Age
     /\ mesmas = {} => Ids \ DOMAIN rede # {}
     /\ rede' = IF mesmas = {}
                THEN Acrescenta(rede, Nova(s, ip, Desconhecido, Automatico, TRUE))
                ELSE [i \in DOMAIN rede |->
                        IF i \in mesmas
                        THEN [rede[i] EXCEPT !.snmp = TRUE, !.online = alcancado \/ rede[i].online]
                        ELSE rede[i]]
     /\ UNCHANGED <<unidades, inventory, unidade, filter, detalhe, aba, editing, form, saving,
                    pedidos, quebrada>>

\* The host was not seen for hostOfflineAfter.
Some(i) ==
  /\ i \in DOMAIN rede /\ rede[i].online /\ Age
  /\ rede' = [rede EXCEPT ![i].online = FALSE]
  /\ UNCHANGED <<unidades, inventory, unidade, filter, detalhe, aba, editing, form, saving,
                 pedidos, quebrada>>

\* prune: the host was not seen for hostRetention.
Poda(i) ==
  /\ i \in DOMAIN rede /\ ~rede[i].online /\ Age
  /\ rede' = [k \in DOMAIN rede \ {i} |-> rede[k]]
  /\ UNCHANGED <<unidades, inventory, unidade, filter, detalhe, aba, editing, form, saving,
                 pedidos, quebrada>>

\* removerUnidadeEReferencias: one transaction, undone where the index refuses.
RemoveUnidade(s) ==
  LET r == [i \in DOMAIN rede |-> IF rede[i].site = s THEN [rede[i] EXCEPT !.site = SemUnidade]
                                  ELSE rede[i]]
  IN /\ s \in unidades /\ ChavesUnicas(r) /\ Age
     /\ rede' = r /\ unidades' = unidades \ {s}
     /\ UNCHANGED <<inventory, unidade, filter, detalhe, aba, editing, form, saving, pedidos,
                    quebrada>>

\* updates of networkHostUpdateHandler, with the ports of the row it read first.
Aplica(l, patch, portas) ==
  LET comUnidade == IF "site" \notin DOMAIN patch THEN l
                    ELSE [l EXCEPT !.site = patch["site"], !.siteTravado = patch["site"] # SemUnidade]
      comTipo == IF "tipo" \notin DOMAIN patch THEN comUnidade
                 ELSE IF patch["tipo"] = Automatico
                 THEN [comUnidade EXCEPT !.tipo = portas, !.tipoTravado = FALSE]
                 ELSE [comUnidade EXCEPT !.tipo = patch["tipo"], !.tipoTravado = TRUE]
  IN IF "sala" \notin DOMAIN patch THEN comTipo ELSE [comTipo EXCEPT !.sala = patch["sala"]]

\* The rows the handler writes: those of the address, whatever their site.
Gravadas(r, ip, patch, portas) ==
  [i \in DOMAIN r |-> IF r[i].ip = ip THEN Aplica(r[i], patch, portas) ELSE r[i]]

\* The role is asked of the first row of the address and of the site it would move to.
Aceita(r, ip, patch) ==
  /\ DoIp(r, ip) # {}
  /\ r[Primeiro(DoIp(r, ip))].site \in Alcance
  /\ "site" \in DOMAIN patch => patch["site"] \in Alcance

\* The UPDATE finds a row and the index does not refuse it.
Cabe(r, ip, patch, portas) == DoIp(r, ip) # {} /\ ChavesUnicas(Gravadas(r, ip, patch, portas))

\* Another operator's form, on one field, in one step: what a handler reads before it
\* writes is told apart for the form of the view.
EditaAlheio(ip, campo, valor) ==
  LET patch == [c \in {campo} |-> valor]
      portas == rede[Primeiro(DoIp(rede, ip))].portas
  IN /\ Age
     /\ Aceita(rede, ip, patch) /\ Cabe(rede, ip, patch, portas)
     /\ rede' = Gravadas(rede, ip, patch, portas)
     /\ UNCHANGED <<unidades, inventory, unidade, filter, detalhe, aba, editing, form, saving,
                    pedidos, quebrada>>

-----------------------------------------------------------------------------
(* The view. *)

\* A host as the view holds it: the answer to a reading has the ports as a
\* list, the answer to a save is the row, which has them as a text.
Lido(i, r) == [id |-> i, ip |-> r[i].ip, site |-> r[i].site, tipo |-> r[i].tipo,
               tipoTravado |-> r[i].tipoTravado, siteTravado |-> r[i].siteTravado,
               sala |-> r[i].sala, online |-> r[i].online, snmp |-> r[i].snmp, portas |-> "lista"]

Hosts(inv, u, f) ==
  {i \in DOMAIN inv : /\ u = SemUnidade \/ inv[i].site = u
                      /\ f = "online" => inv[i].online
                      /\ f = "unmonitored" => inv[i].ip \notin Monitorados}

\* Drawing the rows maps over the ports of each.
Quebra(inv, u, f) == \E i \in Hosts(inv, u, f) : inv[i].portas # "lista"

\* The host of the drawer, which is there while some host listed has the id.
Detalhados(inv) == {i \in DOMAIN inv : inv[i].id = detalhe}
AbaEm(inv) == IF Detalhados(inv) = {} THEN "resumo" ELSE aba
SemDialogo == Detalhados(inventory) = {} /\ editing = SemEdicao

Viva == ~quebrada
Livre == [tipo |-> "livre"]

\* fetchInventory: the hosts of the sites within the reach of the user.
LeInventario ==
  /\ Viva
  /\ inventory' = [i \in {k \in DOMAIN rede : rede[k].site \in Alcance} |-> Lido(i, rede)]
  /\ aba' = AbaEm(inventory')
  /\ UNCHANGED <<unidades, rede, unidade, filter, detalhe, editing, form, saving, pedidos, quebrada, acoes>>

EscolheUnidade(u) ==
  /\ Viva /\ u # unidade /\ Age
  /\ unidade' = u /\ quebrada' = Quebra(inventory, u, filter)
  /\ UNCHANGED <<unidades, rede, inventory, filter, detalhe, aba, editing, form, saving, pedidos>>

Filtra(f) ==
  /\ Viva /\ f # filter /\ Age
  /\ filter' = f /\ quebrada' = Quebra(inventory, unidade, f)
  /\ UNCHANGED <<unidades, rede, inventory, unidade, detalhe, aba, editing, form, saving, pedidos>>

AbreDetalhe(i) ==
  /\ Viva /\ i \in Hosts(inventory, unidade, filter) /\ SemDialogo /\ Age
  /\ detalhe' = inventory[i].id /\ aba' = "resumo"
  /\ UNCHANGED <<unidades, rede, inventory, unidade, filter, editing, form, saving, pedidos, quebrada>>

\* The tab of the interfaces exists only for a host with telemetry.
EscolheAba(a) ==
  /\ Viva /\ Detalhados(inventory) # {} /\ a # aba /\ Age
  /\ a = "interfaces" => inventory[Primeiro(Detalhados(inventory))].snmp
  /\ aba' = a
  /\ UNCHANGED <<unidades, rede, inventory, unidade, filter, detalhe, editing, form, saving, pedidos, quebrada>>

FechaDetalhe ==
  /\ Viva /\ Detalhados(inventory) # {} /\ detalhe' = 0
  /\ UNCHANGED <<unidades, rede, inventory, unidade, filter, aba, editing, form, saving, pedidos, quebrada, acoes>>

AbreCadastro(i) ==
  /\ Viva /\ i \in Hosts(inventory, unidade, filter) /\ SemDialogo /\ Age
  /\ editing' = inventory[i] /\ form' = BuildForm(inventory[i]) /\ saving' = FALSE
  /\ UNCHANGED <<unidades, rede, inventory, unidade, filter, detalhe, aba, pedidos, quebrada>>

Preenche(campo, valor) ==
  /\ Viva /\ editing # SemEdicao /\ form[campo] # valor /\ Age
  /\ form' = [form EXCEPT ![campo] = valor]
  /\ UNCHANGED <<unidades, rede, inventory, unidade, filter, detalhe, aba, editing, saving, pedidos, quebrada>>

\* What a dialog closed no longer owns.
Abandona == [v \in Vagas |-> IF pedidos[v] = Livre THEN Livre ELSE [pedidos[v] EXCEPT !.desta = FALSE]]

FechaCadastro ==
  /\ Viva /\ editing # SemEdicao
  /\ editing' = SemEdicao /\ saving' = FALSE /\ pedidos' = Abandona
  /\ UNCHANGED <<unidades, rede, inventory, unidade, filter, detalhe, aba, form, quebrada, acoes>>

\* Mutant: the whole form is sent.
Patch_Inteiro(inicial, f) == IF f = inicial THEN [c \in {} |-> 0] ELSE [c \in Campos |-> f[c]]

\* handleSubmit: only the fields that differ from what the form opened with.
Patch(inicial, f) == [c \in {c \in Campos : f[c] # inicial[c]} |-> f[c]]

HandleSubmit(v) ==
  LET inicial == BuildForm(editing)
      patch == Patch(inicial, form)
  IN /\ Viva /\ editing # SemEdicao /\ ~saving
     /\ IF DOMAIN patch = {} THEN editing' = SemEdicao /\ UNCHANGED <<saving, pedidos>>
        ELSE /\ pedidos[v] = Livre
             /\ pedidos' = [pedidos EXCEPT ![v] =
                  [tipo |-> "grava", id |-> editing.id, ip |-> editing.ip, inicial |-> inicial,
                   form |-> form, desta |-> TRUE]]
             /\ saving' = TRUE /\ UNCHANGED editing
     /\ UNCHANGED <<unidades, rede, inventory, unidade, filter, detalhe, aba, form, quebrada, acoes>>

\* networkHostUpdateHandler has three statements.  It reads the first row of the address and
\* asks for the role;
LeHost(v) ==
  LET p == pedidos[v]
  IN /\ p.tipo = "grava"
     /\ pedidos' = [pedidos EXCEPT ![v] =
          IF Aceita(rede, p.ip, Patch(p.inicial, p.form))
          THEN [tipo |-> "lido", id |-> p.id, ip |-> p.ip, inicial |-> p.inicial, form |-> p.form,
                desta |-> p.desta, portas |-> rede[Primeiro(DoIp(rede, p.ip))].portas]
          ELSE [tipo |-> "falhou", desta |-> p.desta]]
     /\ UNCHANGED <<unidades, rede, inventory, unidade, filter, detalhe, aba, editing, form, saving, quebrada, acoes>>

\* writes every row of the address, with the type that the ports it read tell;
Grava(v) ==
  LET p == pedidos[v]
      patch == Patch(p.inicial, p.form)
  IN /\ p.tipo = "lido"
     /\ IF Cabe(rede, p.ip, patch, p.portas)
        THEN /\ rede' = Gravadas(rede, p.ip, patch, p.portas)
             /\ pedidos' = [pedidos EXCEPT ![v] = [tipo |-> "escrito", ip |-> p.ip, desta |-> p.desta]]
        ELSE /\ pedidos' = [pedidos EXCEPT ![v] = [tipo |-> "falhou", desta |-> p.desta]]
             /\ UNCHANGED rede
     /\ UNCHANGED <<unidades, inventory, unidade, filter, detalhe, aba, editing, form, saving, quebrada, acoes>>

\* and answers with the first row of the address, read again.
ReleHost(v) ==
  LET p == pedidos[v]
  IN /\ p.tipo = "escrito"
     /\ pedidos' = [pedidos EXCEPT ![v] =
          IF DoIp(rede, p.ip) # {}
          THEN [tipo |-> "gravado", desta |-> p.desta,
                host |-> [Lido(Primeiro(DoIp(rede, p.ip)), rede) EXCEPT !.portas = "texto"]]
          ELSE [tipo |-> "falhou", desta |-> p.desta]]
     /\ UNCHANGED <<unidades, rede, inventory, unidade, filter, detalhe, aba, editing, form, saving, quebrada, acoes>>

\* handleSaved: the answer, over every host listed with its address; the
\* answer says nothing of whether the host is online.
HandleSaved(v) ==
  LET h == pedidos[v].host
  IN /\ pedidos[v].tipo = "gravado" /\ Viva
     /\ inventory' = [i \in DOMAIN inventory |->
                        IF inventory[i].ip = h.ip THEN [h EXCEPT !.online = inventory[i].online]
                        ELSE inventory[i]]
     /\ quebrada' = Quebra(inventory', unidade, filter)
     /\ aba' = AbaEm(inventory')
     /\ editing' = SemEdicao /\ saving' = FALSE
     /\ pedidos' = [Abandona EXCEPT ![v] = Livre]
     /\ UNCHANGED <<unidades, rede, unidade, filter, detalhe, form, acoes>>

\* The save was refused, or it or its answer was lost; the form stays for another try.
GravacaoFalha(v) ==
  /\ pedidos[v] # Livre /\ Viva
  /\ saving' = (saving /\ ~pedidos[v].desta)
  /\ pedidos' = [pedidos EXCEPT ![v] = Livre]
  /\ UNCHANGED <<unidades, rede, inventory, unidade, filter, detalhe, aba, editing, form, quebrada, acoes>>

-----------------------------------------------------------------------------
Init ==
  /\ unidades = Sites /\ rede = SemQuadro /\ inventory = SemQuadro
  /\ unidade = SemUnidade /\ filter = "all" /\ detalhe = 0 /\ aba = "resumo"
  /\ editing = SemEdicao /\ form = [site |-> SemUnidade, tipo |-> Automatico, sala |-> ""]
  /\ saving = FALSE /\ pedidos = [v \in Vagas |-> Livre] /\ quebrada = FALSE /\ acoes = 0

NoServidor ==
  \/ \E s \in Sites \cup {SemUnidade}, ip \in Ips, t \in Tipos : Varre(s, ip, t)
  \/ \E s \in Sites, ip \in Ips : AdotaSemUnidade(s, ip)
  \/ \E s \in Sites, ip \in Ips, a \in BOOLEAN : Telemetria(s, ip, a)
  \/ \E i \in Ids : Some(i) \/ Poda(i)
  \/ \E s \in Sites : RemoveUnidade(s)
  \/ \E ip \in Ips, x \in Salas : EditaAlheio(ip, "sala", x)
  \/ \E ip \in Ips, x \in Tipos : EditaAlheio(ip, "tipo", x)

NaTela ==
  \/ LeInventario \/ FechaDetalhe \/ FechaCadastro
  \/ \E u \in Sites \cup {SemUnidade} : EscolheUnidade(u)
  \/ \E f \in Filtros : Filtra(f)
  \/ \E a \in {"resumo", "interfaces"} : EscolheAba(a)
  \/ \E i \in Ids : AbreDetalhe(i) \/ AbreCadastro(i)
  \/ \E x \in Sites \cup {SemUnidade} : Preenche("site", x)
  \/ \E x \in Tipos \cup {Automatico} : Preenche("tipo", x)
  \/ \E x \in Salas : Preenche("sala", x)
  \/ \E v \in Vagas : \/ HandleSubmit(v) \/ LeHost(v) \/ Grava(v) \/ ReleHost(v)
                      \/ HandleSaved(v) \/ GravacaoFalha(v)

Next == NoServidor \/ NaTela

Spec == Init /\ [][Next]_vars

-----------------------------------------------------------------------------
Hospedeiro ==
  {h \in [id : Ids, ip : Ips, site : Sites \cup {SemUnidade},
          tipo : Tipos \cup {Automatico, Desconhecido}, tipoTravado : BOOLEAN,
          siteTravado : BOOLEAN, sala : Salas \cup {""}, online : BOOLEAN, snmp : BOOLEAN,
          portas : {"lista", "texto"}] : Digitado(h)}

Pedidos ==
  {Livre} \cup [tipo : {"falhou"}, desta : BOOLEAN]
    \cup [tipo : {"gravado"}, desta : BOOLEAN, host : Hospedeiro]
    \cup [tipo : {"escrito"}, desta : BOOLEAN, ip : Ips]
    \cup [tipo : {"grava"}, desta : BOOLEAN, id : Ids, ip : Ips, inicial : Form, form : Form]
    \cup [tipo : {"lido"}, desta : BOOLEAN, id : Ids, ip : Ips, inicial : Form, form : Form,
          portas : Tipos \cup {Desconhecido}]

TypeOK ==
  /\ unidades \subseteq Sites
  /\ DOMAIN rede \subseteq Ids /\ \A i \in DOMAIN rede : rede[i] \in Linha
  /\ DOMAIN inventory \subseteq Ids /\ \A i \in DOMAIN inventory : inventory[i] \in Hospedeiro
  /\ unidade \in Sites \cup {SemUnidade} /\ filter \in Filtros
  /\ detalhe \in {0} \cup Ids /\ aba \in {"resumo", "interfaces"}
  /\ editing \in {SemEdicao} \cup Hospedeiro /\ form \in Form /\ saving \in BOOLEAN
  /\ pedidos \in [Vagas -> Pedidos] /\ quebrada \in BOOLEAN /\ acoes \in 0..MaxAcoes

-----------------------------------------------------------------------------
\* No adoption and no upsert puts two rows under one key, in whatever order scans, telemetry,
\* adoptions, removals of sites and saves of forms alternate: the unique index would refuse
\* it, and a whole batch of hosts be lost with it (discovery/worker.go:209-222).  The saves and
\* the removals that the index refuses are undone in the actions themselves.
UmaLinhaPorChave == ChavesUnicas(rede)

\* What a field of the form says of a row.
Cadastro(l, c) == CASE c = "site" -> <<l.site, l.siteTravado>>
                    [] c = "tipo" -> <<l.tipo, l.tipoTravado>>
                    [] c = "sala" -> <<l.sala>>

\* A save writes no field its user did not change: what a scan or another
\* operator did to the others while the form was open survives it.
GravaSoOMudado ==
  \A v \in Vagas : pedidos[v].tipo = "lido" /\ pedidos'[v].tipo = "escrito" =>
    \A i \in DOMAIN rede, c \in Campos :
      pedidos[v].form[c] = pedidos[v].inicial[c] => Cadastro(rede'[i], c) = Cadastro(rede[i], c)
EdicaoParcial == [][GravaSoOMudado]_vars

\* A save writes only the host it was opened on: the key of a host is its site
\* and its address (docs/adr/005-indice-do-inventario-usa-coalesce.md).
SoOHostEditado ==
  [][\A v \in Vagas : pedidos[v].tipo = "lido" /\ pedidos'[v].tipo = "escrito" =>
       \A i \in DOMAIN rede : rede'[i] # rede[i] => i = pedidos[v].id]_vars

\* The view keeps drawing: the ports of every host it draws are a list, as
\* NetworkHostView says (lib/api.ts:165).
NaoQuebra == ~quebrada
=============================================================================
