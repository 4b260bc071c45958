----------------------------- MODULE MCPanelViews -----------------------------
(***************************************************************************)
(* Small instances of PanelViews.                                          *)
(***************************************************************************)
EXTENDS PanelViews, TLC

CONSTANTS esta, aquela  \* two of anything the properties do not tell apart

DuasPlantas == "p" :> "u" @@ "q" :> "u"
AForaEADentro == {-4, 30}

\* Two instances, of which only one declares relations: a base with two schemas, a
\* relation inside one of them and one across, and a base of a single table.
Instancia(id, servidor, motor, estado, bases) ==
  [id |-> id, servidor |-> servidor, motor |-> motor, estado |-> estado, bases |-> bases]
Um    == Instancia(1, "s", "postgres", "ativo", {1, 2})
UmAntes == Instancia(1, "s", "postgres", "inativo", {1})
Outro == Instancia(2, "t", "mysql", "ativo", {3})

DoisInventarios == {{Um}, {UmAntes, Outro}}
DoisEsquemas ==
  {[base |-> 1, schemas |-> {1, 2}, tabelas |-> 1 :> 1 @@ 2 :> 1 @@ 3 :> 2,
    relacoes |-> {<<1, 2>>, <<2, 3>>}, suporta |-> TRUE],
   [base |-> 2, schemas |-> {}, tabelas |-> 1 :> 1, relacoes |-> {}, suporta |-> TRUE]}

\* Two lists of containers: one name on two servers, one container whose measures were
\* not taken, one that belongs to no project, one that stops and one that is made again.
Container(id, name, project, rodando, cpu, mem) ==
  [id |-> id, name |-> name, project |-> project, rodando |-> rodando, cpu |-> cpu, mem |-> mem]
Antes  == {Container(1, 1, "loja", TRUE, 3, 2), Container(2, 2, "loja", TRUE, -1, 1),
           Container(3, 1, "", FALSE, 0, 0), Container(4, 3, "loja", TRUE, 5, 4)}
Depois == {Container(2, 2, "loja", FALSE, -1, 3), Container(5, 1, "loja", TRUE, 1, 3)}

DuasListas == {Antes, Depois}

UmaQuatroENove == <<1, 4, 9>>

\* Two balancers, and either a machine of two addresses behind them or one address that
\* two machines claim, one of which tells nothing of its nginx.
Maquina(kind, host, outros, papel) ==
  [kind |-> kind, host |-> host, addresses |-> outros, collect |-> FALSE, behind |-> papel = "nenhum",
   papel |-> papel, candidato |-> FALSE]
Balanceadores == <<Maquina("ssh", "hl", {}, "principal"), Maquina("ssh", "hr", {}, "reserva")>>

DoisCadastros ==
  {Append(Balanceadores, Maquina("ssh", "h1", {"h2"}, "nenhum")),
   Balanceadores \o <<Maquina("agent", "h1", {}, "ausente"), Maquina("ssh", "h1", {}, "nenhum")>>}
DoisEnlaces == {[server_id |-> 1, bloco |-> "app", destino |-> d] : d \in {<<"h1", 80>>, <<"h2", 0>>}}
=============================================================================
