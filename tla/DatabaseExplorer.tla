---------------------------- MODULE DatabaseExplorer ----------------------------
(***************************************************************************)
(* The databases of the panel (frontend/src/components/BancosView.tsx and  *)
(* EsquemaDiagrama.tsx): the instances found, the filters over them, the   *)
(* panel of one instance, the dialog with the schema of one base, and in   *)
(* it the schema drawn, the table in focus and how far around it.          *)
(*                                                                         *)
(* The dialog is over the panel and the panel over the table, but nothing  *)
(* holds the focus, so the keyboard reaches what is under them.  A schema, *)
(* a table and a base are numbers, 0 being none; the order of the numbers  *)
(* is the one of the names.  What the answers say of sizes, versions and   *)
(* settings is left out, and ReadCatalog has the order the answers come in.*)
(***************************************************************************)
EXTENDS FiniteSets, Integers, Sequences

CONSTANTS
  Inventarios,  \* bound: the lists the server may answer, sets of instances
  Esquemas,     \* bound: the answers about the schema of a base
  Tabelas       \* every table of them

Nenhum == 0
TODOS  == "todos"
SemAlvo    == [instancia |-> Nenhum, base |-> Nenhum]
SemEsquema == [base |-> Nenhum]
\* What the constants must be.
ConstantesOk ==
  /\ Tabelas \subseteq Nat \ {Nenhum} /\ IsFiniteSet(Tabelas)
  /\ \A lista \in Inventarios : \A i \in lista : i.id # Nenhum
  /\ \A e \in Esquemas : e.base # Nenhum /\ DOMAIN e.tabelas \subseteq Tabelas

VARIABLES
  instancias,
  filtros,      \* servidor, motor and estado
  selecionada,  \* the instance whose panel was asked for
  alvo,         \* the base whose schema was asked for
  esquema,      \* its answer
  carga,        \* the reading of it: none, on its way, read, failed
  escolhido, raiz, saltos,
  aberta, realce  \* the list of tables to focus on

vars == <<instancias, filtros, selecionada, alvo, esquema, carga, escolhido, raiz, saltos, aberta, realce>>
lista    == <<instancias, filtros>>
diagrama == <<escolhido, raiz, saltos, aberta, realce>>
dialogo  == <<alvo, esquema, carga, diagrama>>

Foco == INSTANCE ComboSelect WITH valor <- raiz

-----------------------------------------------------------------------------
Campos == {"servidor", "motor", "estado"}
MOTORES_COM_DIAGRAMA == {"postgres"}

\* opcoesDe: what the instances of the answer have, and everything.
OpcoesDe(campo) == {TODOS} \cup {i[campo] : i \in instancias}

Visiveis == {i \in instancias : \A c \in Campos : filtros[c] \in {TODOS, i[c]}}

Detalhe == {i \in Visiveis : i.id = selecionada}

TypeOK ==
  /\ instancias \in Inventarios \cup {{}} /\ DOMAIN filtros = Campos
  /\ carga \in {"parada", "lendo", "lida", "falhou"}
  /\ esquema \in Esquemas \cup {SemEsquema}
  /\ saltos \in 1..2 /\ raiz \in Tabelas \cup {Nenhum} /\ aberta \in BOOLEAN
  /\ (carga = "lida") = (esquema # SemEsquema) /\ (carga = "parada") = (alvo = SemAlvo)

-----------------------------------------------------------------------------
\* A diagram just mounted.
Montado == escolhido' = Nenhum /\ raiz' = Nenhum /\ saltos' = 1 /\ aberta' = FALSE /\ realce' = -1

Init ==
  /\ instancias = {} /\ filtros = [c \in Campos |-> TODOS] /\ selecionada = Nenhum
  /\ alvo = SemAlvo /\ esquema = SemEsquema /\ carga = "parada"
  /\ escolhido = Nenhum /\ raiz = Nenhum /\ saltos = 1 /\ Foco!Init

\* buscar: the list, at the first reading and at every turn of the interval.
Busca ==
  /\ instancias' \in Inventarios
  /\ UNCHANGED <<filtros, selecionada, dialogo>>

Filtra ==
  /\ \E c \in Campos : \E v \in OpcoesDe(c) : filtros' = [filtros EXCEPT ![c] = v]
  /\ UNCHANGED <<instancias, selecionada, dialogo>>

AbreDetalhe ==
  /\ \E i \in Visiveis : selecionada' = i.id
  /\ UNCHANGED <<lista, dialogo>>

FecharDetalhe ==
  /\ Detalhe # {} /\ selecionada' = Nenhum
  /\ UNCHANGED <<lista, dialogo>>

\* Unmounting the dialog cancels its reading; mounting one starts it.
FechaDialogo == alvo' = SemAlvo /\ esquema' = SemEsquema /\ carga' = "parada" /\ Montado
Monta(a)     == alvo' = a /\ esquema' = SemEsquema /\ carga' = "lendo" /\ Montado

\* The dialog is keyed by its instance and base: the same one again is left as it is.
AbrirEsquema ==
  /\ \E i \in Detalhe : \E b \in i.bases :
       /\ i.motor \in MOTORES_COM_DIAGRAMA
       /\ LET a == [instancia |-> i.id, base |-> b] IN IF a = alvo THEN UNCHANGED dialogo ELSE Monta(a)
  /\ UNCHANGED <<lista, selecionada>>

FecharEsquema == alvo # SemAlvo /\ FechaDialogo /\ UNCHANGED <<lista, selecionada>>

\* The key is listened to while something is open, and the list of tables, open or
\* not, goes with the dialog.
Esc ==
  \/ alvo # SemAlvo /\ FechaDialogo /\ UNCHANGED <<lista, selecionada>>
  \/ alvo = SemAlvo /\ Detalhe # {} /\ selecionada' = Nenhum /\ UNCHANGED <<lista, dialogo>>

LeEsquema ==
  /\ carga = "lendo"
  /\ \/ \E e \in Esquemas : e.base = alvo.base /\ esquema' = e /\ carga' = "lida"
     \/ carga' = "falhou" /\ UNCHANGED esquema
  /\ UNCHANGED <<lista, selecionada, alvo, diagrama>>

-----------------------------------------------------------------------------
Schemas == esquema.schemas \cup {esquema.tabelas[t] : t \in DOMAIN esquema.tabelas}

TabelasDe(s) == {t \in DOMAIN esquema.tabelas : esquema.tabelas[t] = s}

\* schemaPadrao: the one with most tables, the first by name of those.
Padrao ==
  LET cheios == {s \in Schemas : \A u \in Schemas : Cardinality(TabelasDe(u)) <= Cardinality(TabelasDe(s))}
  IN IF Schemas = {} THEN Nenhum ELSE CHOOSE s \in cheios : \A u \in cheios : s <= u

Schema == IF escolhido \in Schemas THEN escolhido ELSE Padrao

DoSchema == TabelasDe(Schema)

\* What is drawn (calcularLayout), around the table in focus or whole.
Desenho(foco) ==
  INSTANCE SchemaDiagram WITH
    presentes <- DoSchema, relacoes <- esquema.relacoes, pedida <- foco, pedidos <- saltos,
    Primarias <- [t \in Tabelas |-> 0], MaxRelacoes <- 0, estado <- <<>>, nivel <- <<>>, pilha <- <<>>, nos <- <<>>

\* Without relations, or with an engine that declares none, there is only a list.
ComDiagrama == esquema # SemEsquema /\ esquema.suporta /\ esquema.relacoes # {}

\* The whole schema first, and its tables by name.
OpcoesDeTabela ==
  {s \in [1..(Cardinality(DoSchema) + 1) -> DoSchema \cup {Nenhum}] :
     \A i, j \in DOMAIN s : i < j => s[i] < s[j]}

\* Mutant: the table in focus stays.
EscolheSchema_FocoFica ==
  /\ ComDiagrama /\ Cardinality(Schemas) > 1
  /\ escolhido' \in Schemas
  /\ UNCHANGED <<lista, selecionada, alvo, esquema, carga, raiz, saltos, aberta, realce>>

EscolheSchema ==
  /\ ComDiagrama /\ Cardinality(Schemas) > 1
  /\ escolhido' \in Schemas /\ raiz' = Nenhum
  /\ UNCHANGED <<lista, selecionada, alvo, esquema, carga, saltos, aberta, realce>>

FocaPelaLista ==
  /\ ComDiagrama /\ \E opcoes \in OpcoesDeTabela : Foco!Usa(opcoes, FALSE)
  /\ UNCHANGED <<lista, selecionada, alvo, esquema, carga, escolhido, saltos>>

\* aoFocar: a box focuses on its table, and the one in focus back on the whole.
FocaPeloNo ==
  /\ ComDiagrama
  /\ \E t \in Desenho(raiz)!Desenhadas : raiz' = IF raiz = t THEN Nenhum ELSE t
  /\ UNCHANGED <<lista, selecionada, alvo, esquema, carga, escolhido, saltos, aberta, realce>>

EscolheSaltos ==
  /\ ComDiagrama /\ raiz # Nenhum
  /\ saltos' \in 1..2
  /\ UNCHANGED <<lista, selecionada, alvo, esquema, carga, escolhido, raiz, aberta, realce>>

Next ==
  \/ Busca \/ Filtra \/ AbreDetalhe \/ FecharDetalhe
  \/ AbrirEsquema \/ FecharEsquema \/ Esc \/ LeEsquema
  \/ EscolheSchema \/ FocaPelaLista \/ FocaPeloNo \/ EscolheSaltos

Spec == Init /\ [][Next]_vars

-----------------------------------------------------------------------------
\* The diagram is the one of the base asked for, and its focus a table of the schema
\* drawn: the layout ignores a focus from elsewhere and draws the whole schema while the
\* picker still names the table.
DiagramaDoAlvo ==
  /\ esquema # SemEsquema => esquema.base = alvo.base
  /\ ComDiagrama /\ raiz # Nenhum => raiz \in Desenho(raiz)!Desenhadas
=============================================================================
