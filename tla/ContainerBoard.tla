----------------------------- MODULE ContainerBoard -----------------------------
(***************************************************************************)
(* The containers of the panel (frontend/src/components/ContainersView.tsx *)
(* and lib/containers.ts): the last list read, the search, what is hidden  *)
(* and the order, which the storage of the browser keeps, the projects     *)
(* folded and the container whose log is open.                             *)
(*                                                                         *)
(* A name is a number in the order of the names, not unique across servers;*)
(* a search is the set of names it matches.  StreamReconnect has the log,  *)
(* EditCatalog the start, stop and restart, ReadCatalog the order of the   *)
(* answers; the texts of a state are left out.                             *)
(***************************************************************************)
EXTENDS FiniteSets, Functions, Integers, Sequences

CONSTANTS
  Leituras,  \* bound: the lists the server may answer, sets of containers
  Buscas     \* bound: what may be searched for

Nulo == -1
SemContainer == [id |-> 0]
NO_PROJECT == "Sem Projeto"

\* What the constants must be: a list is finite and an identifier is of one container.
ConstantesOk ==
  \A l \in Leituras :
    /\ IsFiniteSet(l)
    /\ \A c \in l : c.id \in Nat /\ c.name \in Nat /\ c.cpu \in Nat \cup {Nulo} /\ c.mem \in Nat
    /\ \A a, b \in l : a.id = b.id => a = b

VARIABLES
  containers, search, prefs,
  guardado,     \* what the storage holds under the key of the preferences
  aceita,       \* whether the storage takes what is written
  recolhidos,   \* the projects folded by a click
  selecionado   \* the container whose log is open, as it was when it was clicked

vars == <<containers, search, prefs, guardado, aceita, recolhidos, selecionado>>

-----------------------------------------------------------------------------
SORT_FIELDS == {"name", "cpu", "mem"}
DIRECTIONS  == {"asc", "desc"}
Prefs == [hideStopped : BOOLEAN, sortBy : SORT_FIELDS, direction : DIRECTIONS]
DEFAULT_CONTAINER_PREFS == [hideStopped |-> FALSE, sortBy |-> "name", direction |-> "asc"]

\* Nothing there, and a text that does not parse or is of another version.
Estranhos == {[tipo |-> "ausente"], [tipo |-> "corrompido"]}

LoadContainerPrefs == IF guardado \in Prefs THEN guardado ELSE DEFAULT_CONTAINER_PREFS

SaveContainerPrefs(p) == guardado' = IF aceita THEN p ELSE guardado

-----------------------------------------------------------------------------
Sinal == IF prefs.direction = "asc" THEN 1 ELSE -1

\* Mutant: what was not measured comes first when the direction is turned.
CompararNumeros_ComSinal(a, b, sinal) ==
  IF a = Nulo /\ b = Nulo THEN 0
  ELSE IF a = Nulo THEN sinal
  ELSE IF b = Nulo THEN -sinal ELSE sinal * (a - b)

\* compararNumeros: what was not measured comes last whatever the direction.
CompararNumeros(a, b, sinal) ==
  IF a = Nulo /\ b = Nulo THEN 0
  ELSE IF a = Nulo THEN 1
  ELSE IF b = Nulo THEN -1 ELSE sinal * (a - b)

\* compare, with the place in the answer for a sort that keeps it.
Compare(a, b) ==
  LET porValor == IF prefs.sortBy = "name" THEN Sinal * (a.name - b.name)
                  ELSE CompararNumeros(a[prefs.sortBy], b[prefs.sortBy], Sinal)
  IN IF porValor # 0 THEN porValor
     ELSE IF a.name # b.name THEN a.name - b.name ELSE a.id - b.id

Antes(a, b) == Compare(a, b) < 0

Visivel(c) == c.name \in search /\ (prefs.hideStopped => c.rodando)
Visiveis   == {c \in containers : Visivel(c)}
Projeto(c) == IF c.project = "" THEN NO_PROJECT ELSE c.project
DoProjeto(p) == {c \in Visiveis : Projeto(c) = p}

Consumo(c) == IF c.cpu = Nulo THEN 0 ELSE c.cpu
TotalDeMemoria(cs) == SumFunction([c \in cs |-> c.mem])

\* The rows of some containers: the one way of putting them in the order chosen.
EmOrdem(cs) ==
  CHOOSE fila \in [1..Cardinality(cs) -> cs] : \A i, j \in DOMAIN fila : i < j => Antes(fila[i], fila[j])

\* groupContainers: the rows of a project in order, and what its header adds up.
GroupContainers ==
  [p \in {Projeto(c) : c \in Visiveis} |->
     [containers |-> EmOrdem(DoProjeto(p)),
      cpuTotal |-> SumFunction([c \in DoProjeto(p) |-> Consumo(c)]),
      memTotal |-> TotalDeMemoria(DoProjeto(p))]]

\* The rows on screen: those of the projects that are not folded.
Linhas == {c \in Visiveis : Projeto(c) \notin recolhidos}

\* liveSelected: the container of the last list with the identifier of the one clicked.
LiveSelected ==
  LET agora == {c \in containers : c.id = selecionado.id}
  IN IF agora = {} THEN selecionado ELSE CHOOSE c \in agora : TRUE

-----------------------------------------------------------------------------
TypeOK ==
  /\ containers \in Leituras \cup {{}} /\ search \in Buscas /\ prefs \in Prefs
  /\ guardado \in Prefs \cup Estranhos /\ aceita \in BOOLEAN
  /\ recolhidos \subseteq {Projeto(c) : c \in UNION Leituras}
  /\ selecionado \in (UNION Leituras) \cup {SemContainer} /\ LiveSelected.id = selecionado.id

\* The page opens with the preferences the storage has.
Monta ==
  /\ containers' = {} /\ prefs' = LoadContainerPrefs
  /\ \E b \in Buscas : search' = b /\ \A outra \in Buscas : outra \subseteq b
  /\ recolhidos' = {} /\ selecionado' = SemContainer

Init ==
  /\ guardado \in Prefs \cup Estranhos /\ aceita \in BOOLEAN
  /\ containers = {} /\ prefs = LoadContainerPrefs
  /\ search \in {b \in Buscas : \A outra \in Buscas : outra \subseteq b}
  /\ recolhidos = {} /\ selecionado = SemContainer

Recarrega == Monta /\ UNCHANGED <<guardado, aceita>>

\* fetchMetrics, at the first reading and at every turn of the interval.
FetchMetrics ==
  /\ containers' \in Leituras
  /\ UNCHANGED <<search, prefs, guardado, aceita, recolhidos, selecionado>>

Busca ==
  /\ search' \in Buscas
  /\ UNCHANGED <<containers, prefs, guardado, aceita, recolhidos, selecionado>>

\* updatePrefs writes the preferences as they are with the change.
UpdatePrefs(p) ==
  /\ prefs' = p /\ SaveContainerPrefs(p)
  /\ UNCHANGED <<containers, search, aceita, recolhidos, selecionado>>

OcultaOuMostra == UpdatePrefs([prefs EXCEPT !.hideStopped = ~@])

Ordena ==
  \E campo \in SORT_FIELDS, sentido \in DIRECTIONS :
    UpdatePrefs([prefs EXCEPT !.sortBy = campo, !.direction = sentido])

ToggleProject ==
  /\ \E p \in DOMAIN GroupContainers :
       recolhidos' = IF p \in recolhidos THEN recolhidos \ {p} ELSE recolhidos \cup {p}
  /\ UNCHANGED <<containers, search, prefs, guardado, aceita, selecionado>>

\* The log is opened from a row, from another while it covers the table, and closed.
SelecionarContainer ==
  /\ selecionado' \in (Linhas \cup {SemContainer}) \ {selecionado}
  /\ UNCHANGED <<containers, search, prefs, guardado, aceita, recolhidos>>

Next ==
  \/ Recarrega \/ FetchMetrics \/ Busca \/ OcultaOuMostra \/ Ordena
  \/ ToggleProject \/ SelecionarContainer

Spec == Init /\ [][Next]_vars

-----------------------------------------------------------------------------
\* Whatever the storage held at first, opening the page again gives the preferences on
\* screen, unless the storage refuses to write.
PreferenciaVolta == aceita => LoadContainerPrefs = prefs

\* In a project the rows are in order with what was not measured at the end, in either
\* direction (containers.test.ts, 'põe o nulo no fim nos dois sentidos'), and the headers
\* add up to the rows that pass the filters, once each.
OrdemESoma ==
  LET grupos == GroupContainers
      medida(c) == c[prefs.sortBy]
      ordenadas(a, b) ==
        \/ medida(b) = Nulo
        \/ medida(a) # Nulo /\ (IF Sinal = 1 THEN medida(a) <= medida(b) ELSE medida(a) >= medida(b))
  IN /\ \A p \in DOMAIN grupos : \A i, j \in DOMAIN grupos[p].containers :
          i < j => ordenadas(grupos[p].containers[i], grupos[p].containers[j])
     /\ SumFunction([p \in DOMAIN grupos |-> grupos[p].memTotal]) = TotalDeMemoria(Visiveis)
     /\ SumFunction([p \in DOMAIN grupos |-> Len(grupos[p].containers)]) = Cardinality(Visiveis)
=============================================================================
