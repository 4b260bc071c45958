------------------------------ MODULE ViewEdits ------------------------------
(***************************************************************************)
(* How a view of the panel writes to the backend: a handler of             *)
(* frontend/src/components asks with a dialog, or not, raises a busy flag, *)
(* or not, sends what the user saw when he clicked, and on success reads   *)
(* again, applies the answer, or does nothing.  The way of each handler is *)
(* a record of EditCatalog; ui/DialogProvider.tsx keeps one dialog, and a  *)
(* second one takes its place without an answer to the first.              *)
(*                                                                         *)
(* The data is a set of items: rows, switches that are on, addresses of a  *)
(* machine.  A handler inserts or removes one item, by itself or as the    *)
(* whole list the user saw without it or with it.  Another administrator   *)
(* may write at any time; the keyboard reaches the page under a dialog.    *)
(* The view starts from what it has just read, or from any old list with   *)
(* the reading it makes when it is drawn still in flight.                  *)
(***************************************************************************)
EXTENDS FiniteSets, Integers

CONSTANTS
  Itens,       \* what a handler inserts or removes
  Mesas,       \* bound: slots for the operations in course at once
  MaxCliques,  \* bound: operations begun
  MaxAlheios,  \* bound: writes of others, refusals and failures
  Edicoes      \* the handlers to run, each a record of ModoDeEdicao

ModoDeEdicao ==
  [pergunta : {"nunca", "ao tirar", "sempre"},  \* when it waits for a dialog
   trava    : BOOLEAN,                          \* a busy flag disables the control
   porItem  : BOOLEAN,                          \* ... of the item only, one flag per row
   lista    : BOOLEAN,                          \* it sends the whole list
   exige    : BOOLEAN,                          \* ... and refuses when it read none
   depois   : {"le", "le e espera", "agenda", "agenda e espera", "aplica", "nada"},
   limpa    : BOOLEAN,                          \* a failed reading leaves an empty list
   timer    : BOOLEAN]                          \* a timer reads again

\* What the constants must be.
ConstantesOk == Mesas \subseteq Nat \ {0} /\ Edicoes \subseteq ModoDeEdicao /\ MaxCliques \in Nat /\ MaxAlheios \in Nat

VARIABLES
  edicao,    \* which handler this is; it never changes
  servidor,  \* the items at the server
  vista,     \* the items the view holds
  dialogo,   \* the operation whose dialog is on screen
  mesa,      \* operations in course, by slot, and the reading of the view's own
  ocupado,   \* the items whose busy flag is up: all of them, when the view has one flag
  cliques, alheios

vars == <<edicao, servidor, vista, dialogo, mesa, ocupado, cliques, alheios>>

Vazia   == [fase |-> "vazia"]
Fechado == 0
Relogio == -1
Todas   == Mesas \cup {Relogio}
Pergunta == [fase : {"perguntando", "indo"}, item : Itens, pedida : SUBSET Itens]
Volta    == [fase : {"voltando"}, item : Itens, pedida : SUBSET Itens, ok : BOOLEAN]
\* A reading, with the flags that come down when it ends (when it starts, if it was
\* scheduled).
Leitura  == [fase : {"agendada", "lendo"}, tranca : SUBSET Itens]
              \cup [fase : {"lida"}, tranca : SUBSET Itens, lida : SUBSET Itens]

Lendo(tranca) == [fase |-> "lendo", tranca |-> tranca]

TypeOK ==
  /\ edicao \in Edicoes
  /\ servidor \subseteq Itens /\ vista \subseteq Itens
  /\ mesa \in [Todas -> Pergunta \cup Leitura \cup Volta \cup {Vazia}]
  /\ dialogo \in Mesas \cup {Fechado}
  /\ dialogo # Fechado => mesa[dialogo].fase = "perguntando"
  /\ ocupado \subseteq Itens
  /\ cliques \in 0..MaxCliques /\ alheios \in 0..MaxAlheios

Init ==
  /\ edicao \in Edicoes
  /\ servidor \in SUBSET Itens /\ vista \in SUBSET Itens
  /\ \/ vista = servidor /\ mesa = [v \in Todas |-> Vazia]
     \/ mesa = [v \in Todas |-> IF v = Relogio THEN Lendo({}) ELSE Vazia]
  /\ dialogo = Fechado
  /\ ocupado = {} /\ cliques = 0 /\ alheios = 0

\* The item put in or taken out of a list.
Com(lista, x, dentro) == IF dentro THEN lista \cup {x} ELSE lista \ {x}

Poe(v, m) == mesa' = [mesa EXCEPT ![v] = m]

PedeDialogo(x) ==
  edicao.pergunta = "sempre" \/ (edicao.pergunta = "ao tirar" /\ x \in vista)

\* What setBusy(true) and setBusy(false) of an operation on x touch: the row, or the view.
Tranca(x) ==
  IF ~edicao.trava THEN {} ELSE IF edicao.porItem THEN {x} ELSE Itens

\* Mutant: the control is never disabled.
Travado_Nunca(x) == FALSE

\* disabled={busy}
Travado(x) == Tranca(x) \cap ocupado # {}

\* The handler runs with what the render it belongs to shows.  confirm and prompt put
\* their dialog in the place of any other (DialogProvider).
Clica(v, x) ==
  /\ mesa[v] = Vazia /\ cliques < MaxCliques /\ cliques' = cliques + 1
  /\ ~Travado(x)
  /\ ~(edicao.exige /\ vista = {})
  /\ LET pedida == Com(IF edicao.lista THEN vista ELSE {}, x, x \notin vista)
     IN Poe(v, [fase |-> IF PedeDialogo(x) THEN "perguntando" ELSE "indo", item |-> x, pedida |-> pedida])
  /\ dialogo' = IF PedeDialogo(x) THEN v ELSE dialogo
  /\ ocupado' = IF PedeDialogo(x) THEN ocupado ELSE ocupado \cup Tranca(x)
  /\ UNCHANGED <<edicao, servidor, vista, alheios>>

\* settle(accepted): the flag is raised after the answer, never before it.
Settle(aceito) ==
  /\ dialogo # Fechado /\ dialogo' = Fechado
  /\ Poe(dialogo, IF aceito THEN [mesa[dialogo] EXCEPT !.fase = "indo"] ELSE Vazia)
  /\ ocupado' = IF aceito THEN ocupado \cup Tranca(mesa[dialogo].item) ELSE ocupado
  /\ UNCHANGED <<edicao, servidor, vista, cliques, alheios>>

\* The server executes the request: one row by its id, or the whole list.
Gravado(m) == IF edicao.lista THEN m.pedida ELSE Com(servidor, m.item, m.item \in m.pedida)

Responde(v, ok) ==
  Poe(v, [fase |-> "voltando", item |-> mesa[v].item, pedida |-> mesa[v].pedida, ok |-> ok])

Executa(v) ==
  /\ mesa[v].fase = "indo"
  /\ servidor' = Gravado(mesa[v])
  /\ Responde(v, TRUE)
  /\ UNCHANGED <<edicao, vista, dialogo, ocupado, cliques, alheios>>

\* A refusal, or an answer lost on its way after the server executed it.
Recusa(v) ==
  /\ mesa[v].fase = "indo" /\ alheios < MaxAlheios /\ alheios' = alheios + 1
  /\ servidor' \in {servidor, Gravado(mesa[v])}
  /\ Responde(v, FALSE)
  /\ UNCHANGED <<edicao, vista, dialogo, ocupado, cliques>>

Aplicada(m) == IF edicao.lista THEN m.pedida ELSE Com(vista, m.item, m.item \in m.pedida)

\* Whether the flag waits for the reading that follows, or for its timer.
Espera(m) == edicao.depois = "agenda e espera" \/ (m.ok /\ edicao.depois = "le e espera")

\* Mutant: no finally, a refusal leaves the flag up.
Solta_SemFinally(m) == IF m.ok /\ ~Espera(m) THEN Tranca(m.item) ELSE {}

\* The finally of the handler.
Solta(m) == IF Espera(m) THEN {} ELSE Tranca(m.item)

\* What is left of the operation: the reading of its success, at once or by a timer, which
\* the revalidation of every certificate sets after a failure too.
Resto(m) ==
  LET tranca == IF Espera(m) THEN Tranca(m.item) ELSE {}
  IN IF edicao.depois = "agenda e espera" \/ (m.ok /\ edicao.depois = "agenda")
     THEN [fase |-> "agendada", tranca |-> tranca]
     ELSE IF m.ok /\ edicao.depois \in {"le", "le e espera"} THEN Lendo(tranca) ELSE Vazia

\* After the await: what the handler does with a success, and its catch and finally.
Termina(v) ==
  /\ mesa[v].fase = "voltando"
  /\ vista' = IF mesa[v].ok /\ edicao.depois = "aplica" THEN Aplicada(mesa[v]) ELSE vista
  /\ Poe(v, Resto(mesa[v]))
  /\ ocupado' = ocupado \ Solta(mesa[v])
  /\ UNCHANGED <<edicao, servidor, dialogo, cliques, alheios>>

\* setTimeout: the reading begins, and the flag comes down without waiting for it.
Dispara(v) ==
  /\ mesa[v].fase = "agendada"
  /\ Poe(v, Lendo({}))
  /\ ocupado' = ocupado \ mesa[v].tranca
  /\ UNCHANGED <<edicao, servidor, vista, dialogo, cliques, alheios>>

Le(v) ==
  /\ mesa[v].fase = "lendo"
  /\ Poe(v, [fase |-> "lida", tranca |-> mesa[v].tranca, lida |-> servidor])
  /\ UNCHANGED <<edicao, servidor, vista, dialogo, ocupado, cliques, alheios>>

LeituraFalha(v) ==
  /\ mesa[v].fase = "lendo" /\ alheios < MaxAlheios /\ alheios' = alheios + 1
  /\ Poe(v, Vazia)
  /\ vista' = IF edicao.limpa THEN {} ELSE vista
  /\ ocupado' = ocupado \ mesa[v].tranca
  /\ UNCHANGED <<edicao, servidor, dialogo, cliques>>

Mostra(v) ==
  /\ mesa[v].fase = "lida"
  /\ vista' = mesa[v].lida
  /\ Poe(v, Vazia)
  /\ ocupado' = ocupado \ mesa[v].tranca
  /\ UNCHANGED <<edicao, servidor, dialogo, cliques, alheios>>

\* setInterval
Repete ==
  /\ edicao.timer /\ mesa[Relogio] = Vazia
  /\ Poe(Relogio, Lendo({}))
  /\ UNCHANGED <<edicao, servidor, vista, dialogo, ocupado, cliques, alheios>>

Alheio(x) ==
  /\ alheios < MaxAlheios /\ alheios' = alheios + 1
  /\ servidor' = Com(servidor, x, x \notin servidor)
  /\ UNCHANGED <<edicao, vista, dialogo, mesa, ocupado, cliques>>

Next ==
  \/ \E aceito \in BOOLEAN : Settle(aceito)
  \/ \E x \in Itens : Alheio(x)
  \/ \E v \in Mesas :
       \/ \E x \in Itens : Clica(v, x)
       \/ Executa(v) \/ Recusa(v) \/ Termina(v) \/ Dispara(v)
  \/ \E v \in Todas : Le(v) \/ LeituraFalha(v) \/ Mostra(v)
  \/ Repete

Spec == Init /\ [][Next]_vars

\* Requests settle and timers fire; nobody has to answer a dialog.
Justica ==
  /\ \A v \in Mesas : WF_vars(Executa(v)) /\ WF_vars(Termina(v)) /\ WF_vars(Dispara(v))
  /\ \A v \in Todas : WF_vars(Le(v)) /\ WF_vars(Mostra(v))
  /\ WF_vars(Repete)
FairSpec == Spec /\ Justica

-----------------------------------------------------------------------------
\* The flags an operation holds: from the request to the finally, or to the end of the
\* reading it waits for.
Presa(m) ==
  IF m.fase \in {"indo", "voltando"} THEN Tranca(m.item)
  ELSE IF m.fase \in {"agendada", "lendo", "lida"} THEN m.tranca ELSE {}

Presas == UNION {Presa(mesa[v]) : v \in Todas}

\* A flag is up exactly while an operation holds it and two operations never hold the same
\* one, so that the finally of one never frees what another still holds, whatever dialogs
\* were replaced on the way.  The exception is the handler that asks only to stop what
\* runs: a row that changes under its dialog lets a second operation through.
TravaExata ==
  edicao.pergunta # "ao tirar" =>
    /\ ocupado = Presas
    /\ \A v, w \in Todas : v # w => Presa(mesa[v]) \cap Presa(mesa[w]) = {}

\* A busy flag always comes down: after a refusal, a lost answer and a failed reading too.
Ocupada    == ocupado # {}
OcupadoSai == Ocupada ~> ~Ocupada

\* The list that a timer reads again ends as the server has it, whatever the handlers
\* wrote in the view and whichever reading answered last.
ComRelogio == edicao.timer
EmDia      == vista = servidor
ListaChega == ComRelogio => <>[]EmDia
=============================================================================
