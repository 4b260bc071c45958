------------------------------ MODULE ViewReads ------------------------------
(***************************************************************************)
(* How a view of the panel reads the backend (frontend/src/components): an *)
(* effect asks when the view appears and when the selection it depends on  *)
(* changes, most effects ask again on a timer, and some handlers and       *)
(* buttons ask once more.  Nothing orders the answers.  A view protects    *)
(* itself by cancelling the requests of the effect it leaves, and each one *)
(* does it in its own way: the way of each reading is a record of ReadCatalog,  *)
(* and the actions below run any of them.                                  *)
(*                                                                         *)
(* The data is the selection it was read for and the version the server    *)
(* had when it answered.  A cancelled request never answers: fetch rejects *)
(* before its continuation runs, and the flag of the effects without an    *)
(* AbortController drops the answer.  The extra "reloading" mark of two    *)
(* charts and writes to a view that has gone are left out: React drops the *)
(* second.                                                                 *)
(***************************************************************************)
EXTENDS Integers

CONSTANTS
  Chaves,      \* the selections: a unit, a server, a range, a filter
  Vagas,       \* bound: slots for the requests in flight at once
  MaxEventos,  \* bound: selections, writes at the server, reloads and failures
  Leituras     \* the readings to run, each a record of ModoDeLeitura

VARIABLES
  leitura,    \* which reading this is; it never changes
  chave,      \* the current selection
  versao,     \* the version of the data at the server
  pedidos,    \* the requests in flight, by slot
  dados,      \* what the view holds
  erro,       \* whether LoadNotice shows a failure
  primeira,   \* the loading flag that the first answer clears
  concluido,  \* the selection the last answer was for
  eventos     \* bounded events so far

vars == <<leitura, chave, versao, pedidos, dados, erro, primeira, concluido, eventos>>

-----------------------------------------------------------------------------
\* How a reading asks, cancels, fails and waits.  espera: no loading state, a flag for
\* the first answer, or a comparison of the selection with the one last concluded.
ModoDeLeitura ==
  [porChave   : BOOLEAN,   \* the effect runs again when the selection changes
   sinal      : BOOLEAN,   \* its requests are cancelled when it is left
   timer      : BOOLEAN,   \* setInterval asks again
   timerSinal : BOOLEAN,   \* ... and those requests are cancelled too
   recarga    : BOOLEAN,   \* a handler or button asks again, with nothing to cancel it
   limpa      : BOOLEAN,   \* a failure empties the data
   avisa      : BOOLEAN,   \* a failure is shown
   espera     : {"nenhuma", "primeira", "chave"},
   esconde    : BOOLEAN]   \* waiting hides what was there before

Livre == [fase |-> "livre"]

Pedido ==
  [fase : {"indo"}, chave : Chaves, sinal : BOOLEAN]
    \cup [fase : {"voltando"}, chave : Chaves, sinal : BOOLEAN, versao : 0..MaxEventos, ok : BOOLEAN]

SemDados == [chave |-> "nenhuma"]
Lidos    == [chave : Chaves, versao : 0..MaxEventos]

Nenhuma == "nenhuma"
\* What the constants must be.
ConstantesOk == Nenhuma \notin Chaves /\ MaxEventos \in Nat /\ Leituras \subseteq ModoDeLeitura

TypeOK ==
  /\ leitura \in Leituras
  /\ chave \in Chaves
  /\ versao \in 0..MaxEventos
  /\ pedidos \in [Vagas -> Pedido \cup {Livre}]
  /\ dados \in Lidos \cup {SemDados}
  /\ erro \in BOOLEAN
  /\ primeira \in BOOLEAN
  /\ concluido \in Chaves \cup {Nenhuma}
  /\ eventos \in 0..MaxEventos

-----------------------------------------------------------------------------
EmVoo(v) == pedidos[v] # Livre

\* Whether the view says it is loading.
Carregando ==
  \/ leitura.espera = "primeira" /\ primeira
  \/ leitura.espera = "chave" /\ concluido # chave

\* The data on screen.
Desenhados == IF leitura.esconde /\ Carregando THEN SemDados ELSE dados

Pergunta(v, k, comSinal) == [pedidos EXCEPT ![v] = [fase |-> "indo", chave |-> k, sinal |-> comSinal]]

Init ==
  /\ leitura \in Leituras
  /\ chave \in Chaves
  /\ \E v \in Vagas :
       pedidos = [w \in Vagas |-> IF w = v THEN [fase |-> "indo", chave |-> chave, sinal |-> leitura.sinal]
                                           ELSE Livre]
  /\ versao = 0 /\ eventos = 0
  /\ dados = SemDados /\ erro = FALSE
  /\ primeira = TRUE /\ concluido = Nenhuma

Evento == eventos < MaxEventos /\ eventos' = eventos + 1

\* Mutant: the clean-up cancels nothing.
Cancelados_Nada == {}

\* The clean-up of the effect cancels what carries its token, and the effect asks for
\* the new selection.  A rejected request still runs finally(() => setLoading(false)).
Cancelados == {v \in Vagas : EmVoo(v) /\ pedidos[v].sinal}

TrocaChave ==
  /\ leitura.porChave /\ Evento
  /\ \E k \in Chaves \ {chave}, v \in Vagas :
       /\ ~EmVoo(v) \/ v \in Cancelados
       /\ chave' = k
       /\ pedidos' = [w \in Vagas |->
            IF w = v THEN [fase |-> "indo", chave |-> k, sinal |-> leitura.sinal]
            ELSE IF w \in Cancelados THEN Livre ELSE pedidos[w]]
  /\ primeira' = (primeira /\ Cancelados = {})
  /\ UNCHANGED <<leitura, versao, dados, erro, concluido>>

\* setInterval: the closure of the effect, so the current selection.
Repete ==
  /\ leitura.timer
  /\ \E v \in Vagas : ~EmVoo(v) /\ pedidos' = Pergunta(v, chave, leitura.timerSinal)
  /\ UNCHANGED <<leitura, chave, versao, dados, erro, primeira, concluido, eventos>>

\* A reload after an action runs the closure of the render the action began in, which
\* may be of an earlier selection.
Recarrega ==
  /\ leitura.recarga /\ Evento
  /\ \E v \in Vagas, k \in IF leitura.porChave THEN Chaves ELSE {chave} :
       ~EmVoo(v) /\ pedidos' = Pergunta(v, k, FALSE)
  /\ UNCHANGED <<leitura, chave, versao, dados, erro, primeira, concluido>>

ServidorMuda ==
  /\ Evento
  /\ versao' = versao + 1
  /\ UNCHANGED <<leitura, chave, pedidos, dados, erro, primeira, concluido>>

\* The request settles: the server read its data, or the request failed.
Assenta(v, ok) ==
  /\ pedidos[v].fase = "indo"
  /\ pedidos' = [pedidos EXCEPT ![v] =
       [fase |-> "voltando", chave |-> @.chave, sinal |-> @.sinal, versao |-> versao, ok |-> ok]]
  /\ UNCHANGED <<leitura, chave, versao, dados, erro, primeira, concluido>>

Responde(v) == Assenta(v, TRUE) /\ UNCHANGED eventos
Falha(v)    == Evento /\ Assenta(v, FALSE)

\* Mutant: the failure of before stays on screen.
RecebeOk_ErroFica(v) ==
  /\ pedidos[v].fase = "voltando" /\ pedidos[v].ok
  /\ dados' = [chave |-> pedidos[v].chave, versao |-> pedidos[v].versao]
  /\ erro' = erro

\* .then, .catch and .finally of the reading, useLoadStatus included.
RecebeOk(v) ==
  /\ pedidos[v].fase = "voltando" /\ pedidos[v].ok
  /\ dados' = [chave |-> pedidos[v].chave, versao |-> pedidos[v].versao]
  /\ erro' = FALSE

\* Mutant: the failure is swallowed.
RecebeFalha_SemAviso(v) ==
  /\ pedidos[v].fase = "voltando" /\ ~pedidos[v].ok
  /\ dados' = IF leitura.limpa THEN SemDados ELSE dados
  /\ erro' = erro

RecebeFalha(v) ==
  /\ pedidos[v].fase = "voltando" /\ ~pedidos[v].ok
  /\ dados' = IF leitura.limpa THEN SemDados ELSE dados
  /\ erro' = (erro \/ leitura.avisa)

Recebe(v) ==
  /\ RecebeOk(v) \/ RecebeFalha(v)
  /\ primeira' = FALSE
  /\ concluido' = pedidos[v].chave
  /\ pedidos' = [pedidos EXCEPT ![v] = Livre]
  /\ UNCHANGED <<leitura, chave, versao, eventos>>

Next ==
  \/ TrocaChave \/ Repete \/ Recarrega \/ ServidorMuda
  \/ \E v \in Vagas : Responde(v) \/ Falha(v) \/ Recebe(v)

Spec == Init /\ [][Next]_vars

\* The browser fires the interval while the view is there, and every fetch settles.
Justica == WF_vars(Repete) /\ \A v \in Vagas : WF_vars(Responde(v)) /\ WF_vars(Recebe(v))
FairSpec == Spec /\ Justica

-----------------------------------------------------------------------------
\* A reading that no answer of an earlier selection can disturb: every request it makes
\* is cancelled, or an answer for another selection puts it back to waiting and hides it.
Protegida ==
  \/ leitura.sinal /\ (leitura.timer => leitura.timerSinal) /\ ~leitura.recarga
  \/ leitura.espera = "chave" /\ leitura.esconde

Pendente == \E v \in Vagas : EmVoo(v) /\ pedidos[v].chave = chave

\* Whatever the order of the answers, the data of a selection the user has left passes: a
\* view that hides what it waits for never draws it, and a protected one draws it only while
\* the answer for the new selection is in flight, or under the failure of that answer.  Not
\* every view marks the wait: the disk history of Dashboard and the chart of InterfacesDeRede
\* draw the old series under the new title until the answer arrives.
OutraChavePassa ==
  leitura.porChave =>
    /\ leitura.espera = "chave" /\ leitura.esconde /\ leitura.limpa => Desenhados.chave \in {chave, Nenhuma}
    /\ Protegida /\ leitura.avisa => Desenhados.chave \in {chave, Nenhuma} \/ erro \/ Pendente

\* A failed reading never looks like an empty list: a view with nothing to draw that is
\* not loading shows the failure, or waits for an answer (falhasDeLeitura.test.tsx).
FalhaNuncaViraVazio ==
  leitura.avisa /\ dados = SemDados => erro \/ Carregando \/ Pendente

EmDia == dados = [chave |-> chave, versao |-> versao] /\ ~erro /\ ~Carregando

\* Once the server, the selection and the failures rest, a reading with a timer ends up
\* drawing what the server has, and a cancelled one without it the selection it shows or
\* its failure, whatever the order the answers came in.
Repetida    == leitura.timer
Cancelada   == leitura.sinal /\ ~leitura.recarga
DaSelecao   == dados.chave = chave \/ erro
TelaChega   == (Repetida => <>[]EmDia) /\ (Cancelada => <>[]DaSelecao)
=============================================================================
