--------------------------- MODULE StreamReconnect ---------------------------
(***************************************************************************)
(* useStreamComReconexao (frontend/src/components/ui/stream-reconnect.ts): *)
(* the live lines of a container or of the authentication log.  Each       *)
(* selection runs the effect once more; an effect asks for a ticket and a  *)
(* source (openStream), and after a drop or a refusal arms a timer to ask  *)
(* again.  Its clean-up closes the one source and clears the one timer it  *)
(* holds; a request in flight cannot be taken back and answers to an       *)
(* effect that was cancelled.                                              *)
(*                                                                         *)
(* The effects are numbered.  Requests, sources and timers are counted per *)
(* effect, so that a second one of a kind, which nothing would close, can  *)
(* be told from the first.                                                 *)
(***************************************************************************)
EXTENDS Integers

CONSTANTS
  Fontes,      \* what may be followed: a container, the log of a server
  MaxEfeitos,  \* bound: effects run
  MaxQuedas    \* bound: drops and refusals

Nenhuma == "nenhuma"

\* What the constants must be.
ConstantesOk == MaxEfeitos \in Nat \ {0} /\ MaxQuedas \in Nat /\ Nenhuma \notin Fontes

Efeitos == 1..MaxEfeitos

VARIABLES
  atual,      \* the effect that is not cancelled
  chave,      \* what each effect follows
  pedidos,    \* requests in flight of each effect
  fontes,     \* open EventSources of each effect
  timers,     \* armed timers of each effect
  tentativa,  \* attempts of the current effect since it last connected
  estado,     \* what the view shows
  linhas,     \* whose lines the view holds
  quedas      \* bounded drops so far

vars == <<atual, chave, pedidos, fontes, timers, tentativa, estado, linhas, quedas>>

Estados == {"parado", "reconectando", "conectado"}

TypeOK ==
  /\ atual \in Efeitos
  /\ chave \in [Efeitos -> Fontes \cup {Nenhuma}]
  /\ pedidos \in [Efeitos -> Nat] /\ fontes \in [Efeitos -> Nat] /\ timers \in [Efeitos -> Nat]
  /\ tentativa \in Nat
  /\ estado \in Estados
  /\ linhas \subseteq Fontes
  /\ quedas \in 0..MaxQuedas

-----------------------------------------------------------------------------
BaseMs == 1000
TetoMs == 30000

\* esperaDoBackoff, in milliseconds; the draw is a whole number of percent points.
EsperaNominal(t) == IF t < 5 THEN BaseMs * 2^t ELSE TetoMs
EsperaDoBackoff(t, sorteio) == (EsperaNominal(t) * (100 + sorteio)) \div 100
Sorteios == {-20, 0, 20}

Mais(f, e)  == [f EXCEPT ![e] = @ + 1]
Menos(f, e) == [f EXCEPT ![e] = @ - 1]
\* Mutant: closes without looking for something to close.
Fecha_SemConferir(f, e) == [f EXCEPT ![e] = @ - 1]

Fecha(f, e) == [f EXCEPT ![e] = IF @ > 0 THEN @ - 1 ELSE 0]

Init ==
  /\ atual = 1
  /\ chave = [e \in Efeitos |-> Nenhuma]
  /\ pedidos = [e \in Efeitos |-> 0]
  /\ fontes = [e \in Efeitos |-> 0] /\ timers = [e \in Efeitos |-> 0]
  /\ tentativa = 0 /\ estado = "parado" /\ linhas = {} /\ quedas = 0

\* The clean-up of the effect, then the effect of the new selection: conectar() at once,
\* nothing when the view follows nothing or has gone.  The handlers that change the
\* selection empty the lines in the same render.
Seleciona(k) ==
  /\ atual < MaxEfeitos /\ k # chave[atual]
  /\ atual' = atual + 1
  /\ chave' = [chave EXCEPT ![atual + 1] = k]
  /\ fontes' = Fecha(fontes, atual) /\ timers' = Fecha(timers, atual)
  /\ pedidos' = IF k = Nenhuma THEN pedidos ELSE Mais(pedidos, atual + 1)
  /\ tentativa' = 0 /\ estado' = "parado" /\ linhas' = {}
  /\ UNCHANGED quedas

\* agendar(), and the same lines of the catch.
Agenda ==
  /\ timers' = Mais(timers, atual)
  /\ tentativa' = tentativa + 1
  /\ estado' = "reconectando"

\* Mutant: an effect that was left goes on as if it were not.
Cancelado_Nunca(e) == FALSE

\* `cancelado` of the effect
Cancelado(e) == e # atual

\* openStream(...).then: a cancelled effect closes what it got.
Abre(e) ==
  /\ pedidos[e] > 0
  /\ pedidos' = Menos(pedidos, e)
  /\ IF Cancelado(e) THEN UNCHANGED <<fontes, tentativa, estado>>
     ELSE fontes' = Mais(fontes, e) /\ tentativa' = 0 /\ estado' = "conectado"
  /\ UNCHANGED <<atual, chave, timers, linhas, quedas>>

\* openStream(...).catch
Recusa(e) ==
  /\ pedidos[e] > 0 /\ quedas < MaxQuedas
  /\ quedas' = quedas + 1
  /\ pedidos' = Menos(pedidos, e)
  /\ IF Cancelado(e) THEN UNCHANGED <<timers, tentativa, estado>> ELSE Agenda
  /\ UNCHANGED <<atual, chave, fontes, linhas>>

\* onerror of an open source: a closed one is silent.
Cai(e) ==
  /\ fontes[e] > 0 /\ quedas < MaxQuedas
  /\ quedas' = quedas + 1
  /\ fontes' = Menos(fontes, e)
  /\ IF Cancelado(e) THEN UNCHANGED <<timers, tentativa, estado>> ELSE Agenda
  /\ UNCHANGED <<atual, chave, pedidos, linhas>>

\* conectar() from the timer
Dispara(e) ==
  /\ timers[e] > 0
  /\ timers' = Menos(timers, e)
  /\ pedidos' = IF Cancelado(e) THEN pedidos ELSE Mais(pedidos, e)
  /\ UNCHANGED <<atual, chave, fontes, tentativa, estado, linhas, quedas>>

\* onmessage: the view appends, whoever sent it.
Mensagem(e) ==
  /\ fontes[e] > 0
  /\ linhas' = linhas \cup {chave[e]}
  /\ UNCHANGED <<atual, chave, pedidos, fontes, timers, tentativa, estado, quedas>>

Passo(e) == Abre(e) \/ Recusa(e) \/ Cai(e) \/ Dispara(e) \/ Mensagem(e)

Next ==
  \/ \E k \in Fontes \cup {Nenhuma} : Seleciona(k)
  \/ \E e \in Efeitos : Passo(e)

Spec == Init /\ [][Next]_vars

\* Timers fire and requests settle; drops and refusals are finite.
FairSpec == Spec /\ \A e \in Efeitos : WF_vars(Abre(e)) /\ WF_vars(Dispara(e))

-----------------------------------------------------------------------------
\* A view that follows something has exactly one of a request, a source and a timer, and
\* no effect it left has a source or a timer: nothing leaks, nothing doubles the lines
\* (streamReconexao.test.tsx, 'para de reconectar quando a tela sai').
SoUmaFonte ==
  /\ pedidos[atual] + fontes[atual] + timers[atual] = IF chave[atual] = Nenhuma THEN 0 ELSE 1
  /\ \A e \in Efeitos \ {atual} : fontes[e] = 0 /\ timers[e] = 0

\* Every line on screen came from what is selected, however late the answer to an earlier
\* selection was.
LinhasDaSelecao == linhas \subseteq {chave[atual]}

\* "conectado" is on screen exactly while a source is open, "reconectando" only between one.
EstadoFiel ==
  /\ estado = "conectado" <=> fontes[atual] > 0
  /\ timers[atual] > 0 => estado = "reconectando"

\* Once the selection rests and nothing drops any more, the view is connected.
Ligada         == chave[atual] # Nenhuma => estado = "conectado"
VoltaAConectar == <>[]Ligada

\* Without a connection in between, the timer armed next waits longer than this one, whatever
\* was drawn, until the ceiling, and no wait is short (stream-reconnect.test.ts, 'nunca
\* devolve laço apertado').
EsperaCresce ==
  \A s, t \in Sorteios :
    /\ 800 <= EsperaDoBackoff(tentativa, s) /\ EsperaDoBackoff(tentativa, s) <= 36000
    /\ EsperaNominal(tentativa) < TetoMs =>
         EsperaDoBackoff(tentativa, s) < EsperaDoBackoff(tentativa + 1, t)
=============================================================================
