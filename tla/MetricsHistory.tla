---------------------------- MODULE MetricsHistory ----------------------------
(***************************************************************************)
(* What the history of metrics asks for                                    *)
(* (frontend/src/components/MetricsHistoryView.tsx, lib/metrics.ts,        *)
(* lib/catalogo.ts): the server, the metric and the window, ready or of    *)
(* the user's own, each chosen on its own, and the readings they lead to.  *)
(* A metric outside the trend has samples of seven days only.              *)
(*                                                                         *)
(* The catalogue is read once and shared; before it arrives there is no    *)
(* metric.  An instant is a number, 0 the field left empty.  ViewReads has *)
(* the readings themselves, EditCatalog the annotations.                   *)
(***************************************************************************)
EXTENDS Integers

CONSTANTS
  Servidores,
  Metricas,      \* those of the catalogue that are not of a container
  Primeira,      \* the first of them
  ComTendencia,  \* those in the hourly trend
  Instantes      \* bound: what may be typed as an instant

Vazio == 0

\* What the constants must be.
ConstantesOk ==
  /\ Primeira \in ComTendencia /\ ComTendencia \subseteq Metricas
  /\ "" \notin Metricas \cup Servidores
  /\ Instantes \subseteq Nat

VARIABLES
  catalogo,    \* whether the catalogue arrived, or its reading failed
  servers,     \* whether the servers arrived
  serverId, escolhida, range,
  customFrom, customTo, custom, customError,
  consulta     \* the reading the choices last led to

vars == <<catalogo, servers, serverId, escolhida, range, customFrom, customTo, custom,
          customError, consulta>>

-----------------------------------------------------------------------------
HISTORY_RANGES == {"1h", "6h", "24h", "7d", "30d", "90d"}
CUSTOM         == "custom"
SemTendenciaNaoTem == {"30d", "90d"}

SemConsulta   == [metric |-> ""]
NenhumPeriodo == [from |-> Vazio, to |-> Vazio]

\* metric: what was chosen, or the first of the catalogue.
Metric(c, m) == IF m # "" THEN m ELSE IF c = "lido" THEN Primeira ELSE ""

\* catalogo.buscar finds nothing until the catalogue arrives.
JanelaIndisponivel(m, r) ==
  catalogo = "lido" /\ m \in Metricas /\ m \notin ComTendencia /\ r \in SemTendenciaNaoTem

\* janela: the ready one, or the period that was applied.
Janela(r, c) == IF r = CUSTOM THEN [tipo |-> "periodo", from |-> c.from, to |-> c.to]
                ELSE [tipo |-> "pronta", range |-> r]

\* useMetricSeries: a reading for a server, a metric and a window.
Consulta(c, s, m, r, p) ==
  consulta' = IF s = "" \/ Metric(c, m) = "" \/ (r = CUSTOM /\ p = NenhumPeriodo)
              THEN SemConsulta ELSE [metric |-> Metric(c, m), janela |-> Janela(r, p)]

-----------------------------------------------------------------------------
Init ==
  /\ catalogo = "indo" /\ servers = FALSE /\ serverId = "" /\ escolhida = "" /\ range = "1h"
  /\ customFrom = Vazio /\ customTo = Vazio /\ custom = NenhumPeriodo /\ customError = FALSE
  /\ consulta = SemConsulta

\* carregarCatalogo: a reading that failed is not kept for the next view.
CarregarCatalogo(ok) ==
  /\ catalogo = "indo"
  /\ catalogo' = IF ok THEN "lido" ELSE "erro"
  /\ Consulta(catalogo', serverId, escolhida, range, custom)
  /\ UNCHANGED <<servers, serverId, escolhida, range, customFrom, customTo, custom, customError>>

\* fetchServers: the first server, where none is chosen.
FetchServers(s) ==
  /\ ~servers /\ servers' = TRUE
  /\ serverId' = IF serverId = "" THEN s ELSE serverId
  /\ Consulta(catalogo, serverId', escolhida, range, custom)
  /\ UNCHANGED <<catalogo, escolhida, range, customFrom, customTo, custom, customError>>

SetServerId(s) ==
  /\ servers /\ s # serverId
  /\ serverId' = s
  /\ Consulta(catalogo, s, escolhida, range, custom)
  /\ UNCHANGED <<catalogo, servers, escolhida, range, customFrom, customTo, custom, customError>>

\* Mutant: the window stays as it was.
RangeAoEscolher_Fica(nova) == range

\* The window a metric is left with.
RangeAoEscolher(nova) ==
  IF range # CUSTOM /\ JanelaIndisponivel(nova, range) THEN "7d" ELSE range

\* The options are those of the catalogue.
EscolherMetrica(nova) ==
  /\ catalogo = "lido" /\ nova # escolhida
  /\ escolhida' = nova
  /\ range' = RangeAoEscolher(nova)
  /\ Consulta(catalogo, serverId, nova, range', custom)
  /\ UNCHANGED <<catalogo, servers, serverId, customFrom, customTo, custom, customError>>

\* rangeButton, off for a window the metric lacks.
RangeButton(r) ==
  /\ r # range
  /\ r # CUSTOM => ~JanelaIndisponivel(Metric(catalogo, escolhida), r)
  /\ range' = r
  /\ Consulta(catalogo, serverId, escolhida, r, custom)
  /\ UNCHANGED <<catalogo, servers, serverId, escolhida, customFrom, customTo, custom, customError>>

Preenche(de, ate) ==
  /\ range = CUSTOM
  /\ customFrom' = de /\ customTo' = ate
  /\ UNCHANGED <<catalogo, servers, serverId, escolhida, range, custom, customError, consulta>>

\* applyCustom: a period refused leaves the one of before.
ApplyCustom ==
  /\ range = CUSTOM
  /\ IF customFrom = Vazio \/ (customTo # Vazio /\ customTo <= customFrom)
     THEN customError' = TRUE /\ UNCHANGED <<custom, consulta>>
     ELSE /\ customError' = FALSE
          /\ custom' = [from |-> customFrom, to |-> customTo]
          /\ Consulta(catalogo, serverId, escolhida, range, custom')
  /\ UNCHANGED <<catalogo, servers, serverId, escolhida, range, customFrom, customTo>>

Next ==
  \/ \E ok \in BOOLEAN : CarregarCatalogo(ok)
  \/ \E s \in Servidores : FetchServers(s) \/ SetServerId(s)
  \/ \E m \in Metricas : EscolherMetrica(m)
  \/ \E r \in HISTORY_RANGES \cup {CUSTOM} : RangeButton(r)
  \/ \E de, ate \in Instantes \cup {Vazio} : Preenche(de, ate)
  \/ ApplyCustom

Spec == Init /\ [][Next]_vars

-----------------------------------------------------------------------------
TypeOK ==
  /\ catalogo \in {"indo", "lido", "erro"} /\ servers \in BOOLEAN
  /\ serverId \in Servidores \cup {""} /\ escolhida \in Metricas \cup {""}
  /\ range \in HISTORY_RANGES \cup {CUSTOM}
  /\ customFrom \in Instantes \cup {Vazio} /\ customTo \in Instantes \cup {Vazio}
  /\ custom \in [from : Instantes \cup {Vazio}, to : Instantes \cup {Vazio}]
  /\ customError \in BOOLEAN

\* Whatever the order the metric, the window and the catalogue come in, no ready-made
\* window is asked of a metric whose samples do not cover it (MetricsHistoryView.test.tsx:222),
\* and no period is asked whose two ends were typed out of order.  A period of the user's own
\* is held to nothing else: over seven days of a metric outside the trend goes out, and the
\* server refuses it (history.go:138); one with no end runs to the moment of the query, which
\* a start in the future precedes (lib/metrics.ts:82, history.go:60).
JanelaProntaCabe ==
  consulta # SemConsulta =>
    /\ consulta.janela.tipo = "pronta" =>
         consulta.metric \in ComTendencia \/ consulta.janela.range \notin SemTendenciaNaoTem
    /\ consulta.janela.tipo = "periodo" =>
         /\ consulta.janela.from # Vazio
         /\ consulta.janela.to # Vazio => consulta.janela.from < consulta.janela.to
=============================================================================
