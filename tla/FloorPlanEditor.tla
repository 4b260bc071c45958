---------------------------- MODULE FloorPlanEditor ----------------------------
(***************************************************************************)
(* The floor plans of a unit (frontend/src/components/FloorPlanView.tsx):  *)
(* the plans the view read, the current one with its pins, and the mode.   *)
(* In view mode a timer reads the pins again; in edit mode the reading is  *)
(* done once and the pins move under the user's hand until he saves.       *)
(*                                                                         *)
(* A list of plans carries no token: it answers for the unit it was asked  *)
(* for, whichever is selected by then.  The answer of a save replaces the  *)
(* pins whichever plan is current.  The image, the hosts of the unit and   *)
(* the label of a pin are left out, and one coordinate stands for the two. *)
(***************************************************************************)
EXTENDS FiniteSets, Integers

CONSTANTS
  Unidades, Plantas,
  SiteDe,      \* the unit of each plan
  Hosts,
  Largura,     \* the width of the image, in pixels
  Cliques,     \* where the pointer may be, in pixels from its left edge
  Vagas,       \* bound: slots for the requests that carry no token
  MaxAcoes     \* bound: what the user does, and failures

Nenhuma == "nenhuma"
\* What the constants must be.
ConstantesOk ==
  /\ SiteDe \in [Plantas -> Unidades] /\ Nenhuma \notin Plantas \cup Hosts \cup Unidades
  /\ Largura \in Nat \ {0} /\ Cliques \subseteq Int /\ MaxAcoes \in Nat

VARIABLES
  gravados,    \* the pins of each plan at the server; a plan that is not there has Ausente
  numericSiteId, plans, current, pins, mode, pendingHost, dirty,
  leitura,     \* the reading of pins of the current effect
  pedidos,     \* the other requests, by slot
  acoes

vars == <<gravados, numericSiteId, plans, current, pins, mode, pendingHost, dirty, leitura, pedidos, acoes>>

-----------------------------------------------------------------------------
Livre     == [tipo |-> "livre"]
Ausente   == {[host |-> Nenhuma, x |-> 0]}
Pino      == [host : Hosts, x : 0..100]
Existe(p) == p \in Plantas /\ gravados[p] # Ausente

\* One pin per host; a pin is inside the image, wherever the pointer was let go.
Marcados(ps) == \A p, q \in ps : p.host = q.host => p = q

TypeOK ==
  /\ \A p \in Plantas : gravados[p] = Ausente \/ (gravados[p] \subseteq Pino /\ Marcados(gravados[p]))
  /\ numericSiteId \in Unidades \cup {Nenhuma} /\ plans \subseteq Plantas
  /\ current \in Plantas \cup {Nenhuma}
  /\ pins \subseteq Pino /\ Marcados(pins)
  /\ mode \in {"view", "edit"} /\ dirty \in BOOLEAN /\ pendingHost \in Hosts \cup {Nenhuma}
  /\ leitura = Livre \/ (leitura.tipo \in {"indo", "voltando"} /\ leitura.plan = current)
  /\ \A v \in Vagas :
       pedidos[v].tipo \in {"livre", "planos", "grava", "gravado", "apaga", "apagado", "envia", "enviado"}
  /\ acoes \in 0..MaxAcoes

\* toPercent
Min(a, b) == IF a < b THEN a ELSE b
Max(a, b) == IF a > b THEN a ELSE b
ToPercent(clientX) == Max(0, Min(100, (clientX * 100) \div Largura))

Poe(v, p) == pedidos' = [pedidos EXCEPT ![v] = p]
Le(p)     == IF p = Nenhuma THEN Livre ELSE [tipo |-> "indo", plan |-> p]

\* loadPlans for the unit of the render; depois is the plan to open when it ends.
LoadPlans(u, depois) == [tipo |-> "planos", unidade |-> u, depois |-> depois]

Init ==
  /\ gravados \in [Plantas -> {Ausente, {}} \cup {{[host |-> h, x |-> 50]} : h \in Hosts}]
  /\ numericSiteId \in Unidades
  /\ plans = {} /\ current = Nenhuma /\ pins = {} /\ mode = "view" /\ pendingHost = Nenhuma
  /\ dirty = FALSE /\ leitura = Livre
  /\ \E v \in Vagas : pedidos = [w \in Vagas |-> IF w = v THEN LoadPlans(numericSiteId, Nenhuma) ELSE Livre]
  /\ acoes = 0

Age == acoes < MaxAcoes /\ acoes' = acoes + 1

-----------------------------------------------------------------------------
\* The unit of the sidebar: a new loadPlans; the current plan stays until it answers.
TrocaUnidade(v) ==
  /\ Age /\ pedidos[v] = Livre
  /\ \E u \in (Unidades \cup {Nenhuma}) \ {numericSiteId} :
       numericSiteId' = u /\ Poe(v, LoadPlans(u, Nenhuma))
  /\ UNCHANGED <<gravados, plans, current, pins, mode, pendingHost, dirty, leitura>>

\* The plans of a unit, as they are at the server when the request is executed.
PlantasDe(u) == {p \in Plantas : Existe(p) /\ SiteDe[p] = u}

\* What stays current: the same plan while it is listed, else the first.
Mantida(lista) ==
  IF current \in lista THEN {current} ELSE IF lista = {} THEN {Nenhuma} ELSE lista

\* A change of plan leaves the effect of the pins: its reading is cancelled.
Abre(p) ==
  /\ current' = p
  /\ leitura' = IF p = current THEN leitura ELSE Le(p)

\* After the list that follows an upload, read or not.
AbreEnviada(p) == current' = p /\ leitura' = Le(p) /\ mode' = "edit"

RecebePlanos(v) ==
  /\ pedidos[v].tipo = "planos"
  /\ plans' = PlantasDe(pedidos[v].unidade)
  /\ LET abre == pedidos[v].depois
     IN IF abre = Nenhuma THEN (\E p \in Mantida(plans') : Abre(p)) /\ UNCHANGED mode ELSE AbreEnviada(abre)
  /\ Poe(v, Livre)
  /\ UNCHANGED <<gravados, numericSiteId, pins, pendingHost, dirty, acoes>>

\* The tabs of the floors.
EscolheAndar ==
  /\ Age
  /\ \E p \in plans : current' = p /\ leitura' = Le(p)
  /\ mode' = "view" /\ dirty' = FALSE
  /\ UNCHANGED <<gravados, numericSiteId, plans, pins, pendingHost, pedidos>>

\* handlePinClick in view mode, on a pin that leads to another plan of the list.
SegueMarcador ==
  /\ mode = "view" /\ pins # {} /\ Age
  /\ \E p \in plans \ {current} : Abre(p)
  /\ UNCHANGED <<gravados, numericSiteId, plans, pins, mode, pendingHost, dirty, pedidos>>

TrocaModo ==
  /\ current # Nenhuma /\ Age
  /\ mode' = IF mode = "edit" THEN "view" ELSE "edit"
  /\ leitura' = Le(current)
  /\ UNCHANGED <<gravados, numericSiteId, plans, current, pins, pendingHost, dirty, pedidos>>

-----------------------------------------------------------------------------
\* Mutant: the timer reads in edit mode too.
Repete_SemModo ==
  /\ current # Nenhuma /\ leitura = Livre
  /\ leitura' = Le(current)
  /\ UNCHANGED <<gravados, numericSiteId, plans, current, pins, mode, pendingHost, dirty, pedidos, acoes>>

\* refreshPins, from the timer of the view mode.
Repete ==
  /\ mode = "view" /\ current # Nenhuma /\ leitura = Livre
  /\ leitura' = Le(current)
  /\ UNCHANGED <<gravados, numericSiteId, plans, current, pins, mode, pendingHost, dirty, pedidos, acoes>>

LeMarcadores ==
  /\ leitura.tipo = "indo"
  /\ leitura' = IF Existe(current) THEN [tipo |-> "voltando", plan |-> current, pins |-> gravados[current]]
                                   ELSE Livre
  /\ UNCHANGED <<gravados, numericSiteId, plans, current, pins, mode, pendingHost, dirty, pedidos, acoes>>

LeituraFalha ==
  /\ leitura.tipo = "indo" /\ Age
  /\ leitura' = Livre
  /\ UNCHANGED <<gravados, numericSiteId, plans, current, pins, mode, pendingHost, dirty, pedidos>>

RecebeMarcadores ==
  /\ leitura.tipo = "voltando"
  /\ pins' = leitura.pins /\ leitura' = Livre
  /\ UNCHANGED <<gravados, numericSiteId, plans, current, mode, pendingHost, dirty, pedidos, acoes>>

-----------------------------------------------------------------------------
\* placeHost: a host that is there moves, another is added.
PlaceHost(h, clientX) ==
  {p \in pins : p.host # h} \cup {[host |-> h, x |-> ToPercent(clientX)]}

Unplaced == {h \in Hosts : \A p \in pins : p.host # h}

EscolheHost ==
  /\ mode = "edit" /\ current # Nenhuma
  /\ \E h \in Unplaced \cup {Nenhuma} : h # pendingHost /\ pendingHost' = h
  /\ UNCHANGED <<gravados, numericSiteId, plans, current, pins, mode, dirty, leitura, pedidos, acoes>>

\* handlePlanClick and handleDrop
Posiciona ==
  /\ mode = "edit" /\ current # Nenhuma /\ Age
  /\ \E c \in Cliques :
       \/ pendingHost # Nenhuma /\ pins' = PlaceHost(pendingHost, c) /\ pendingHost' = Nenhuma
       \/ \E h \in Hosts : pins' = PlaceHost(h, c) /\ UNCHANGED pendingHost
  /\ dirty' = TRUE
  /\ UNCHANGED <<gravados, numericSiteId, plans, current, mode, leitura, pedidos>>

RemovePin ==
  /\ mode = "edit" /\ Age
  /\ \E p \in pins : pins' = {q \in pins : q.host # p.host}
  /\ dirty' = TRUE
  /\ UNCHANGED <<gravados, numericSiteId, plans, current, mode, pendingHost, leitura, pedidos>>

\* savePins, and its answer.
SavePins(v) ==
  /\ dirty /\ current # Nenhuma /\ Age
  /\ pedidos[v] = Livre
  /\ Poe(v, [tipo |-> "grava", plan |-> current, pins |-> pins])
  /\ UNCHANGED <<gravados, numericSiteId, plans, current, pins, mode, pendingHost, dirty, leitura>>

HandleDeletePlan(v) ==
  /\ current # Nenhuma /\ Age
  /\ pedidos[v] = Livre
  /\ Poe(v, [tipo |-> "apaga", plan |-> current])
  /\ UNCHANGED <<gravados, numericSiteId, plans, current, pins, mode, pendingHost, dirty, leitura>>

HandleUpload(v) ==
  /\ numericSiteId # Nenhuma /\ Age
  /\ pedidos[v] = Livre
  /\ Poe(v, [tipo |-> "envia", unidade |-> numericSiteId])
  /\ UNCHANGED <<gravados, numericSiteId, plans, current, pins, mode, pendingHost, dirty, leitura>>

\* The server executes a write.
Executa(v) ==
  LET p == pedidos[v]
  IN /\ \/ p.tipo = "grava" /\ Existe(p.plan)
           /\ gravados' = [gravados EXCEPT ![p.plan] = p.pins] /\ Poe(v, [p EXCEPT !.tipo = "gravado"])
        \/ p.tipo = "apaga" /\ Existe(p.plan)
           /\ gravados' = [gravados EXCEPT ![p.plan] = Ausente] /\ Poe(v, [p EXCEPT !.tipo = "apagado"])
        \/ p.tipo = "envia"
           /\ \E novo \in {q \in Plantas : ~Existe(q) /\ SiteDe[q] = p.unidade} :
                /\ gravados' = [gravados EXCEPT ![novo] = {}]
                /\ Poe(v, [tipo |-> "enviado", plan |-> novo, unidade |-> p.unidade])
     /\ UNCHANGED <<numericSiteId, plans, current, pins, mode, pendingHost, dirty, leitura, acoes>>

\* A refusal, of a plan that is gone, or a failure changes nothing.
Recusa(v) ==
  /\ pedidos[v].tipo \in {"grava", "apaga"} /\ ~Existe(pedidos[v].plan)
  /\ Poe(v, Livre)
  /\ UNCHANGED <<gravados, numericSiteId, plans, current, pins, mode, pendingHost, dirty, leitura, acoes>>

Falha(v) ==
  /\ pedidos[v].tipo \in {"grava", "apaga", "planos", "envia"} /\ Age
  /\ Poe(v, Livre)
  /\ IF pedidos[v].tipo = "planos" /\ pedidos[v].depois # Nenhuma THEN AbreEnviada(pedidos[v].depois)
     ELSE UNCHANGED <<current, leitura, mode>>
  /\ UNCHANGED <<gravados, numericSiteId, plans, pins, pendingHost, dirty>>

\* After the await.
Conclui(v) ==
  LET p == pedidos[v]
  IN /\ \/ p.tipo = "gravado" /\ pins' = p.pins /\ dirty' = FALSE /\ Poe(v, Livre)
           /\ UNCHANGED <<current, leitura>>
        \/ p.tipo = "apagado" /\ Abre(Nenhuma) /\ pins' = {} /\ Poe(v, LoadPlans(numericSiteId, Nenhuma))
           /\ UNCHANGED dirty
        \/ p.tipo = "enviado" /\ Poe(v, LoadPlans(p.unidade, p.plan))
           /\ UNCHANGED <<current, leitura, pins, dirty>>
     /\ UNCHANGED <<gravados, numericSiteId, plans, mode, pendingHost, acoes>>

Next ==
  \/ EscolheAndar \/ SegueMarcador \/ TrocaModo \/ Repete \/ LeMarcadores \/ LeituraFalha
  \/ RecebeMarcadores \/ EscolheHost \/ Posiciona \/ RemovePin
  \/ \E v \in Vagas :
       TrocaUnidade(v) \/ RecebePlanos(v) \/ SavePins(v) \/ HandleDeletePlan(v) \/ HandleUpload(v)
         \/ Executa(v) \/ Recusa(v) \/ Falha(v) \/ Conclui(v)

Spec == Init /\ [][Next]_vars

-----------------------------------------------------------------------------
\* Under the user's hand nothing moves by itself: in edit mode, once the reading of the
\* mode has answered, the pins change by an edit, by the answer of a save or a removal, or
\* with the plan, and no other reading begins that could throw the edits away.
MarcadoresQuietos ==
  mode = "edit" /\ leitura = Livre =>
    /\ \/ pins' = pins \/ dirty' \/ current' # current
       \/ \E v \in Vagas : pedidos[v].tipo \in {"gravado", "apagado"}
    /\ \/ leitura' = Livre \/ mode' # mode \/ current' # current
       \/ \E v \in Vagas : pedidos[v].tipo = "planos" /\ pedidos[v].depois = current
EdicaoFica == [][MarcadoresQuietos]_vars
=============================================================================
