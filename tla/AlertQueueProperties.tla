------------------------ MODULE AlertQueueProperties ------------------------
(***************************************************************************)
(* What the alert queue guarantees, and what its documentation says of it  *)
(* that the code does not do.                                              *)
(***************************************************************************)
EXTENDS AlertQueue

-----------------------------------------------------------------------------
(* Properties.                                                              *)

\* The types of the state.
TypeOK ==
  /\ alerta \in [Ids -> Alerta]
  /\ linha \in [Ids -> [Canais -> Linha]]
  /\ det \in [Detectores -> Det]
  /\ op \in [Operadores -> Op]
  /\ desp \in [Processos -> Desp]
  /\ canal \in [Processos -> Canal]
  /\ envio \in [Ids -> [Canais -> Nunca..Cooldown]]
  /\ tardio \subseteq Ids
  /\ quedas \in 0..MaxQuedas

\* a message of row a was accepted by some channel
Avisada(a) == \E c \in Canais : envio[a][c] # Nunca

\* the assumption that each key is reported by one goroutine
UmDetectorPorChave ==
  \A d, e \in Detectores : ChaveDe[d] = ChaveDe[e] => d = e

\* One incident, one alert: when each key has one detector, two unresolved rows
\* of a key can only be the doing of an acknowledgement that arrived after the
\* row was resolved, however the transaction of Enqueue, Recovered,
\* fecharDuplicados, operators, retention and crashes interleave.
UmaVivaPorChave ==
  \A k \in Chaves : \A a, b \in VivasDe(k) \ tardio : a = b

\* While the transaction of Enqueue is open its row is invisible, and every other
\* unresolved row of the key that is not a late acknowledgement is one it read and
\* will resolve: nothing opens the key behind its back.
AberturaIntegra ==
  \A d \in Detectores : det[d].pc = "confirma" =>
    LET i == det[d].id IN
    /\ i \in Ids /\ alerta[i].status = "gravando"
    /\ alerta[i].chave = ChaveDe[d] /\ ~alerta[i].rec
    /\ VivasDe(ChaveDe[d]) \ tardio \subseteq det[d].ids

\* A recovery message exists only if an earlier row of the same key was really
\* accepted by a channel: Recovered never announces the end of a problem nobody
\* was told about.
RecuperacaoAnunciada ==
  \A r \in Ids : Gravada(r) /\ alerta[r].rec =>
    \E a \in Ids : a < r /\ alerta[a].chave = alerta[r].chave /\ Avisada(a)

\* An open alert is "enviado" only if a channel accepted a message of it: no
\* sequence of resumption, renotification and consolidation over the lines turns
\* a silent row into a sent one (it would never be tried again).
EnviadoFoiAvisado ==
  \A a \in Ids :
    alerta[a].status = "open" /\ alerta[a].delivery = "enviado" => Avisada(a)

\* "dispensado" says that nothing was sent: with one process that neither crashes
\* nor loses a write, no message of such a row was accepted.
DispensadoNuncaSaiu ==
  \A a \in Ids : Gravada(a) /\ alerta[a].delivery = "dispensado" => ~Avisada(a)

\* in this step the channel c accepts the message of row a that p delivers
Aceita(p, a, c) ==
  /\ desp[p].pc = "envia" /\ a = Atual(p) /\ c \in desp[p].faltam
  /\ c \notin desp'[p].faltam /\ desp'[p].lin[c].status = "enviado"

Longe(a, c) == envio[a][c] = Nunca \/ envio[a][c] >= Cooldown - Duracao

\* The cooldown holds per row and channel: the same alert is accepted twice by a
\* channel only ALERT_COOLDOWN apart, less the time a delivery takes, because
\* last_notified_at is the instant captured before the HTTP call.
CooldownPorLinha ==
  [][\A p \in Processos, a \in Ids, c \in Canais : Aceita(p, a, c) => Longe(a, c)]_vars

\* docs/operacao.md:117 promises that two processes do not deliver the same alert.
\* The reservation of claimBatch is a lease the delivery of a batch may outlast:
\* the rows at its end are then claimed, and delivered, by another process too.
SoUmDespacha ==
  \A p, q \in Processos :
    desp[p].pc = "envia" /\ desp[q].pc = "envia" /\ Atual(p) = Atual(q) => p = q

\* A due row always leaves the queue: it is sent, given up on, found without a
\* channel, dispensed or deleted.
PendenteSai ==
  \A a \in Ids : Vencida(a) ~> ~(Gravada(a) /\ alerta[a].delivery = "pendente")

\* A failed alert that is open and fresh is not left alone for ever while the
\* health watch keeps finding the channel up: retomarPresos puts it back.
FalhouERetomado ==
  \A a \in Ids, p \in Processos :
    ~<>[](a \in Falhos /\ alerta[a].visto <= Retomada /\ canal[p].estado = "ok")

\* the life of each row as its reader sees it
Vida ==
  [a \in Ids |->
     IF ~Gravada(a)
     THEN [status |-> "ausente", entrega |-> "pendente", avisada |-> FALSE, rec |-> FALSE]
     ELSE [status |-> alerta[a].status, entrega |-> alerta[a].delivery,
           avisada |-> Avisada(a), rec |-> alerta[a].rec]]

Ciclo == INSTANCE AlertLifecycle WITH ciclo <- Vida

\* The queue implements the life of an alert the documentation tables, with one
\* process that neither crashes nor loses a write.
CumpreCiclo == Ciclo!Spec
=============================================================================
