--------------------------- MODULE AlertLifecycle ---------------------------
(***************************************************************************)
(* What the alert queue promises of one row, whoever touches it: the life  *)
(* of an alert as docs/api.md tables it, with no detector, dispatcher,     *)
(* line, channel or clock.  A message may be accepted while the row is     *)
(* pending; "enviado" is said only of a row a message of which was         *)
(* accepted, "dispensado" only of a resolved row no message of which was;  *)
(* what was dispensed stays so; a recovery message, once settled, never    *)
(* goes back to the queue; an open row is never deleted.                   *)
(***************************************************************************)
CONSTANTS Ids

VARIABLE ciclo

Ausente == [status |-> "ausente", entrega |-> "pendente", avisada |-> FALSE, rec |-> FALSE]

\* a row appears, an incident open or a recovery message born resolved
Nasce(x, y) ==
  /\ x.status = "ausente"
  /\ ~y.avisada /\ y.entrega = "pendente"
  /\ IF y.rec THEN y.status = "resolved" ELSE y.status = "open"

\* the status changes and nothing else: acknowledged, resolved, or acknowledged
\* by a request that read the row before it was resolved
Reconhece(x, y) ==
  x.status \in {"open", "acked", "resolved"} /\ y = [x EXCEPT !.status = "acked"]
Resolve(x, y) ==
  x.status \in {"open", "acked"} /\ y = [x EXCEPT !.status = "resolved"]

\* a channel accepts the message of a pending row
Sai(x, y) == x.entrega = "pendente" /\ y = [x EXCEPT !.avisada = TRUE]

\* the dispatcher settles a pending row
Conclui(x, y) ==
  /\ x.entrega = "pendente"
  /\ \/ x.avisada /\ y = [x EXCEPT !.entrega = "enviado"]
     \/ y = [x EXCEPT !.entrega = "falhou"]
     \/ ~x.avisada /\ y = [x EXCEPT !.entrega = "sem_canal"]

\* a resolved row is taken out of the queue
Dispensa(x, y) ==
  /\ x.status = "resolved" /\ x.entrega = "pendente" /\ ~x.rec /\ ~x.avisada
  /\ y = [x EXCEPT !.entrega = "dispensado"]

\* the row goes back to the queue, announced again or resumed
Volta(x, y) ==
  /\ x.entrega \in {"enviado", "falhou", "sem_canal"} /\ ~x.rec
  /\ y = [x EXCEPT !.entrega = "pendente"]

\* only what nobody is to look at any more is deleted
Some(x, y) == x.status \in {"acked", "resolved"} /\ y = Ausente

Passo(x, y) ==
  \/ x = y
  \/ Nasce(x, y) \/ Reconhece(x, y) \/ Resolve(x, y) \/ Sai(x, y)
  \/ Conclui(x, y) \/ Dispensa(x, y) \/ Volta(x, y) \/ Some(x, y)

Init == ciclo = [a \in Ids |-> Ausente]

\* one statement may move several rows, each by a step of its own
Next == /\ DOMAIN ciclo' = Ids
        /\ \A a \in Ids : Passo(ciclo[a], ciclo'[a])

Spec == Init /\ [][Next]_ciclo
=============================================================================
