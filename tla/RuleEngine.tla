----------------------------- MODULE RuleEngine -----------------------------
(***************************************************************************)
(* The rule engine, internal/rules/engine.go, for one rule and the servers *)
(* it targets.  On every tick one goroutine reads the rules and the last   *)
(* metrics, loads the persisted violation of each target (alert_states),   *)
(* opens and closes incidents target by target, and only then writes the   *)
(* violations back, in two statements.  The incident of a target lives in  *)
(* another table, which AlertQueue models and operators resolve by hand:   *)
(* here it is open or not.                                                 *)
(*                                                                         *)
(* One step is one database statement, or one call of the alert queue.     *)
(* One unit of time is one tick; timestamps are ages that saturate where   *)
(* the code stops telling them apart.  An evaluation takes less than a     *)
(* tick, and one evaluation follows each tick the process is up for.       *)
(***************************************************************************)
EXTENDS Integers

CONSTANTS
  Alvos,        \* the servers resolveTargets returns
  Required,     \* for_duration_sec, in ticks
  BreachGap,    \* breachGap(), in ticks
  Notificavel,  \* whether the rule's severity reaches ALERT_MIN_SEVERITY
  MaxFalhas     \* bound: failed statements and crashes

ASSUME ConstantesOk ==
  /\ Required \in Nat /\ BreachGap \in Nat /\ MaxFalhas \in Nat
  /\ Notificavel \in BOOLEAN

VARIABLES
  regra,    \* the row of alert_rules
  states,   \* the table alert_states, by target
  aberto,   \* [Alvos -> BOOLEAN]: whether the target has an unresolved incident
  motor,    \* the evaluation in flight
  devido,   \* whether the tick has fired and is not evaluated yet
  falhas,   \* failed statements and crashes so far
  violando, \* history: age of the violation as it was evaluated, and of its last sample
  perdido,  \* history: targets whose open incident the engine lost by a failure
  viciado   \* history: targets whose count was not zeroed because of a failure

vars == <<regra, states, aberto, motor, devido, falhas, violando, perdido, viciado>>

-----------------------------------------------------------------------------
Nunca == -1

\* A row of alert_states: ages of first_breach_at (Nunca when it is zero) and of
\* last_breach_at.  A target without a row behaves as one with a settled row; any
\* other row counts.
Encerrado == [first |-> Nunca, last |-> 0, active |-> FALSE]

State ==
  {s \in [first : Nunca..Required, last : 0..(BreachGap + 1), active : BOOLEAN] :
     s.first = Nunca => s = Encerrado}

SemEstado == [k \in Alvos |-> Encerrado]

\* a target in the limit, one that violates, and one that has no recent metric or is
\* no longer a target
Amostras == {"dentro", "viola", "muda"}
Mudas    == [k \in Alvos |-> "muda"]

Motor ==
  [pc : {"parado", "dorme", "carrega", "avalia", "encerra"},
   valor : [Alvos -> Amostras],   \* what each target shows
   states : [Alvos -> State],     \* loadAlertStates
   restam : SUBSET Alvos,         \* targets still to evaluate
   novos : [Alvos -> State],      \* the rows of breaches
   breaches : SUBSET Alvos,
   settled : SUBSET Alvos]

Dormindo ==
  [pc |-> "dorme", valor |-> Mudas, states |-> SemEstado, restam |-> {},
   novos |-> SemEstado, breaches |-> {}, settled |-> {}]

Abertos == {k \in Alvos : aberto[k]}

\* a statement fails, or the process does, within the bound
Falha    == falhas < MaxFalhas /\ falhas' = falhas + 1
SemFalha == UNCHANGED falhas

-----------------------------------------------------------------------------
(* breachStart, and the rows the loop appends.                              *)

\* age of the start of the violation a violating sample belongs to
BreachStart(s) ==
  IF s.first = Nunca \/ s.last > BreachGap THEN 0 ELSE s.first

Breach_Esquecida(s, enfileirou) ==
  [first |-> BreachStart(s), last |-> 0, active |-> enfileirou]

Breach_Recomecada(s, enfileirou) ==
  [first |-> 0, last |-> 0, active |-> s.active \/ enfileirou]

\* the row of a target that violates
Breach(s, enfileirou) ==
  [first |-> BreachStart(s), last |-> 0, active |-> s.active \/ enfileirou]

\* the violation has lasted what the rule requires
Dura(s) == BreachStart(s) >= Required

HasState_SoRecente(s) == s # Encerrado /\ s.last <= BreachGap

HasState(s) == s # Encerrado

\* an in-limit sample closes the incident of an active row
Recupera(s) == HasState(s) /\ s.active

\* an in-limit sample settles a row that is active or counting
Encerra(s) == HasState(s) /\ (s.active \/ s.first # Nunca)

Settled_SoContagem(s) == [s EXCEPT !.first = Nunca]
Settled_SoAtivo(s)    == [s EXCEPT !.active = FALSE]

\* the row of a target that was settled
Settled(s) == [first |-> Nunca, last |-> 0, active |-> FALSE]

-----------------------------------------------------------------------------
(* evaluate.                                                                *)

\* the rules, the servers and the last metrics are read; a disabled rule, a parent
\* without a recent metric, or an error leaves the rule alone until the next tick
Comecar ==
  /\ motor.pc = "dorme" /\ devido
  /\ \/ /\ regra = "ligada" /\ SemFalha
        /\ \E v \in [Alvos -> Amostras] :
             motor' = [Dormindo EXCEPT !.pc = "carrega", !.valor = v]
     \/ SemFalha /\ motor' = Dormindo
     \/ Falha /\ motor' = Dormindo
  /\ devido' = FALSE
  /\ UNCHANGED <<regra, states, aberto, violando, perdido, viciado>>

\* loadAlertStates: an error is only logged, and no target has a state
LoadAlertStates ==
  /\ motor.pc = "carrega"
  /\ \/ /\ SemFalha
        /\ motor' = [motor EXCEPT !.pc = "avalia", !.states = states,
                                  !.restam = {k \in Alvos : motor.valor[k] # "muda"}]
        /\ UNCHANGED <<perdido, viciado>>
     \/ /\ Falha
        /\ motor' = [motor EXCEPT !.pc = "avalia",
                                  !.restam = {k \in Alvos : motor.valor[k] # "muda"}]
        /\ perdido' = perdido \cup Abertos
        /\ viciado' = Alvos
  /\ UNCHANGED <<regra, states, aberto, devido, violando>>

\* a sample in the limit: alert.Recovered, whose result nobody looks at
Dentro(k) ==
  LET s == motor.states[k] IN
  /\ motor.pc = "avalia" /\ k \in motor.restam /\ motor.valor[k] = "dentro"
  /\ \/ /\ Recupera(s) /\ SemFalha
        /\ aberto' = [aberto EXCEPT ![k] = FALSE]
        /\ perdido' = perdido \ {k}
     \/ /\ Recupera(s) /\ Falha
        /\ perdido' = IF aberto[k] THEN perdido \cup {k} ELSE perdido
        /\ UNCHANGED aberto
     \/ ~Recupera(s) /\ SemFalha /\ UNCHANGED <<aberto, perdido>>
  /\ motor' = [motor EXCEPT !.restam = @ \ {k},
                            !.settled = IF Encerra(s) THEN @ \cup {k} ELSE @]
  /\ violando' = [violando EXCEPT ![k] = Encerrado]
  /\ UNCHANGED <<regra, states, devido, viciado>>

\* what alert.Enqueue does to the incident of k, and its result: a severity below
\* the floor or an error opens nothing; an incident that is open may be
\* renotified (or replaced, when it is too old), which returns true, or not
Enqueue(k, enfileirou) ==
  \/ /\ ~aberto[k] /\ Notificavel /\ enfileirou /\ SemFalha
     /\ aberto' = [aberto EXCEPT ![k] = TRUE]
  \/ aberto[k] /\ Notificavel /\ SemFalha /\ UNCHANGED aberto
  \/ ~Notificavel /\ ~enfileirou /\ SemFalha /\ UNCHANGED aberto
  \/ ~enfileirou /\ Falha /\ UNCHANGED aberto

\* history: one more violating sample, counted by what was evaluated and not by what
\* was written
Observado(v) ==
  [first |-> IF v.first = Nunca \/ v.last > BreachGap THEN 0 ELSE v.first,
   last |-> 0, active |-> FALSE]

\* a violating sample: the alert is enqueued once it has lasted
Viola(k) ==
  LET s == motor.states[k] IN
  /\ motor.pc = "avalia" /\ k \in motor.restam /\ motor.valor[k] = "viola"
  /\ \E enfileirou \in BOOLEAN :
       /\ IF Dura(s) THEN Enqueue(k, enfileirou)
                     ELSE ~enfileirou /\ SemFalha /\ UNCHANGED aberto
       /\ motor' = [motor EXCEPT !.restam = @ \ {k}, !.breaches = @ \cup {k},
                                 !.novos[k] = Breach(s, enfileirou)]
       /\ perdido' = IF enfileirou THEN perdido \ {k} ELSE perdido
  /\ violando' = [violando EXCEPT ![k] = Observado(@)]
  /\ UNCHANGED <<regra, states, devido, viciado>>

\* one INSERT ... ON CONFLICT for every target that violates; the foreign key
\* refuses it when the rule was deleted meanwhile
FlushBreaches ==
  LET b == motor.breaches IN
  /\ motor.pc = "avalia" /\ motor.restam = {}
  /\ \/ /\ regra # "apagada" \/ b = {}
        /\ SemFalha
        /\ states' = [k \in Alvos |-> IF k \in b THEN motor.novos[k] ELSE states[k]]
        /\ viciado' = viciado \ {k \in b : motor.novos[k].first = 0}
        /\ UNCHANGED perdido
     \/ /\ IF regra = "apagada" THEN SemFalha ELSE Falha
        /\ b # {}
        /\ perdido' = perdido \cup {k \in b : aberto[k] /\ ~states[k].active}
        /\ UNCHANGED <<states, viciado>>
  /\ motor' = [motor EXCEPT !.pc = "encerra", !.novos = SemEstado, !.breaches = {},
                            !.states = SemEstado]
  /\ UNCHANGED <<regra, aberto, devido, violando>>

FlushSettled ==
  /\ motor.pc = "encerra"
  /\ \/ /\ SemFalha
        /\ states' = [k \in Alvos |-> IF k \in motor.settled THEN Settled(states[k]) ELSE states[k]]
        /\ viciado' = viciado \ motor.settled
     \/ /\ Falha /\ motor.settled # {}
        /\ viciado' = viciado \cup motor.settled
        /\ UNCHANGED states
  /\ motor' = [Dormindo EXCEPT !.valor = motor.valor]
  /\ UNCHANGED <<regra, aberto, devido, violando, perdido>>

Evaluate ==
  \/ Comecar \/ LoadAlertStates \/ FlushBreaches \/ FlushSettled
  \/ \E k \in Alvos : Dentro(k) \/ Viola(k)

-----------------------------------------------------------------------------
(* Operators, crashes and time.                                             *)

\* PUT /api/alert-rules
Alternar ==
  /\ regra # "apagada"
  /\ regra' = IF regra = "ligada" THEN "desligada" ELSE "ligada"
  /\ UNCHANGED <<states, aberto, motor, devido, falhas, violando, perdido, viciado>>

\* DELETE /api/alert-rules: the rule and its states go in one transaction; the
\* incident stays
RemoverRegra ==
  /\ regra # "apagada"
  /\ regra' = "apagada"
  /\ states' = SemEstado
  /\ perdido' = perdido \cup Abertos
  /\ UNCHANGED <<aberto, motor, devido, falhas, violando, viciado>>

\* an operator resolves the incident by hand
Resolver(k) ==
  /\ aberto[k]
  /\ aberto' = [aberto EXCEPT ![k] = FALSE]
  /\ perdido' = perdido \ {k}
  /\ UNCHANGED <<regra, states, motor, devido, falhas, violando, viciado>>

\* the process crashes anywhere in an evaluation
Queda ==
  /\ motor.pc # "parado" /\ Falha
  /\ motor' = [Dormindo EXCEPT !.pc = "parado"]
  /\ perdido' = perdido \cup {k \in motor.breaches : aberto[k] /\ ~states[k].active}
  /\ viciado' = viciado \cup motor.settled
  /\ devido' = FALSE
  /\ UNCHANGED <<regra, states, aberto, violando>>

Reiniciar ==
  /\ motor.pc = "parado"
  /\ motor' = Dormindo
  /\ UNCHANGED <<regra, states, aberto, devido, falhas, violando, perdido, viciado>>

Velho(s) ==
  [first |-> IF s.first = Nunca \/ s.first = Required THEN s.first ELSE s.first + 1,
   last |-> IF s.first = Nunca \/ s.last > BreachGap THEN s.last ELSE s.last + 1,
   active |-> s.active]

Tick ==
  /\ motor.pc = "parado" \/ (motor.pc = "dorme" /\ ~devido)
  /\ states' = [k \in Alvos |-> Velho(states[k])]
  /\ violando' = [k \in Alvos |-> Velho(violando[k])]
  /\ devido' = (motor.pc = "dorme")
  /\ UNCHANGED <<regra, aberto, motor, falhas, perdido, viciado>>

-----------------------------------------------------------------------------
Init ==
  /\ regra = "ligada"
  /\ states = SemEstado
  /\ aberto = [k \in Alvos |-> FALSE]
  /\ motor = Dormindo
  /\ devido = FALSE
  /\ falhas = 0
  /\ violando = SemEstado
  /\ perdido = {} /\ viciado = {}

Next ==
  \/ Evaluate
  \/ Alternar \/ RemoverRegra \/ (\E k \in Alvos : Resolver(k))
  \/ Queda \/ Reiniciar \/ Tick

Spec == Init /\ [][Next]_vars

\* the ticker of the engine, the answers of the database and time go on, and a
\* process that crashed is started again (restart: unless-stopped in compose)
FairSpec == Spec /\ WF_vars(Evaluate) /\ WF_vars(Reiniciar) /\ WF_vars(Tick)

-----------------------------------------------------------------------------
(* Types and properties.                                                    *)

\* The state keeps its types.
TypeOK ==
  /\ regra \in {"ligada", "desligada", "apagada"}
  /\ states \in [Alvos -> State]
  /\ aberto \in [Alvos -> BOOLEAN]
  /\ motor \in Motor
  /\ devido \in BOOLEAN
  /\ falhas \in 0..MaxFalhas
  /\ violando \in [Alvos -> State]
  /\ perdido \subseteq Alvos /\ viciado \subseteq Alvos

\* the engine remembers that k has an incident: in the table, or in the rows it is
\* about to write
Lembrado(k) ==
  states[k].active \/ (k \in motor.breaches /\ motor.novos[k].active)

\* No orphan: an open incident is one the engine remembers and will close, unless a
\* failure it only logs, a crash or the removal of the rule came in between
\* (engine.go:256-298): whatever the samples, the operators and the toggles do.
IncidenteLembrado == \A k \in Alvos : aberto[k] /\ k \notin perdido => Lembrado(k)

Abre(k) == ~aberto[k] /\ aberto'[k]

\* No incident before its time: an incident opens only after violating samples that
\* span for_duration_sec, with no sample in the limit among them and no hole longer
\* than breachGap, unless the zeroing of the count was lost (engine.go:164-172, 265-274).
DuracaoExigida ==
  [][\A k \in Alvos : Abre(k) /\ k \notin viciado => violando'[k].first >= Required]_vars

\* from some moment on the rule is enabled and every evaluation finds v in k
Firme(k, v) ==
  /\ <>[](regra = "ligada")
  /\ <>[][devido /\ ~devido' => motor'.valor[k] = v]_vars

\* A violation that stays is an incident, and one again after an operator resolves
\* it: no failure wears the count out for ever (engine.go:270-298).
ViolacaoDispara == \A k \in Alvos : Firme(k, "viola") => []<>aberto[k]

\* When the condition is back for good, the incident closes by itself, if it was not
\* lost (engine.go:257-268).
VoltaFecha == \A k \in Alvos : Firme(k, "dentro") => <>[](aberto[k] => k \in perdido)

\* docs/operacao.md:129: a rule of the engine closes its own alert when the condition
\* is back (engine.go:257-268).
FechaOProprio == \A k \in Alvos : Firme(k, "dentro") => <>[]~aberto[k]
=============================================================================
