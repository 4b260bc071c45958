-------------------------- MODULE RuleEngineProofs --------------------------
(***************************************************************************)
(* Proofs about RuleEngine, for any set of targets, any duration, any gap  *)
(* and any number of failures: the types, that the engine remembers every  *)
(* open incident it has not lost to a failure, and that it opens none      *)
(* before its time.                                                        *)
(*                                                                         *)
(* An evaluation decides from what it loaded and writes at the end.  The   *)
(* inductive invariant says what links the three: the rows loaded still    *)
(* know the open incidents of the targets that remain, the rows about to   *)
(* be written know those of the targets that violate, and the targets      *)
(* about to be settled have none.                                          *)
(***************************************************************************)
EXTENDS RuleEngine, TLAPS

\* the lists of an evaluation are empty outside the phase that uses them, and a
\* target is in one of them at most
Fases ==
  /\ motor.pc # "avalia" => motor.restam = {} /\ motor.breaches = {}
  /\ motor.pc \notin {"avalia", "encerra"} => motor.settled = {}
  /\ motor.restam \cap motor.breaches = {}
  /\ motor.settled \cap (motor.restam \cup motor.breaches) = {}

Conhecido(k) == aberto[k] /\ k \notin perdido

\* the rows loaded know the incidents of the targets still to evaluate
Carregado == \A k \in motor.restam : Conhecido(k) => motor.states[k].active

\* the rows to write know those of the targets that violate
Anotado == \A k \in motor.breaches : Conhecido(k) => motor.novos[k].active

\* a target to settle has no incident the engine should remember
Fechado == \A k \in motor.settled : ~Conhecido(k)

LembraInv == TypeOK /\ Fases /\ Carregado /\ Anotado /\ Fechado /\ IncidenteLembrado

-----------------------------------------------------------------------------
(* Types.                                                                   *)

LEMMA EncerradoTipo == Encerrado \in State /\ SemEstado \in [Alvos -> State]
  BY ConstantesOk DEF Encerrado, SemEstado, State, Nunca

LEMMA DormindoTipo == Dormindo \in Motor
  BY EncerradoTipo DEF Dormindo, Motor, Amostras, Mudas

\* the row of a violating sample
LEMMA BreachTipo ==
  ASSUME NEW s \in State, NEW e \in BOOLEAN
  PROVE  Breach(s, e) \in State /\ (Breach(s, e).active <=> s.active \/ e)
<1>1. s.first \in Nunca..Required /\ s.active \in BOOLEAN
  BY DEF State
<1>2. BreachStart(s) \in 0..Required
  BY <1>1, ConstantesOk DEF BreachStart, Nunca
<1>3. BreachStart(s) # Nunca
  BY <1>2, ConstantesOk DEF Nunca
<1>4. BreachStart(s) \in Nunca..Required
  BY <1>2, ConstantesOk DEF Nunca
<1>5. 0 \in 0..(BreachGap + 1)
  BY ConstantesOk
<1>6. (s.active \/ e) \in BOOLEAN
  BY <1>1
<1> QED
  BY <1>3, <1>4, <1>5, <1>6 DEF Breach, State

LEMMA SettledTipo ==
  ASSUME NEW s \in State
  PROVE  Settled(s) \in State /\ ~Settled(s).active
  BY EncerradoTipo DEF Settled, Encerrado

\* what the history keeps of a violating sample
LEMMA ObservadoTipo ==
  ASSUME NEW v \in State
  PROVE  Observado(v) \in State
<1> USE ConstantesOk DEF Nunca
<1> DEFINE f == IF v.first = Nunca \/ v.last > BreachGap THEN 0 ELSE v.first
<1>1. v.first \in Nunca..Required
  BY DEF State
<1>2. f \in Nunca..Required /\ f # Nunca /\ 0 \in 0..(BreachGap + 1)
  BY <1>1
<1> HIDE DEF f
<1>3. [first |-> f, last |-> 0, active |-> FALSE] \in State
  BY <1>2 DEF State
<1> QED
  BY <1>3 DEF Observado, f

\* a row one tick later
LEMMA VelhoTipo ==
  ASSUME NEW s \in State
  PROVE  Velho(s) \in State /\ Velho(s).active = s.active
<1> USE ConstantesOk DEF Nunca
<1>1. /\ s.first \in Nunca..Required /\ s.last \in 0..(BreachGap + 1)
      /\ s.active \in BOOLEAN
      /\ s = [first |-> s.first, last |-> s.last, active |-> s.active]
  BY DEF State
<1> DEFINE f == IF s.first = Nunca \/ s.first = Required THEN s.first ELSE s.first + 1
           l == IF s.first = Nunca \/ s.last > BreachGap THEN s.last ELSE s.last + 1
<1>2. Velho(s) = [first |-> f, last |-> l, active |-> s.active]
  BY <1>1 DEF Velho
<1>3. f \in Nunca..Required /\ l \in 0..(BreachGap + 1)
  BY <1>1
<1>4. f = Nunca => s.first = Nunca /\ l = s.last
  BY <1>1
<1>5. s.first = Nunca => s = Encerrado
  BY DEF State
<1>6. f = Nunca => [first |-> f, last |-> l, active |-> s.active] = Encerrado
  BY <1>1, <1>4, <1>5
<1> HIDE DEF f, l
<1> QED
  BY <1>1, <1>2, <1>3, <1>6 DEF State

-----------------------------------------------------------------------------
(* The steps.                                                               *)

LEMMA InicioBom == Init => LembraInv
<1> SUFFICES ASSUME Init PROVE LembraInv
  OBVIOUS
<1>1. TypeOK
  <2>1. motor \in Motor
    BY DormindoTipo DEF Init
  <2>2. states \in [Alvos -> State] /\ violando \in [Alvos -> State]
    BY EncerradoTipo DEF Init
  <2>3. falhas \in 0..MaxFalhas
    BY ConstantesOk DEF Init
  <2> QED
    BY <2>1, <2>2, <2>3 DEF Init, TypeOK
<1> QED
  BY <1>1 DEF Init, LembraInv, Fases, Carregado, Anotado, Fechado, IncidenteLembrado,
    Conhecido, Dormindo

\* every step keeps the types
LEMMA PassoTipo == TypeOK /\ [Next]_vars => TypeOK'
<1> SUFFICES ASSUME TypeOK, [Next]_vars PROVE TypeOK'
  OBVIOUS
<1> USE ConstantesOk, EncerradoTipo, DormindoTipo
<1> USE DEF TypeOK
<1>a. Falha => falhas' \in 0..MaxFalhas
  BY DEF Falha
<1>b. SemFalha => falhas' \in 0..MaxFalhas
  BY DEF SemFalha
<1>1. CASE Comecar
  <2>1. \A v \in [Alvos -> Amostras] :
          [Dormindo EXCEPT !.pc = "carrega", !.valor = v] \in Motor
    BY DEF Motor
  <2>2. motor' \in Motor
    <3>1. (\E v \in [Alvos -> Amostras] : motor' = [Dormindo EXCEPT !.pc = "carrega", !.valor = v])
            \/ motor' = Dormindo
      BY <1>1 DEF Comecar
    <3>. QED  BY <2>1, <3>1, DormindoTipo
  <2>3. falhas' \in 0..MaxFalhas
    BY <1>1, <1>a, <1>b DEF Comecar
  <2> QED
    BY <1>1, <2>2, <2>3 DEF Comecar
<1>2. CASE LoadAlertStates
  <2>1. motor' \in Motor
    <3> DEFINE R == {k \in Alvos : motor.valor[k] # "muda"}
    <3>1. R \subseteq Alvos
      OBVIOUS
    <3> HIDE DEF R
    <3>2. [motor EXCEPT !.pc = "avalia", !.states = states, !.restam = R] \in Motor
      BY <3>1 DEF Motor
    <3>3. [motor EXCEPT !.pc = "avalia", !.restam = R] \in Motor
      BY <3>1 DEF Motor
    <3> QED
      BY <1>2, <3>2, <3>3 DEF LoadAlertStates, R
  <2>2. perdido' \subseteq Alvos /\ viciado' \subseteq Alvos
    BY <1>2 DEF LoadAlertStates, Abertos
  <2>3. falhas' \in 0..MaxFalhas
    BY <1>2, <1>a, <1>b DEF LoadAlertStates
  <2> QED
    BY <1>2, <2>1, <2>2, <2>3 DEF LoadAlertStates
<1>3. ASSUME NEW k \in Alvos, Dentro(k) PROVE TypeOK'
  <2>1. motor' \in Motor /\ falhas' \in 0..MaxFalhas
    BY <1>3, <1>a, <1>b DEF Dentro, Motor
  <2>2. aberto' \in [Alvos -> BOOLEAN] /\ perdido' \subseteq Alvos
    BY <1>3 DEF Dentro
  <2>3. violando' \in [Alvos -> State]
    BY <1>3 DEF Dentro
  <2> QED
    BY <2>1, <2>2, <2>3, <1>3 DEF Dentro
<1>4. ASSUME NEW k \in Alvos, Viola(k) PROVE TypeOK'
  <2>1. PICK e \in BOOLEAN :
          /\ IF Dura(motor.states[k]) THEN Enqueue(k, e)
             ELSE ~e /\ SemFalha /\ UNCHANGED aberto
          /\ motor' = [motor EXCEPT !.restam = @ \ {k}, !.breaches = @ \cup {k},
                                    !.novos[k] = Breach(motor.states[k], e)]
          /\ perdido' = IF e THEN perdido \ {k} ELSE perdido
    BY <1>4 DEF Viola
  <2>2. motor.states[k] \in State
    BY DEF Motor
  <2>3. Breach(motor.states[k], e) \in State
    BY <2>2, BreachTipo
  <2>4. motor' \in Motor
    BY <2>1, <2>3 DEF Motor
  <2>5. aberto' \in [Alvos -> BOOLEAN] /\ falhas' \in 0..MaxFalhas
    BY <2>1, <1>a, <1>b DEF Enqueue
  <2>6. violando' \in [Alvos -> State]
    BY <1>4, ObservadoTipo DEF Viola
  <2> QED
    BY <2>1, <2>4, <2>5, <2>6, <1>4 DEF Viola
<1>5. CASE FlushBreaches
  <2>1. motor' \in Motor
    BY <1>5 DEF FlushBreaches, Motor
  <2>2. states' \in [Alvos -> State]
    BY <1>5 DEF FlushBreaches, Motor
  <2>3. perdido' \subseteq Alvos /\ viciado' \subseteq Alvos
    BY <1>5 DEF FlushBreaches, Motor
  <2>4. falhas' \in 0..MaxFalhas
    BY <1>5, <1>a, <1>b DEF FlushBreaches
  <2> QED
    BY <2>1, <2>2, <2>3, <2>4, <1>5 DEF FlushBreaches
<1>6. CASE FlushSettled
  <2>1. motor' \in Motor
    BY <1>6 DEF FlushSettled, Motor
  <2>2. \A k \in Alvos : Settled(states[k]) \in State
    BY SettledTipo
  <2>3. states' \in [Alvos -> State]
    BY <1>6, <2>2 DEF FlushSettled
  <2>4. viciado' \subseteq Alvos
    BY <1>6 DEF FlushSettled, Motor
  <2>5. falhas' \in 0..MaxFalhas
    BY <1>6, <1>a, <1>b DEF FlushSettled
  <2> QED
    BY <2>1, <2>3, <2>4, <2>5, <1>6 DEF FlushSettled
<1>7. CASE Alternar
  BY <1>7 DEF Alternar
<1>8. CASE RemoverRegra
  BY <1>8 DEF RemoverRegra, Abertos
<1>9. ASSUME NEW k \in Alvos, Resolver(k) PROVE TypeOK'
  BY <1>9 DEF Resolver
<1>10. CASE Queda
  BY <1>10, <1>a DEF Queda, Motor
<1>11. CASE Reiniciar
  BY <1>11 DEF Reiniciar
<1>12. CASE Tick
  <2>1. \A k \in Alvos : Velho(states[k]) \in State /\ Velho(violando[k]) \in State
    BY VelhoTipo
  <2>2. states' \in [Alvos -> State] /\ violando' \in [Alvos -> State]
    BY <1>12, <2>1 DEF Tick
  <2> QED
    BY <1>12, <2>2 DEF Tick
<1>13. CASE UNCHANGED vars
  BY <1>13 DEF vars
<1> QED
  BY <1>1, <1>2, <1>3, <1>4, <1>5, <1>6, <1>7, <1>8, <1>9, <1>10, <1>11, <1>12, <1>13
    DEF Next, Evaluate

\* every step keeps what the engine remembers
LEMMA PassoLembra == LembraInv /\ [Next]_vars => LembraInv'
<1> SUFFICES ASSUME LembraInv, [Next]_vars PROVE LembraInv'
  OBVIOUS
<1>0. TypeOK /\ TypeOK'
  BY PassoTipo DEF LembraInv
<1> USE DEF LembraInv, Fases, Carregado, Anotado, Fechado, IncidenteLembrado, Conhecido,
            Lembrado
<1> SUFFICES (Fases /\ Carregado /\ Anotado /\ Fechado /\ IncidenteLembrado)'
  BY <1>0
<1>t. /\ motor \in Motor /\ aberto \in [Alvos -> BOOLEAN] /\ states \in [Alvos -> State]
      /\ motor' \in Motor /\ perdido \subseteq Alvos
  BY <1>0 DEF TypeOK
<1>1. CASE Comecar
  <2>a. Dormindo.restam = {} /\ Dormindo.breaches = {} /\ Dormindo.settled = {}
    BY DEF Dormindo
  <2>b. \A v \in [Alvos -> Amostras] :
          LET d == [Dormindo EXCEPT !.pc = "carrega", !.valor = v]
          IN d.restam = {} /\ d.breaches = {} /\ d.settled = {}
    BY <2>a, DormindoTipo DEF Motor
  <2>1. motor'.restam = {} /\ motor'.breaches = {} /\ motor'.settled = {}
    BY <1>1, <2>a, <2>b DEF Comecar
  <2>2. /\ motor.breaches = {} /\ states' = states /\ aberto' = aberto
        /\ perdido' = perdido
    BY <1>1 DEF Comecar
  <2> QED
    BY <2>1, <2>2
<1>2. CASE LoadAlertStates
  <2>1. motor.breaches = {} /\ motor.settled = {}
    BY <1>2 DEF LoadAlertStates
  <2>2. /\ motor'.pc = "avalia" /\ motor'.breaches = {} /\ motor'.settled = {}
        /\ states' = states /\ aberto' = aberto
    BY <1>2, <1>t, <2>1 DEF LoadAlertStates, Motor
  <2>3. (motor'.states = states /\ perdido' = perdido) \/ perdido' = perdido \cup Abertos
    BY <1>2, <1>t DEF LoadAlertStates, Motor
  <2>4. motor'.restam \subseteq Alvos
    BY <1>t DEF Motor
  <2> QED
    BY <2>1, <2>2, <2>3, <2>4 DEF Abertos
<1>3. ASSUME NEW k \in Alvos, Dentro(k)
      PROVE  (Fases /\ Carregado /\ Anotado /\ Fechado /\ IncidenteLembrado)'
  <2>1. /\ k \in motor.restam /\ k \notin motor.breaches /\ k \notin motor.settled
        /\ motor.pc = "avalia" /\ motor'.pc = "avalia"
        /\ motor'.restam = motor.restam \ {k} /\ motor'.breaches = motor.breaches
        /\ motor'.novos = motor.novos /\ motor'.states = motor.states
        /\ motor'.settled \subseteq motor.settled \cup {k} /\ states' = states
    BY <1>3, <1>t DEF Dentro, Motor
  <2>2. \A j \in Alvos \ {k} : Conhecido(j)' <=> Conhecido(j)
    BY <1>3, <1>t DEF Dentro
  <2>3. ~Conhecido(k)'
    <3>1. CASE Recupera(motor.states[k])
      BY <1>3, <3>1, <1>t DEF Dentro
    <3>2. CASE ~Recupera(motor.states[k])
      <4>1. ~motor.states[k].active
        BY <3>2 DEF Recupera, HasState, Encerrado
      <4>2. ~Conhecido(k)
        BY <4>1, <2>1
      <4>3. aberto' = aberto /\ perdido' = perdido
        BY <1>3, <3>2 DEF Dentro
      <4> QED
        BY <4>2, <4>3
    <3> QED
      BY <3>1, <3>2
  <2>4. motor.restam \subseteq Alvos /\ motor.breaches \subseteq Alvos /\ motor.settled \subseteq Alvos
    BY <1>t DEF Motor
  <2> QED
    BY <2>1, <2>2, <2>3, <2>4
<1>4. ASSUME NEW k \in Alvos, Viola(k)
      PROVE  (Fases /\ Carregado /\ Anotado /\ Fechado /\ IncidenteLembrado)'
  <2>1. PICK e \in BOOLEAN :
          /\ IF Dura(motor.states[k]) THEN Enqueue(k, e)
             ELSE ~e /\ SemFalha /\ UNCHANGED aberto
          /\ motor' = [motor EXCEPT !.restam = @ \ {k}, !.breaches = @ \cup {k},
                                    !.novos[k] = Breach(motor.states[k], e)]
          /\ perdido' = IF e THEN perdido \ {k} ELSE perdido
    BY <1>4 DEF Viola
  <2>2. /\ k \in motor.restam /\ k \notin motor.breaches /\ k \notin motor.settled
        /\ motor.pc = "avalia" /\ motor'.pc = "avalia"
        /\ motor'.restam = motor.restam \ {k} /\ motor'.breaches = motor.breaches \cup {k}
        /\ motor'.settled = motor.settled /\ motor'.states = motor.states
        /\ motor'.novos = [motor.novos EXCEPT ![k] = Breach(motor.states[k], e)]
        /\ states' = states
    BY <1>4, <2>1, <1>t DEF Viola, Motor
  <2>3. \A j \in Alvos \ {k} : Conhecido(j)' <=> Conhecido(j)
    BY <2>1, <1>t DEF Enqueue
  <2>4. ~e => aberto' = aberto /\ perdido' = perdido
    BY <2>1 DEF Enqueue
  <2>5. motor'.novos[k].active <=> motor.states[k].active \/ e
    <3>1. motor.states[k] \in State
      BY <1>t DEF Motor
    <3>2. Breach(motor.states[k], e).active <=> motor.states[k].active \/ e
      BY <3>1, BreachTipo
    <3>3. motor.novos \in [Alvos -> State]
      BY <1>t DEF Motor
    <3> QED
      BY <2>2, <3>2, <3>3
  <2>6. Conhecido(k)' => motor'.novos[k].active
    BY <2>2, <2>4, <2>5
  <2>7. \A j \in Alvos \ {k} : motor'.novos[j] = motor.novos[j]
    BY <2>2, <1>t DEF Motor
  <2>8. motor.restam \subseteq Alvos /\ motor.breaches \subseteq Alvos /\ motor.settled \subseteq Alvos
    BY <1>t DEF Motor
  <2> QED
    BY <2>2, <2>3, <2>6, <2>7, <2>8
<1>5. CASE FlushBreaches
  <2>1. /\ motor.restam = {} /\ motor'.restam = {} /\ motor'.breaches = {}
        /\ motor'.settled = motor.settled /\ motor'.pc = "encerra"
        /\ motor.breaches \subseteq Alvos /\ aberto' = aberto
    BY <1>5, <1>t DEF FlushBreaches, Motor
  <2>2. perdido \subseteq perdido'
    BY <1>5 DEF FlushBreaches
  <2>3. ASSUME NEW k \in Alvos, Conhecido(k)' PROVE states'[k].active
    <3>1. Conhecido(k)
      BY <2>1, <2>2, <2>3
    <3>2. CASE states' = [j \in Alvos |-> IF j \in motor.breaches THEN motor.novos[j]
                                          ELSE states[j]]
      BY <3>1, <3>2
    <3>3. CASE /\ perdido' = perdido \cup {j \in motor.breaches : aberto[j] /\ ~states[j].active}
               /\ states' = states
      BY <3>1, <3>3, <2>3
    <3> QED
      BY <1>5, <3>2, <3>3 DEF FlushBreaches
  <2> QED
    BY <2>1, <2>2, <2>3
<1>6. CASE FlushSettled
  <2>1. /\ motor' = [Dormindo EXCEPT !.valor = motor.valor]
        /\ aberto' = aberto /\ perdido' = perdido /\ motor.breaches = {}
    BY <1>6 DEF FlushSettled
  <2>2. motor'.restam = {} /\ motor'.breaches = {} /\ motor'.settled = {}
    BY <2>1 DEF Dormindo
  <2>3. ASSUME NEW k \in Alvos, Conhecido(k)' PROVE states'[k].active
    BY <2>1, <2>3, <1>6, <1>t DEF FlushSettled
  <2> QED
    BY <2>1, <2>2, <2>3
<1>7. CASE Alternar
  BY <1>7 DEF Alternar
<1>8. CASE RemoverRegra
  BY <1>8, <1>t DEF RemoverRegra, Abertos, Motor
<1>9. ASSUME NEW k \in Alvos, Resolver(k)
      PROVE  (Fases /\ Carregado /\ Anotado /\ Fechado /\ IncidenteLembrado)'
  BY <1>9, <1>t DEF Resolver, Motor
<1>10. CASE Queda
  BY <1>10, <1>t DEF Queda, Dormindo, Motor
<1>11. CASE Reiniciar
  BY <1>11 DEF Reiniciar, Dormindo
<1>12. CASE Tick
  <2>1. \A k \in Alvos : states'[k].active = states[k].active
    BY <1>12, <1>t, VelhoTipo DEF Tick
  <2> QED
    BY <1>12, <2>1 DEF Tick
<1>13. CASE UNCHANGED vars
  BY <1>13 DEF vars
<1> QED
  BY <1>1, <1>2, <1>3, <1>4, <1>5, <1>6, <1>7, <1>8, <1>9, <1>10, <1>11, <1>12, <1>13
    DEF Next, Evaluate

-----------------------------------------------------------------------------
(* No incident before its time.                                             *)

\* The row s never counts more than was observed: it is settled, or its last sample is
\* too old for it to go on counting, or the violation v started no later than its count
\* and was seen no earlier.
AtrasDe(s, v) ==
  \/ s.first = Nunca \/ s.last > BreachGap
  \/ v.first # Nunca /\ s.first =< v.first /\ v.last =< s.last

\* the row of k in the table, unless it is about to be settled
Contado(k) == k \notin motor.settled => AtrasDe(states[k], violando[k])

\* the row loaded of a target still to evaluate is the one of the table, unless the
\* rule was removed meanwhile
Lido(k) ==
  k \in motor.restam => /\ AtrasDe(motor.states[k], violando[k])
                        /\ states[k] \in {motor.states[k], Encerrado}

\* the row to write of a target that violates
Escrito(k) == k \in motor.breaches => AtrasDe(motor.novos[k], violando[k])

\* a target that violates in this evaluation was just seen to
Visto(k) ==
  k \in motor.breaches => /\ violando[k].first # Nunca /\ violando[k].last = 0
                          /\ motor.novos[k].last = 0

ContaInv ==
  /\ LembraInv
  /\ \A k \in Alvos : Visto(k)
  /\ \A k \in Alvos \ viciado : Contado(k) /\ Lido(k) /\ Escrito(k)

LEMMA StateTipo ==
  ASSUME NEW s \in State
  PROVE  /\ s.first \in Int /\ s.last \in Int /\ s.active \in BOOLEAN
         /\ Nunca =< s.first /\ s.first =< Required
         /\ 0 =< s.last /\ s.last =< BreachGap + 1
         /\ s.first = Nunca => s = Encerrado
  BY ConstantesOk DEF State, Nunca

LEMMA EncerradoAtras == \A v : AtrasDe(Encerrado, v)
  BY DEF AtrasDe, Encerrado

\* time does not put a row ahead of what was observed
LEMMA VelhoAtras ==
  ASSUME NEW s \in State, NEW v \in State, AtrasDe(s, v)
  PROVE  AtrasDe(Velho(s), Velho(v))
<1>1. /\ s.first \in Int /\ s.last \in Int /\ v.first \in Int /\ v.last \in Int
      /\ s.first =< Required /\ v.first =< Required /\ Required \in Nat /\ BreachGap \in Nat
      /\ Nunca =< s.first /\ Nunca =< v.first
  BY StateTipo, ConstantesOk
<1>2. /\ Velho(s).first = (IF s.first = Nunca \/ s.first = Required THEN s.first ELSE s.first + 1)
      /\ Velho(s).last = (IF s.first = Nunca \/ s.last > BreachGap THEN s.last ELSE s.last + 1)
      /\ Velho(v).first = (IF v.first = Nunca \/ v.first = Required THEN v.first ELSE v.first + 1)
      /\ Velho(v).last = (IF v.first = Nunca \/ v.last > BreachGap THEN v.last ELSE v.last + 1)
  BY DEF Velho
<1> QED
  BY <1>1, <1>2 DEF AtrasDe, Nunca

\* a violating sample counts at least what the row says, and leaves both the old row and
\* the new one behind it
LEMMA ViolaAtras ==
  ASSUME NEW s \in State, NEW v \in State, AtrasDe(s, v), NEW e \in BOOLEAN
  PROVE  /\ BreachStart(s) =< Observado(v).first
         /\ AtrasDe(s, Observado(v)) /\ AtrasDe(Breach(s, e), Observado(v))
<1>1. /\ s.first \in Int /\ s.last \in Int /\ v.first \in Int /\ v.last \in Int
      /\ Required \in Nat /\ BreachGap \in Nat /\ 0 =< s.last /\ 0 =< v.last
      /\ Nunca =< s.first /\ Nunca =< v.first
  BY StateTipo, ConstantesOk
<1>2. /\ Observado(v).first = (IF v.first = Nunca \/ v.last > BreachGap THEN 0 ELSE v.first)
      /\ Observado(v).last = 0
      /\ Breach(s, e).first = BreachStart(s) /\ Breach(s, e).last = 0
  BY DEF Observado, Breach
<1> QED
  BY <1>1, <1>2 DEF AtrasDe, BreachStart, Nunca

LEMMA ObservadoVisto ==
  ASSUME NEW v \in State
  PROVE  Observado(v).first \in Nat /\ Observado(v).last = 0
<1>1. v.first \in Int /\ Nunca =< v.first
  BY StateTipo
<1> QED
  BY <1>1 DEF Observado, Nunca

LEMMA ContaInicial == Init => ContaInv
<1> SUFFICES ASSUME Init PROVE ContaInv
  OBVIOUS
<1>1. /\ motor.restam = {} /\ motor.breaches = {}
      /\ \A k \in Alvos : states[k] = Encerrado
  BY DEF Init, Dormindo, SemEstado
<1> QED
  BY <1>1, InicioBom, EncerradoAtras DEF ContaInv, Visto, Contado, Lido, Escrito

\* a violating sample of k: the one step that opens an incident
LEMMA ContaViola ==
  ASSUME ContaInv, NEW k \in Alvos, Viola(k)
  PROVE  /\ \A j \in Alvos : Visto(j)'
         /\ \A j \in Alvos \ viciado' : (Contado(j) /\ Lido(j) /\ Escrito(j))'
         /\ \A j \in Alvos : Abre(j) /\ j \notin viciado => violando'[j].first >= Required
<1> DEFINE s == motor.states[k]
           v == violando[k]
<1>1. /\ motor \in Motor /\ states \in [Alvos -> State] /\ violando \in [Alvos -> State]
      /\ aberto \in [Alvos -> BOOLEAN] /\ s \in State /\ v \in State
  BY DEF ContaInv, LembraInv, TypeOK, Motor
<1>2. PICK e \in BOOLEAN :
        /\ IF Dura(motor.states[k]) THEN Enqueue(k, e)
           ELSE ~e /\ SemFalha /\ UNCHANGED aberto
        /\ motor' = [motor EXCEPT !.restam = @ \ {k}, !.breaches = @ \cup {k},
                                  !.novos[k] = Breach(motor.states[k], e)]
  BY DEF Viola
<1>3. /\ motor'.restam = motor.restam \ {k} /\ motor'.breaches = motor.breaches \cup {k}
      /\ motor'.states = motor.states /\ motor'.settled = motor.settled
      /\ motor'.novos[k] = Breach(s, e)
      /\ \A j \in Alvos \ {k} : motor'.novos[j] = motor.novos[j]
      /\ states' = states /\ viciado' = viciado /\ k \in motor.restam
      /\ violando'[k] = Observado(v)
      /\ \A j \in Alvos \ {k} : violando'[j] = violando[j]
  BY <1>1, <1>2 DEF Viola, Motor
<1>4. Breach(s, e).last = 0
  BY DEF Breach
<1>5. Observado(v).first \in Nat /\ Observado(v).first # Nunca /\ Observado(v).last = 0
  BY <1>1, ObservadoVisto DEF Nunca
<1>6. \A j \in Alvos : Visto(j)'
  BY <1>3, <1>4, <1>5 DEF ContaInv, Visto
<1>7. ASSUME k \notin viciado
      PROVE  /\ BreachStart(s) =< Observado(v).first
             /\ AtrasDe(states[k], Observado(v)) /\ AtrasDe(Breach(s, e), Observado(v))
  <2>1. AtrasDe(s, v) /\ states[k] \in {s, Encerrado}
    BY <1>3, <1>7 DEF ContaInv, Lido
  <2> HIDE DEF s, v
  <2> QED
    BY <1>1, <2>1, ViolaAtras, EncerradoAtras
<1>8. ASSUME NEW j \in Alvos \ viciado' PROVE (Contado(j) /\ Lido(j) /\ Escrito(j))'
  <2>1. CASE j = k
    BY <1>3, <1>7, <2>1 DEF Contado, Lido, Escrito
  <2>2. CASE j # k
    BY <1>3, <2>2 DEF ContaInv, Contado, Lido, Escrito
  <2> QED
    BY <2>1, <2>2
<1>9. ASSUME NEW j \in Alvos, Abre(j), j \notin viciado PROVE violando'[j].first >= Required
  <2>1. j = k /\ Dura(s)
    BY <1>1, <1>2, <1>9 DEF Abre, Enqueue
  <2>2. BreachStart(s) \in Int /\ BreachStart(s) >= Required
    BY <1>1, <2>1, StateTipo DEF Dura, BreachStart
  <2> QED
    BY <1>3, <1>5, <1>7, <1>9, <2>1, <2>2, ConstantesOk
<1> QED
  BY <1>6, <1>8, <1>9

\* every step keeps the persisted count behind the observed one, and opens no incident
\* before its time
LEMMA ContaPasso ==
  ASSUME ContaInv, [Next]_vars
  PROVE  /\ ContaInv'
         /\ \A j \in Alvos : Abre(j) /\ j \notin viciado => violando'[j].first >= Required
<1>0. LembraInv' /\ LembraInv
  BY PassoLembra DEF ContaInv
<1>t. /\ motor \in Motor /\ aberto \in [Alvos -> BOOLEAN] /\ states \in [Alvos -> State]
      /\ violando \in [Alvos -> State] /\ viciado \subseteq Alvos /\ viciado' \subseteq Alvos
      /\ motor' \in Motor /\ states' \in [Alvos -> State]
  BY <1>0 DEF LembraInv, TypeOK
<1>f. Fases
  BY <1>0 DEF LembraInv
<1> DEFINE Conta == /\ \A k \in Alvos : Visto(k)
                    /\ \A k \in Alvos \ viciado : Contado(k) /\ Lido(k) /\ Escrito(k)
           NaoAbre == \A j \in Alvos : ~Abre(j)
           Cedo == \A j \in Alvos : Abre(j) /\ j \notin viciado => violando'[j].first >= Required
<1>c. Conta
  BY DEF ContaInv
<1> SUFFICES Conta' /\ Cedo
  BY <1>0 DEF ContaInv
<1>1. CASE Comecar
  <2>1. /\ motor'.restam = {} /\ motor'.breaches = {} /\ motor'.settled = {}
        /\ motor.settled = {}
    <3>1. /\ Dormindo.restam = {} /\ Dormindo.breaches = {} /\ Dormindo.settled = {}
      BY DEF Dormindo
    <3>2. \A w \in [Alvos -> Amostras] :
            LET d == [Dormindo EXCEPT !.pc = "carrega", !.valor = w]
            IN d.restam = {} /\ d.breaches = {} /\ d.settled = {}
      BY <3>1, DormindoTipo DEF Motor
    <3> QED
      BY <1>1, <1>f, <3>1, <3>2 DEF Comecar, Fases
  <2>2. states' = states /\ aberto' = aberto /\ violando' = violando /\ viciado' = viciado
    BY <1>1 DEF Comecar
  <2> QED
    BY <1>c, <2>1, <2>2 DEF Visto, Contado, Lido, Escrito, Abre
<1>2. CASE LoadAlertStates
  <2>1. /\ motor.settled = {} /\ motor'.settled = {} /\ motor'.breaches = {}
        /\ states' = states /\ aberto' = aberto /\ violando' = violando
    BY <1>2, <1>f, <1>t DEF LoadAlertStates, Fases, Motor
  <2>2. \/ motor'.states = states /\ viciado' = viciado
        \/ viciado' = Alvos
    BY <1>2, <1>t DEF LoadAlertStates, Motor
  <2> QED
    BY <1>c, <2>1, <2>2 DEF Visto, Contado, Lido, Escrito, Abre
<1>3. ASSUME NEW k \in Alvos, Dentro(k) PROVE Conta' /\ Cedo
  <2>1. /\ k \in motor.restam /\ k \notin motor.breaches
        /\ motor'.restam = motor.restam \ {k} /\ motor'.breaches = motor.breaches
        /\ motor'.novos = motor.novos /\ motor'.states = motor.states
        /\ motor'.settled = IF Encerra(motor.states[k]) THEN motor.settled \cup {k}
                            ELSE motor.settled
        /\ states' = states /\ viciado' = viciado
        /\ violando'[k] = Encerrado
        /\ \A j \in Alvos \ {k} : violando'[j] = violando[j]
    BY <1>3, <1>t, <1>f DEF Dentro, Motor, Fases
  <2>2. NaoAbre
    BY <1>3, <1>t DEF Dentro, Abre
  <2>3. ASSUME k \notin viciado, ~Encerra(motor.states[k]) PROVE states[k] = Encerrado
    <3>1. motor.states[k] \in State
      BY <1>t DEF Motor
    <3>2. motor.states[k] = Encerrado
      BY <2>3, <3>1, StateTipo DEF Encerra, HasState
    <3> QED
      BY <1>c, <2>1, <2>3, <3>2 DEF Lido
  <2>4. \A j \in Alvos : Visto(j)'
    BY <1>c, <2>1 DEF Visto
  <2>5. ASSUME NEW j \in Alvos \ viciado' PROVE (Contado(j) /\ Lido(j) /\ Escrito(j))'
    <3>1. CASE j = k
      BY <2>1, <2>3, <3>1, EncerradoAtras DEF Contado, Lido, Escrito
    <3>2. CASE j # k
      BY <1>c, <2>1, <3>2 DEF Contado, Lido, Escrito
    <3> QED
      BY <3>1, <3>2
  <2> QED
    BY <2>2, <2>4, <2>5
<1>4. ASSUME NEW k \in Alvos, Viola(k) PROVE Conta' /\ Cedo
  BY <1>4, ContaViola
<1>5. CASE FlushBreaches
  <2>1. /\ motor'.restam = {} /\ motor'.breaches = {} /\ motor'.settled = motor.settled
        /\ motor.breaches \subseteq Alvos /\ motor.settled \cap motor.breaches = {}
        /\ aberto' = aberto /\ violando' = violando
    BY <1>5, <1>t, <1>f DEF FlushBreaches, Motor, Fases
  <2>2. CASE states' = states /\ viciado' = viciado
    BY <1>c, <2>1, <2>2 DEF Visto, Contado, Lido, Escrito, Abre
  <2>3. CASE /\ states' = [k \in Alvos |-> IF k \in motor.breaches THEN motor.novos[k]
                                           ELSE states[k]]
             /\ viciado' = viciado \ {k \in motor.breaches : motor.novos[k].first = 0}
    <3>1. ASSUME NEW k \in Alvos \ viciado' PROVE Contado(k)'
      <4>1. CASE k \in motor.breaches /\ k \notin viciado
        BY <1>c, <2>1, <2>3, <4>1 DEF Escrito, Contado
      <4>2. CASE k \in motor.breaches /\ motor.novos[k].first = 0
        <5>1. violando[k].first # Nunca /\ violando[k].last = 0 /\ motor.novos[k].last = 0
          BY <1>c, <4>2 DEF Visto
        <5>2. violando[k].first >= 0
          BY <1>t, <5>1, StateTipo DEF Nunca
        <5>3. AtrasDe(motor.novos[k], violando[k])
          BY <4>2, <5>1, <5>2 DEF AtrasDe
        <5> QED
          BY <2>1, <2>3, <4>2, <5>3 DEF Contado
      <4>3. CASE k \notin motor.breaches
        BY <1>c, <2>1, <2>3, <4>3 DEF Contado
      <4> QED
        BY <2>3, <4>1, <4>2, <4>3
    <3> QED
      BY <2>1, <3>1 DEF Visto, Lido, Escrito, Abre
  <2> QED
    BY <1>5, <2>2, <2>3 DEF FlushBreaches
<1>6. CASE FlushSettled
  <2>1. /\ motor'.restam = {} /\ motor'.breaches = {} /\ motor'.settled = {}
        /\ aberto' = aberto /\ violando' = violando
    BY <1>6 DEF FlushSettled, Dormindo
  <2>2. ASSUME NEW k \in Alvos \ viciado' PROVE Contado(k)'
    <3>1. CASE k \in motor.settled
      <4>1. states'[k] = Encerrado
        BY <1>6, <2>2, <3>1 DEF FlushSettled, Settled, Encerrado
      <4> QED
        BY <4>1, EncerradoAtras DEF Contado
    <3>2. CASE k \notin motor.settled
      <4>1. states'[k] = states[k] /\ k \notin viciado
        BY <1>6, <2>2, <3>2 DEF FlushSettled
      <4> QED
        BY <1>c, <2>1, <3>2, <4>1 DEF Contado
    <3> QED
      BY <3>1, <3>2
  <2> QED
    BY <2>1, <2>2 DEF Visto, Lido, Escrito, Abre
<1>7. CASE Alternar
  BY <1>c, <1>7 DEF Alternar, Visto, Contado, Lido, Escrito, Abre
<1>8. CASE RemoverRegra
  <2>1. /\ \A k \in Alvos : states'[k] = Encerrado
        /\ motor' = motor /\ aberto' = aberto /\ violando' = violando /\ viciado' = viciado
    BY <1>8 DEF RemoverRegra, SemEstado
  <2> QED
    BY <1>c, <2>1, EncerradoAtras DEF Visto, Contado, Lido, Escrito, Abre
<1>9. ASSUME NEW k \in Alvos, Resolver(k) PROVE Conta' /\ Cedo
  <2>1. NaoAbre
    BY <1>9, <1>t DEF Resolver, Abre
  <2> QED
    BY <1>c, <1>9, <2>1 DEF Resolver, Visto, Contado, Lido, Escrito
<1>10. CASE Queda
  <2>1. /\ motor'.restam = {} /\ motor'.breaches = {} /\ motor'.settled = {}
        /\ states' = states /\ aberto' = aberto /\ violando' = violando
        /\ viciado' = viciado \cup motor.settled
    BY <1>10 DEF Queda, Dormindo
  <2> QED
    BY <1>c, <2>1 DEF Visto, Contado, Lido, Escrito, Abre
<1>11. CASE Reiniciar
  <2>1. /\ motor'.restam = {} /\ motor'.breaches = {} /\ motor'.settled = {}
        /\ motor.settled = {}
        /\ states' = states /\ aberto' = aberto /\ violando' = violando /\ viciado' = viciado
    BY <1>11, <1>f DEF Reiniciar, Dormindo, Fases
  <2> QED
    BY <1>c, <2>1 DEF Visto, Contado, Lido, Escrito, Abre
<1>12. CASE Tick
  <2>1. /\ motor' = motor /\ aberto' = aberto /\ viciado' = viciado
        /\ motor.restam = {} /\ motor.breaches = {} /\ motor.settled = {}
        /\ \A k \in Alvos : states'[k] = Velho(states[k]) /\ violando'[k] = Velho(violando[k])
    BY <1>12, <1>f DEF Tick, Fases
  <2>2. ASSUME NEW k \in Alvos, AtrasDe(states[k], violando[k])
        PROVE  AtrasDe(states'[k], violando'[k])
    BY <1>t, <2>1, <2>2, VelhoAtras
  <2> QED
    BY <1>c, <2>1, <2>2 DEF Visto, Contado, Lido, Escrito, Abre
<1>13. CASE UNCHANGED vars
  BY <1>c, <1>13 DEF vars, Visto, Contado, Lido, Escrito, Abre
<1> QED
  BY <1>1, <1>2, <1>3, <1>4, <1>5, <1>6, <1>7, <1>8, <1>9, <1>10, <1>11, <1>12, <1>13
    DEF Next, Evaluate

-----------------------------------------------------------------------------
(* The theorems.                                                            *)

\* The rule engine keeps its types: what an evaluation holds between its statements
\* is well formed whatever fails between them.
THEOREM TipoMotor == Spec => []TypeOK
<1>1. Init => TypeOK
  BY InicioBom DEF LembraInv
<1> QED
  BY <1>1, PassoTipo, PTL DEF Spec

\* No open incident is forgotten by the rule engine unless a failure, a crash or the
\* removal of the rule came in between (engine.go:256-298).
THEOREM IncidenteLembradoSempre == Spec => []IncidenteLembrado
<1>1. LembraInv => IncidenteLembrado
  BY DEF LembraInv
<1> QED
  BY <1>1, InicioBom, PassoLembra, PTL DEF Spec

\* No incident opens before its time: when one does, the violating samples evaluated so
\* far span for_duration_sec, with no hole longer than breachGap and none in the limit,
\* whatever statements failed and wherever the process died, unless the zeroing of the
\* count was lost (engine.go:164-172, 265-274).
THEOREM DuracaoSempreExigida == Spec => DuracaoExigida
<1>1. ContaInv /\ [Next]_vars =>
        /\ ContaInv'
        /\ [\A k \in Alvos : Abre(k) /\ k \notin viciado => violando'[k].first >= Required]_vars
  BY ContaPasso
<1> QED
  BY <1>1, ContaInicial, PTL DEF Spec, DuracaoExigida
=============================================================================
