------------------------ MODULE StreamReconnectProofs ------------------------
(***************************************************************************)
(* Theorems of StreamReconnect, for any sources and any number of effects, *)
(* drops and refusals.                                                     *)
(*                                                                         *)
(* SoUmaFonte is inductive with two facts more: an effect that has not run *)
(* yet holds nothing (Futuros), and what an open source says goes to the   *)
(* view that follows its key, which EstadoFiel and LinhasDaSelecao read.   *)
(***************************************************************************)
EXTENDS StreamReconnect, TLAPS

\* An effect that has not run yet has asked for nothing.
Futuros == \A e \in Efeitos : e > atual => pedidos[e] = 0

FluxoInv == TypeOK /\ Futuros /\ SoUmaFonte /\ LinhasDaSelecao /\ EstadoFiel

-----------------------------------------------------------------------------
(* The counters by effect.                                                  *)

\* One more, one less and the clean-up change the count of one effect only.
LEMMA ContadorTipo ==
  ASSUME NEW f \in [Efeitos -> Nat], NEW e \in Efeitos
  PROVE  /\ Mais(f, e) \in [Efeitos -> Nat] /\ Mais(f, e)[e] = f[e] + 1
         /\ f[e] > 0 => Menos(f, e) \in [Efeitos -> Nat] /\ Menos(f, e)[e] = f[e] - 1
         /\ Fecha(f, e) \in [Efeitos -> Nat]
         /\ f[e] \in {0, 1} => Fecha(f, e)[e] = 0
         /\ \A d \in Efeitos \ {e} :
              Mais(f, e)[d] = f[d] /\ Menos(f, e)[d] = f[d] /\ Fecha(f, e)[d] = f[d]
  BY DEF Mais, Menos, Fecha

\* A step that changes the requests of an effect that has run leaves the later ones alone.
LEMMA FuturosFicam ==
  ASSUME TypeOK, Futuros, NEW e \in Efeitos, ~(e > atual), atual' = atual,
         \A d \in Efeitos \ {e} : pedidos'[d] = pedidos[d]
  PROVE  Futuros'
  <1>1. ASSUME NEW d \in Efeitos, d > atual PROVE pedidos'[d] = 0
    BY <1>1 DEF Futuros
  <1>. QED  BY <1>1 DEF Futuros

\* The state of the initial view.
LEMMA FluxoInicia ==
  ASSUME ConstantesOk, Init
  PROVE  FluxoInv
  BY DEF ConstantesOk, Init, FluxoInv, TypeOK, Futuros, SoUmaFonte, LinhasDaSelecao, EstadoFiel,
         Efeitos, Estados

\* A new selection: the clean-up leaves nothing behind and the new effect asks once.
LEMMA SelecionaMantem ==
  ASSUME ConstantesOk, FluxoInv, NEW k \in Fontes \cup {Nenhuma}, Seleciona(k)
  PROVE  FluxoInv'
  <1>. USE DEF ConstantesOk, FluxoInv, Seleciona
  <1>1. atual \in Efeitos /\ atual + 1 \in Efeitos
    BY DEF TypeOK, Efeitos
  <1>2. TypeOK'
    BY <1>1, ContadorTipo DEF TypeOK, Estados
  <1>a. pedidos \in [Efeitos -> Nat] /\ pedidos[atual + 1] = 0
    BY <1>1 DEF TypeOK, Futuros, Efeitos
  <1>b. \A e \in Efeitos \ {atual + 1} : pedidos'[e] = pedidos[e]
    BY <1>1, <1>a, ContadorTipo
  <1>c. pedidos'[atual + 1] = IF k = Nenhuma THEN 0 ELSE 1
    <2>1. Mais(pedidos, atual + 1)[atual + 1] = pedidos[atual + 1] + 1
      BY <1>1, <1>a, ContadorTipo
    <2>. QED  BY <1>a, <2>1
  <1>3. ASSUME NEW e \in Efeitos, e > atual' PROVE pedidos'[e] = 0
    <2>1. e \in Efeitos \ {atual + 1} /\ e > atual
      BY <1>1, <1>3 DEF Efeitos
    <2>. QED  BY <1>b, <2>1 DEF Futuros
  <1>4. chave'[atual'] = k
    BY <1>1 DEF TypeOK
  <1>5. fontes[atual] \in {0, 1} /\ timers[atual] \in {0, 1}
    BY <1>1 DEF TypeOK, SoUmaFonte
  <1>6. \A e \in Efeitos : fontes'[e] = 0 /\ timers'[e] = 0
    BY <1>1, <1>5, ContadorTipo DEF TypeOK, SoUmaFonte
  <1>7. SoUmaFonte'
    BY <1>1, <1>4, <1>6, <1>c DEF SoUmaFonte
  <1>8. LinhasDaSelecao' /\ EstadoFiel'
    BY <1>1, <1>6 DEF LinhasDaSelecao, EstadoFiel
  <1>. QED  BY <1>2, <1>3, <1>7, <1>8 DEF Futuros

\* An answer: the one of the current effect opens its only source, another none.
LEMMA AbreMantem ==
  ASSUME ConstantesOk, FluxoInv, NEW e \in Efeitos, Abre(e)
  PROVE  FluxoInv'
  <1>. USE DEF ConstantesOk, FluxoInv, Abre, Cancelado
  <1>1. TypeOK'
    BY ContadorTipo DEF TypeOK, Estados
  <1>2. Futuros'
    <2>1. ~(e > atual)
      BY DEF Futuros
    <2>2. \A d \in Efeitos \ {e} : pedidos'[d] = pedidos[d]
      BY ContadorTipo DEF TypeOK
    <2>. QED  BY <2>1, <2>2, FuturosFicam
  <1>3. SoUmaFonte' /\ EstadoFiel'
    BY ContadorTipo DEF TypeOK, SoUmaFonte, EstadoFiel
  <1>. QED  BY <1>1, <1>2, <1>3 DEF LinhasDaSelecao

\* A refusal: the current effect changes its request for a timer.
LEMMA RecusaMantem ==
  ASSUME ConstantesOk, FluxoInv, NEW e \in Efeitos, Recusa(e)
  PROVE  FluxoInv'
  <1>. USE DEF ConstantesOk, FluxoInv, Recusa, Cancelado, Agenda
  <1>1. TypeOK'
    BY ContadorTipo DEF TypeOK, Estados
  <1>2. Futuros'
    <2>1. ~(e > atual)
      BY DEF Futuros
    <2>2. \A d \in Efeitos \ {e} : pedidos'[d] = pedidos[d]
      BY ContadorTipo DEF TypeOK
    <2>. QED  BY <2>1, <2>2, FuturosFicam
  <1>3. SoUmaFonte' /\ EstadoFiel'
    BY ContadorTipo DEF TypeOK, SoUmaFonte, EstadoFiel
  <1>. QED  BY <1>1, <1>2, <1>3 DEF LinhasDaSelecao

\* A drop: only the current effect has a source, and changes it for a timer.
LEMMA CaiMantem ==
  ASSUME ConstantesOk, FluxoInv, NEW e \in Efeitos, Cai(e)
  PROVE  FluxoInv'
  <1>. USE DEF ConstantesOk, FluxoInv, Cai, Cancelado, Agenda
  <1>1. TypeOK'
    BY ContadorTipo DEF TypeOK, Estados
  <1>2. e = atual
    BY DEF TypeOK, SoUmaFonte
  <1>3. SoUmaFonte' /\ EstadoFiel'
    BY <1>2, ContadorTipo DEF TypeOK, SoUmaFonte, EstadoFiel
  <1>. QED  BY <1>1, <1>3 DEF LinhasDaSelecao, Futuros

\* A timer: only the current effect has one, and changes it for a request.
LEMMA DisparaMantem ==
  ASSUME ConstantesOk, FluxoInv, NEW e \in Efeitos, Dispara(e)
  PROVE  FluxoInv'
  <1>. USE DEF ConstantesOk, FluxoInv, Dispara, Cancelado
  <1>1. e = atual
    BY DEF TypeOK, SoUmaFonte
  <1>2. TypeOK'
    BY ContadorTipo DEF TypeOK, Estados
  <1>3. Futuros'
    <2>1. ~(e > atual)
      BY <1>1 DEF TypeOK, Efeitos
    <2>2. \A d \in Efeitos \ {e} : pedidos'[d] = pedidos[d]
      BY <1>1, ContadorTipo DEF TypeOK
    <2>. QED  BY <2>1, <2>2, FuturosFicam
  <1>a. /\ pedidos \in [Efeitos -> Nat] /\ fontes \in [Efeitos -> Nat] /\ timers \in [Efeitos -> Nat]
        /\ atual \in Efeitos
    BY DEF TypeOK
  <1>b. pedidos'[atual] = pedidos[atual] + 1 /\ timers'[atual] = timers[atual] - 1
    BY <1>1, <1>a, ContadorTipo
  <1>c. \A d \in Efeitos \ {atual} : timers'[d] = timers[d]
    BY <1>1, <1>a, ContadorTipo
  <1>4. SoUmaFonte'
    BY <1>a, <1>b, <1>c DEF SoUmaFonte
  <1>5. EstadoFiel'
    BY <1>1, <1>a, <1>b DEF EstadoFiel
  <1>. QED  BY <1>2, <1>3, <1>4, <1>5 DEF LinhasDaSelecao

\* A line: the only open source is of what is selected.
LEMMA MensagemMantem ==
  ASSUME ConstantesOk, FluxoInv, NEW e \in Efeitos, Mensagem(e)
  PROVE  FluxoInv'
  <1>. USE DEF ConstantesOk, FluxoInv, Mensagem
  <1>1. e = atual
    BY DEF TypeOK, SoUmaFonte
  <1>2. chave[atual] \in Fontes
    BY <1>1 DEF TypeOK, SoUmaFonte
  <1>3. TypeOK' /\ LinhasDaSelecao'
    BY <1>1, <1>2 DEF TypeOK, LinhasDaSelecao
  <1>. QED  BY <1>3 DEF Futuros, SoUmaFonte, EstadoFiel

\* Any step, by its action.
LEMMA FluxoMantem ==
  ASSUME ConstantesOk, FluxoInv, [Next]_vars
  PROVE  FluxoInv'
  <1>1. CASE UNCHANGED vars
    BY <1>1 DEF FluxoInv, TypeOK, Futuros, SoUmaFonte, LinhasDaSelecao, EstadoFiel, vars
  <1>2. ASSUME NEW k \in Fontes \cup {Nenhuma}, Seleciona(k) PROVE FluxoInv'
    BY <1>2, SelecionaMantem
  <1>3. ASSUME NEW e \in Efeitos, Passo(e) PROVE FluxoInv'
    BY <1>3, AbreMantem, RecusaMantem, CaiMantem, DisparaMantem, MensagemMantem DEF Passo
  <1>. QED  BY <1>1, <1>2, <1>3 DEF Next

-----------------------------------------------------------------------------
\* The waits: five powers, then the ceiling.
LEMMA EsperasNominais ==
  ASSUME NEW t \in Nat
  PROVE  /\ t = 0 => EsperaNominal(t) = 1000
         /\ t = 1 => EsperaNominal(t) = 2000
         /\ t = 2 => EsperaNominal(t) = 4000
         /\ t = 3 => EsperaNominal(t) = 8000
         /\ t = 4 => EsperaNominal(t) = 16000
         /\ t >= 5 => EsperaNominal(t) = 30000
  <1>1. 2^0 = 1 /\ 2^1 = 2 /\ 2^2 = 4 /\ 2^3 = 8 /\ 2^4 = 16
    OBVIOUS
  <1>2. t < 5 => EsperaNominal(t) = BaseMs * 2^t
    BY DEF EsperaNominal
  <1>3. t >= 5 => EsperaNominal(t) = 30000
    BY DEF EsperaNominal, TetoMs
  <1>4. /\ BaseMs * 2^0 = 1000 /\ BaseMs * 2^1 = 2000 /\ BaseMs * 2^2 = 4000 /\ BaseMs * 2^3 = 8000
        /\ BaseMs * 2^4 = 16000
    BY <1>1 DEF BaseMs
  <1>. DEFINE e(u) == BaseMs * 2^u
  <1>5. /\ t < 5 => EsperaNominal(t) = e(t)
        /\ e(0) = 1000 /\ e(1) = 2000 /\ e(2) = 4000 /\ e(3) = 8000 /\ e(4) = 16000
    BY <1>2, <1>4
  <1>. HIDE DEF e
  <1>. QED  BY <1>3, <1>5

\* a wait a fifth away from the nominal one, at most
Perto(n, a) == a \in Int /\ 4 * n <= 5 * a /\ 5 * a <= 6 * n

\* The draw takes a wait a fifth away, at most.
LEMMA EsperaSorteada ==
  ASSUME NEW n \in {1000, 2000, 4000, 8000, 16000, 30000}, NEW s \in Sorteios
  PROVE  Perto(n, (n * (100 + s)) \div 100)
  <1>. USE DEF Sorteios, Perto
  <1>1. CASE n = 1000
    BY <1>1
  <1>2. CASE n = 2000
    BY <1>2
  <1>3. CASE n = 4000
    BY <1>3
  <1>4. CASE n = 8000
    BY <1>4
  <1>5. CASE n = 16000
    BY <1>5
  <1>6. CASE n = 30000
    BY <1>6
  <1>. QED  BY <1>1, <1>2, <1>3, <1>4, <1>5, <1>6

\* No wait is short, and none but the longest is as long as the next, whatever was drawn.
LEMMA EsperaSempreCresce ==
  ASSUME TypeOK
  PROVE  EsperaCresce
  <1>1. tentativa \in Nat /\ tentativa + 1 \in Nat
    BY DEF TypeOK
  <1>. DEFINE n == EsperaNominal(tentativa)
              m == EsperaNominal(tentativa + 1)
  <1>2. /\ tentativa = 0 => n = 1000 /\ m = 2000
        /\ tentativa = 1 => n = 2000 /\ m = 4000
        /\ tentativa = 2 => n = 4000 /\ m = 8000
        /\ tentativa = 3 => n = 8000 /\ m = 16000
        /\ tentativa = 4 => n = 16000 /\ m = 30000
        /\ tentativa >= 5 => n = 30000 /\ m = 30000
    <2>1. /\ tentativa = 0 => n = 1000
          /\ tentativa = 1 => n = 2000
          /\ tentativa = 2 => n = 4000
          /\ tentativa = 3 => n = 8000
          /\ tentativa = 4 => n = 16000
          /\ tentativa >= 5 => n = 30000
      BY <1>1, EsperasNominais
    <2>2. /\ tentativa + 1 = 1 => m = 2000
          /\ tentativa + 1 = 2 => m = 4000
          /\ tentativa + 1 = 3 => m = 8000
          /\ tentativa + 1 = 4 => m = 16000
          /\ tentativa + 1 >= 5 => m = 30000
      BY <1>1, EsperasNominais
    <2>. HIDE DEF n, m
    <2>. QED  BY <1>1, <2>1, <2>2
  <1>. HIDE DEF n, m
  <1>3. \/ n = 1000 /\ m = 2000
        \/ n = 2000 /\ m = 4000
        \/ n = 4000 /\ m = 8000
        \/ n = 8000 /\ m = 16000
        \/ n = 16000 /\ m = 30000
        \/ n = 30000 /\ m = 30000
    BY <1>1, <1>2
  <1>4. ASSUME NEW s \in Sorteios, NEW z \in Sorteios
        PROVE  /\ 800 <= EsperaDoBackoff(tentativa, s) /\ EsperaDoBackoff(tentativa, s) <= 36000
               /\ EsperaNominal(tentativa) < TetoMs =>
                    EsperaDoBackoff(tentativa, s) < EsperaDoBackoff(tentativa + 1, z)
    <2>. DEFINE a == EsperaDoBackoff(tentativa, s)
                b == EsperaDoBackoff(tentativa + 1, z)
    <2>1. a = (n * (100 + s)) \div 100 /\ b = (m * (100 + z)) \div 100
      BY DEF EsperaDoBackoff, n, m
    <2>. HIDE DEF a, b
    <2>2. Perto(n, a) /\ Perto(m, b)
      BY <1>3, <2>1, EsperaSorteada
    <2>3. 800 <= a /\ a <= 36000 /\ (n < TetoMs => a < b)
      BY <1>3, <2>2 DEF Perto, TetoMs
    <2>. QED  BY <2>3 DEF a, b, n
  <1>. QED  BY <1>4 DEF EsperaCresce

-----------------------------------------------------------------------------
\* The view keeps one source for what it follows and none for what it left, shows lines
\* of the selection only, says truly how it is connected, and waits longer from one drop to
\* the next, however late the answers and the drops come (components/ui/stream-reconnect.ts).
THEOREM FluxoSempreIntegro ==
  ASSUME ConstantesOk
  PROVE  Spec => [](TypeOK /\ SoUmaFonte /\ LinhasDaSelecao /\ EstadoFiel /\ EsperaCresce)
  <1>1. Init => FluxoInv
    BY FluxoInicia
  <1>2. FluxoInv /\ [Next]_vars => FluxoInv'
    BY FluxoMantem
  <1>3. FluxoInv => TypeOK /\ SoUmaFonte /\ LinhasDaSelecao /\ EstadoFiel /\ EsperaCresce
    BY EsperaSempreCresce DEF FluxoInv
  <1>. QED  BY <1>1, <1>2, <1>3, PTL DEF Spec
=============================================================================
