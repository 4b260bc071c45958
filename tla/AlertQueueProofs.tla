---------------------------- MODULE AlertQueueProofs ----------------------------
(***************************************************************************)
(* Theorems about AlertQueue, for every number of keys, detectors,         *)
(* operators, processes, channels and rows, and every value of the times:  *)
(* the types and what a key and an opening promise (TipoInv, ChaveInv),    *)
(* what "enviado" and a recovery mean (EntregaInv), what "dispensado"      *)
(* means (CalaInv), that the queue implements AlertLifecycle (CicloInv),   *)
(* and that the cooldown holds per row and channel (RitmoInv).             *)
(***************************************************************************)
EXTENDS AlertQueueProperties, WellFoundedInduction, NaturalsInduction, FiniteSetTheorems, TLAPS

\* Min of a nonempty set of naturals belongs to it, and nothing in it is smaller.
LEMMA MinPertence ==
  ASSUME NEW S \in SUBSET Nat, S # {}
  PROVE  Min(S) \in S /\ \A y \in S : Min(S) =< y
  <1>. DEFINE R == {ss \in Nat \X Nat : ss[1] < ss[2]}
  <1>1. IsWellFoundedOn(R, Nat)
    BY NatLessThanWellFounded DEF OpToRel
  <1>. HIDE DEF R
  <1>2. PICK x \in S : \A y \in S : ~(<<y, x>> \in R)
    BY <1>1, WFMin
  <1>3. ASSUME NEW y \in S PROVE x =< y
    <2>1. x \in Nat /\ y \in Nat
      OBVIOUS
    <2>2. ~(y < x)
      BY <1>2, <2>1 DEF R
    <2>. QED BY <2>1, <2>2
  <1>. QED BY <1>3 DEF Min

LEMMA MaxPertence ==
  ASSUME NEW n \in Nat, NEW S \in SUBSET (0..n), S # {}
  PROVE  Max(S) \in S /\ \A y \in S : Max(S) >= y
  <1>. DEFINE T == {n - x : x \in S}
  <1>1. T \in SUBSET Nat /\ T # {}
    <2>1. \A x \in S : n - x \in Nat
      OBVIOUS
    <2>. QED BY <2>1
  <1>. HIDE DEF T
  <1>2. Min(T) \in T /\ \A y \in T : Min(T) =< y
    BY <1>1, MinPertence
  <1>4. PICK m \in S : Min(T) = n - m
    BY <1>2 DEF T
  <1>5. ASSUME NEW y \in S PROVE m >= y
    <2>1. n - y \in T
      BY DEF T
    <2>. QED BY <1>2, <1>4, <2>1
  <1>. QED BY <1>5 DEF Max

\* The waits, countdowns and ages the rows carry.
LEMMA RetryDelayTipo ==
  ASSUME NEW n PROVE RetryDelay(n) \in 0..EsperaMax
  BY ConstantesOk DEF RetryDelay

LEMMA FaltaTipo ==
  ASSUME NEW m \in Nat, NEW n \in 0..m, NEW d \in Nat
  PROVE  Falta(n, d) \in 0..m
  BY DEF Falta

LEMMA FaltaPrazo ==
  ASSUME NEW n \in Prazos, NEW d \in Nat
  PROVE  Falta(n, d) \in Prazos
  <1>1. Lease + EsperaMax + Cooldown \in Nat
    BY ConstantesOk
  <1>. QED BY <1>1, FaltaTipo DEF Prazos

LEMMA EnvelheceTipo ==
  ASSUME NEW teto \in Nat, NEW n \in Nunca..teto
  PROVE  /\ Envelhece(n, teto) \in Nunca..teto
         /\ n \in Nat => Envelhece(n, teto) \in 0..teto
  BY DEF Envelhece, Nunca

LEMMA NovaTipo ==
  ASSUME NEW k \in Chaves, NEW rec \in BOOLEAN, NEW status \in Situacoes,
         NEW prox \in Prazos
  PROVE  Nova(k, rec, status, prox) \in Alerta
  BY ConstantesOk DEF Nova, Alerta, Entregas, Nunca

LEMMA LinhasTipo ==
  LinhaAusente \in Linha /\ LinhaDevida \in Linha /\ SemLinhas \in [Canais -> Linha]
  BY ConstantesOk DEF LinhaAusente, LinhaDevida, SemLinhas, Linha, Entregas, Prazos

LEMMA ZeroTipo == /\ 0 \in Prazos /\ 0 \in 0..MaxAlertas /\ 0 \in 0..Duracao
                  /\ 0 \in 0..(Retomada + 1)
  BY ConstantesOk DEF Prazos

LEMMA ResolvidasTipo ==
  ASSUME alerta \in [Ids -> Alerta], NEW S
  PROVE  Resolvidas(S) \in [Ids -> Alerta]
  BY DEF Resolvidas, Alerta, Situacoes

LEMMA DevolvidaTipo ==
  ASSUME NEW r \in Alerta
  PROVE  /\ Devolvida(r) \in Alerta
         /\ [Devolvida(r) EXCEPT !.visto = 0] \in Alerta
         /\ [r EXCEPT !.visto = 0] \in Alerta
  BY ZeroTipo DEF Devolvida, Alerta, Entregas

LEMMA ApagadaTipo ==
  ASSUME alerta \in [Ids -> Alerta], NEW a \in Ids
  PROVE  Apagada(a) \in Alerta
  <1>1. alerta[a].chave \in Chaves /\ alerta[a].rec \in BOOLEAN
    BY DEF Alerta
  <1>. QED BY <1>1, NovaTipo, ZeroTipo DEF Apagada, Situacoes

LEMMA DetOciosoTipo == DetOcioso \in Det
  BY ZeroTipo DEF DetOcioso, Det

-----------------------------------------------------------------------------
(* Type correctness: the detectors and the operators.                       *)

LEMMA TipoDetector ==
  ASSUME TypeOK, NEW d \in Detectores, Detector(d)
  PROVE  TypeOK'
  <1>0. /\ alerta \in [Ids -> Alerta] /\ det \in [Detectores -> Det]
        /\ linha \in [Ids -> [Canais -> Linha]]
    BY DEF TypeOK
  <1>a. ChaveDe[d] \in Chaves
    BY ConstantesOk
  <1>b. [det EXCEPT ![d] = DetOcioso] \in [Detectores -> Det]
    BY <1>0, DetOciosoTipo
  <1>c. \A S : /\ VivasDe(ChaveDe[d]) \in SUBSET Ids
               /\ Resolvidas(S) \in [Ids -> Alerta]
    BY <1>0, ResolvidasTipo DEF VivasDe, DaChave
  <1>1. CASE EnqueueVivo(d)
    <2>. DEFINE vivos == {a \in VivasDe(ChaveDe[d]) : alerta[a].visto <= Retomada}
                v == [DetOcioso EXCEPT !.pc = "renotifica", !.id = Max(vivos),
                                       !.avisar = PodeAvisar(Max(vivos))]
    <2>1. \/ det' = [det EXCEPT ![d].pc = "ultimo"]
          \/ vivos # {} /\ det' = [det EXCEPT ![d] = v]
      BY <1>1 DEF EnqueueVivo
    <2>2. [det EXCEPT ![d].pc = "ultimo"] \in [Detectores -> Det]
      BY <1>0 DEF Det
    <2>3. vivos # {} => Max(vivos) \in 0..MaxAlertas
      <3>1. vivos \in SUBSET (0..MaxAlertas) /\ MaxAlertas \in Nat
        <4>1. vivos \subseteq Ids
          BY <1>c
        <4>. HIDE DEF vivos
        <4>. QED  BY <4>1, ConstantesOk DEF Ids
      <3>. QED BY <3>1, MaxPertence
    <2>4. vivos # {} => v \in Det
      BY <2>3, DetOciosoTipo, ZenonT(60) DEF Det, PodeAvisar
    <2>5. det' \in [Detectores -> Det]
      <3>. HIDE DEF vivos, v
      <3>. QED BY <1>0, <2>1, <2>2, <2>4
    <2>. QED BY <1>1, <2>5 DEF EnqueueVivo, TypeOK, tabelas, externo
  <1>2. CASE Renotificar(d)
    <2>. DEFINE i == det[d].id
    <2>1. \/ alerta' = alerta
          \/ alerta' = [alerta EXCEPT ![i] = [Devolvida(@) EXCEPT !.visto = 0]]
          \/ alerta' = [alerta EXCEPT ![i].visto = 0]
      BY <1>2 DEF Renotificar
    <2>2. alerta' \in [Ids -> Alerta]
      <3>. HIDE DEF i
      <3>. QED BY <1>0, <2>1, DevolvidaTipo, ZenonT(60)
    <2>3. det' \in [Detectores -> Det]
      <3>1. \/ det' = [det EXCEPT ![d].pc = "reabre"]
            \/ det' = [det EXCEPT ![d] = DetOcioso]
        BY <1>2 DEF Renotificar
      <3>2. [det EXCEPT ![d].pc = "reabre"] \in [Detectores -> Det]
        BY <1>0 DEF Det
      <3>. QED BY <1>b, <3>1, <3>2
    <2>. QED BY <1>2, <2>2, <2>3 DEF Renotificar, TypeOK, externo
  <1>3. CASE ReabrirLinhas(d)
    <2>. DEFINE i == det[d].id
                F == [c \in Canais |-> IF linha[i][c].status = "ausente"
                                        THEN linha[i][c] ELSE LinhaDevida]
    <2>1. linha' = linha \/ linha' = [linha EXCEPT ![i] = F]
      BY <1>3 DEF ReabrirLinhas
    <2>2. i \in Ids => F \in [Canais -> Linha]
      BY <1>0, LinhasTipo
    <2>3. linha' \in [Ids -> [Canais -> Linha]]
      <3>. HIDE DEF i, F
      <3>. QED BY <1>0, <2>1, <2>2
    <2>. QED BY <1>3, <1>b, <2>3 DEF ReabrirLinhas, TypeOK, externo
  <1>4. CASE UltimoAviso(d)
    <2>. DEFINE avisos == {alerta[a].notif : a \in DaChave(ChaveDe[d])} \ {Nunca}
    <2>1. avisos # {} => Falta(Cooldown, Min(avisos)) \in Prazos
      <3>1. avisos \in SUBSET (0..Cooldown)
        BY <1>0, ConstantesOk DEF DaChave, Alerta, Nunca
      <3>. HIDE DEF avisos
      <3>2. avisos \in SUBSET Nat
        BY <3>1
      <3>3. avisos # {} => Min(avisos) \in 0..Cooldown
        BY <3>1, <3>2, MinPertence
      <3>. QED BY <3>3, ConstantesOk DEF Falta, Prazos
    <2>2. PICK n \in Prazos : det' = [det EXCEPT ![d] = [@ EXCEPT !.pc = "cria",
                                                                 !.prox = n]]
      <3>1. \/ det' = [det EXCEPT ![d] = [@ EXCEPT !.pc = "cria", !.prox = 0]]
            \/ /\ avisos # {}
               /\ det' = [det EXCEPT ![d] = [@ EXCEPT !.pc = "cria",
                                               !.prox = Falta(Cooldown, Min(avisos))]]
        BY <1>4 DEF UltimoAviso
      <3>. QED BY <2>1, <3>1, ZeroTipo
    <2>3. det' \in [Detectores -> Det]
      BY <1>0, <2>2 DEF Det
    <2>. QED BY <1>4, <2>3 DEF UltimoAviso, TypeOK, tabelas, externo
  <1>5. CASE CriarAlerta(d)
    <2>. DEFINE n == Min(Livres)
                r == Nova(ChaveDe[d], FALSE, "gravando", det[d].prox)
    <2>1. n \in Ids
      <3>1. Livres # {} /\ Livres \subseteq Ids
        BY <1>5 DEF CriarAlerta, Livres
      <3>2. Livres \in SUBSET Nat
        BY <3>1 DEF Ids
      <3>. QED BY <3>1, <3>2, MinPertence
    <2>2. det[d].prox \in Prazos
      BY <1>0 DEF Det
    <2>3. r \in Alerta
      BY <1>a, <2>2, NovaTipo DEF Situacoes
    <2>4. alerta' \in [Ids -> Alerta]
      <3>1. alerta' = [alerta EXCEPT ![n] = r]
        BY <1>5 DEF CriarAlerta
      <3>. HIDE DEF n, r
      <3>. QED BY <1>0, <2>3, <3>1
    <2>5. det' \in [Detectores -> Det]
      <3>1. det' = [det EXCEPT ![d] = [@ EXCEPT !.pc = "confirma", !.id = n,
                                             !.ids = VivasDe(ChaveDe[d])]]
        BY <1>5 DEF CriarAlerta
      <3>2. n \in 0..MaxAlertas /\ VivasDe(ChaveDe[d]) \in SUBSET Ids
        BY <1>c, <2>1, ConstantesOk DEF Ids
      <3>3. ASSUME NEW m \in 0..MaxAlertas, NEW S \in SUBSET Ids
            PROVE  [det[d] EXCEPT !.pc = "confirma", !.id = m, !.ids = S] \in Det
        BY <1>0 DEF Det
      <3>. HIDE DEF n
      <3>. QED BY <1>0, <3>1, <3>2, <3>3
    <2>. QED BY <1>5, <2>4, <2>5 DEF CriarAlerta, TypeOK, externo
  <1>6. CASE ConfirmarAlerta(d)
    <2>. DEFINE i == det[d].id
                R == Resolvidas(det[d].ids)
    <2>1. alerta' = [R EXCEPT ![i].status = "open"] \/ alerta' = [alerta EXCEPT ![i] = Apagada(i)]
      BY <1>6 DEF ConfirmarAlerta
    <2>2. [R EXCEPT ![i].status = "open"] \in [Ids -> Alerta]
      <3>. HIDE DEF R, i
      <3>1. R \in [Ids -> Alerta]
        BY <1>c DEF R
      <3>. QED BY <3>1 DEF Alerta, Situacoes
    <2>3. i \in Ids => Apagada(i) \in Alerta
      BY <1>0, ApagadaTipo
    <2>4. alerta' \in [Ids -> Alerta]
      <3>. HIDE DEF i, R
      <3>. QED BY <1>0, <2>1, <2>2, <2>3
    <2>. QED BY <1>6, <1>b, <2>4 DEF ConfirmarAlerta, TypeOK, externo
  <1>7. CASE RecoveredLer(d)
    <2>. DEFINE avisa == Anunciado(VivasDe(ChaveDe[d]))
                r == [det[d] EXCEPT !.pc = "resolve", !.avisar = avisa]
    <2>1. det' = [det EXCEPT ![d] = r]
      BY <1>7 DEF RecoveredLer
    <2>3. avisa \in BOOLEAN
      BY DEF Anunciado
    <2>4. r \in Det
      <3>. HIDE DEF avisa
      <3>. QED BY <1>0, <2>3 DEF Det
    <2>2. det' \in [Detectores -> Det]
      <3>. HIDE DEF r
      <3>. QED BY <1>0, <2>1, <2>4
    <2>. QED BY <1>7, <2>2 DEF RecoveredLer, TypeOK, tabelas, externo
  <1>8. CASE RecoveredResolver(d)
    <2>1. alerta' \in [Ids -> Alerta]
      BY <1>0, <1>8, <1>c DEF RecoveredResolver
    <2>2. det' \in [Detectores -> Det]
      <3>1. \/ det' = [det EXCEPT ![d].pc = "anuncia"]
            \/ det' = [det EXCEPT ![d] = DetOcioso]
        BY <1>8 DEF RecoveredResolver
      <3>2. [det EXCEPT ![d].pc = "anuncia"] \in [Detectores -> Det]
        BY <1>0 DEF Det
      <3>. QED BY <1>b, <3>1, <3>2
    <2>. QED BY <1>8, <2>1, <2>2 DEF RecoveredResolver, TypeOK, externo
  <1>9. CASE RecoveredAnunciar(d)
    <2>. DEFINE r == Nova(ChaveDe[d], TRUE, "resolved", 0)
    <2>1. r \in Alerta
      BY <1>a, NovaTipo, ZeroTipo DEF Situacoes
    <2>2. alerta' \in [Ids -> Alerta]
      <3>1. alerta' = alerta \/ alerta' = [alerta EXCEPT ![Min(Livres)] = r]
        BY <1>9 DEF RecoveredAnunciar
      <3>. HIDE DEF r
      <3>. QED BY <1>0, <2>1, <3>1
    <2>. QED BY <1>9, <1>b, <2>2 DEF RecoveredAnunciar, TypeOK, externo
  <1>. QED BY <1>1, <1>2, <1>3, <1>4, <1>5, <1>6, <1>7, <1>8, <1>9
           DEF Detector, DetectorContinua

LEMMA TipoOperador ==
  ASSUME TypeOK, NEW o \in Operadores, AlertDaRota(o) \/ AlertGravar(o)
  PROVE  TypeOK'
  <1>0. /\ alerta \in [Ids -> Alerta] /\ op \in [Operadores -> Op] /\ tardio \subseteq Ids
    BY DEF TypeOK
  <1>1. CASE AlertDaRota(o)
    <2>1. PICK a \in Ids, v \in Verbos : op' = [op EXCEPT ![o] = [verbo |-> v, id |-> a]]
      BY <1>1 DEF AlertDaRota
    <2>2. [verbo |-> v, id |-> a] \in Op
      BY ConstantesOk DEF Op
    <2>3. op' \in [Operadores -> Op]
      BY <1>0, <2>1, <2>2
    <2>. QED BY <1>1, <2>3 DEF AlertDaRota, TypeOK, tabelas, externo
  <1>2. CASE AlertGravar(o)
    <2>. DEFINE a == op[o].id
                v == op[o].verbo
    <2>0. v \in Situacoes /\ a \in Ids
      BY <1>0, <1>2 DEF Op, OpOcioso, AlertGravar, Situacoes
    <2>1. alerta' = alerta \/ alerta' = [alerta EXCEPT ![a].status = v]
      BY <1>2 DEF AlertGravar
    <2>2. alerta' \in [Ids -> Alerta]
      <3>. HIDE DEF a, v
      <3>. QED BY <1>0, <2>0, <2>1 DEF Alerta
    <2>3. tardio' \subseteq Ids
      BY <1>0, <1>2, <2>0 DEF AlertGravar
    <2>4. op' \in [Operadores -> Op]
      BY <1>0, <1>2 DEF AlertGravar, OpOcioso, Op
    <2>. QED BY <1>2, <2>2, <2>3, <2>4 DEF AlertGravar, TypeOK
  <1>. QED BY <1>1, <1>2
-----------------------------------------------------------------------------
(* Type correctness: the dispatchers.                                       *)

LEMMA DespInicioTipo == DespInicio \in Desp /\ DespDorme \in Desp
  BY ZeroTipo, LinhasTipo DEF DespInicio, DespDorme, Desp, Registro, Entregas

LEMMA DepoisTipo ==
  ASSUME NEW d \in Desp
  PROVE  DepoisDeDispensar(d) \in Desp /\ DepoisDeRetomar(d) \in Desp
  BY ZenonT(60) DEF DepoisDeDispensar, DepoisDeRetomar, Desp, Registro, Entregas

LEMMA LoteTipo ==
  ASSUME NEW d \in Desp, NEW S \in SUBSET Ids, S # {}
  PROVE  [d EXCEPT !.pc = "prepara", !.lote = S] \in Desp
  <1>. DEFINE r == [d EXCEPT !.pc = "prepara", !.lote = S]
  <1>1. d \in Registro /\ \A c \in d.faltam : d.lin[c].status = "pendente"
    BY DEF Desp
  <1>2. r \in Registro
    BY <1>1 DEF Registro
  <1>3. /\ r.pc = "prepara" /\ r.lote = S
        /\ r.faltam = d.faltam /\ r.lin = d.lin
    BY <1>1 DEF Registro
  <1>4. r \in Desp
    <2>. HIDE DEF r
    <2>. QED BY <1>1, <1>2, <1>3 DEF Desp
  <1>. QED BY <1>4

LEMMA MarcandoTipo ==
  ASSUME NEW f \in [Processos -> Desp], NEW p \in Processos
  PROVE  Marcando(p, f) \in [Processos -> Desp]
  <1>1. ASSUME NEW d \in Desp
        PROVE  [d EXCEPT !.marcaram = @ \cup {p}] \in Desp
    BY DEF Desp, Registro
  <1>. QED BY <1>1 DEF Marcando

LEMMA MarcadoTipo ==
  ASSUME TypeOK, NEW p \in Processos, NEW bem
  PROVE  /\ Marcado(p, bem) \in Canal
         /\ [canal EXCEPT ![p] = Marcado(p, bem)] \in [Processos -> Canal]
  <1>1. Marcado(p, bem) \in Canal
    BY DEF Marcado, Canal, Estados, Falhos, TypeOK
  <1>. QED BY <1>1 DEF TypeOK

LEMMA ProximoTipo ==
  ASSUME TypeOK, NEW p \in Processos
  PROVE  Proximo(p) \in Desp
  <1>. DEFINE resto == desp[p].lote \ {Atual(p)}
  <1>1. resto \in SUBSET Ids
    BY DEF TypeOK, Desp, Registro
  <1>. QED BY <1>1, LoteTipo, DespInicioTipo DEF Proximo

LEMMA AtualTipo ==
  ASSUME TypeOK, NEW p \in Processos,
         desp[p].pc \in {"prepara", "envia", "consolida"}
  PROVE  Atual(p) \in Ids
  <1>1. desp[p].lote # {} /\ desp[p].lote \subseteq Ids
    BY DEF TypeOK, Desp, Registro
  <1>2. desp[p].lote \in SUBSET Nat
    BY <1>1 DEF Ids
  <1>. QED BY <1>1, <1>2, MinPertence DEF Atual

LEMMA TipoDispensar ==
  ASSUME TypeOK, NEW p \in Processos,
         FecharDuplicados(p) \/ DispensarLer(p) \/ DispensarAlertas(p) \/ DispensarLinhas(p)
  PROVE  TypeOK'
  <1>0. /\ alerta \in [Ids -> Alerta] /\ desp \in [Processos -> Desp]
        /\ linha \in [Ids -> [Canais -> Linha]]
        /\ desp[p].caso \in Entregas /\ desp[p] \in Desp
    BY DEF TypeOK, Desp, Registro
  <1>1. CASE FecharDuplicados(p)
    <2>1. alerta' \in [Ids -> Alerta]
      BY <1>0, <1>1, ResolvidasTipo DEF FecharDuplicados
    <2>2. [desp[p] EXCEPT !.pc = "dorme"] \in Desp
      BY <1>0 DEF Desp, Registro
    <2>3. desp' \in [Processos -> Desp]
      BY <1>0, <1>1, <2>2 DEF FecharDuplicados
    <2>. QED BY <1>1, <2>1, <2>3 DEF FecharDuplicados, TypeOK, externo
  <1>2. CASE DispensarLer(p)
    <2>1. ASSUME NEW S \in SUBSET Ids
          PROVE  [desp[p] EXCEPT !.pc = "dispensa_alertas", !.ids = S] \in Desp
      BY <1>0 DEF Desp, Registro
    <2>2. PICK S \in SUBSET Ids :
            desp' = [desp EXCEPT ![p] = [@ EXCEPT !.pc = "dispensa_alertas", !.ids = S]]
      BY <1>0, <1>2 DEF DispensarLer, Dispensaveis
    <2>3. desp' \in [Processos -> Desp]
      BY <1>0, <2>1, <2>2
    <2>. QED BY <1>2, <2>3 DEF DispensarLer, TypeOK, tabelas, externo
  <1>3. CASE DispensarAlertas(p)
    <2>. DEFINE S == Dispensaveis(desp[p].caso)
                A == [a \in Ids |-> IF a \in S
                        THEN [alerta[a] EXCEPT !.delivery = desp[p].caso, !.prox = 0]
                        ELSE alerta[a]]
    <2>1. A \in [Ids -> Alerta]
      <3>. HIDE DEF S
      <3>. QED BY <1>0, ZeroTipo DEF Alerta
    <2>2. alerta' \in [Ids -> Alerta]
      <3>1. alerta' = alerta \/ alerta' = A
        BY <1>3 DEF DispensarAlertas
      <3>. QED BY <1>0, <2>1, <3>1
    <2>3. [desp[p] EXCEPT !.pc = "dispensa_linhas"] \in Desp
      BY <1>0 DEF Desp, Registro
    <2>4. desp' \in [Processos -> Desp]
      <3>1. \/ desp' = [desp EXCEPT ![p] = [@ EXCEPT !.pc = "dispensa_linhas"]]
            \/ desp' = [desp EXCEPT ![p] = DepoisDeDispensar(@)]
        BY <1>3 DEF DispensarAlertas
      <3>. QED BY <1>0, <2>3, <3>1, DepoisTipo
    <2>. QED BY <1>3, <2>2, <2>4 DEF DispensarAlertas, TypeOK, externo
  <1>4. CASE DispensarLinhas(p)
    <2>. DEFINE L == [a \in Ids |-> [c \in Canais |->
                       IF a \in desp[p].ids /\ linha[a][c].status = "pendente"
                       THEN [linha[a][c] EXCEPT !.status = desp[p].caso, !.prox = 0]
                       ELSE linha[a][c]]]
    <2>1. ASSUME NEW l \in Linha, l.status = "pendente"
          PROVE  [l EXCEPT !.status = desp[p].caso, !.prox = 0] \in Linha
      <3>. DEFINE n == [l EXCEPT !.status = desp[p].caso, !.prox = 0]
      <3>1. l.tent < MaxTentativas
        BY <2>1 DEF Linha
      <3>2. /\ n \in [status : Entregas \cup {"ausente"}, tent : 0..MaxTentativas, prox : Prazos]
            /\ n.tent = l.tent
        BY <1>0, <2>1, ZeroTipo DEF Linha
      <3>3. n \in Linha
        <4>. HIDE DEF n
        <4>. QED BY <3>1, <3>2 DEF Linha
      <3>. QED BY <3>3
    <2>2. L \in [Ids -> [Canais -> Linha]]
      BY <1>0, <2>1
    <2>3. linha' \in [Ids -> [Canais -> Linha]]
      <3>1. linha' = linha \/ linha' = L
        BY <1>4 DEF DispensarLinhas
      <3>. QED BY <1>0, <2>2, <3>1
    <2>4. desp' \in [Processos -> Desp]
      BY <1>0, <1>4, DepoisTipo DEF DispensarLinhas
    <2>. QED BY <1>4, <2>3, <2>4 DEF DispensarLinhas, TypeOK, externo
  <1>. QED BY <1>1, <1>2, <1>3, <1>4

LEMMA TipoRetomar ==
  ASSUME TypeOK, NEW p \in Processos,
         RetomarLer(p) \/ RetomarAlertas(p) \/ RetomarLinhas(p) \/ ClaimBatch(p)
  PROVE  TypeOK'
  <1>0. /\ alerta \in [Ids -> Alerta] /\ desp \in [Processos -> Desp]
        /\ linha \in [Ids -> [Canais -> Linha]] /\ desp[p] \in Desp
        /\ canal[p] \in Canal
    BY DEF TypeOK
  <1>1. CASE RetomarLer(p)
    <2>. DEFINE d     == desp[p]
                prova == IF d.caso = "falhou" THEN d.provados
                         ELSE IF canal[p].estado = "ok" THEN canal[p].verificado ELSE {}
                lidos == [d EXCEPT !.ids = Presos(d.caso, prova), !.provados = prova,
                                   !.pc = "retoma_alertas"]
                r     == [d EXCEPT !.pc = "reivindica", !.caso = "dispensado"]
    <2>1. r \in Desp
      BY <1>0 DEF Desp, Registro, Entregas
    <2>2. lidos \in Desp
      <3>1. prova \in SUBSET Ids
        BY <1>0 DEF Desp, Registro, Canal
      <3>2. Presos(d.caso, prova) \in SUBSET Ids
        BY DEF Presos
      <3>. HIDE DEF prova
      <3>. QED BY <1>0, <3>1, <3>2 DEF Desp, Registro
    <2>3. desp' \in [Processos -> Desp]
      <3>1. \/ desp' = [desp EXCEPT ![p] = r]
            \/ desp' = [desp EXCEPT ![p] = lidos]
            \/ desp' = [desp EXCEPT ![p] = DepoisDeRetomar(lidos)]
        BY <1>1 DEF RetomarLer
      <3>. HIDE DEF lidos, r
      <3>. QED BY <1>0, <2>1, <2>2, <3>1, DepoisTipo
    <2>. QED BY <1>1, <2>3 DEF RetomarLer, TypeOK, tabelas, externo
  <1>2. CASE RetomarAlertas(p)
    <2>. DEFINE A == [a \in Ids |-> IF a \in desp[p].ids /\ Gravada(a)
                                    THEN Devolvida(alerta[a]) ELSE alerta[a]]
    <2>1. A \in [Ids -> Alerta]
      BY <1>0, DevolvidaTipo
    <2>2. alerta' \in [Ids -> Alerta]
      <3>1. alerta' = alerta \/ alerta' = A
        BY <1>2 DEF RetomarAlertas
      <3>. QED BY <1>0, <2>1, <3>1
    <2>3. [desp[p] EXCEPT !.pc = "retoma_linhas"] \in Desp
      BY <1>0 DEF Desp, Registro
    <2>4. desp' \in [Processos -> Desp]
      <3>1. \/ desp' = [desp EXCEPT ![p] = [@ EXCEPT !.pc = "retoma_linhas"]]
            \/ desp' = [desp EXCEPT ![p] = DepoisDeRetomar(@)]
        BY <1>2 DEF RetomarAlertas
      <3>. QED BY <1>0, <2>3, <3>1, DepoisTipo
    <2>. QED BY <1>2, <2>2, <2>4 DEF RetomarAlertas, TypeOK, externo
  <1>3. CASE RetomarLinhas(p)
    <2>1. Relinhadas(desp[p].ids, {"sem_canal", "falhou"}, LinhaDevida)
            \in [Ids -> [Canais -> Linha]]
      BY <1>0, LinhasTipo DEF Relinhadas
    <2>2. linha' \in [Ids -> [Canais -> Linha]]
      BY <1>0, <1>3, <2>1 DEF RetomarLinhas
    <2>3. desp' \in [Processos -> Desp]
      BY <1>0, <1>3, DepoisTipo DEF RetomarLinhas
    <2>. QED BY <1>3, <2>2, <2>3 DEF RetomarLinhas, TypeOK, externo
  <1>4. CASE ClaimBatch(p)
    <2>. DEFINE V == {a \in Ids : Vencida(a)}
                C == {a \in V : Cardinality({b \in V : b < a}) < Lote}
                A == [a \in Ids |-> IF a \in C THEN [alerta[a] EXCEPT !.prox = Lease]
                                    ELSE alerta[a]]
    <2>1. \/ /\ C # {} /\ alerta' = A
             /\ desp' = [desp EXCEPT ![p] = [@ EXCEPT !.pc = "prepara", !.lote = C]]
          \/ alerta' = alerta /\ desp' = [desp EXCEPT ![p] = DespDorme]
      BY <1>4 DEF ClaimBatch
    <2>2. C \in SUBSET Ids
      OBVIOUS
    <2>3. A \in [Ids -> Alerta]
      <3>1. Lease \in Prazos
        BY ConstantesOk DEF Prazos
      <3>. HIDE DEF C
      <3>. QED BY <1>0, <3>1 DEF Alerta
    <2>4. alerta' \in [Ids -> Alerta] /\ desp' \in [Processos -> Desp]
      <3>. HIDE DEF C, A
      <3>. QED BY <1>0, <2>1, <2>2, <2>3, LoteTipo, DespInicioTipo
    <2>. QED BY <1>4, <2>4 DEF ClaimBatch, TypeOK, externo
  <1>. QED BY <1>1, <1>2, <1>3, <1>4

LEMMA ResultadoTipo ==
  ASSUME NEW l \in Linha, l.status = "pendente", NEW sucesso \in BOOLEAN
  PROVE  Resultado(l, sucesso) \in Linha
  <1>1. l.tent \in Nat /\ l.tent < MaxTentativas
    BY ConstantesOk DEF Linha
  <1>2. RetryDelay(l.tent + 1) \in Prazos
    BY RetryDelayTipo, ConstantesOk DEF Prazos
  <1>. QED BY <1>1, <1>2, ZeroTipo, ConstantesOk DEF Resultado, Linha, Entregas

LEMMA PrazoTipo ==
  ASSUME NEW l \in Linha, NEW t \in Nat
  PROVE  [l EXCEPT !.prox = Falta(@, t)] \in Linha
  <1>1. Falta(l.prox, t) \in Prazos
    BY FaltaPrazo DEF Linha
  <1>. QED BY <1>1 DEF Linha

LEMMA TipoGarantir ==
  ASSUME TypeOK, NEW p \in Processos, GarantirLinhas(p)
  PROVE  TypeOK'
  <1>. DEFINE a      == Atual(p)
              faltam == {c \in canal[p].ativos : linha[a][c].status = "ausente"}
              novas  == [c \in Canais |-> IF c \in faltam THEN LinhaDevida ELSE linha[a][c]]
  <1>0. /\ desp \in [Processos -> Desp] /\ linha \in [Ids -> [Canais -> Linha]]
        /\ desp[p].pc = "prepara"
    BY DEF TypeOK, GarantirLinhas
  <1>1. a \in Ids /\ Proximo(p) \in Desp
    BY <1>0, AtualTipo, ProximoTipo
  <1>2. novas \in [Canais -> Linha]
    BY <1>0, <1>1, LinhasTipo
  <1>3. /\ linha' = linha \/ linha' = [linha EXCEPT ![a] = novas]
        /\ desp' = desp \/ desp' = [desp EXCEPT ![p] = Proximo(p)]
    BY <1>0, <1>1 DEF GarantirLinhas
  <1>4. linha' \in [Ids -> [Canais -> Linha]] /\ desp' \in [Processos -> Desp]
    <2>. HIDE DEF a, novas
    <2>. QED BY <1>0, <1>1, <1>2, <1>3
  <1>. QED BY <1>4 DEF GarantirLinhas, TypeOK, externo

LEMMA TipoPreparar ==
  ASSUME TypeOK, NEW p \in Processos, Preparar(p)
  PROVE  TypeOK'
  <1>. DEFINE a      == Atual(p)
              ativos == canal[p].ativos
              lin    == linha[a]
              faltam == {c \in ativos : Devida(lin[c])}
              A      == [alerta[a] EXCEPT !.delivery = "sem_canal", !.prox = 0]
              r      == [desp[p] EXCEPT !.lin = lin, !.faltam = faltam, !.t = 0,
                                        !.marcaram = {}, !.tentou = faltam # {},
                                        !.entregou = FALSE,
                                        !.pc = IF faltam = {} THEN "consolida" ELSE "envia"]
  <1>0. /\ alerta \in [Ids -> Alerta] /\ desp \in [Processos -> Desp]
        /\ linha \in [Ids -> [Canais -> Linha]] /\ desp[p] \in Desp
        /\ desp[p].pc = "prepara" /\ desp[p].lote # {}
    BY DEF TypeOK, Preparar, Desp
  <1>1. a \in Ids /\ ativos \in SUBSET Canais /\ Proximo(p) \in Desp
    BY <1>0, AtualTipo, ProximoTipo, ConstantesOk DEF TypeOK, Canal
  <1>2. lin \in [Canais -> Linha]
    BY <1>0, <1>1
  <1>3. faltam \in SUBSET Canais /\ \A c \in faltam : lin[c].status = "pendente"
    BY <1>1 DEF Devida
  <1>4. r \in Desp
    <2>. HIDE DEF lin, faltam
    <2>1. r \in Registro
      BY <1>0, <1>2, <1>3, ZeroTipo DEF Desp, Registro
    <2>2. /\ r.lote = desp[p].lote /\ r.faltam = faltam /\ r.lin = lin
          /\ r.pc = IF faltam = {} THEN "consolida" ELSE "envia"
      BY <1>0 DEF Desp, Registro
    <2>. HIDE DEF r
    <2>. QED BY <1>0, <1>3, <2>1, <2>2 DEF Desp
  <1>5. A \in Alerta
    BY <1>0, <1>1, ZeroTipo DEF Alerta, Entregas
  <1>6. /\ alerta' = alerta \/ alerta' = [alerta EXCEPT ![a] = A]
        /\ desp' = [desp EXCEPT ![p] = Proximo(p)] \/ desp' = [desp EXCEPT ![p] = r]
    BY DEF Preparar
  <1>7. alerta' \in [Ids -> Alerta] /\ desp' \in [Processos -> Desp]
    <2>. HIDE DEF a, lin, r, A
    <2>. QED BY <1>0, <1>1, <1>2, <1>4, <1>5, <1>6, SMTT(30)
  <1>. QED BY <1>7 DEF Preparar, TypeOK, externo

LEMMA TipoEntregar ==
  ASSUME TypeOK, NEW p \in Processos, Entregar(p)
  PROVE  TypeOK'
  <1>. DEFINE a == Atual(p)
              c == Min(desp[p].faltam)
  <1>0. /\ desp \in [Processos -> Desp] /\ canal \in [Processos -> Canal]
        /\ linha \in [Ids -> [Canais -> Linha]] /\ desp[p] \in Desp
        /\ envio \in [Ids -> [Canais -> Nunca..Cooldown]]
        /\ desp[p].pc = "envia" /\ desp[p].faltam # {}
        /\ desp[p].faltam \in SUBSET Canais /\ desp[p].lin \in [Canais -> Linha]
        /\ desp[p].t \in Nat /\ desp[p].lote # {}
    BY ConstantesOk DEF TypeOK, Entregar, Desp, Registro
  <1>1. a \in Ids
    BY <1>0, AtualTipo
  <1>2. c \in desp[p].faltam /\ c \in Canais
    BY <1>0, MinPertence DEF Canais
  <1>3. desp[p].lin[c] \in Linha /\ desp[p].lin[c].status = "pendente"
    BY <1>0, <1>2 DEF Desp
  <1>. DEFINE res(s) == Resultado(desp[p].lin[c], s)
              resto  == desp[p].faltam \ {c}
              reg(s) == [desp[p] EXCEPT !.lin[c] = res(s), !.faltam = resto,
                                        !.entregou = desp[p].entregou \/ s,
                                        !.pc = IF resto = {} THEN "consolida" ELSE "envia"]
              prazo(s) == [res(s) EXCEPT !.prox = Falta(@, desp[p].t)]
  <1>4. PICK sucesso \in BOOLEAN :
          /\ linha' = linha \/ linha' = [linha EXCEPT ![a][c] = prazo(sucesso)]
          /\ envio' = envio \/ envio' = [envio EXCEPT ![a][c] = 0]
          /\ \/ /\ canal' = [canal EXCEPT ![p] = Marcado(p, sucesso)]
                /\ desp' = Marcando(p, [desp EXCEPT ![p] = reg(sucesso)])
             \/ /\ desp' = [desp EXCEPT ![p] = reg(sucesso)]
                /\ UNCHANGED canal
    BY DEF Entregar
  <1>. DEFINE l     == res(sucesso)
              lin   == [desp[p].lin EXCEPT ![c] = l]
              r     == reg(sucesso)
              d     == [desp EXCEPT ![p] = r]
  <1>5. l \in Linha /\ prazo(sucesso) \in Linha
    BY <1>0, <1>3, ResultadoTipo, PrazoTipo
  <1>6. d \in [Processos -> Desp]
    <2>1. lin \in [Canais -> Linha]
      <3>. HIDE DEF l, c
      <3>. QED BY <1>0, <1>5
    <2>2. \A x \in resto : lin[x].status = "pendente"
      <3>. HIDE DEF l
      <3>. QED BY <1>0, <1>2 DEF Desp
    <2>3. r = [desp[p] EXCEPT !.lin = lin, !.faltam = resto,
                              !.entregou = desp[p].entregou \/ sucesso,
                              !.pc = IF resto = {} THEN "consolida" ELSE "envia"]
      <3>. HIDE DEF res, c
      <3>. QED BY <1>0 DEF Desp, Registro
    <2>4. (desp[p].entregou \/ sucesso) \in BOOLEAN
      OBVIOUS
    <2>5. r \in Registro
      <3>. DEFINE e == desp[p].entregou \/ sucesso
      <3>. HIDE DEF lin, c, r, e
      <3>1. e \in BOOLEAN
        BY DEF e
      <3>2. r = [desp[p] EXCEPT !.lin = lin, !.faltam = resto, !.entregou = e,
                                !.pc = IF resto = {} THEN "consolida" ELSE "envia"]
        BY <2>3 DEF e
      <3>. QED BY <1>0, <2>1, <3>1, <3>2 DEF Desp, Registro
    <2>6. /\ r.lote = desp[p].lote /\ r.faltam = resto /\ r.lin = lin
          /\ r.pc = IF resto = {} THEN "consolida" ELSE "envia"
      <3>. HIDE DEF lin, c, r
      <3>. QED BY <1>0, <2>3 DEF Desp, Registro
    <2>7. r \in Desp
      <3>. HIDE DEF lin, c, r
      <3>. QED BY <1>0, <2>2, <2>5, <2>6 DEF Desp
    <2>. HIDE DEF r
    <2>. QED BY <1>0, <2>7
  <1>7. linha' \in [Ids -> [Canais -> Linha]]
    <2>. DEFINE n == prazo(sucesso)
    <2>1. linha' = linha \/ linha' = [linha EXCEPT ![a][c] = n]
      BY <1>4
    <2>. HIDE DEF n, a, c, l, res
    <2>2. n \in Linha
      BY <1>5 DEF n
    <2>3. [linha[a] EXCEPT ![c] = n] \in [Canais -> Linha]
      BY <1>0, <1>1, <1>2, <2>2
    <2>. QED BY <1>0, <1>1, <2>1, <2>3
  <1>8. envio' \in [Ids -> [Canais -> Nunca..Cooldown]]
    <2>1. 0 \in Nunca..Cooldown
      BY ConstantesOk DEF Nunca
    <2>2. envio' = envio \/ envio' = [envio EXCEPT ![a][c] = 0]
      BY <1>4
    <2>. HIDE DEF a, c
    <2>3. [envio[a] EXCEPT ![c] = 0] \in [Canais -> Nunca..Cooldown]
      BY <1>0, <1>1, <2>1
    <2>. QED BY <1>0, <1>1, <2>2, <2>3
  <1>9. canal' \in [Processos -> Canal] /\ desp' \in [Processos -> Desp]
    <2>1. /\ canal' = canal \/ canal' = [canal EXCEPT ![p] = Marcado(p, sucesso)]
          /\ desp' = d \/ desp' = Marcando(p, d)
      <3>. HIDE DEF r, reg
      <3>. QED BY <1>4 DEF r
    <2>. HIDE DEF d
    <2>. QED BY <1>0, <1>6, <2>1, MarcadoTipo, MarcandoTipo
  <1>. QED BY <1>7, <1>8, <1>9 DEF Entregar, TypeOK

LEMMA TipoConsolidar ==
  ASSUME TypeOK, NEW p \in Processos, Consolidar(p)
  PROVE  TypeOK'
  <1>. DEFINE a         == Atual(p)
              ativos    == canal[p].ativos
              lin       == desp[p].lin
              t         == desp[p].t
              delivery  == Consolidado(lin, ativos)
              pendentes == {lin[c].prox : c \in {x \in ativos : lin[x].status = "pendente"}}
              prox      == IF delivery = "pendente" THEN Falta(Min(pendentes), t) ELSE 0
              notif     == IF ~desp[p].entregou THEN alerta[a].notif
                           ELSE IF t < Cooldown THEN t ELSE Cooldown
              A         == [alerta[a] EXCEPT !.delivery = delivery, !.prox = prox,
                                             !.notif = notif]
  <1>0. /\ alerta \in [Ids -> Alerta] /\ desp \in [Processos -> Desp]
        /\ canal \in [Processos -> Canal] /\ desp[p] \in Desp
        /\ desp[p].pc = "consolida" /\ lin \in [Canais -> Linha] /\ t \in Nat
    BY ConstantesOk DEF TypeOK, Consolidar, Desp, Registro
  <1>1. a \in Ids /\ ativos \in SUBSET Canais /\ Proximo(p) \in Desp
    BY <1>0, AtualTipo, ProximoTipo, ConstantesOk DEF TypeOK, Canal
  <1>2. prox \in Prazos
    <2>1. CASE delivery = "pendente"
      <3>1. pendentes # {}
        BY <2>1 DEF Consolidado
      <3>2. pendentes \in SUBSET Prazos
        BY <1>0, <1>1 DEF Linha
      <3>3. Min(pendentes) \in Prazos
        <4>. HIDE DEF pendentes
        <4>1. pendentes \in SUBSET Nat
          BY <3>2, ConstantesOk DEF Prazos
        <4>. QED BY <3>1, <3>2, <4>1, MinPertence
      <3>4. Falta(Min(pendentes), t) \in Prazos
        <4>. HIDE DEF pendentes
        <4>. QED BY <1>0, <3>3, FaltaPrazo
      <3>. QED BY <2>1, <3>4
    <2>2. CASE delivery # "pendente"
      BY <2>2, ZeroTipo
    <2>. QED BY <2>1, <2>2
  <1>3. notif \in Nunca..Cooldown
    BY <1>0, <1>1, ConstantesOk DEF Alerta, Nunca
  <1>4. delivery \in Entregas
    BY DEF Consolidado, Entregas
  <1>5. A \in Alerta
    <2>. HIDE DEF prox, notif, delivery
    <2>. QED BY <1>0, <1>1, <1>2, <1>3, <1>4 DEF Alerta
  <1>6. /\ alerta' = alerta \/ alerta' = [alerta EXCEPT ![a] = A]
        /\ canal' = canal \/ canal' \in Reverificado(p, a, delivery)
        /\ desp' = [desp EXCEPT ![p] = Proximo(p)]
    <2>1. PICK ok \in Resposta :
            IF ok /\ Gravada(a)
            THEN /\ alerta' = [alerta EXCEPT ![a] =
                      [@ EXCEPT !.delivery = delivery, !.prox = prox, !.notif = notif]]
                 /\ canal' \in Reverificado(p, a, delivery)
            ELSE UNCHANGED <<alerta, canal>>
      BY DEF Consolidar
    <2>2. desp' = [desp EXCEPT ![p] = Proximo(p)]
      BY DEF Consolidar
    <2>. HIDE DEF delivery, prox, notif, a
    <2>. QED BY <2>1, <2>2
  <1>7. \A x \in Reverificado(p, a, delivery) : x \in [Processos -> Canal]
    <2>1. ASSUME NEW q \in Processos, NEW S \in SUBSET Ids
          PROVE  [canal[q] EXCEPT !.verificado = S] \in Canal
      BY <1>0 DEF Canal
    <2>2. \A q \in Processos : canal[q].verificado \in SUBSET Ids
      BY <1>0 DEF Canal
    <2>3. ASSUME NEW x \in Reverificado(p, a, delivery)
          PROVE  \E quem : x = [q \in Processos |->
                   [canal[q] EXCEPT !.verificado =
                      IF q \in quem THEN @ \cup {a} ELSE @ \ {a}]]
      BY DEF Reverificado
    <2>4. ASSUME NEW quem, NEW q \in Processos
          PROVE  [canal[q] EXCEPT !.verificado =
                    IF q \in quem THEN @ \cup {a} ELSE @ \ {a}] \in Canal
      <3>. HIDE DEF a
      <3>. QED BY <1>1, <2>1, <2>2
    <2>. HIDE DEF a, delivery
    <2>. QED BY <2>3, <2>4
  <1>8. /\ alerta' \in [Ids -> Alerta] /\ canal' \in [Processos -> Canal]
        /\ desp' \in [Processos -> Desp]
    <2>. HIDE DEF a, A, delivery
    <2>. QED BY <1>0, <1>1, <1>5, <1>6, <1>7
  <1>. QED BY <1>8 DEF Consolidar, TypeOK, externo

-----------------------------------------------------------------------------
(* Type correctness: health, retention, crashes, time.                      *)

LEMMA TipoVerificar ==
  ASSUME TypeOK, NEW p \in Processos, VerificarCanal(p)
  PROVE  TypeOK'
  <1>1. /\ canal' \in [Processos -> Canal] /\ desp' \in [Processos -> Desp]
    BY MarcadoTipo, MarcandoTipo DEF VerificarCanal, TypeOK
  <1>. QED BY <1>1 DEF VerificarCanal, TypeOK, tabelas, externo

LEMMA TipoPrune ==
  ASSUME TypeOK, PruneAlerts
  PROVE  TypeOK'
  <1>1. alerta' \in [Ids -> Alerta]
    BY ApagadaTipo DEF PruneAlerts, TypeOK
  <1>2. linha' \in [Ids -> [Canais -> Linha]]
    BY LinhasTipo DEF PruneAlerts, TypeOK
  <1>. QED BY <1>1, <1>2 DEF PruneAlerts, TypeOK, externo

LEMMA TipoQueda ==
  ASSUME TypeOK, NEW p \in Processos, Queda(p)
  PROVE  TypeOK'
  <1>. DEFINE meus == {x \in Detectores \cup Operadores : Casa[x] = p}
              abertas == {det[d].id : d \in {x \in Detectores \cap meus : det[x].pc = "confirma"}}
  <1>1. alerta' \in [Ids -> Alerta]
    <2>1. alerta' = [a \in Ids |-> IF a \in abertas THEN Apagada(a) ELSE alerta[a]]
      BY DEF Queda
    <2>. HIDE DEF abertas
    <2>. QED BY <2>1, ApagadaTipo DEF TypeOK
  <1>2. det' \in [Detectores -> Det]
    <2>1. det' = [d \in Detectores |-> IF d \in meus THEN DetOcioso ELSE det[d]]
      BY DEF Queda
    <2>. HIDE DEF meus
    <2>. QED BY <2>1, DetOciosoTipo DEF TypeOK
  <1>3. op' \in [Operadores -> Op]
    <2>1. op' = [o \in Operadores |-> IF o \in meus THEN OpOcioso ELSE op[o]]
      BY DEF Queda
    <2>. HIDE DEF meus
    <2>. QED BY <2>1 DEF TypeOK, Op
  <1>4. quedas' \in 0..MaxQuedas
    BY ConstantesOk DEF Queda, TypeOK
  <1>5. PICK ativos \in Configs, bem \in BOOLEAN :
          IF Telegram \in ativos
          THEN /\ canal' = [canal EXCEPT ![p] = [Marcado(p, bem) EXCEPT !.ativos = ativos]]
               /\ desp' = Marcando(p, [desp EXCEPT ![p] = DespInicio])
          ELSE /\ canal' = [canal EXCEPT ![p] =
                    [ativos |-> ativos, estado |-> "desligado", verificado |-> {}]]
               /\ desp' = [desp EXCEPT ![p] = DespInicio]
    BY DEF Queda
  <1>6. [desp EXCEPT ![p] = DespInicio] \in [Processos -> Desp]
    BY DespInicioTipo DEF TypeOK
  <1>7. desp' \in [Processos -> Desp]
    <2>. DEFINE d == [desp EXCEPT ![p] = DespInicio]
    <2>1. desp' = d \/ desp' = Marcando(p, d)
      BY <1>5
    <2>. HIDE DEF d
    <2>2. d \in [Processos -> Desp]
      BY <1>6 DEF d
    <2>. QED BY <2>1, <2>2, MarcandoTipo
  <1>8. canal' \in [Processos -> Canal]
    <2>1. [Marcado(p, bem) EXCEPT !.ativos = ativos] \in Canal
      BY MarcadoTipo DEF Canal
    <2>2. [ativos |-> ativos, estado |-> "desligado", verificado |-> {}] \in Canal
      BY DEF Canal, Estados
    <2>. QED BY <1>5, <2>1, <2>2 DEF TypeOK
  <1>. QED BY <1>1, <1>2, <1>3, <1>4, <1>7, <1>8 DEF Queda, TypeOK, historia

LEMMA TipoTick ==
  ASSUME TypeOK, Tick
  PROVE  TypeOK'
  <1>1. alerta' \in [Ids -> Alerta]
    <2>. DEFINE N(a) == [alerta[a] EXCEPT !.prox = Falta(@, 1),
                           !.visto = Envelhece(@, Retomada + 1),
                           !.notif = Envelhece(@, Cooldown),
                           !.idade = Envelhece(@, Retencao)]
    <2>1. ASSUME NEW a \in Ids PROVE N(a) \in Alerta
      <3>1. /\ alerta[a] \in Alerta
            /\ alerta[a].prox \in Prazos /\ alerta[a].visto \in 0..(Retomada + 1)
            /\ alerta[a].notif \in Nunca..Cooldown /\ alerta[a].idade \in 0..Retencao
        BY DEF TypeOK, Alerta
      <3>2. Falta(alerta[a].prox, 1) \in Prazos
        BY <3>1, FaltaPrazo
      <3>3. /\ Envelhece(alerta[a].visto, Retomada + 1) \in 0..(Retomada + 1)
            /\ Envelhece(alerta[a].idade, Retencao) \in 0..Retencao
        BY <3>1, ConstantesOk DEF Envelhece, Nunca
      <3>4. Envelhece(alerta[a].notif, Cooldown) \in Nunca..Cooldown
        BY <3>1, EnvelheceTipo, ConstantesOk
      <3>. QED BY <3>1, <3>2, <3>3, <3>4 DEF Alerta
    <2>. HIDE DEF N
    <2>2. alerta' = [a \in Ids |-> IF ~Gravada(a) THEN alerta[a] ELSE N(a)]
      BY DEF Tick, N
    <2>. QED BY <2>1, <2>2 DEF TypeOK
  <1>2. linha' \in [Ids -> [Canais -> Linha]]
    <2>1. ASSUME NEW a \in Ids, NEW c \in Canais
          PROVE  [linha[a][c] EXCEPT !.prox = Falta(@, 1)] \in Linha
      <3>1. linha[a][c] \in Linha
        BY DEF TypeOK
      <3>. QED BY <3>1, PrazoTipo
    <2>. QED BY <2>1 DEF Tick
  <1>3. desp' \in [Processos -> Desp]
    <2>1. ASSUME NEW p \in Processos, desp[p].pc = "envia"
          PROVE  [desp[p] EXCEPT !.t = @ + 1] \in Desp
      <3>. DEFINE r == [desp[p] EXCEPT !.t = @ + 1]
      <3>1. desp[p] \in Desp /\ desp[p].t \in 0..Duracao /\ desp[p].t < Duracao
        BY <2>1 DEF TypeOK, Desp, Registro, Tick
      <3>2. desp[p].t + 1 \in 0..Duracao
        BY <3>1, ConstantesOk
      <3>3. /\ r \in Registro
            /\ r.pc = desp[p].pc /\ r.lote = desp[p].lote
            /\ r.faltam = desp[p].faltam /\ r.lin = desp[p].lin
        BY <3>1, <3>2 DEF Desp, Registro
      <3>4. r \in Desp
        <4>. HIDE DEF r
        <4>. QED BY <3>1, <3>3 DEF Desp
      <3>. QED BY <3>4
    <2>. QED BY <2>1 DEF Tick, TypeOK
  <1>4. envio' \in [Ids -> [Canais -> Nunca..Cooldown]]
    BY EnvelheceTipo, ConstantesOk DEF Tick, TypeOK
  <1>. QED BY <1>1, <1>2, <1>3, <1>4 DEF Tick, TypeOK

LEMMA TipoInicial == Init => TypeOK
  <1>. SUFFICES ASSUME Init PROVE TypeOK
    OBVIOUS
  <1>1. Vazia \in Alerta
    BY NovaTipo, ZeroTipo, ConstantesOk DEF Vazia, Situacoes
  <1>2. canal \in [Processos -> Canal]
    BY DEF Init, Canal
  <1>3. Nunca \in Nunca..Cooldown /\ quedas \in 0..MaxQuedas
    BY ConstantesOk DEF Nunca, Init
  <1>. QED BY <1>1, <1>2, <1>3, LinhasTipo, DetOciosoTipo, DespInicioTipo
           DEF Init, TypeOK, Op

LEMMA TipoPasso == TypeOK /\ [Next]_vars => TypeOK'
  <1>. SUFFICES ASSUME TypeOK, [Next]_vars PROVE TypeOK'
    OBVIOUS
  <1>1. ASSUME NEW p \in Processos, Despachante(p) PROVE TypeOK'
    BY <1>1, TipoDispensar, TipoRetomar, TipoGarantir, TipoPreparar, TipoEntregar, TipoConsolidar
       DEF Despachante
  <1>2. CASE UNCHANGED vars
    BY <1>2 DEF vars, TypeOK
  <1>. QED BY <1>1, <1>2, TipoDetector, TipoOperador, TipoVerificar, TipoQueda,
              TipoPrune, TipoTick DEF Next

\* The model's states have their types whatever the number of keys, detectors,
\* operators, processes, channels and rows: in particular no line owed has used up
\* its attempts, no dispatcher delivers without a row in hand and every channel it
\* still has to try is owed (registrarResultado, claimBatch, entregarAlerta).
THEOREM TipoCorreto == Spec => []TypeOK
  <1>. QED BY TipoInicial, TipoPasso, PTL DEF Spec

-----------------------------------------------------------------------------
(* One unresolved row per key.                                              *)

\* the inductive invariant: UmaVivaPorChave alone says nothing of the row an open
\* transaction is about to show
UmaVivaInv == TypeOK /\ AberturaIntegra /\ UmaVivaPorChave

Integra(d) ==
  LET i == det[d].id IN
  /\ i \in Ids /\ alerta[i].status = "gravando"
  /\ alerta[i].chave = ChaveDe[d] /\ ~alerta[i].rec
  /\ VivasDe(ChaveDe[d]) \ tardio \subseteq det[d].ids

\* no row comes to life in the step, except late acknowledgements
SemVidaNova ==
  /\ tardio \subseteq tardio'
  /\ \A a \in Ids : Viva(a)' =>
       \/ a \in tardio'
       \/ Viva(a) /\ alerta'[a].chave = alerta[a].chave /\ alerta'[a].rec = alerta[a].rec

\* the rows of open transactions are untouched, except those of X
Guardadas(X) ==
  \A a \in Ids \ X : alerta[a].status = "gravando" =>
    /\ alerta'[a].status = "gravando"
    /\ alerta'[a].chave = alerta[a].chave /\ alerta'[a].rec = alerta[a].rec

\* A step that brings no row to life adds no unresolved row to a key.
LEMMA VivasEncolhem ==
  ASSUME SemVidaNova, NEW k
  PROVE  VivasDe(k)' \ tardio' \subseteq VivasDe(k) \ tardio
  BY DEF SemVidaNova, VivasDe, DaChave, Viva, Gravada

\* ... so one unresolved row per key stays one.
LEMMA UmaVivaFica ==
  ASSUME UmaVivaPorChave, SemVidaNova
  PROVE  UmaVivaPorChave'
  BY VivasEncolhem DEF UmaVivaPorChave

\* ... and the transactions that stay open keep what they read.
LEMMA IntegraFica ==
  ASSUME NEW X, SemVidaNova, Guardadas(X), NEW d \in Detectores,
         Integra(d), det[d].id \notin X, det'[d] = det[d]
  PROVE  Integra(d)'
  <1>1. VivasDe(ChaveDe[d])' \ tardio' \subseteq det[d].ids
    BY VivasEncolhem DEF Integra
  <1>. QED BY <1>1 DEF Integra, Guardadas

\* A step that opens no transaction and brings no row to life keeps the invariant.
LEMMA PassoManso ==
  ASSUME UmaVivaInv, TypeOK', SemVidaNova, Guardadas({}),
         \A d \in Detectores : det'[d].pc = "confirma" => det'[d] = det[d]
  PROVE  UmaVivaInv'
  <1>1. ASSUME NEW d \in Detectores, det'[d].pc = "confirma"
        PROVE  Integra(d)'
    <2>1. det[d].pc = "confirma" /\ det'[d] = det[d]
      BY <1>1
    <2>2. Integra(d)
      BY <2>1 DEF UmaVivaInv, AberturaIntegra, Integra
    <2>. QED BY <2>1, <2>2, IntegraFica
  <1>2. AberturaIntegra'
    BY <1>1 DEF AberturaIntegra, Integra
  <1>. QED BY <1>2, UmaVivaFica DEF UmaVivaInv

\* Rows whose key, kind and status do not change are kept; so is every row when
\* some are resolved.
LEMMA LinhasMansas ==
  ASSUME tardio' = tardio,
         \A a \in Ids : /\ alerta'[a].chave = alerta[a].chave
                        /\ alerta'[a].rec = alerta[a].rec
                        /\ \/ alerta'[a].status = alerta[a].status
                           \/ Viva(a) /\ alerta'[a].status = "resolved"
  PROVE  SemVidaNova /\ Guardadas({})
  BY DEF SemVidaNova, Guardadas, Viva

LEMMA ResolvidasMansas ==
  ASSUME alerta \in [Ids -> Alerta], NEW S, alerta' = Resolvidas(S), tardio' = tardio
  PROVE  SemVidaNova /\ Guardadas({})
  <1>1. ASSUME NEW a \in Ids
        PROVE  /\ alerta'[a].chave = alerta[a].chave
               /\ alerta'[a].rec = alerta[a].rec
               /\ \/ alerta'[a].status = alerta[a].status
                  \/ Viva(a) /\ alerta'[a].status = "resolved"
    BY DEF Resolvidas, Alerta
  <1>. QED BY <1>1, LinhasMansas

\* Enqueue opens its transaction: the row is not visible yet.
LEMMA CriarIntegra ==
  ASSUME UmaVivaInv, TypeOK', NEW d \in Detectores, CriarAlerta(d)
  PROVE  UmaVivaInv'
  <1>. DEFINE novo == Min(Livres)
  <1>0. /\ alerta \in [Ids -> Alerta] /\ det \in [Detectores -> Det]
    BY DEF UmaVivaInv, TypeOK
  <1>1. novo \in Ids /\ alerta[novo].status = "livre"
    <2>1. Livres \in SUBSET Nat /\ Livres # {}
      BY DEF CriarAlerta, Livres, Ids
    <2>. QED BY <2>1, MinPertence DEF Livres
  <1>2. alerta' = [alerta EXCEPT ![novo] = Nova(ChaveDe[d], FALSE, "gravando", det[d].prox)]
    BY DEF CriarAlerta
  <1>3. /\ tardio' = tardio
        /\ det' = [det EXCEPT ![d] = [det[d] EXCEPT !.pc = "confirma", !.id = novo,
                                                    !.ids = VivasDe(ChaveDe[d])]]
    BY DEF CriarAlerta, externo
  <1>. HIDE DEF novo
  <1>4. /\ alerta'[novo].status = "gravando" /\ alerta'[novo].chave = ChaveDe[d]
        /\ ~alerta'[novo].rec
        /\ \A a \in Ids \ {novo} : alerta'[a] = alerta[a]
    BY <1>0, <1>1, <1>2 DEF Nova
  <1>5. SemVidaNova /\ Guardadas({})
    BY <1>1, <1>3, <1>4 DEF SemVidaNova, Guardadas, Viva
  <1>6. /\ det'[d].id = novo /\ det'[d].ids = VivasDe(ChaveDe[d])
        /\ \A e \in Detectores \ {d} : det'[e] = det[e]
    BY <1>0, <1>3 DEF Det
  <1>7. Integra(d)'
    BY <1>1, <1>4, <1>5, <1>6, VivasEncolhem DEF Integra
  <1>8. ASSUME NEW e \in Detectores, e # d, det'[e].pc = "confirma"
        PROVE  Integra(e)'
    <2>1. Integra(e)
      BY <1>6, <1>8 DEF UmaVivaInv, AberturaIntegra, Integra
    <2>. QED BY <1>5, <1>6, <1>8, <2>1, IntegraFica
  <1>9. AberturaIntegra'
    BY <1>7, <1>8 DEF AberturaIntegra, Integra
  <1>. QED BY <1>5, <1>9, UmaVivaFica DEF UmaVivaInv

\* Enqueue commits or rolls back.
LEMMA ConfirmarIntegra ==
  ASSUME UmDetectorPorChave, UmaVivaInv, TypeOK', NEW d \in Detectores, ConfirmarAlerta(d)
  PROVE  UmaVivaInv'
  <1>. DEFINE i == det[d].id
  <1>0. /\ alerta \in [Ids -> Alerta] /\ det \in [Detectores -> Det]
        /\ det[d].pc = "confirma" /\ Integra(d)
    BY DEF UmaVivaInv, TypeOK, ConfirmarAlerta, AberturaIntegra, Integra
  <1>1. i \in Ids
    BY <1>0 DEF Integra
  <1>2. /\ tardio' = tardio /\ det' = [det EXCEPT ![d] = DetOcioso]
        /\ \/ alerta' = [alerta EXCEPT ![i] = Apagada(i)]
           \/ alerta' = [Resolvidas(det[d].ids) EXCEPT ![i].status = "open"]
    BY DEF ConfirmarAlerta, externo
  <1>3. ASSUME NEW e \in Detectores, det'[e].pc = "confirma"
        PROVE  /\ e # d /\ det'[e] = det[e] /\ Integra(e)
               /\ ChaveDe[e] # ChaveDe[d] /\ det[e].id # i
    <2>1. e # d /\ det'[e] = det[e]
      BY <1>0, <1>2, <1>3 DEF DetOcioso
    <2>2. Integra(e)
      BY <1>3, <2>1 DEF UmaVivaInv, AberturaIntegra, Integra
    <2>3. ChaveDe[e] # ChaveDe[d]
      BY <2>1 DEF UmDetectorPorChave
    <2>. QED BY <1>0, <2>1, <2>2, <2>3 DEF Integra
  <1>4. CASE alerta' = [alerta EXCEPT ![i] = Apagada(i)]
    <2>1. SemVidaNova /\ Guardadas({i})
      BY <1>0, <1>1, <1>2, <1>4 DEF SemVidaNova, Guardadas, Viva, Apagada, Nova
    <2>2. AberturaIntegra'
      <3>1. ASSUME NEW e \in Detectores, det'[e].pc = "confirma"
            PROVE  Integra(e)'
        BY <1>3, <2>1, <3>1, IntegraFica
      <3>. QED BY <3>1 DEF AberturaIntegra, Integra
    <2>. QED BY <2>1, <2>2, UmaVivaFica DEF UmaVivaInv
  <1>5. CASE alerta' = [Resolvidas(det[d].ids) EXCEPT ![i].status = "open"]
    <2>1. /\ alerta'[i].chave = ChaveDe[d] /\ ~alerta'[i].rec
          /\ \A a \in Ids \ {i} : alerta'[a] = Resolvidas(det[d].ids)[a]
      <3>1. Resolvidas(det[d].ids) \in [Ids -> Alerta]
        BY <1>0, ResolvidasTipo
      <3>2. alerta[i].chave = ChaveDe[d] /\ ~alerta[i].rec
        BY <1>0 DEF Integra
      <3>3. /\ Resolvidas(det[d].ids)[i].chave = alerta[i].chave
            /\ Resolvidas(det[d].ids)[i].rec = alerta[i].rec
        BY <1>0, <1>1 DEF Resolvidas, Alerta
      <3>. HIDE DEF i
      <3>. QED BY <1>1, <1>5, <3>1, <3>2, <3>3, SMTT(30) DEF Alerta
    <2>2. ASSUME NEW a \in Ids, a # i
          PROVE  /\ alerta'[a].chave = alerta[a].chave /\ alerta'[a].rec = alerta[a].rec
                 /\ Viva(a)' => Viva(a) /\ a \notin det[d].ids
                 /\ alerta[a].status = "gravando" => alerta'[a].status = "gravando"
      BY <1>0, <2>1, <2>2 DEF Resolvidas, Alerta, Viva
    <2>3. ASSUME NEW k, NEW a \in VivasDe(k)' \ tardio', a # i
          PROVE  a \in VivasDe(k) \ tardio /\ a \notin det[d].ids
      <3>1. /\ a \in Ids /\ Viva(a)' /\ a \notin tardio
            /\ alerta'[a].chave = k /\ ~alerta'[a].rec
        BY <1>2, <2>3 DEF VivasDe, DaChave
      <3>2. /\ Viva(a) /\ a \notin det[d].ids
            /\ alerta[a].chave = k /\ ~alerta[a].rec
        BY <2>2, <2>3, <3>1
      <3>. QED BY <3>1, <3>2 DEF VivasDe, DaChave, Viva, Gravada
    <2>4. ASSUME NEW k, i \in VivasDe(k)'
          PROVE  k = ChaveDe[d]
      BY <2>1, <2>4 DEF VivasDe, DaChave
    <2>5. UmaVivaPorChave'
      <3>1. ASSUME NEW k \in Chaves, NEW a \in VivasDe(k)' \ tardio', a # i,
                   NEW b \in VivasDe(k)' \ tardio', b = i
            PROVE  FALSE
        BY <1>0, <2>3, <2>4, <3>1 DEF Integra
      <3>2. ASSUME NEW k \in Chaves, NEW a \in VivasDe(k)' \ tardio', a # i,
                   NEW b \in VivasDe(k)' \ tardio', b # i
            PROVE  a = b
        BY <2>3, <3>2 DEF UmaVivaInv, UmaVivaPorChave
      <3>. QED BY <3>1, <3>2 DEF UmaVivaPorChave
    <2>6. AberturaIntegra'
      <3>1. ASSUME NEW e \in Detectores, det'[e].pc = "confirma"
            PROVE  Integra(e)'
        <4>. DEFINE k == ChaveDe[e]
        <4>1. VivasDe(k)' \ tardio' \subseteq VivasDe(k) \ tardio
          BY <1>3, <2>3, <2>4, <3>1
        <4>2. det[e].id \in Ids /\ det[e].id # i /\ Integra(e) /\ det'[e] = det[e]
          BY <1>3, <3>1 DEF Integra
        <4>. QED BY <2>2, <4>1, <4>2 DEF Integra
      <3>. QED BY <3>1 DEF AberturaIntegra, Integra
    <2>. QED BY <2>5, <2>6 DEF UmaVivaInv
  <1>. QED BY <1>2, <1>4, <1>5

\* The other steps of a detector open no transaction and bring no row to life.
LEMMA DetectorIntegra ==
  ASSUME UmDetectorPorChave, UmaVivaInv, TypeOK', NEW d \in Detectores, Detector(d)
  PROVE  UmaVivaInv'
  <1>0. alerta \in [Ids -> Alerta] /\ det \in [Detectores -> Det]
    BY DEF UmaVivaInv, TypeOK
  <1>a. ASSUME alerta' = alerta, tardio' = tardio
        PROVE  SemVidaNova /\ Guardadas({})
    BY <1>a, LinhasMansas
  <1>b. ASSUME NEW r, det' = [det EXCEPT ![d] = r], r.pc # "confirma"
        PROVE  \A e \in Detectores : det'[e].pc = "confirma" => det'[e] = det[e]
    BY <1>0, <1>b
  <1>c. DetOcioso.pc # "confirma"
    BY DEF DetOcioso
  <1>1. CASE EnqueueVivo(d)
    <2>1. \E r : det' = [det EXCEPT ![d] = r] /\ r.pc # "confirma"
      <3>. DEFINE i == Max({a \in VivasDe(ChaveDe[d]) : alerta[a].visto <= Retomada})
                  u == [det[d] EXCEPT !.pc = "ultimo"]
                  v == [DetOcioso EXCEPT !.pc = "renotifica", !.id = i,
                                         !.avisar = PodeAvisar(i)]
      <3>1. det' = [det EXCEPT ![d] = u] \/ det' = [det EXCEPT ![d] = v]
        BY <1>1 DEF EnqueueVivo
      <3>2. u.pc # "confirma" /\ v.pc # "confirma"
        BY <1>0 DEF DetOcioso, Det
      <3>. HIDE DEF u, v
      <3>. QED BY <3>1, <3>2
    <2>. QED BY <1>1, <1>a, <1>b, <2>1, PassoManso DEF EnqueueVivo, tabelas, externo
  <1>2. CASE Renotificar(d)
    <2>1. \E r : det' = [det EXCEPT ![d] = r] /\ r.pc # "confirma"
      <3>. DEFINE u == [det[d] EXCEPT !.pc = "reabre"]
      <3>1. det' = [det EXCEPT ![d] = u] \/ det' = [det EXCEPT ![d] = DetOcioso]
        BY <1>2 DEF Renotificar
      <3>2. u.pc # "confirma"
        BY <1>0 DEF Det
      <3>. HIDE DEF u
      <3>. QED BY <1>c, <3>1, <3>2
    <2>2. SemVidaNova /\ Guardadas({})
      <3>1. ASSUME NEW a \in Ids
            PROVE  /\ alerta'[a].chave = alerta[a].chave
                   /\ alerta'[a].rec = alerta[a].rec
                   /\ alerta'[a].status = alerta[a].status
        BY <1>0, <1>2 DEF Renotificar, Devolvida, Alerta
      <3>. QED BY <1>2, <3>1, LinhasMansas DEF Renotificar, externo
    <2>. QED BY <1>b, <2>1, <2>2, PassoManso
  <1>3. CASE ReabrirLinhas(d)
    BY <1>3, <1>a, <1>b, <1>c, PassoManso DEF ReabrirLinhas, externo
  <1>4. CASE UltimoAviso(d)
    <2>1. \E r : det' = [det EXCEPT ![d] = r] /\ r.pc # "confirma"
      <3>1. \E n : det' = [det EXCEPT ![d] = [det[d] EXCEPT !.pc = "cria", !.prox = n]]
        BY <1>4 DEF UltimoAviso
      <3>2. \A n : [det[d] EXCEPT !.pc = "cria", !.prox = n].pc # "confirma"
        BY <1>0 DEF Det
      <3>. QED BY <3>1, <3>2
    <2>. QED BY <1>4, <1>a, <1>b, <2>1, PassoManso DEF UltimoAviso, tabelas, externo
  <1>5. CASE CriarAlerta(d)
    BY <1>5, CriarIntegra
  <1>6. CASE ConfirmarAlerta(d)
    BY <1>6, ConfirmarIntegra
  <1>7. CASE RecoveredLer(d)
    <2>1. \E r : det' = [det EXCEPT ![d] = r] /\ r.pc # "confirma"
      <3>. DEFINE u == [det[d] EXCEPT !.pc = "resolve",
                                      !.avisar = Anunciado(VivasDe(ChaveDe[d]))]
      <3>1. det' = [det EXCEPT ![d] = u]
        BY <1>7 DEF RecoveredLer
      <3>2. u.pc # "confirma"
        BY <1>0 DEF Det
      <3>. HIDE DEF u
      <3>. QED BY <3>1, <3>2
    <2>. QED BY <1>7, <1>a, <1>b, <2>1, PassoManso DEF RecoveredLer, tabelas, externo
  <1>8. CASE RecoveredResolver(d)
    <2>1. \E r : det' = [det EXCEPT ![d] = r] /\ r.pc # "confirma"
      <3>. DEFINE u == [det[d] EXCEPT !.pc = "anuncia"]
      <3>1. det' = [det EXCEPT ![d] = u] \/ det' = [det EXCEPT ![d] = DetOcioso]
        BY <1>8 DEF RecoveredResolver
      <3>2. u.pc # "confirma"
        BY <1>0 DEF Det
      <3>. HIDE DEF u
      <3>. QED BY <1>c, <3>1, <3>2
    <2>2. /\ alerta' = alerta \/ alerta' = Resolvidas(VivasDe(ChaveDe[d]))
          /\ tardio' = tardio
      BY <1>8 DEF RecoveredResolver, externo
    <2>3. SemVidaNova /\ Guardadas({})
      BY <1>0, <1>a, <2>2, ResolvidasMansas
    <2>. QED BY <1>b, <2>1, <2>3, PassoManso
  <1>9. CASE RecoveredAnunciar(d)
    <2>. DEFINE novo == Min(Livres)
    <2>1. novo \in Ids /\ alerta[novo].status = "livre"
      <3>1. Livres \in SUBSET Nat /\ Livres # {}
        BY <1>9 DEF RecoveredAnunciar, Livres, Ids
      <3>. QED BY <3>1, MinPertence DEF Livres
    <2>2. \/ alerta' = alerta
          \/ alerta' = [alerta EXCEPT ![novo] = Nova(ChaveDe[d], TRUE, "resolved", 0)]
      BY <1>9 DEF RecoveredAnunciar
    <2>3. tardio' = tardio /\ det' = [det EXCEPT ![d] = DetOcioso]
      BY <1>9 DEF RecoveredAnunciar, externo
    <2>4. SemVidaNova /\ Guardadas({})
      <3>. HIDE DEF novo
      <3>. QED BY <1>0, <1>a, <2>1, <2>2, <2>3
               DEF SemVidaNova, Guardadas, Viva, Nova
    <2>. QED BY <1>b, <1>c, <2>3, <2>4, PassoManso
  <1>. QED BY <1>1, <1>2, <1>3, <1>4, <1>5, <1>6, <1>7, <1>8, <1>9
           DEF Detector, DetectorContinua

\* An operator writes by id: the only row it can bring back is one resolved since
\* it was read.
LEMMA OperadorIntegra ==
  ASSUME UmaVivaInv, TypeOK', NEW o \in Operadores, AlertDaRota(o) \/ AlertGravar(o)
  PROVE  UmaVivaInv'
  <1>0. alerta \in [Ids -> Alerta] /\ op[o] \in Op /\ det' = det
    BY DEF UmaVivaInv, TypeOK, AlertDaRota, AlertGravar
  <1>1. CASE AlertDaRota(o)
    <2>1. SemVidaNova /\ Guardadas({})
      BY <1>1, LinhasMansas DEF AlertDaRota, tabelas, externo
    <2>. QED BY <1>0, <2>1, PassoManso
  <1>2. CASE AlertGravar(o)
    <2>. DEFINE a == op[o].id
    <2>1. \/ alerta' = alerta /\ tardio' = tardio
          \/ /\ Gravada(a) /\ alerta' = [alerta EXCEPT ![a].status = op[o].verbo]
             /\ tardio' = IF op[o].verbo = "acked" /\ alerta[a].status = "resolved"
                          THEN tardio \cup {a} ELSE tardio
      BY <1>2 DEF AlertGravar
    <2>2. op[o].verbo \in {"acked", "resolved"} /\ a \in Ids
      BY <1>0, <1>2 DEF AlertGravar, Op, OpOcioso
    <2>3. SemVidaNova /\ Guardadas({})
      <3>. HIDE DEF a
      <3>. QED BY <1>0, <2>1, <2>2 DEF SemVidaNova, Guardadas, Viva, Gravada, Alerta
    <2>. QED BY <1>0, <2>3, PassoManso
  <1>. QED BY <1>1, <1>2

\* No step of a dispatcher changes a row's key, kind or status, except
\* fecharDuplicados, which resolves.
LEMMA DespachanteIntegra ==
  ASSUME UmaVivaInv, TypeOK', NEW p \in Processos, Despachante(p) \/ VerificarCanal(p)
  PROVE  UmaVivaInv'
  <1>0. alerta \in [Ids -> Alerta] /\ tardio' = tardio /\ det' = det
    BY DEF UmaVivaInv, TypeOK, Despachante, VerificarCanal, FecharDuplicados, DispensarLer,
           DispensarAlertas, DispensarLinhas, RetomarLer, RetomarAlertas, RetomarLinhas,
           ClaimBatch, GarantirLinhas, Preparar, Entregar, Consolidar, tabelas, externo
  <1>1. CASE FecharDuplicados(p)
    <2>1. \E S : alerta' = alerta \/ alerta' = Resolvidas(S)
      BY <1>1 DEF FecharDuplicados
    <2>2. SemVidaNova /\ Guardadas({})
      BY <1>0, <2>1, LinhasMansas, ResolvidasMansas
    <2>. QED BY <1>0, <2>2, PassoManso
  <1>2. CASE ~FecharDuplicados(p)
    <2>1. ASSUME NEW a \in Ids
          PROVE  /\ alerta'[a].chave = alerta[a].chave
                 /\ alerta'[a].rec = alerta[a].rec
                 /\ alerta'[a].status = alerta[a].status
      <3>1. alerta[a] \in Alerta
        BY <1>0
      <3>2. CASE DispensarAlertas(p)
        <4>1. \/ alerta'[a] = alerta[a]
              \/ alerta'[a] = [alerta[a] EXCEPT !.delivery = desp[p].caso, !.prox = 0]
          BY <1>0, <3>2 DEF DispensarAlertas
        <4>. QED BY <3>1, <4>1 DEF Alerta
      <3>3. CASE RetomarAlertas(p)
        <4>1. alerta'[a] = alerta[a] \/ alerta'[a] = Devolvida(alerta[a])
          BY <3>3 DEF RetomarAlertas
        <4>. QED BY <3>1, <4>1 DEF Devolvida, Alerta
      <3>4. CASE ClaimBatch(p)
        <4>1. \E C : \/ alerta' = alerta
                     \/ alerta' = [b \in Ids |-> IF b \in C THEN [alerta[b] EXCEPT !.prox = Lease]
                                                 ELSE alerta[b]]
          BY <3>4 DEF ClaimBatch
        <4>. QED BY <3>1, <4>1 DEF Alerta
      <3>5. CASE Preparar(p)
        <4>1. \E b : \/ alerta' = alerta
                     \/ alerta' = [alerta EXCEPT ![b] =
                                     [alerta[b] EXCEPT !.delivery = "sem_canal", !.prox = 0]]
          BY <3>5 DEF Preparar
        <4>2. \/ alerta'[a] = alerta[a]
              \/ alerta'[a] = [alerta[a] EXCEPT !.delivery = "sem_canal", !.prox = 0]
          BY <1>0, <4>1
        <4>. QED BY <3>1, <4>2 DEF Alerta
      <3>6. CASE Consolidar(p)
        <4>. DEFINE b == Atual(p)
                    C(x, y, z) == [alerta[b] EXCEPT !.delivery = x, !.prox = y, !.notif = z]
        <4>1. PICK x, y, z : alerta' = alerta \/ alerta' = [alerta EXCEPT ![b] = C(x, y, z)]
          <5>1. PICK ok \in Resposta :
                  \/ alerta' = alerta
                  \/ alerta' = [alerta EXCEPT ![b] =
                       C(Consolidado(desp[p].lin, canal[p].ativos),
                         IF Consolidado(desp[p].lin, canal[p].ativos) = "pendente"
                         THEN Falta(Min({desp[p].lin[c].prox : c \in
                                {x \in canal[p].ativos : desp[p].lin[x].status = "pendente"}}),
                                desp[p].t)
                         ELSE 0,
                         IF ~desp[p].entregou THEN alerta[b].notif
                         ELSE IF desp[p].t < Cooldown THEN desp[p].t ELSE Cooldown)]
            BY <3>6 DEF Consolidar
          <5>. HIDE DEF C, b
          <5>. QED BY <5>1
        <4>2. alerta'[a] = alerta[a] \/ (a = b /\ alerta'[a] = C(x, y, z))
          <5>. HIDE DEF b, C
          <5>. QED BY <1>0, <4>1
        <4>. QED BY <3>1, <4>2 DEF Alerta
      <3>7. CASE alerta' = alerta
        BY <3>7
      <3>. QED BY <1>2, <3>2, <3>3, <3>4, <3>5, <3>6, <3>7
               DEF Despachante, VerificarCanal, DispensarLer, DispensarLinhas, RetomarLer,
                   RetomarLinhas, GarantirLinhas, Entregar, tabelas
    <2>2. SemVidaNova /\ Guardadas({})
      BY <1>0, <2>1, LinhasMansas
    <2>. QED BY <1>0, <2>2, PassoManso
  <1>. QED BY <1>1, <1>2

\* Retention deletes rows; time changes no status.
LEMMA PruneTickIntegra ==
  ASSUME UmaVivaInv, TypeOK', PruneAlerts \/ Tick
  PROVE  UmaVivaInv'
  <1>0. alerta \in [Ids -> Alerta] /\ tardio' = tardio /\ det' = det
    BY DEF UmaVivaInv, TypeOK, PruneAlerts, Tick, externo
  <1>1. SemVidaNova /\ Guardadas({})
    <2>1. CASE PruneAlerts
      BY <1>0, <2>1 DEF PruneAlerts, SemVidaNova, Guardadas, Viva, Apagada, Nova,
                        Podavel, Gravada
    <2>2. CASE Tick
      <3>1. ASSUME NEW a \in Ids
            PROVE  /\ alerta'[a].chave = alerta[a].chave
                   /\ alerta'[a].rec = alerta[a].rec
                   /\ alerta'[a].status = alerta[a].status
        <4>1. alerta[a] \in Alerta
          BY <1>0
        <4>2. \E x, y, z, w : \/ alerta'[a] = alerta[a]
                              \/ alerta'[a] = [alerta[a] EXCEPT !.prox = x, !.visto = y,
                                                                !.notif = z, !.idade = w]
          BY <2>2 DEF Tick
        <4>. QED BY <4>1, <4>2 DEF Alerta
      <3>. QED BY <1>0, <3>1, LinhasMansas
    <2>. QED BY <2>1, <2>2
  <1>. QED BY <1>0, <1>1, PassoManso

\* A crash rolls back the transactions of its own detectors, and no other.
LEMMA QuedaIntegra ==
  ASSUME UmDetectorPorChave, UmaVivaInv, TypeOK', NEW p \in Processos, Queda(p)
  PROVE  UmaVivaInv'
  <1>. DEFINE meus == {x \in Detectores \cup Operadores : Casa[x] = p}
              abertas == {det[d].id : d \in {x \in Detectores \cap meus : det[x].pc = "confirma"}}
  <1>1. /\ alerta' = [a \in Ids |-> IF a \in abertas THEN Apagada(a) ELSE alerta[a]]
        /\ det' = [d \in Detectores |-> IF d \in meus THEN DetOcioso ELSE det[d]]
        /\ tardio' = tardio
    BY DEF Queda, historia
  <1>2. ASSUME NEW e \in Detectores, det'[e].pc = "confirma"
        PROVE  det'[e] = det[e] /\ Integra(e) /\ e \notin meus /\ det[e].id \notin abertas
    <2>1. det'[e] = det[e] /\ e \notin meus
      <3>. HIDE DEF meus
      <3>. QED BY <1>1, <1>2 DEF DetOcioso
    <2>2. Integra(e)
      BY <1>2, <2>1 DEF UmaVivaInv, AberturaIntegra, Integra
    <2>3. ASSUME NEW d \in Detectores \cap meus, det[d].pc = "confirma", det[d].id = det[e].id
          PROVE  FALSE
      <3>1. Integra(d)
        BY <2>3 DEF UmaVivaInv, AberturaIntegra, Integra
      <3>2. ChaveDe[d] = ChaveDe[e]
        BY <2>2, <2>3, <3>1 DEF Integra
      <3>. QED BY <2>1, <2>3, <3>2 DEF UmDetectorPorChave
    <2>4. det[e].id \notin abertas
      <3>. HIDE DEF meus
      <3>. QED BY <2>3
    <2>. QED BY <2>1, <2>2, <2>4
  <1>3. SemVidaNova /\ Guardadas(abertas)
    <2>. HIDE DEF abertas
    <2>. QED BY <1>1 DEF SemVidaNova, Guardadas, Viva, Apagada, Nova
  <1>4. AberturaIntegra'
    <2>1. ASSUME NEW e \in Detectores, det'[e].pc = "confirma"
          PROVE  Integra(e)'
      <3>. HIDE DEF abertas, meus
      <3>. QED BY <1>2, <1>3, <2>1, IntegraFica
    <2>. QED BY <2>1 DEF AberturaIntegra, Integra
  <1>. QED BY <1>3, <1>4, UmaVivaFica DEF UmaVivaInv

LEMMA UmaVivaInicial == Init => UmaVivaInv
  <1>. SUFFICES ASSUME Init PROVE UmaVivaInv
    OBVIOUS
  <1>1. \A a \in Ids : ~Gravada(a)
    BY DEF Init, Vazia, Nova, Gravada
  <1>2. AberturaIntegra /\ UmaVivaPorChave
    BY <1>1 DEF Init, AberturaIntegra, DetOcioso, UmaVivaPorChave, VivasDe, DaChave
  <1>. QED BY <1>2, TipoInicial DEF UmaVivaInv

LEMMA UmaVivaPasso ==
  ASSUME UmDetectorPorChave, UmaVivaInv, [Next]_vars
  PROVE  UmaVivaInv'
  <1>0. TypeOK'
    BY TipoPasso DEF UmaVivaInv
  <1>1. CASE UNCHANGED vars
    BY <1>1 DEF vars, UmaVivaInv, TypeOK, AberturaIntegra, UmaVivaPorChave, VivasDe,
                DaChave, Gravada, Viva
  <1>2. CASE Next
    BY <1>0, <1>2, DetectorIntegra, OperadorIntegra, DespachanteIntegra, PruneTickIntegra,
       QuedaIntegra DEF Next
  <1>. QED BY <1>1, <1>2

\* One incident, one alert (Enqueue, Recovered, fecharDuplicados): if no two
\* goroutines report the same key, then for any number of keys, processes,
\* operators and rows a key never has two unresolved rows, apart from those an
\* operator acknowledged after they had been resolved.
THEOREM UmaVivaSempre == UmDetectorPorChave /\ Spec => []UmaVivaPorChave
  <1>1. UmDetectorPorChave /\ UmaVivaInv /\ [Next]_vars => UmaVivaInv'
    BY UmaVivaPasso
  <1>2. UmaVivaInv => UmaVivaPorChave
    BY DEF UmaVivaInv
  <1>3. SUFFICES ASSUME UmDetectorPorChave PROVE Spec => []UmaVivaPorChave
    OBVIOUS
  <1>4. UmaVivaInv /\ [Next]_vars => UmaVivaInv'
    BY <1>1, <1>3
  <1>. QED BY <1>2, <1>4, UmaVivaInicial, PTL DEF Spec
\* While Enqueue opens an incident nothing opens the key behind its back: for any
\* keys, processes, operators and rows, every unresolved row of the key, late
\* acknowledgements apart, is one the open transaction read and will resolve.
THEOREM AberturaSempre == UmDetectorPorChave /\ Spec => []AberturaIntegra
  <1>1. UmDetectorPorChave /\ UmaVivaInv /\ [Next]_vars => UmaVivaInv'
    BY UmaVivaPasso
  <1>2. UmaVivaInv => AberturaIntegra
    BY DEF UmaVivaInv
  <1>3. SUFFICES ASSUME UmDetectorPorChave PROVE Spec => []AberturaIntegra
    OBVIOUS
  <1>4. UmaVivaInv /\ [Next]_vars => UmaVivaInv'
    BY <1>1, <1>3
  <1>. QED BY <1>2, <1>4, UmaVivaInicial, PTL DEF Spec


-----------------------------------------------------------------------------
(* What is said of a message was sent.                                      *)

\* a row no statement has shown yet; a row nobody is to be told of any more
Fresca(a)    == alerta[a].status \in {"livre", "gravando"}
Encerrada(a) == alerta[a].status \in {"acked", "resolved", "apagado"}

\* the lines l of row a say "enviado" of channels that accepted a message of it only
Fieis(a, l) ==
  \A c \in Canais : /\ l[c].status = "enviado" => envio[a][c] # Nunca
                    /\ l[c].status # "dispensado"

\* What a row says of the messages sent is true: nothing was sent of a row not committed
\* yet, and "notified" and "enviado" mean that a channel accepted a message.
LinhaCerta(a) ==
  /\ Fresca(a) => /\ alerta[a].delivery = "pendente" /\ alerta[a].notif = Nunca
                  /\ \A c \in Canais : linha[a][c].status = "ausente" /\ envio[a][c] = Nunca
  /\ alerta[a].status = "open" => Fieis(a, linha[a])
  /\ Gravada(a) /\ alerta[a].notif # Nunca => Avisada(a)
  /\ alerta[a].status = "open" /\ alerta[a].delivery = "enviado" => Avisada(a)

\* What a detector read and will write from: the row of its open transaction is still
\* hidden, the row to announce again was announced, and the incident whose end it
\* announces was announced.
DetCerto(d) ==
  LET i == det[d].id IN
  /\ det[d].pc = "confirma" => i \in Ids /\ alerta[i].status = "gravando" /\ ~alerta[i].rec
  /\ det[d].pc = "renotifica" /\ det[d].avisar =>
       i \in Ids /\ ~Fresca(i) /\ ~alerta[i].rec /\ Avisada(i)
  /\ det[d].pc = "anuncia" \/ (det[d].pc = "resolve" /\ det[d].avisar) =>
       \E a \in Ids : alerta[a].chave = ChaveDe[d] /\ Avisada(a)

\* p has read the lines of a row and not yet consolidated it
EmMaos(p) == desp[p].pc \in {"envia", "consolida"}

\* What a dispatcher holds in memory: the rows it dispenses are over, those of its batch
\* were committed, and the lines it delivers by are as true as those of the table.
DespCerto(p) ==
  /\ desp[p].pc \in {"dispensa_alertas", "dispensa_linhas"} =>
       \A a \in desp[p].ids : Encerrada(a)
  /\ \A a \in desp[p].lote : ~Fresca(a)
  /\ EmMaos(p) =>
       /\ desp[p].entregou => Avisada(Atual(p))
       /\ alerta[Atual(p)].status = "open" => Fieis(Atual(p), desp[p].lin)
       /\ canal[p].ativos # {}
       /\ \A c \in canal[p].ativos : desp[p].lin[c].status # "ausente"

\* two open transactions never hold the same row
AberturasDistintas ==
  \A d, e \in Detectores :
    det[d].pc = "confirma" /\ det[e].pc = "confirma" /\ det[d].id = det[e].id => d = e

\* ids are used in order, so a recovery comes after its incident
LivresNoFim ==
  \A a, b \in Ids : alerta[a].status = "livre" /\ a < b => alerta[b].status = "livre"

EntregaInv ==
  /\ TypeOK
  /\ \A a \in Ids : LinhaCerta(a)
  /\ \A d \in Detectores : DetCerto(d)
  /\ \A p \in Processos : DespCerto(p)
  /\ AberturasDistintas /\ LivresNoFim /\ RecuperacaoAnunciada

-----------------------------------------------------------------------------
\* What a step does to a row it neither creates nor shows.
Anda(a) ==
  /\ \A c \in Canais : envio[a][c] # Nunca => envio'[a][c] # Nunca
  /\ Fresca(a) =>
       /\ alerta'[a] = alerta[a]
       /\ \A c \in Canais : linha'[a][c].status = linha[a][c].status /\ envio'[a][c] = envio[a][c]
  /\ ~Fresca(a) =>
       /\ alerta'[a].chave = alerta[a].chave /\ alerta'[a].rec = alerta[a].rec
       /\ alerta'[a].status = alerta[a].status \/ Encerrada(a)'
       /\ Gravada(a)' => Gravada(a)
       /\ alerta'[a].notif # Nunca => alerta[a].notif # Nunca \/ Avisada(a)'
       /\ alerta'[a].status = "open" =>
            /\ alerta'[a].delivery = "enviado" => alerta[a].delivery = "enviado" \/ Avisada(a)'
            /\ \A c \in Canais :
                 /\ linha'[a][c].status = "enviado" =>
                      linha[a][c].status = "enviado" \/ envio'[a][c] # Nunca
                 /\ linha'[a][c].status = "dispensado" => linha[a][c].status = "dispensado"

LEMMA AvisoFica ==
  ASSUME NEW a, Anda(a), Avisada(a)
  PROVE  Avisada(a)'
  BY DEF Anda, Avisada

LEMMA AndaCerta ==
  ASSUME NEW a \in Ids, LinhaCerta(a), Anda(a)
  PROVE  LinhaCerta(a)'
  <1>1. CASE Fresca(a)
    BY <1>1 DEF LinhaCerta, Anda, Fresca, Gravada
  <1>2. CASE ~Fresca(a)
    <2>1. ~Fresca(a)'
      BY <1>2 DEF Anda, Fresca, Encerrada
    <2>2. alerta'[a].status = "open" => alerta[a].status = "open" /\ Fieis(a, linha[a])'
      BY <1>2 DEF Anda, Encerrada, LinhaCerta, Fieis
    <2>3. Gravada(a)' /\ alerta'[a].notif # Nunca => Avisada(a)'
      BY <1>2, AvisoFica DEF Anda, LinhaCerta
    <2>4. alerta'[a].status = "open" /\ alerta'[a].delivery = "enviado" => Avisada(a)'
      BY <1>2, <2>2, AvisoFica DEF Anda, LinhaCerta
    <2>. QED BY <2>1, <2>2, <2>3, <2>4 DEF LinhaCerta
  <1>. QED BY <1>1, <1>2

\* A detector that does not move keeps what it relies on, unless X holds its row.
LEMMA DetFica ==
  ASSUME NEW X, \A a \in Ids \ X : Anda(a), \A a \in X : Fresca(a),
         \A a \in Ids : LinhaCerta(a),
         NEW d \in Detectores, DetCerto(d), det'[d] = det[d],
         det[d].pc = "confirma" => det[d].id \notin X
  PROVE  DetCerto(d)'
  <1>. DEFINE i == det[d].id
  <1>1. ASSUME det[d].pc = "confirma"
        PROVE  i \in Ids /\ alerta'[i].status = "gravando" /\ ~alerta'[i].rec
    BY <1>1 DEF DetCerto, Anda, Fresca
  <1>2. ASSUME NEW a \in Ids, Avisada(a)
        PROVE  ~Fresca(a) /\ a \notin X /\ Anda(a) /\ Avisada(a)'
    <2>1. ~Fresca(a)
      BY <1>2 DEF LinhaCerta, Avisada
    <2>. QED BY <1>2, <2>1, AvisoFica
  <1>3. ASSUME det[d].pc = "renotifica", det[d].avisar
        PROVE  i \in Ids /\ ~Fresca(i)' /\ ~alerta'[i].rec /\ Avisada(i)'
    <2>1. i \in Ids /\ Avisada(i) /\ ~alerta[i].rec
      BY <1>3 DEF DetCerto
    <2>. QED BY <1>2, <2>1 DEF Anda, Fresca, Encerrada
  <1>4. ASSUME det[d].pc = "anuncia" \/ (det[d].pc = "resolve" /\ det[d].avisar)
        PROVE  \E a \in Ids : alerta'[a].chave = ChaveDe[d] /\ Avisada(a)'
    <2>1. PICK a \in Ids : alerta[a].chave = ChaveDe[d] /\ Avisada(a)
      BY <1>4 DEF DetCerto
    <2>. QED BY <1>2, <2>1 DEF Anda
  <1>. QED BY <1>1, <1>3, <1>4 DEF DetCerto

\* the fields of a dispatcher the invariant reads are kept
Mesmo(p) ==
  /\ desp'[p].pc = desp[p].pc /\ desp'[p].ids = desp[p].ids
  /\ desp'[p].lote = desp[p].lote /\ desp'[p].lin = desp[p].lin
  /\ desp'[p].faltam = desp[p].faltam
  /\ desp'[p].entregou = desp[p].entregou
  /\ canal'[p].ativos = canal[p].ativos

LEMMA AtualNoLote ==
  ASSUME TypeOK, NEW p \in Processos,
         desp[p].pc \in {"prepara", "envia", "consolida"}
  PROVE  Atual(p) \in desp[p].lote /\ Atual(p) \in Ids
  <1>1. desp[p].lote # {} /\ desp[p].lote \subseteq Ids
    BY DEF TypeOK, Desp, Registro
  <1>2. desp[p].lote \in SUBSET Nat
    BY <1>1 DEF Ids
  <1>. QED BY <1>1, <1>2, MinPertence DEF Atual

LEMMA DespFica ==
  ASSUME TypeOK, NEW X, \A a \in Ids \ X : Anda(a), \A a \in X : Fresca(a),
         NEW p \in Processos, DespCerto(p), Mesmo(p)
  PROVE  DespCerto(p)'
  <1>0. desp[p].ids \subseteq Ids /\ desp[p].lote \subseteq Ids
    BY DEF TypeOK, Desp, Registro
  <1>1. ASSUME NEW a \in Ids, ~Fresca(a)
        PROVE  /\ Anda(a) /\ ~Fresca(a)'
               /\ Encerrada(a) => Encerrada(a)'
               /\ alerta'[a].status = "open" => alerta[a].status = "open"
    BY <1>1 DEF Anda, Fresca, Encerrada
  <1>2. ASSUME desp[p].pc \in {"dispensa_alertas", "dispensa_linhas"}
        PROVE  \A a \in desp[p].ids : Encerrada(a)'
    BY <1>0, <1>1, <1>2 DEF DespCerto, Encerrada, Fresca
  <1>3. \A a \in desp[p].lote : ~Fresca(a)'
    BY <1>0, <1>1 DEF DespCerto
  <1>4. Atual(p)' = Atual(p)
    BY DEF Mesmo, Atual
  <1>5. ASSUME EmMaos(p)
        PROVE  /\ desp[p].entregou => Avisada(Atual(p))'
               /\ alerta'[Atual(p)].status = "open" => Fieis(Atual(p), desp[p].lin)'
    <2>0. PICK a \in desp[p].lote : a = Atual(p)
      BY <1>5, AtualNoLote DEF EmMaos
    <2>1. a \in Ids /\ ~Fresca(a) /\ Anda(a)
      BY <1>0, <1>1 DEF DespCerto
    <2>2. desp[p].entregou => Avisada(a)'
      BY <1>5, <2>0, <2>1, AvisoFica DEF DespCerto
    <2>3. alerta'[a].status = "open" => Fieis(a, desp[p].lin)'
      BY <1>1, <1>5, <2>0, <2>1 DEF DespCerto, Fieis, Anda, Mesmo
    <2>. QED BY <1>4, <2>0, <2>2, <2>3 DEF Mesmo
  <1>. QED BY <1>2, <1>3, <1>4, <1>5 DEF DespCerto, Mesmo, EmMaos

\* A step that touches the rows as Anda says, but for rows X nobody held, keeps the
\* invariant, if whoever moved ends well.
LEMMA PassoEntrega ==
  ASSUME EntregaInv, TypeOK', NEW X,
         \A a \in Ids \ X : Anda(a),
         \A a \in X : Fresca(a) /\ LinhaCerta(a)',
         \A r \in X : Gravada(r)' /\ alerta'[r].rec =>
           \E a \in Ids : a < r /\ alerta[a].chave = alerta'[r].chave /\ Avisada(a),
         \A d \in Detectores :
           \/ det'[d] = det[d] /\ (det[d].pc = "confirma" => det[d].id \notin X)
           \/ DetCerto(d)',
         \A p \in Processos : Mesmo(p) \/ DespCerto(p)',
         AberturasDistintas', LivresNoFim'
  PROVE  EntregaInv'
  <1>1. \A a \in Ids : LinhaCerta(a)'
    BY AndaCerta DEF EntregaInv
  <1>2. \A d \in Detectores : DetCerto(d)'
    BY DetFica DEF EntregaInv
  <1>3. \A p \in Processos : DespCerto(p)'
    BY DespFica DEF EntregaInv
  <1>4. ASSUME NEW a \in Ids, Avisada(a)
        PROVE  alerta'[a].chave = alerta[a].chave /\ Avisada(a)'
    <2>1. ~Fresca(a)
      BY <1>4 DEF EntregaInv, LinhaCerta, Avisada
    <2>2. Anda(a)
      BY <2>1
    <2>. QED BY <1>4, <2>1, <2>2, AvisoFica DEF Anda
  <1>5. ASSUME NEW r \in Ids, Gravada(r)', alerta'[r].rec
        PROVE  \E a \in Ids : a < r /\ alerta'[a].chave = alerta'[r].chave /\ Avisada(a)'
    <2>1. CASE r \in X
      BY <1>4, <1>5, <2>1
    <2>2. CASE r \notin X
      <3>1. Anda(r)
        BY <2>2
      <3>2. Gravada(r) /\ alerta[r].rec /\ alerta'[r].chave = alerta[r].chave
        BY <1>5, <3>1 DEF Anda, Fresca, Gravada
      <3>3. PICK a \in Ids : a < r /\ alerta[a].chave = alerta[r].chave /\ Avisada(a)
        BY <3>2 DEF EntregaInv, RecuperacaoAnunciada
      <3>. QED BY <1>4, <3>2, <3>3
    <2>. QED BY <2>1, <2>2
  <1>6. RecuperacaoAnunciada'
    BY <1>5 DEF RecuperacaoAnunciada
  <1>. QED BY <1>1, <1>2, <1>3, <1>6 DEF EntregaInv

\* The usual step: no row is created or shown and no transaction opens.
LEMMA PassoComum ==
  ASSUME EntregaInv, TypeOK', \A a \in Ids : Anda(a),
         \A d \in Detectores :
           det'[d] = det[d] \/ (det'[d].pc # "confirma" /\ DetCerto(d)'),
         \A p \in Processos : Mesmo(p) \/ DespCerto(p)'
  PROVE  EntregaInv'
  <1>1. AberturasDistintas'
    BY DEF EntregaInv, AberturasDistintas
  <1>2. \A a \in Ids : alerta'[a].status = "livre" <=> alerta[a].status = "livre"
    BY DEF Anda, Fresca, Encerrada
  <1>3. LivresNoFim'
    BY <1>2 DEF EntregaInv, LivresNoFim
  <1>4. PICK X : X = {}
    OBVIOUS
  <1>5. /\ \A a \in Ids \ X : Anda(a)
        /\ \A a \in X : Fresca(a) /\ LinhaCerta(a)'
        /\ \A r \in X : Gravada(r)' /\ alerta'[r].rec =>
             \E a \in Ids : a < r /\ alerta[a].chave = alerta'[r].chave /\ Avisada(a)
        /\ \A d \in Detectores :
             \/ det'[d] = det[d] /\ (det[d].pc = "confirma" => det[d].id \notin X)
             \/ DetCerto(d)'
    BY <1>4
  <1>. QED BY <1>1, <1>3, <1>5, PassoEntrega

\* Rows of which at most the record changes.
LEMMA AndaAlerta ==
  ASSUME UNCHANGED <<linha, envio>>, NEW a \in Ids,
         \/ alerta'[a] = alerta[a]
         \/ /\ ~Fresca(a)
            /\ alerta'[a].chave = alerta[a].chave /\ alerta'[a].rec = alerta[a].rec
            /\ alerta'[a].status = alerta[a].status \/ Encerrada(a)'
            /\ Gravada(a)' => Gravada(a)
            /\ alerta'[a].notif # Nunca => alerta[a].notif # Nunca \/ Avisada(a)
            /\ alerta'[a].status = "open" /\ alerta'[a].delivery = "enviado" =>
                 alerta[a].delivery = "enviado" \/ Avisada(a)
  PROVE  Anda(a)
  <1>1. Avisada(a)' = Avisada(a)
    BY DEF Avisada
  <1>2. CASE alerta'[a] = alerta[a]
    BY <1>2 DEF Anda, Gravada
  <1>. QED BY <1>1, <1>2 DEF Anda

\* Rows of which only the status closes.
LEMMA AndaFecha ==
  ASSUME TypeOK, UNCHANGED <<linha, envio>>, NEW S, alerta' = Resolvidas(S), NEW a \in Ids
  PROVE  Anda(a)
  <1>1. alerta[a] \in Alerta
    BY DEF TypeOK
  <1>2. \/ alerta'[a] = alerta[a]
        \/ Viva(a) /\ alerta'[a] = [alerta[a] EXCEPT !.status = "resolved"]
    BY DEF Resolvidas
  <1>3. CASE Viva(a) /\ alerta'[a] = [alerta[a] EXCEPT !.status = "resolved"]
    <2>1. /\ alerta'[a].chave = alerta[a].chave /\ alerta'[a].rec = alerta[a].rec
          /\ alerta'[a].status = "resolved"
          /\ alerta'[a].notif = alerta[a].notif
      BY <1>1, <1>3 DEF Alerta
    <2>. QED BY <1>3, <2>1, AndaAlerta DEF Viva, Fresca, Gravada, Encerrada
  <1>. QED BY <1>2, <1>3, AndaAlerta

\* A dispatcher that takes no row in hand keeps the invariant.
LEMMA DespSolta ==
  ASSUME TypeOK, \A a \in Ids : Anda(a), NEW p \in Processos, DespCerto(p),
         desp'[p].lote \subseteq desp[p].lote,
         desp'[p].pc \notin {"envia", "consolida"},
         desp'[p].pc \in {"dispensa_alertas", "dispensa_linhas"} =>
           \A a \in desp'[p].ids : Encerrada(a)'
  PROVE  DespCerto(p)'
  <1>1. desp[p].lote \subseteq Ids
    BY DEF TypeOK, Desp, Registro
  <1>2. ASSUME NEW a \in Ids, ~Fresca(a)
        PROVE  ~Fresca(a)'
    BY <1>2 DEF Anda, Fresca, Encerrada
  <1>3. \A a \in desp'[p].lote : ~Fresca(a)'
    BY <1>1, <1>2 DEF DespCerto
  <1>. QED BY <1>3 DEF DespCerto, EmMaos

-----------------------------------------------------------------------------
(* The steps of a detector.                                                 *)

LEMMA EntregaEnqueue ==
  ASSUME EntregaInv, TypeOK', NEW d \in Detectores, EnqueueVivo(d)
  PROVE  EntregaInv'
  <1>. DEFINE vivos == {a \in VivasDe(ChaveDe[d]) : alerta[a].visto <= Retomada}
              i     == Max(vivos)
  <1>0. det \in [Detectores -> Det] /\ DetOcioso \in Det
    BY DetOciosoTipo DEF EntregaInv, TypeOK
  <1>1. \A a \in Ids : Anda(a)
    BY AndaAlerta DEF EnqueueVivo, tabelas, externo
  <1>2. UNCHANGED <<alerta, envio, desp, canal>>
    BY DEF EnqueueVivo, tabelas, externo
  <1>3. CASE det' = [det EXCEPT ![d].pc = "ultimo"]
    <2>1. det'[d].pc = "ultimo" /\ \A e \in Detectores : e # d => det'[e] = det[e]
      BY <1>0, <1>3 DEF Det
    <2>. QED BY <1>1, <1>2, <2>1, PassoComum DEF DetCerto, Mesmo
  <1>4. CASE /\ vivos # {}
             /\ det' = [det EXCEPT ![d] = [DetOcioso EXCEPT !.pc = "renotifica",
                                             !.id = i, !.avisar = PodeAvisar(i)]]
    <2>1. i \in vivos
      <3>1. vivos \in SUBSET (0..MaxAlertas) /\ MaxAlertas \in Nat
        BY ConstantesOk DEF VivasDe, DaChave, Ids
      <3>. QED BY <1>4, <3>1, MaxPertence
    <2>2. i \in Ids /\ ~Fresca(i) /\ ~alerta[i].rec
      BY <2>1 DEF VivasDe, DaChave, Gravada, Fresca
    <2>3. PodeAvisar(i) => Avisada(i)
      BY <2>2 DEF PodeAvisar, EntregaInv, LinhaCerta
    <2>4. /\ det'[d].pc = "renotifica" /\ det'[d].id = i /\ det'[d].avisar = PodeAvisar(i)
          /\ \A e \in Detectores : e # d => det'[e] = det[e]
      BY <1>0, <1>4 DEF DetOcioso
    <2>5. DetCerto(d)'
      BY <1>2, <2>2, <2>3, <2>4 DEF DetCerto, Fresca, Avisada
    <2>. QED BY <1>1, <1>2, <2>4, <2>5, PassoComum DEF Mesmo
  <1>. QED BY <1>3, <1>4 DEF EnqueueVivo

LEMMA EntregaRenotificar ==
  ASSUME EntregaInv, TypeOK', NEW d \in Detectores, Renotificar(d)
  PROVE  EntregaInv'
  <1>. DEFINE i == det[d].id
  <1>0. det \in [Detectores -> Det] /\ DetOcioso \in Det /\ alerta \in [Ids -> Alerta]
    BY DetOciosoTipo DEF EntregaInv, TypeOK
  <1>1. UNCHANGED <<linha, envio, desp, canal>>
    BY DEF Renotificar, externo
  <1>2. \A e \in Detectores :
          det'[e] = det[e] \/ det'[e].pc \in {"reabre", "ocioso"}
    BY <1>0 DEF Renotificar, DetOcioso, Det
  <1>3. ASSUME NEW a \in Ids PROVE Anda(a)
    <2>0. alerta[a] \in Alerta
      BY <1>0
    <2>1. \/ alerta'[a] = alerta[a]
          \/ Gravada(a) /\ alerta'[a] = [Devolvida(alerta[a]) EXCEPT !.visto = 0]
          \/ Gravada(a) /\ alerta'[a] = [alerta[a] EXCEPT !.visto = 0]
      BY <1>0 DEF Renotificar
    <2>2. CASE Gravada(a) /\ alerta'[a] = [Devolvida(alerta[a]) EXCEPT !.visto = 0]
      <3>1. /\ alerta'[a].chave = alerta[a].chave /\ alerta'[a].rec = alerta[a].rec
            /\ alerta'[a].status = alerta[a].status /\ alerta'[a].notif = alerta[a].notif
            /\ alerta'[a].delivery = "pendente"
        BY <2>0, <2>2 DEF Devolvida, Alerta
      <3>. QED BY <1>1, <2>2, <3>1, AndaAlerta DEF Gravada, Fresca
    <2>3. CASE Gravada(a) /\ alerta'[a] = [alerta[a] EXCEPT !.visto = 0]
      <3>1. /\ alerta'[a].chave = alerta[a].chave /\ alerta'[a].rec = alerta[a].rec
            /\ alerta'[a].status = alerta[a].status /\ alerta'[a].notif = alerta[a].notif
            /\ alerta'[a].delivery = alerta[a].delivery
        BY <2>0, <2>3 DEF Alerta
      <3>. QED BY <1>1, <2>3, <3>1, AndaAlerta DEF Gravada, Fresca
    <2>. QED BY <1>1, <2>1, <2>2, <2>3, AndaAlerta
  <1>4. \A e \in Detectores :
          det'[e] = det[e] \/ (det'[e].pc # "confirma" /\ DetCerto(e)')
    BY <1>2 DEF DetCerto
  <1>. QED BY <1>1, <1>3, <1>4, PassoComum DEF Mesmo

\* the lines a row lacks are not created, so a row not committed yet stays without
LEMMA EntregaReabrir ==
  ASSUME EntregaInv, TypeOK', NEW d \in Detectores, ReabrirLinhas(d)
  PROVE  EntregaInv'
  <1>. DEFINE i == det[d].id
  <1>0. /\ det \in [Detectores -> Det] /\ DetOcioso \in Det
        /\ linha \in [Ids -> [Canais -> Linha]]
    BY DetOciosoTipo DEF EntregaInv, TypeOK
  <1>1. UNCHANGED <<alerta, envio, desp, canal>>
    BY DEF ReabrirLinhas, externo
  <1>2. \A e \in Detectores : det'[e] = det[e] \/ det'[e].pc = "ocioso"
    BY <1>0 DEF ReabrirLinhas, DetOcioso
  <1>3. ASSUME NEW a \in Ids, NEW c \in Canais
        PROVE  \/ linha'[a][c] = linha[a][c]
               \/ linha[a][c].status # "ausente" /\ linha'[a][c].status = "pendente"
    BY <1>0 DEF ReabrirLinhas, LinhaDevida
  <1>4. ASSUME NEW a \in Ids PROVE Anda(a)
    <2>1. Fresca(a) => \A c \in Canais : linha'[a][c].status = linha[a][c].status
      BY <1>3 DEF EntregaInv, LinhaCerta
    <2>. QED BY <1>1, <1>3, <2>1 DEF Anda, Gravada
  <1>5. \A e \in Detectores :
          det'[e] = det[e] \/ (det'[e].pc # "confirma" /\ DetCerto(e)')
    BY <1>2 DEF DetCerto
  <1>. QED BY <1>1, <1>4, <1>5, PassoComum DEF Mesmo

LEMMA EntregaUltimo ==
  ASSUME EntregaInv, TypeOK', NEW d \in Detectores, UltimoAviso(d)
  PROVE  EntregaInv'
  <1>1. UNCHANGED <<alerta, linha, envio, desp, canal>>
    BY DEF UltimoAviso, tabelas, externo
  <1>2. \A e \in Detectores : det'[e] = det[e] \/ det'[e].pc = "cria"
    <2>1. PICK prox : det' = [det EXCEPT ![d] = [@ EXCEPT !.pc = "cria", !.prox = prox]]
      BY DEF UltimoAviso
    <2>. QED BY <2>1 DEF EntregaInv, TypeOK, Det
  <1>3. \A a \in Ids : Anda(a)
    BY <1>1, AndaAlerta
  <1>. QED BY <1>1, <1>2, <1>3, PassoComum DEF Mesmo, DetCerto

LEMMA EntregaLer ==
  ASSUME EntregaInv, TypeOK', NEW d \in Detectores, RecoveredLer(d)
  PROVE  EntregaInv'
  <1>. DEFINE abertos == VivasDe(ChaveDe[d])
  <1>1. UNCHANGED <<alerta, linha, envio, desp, canal>>
    BY DEF RecoveredLer, tabelas, externo
  <1>2. /\ det'[d].pc = "resolve" /\ det'[d].avisar = Anunciado(abertos)
        /\ \A e \in Detectores : e # d => det'[e] = det[e]
    BY DEF RecoveredLer, EntregaInv, TypeOK, Det
  <1>3. \A a \in Ids : Anda(a)
    BY <1>1, AndaAlerta
  <1>4. ASSUME Anunciado(abertos)
        PROVE  \E a \in Ids : alerta[a].chave = ChaveDe[d] /\ Avisada(a)
    <2>1. PICK a \in VivasDe(ChaveDe[d]) : alerta[a].notif # Nunca
      BY <1>4 DEF Anunciado
    <2>2. a \in Ids /\ Gravada(a) /\ alerta[a].chave = ChaveDe[d]
      BY DEF VivasDe, DaChave
    <2>. QED BY <2>1, <2>2 DEF EntregaInv, LinhaCerta
  <1>5. DetCerto(d)'
    BY <1>1, <1>2, <1>4 DEF DetCerto, Avisada
  <1>. QED BY <1>1, <1>2, <1>3, <1>5, PassoComum DEF Mesmo

LEMMA EntregaResolver ==
  ASSUME EntregaInv, TypeOK', NEW d \in Detectores, RecoveredResolver(d)
  PROVE  EntregaInv'
  <1>0. alerta \in [Ids -> Alerta] /\ det \in [Detectores -> Det]
    BY DEF EntregaInv, TypeOK
  <1>1. UNCHANGED <<linha, envio, desp, canal>>
    BY DEF RecoveredResolver, externo
  <1>2. /\ det'[d].pc = "ocioso" \/ (det'[d].pc = "anuncia" /\ det[d].avisar)
        /\ \A e \in Detectores : e # d => det'[e] = det[e]
    BY <1>0 DEF RecoveredResolver, DetOcioso, Det
  <1>3. \A a \in Ids : Anda(a)
    <2>1. CASE alerta' = alerta
      BY <1>1, <2>1, AndaAlerta
    <2>2. CASE alerta' = Resolvidas(VivasDe(ChaveDe[d]))
      BY <1>1, <2>2, AndaFecha DEF EntregaInv
    <2>. QED BY <2>1, <2>2 DEF RecoveredResolver
  <1>4. det[d].avisar => \E a \in Ids : alerta[a].chave = ChaveDe[d] /\ Avisada(a)
    BY DEF RecoveredResolver, EntregaInv, DetCerto
  <1>5. \A a \in Ids : alerta'[a].chave = alerta[a].chave
    BY <1>3 DEF Anda
  <1>6. DetCerto(d)'
    BY <1>1, <1>2, <1>4, <1>5 DEF DetCerto, Avisada
  <1>. QED BY <1>1, <1>2, <1>3, <1>6, PassoComum DEF Mesmo

\* the first free id, and that those below it are taken
LEMMA PrimeiraLivre ==
  ASSUME EntregaInv, Livres # {}
  PROVE  /\ Min(Livres) \in Ids /\ alerta[Min(Livres)].status = "livre"
         /\ \A b \in Ids : b < Min(Livres) <=> alerta[b].status # "livre"
  <1>1. Livres \in SUBSET Nat
    BY DEF Livres, Ids
  <1>2. Min(Livres) \in Livres /\ \A b \in Livres : Min(Livres) =< b
    BY <1>1, MinPertence
  <1>3. ASSUME NEW b \in Ids
        PROVE  b < Min(Livres) <=> alerta[b].status # "livre"
    <2>1. b \in Int /\ Min(Livres) \in Int
      BY <1>2 DEF Livres, Ids
    <2>2. b < Min(Livres) => alerta[b].status # "livre"
      BY <1>2, <2>1 DEF Livres
    <2>3. ~(b < Min(Livres)) => alerta[b].status = "livre"
      BY <1>2, <2>1 DEF Livres, EntregaInv, LivresNoFim
    <2>. QED BY <2>2, <2>3
  <1>. QED BY <1>2, <1>3 DEF Livres

LEMMA EntregaCriar ==
  ASSUME EntregaInv, TypeOK', NEW d \in Detectores, CriarAlerta(d)
  PROVE  EntregaInv'
  <1>. DEFINE r == Nova(ChaveDe[d], FALSE, "gravando", det[d].prox)
  <1>0. alerta \in [Ids -> Alerta] /\ det \in [Detectores -> Det]
    BY DEF EntregaInv, TypeOK
  <1>1. UNCHANGED <<linha, envio, desp, canal>>
    BY DEF CriarAlerta, externo
  <1>2. PICK novo \in Ids : /\ novo = Min(Livres) /\ alerta[novo].status = "livre"
                            /\ LinhaCerta(novo)
    BY PrimeiraLivre DEF CriarAlerta, EntregaInv
  <1>3. alerta'[novo] = r /\ \A a \in Ids : a # novo => alerta'[a] = alerta[a]
    BY <1>0, <1>2 DEF CriarAlerta
  <1>r. /\ r.status = "gravando" /\ ~r.rec /\ r.delivery = "pendente" /\ r.notif = Nunca
        /\ r.chave = ChaveDe[d]
    BY DEF Nova
  <1>. HIDE DEF r
  <1>4. /\ det'[d].pc = "confirma" /\ det'[d].id = novo
        /\ \A e \in Detectores : e # d => det'[e] = det[e]
    <2>1. PICK ids : det' = [det EXCEPT ![d] = [@ EXCEPT !.pc = "confirma", !.id = novo,
                                                         !.ids = ids]]
      BY <1>2 DEF CriarAlerta
    <2>. QED BY <1>0, <2>1 DEF Det
  <1>5. PICK X : X = {novo}
    OBVIOUS
  <1>6. /\ \A a \in Ids \ X : Anda(a)
        /\ \A a \in X : Fresca(a)
    BY <1>1, <1>2, <1>3, <1>5, AndaAlerta DEF Fresca
  <1>7. LinhaCerta(novo)'
    BY <1>1, <1>2, <1>3, <1>r DEF LinhaCerta, Fresca, Gravada
  <1>8. DetCerto(d)'
    BY <1>2, <1>3, <1>4, <1>r DEF DetCerto
  <1>9. \A e \in Detectores : det[e].pc = "confirma" => det[e].id # novo
    BY <1>2 DEF EntregaInv, DetCerto
  <1>10. AberturasDistintas'
    BY <1>4, <1>9 DEF EntregaInv, AberturasDistintas
  <1>11. LivresNoFim'
    <2>1. ASSUME NEW a \in Ids, NEW b \in Ids, alerta'[a].status = "livre", a < b
          PROVE  alerta'[b].status = "livre"
      <3>1. a # novo /\ alerta[a].status = "livre" /\ alerta[b].status = "livre"
        BY <1>3, <1>r, <2>1 DEF EntregaInv, LivresNoFim
      <3>2. b # novo
        <4>1. ~(a < novo)
          BY <1>2, <3>1, PrimeiraLivre DEF CriarAlerta
        <4>. QED BY <2>1, <4>1
      <3>. QED BY <1>3, <3>1, <3>2
    <2>. QED BY <2>1 DEF LivresNoFim
  <1>12. \A a \in X : Fresca(a) /\ LinhaCerta(a)'
    BY <1>5, <1>6, <1>7
  <1>13. \A q \in X : Gravada(q)' /\ alerta'[q].rec =>
           \E a \in Ids : a < q /\ alerta[a].chave = alerta'[q].chave /\ Avisada(a)
    BY <1>3, <1>5, <1>r
  <1>14. \A e \in Detectores :
           \/ det'[e] = det[e] /\ (det[e].pc = "confirma" => det[e].id \notin X)
           \/ DetCerto(e)'
    BY <1>4, <1>5, <1>8, <1>9
  <1>15. \A p \in Processos : Mesmo(p)
    BY <1>1 DEF Mesmo
  <1>. QED BY <1>6, <1>10, <1>11, <1>12, <1>13, <1>14, <1>15, PassoEntrega

LEMMA EntregaConfirmar ==
  ASSUME EntregaInv, TypeOK', NEW d \in Detectores, ConfirmarAlerta(d)
  PROVE  EntregaInv'
  <1>0. /\ alerta \in [Ids -> Alerta] /\ det \in [Detectores -> Det]
        /\ DetOcioso \in Det
    BY DetOciosoTipo DEF EntregaInv, TypeOK
  <1>1. UNCHANGED <<linha, envio, desp, canal>>
    BY DEF ConfirmarAlerta, externo
  <1>2. PICK i \in Ids : /\ i = det[d].id /\ det[d].pc = "confirma"
                         /\ alerta[i].status = "gravando" /\ ~alerta[i].rec
    BY DEF ConfirmarAlerta, EntregaInv, DetCerto
  <1>3. LinhaCerta(i) /\ Fresca(i)
    BY <1>2 DEF EntregaInv, Fresca
  <1>4. /\ det'[d].pc = "ocioso"
        /\ \A e \in Detectores : e # d => det'[e] = det[e]
    BY <1>0 DEF ConfirmarAlerta, DetOcioso
  <1>5. /\ \A a \in Ids : a # i => Anda(a)
        /\ alerta'[i].status \in {"open", "apagado"} /\ ~alerta'[i].rec
        /\ alerta'[i].delivery = "pendente" /\ alerta'[i].notif = Nunca
    <2>1. CASE alerta' = [Resolvidas(det[d].ids) EXCEPT ![i].status = "open"]
      <3>1. Resolvidas(det[d].ids)[i] = alerta[i]
        BY <1>2 DEF Resolvidas, Viva
      <3>2. Resolvidas(det[d].ids) \in [Ids -> Alerta]
        BY <1>0, ResolvidasTipo
      <3>3. alerta'[i] = [alerta[i] EXCEPT !.status = "open"]
        BY <1>2, <2>1, <3>1, <3>2
      <3>4. /\ alerta'[i].status = "open" /\ alerta'[i].rec = alerta[i].rec
            /\ alerta'[i].delivery = alerta[i].delivery /\ alerta'[i].notif = alerta[i].notif
        BY <1>0, <1>2, <3>3 DEF Alerta
      <3>5. ASSUME NEW a \in Ids, a # i PROVE Anda(a)
        <4>1. alerta'[a] = Resolvidas(det[d].ids)[a]
          BY <2>1, <3>2, <3>5
        <4>2. CASE alerta'[a] = alerta[a]
          BY <1>1, <4>2, AndaAlerta
        <4>3. CASE Viva(a) /\ alerta'[a] = [alerta[a] EXCEPT !.status = "resolved"]
          <5>1. alerta[a] \in Alerta
            BY <1>0
          <5>2. /\ alerta'[a].chave = alerta[a].chave /\ alerta'[a].rec = alerta[a].rec
                /\ alerta'[a].status = "resolved" /\ alerta'[a].notif = alerta[a].notif
            BY <4>3, <5>1 DEF Alerta
          <5>. QED BY <1>1, <4>3, <5>2, AndaAlerta DEF Viva, Fresca, Gravada, Encerrada
        <4>. QED BY <4>1, <4>2, <4>3 DEF Resolvidas
      <3>. QED BY <1>2, <1>3, <3>4, <3>5 DEF LinhaCerta
    <2>2. CASE alerta' = [alerta EXCEPT ![i] = Apagada(i)]
      <3>1. alerta'[i] = Apagada(i) /\ \A a \in Ids : a # i => alerta'[a] = alerta[a]
        BY <1>0, <1>2, <2>2
      <3>2. /\ Apagada(i).status = "apagado" /\ Apagada(i).rec = alerta[i].rec
            /\ Apagada(i).delivery = "pendente" /\ Apagada(i).notif = Nunca
        BY DEF Apagada, Nova
      <3>. QED BY <1>1, <1>2, <3>1, <3>2, AndaAlerta
    <2>. QED BY <1>2, <2>1, <2>2 DEF ConfirmarAlerta
  <1>6. LinhaCerta(i)'
    BY <1>1, <1>3, <1>5 DEF LinhaCerta, Fresca, Fieis
  <1>7. PICK X : X = {i}
    OBVIOUS
  <1>8. /\ \A a \in Ids \ X : Anda(a)
        /\ \A a \in X : Fresca(a) /\ LinhaCerta(a)'
        /\ \A q \in X : Gravada(q)' /\ alerta'[q].rec =>
             \E a \in Ids : a < q /\ alerta[a].chave = alerta'[q].chave /\ Avisada(a)
    BY <1>3, <1>5, <1>6, <1>7
  <1>9. DetCerto(d)'
    BY <1>4 DEF DetCerto
  <1>10. \A e \in Detectores : e # d /\ det[e].pc = "confirma" => det[e].id # i
    BY <1>2 DEF EntregaInv, AberturasDistintas
  <1>11. \A e \in Detectores :
           \/ det'[e] = det[e] /\ (det[e].pc = "confirma" => det[e].id \notin X)
           \/ DetCerto(e)'
    BY <1>4, <1>7, <1>9, <1>10
  <1>12. AberturasDistintas'
    BY <1>4 DEF EntregaInv, AberturasDistintas
  <1>13. LivresNoFim'
    <2>1. \A a \in Ids : alerta'[a].status = "livre" <=> alerta[a].status = "livre"
      BY <1>2, <1>5 DEF Anda, Fresca, Encerrada
    <2>. QED BY <2>1 DEF EntregaInv, LivresNoFim
  <1>14. \A p \in Processos : Mesmo(p)
    BY <1>1 DEF Mesmo
  <1>. QED BY <1>8, <1>11, <1>12, <1>13, <1>14, PassoEntrega

LEMMA EntregaAnunciar ==
  ASSUME EntregaInv, TypeOK', NEW d \in Detectores, RecoveredAnunciar(d)
  PROVE  EntregaInv'
  <1>. DEFINE r == Nova(ChaveDe[d], TRUE, "resolved", 0)
  <1>0. /\ alerta \in [Ids -> Alerta] /\ det \in [Detectores -> Det]
        /\ DetOcioso \in Det
    BY DetOciosoTipo DEF EntregaInv, TypeOK
  <1>1. UNCHANGED <<linha, envio, desp, canal>>
    BY DEF RecoveredAnunciar, externo
  <1>2. /\ det'[d].pc = "ocioso"
        /\ \A e \in Detectores : e # d => det'[e] = det[e]
    BY <1>0 DEF RecoveredAnunciar, DetOcioso
  <1>3. DetCerto(d)' /\ AberturasDistintas'
    BY <1>2 DEF DetCerto, EntregaInv, AberturasDistintas
  <1>4. \A p \in Processos : Mesmo(p)
    BY <1>1 DEF Mesmo
  <1>5. CASE alerta' = alerta
    <2>1. \A a \in Ids : Anda(a)
      BY <1>1, <1>5, AndaAlerta
    <2>. QED BY <1>2, <1>3, <1>4, <2>1, PassoComum
  <1>6. CASE alerta' = [alerta EXCEPT ![Min(Livres)] = r]
    <2>1. PICK novo \in Ids : /\ novo = Min(Livres) /\ alerta[novo].status = "livre"
                              /\ LinhaCerta(novo)
      BY PrimeiraLivre DEF RecoveredAnunciar, EntregaInv
    <2>2. alerta'[novo] = r /\ \A a \in Ids : a # novo => alerta'[a] = alerta[a]
      BY <1>0, <1>6, <2>1
    <2>r. r.status = "resolved" /\ r.notif = Nunca /\ r.chave = ChaveDe[d]
      BY DEF Nova
    <2>. HIDE DEF r
    <2>3. LinhaCerta(novo)'
      BY <1>1, <2>1, <2>2, <2>r DEF LinhaCerta, Fresca
    <2>4. PICK a \in Ids : alerta[a].chave = ChaveDe[d] /\ Avisada(a)
      <3>1. det[d].pc = "anuncia" /\ DetCerto(d)
        BY DEF RecoveredAnunciar, EntregaInv
      <3>. QED BY <3>1 DEF DetCerto
    <2>5. a < novo
      <3>1. alerta[a].status # "livre"
        BY <2>4 DEF EntregaInv, LinhaCerta, Fresca, Avisada
      <3>. QED BY <2>1, <2>4, <3>1, PrimeiraLivre DEF RecoveredAnunciar
    <2>6. PICK X : X = {novo}
      OBVIOUS
    <2>7. /\ \A b \in Ids \ X : Anda(b)
          /\ \A b \in X : Fresca(b) /\ LinhaCerta(b)'
      BY <1>1, <2>1, <2>2, <2>3, <2>6, AndaAlerta DEF Fresca
    <2>11. \A q \in X : Gravada(q)' /\ alerta'[q].rec =>
             \E b \in Ids : b < q /\ alerta[b].chave = alerta'[q].chave /\ Avisada(b)
      BY <2>2, <2>r, <2>4, <2>5, <2>6
    <2>8. \A e \in Detectores : det[e].pc = "confirma" => det[e].id # novo
      BY <2>1 DEF EntregaInv, DetCerto
    <2>9. \A e \in Detectores :
            \/ det'[e] = det[e] /\ (det[e].pc = "confirma" => det[e].id \notin X)
            \/ DetCerto(e)'
      BY <1>2, <1>3, <2>6, <2>8
    <2>10. LivresNoFim'
      <3>1. ASSUME NEW b \in Ids, NEW c \in Ids, alerta'[b].status = "livre", b < c
            PROVE  alerta'[c].status = "livre"
        <4>1. b # novo /\ alerta[b].status = "livre" /\ alerta[c].status = "livre"
          BY <2>2, <2>r, <3>1 DEF EntregaInv, LivresNoFim
        <4>2. c # novo
          <5>1. ~(b < novo)
            BY <2>1, <4>1, PrimeiraLivre DEF RecoveredAnunciar
          <5>. QED BY <3>1, <5>1
        <4>. QED BY <2>2, <4>1, <4>2
      <3>. QED BY <3>1 DEF LivresNoFim
    <2>. QED BY <1>3, <1>4, <2>7, <2>9, <2>10, <2>11, PassoEntrega
  <1>. QED BY <1>5, <1>6 DEF RecoveredAnunciar

LEMMA EntregaDetector ==
  ASSUME EntregaInv, TypeOK', NEW d \in Detectores, Detector(d)
  PROVE  EntregaInv'
  BY EntregaEnqueue, EntregaRenotificar, EntregaReabrir, EntregaUltimo, EntregaLer,
     EntregaResolver, EntregaCriar, EntregaConfirmar, EntregaAnunciar
     DEF Detector, DetectorContinua

-----------------------------------------------------------------------------
(* The steps of the operators, of retention, of time and of a crash.        *)

LEMMA EntregaOperador ==
  ASSUME EntregaInv, TypeOK', NEW o \in Operadores, AlertDaRota(o) \/ AlertGravar(o)
  PROVE  EntregaInv'
  <1>0. alerta \in [Ids -> Alerta] /\ op[o] \in Op
    BY DEF EntregaInv, TypeOK
  <1>1. UNCHANGED <<linha, envio, det, desp, canal>>
    BY DEF AlertDaRota, AlertGravar, tabelas, externo
  <1>2. ASSUME NEW a \in Ids PROVE Anda(a)
    <2>0. alerta[a] \in Alerta
      BY <1>0
    <2>1. \/ alerta'[a] = alerta[a]
          \/ /\ Gravada(a) /\ op[o].verbo \in {"acked", "resolved"}
             /\ alerta'[a] = [alerta[a] EXCEPT !.status = op[o].verbo]
      BY <1>0 DEF AlertDaRota, AlertGravar, tabelas, Op, OpOcioso
    <2>2. CASE /\ Gravada(a) /\ op[o].verbo \in {"acked", "resolved"}
               /\ alerta'[a] = [alerta[a] EXCEPT !.status = op[o].verbo]
      <3>1. /\ alerta'[a].chave = alerta[a].chave /\ alerta'[a].rec = alerta[a].rec
            /\ alerta'[a].status \in {"acked", "resolved"}
            /\ alerta'[a].notif = alerta[a].notif
        BY <2>0, <2>2 DEF Alerta
      <3>. QED BY <1>1, <2>2, <3>1, AndaAlerta DEF Fresca, Gravada, Encerrada
    <2>. QED BY <1>1, <2>1, <2>2, AndaAlerta
  <1>. QED BY <1>1, <1>2, PassoComum DEF Mesmo

LEMMA EntregaPrune ==
  ASSUME EntregaInv, TypeOK', PruneAlerts
  PROVE  EntregaInv'
  <1>0. alerta \in [Ids -> Alerta] /\ linha \in [Ids -> [Canais -> Linha]]
    BY DEF EntregaInv, TypeOK
  <1>1. UNCHANGED <<envio, det, desp, canal>>
    BY DEF PruneAlerts, externo
  <1>2. ASSUME NEW a \in Ids PROVE Anda(a)
    <2>1. CASE Podavel(a)
      <3>1. alerta'[a] = Apagada(a)
        BY <2>1 DEF PruneAlerts
      <3>2. /\ Apagada(a).status = "apagado" /\ Apagada(a).rec = alerta[a].rec
            /\ Apagada(a).chave = alerta[a].chave /\ Apagada(a).notif = Nunca
        BY DEF Apagada, Nova
      <3>. QED BY <1>1, <2>1, <3>1, <3>2 DEF Anda, Podavel, Fresca, Gravada, Encerrada
    <2>2. CASE ~Podavel(a)
      <3>1. alerta'[a] = alerta[a] /\ linha'[a] = linha[a]
        BY <2>2 DEF PruneAlerts
      <3>. QED BY <1>1, <3>1 DEF Anda, Gravada
    <2>. QED BY <2>1, <2>2
  <1>. QED BY <1>1, <1>2, PassoComum DEF Mesmo

LEMMA EntregaTick ==
  ASSUME EntregaInv, TypeOK', Tick
  PROVE  EntregaInv'
  <1>0. /\ alerta \in [Ids -> Alerta] /\ linha \in [Ids -> [Canais -> Linha]]
        /\ envio \in [Ids -> [Canais -> Nunca..Cooldown]]
        /\ desp \in [Processos -> Desp]
    BY DEF EntregaInv, TypeOK
  <1>1. UNCHANGED <<det, canal>>
    BY DEF Tick
  <1>2. ASSUME NEW a \in Ids, NEW c \in Canais
        PROVE  /\ linha'[a][c].status = linha[a][c].status
               /\ envio'[a][c] = Nunca <=> envio[a][c] = Nunca
    <2>1. linha'[a][c].status = linha[a][c].status
      <3>1. PICK prox : linha'[a][c] = [linha[a][c] EXCEPT !.prox = prox]
        BY DEF Tick
      <3>. QED BY <1>0, <3>1 DEF Linha
    <2>2. envio[a][c] \in Nunca..Cooldown /\ envio'[a][c] = Envelhece(envio[a][c], Cooldown)
      BY <1>0 DEF Tick
    <2>. QED BY <2>1, <2>2 DEF Envelhece, Nunca
  <1>3. ASSUME NEW a \in Ids PROVE Anda(a)
    <2>0. alerta[a] \in Alerta
      BY <1>0
    <2>1. CASE ~Gravada(a)
      <3>1. alerta'[a] = alerta[a]
        BY <2>1 DEF Tick
      <3>2. Fresca(a) => \A c \in Canais : envio'[a][c] = envio[a][c]
        BY <1>2 DEF EntregaInv, LinhaCerta
      <3>. QED BY <1>2, <3>1, <3>2 DEF Anda, Gravada
    <2>2. CASE Gravada(a)
      <3>1. PICK prox, visto, idade :
              alerta'[a] = [alerta[a] EXCEPT !.prox = prox, !.visto = visto,
                              !.notif = Envelhece(@, Cooldown), !.idade = idade]
        BY <2>2 DEF Tick
      <3>2. /\ alerta'[a].chave = alerta[a].chave /\ alerta'[a].rec = alerta[a].rec
            /\ alerta'[a].status = alerta[a].status
            /\ alerta'[a].delivery = alerta[a].delivery
            /\ alerta'[a].notif = Envelhece(alerta[a].notif, Cooldown)
        BY <2>0, <3>1 DEF Alerta
      <3>3. alerta'[a].notif = Nunca <=> alerta[a].notif = Nunca
        BY <2>0, <3>2 DEF Envelhece, Nunca, Alerta
      <3>. QED BY <1>2, <2>2, <3>2, <3>3 DEF Anda, Gravada, Fresca
    <2>. QED BY <2>1, <2>2
  <1>4. ASSUME NEW p \in Processos PROVE Mesmo(p)
    <2>1. \/ desp'[p] = desp[p]
          \/ desp'[p] = [desp[p] EXCEPT !.t = @ + 1]
      BY DEF Tick
    <2>2. desp[p] \in Registro
      BY <1>0 DEF Desp
    <2>. QED BY <1>1, <2>1, <2>2 DEF Mesmo, Registro
  <1>. QED BY <1>1, <1>3, <1>4, PassoComum

\* health marks move nothing the invariant reads
LEMMA MarcandoMesmo ==
  ASSUME NEW f \in [Processos -> Desp], NEW p \in Processos, NEW q \in Processos
  PROVE  LET r == Marcando(p, f)[q] IN
         /\ r.pc = f[q].pc /\ r.ids = f[q].ids /\ r.lote = f[q].lote
         /\ r.lin = f[q].lin /\ r.faltam = f[q].faltam /\ r.entregou = f[q].entregou
         /\ r.caso = f[q].caso
  <1>1. f[q] \in Registro
    BY DEF Desp
  <1>. QED BY <1>1 DEF Marcando, Registro

LEMMA MarcadoMesmo ==
  ASSUME TypeOK, NEW p \in Processos, NEW bem
  PROVE  /\ Marcado(p, bem).ativos = canal[p].ativos
         /\ \A q \in Processos :
              [canal EXCEPT ![p] = Marcado(p, bem)][q].ativos = canal[q].ativos
  <1>1. Marcado(p, bem).ativos = canal[p].ativos
    BY DEF Marcado, TypeOK, Canal
  <1>. QED BY <1>1 DEF TypeOK

LEMMA EntregaVerificar ==
  ASSUME EntregaInv, TypeOK', NEW p \in Processos, VerificarCanal(p)
  PROVE  EntregaInv'
  <1>1. UNCHANGED <<alerta, linha, envio, det>>
    BY DEF VerificarCanal, tabelas, externo
  <1>2. \A a \in Ids : Anda(a)
    BY <1>1, AndaAlerta
  <1>3. ASSUME NEW q \in Processos PROVE Mesmo(q)
    <2>1. PICK bem \in BOOLEAN : canal' = [canal EXCEPT ![p] = Marcado(p, bem)]
      BY DEF VerificarCanal
    <2>2. canal'[q].ativos = canal[q].ativos
      BY <2>1, MarcadoMesmo DEF EntregaInv
    <2>3. desp' = Marcando(p, desp) /\ desp \in [Processos -> Desp]
      BY DEF VerificarCanal, EntregaInv, TypeOK
    <2>. QED BY <2>2, <2>3, MarcandoMesmo DEF Mesmo
  <1>. QED BY <1>1, <1>2, <1>3, PassoComum

LEMMA EntregaQueda ==
  ASSUME EntregaInv, TypeOK', NEW p \in Processos, Queda(p)
  PROVE  EntregaInv'
  <1>. DEFINE meus == {x \in Detectores \cup Operadores : Casa[x] = p}
              abertas == {det[d].id : d \in {x \in Detectores \cap meus : det[x].pc = "confirma"}}
  <1>0. /\ alerta \in [Ids -> Alerta] /\ det \in [Detectores -> Det]
        /\ desp \in [Processos -> Desp] /\ DespInicio \in Desp
        /\ canal \in [Processos -> Canal]
    BY DespInicioTipo DEF EntregaInv, TypeOK
  <1>1. UNCHANGED <<linha, envio>>
    BY DEF Queda, historia
  <1>2. /\ alerta' = [a \in Ids |-> IF a \in abertas THEN Apagada(a) ELSE alerta[a]]
        /\ det' = [d \in Detectores |-> IF d \in meus THEN DetOcioso ELSE det[d]]
    BY DEF Queda
  <1>3. \A a \in abertas : a \in Ids /\ alerta[a].status = "gravando"
    BY DEF EntregaInv, DetCerto
  <1>4. ASSUME NEW d \in Detectores, d \notin meus, det[d].pc = "confirma"
        PROVE  det[d].id \notin abertas
    BY <1>4 DEF EntregaInv, AberturasDistintas
  <1>5. PICK X : X = abertas
    OBVIOUS
  <1>6. ASSUME NEW d \in Detectores
        PROVE  \/ det'[d] = det[d] /\ (det[d].pc = "confirma" => det[d].id \notin X)
               \/ det'[d].pc = "ocioso" /\ DetCerto(d)'
    <2>1. CASE d \in meus
      BY <1>2, <2>1 DEF DetOcioso, DetCerto
    <2>2. CASE d \notin meus
      BY <1>2, <1>4, <1>5, <2>2
    <2>. QED BY <2>1, <2>2
  <1>. HIDE DEF meus, abertas
  <1>7. \A a \in Ids \ X : Anda(a)
    BY <1>1, <1>2, <1>5, AndaAlerta
  <1>8. ASSUME NEW a \in X
        PROVE  /\ a \in Ids /\ Fresca(a) /\ LinhaCerta(a)'
               /\ alerta'[a].status = "apagado" /\ alerta[a].status = "gravando"
    <2>1. a \in Ids /\ alerta'[a] = Apagada(a) /\ alerta[a].status = "gravando"
      BY <1>2, <1>3, <1>5, <1>8
    <2>2. Apagada(a).status = "apagado"
      BY DEF Apagada, Nova
    <2>. QED BY <2>1, <2>2 DEF LinhaCerta, Fresca, Gravada
  <1>9. AberturasDistintas'
    BY <1>6 DEF EntregaInv, AberturasDistintas
  <1>10. LivresNoFim'
    <2>1. \A a \in Ids : alerta'[a].status = "livre" <=> alerta[a].status = "livre"
      BY <1>7, <1>8 DEF Anda, Fresca, Encerrada
    <2>. QED BY <2>1 DEF EntregaInv, LivresNoFim
  <1>11. \A q \in Processos : Mesmo(q) \/ DespCerto(q)'
    <2>1. PICK ativos \in Configs, bem \in BOOLEAN :
            IF Telegram \in ativos
            THEN /\ canal' = [canal EXCEPT ![p] = [Marcado(p, bem) EXCEPT !.ativos = ativos]]
                 /\ desp' = Marcando(p, [desp EXCEPT ![p] = DespInicio])
            ELSE /\ canal' = [canal EXCEPT ![p] =
                      [ativos |-> ativos, estado |-> "desligado", verificado |-> {}]]
                 /\ desp' = [desp EXCEPT ![p] = DespInicio]
      BY DEF Queda
    <2>2. [desp EXCEPT ![p] = DespInicio] \in [Processos -> Desp]
      BY <1>0
    <2>3. /\ desp'[p].pc = "inicia" /\ desp'[p].lote = {}
          /\ \A q \in Processos : q # p =>
               /\ desp'[q].pc = desp[q].pc /\ desp'[q].ids = desp[q].ids
               /\ desp'[q].lote = desp[q].lote /\ desp'[q].lin = desp[q].lin
               /\ desp'[q].faltam = desp[q].faltam /\ desp'[q].entregou = desp[q].entregou
      <3>1. CASE desp' = [desp EXCEPT ![p] = DespInicio]
        BY <1>0, <3>1 DEF DespInicio
      <3>2. CASE desp' = Marcando(p, [desp EXCEPT ![p] = DespInicio])
        <4>. DEFINE f == [desp EXCEPT ![p] = DespInicio]
        <4>1. /\ f[p].pc = "inicia" /\ f[p].lote = {}
              /\ \A q \in Processos : q # p => f[q] = desp[q]
          BY <1>0 DEF DespInicio
        <4>2. f \in [Processos -> Desp] /\ desp' = Marcando(p, f)
          BY <2>2, <3>2
        <4>. HIDE DEF f
        <4>. QED BY <4>1, <4>2, MarcandoMesmo
      <3>. QED BY <2>1, <3>1, <3>2
    <2>4. \A q \in Processos : q # p => canal'[q] = canal[q]
      BY <1>0, <2>1
    <2>5. DespCerto(p)'
      BY <2>3 DEF DespCerto, EmMaos
    <2>. QED BY <2>3, <2>4, <2>5 DEF Mesmo
  <1>. QED BY <1>6, <1>7, <1>8, <1>9, <1>10, <1>11, PassoEntrega DEF Gravada

-----------------------------------------------------------------------------
(* The steps of a dispatcher.                                               *)

\* What a dispatcher step needs: the other dispatchers stay, no detector moves.
LEMMA PassoDesp ==
  ASSUME EntregaInv, TypeOK', UNCHANGED det, NEW p \in Processos,
         \A a \in Ids : Anda(a), DespCerto(p)',
         \A q \in Processos : q # p => Mesmo(q)
  PROVE  EntregaInv'
  BY PassoComum

\* ... and one that takes no row in hand and touches no channel.
LEMMA PassoSolto ==
  ASSUME EntregaInv, TypeOK', UNCHANGED <<det, canal>>, NEW p \in Processos,
         \A a \in Ids : Anda(a),
         NEW r, desp' = [desp EXCEPT ![p] = r],
         r.lote \subseteq desp[p].lote,
         r.pc \notin {"envia", "consolida"},
         r.pc \in {"dispensa_alertas", "dispensa_linhas"} =>
           \A a \in r.ids : Encerrada(a)'
  PROVE  EntregaInv'
  <1>1. desp'[p] = r /\ \A q \in Processos : q # p => desp'[q] = desp[q]
    BY DEF EntregaInv, TypeOK
  <1>2. DespCerto(p)'
    BY <1>1, DespSolta DEF EntregaInv
  <1>. QED BY <1>1, <1>2, PassoDesp DEF Mesmo

LEMMA DepoisSolto ==
  ASSUME NEW r \in Desp
  PROVE  /\ DepoisDeDispensar(r).lote = r.lote
         /\ DepoisDeDispensar(r).pc \in {"dispensa", "retoma"}
         /\ DepoisDeRetomar(r).lote = r.lote
         /\ DepoisDeRetomar(r).pc \in {"retoma", "reivindica"}
  <1>1. r \in Registro
    BY DEF Desp
  <1>. QED BY <1>1 DEF DepoisDeDispensar, DepoisDeRetomar, Registro

LEMMA ProximoSolto ==
  ASSUME NEW p
  PROVE  /\ Proximo(p).lote \subseteq desp[p].lote
         /\ Proximo(p).pc \in {"dorme", "prepara"}
  BY DEF Proximo, DespDorme, DespInicio

LEMMA EntregaFechar ==
  ASSUME EntregaInv, TypeOK', NEW p \in Processos, FecharDuplicados(p)
  PROVE  EntregaInv'
  <1>. DEFINE r == [desp[p] EXCEPT !.pc = "dorme"]
  <1>0. desp \in [Processos -> Desp] /\ desp[p] \in Registro
    BY DEF EntregaInv, TypeOK, Desp
  <1>1. UNCHANGED <<linha, envio, det, canal>>
    BY DEF FecharDuplicados, externo
  <1>2. \A a \in Ids : Anda(a)
    <2>1. PICK S : alerta' = alerta \/ alerta' = Resolvidas(S)
      BY DEF FecharDuplicados
    <2>2. CASE alerta' = alerta
      BY <1>1, <2>2, AndaAlerta
    <2>3. CASE alerta' = Resolvidas(S)
      BY <1>1, <2>3, AndaFecha DEF EntregaInv
    <2>. QED BY <2>1, <2>2, <2>3
  <1>3. desp' = [desp EXCEPT ![p] = r] /\ r.pc = "dorme" /\ r.lote = desp[p].lote
    BY <1>0 DEF FecharDuplicados, Registro
  <1>. HIDE DEF r
  <1>. QED BY <1>1, <1>2, <1>3, PassoSolto

LEMMA EntregaDispensarLer ==
  ASSUME EntregaInv, TypeOK', NEW p \in Processos, DispensarLer(p)
  PROVE  EntregaInv'
  <1>0. desp \in [Processos -> Desp] /\ desp[p] \in Registro
    BY DEF EntregaInv, TypeOK, Desp
  <1>1. UNCHANGED <<alerta, linha, envio, det, canal>>
    BY DEF DispensarLer, tabelas, externo
  <1>2. \A a \in Ids : Anda(a)
    BY <1>1, AndaAlerta
  <1>3. PICK S \in {Dispensaveis(desp[p].caso), {}} :
          desp' = [desp EXCEPT ![p] = [@ EXCEPT !.pc = "dispensa_alertas", !.ids = S]]
    BY DEF DispensarLer
  <1>4. \A a \in S : Encerrada(a)'
    BY <1>1, <1>3 DEF Dispensaveis, Encerrada
  <1>5. PICK r : r = [desp[p] EXCEPT !.pc = "dispensa_alertas", !.ids = S]
    OBVIOUS
  <1>6. r.pc = "dispensa_alertas" /\ r.ids = S /\ r.lote = desp[p].lote
    BY <1>0, <1>5 DEF Registro
  <1>7. desp' = [desp EXCEPT ![p] = r]
    BY <1>3, <1>5
  <1>. QED BY <1>1, <1>2, <1>4, <1>6, <1>7, PassoSolto

\* a resolved row is dispensed: an open one is left alone
LEMMA EntregaDispensarAlertas ==
  ASSUME EntregaInv, TypeOK', NEW p \in Processos, DispensarAlertas(p)
  PROVE  EntregaInv'
  <1>0. /\ desp \in [Processos -> Desp] /\ desp[p] \in Registro /\ desp[p] \in Desp
        /\ alerta \in [Ids -> Alerta]
    BY DEF EntregaInv, TypeOK, Desp
  <1>1. UNCHANGED <<linha, envio, det, canal>>
    BY DEF DispensarAlertas, externo
  <1>2. ASSUME NEW a \in Ids PROVE Anda(a)
    <2>0. alerta[a] \in Alerta
      BY <1>0
    <2>1. \/ alerta'[a] = alerta[a]
          \/ /\ alerta[a].status = "resolved"
             /\ alerta'[a] = [alerta[a] EXCEPT !.delivery = desp[p].caso, !.prox = 0]
      BY DEF DispensarAlertas, Dispensaveis
    <2>2. CASE /\ alerta[a].status = "resolved"
               /\ alerta'[a] = [alerta[a] EXCEPT !.delivery = desp[p].caso, !.prox = 0]
      <3>1. /\ alerta'[a].chave = alerta[a].chave /\ alerta'[a].rec = alerta[a].rec
            /\ alerta'[a].status = "resolved" /\ alerta'[a].notif = alerta[a].notif
        BY <2>0, <2>2 DEF Alerta
      <3>. QED BY <1>1, <2>2, <3>1, AndaAlerta DEF Fresca, Gravada
    <2>. QED BY <1>1, <2>1, <2>2, AndaAlerta
  <1>3. PICK r \in {[desp[p] EXCEPT !.pc = "dispensa_linhas"], DepoisDeDispensar(desp[p])} :
          desp' = [desp EXCEPT ![p] = r]
    BY DEF DispensarAlertas
  <1>4. /\ r.lote = desp[p].lote
        /\ r.pc \in {"dispensa", "retoma", "dispensa_linhas"}
        /\ r.pc = "dispensa_linhas" => r.ids = desp[p].ids
    BY <1>0, <1>3, DepoisSolto DEF Registro
  <1>5. \A a \in desp[p].ids : Encerrada(a)'
    <2>1. \A a \in desp[p].ids : Encerrada(a) /\ a \in Ids
      BY <1>0 DEF DispensarAlertas, EntregaInv, DespCerto, Registro
    <2>. QED BY <1>2, <2>1 DEF Anda, Encerrada, Fresca
  <1>. QED BY <1>1, <1>2, <1>3, <1>4, <1>5, PassoSolto

\* the lines it writes are of rows nobody is to be told of any more
LEMMA EntregaDispensarLinhas ==
  ASSUME EntregaInv, TypeOK', NEW p \in Processos, DispensarLinhas(p)
  PROVE  EntregaInv'
  <1>0. /\ desp \in [Processos -> Desp] /\ desp[p] \in Registro /\ desp[p] \in Desp
        /\ linha \in [Ids -> [Canais -> Linha]]
    BY DEF EntregaInv, TypeOK, Desp
  <1>1. UNCHANGED <<alerta, envio, det, canal>>
    BY DEF DispensarLinhas, externo
  <1>2. ASSUME NEW a \in Ids PROVE Anda(a)
    <2>1. CASE Encerrada(a)
      BY <1>1, <2>1 DEF Anda, Encerrada, Fresca, Gravada
    <2>2. CASE ~Encerrada(a)
      <3>1. a \notin desp[p].ids
        BY <2>2 DEF DispensarLinhas, EntregaInv, DespCerto
      <3>2. \/ linha' = linha
            \/ linha' = [b \in Ids |-> [c \in Canais |->
                           IF b \in desp[p].ids /\ linha[b][c].status = "pendente"
                           THEN [linha[b][c] EXCEPT !.status = desp[p].caso, !.prox = 0]
                           ELSE linha[b][c]]]
        BY DEF DispensarLinhas
      <3>3. \A c \in Canais : linha'[a][c] = linha[a][c]
        BY <3>1, <3>2
      <3>. QED BY <1>1, <3>3 DEF Anda, Gravada
    <2>. QED BY <2>1, <2>2
  <1>3. desp' = [desp EXCEPT ![p] = DepoisDeDispensar(desp[p])]
    BY DEF DispensarLinhas
  <1>. QED BY <1>0, <1>1, <1>2, <1>3, DepoisSolto, PassoSolto

LEMMA EntregaRetomar ==
  ASSUME EntregaInv, TypeOK', NEW p \in Processos,
         RetomarLer(p) \/ RetomarAlertas(p) \/ RetomarLinhas(p)
  PROVE  EntregaInv'
  <1>0. /\ desp \in [Processos -> Desp] /\ desp[p] \in Registro /\ desp[p] \in Desp
        /\ alerta \in [Ids -> Alerta] /\ linha \in [Ids -> [Canais -> Linha]]
    BY DEF EntregaInv, TypeOK, Desp
  <1>1. UNCHANGED <<envio, det, canal>>
    BY DEF RetomarLer, RetomarAlertas, RetomarLinhas, tabelas, externo
  <1>2. CASE RetomarLer(p)
    <2>1. \A a \in Ids : Anda(a)
      BY <1>2, AndaAlerta DEF RetomarLer, tabelas, externo
    <2>2. PICK ids, provados :
            LET lidos == [desp[p] EXCEPT !.ids = ids, !.provados = provados,
                                         !.pc = "retoma_alertas"]
            IN  \/ desp' = [desp EXCEPT ![p] = lidos]
                \/ desp' = [desp EXCEPT ![p] = DepoisDeRetomar(lidos)]
                \/ desp' = [desp EXCEPT ![p] = [desp[p] EXCEPT !.pc = "reivindica",
                                                               !.caso = "dispensado"]]
      <3>. DEFINE prova == IF desp[p].caso = "falhou" THEN desp[p].provados
                           ELSE IF canal[p].estado = "ok" THEN canal[p].verificado ELSE {}
      <3>. WITNESS Presos(desp[p].caso, prova), prova
      <3>. QED BY <1>2 DEF RetomarLer
    <2>3. PICK r : /\ desp' = [desp EXCEPT ![p] = r] /\ r.lote = desp[p].lote
                   /\ r.pc \in {"retoma_alertas", "retoma", "reivindica"}
      <3>. DEFINE lidos == [desp[p] EXCEPT !.ids = ids, !.provados = provados,
                                           !.pc = "retoma_alertas"]
                  sai   == [desp[p] EXCEPT !.pc = "reivindica", !.caso = "dispensado"]
      <3>1. lidos.lote = desp[p].lote /\ lidos.pc = "retoma_alertas"
        BY <1>0 DEF Registro
      <3>2. sai.lote = desp[p].lote /\ sai.pc = "reivindica"
        BY <1>0 DEF Registro
      <3>3. /\ DepoisDeRetomar(lidos).lote = desp[p].lote
            /\ DepoisDeRetomar(lidos).pc \in {"retoma", "reivindica"}
        BY <1>0 DEF DepoisDeRetomar, Registro
      <3>. HIDE DEF lidos, sai
      <3>. QED BY <2>2, <3>1, <3>2, <3>3 DEF lidos, sai
    <2>. QED BY <1>1, <2>1, <2>3, PassoSolto
  <1>3. CASE RetomarAlertas(p)
    <2>1. ASSUME NEW a \in Ids PROVE Anda(a)
      <3>1. linha' = linha
        BY <1>3 DEF RetomarAlertas
      <3>2. alerta'[a] = alerta[a] \/ (Gravada(a) /\ alerta'[a] = Devolvida(alerta[a]))
        BY <1>3 DEF RetomarAlertas
      <3>3. CASE Gravada(a) /\ alerta'[a] = Devolvida(alerta[a])
        <4>1. /\ alerta'[a].chave = alerta[a].chave /\ alerta'[a].rec = alerta[a].rec
              /\ alerta'[a].status = alerta[a].status /\ alerta'[a].notif = alerta[a].notif
              /\ alerta'[a].delivery = "pendente"
          BY <1>0, <3>3 DEF Devolvida, Alerta
        <4>. QED BY <1>1, <3>1, <3>3, <4>1, AndaAlerta DEF Gravada, Fresca
      <3>. QED BY <1>1, <3>1, <3>2, <3>3, AndaAlerta
    <2>2. PICK r \in {[desp[p] EXCEPT !.pc = "retoma_linhas"], DepoisDeRetomar(desp[p])} :
            desp' = [desp EXCEPT ![p] = r]
      BY <1>3 DEF RetomarAlertas
    <2>3. r.lote = desp[p].lote /\ r.pc \in {"retoma", "reivindica", "retoma_linhas"}
      BY <1>0, <2>2, DepoisSolto DEF Registro
    <2>. QED BY <1>1, <2>1, <2>2, <2>3, PassoSolto
  <1>4. CASE RetomarLinhas(p)
    <2>1. ASSUME NEW a \in Ids, NEW c \in Canais
          PROVE  \/ linha'[a][c] = linha[a][c]
                 \/ linha[a][c].status # "ausente" /\ linha'[a][c].status = "pendente"
      BY <1>4 DEF RetomarLinhas, Relinhadas, LinhaDevida
    <2>2. ASSUME NEW a \in Ids PROVE Anda(a)
      <3>1. alerta' = alerta
        BY <1>4 DEF RetomarLinhas
      <3>2. Fresca(a) => \A c \in Canais : linha'[a][c].status = linha[a][c].status
        BY <2>1 DEF EntregaInv, LinhaCerta
      <3>. QED BY <1>1, <2>1, <3>1, <3>2 DEF Anda, Gravada
    <2>3. desp' = [desp EXCEPT ![p] = DepoisDeRetomar(desp[p])]
      BY <1>4 DEF RetomarLinhas
    <2>. QED BY <1>0, <1>1, <2>2, <2>3, DepoisSolto, PassoSolto
  <1>. QED BY <1>2, <1>3, <1>4

LEMMA EntregaClaim ==
  ASSUME EntregaInv, TypeOK', NEW p \in Processos, ClaimBatch(p)
  PROVE  EntregaInv'
  <1>0. /\ desp \in [Processos -> Desp] /\ desp[p] \in Registro
        /\ alerta \in [Ids -> Alerta]
    BY DEF EntregaInv, TypeOK, Desp
  <1>1. UNCHANGED <<linha, envio, det, canal>>
    BY DEF ClaimBatch, externo
  <1>2. CASE alerta' = alerta /\ desp' = [desp EXCEPT ![p] = DespDorme]
    <2>1. DespDorme.lote = {} /\ DespDorme.pc = "dorme"
      BY DEF DespDorme, DespInicio
    <2>. QED BY <1>1, <1>2, <2>1, AndaAlerta, PassoSolto
  <1>3. ASSUME NEW S, S \subseteq {a \in Ids : Vencida(a)},
               alerta' = [a \in Ids |-> IF a \in S THEN [alerta[a] EXCEPT !.prox = Lease]
                                        ELSE alerta[a]],
               desp' = [desp EXCEPT ![p] = [@ EXCEPT !.pc = "prepara", !.lote = S]]
        PROVE  EntregaInv'
    <2>1. ASSUME NEW a \in Ids
          PROVE  Anda(a) /\ alerta'[a].status = alerta[a].status
      <3>1. CASE a \notin S
        BY <1>1, <1>3, <3>1, AndaAlerta
      <3>2. CASE a \in S
        <4>1. Gravada(a)
          BY <1>3, <3>2 DEF Vencida
        <4>2. /\ alerta'[a].chave = alerta[a].chave /\ alerta'[a].rec = alerta[a].rec
              /\ alerta'[a].status = alerta[a].status /\ alerta'[a].notif = alerta[a].notif
              /\ alerta'[a].delivery = alerta[a].delivery
          BY <1>0, <1>3, <3>2 DEF Alerta
        <4>. QED BY <1>1, <4>1, <4>2, AndaAlerta DEF Gravada, Fresca
      <3>. QED BY <3>1, <3>2
    <2>2. /\ desp'[p].pc = "prepara" /\ desp'[p].lote = S
          /\ \A q \in Processos : q # p => desp'[q] = desp[q]
      BY <1>0, <1>3 DEF Registro
    <2>3. \A a \in S : ~Fresca(a)'
      BY <1>3, <2>1 DEF Vencida, Gravada, Fresca
    <2>4. DespCerto(p)'
      BY <2>2, <2>3 DEF DespCerto, EmMaos
    <2>. QED BY <1>1, <2>1, <2>2, <2>4, PassoDesp DEF Mesmo
  <1>4. CASE ~(alerta' = alerta /\ desp' = [desp EXCEPT ![p] = DespDorme])
    <2>1. PICK S : /\ S \subseteq {a \in Ids : Vencida(a)}
                   /\ alerta' = [a \in Ids |-> IF a \in S THEN [alerta[a] EXCEPT !.prox = Lease]
                                               ELSE alerta[a]]
                   /\ desp' = [desp EXCEPT ![p] = [@ EXCEPT !.pc = "prepara", !.lote = S]]
      BY <1>4 DEF ClaimBatch
    <2>. QED BY <1>3, <2>1
  <1>. QED BY <1>2, <1>4

\* a line it creates is new and owed
LEMMA EntregaGarantir ==
  ASSUME EntregaInv, TypeOK', NEW p \in Processos, GarantirLinhas(p)
  PROVE  EntregaInv'
  <1>0. /\ desp \in [Processos -> Desp] /\ desp[p] \in Registro
        /\ linha \in [Ids -> [Canais -> Linha]]
    BY DEF EntregaInv, TypeOK, Desp
  <1>1. UNCHANGED <<alerta, envio, det, canal>>
    BY DEF GarantirLinhas, externo
  <1>2. PICK a \in desp[p].lote : a \in Ids /\ a = Atual(p) /\ ~Fresca(a)
    BY AtualNoLote DEF GarantirLinhas, EntregaInv, DespCerto
  <1>3. CASE linha' = linha /\ desp' = [desp EXCEPT ![p] = Proximo(p)]
    BY <1>1, <1>3, AndaAlerta, ProximoSolto, PassoSolto
  <1>4. CASE ~(linha' = linha /\ desp' = [desp EXCEPT ![p] = Proximo(p)])
    <2>. DEFINE faltam == {c \in canal[p].ativos : linha[a][c].status = "ausente"}
                novas  == [c \in Canais |-> IF c \in faltam THEN LinhaDevida ELSE linha[a][c]]
    <2>1. linha' = [linha EXCEPT ![a] = novas] /\ desp' = desp
      BY <1>0, <1>2, <1>4 DEF GarantirLinhas
    <2>2. \A c \in Canais : novas[c] = linha[a][c] \/ novas[c].status = "pendente"
      BY DEF LinhaDevida
    <2>3. linha'[a] = novas /\ \A b \in Ids : b # a => linha'[b] = linha[b]
      BY <1>0, <1>2, <2>1
    <2>. HIDE DEF novas
    <2>4. \A b \in Ids : Anda(b)
      BY <1>1, <1>2, <2>2, <2>3 DEF Anda, Gravada
    <2>5. desp' = [desp EXCEPT ![p] = desp[p]]
      BY <1>0, <2>1
    <2>6. desp[p].pc = "prepara"
      BY DEF GarantirLinhas
    <2>. QED BY <1>1, <2>4, <2>5, <2>6, PassoSolto
  <1>. QED BY <1>3, <1>4

\* the lines it delivers by are the row's own
LEMMA EntregaPreparar ==
  ASSUME EntregaInv, TypeOK', NEW p \in Processos, Preparar(p)
  PROVE  EntregaInv'
  <1>0. /\ desp \in [Processos -> Desp] /\ desp[p] \in Registro
        /\ alerta \in [Ids -> Alerta] /\ linha \in [Ids -> [Canais -> Linha]]
        /\ canal[p].ativos \subseteq Canais
    <2>1. canal[p] \in Canal
      BY DEF EntregaInv, TypeOK
    <2>2. canal[p].ativos \subseteq Canais
      BY <2>1, ConstantesOk DEF Canal
    <2>. QED BY <2>2 DEF EntregaInv, TypeOK, Desp
  <1>1. UNCHANGED <<envio, det, canal>>
    BY DEF Preparar, externo
  <1>2. PICK a \in desp[p].lote : a \in Ids /\ a = Atual(p) /\ ~Fresca(a)
    BY AtualNoLote DEF Preparar, EntregaInv, DespCerto
  <1>3. CASE canal[p].ativos = {}
    <2>1. ASSUME NEW b \in Ids PROVE Anda(b)
      <3>1. linha' = linha
        BY <1>3 DEF Preparar
      <3>2. \/ alerta'[b] = alerta[b]
            \/ /\ Gravada(b)
               /\ alerta'[b] = [alerta[b] EXCEPT !.delivery = "sem_canal", !.prox = 0]
        BY <1>0, <1>3 DEF Preparar
      <3>3. CASE /\ Gravada(b)
                 /\ alerta'[b] = [alerta[b] EXCEPT !.delivery = "sem_canal", !.prox = 0]
        <4>1. /\ alerta'[b].chave = alerta[b].chave /\ alerta'[b].rec = alerta[b].rec
              /\ alerta'[b].status = alerta[b].status /\ alerta'[b].notif = alerta[b].notif
              /\ alerta'[b].delivery = "sem_canal"
          BY <1>0, <3>3 DEF Alerta
        <4>. QED BY <1>1, <3>1, <3>3, <4>1, AndaAlerta DEF Gravada, Fresca
      <3>. QED BY <1>1, <3>1, <3>2, <3>3, AndaAlerta
    <2>2. desp' = [desp EXCEPT ![p] = Proximo(p)]
      BY <1>3 DEF Preparar
    <2>. QED BY <1>1, <2>1, <2>2, ProximoSolto, PassoSolto
  <1>4. CASE canal[p].ativos # {} /\ desp' = [desp EXCEPT ![p] = Proximo(p)]
    <2>1. UNCHANGED <<alerta, linha>>
      BY <1>4 DEF Preparar
    <2>. QED BY <1>1, <1>4, <2>1, AndaAlerta, ProximoSolto, PassoSolto
  <1>5. CASE canal[p].ativos # {} /\ desp' # [desp EXCEPT ![p] = Proximo(p)]
    <2>. DEFINE ativos == canal[p].ativos
                lin    == linha[a]
                faltam == {c \in ativos : Devida(lin[c])}
                r      == [desp[p] EXCEPT !.lin = lin, !.faltam = faltam, !.t = 0,
                             !.marcaram = {}, !.tentou = faltam # {}, !.entregou = FALSE,
                             !.pc = IF faltam = {} THEN "consolida" ELSE "envia"]
    <2>1. linha' = linha /\ alerta' = alerta /\ desp' = [desp EXCEPT ![p] = r]
      BY <1>2, <1>5 DEF Preparar
    <2>2. \A c \in ativos : lin[c].status # "ausente"
      BY <1>2 DEF Preparar
    <2>3. /\ r.pc \in {"envia", "consolida"} /\ r.lin = lin /\ r.lote = desp[p].lote
          /\ r.entregou = FALSE
      BY <1>0 DEF Registro
    <2>4. desp'[p] = r /\ \A q \in Processos : q # p => desp'[q] = desp[q]
      BY <1>0, <2>1
    <2>. HIDE DEF r, faltam
    <2>6. \A b \in Ids : Anda(b)
      BY <1>1, <2>1, AndaAlerta
    <2>7. Atual(p)' = a
      BY <1>2, <2>3, <2>4 DEF Atual
    <2>8. ASSUME NEW c \in Canais, alerta'[a].status = "open"
          PROVE  /\ desp'[p].lin[c].status = "enviado" => envio'[a][c] # Nunca
                 /\ desp'[p].lin[c].status # "dispensado"
      BY <1>1, <1>2, <2>1, <2>2, <2>3, <2>4, <2>8 DEF EntregaInv, LinhaCerta, Fieis
    <2>9. DespCerto(p)'
      <3>1. \A b \in desp'[p].lote : ~Fresca(b)'
        BY <2>1, <2>3, <2>4 DEF EntregaInv, DespCerto, Fresca
      <3>2. canal'[p].ativos # {} /\ canal'[p].ativos \subseteq Canais
        BY <1>0, <1>1, <1>5
      <3>3. \A c \in canal'[p].ativos : desp'[p].lin[c].status # "ausente"
        BY <1>0, <1>1, <2>2, <2>3, <2>4
      <3>4. alerta'[a].status = "open" => Fieis(a, desp[p].lin)'
        BY <2>8 DEF Fieis
      <3>. QED BY <2>3, <2>4, <2>7, <3>1, <3>2, <3>3, <3>4 DEF DespCerto, EmMaos
    <2>. QED BY <1>1, <2>4, <2>6, <2>9, PassoDesp DEF Mesmo
  <1>. QED BY <1>3, <1>4, <1>5

\* What the answer to one HTTP delivery changes, with the row and the channel named.
LEMMA FormaEntregar ==
  ASSUME TypeOK, NEW p \in Processos, Entregar(p)
  PROVE  \E a \in Ids, c \in Canais, sucesso \in BOOLEAN :
           /\ a = Atual(p) /\ a \in desp[p].lote /\ desp[p].pc = "envia"
           /\ c \in desp[p].faltam /\ desp[p].lin[c].status = "pendente"
           /\ \A b \in Ids : b # a => linha'[b] = linha[b] /\ envio'[b] = envio[b]
           /\ \A x \in Canais : x # c => /\ linha'[a][x] = linha[a][x]
                                         /\ envio'[a][x] = envio[a][x]
                                         /\ desp'[p].lin[x] = desp[p].lin[x]
           /\ envio'[a][c] = IF sucesso THEN 0 ELSE envio[a][c]
           /\ desp'[p].lin[c].status \in {"enviado", "falhou", "pendente"}
           /\ sucesso <=> desp'[p].lin[c].status = "enviado"
           /\ \/ linha'[a][c] = linha[a][c] /\ (BancoFalha \/ ~Gravada(a))
              \/ linha'[a][c].status = desp'[p].lin[c].status
           /\ desp'[p].pc = IF desp'[p].faltam = {} THEN "consolida" ELSE "envia"
           /\ desp'[p].faltam = desp[p].faltam \ {c}
           /\ desp'[p].lote = desp[p].lote /\ desp'[p].ids = desp[p].ids
           /\ desp'[p].caso = desp[p].caso
           /\ desp'[p].entregou = (desp[p].entregou \/ sucesso)
           /\ \A q \in Processos : /\ canal'[q].ativos = canal[q].ativos
                                   /\ q # p => Mesmo(q) /\ desp'[q].caso = desp[q].caso
  <1>0. /\ desp \in [Processos -> Desp] /\ canal \in [Processos -> Canal]
        /\ linha \in [Ids -> [Canais -> Linha]] /\ desp[p] \in Desp /\ desp[p] \in Registro
        /\ envio \in [Ids -> [Canais -> Nunca..Cooldown]]
        /\ desp[p].pc = "envia" /\ desp[p].faltam # {} /\ desp[p].faltam \subseteq Canais
        /\ desp[p].lin \in [Canais -> Linha]
    BY DEF TypeOK, Entregar, Desp, Registro
  <1>1. PICK a \in Ids : a \in desp[p].lote /\ a = Atual(p)
    BY <1>0, AtualNoLote
  <1>2. PICK c \in Canais : c \in desp[p].faltam /\ c = Min(desp[p].faltam)
    <2>1. desp[p].faltam \in SUBSET Nat
      BY <1>0 DEF Canais
    <2>2. Min(desp[p].faltam) \in desp[p].faltam
      BY <1>0, <2>1, MinPertence
    <2>. QED  BY <1>0, <2>2
  <1>3. desp[p].lin[c] \in Linha /\ desp[p].lin[c].status = "pendente"
    BY <1>0, <1>2 DEF Desp
  <1>. DEFINE R(s)  == Resultado(desp[p].lin[c], s)
              resto == desp[p].faltam \ {c}
              prazo(s) == [R(s) EXCEPT !.prox = Falta(@, desp[p].t)]
              reg(s) == [desp[p] EXCEPT !.lin[c] = R(s), !.faltam = resto,
                                        !.entregou = desp[p].entregou \/ s,
                                        !.pc = IF resto = {} THEN "consolida" ELSE "envia"]
  <1>4. PICK sucesso \in BOOLEAN, ok \in Resposta :
          /\ linha' = IF ok /\ Gravada(a) THEN [linha EXCEPT ![a][c] = prazo(sucesso)] ELSE linha
          /\ envio' = IF sucesso THEN [envio EXCEPT ![a][c] = 0] ELSE envio
          /\ \/ /\ canal' = [canal EXCEPT ![p] = Marcado(p, sucesso)]
                /\ desp' = Marcando(p, [desp EXCEPT ![p] = reg(sucesso)])
             \/ /\ desp' = [desp EXCEPT ![p] = reg(sucesso)]
                /\ UNCHANGED canal
    <2>1. a = Atual(p) /\ c = Min(desp[p].faltam)
      BY <1>1, <1>2
    <2>2. \E s \in BOOLEAN, ok \in Resposta :
            /\ linha' = IF ok /\ Gravada(a) THEN [linha EXCEPT ![a][c] = prazo(s)] ELSE linha
            /\ envio' = IF s THEN [envio EXCEPT ![a][c] = 0] ELSE envio
            /\ IF c = Telegram THEN /\ canal' = [canal EXCEPT ![p] = Marcado(p, s)]
                                    /\ desp' = Marcando(p, [desp EXCEPT ![p] = reg(s)])
               ELSE desp' = [desp EXCEPT ![p] = reg(s)] /\ UNCHANGED canal
      BY ONLY <2>1, Entregar(p) DEF Entregar
    <2>. HIDE DEF R, resto, prazo, reg
    <2>. QED  BY <2>2
  <1>5. PICK l : l = R(sucesso)
    OBVIOUS
  <1>6. PICK n : n = prazo(sucesso)
    OBVIOUS
  <1>7. /\ l \in Linha /\ l.status \in {"enviado", "falhou", "pendente"}
        /\ sucesso <=> l.status = "enviado"
        /\ n.status = l.status
    <2>1. l \in Linha
      BY <1>3, <1>5, ResultadoTipo
    <2>2. n.status = l.status
      BY <1>5, <1>6, <2>1 DEF Linha
    <2>3. desp[p].lin[c].tent \in Nat
      BY <1>3, ConstantesOk DEF Linha
    <2>4. l.status = IF sucesso THEN "enviado"
                     ELSE IF desp[p].lin[c].tent + 1 >= MaxTentativas THEN "falhou" ELSE "pendente"
      BY <1>5, <2>3, ConstantesOk DEF Resultado
    <2>. QED BY <2>1, <2>2, <2>4
  <1>8. PICK e \in BOOLEAN : e = (desp[p].entregou \/ sucesso)
    OBVIOUS
  <1>9. PICK lin : lin = [desp[p].lin EXCEPT ![c] = l]
    OBVIOUS
  <1>10. /\ lin \in [Canais -> Linha] /\ lin[c] = l
         /\ \A x \in Canais : x # c => lin[x] = desp[p].lin[x]
    BY <1>0, <1>2, <1>7, <1>9
  <1>11. PICK r : r = reg(sucesso)
    OBVIOUS
  <1>12. r = [desp[p] EXCEPT !.lin = lin, !.faltam = resto, !.entregou = e,
                             !.pc = IF resto = {} THEN "consolida" ELSE "envia"]
    <2>1. r = [desp[p] EXCEPT !.lin[c] = l, !.faltam = resto, !.entregou = e,
                             !.pc = IF resto = {} THEN "consolida" ELSE "envia"]
      BY <1>5, <1>8, <1>11
    <2>. HIDE DEF resto
    <2>. QED BY <1>0, <1>9, <2>1 DEF Registro
  <1>13. PICK f : f = [desp EXCEPT ![p] = r]
    OBVIOUS
  <1>14. /\ linha' = IF ok /\ Gravada(a) THEN [linha EXCEPT ![a][c] = n] ELSE linha
         /\ \/ /\ canal' = [canal EXCEPT ![p] = Marcado(p, sucesso)]
               /\ desp' = Marcando(p, f)
            \/ /\ desp' = f
               /\ UNCHANGED canal
    BY <1>4, <1>6, <1>11, <1>13
  <1>. HIDE DEF R, prazo, reg
  <1>15. /\ r.pc = (IF resto = {} THEN "consolida" ELSE "envia") /\ r.ids = desp[p].ids
         /\ r.lote = desp[p].lote /\ r.lin = lin /\ r.faltam = resto /\ r.entregou = e
         /\ r.caso = desp[p].caso
    <2>. HIDE DEF resto
    <2>. QED BY <1>0, <1>12 DEF Registro
  <1>16. r \in Desp
    <2>1. r \in Registro
      <3>1. resto \subseteq Canais
        BY <1>0
      <3>. HIDE DEF resto
      <3>. QED BY <1>0, <1>10, <1>12, <3>1 DEF Registro
    <2>2. \A x \in resto : lin[x].status = "pendente"
      BY <1>0, <1>10 DEF Desp
    <2>. QED BY <1>0, <1>1, <1>15, <2>1, <2>2 DEF Desp
  <1>17. /\ f \in [Processos -> Desp] /\ f[p] = r
         /\ \A q \in Processos : q # p => f[q] = desp[q]
    BY <1>0, <1>13, <1>16
  <1>18. \A q \in Processos :
           /\ desp'[q].pc = f[q].pc /\ desp'[q].ids = f[q].ids /\ desp'[q].lote = f[q].lote
           /\ desp'[q].lin = f[q].lin /\ desp'[q].faltam = f[q].faltam
           /\ desp'[q].entregou = f[q].entregou /\ desp'[q].caso = f[q].caso
           /\ canal'[q].ativos = canal[q].ativos
    <2>1. CASE desp' = f /\ UNCHANGED canal
      BY <2>1
    <2>2. CASE /\ canal' = [canal EXCEPT ![p] = Marcado(p, sucesso)]
               /\ desp' = Marcando(p, f)
      BY <1>17, <2>2, MarcandoMesmo, MarcadoMesmo
    <2>. QED BY <1>14, <2>1, <2>2
  <1>19. /\ \A b \in Ids : b # a => linha'[b] = linha[b] /\ envio'[b] = envio[b]
         /\ \A x \in Canais : x # c => /\ linha'[a][x] = linha[a][x]
                                       /\ envio'[a][x] = envio[a][x]
         /\ envio'[a][c] = IF sucesso THEN 0 ELSE envio[a][c]
         /\ \/ linha'[a][c] = linha[a][c] /\ (BancoFalha \/ ~Gravada(a))
            \/ linha'[a][c] = n
    <2>1. \/ linha' = linha /\ (BancoFalha \/ ~Gravada(a))
          \/ linha' = [linha EXCEPT ![a][c] = n]
      BY <1>14 DEF Resposta
    <2>2. envio' = IF sucesso THEN [envio EXCEPT ![a][c] = 0] ELSE envio
      BY <1>4
    <2>. QED BY <1>0, <1>1, <1>2, <2>1, <2>2
  <1>20. \A q \in Processos : q # p => Mesmo(q) /\ desp'[q].caso = desp[q].caso
    BY <1>17, <1>18 DEF Mesmo
  <1>21. /\ desp'[p].pc = (IF desp'[p].faltam = {} THEN "consolida" ELSE "envia")
         /\ desp'[p].faltam = desp[p].faltam \ {c}
         /\ desp'[p].lote = desp[p].lote /\ desp'[p].ids = desp[p].ids
         /\ desp'[p].caso = desp[p].caso /\ desp'[p].lin = lin
         /\ desp'[p].entregou = (desp[p].entregou \/ sucesso)
    BY <1>8, <1>15, <1>17, <1>18
  <1>. HIDE DEF resto
  <1>. WITNESS a \in Ids, c \in Canais, sucesso \in BOOLEAN
  <1>. QED BY <1>0, <1>1, <1>2, <1>3, <1>7, <1>10, <1>18, <1>19, <1>20, <1>21

LEMMA EntregaEntregar ==
  ASSUME EntregaInv, TypeOK', NEW p \in Processos, Entregar(p)
  PROVE  EntregaInv'
  <1>0. PICK a \in Ids, c \in Canais, sucesso \in BOOLEAN :
           /\ a = Atual(p) /\ a \in desp[p].lote /\ desp[p].pc = "envia"
           /\ c \in desp[p].faltam
           /\ \A b \in Ids : b # a => linha'[b] = linha[b] /\ envio'[b] = envio[b]
           /\ \A x \in Canais : x # c => /\ linha'[a][x] = linha[a][x]
                                         /\ envio'[a][x] = envio[a][x]
                                         /\ desp'[p].lin[x] = desp[p].lin[x]
           /\ envio'[a][c] = IF sucesso THEN 0 ELSE envio[a][c]
           /\ desp'[p].lin[c].status \in {"enviado", "falhou", "pendente"}
           /\ sucesso <=> desp'[p].lin[c].status = "enviado"
           /\ \/ linha'[a][c] = linha[a][c]
              \/ linha'[a][c].status = desp'[p].lin[c].status
           /\ desp'[p].pc \in {"envia", "consolida"}
           /\ desp'[p].lote = desp[p].lote
           /\ desp'[p].entregou = (desp[p].entregou \/ sucesso)
           /\ canal'[p].ativos = canal[p].ativos
           /\ \A q \in Processos : q # p => Mesmo(q)
    BY FormaEntregar DEF EntregaInv
  <1>1. UNCHANGED <<alerta, det>>
    BY DEF Entregar
  <1>2. ~Fresca(a) /\ DespCerto(p) /\ EmMaos(p)
    BY <1>0 DEF EntregaInv, DespCerto, EmMaos
  <1>3. ASSUME NEW b \in Ids PROVE Anda(b)
    <2>1. CASE b # a
      BY <1>0, <1>1, <2>1 DEF Anda, Gravada
    <2>2. CASE b = a
      <3>1. \A x \in Canais : /\ envio[a][x] # Nunca => envio'[a][x] # Nunca
                              /\ linha'[a][x].status = "enviado" =>
                                   linha[a][x].status = "enviado" \/ envio'[a][x] # Nunca
                              /\ linha'[a][x].status = "dispensado" =>
                                   linha[a][x].status = "dispensado"
        BY <1>0 DEF Nunca
      <3>. QED BY <1>1, <1>2, <2>2, <3>1 DEF Anda, Gravada
    <2>. QED BY <2>1, <2>2
  <1>4. Atual(p)' = a
    BY <1>0 DEF Atual
  <1>5. DespCerto(p)'
    <2>1. \A b \in desp'[p].lote : ~Fresca(b)'
      BY <1>0, <1>1, <1>2 DEF DespCerto, Fresca
    <2>2. desp'[p].entregou => Avisada(a)'
      <3>1. CASE sucesso
        BY <1>0, <3>1 DEF Avisada, Nunca
      <3>2. CASE ~sucesso
        BY <1>0, <1>2, <1>3, <3>2, AvisoFica DEF DespCerto
      <3>. QED BY <3>1, <3>2
    <2>3. ASSUME alerta'[a].status = "open"
          PROVE  Fieis(a, desp[p].lin)'
      <3>1. Fieis(a, desp[p].lin)
        BY <1>0, <1>1, <1>2, <2>3 DEF DespCerto
      <3>2. ASSUME NEW x \in Canais
            PROVE  /\ desp'[p].lin[x].status = "enviado" => envio'[a][x] # Nunca
                   /\ desp'[p].lin[x].status # "dispensado"
        BY <1>0, <3>1 DEF Fieis, Nunca
      <3>. QED BY <3>2 DEF Fieis
    <2>4. /\ canal'[p].ativos # {}
          /\ \A x \in canal'[p].ativos : desp'[p].lin[x].status # "ausente"
      <3>1. canal[p].ativos \subseteq Canais
        BY ConstantesOk DEF EntregaInv, TypeOK, Canal
      <3>. QED BY <1>0, <1>2, <3>1 DEF DespCerto
    <2>. QED BY <1>0, <1>4, <2>1, <2>2, <2>3, <2>4 DEF DespCerto, EmMaos
  <1>. QED BY <1>0, <1>1, <1>3, <1>5, PassoDesp

\* What the conclusion of a row changes, with the row named.
LEMMA FormaConsolidar ==
  ASSUME TypeOK, NEW p \in Processos, Consolidar(p)
  PROVE  \E a \in Ids, gravou \in BOOLEAN :
           /\ a = Atual(p) /\ a \in desp[p].lote /\ desp[p].pc = "consolida"
           /\ \A b \in Ids : b # a => alerta'[b] = alerta[b]
           /\ gravou =>
                /\ Gravada(a)
                /\ alerta'[a].chave = alerta[a].chave /\ alerta'[a].rec = alerta[a].rec
                /\ alerta'[a].status = alerta[a].status
                /\ alerta'[a].delivery = Consolidado(desp[p].lin, canal[p].ativos)
                /\ IF desp[p].entregou THEN alerta'[a].notif # Nunca /\ alerta'[a].notif =< Duracao
                   ELSE alerta'[a].notif = alerta[a].notif
           /\ ~gravou => alerta'[a] = alerta[a] /\ (BancoFalha \/ ~Gravada(a))
           /\ \A q \in Processos : canal'[q].ativos = canal[q].ativos
           /\ desp' = [desp EXCEPT ![p] = Proximo(p)]
  <1>. DEFINE t         == desp[p].t
              lin       == desp[p].lin
              delivery  == Consolidado(lin, canal[p].ativos)
              devidas   == {x \in canal[p].ativos : lin[x].status = "pendente"}
              pendentes == {lin[c].prox : c \in devidas}
              notif     == IF ~desp[p].entregou THEN alerta[Atual(p)].notif
                           ELSE IF t < Cooldown THEN t ELSE Cooldown
  <1>0. /\ alerta \in [Ids -> Alerta] /\ canal \in [Processos -> Canal]
        /\ desp[p].pc = "consolida" /\ t \in 0..Duracao
    BY ConstantesOk DEF TypeOK, Consolidar, Desp, Registro
  <1>1. PICK a \in Ids : a \in desp[p].lote /\ a = Atual(p)
    BY <1>0, AtualNoLote
  <1>2. PICK n : n = notif
    OBVIOUS
  <1>3. IF desp[p].entregou THEN n # Nunca /\ n =< Duracao ELSE n = alerta[a].notif
    BY <1>0, <1>1, <1>2, ConstantesOk DEF Nunca
  <1>p. PICK prox : prox = IF delivery = "pendente" THEN Falta(Min(pendentes), t) ELSE 0
    OBVIOUS
  <1>4. PICK ok \in Resposta :
          IF ok /\ Gravada(a)
          THEN /\ alerta' = [alerta EXCEPT ![a] =
                    [@ EXCEPT !.delivery = Consolidado(desp[p].lin, canal[p].ativos),
                              !.prox = prox, !.notif = n]]
               /\ canal' \in Reverificado(p, a, Consolidado(desp[p].lin, canal[p].ativos))
          ELSE UNCHANGED <<alerta, canal>>
    BY <1>1, <1>2, <1>p DEF Consolidar
  <1>. HIDE DEF notif, delivery, pendentes, lin
  <1>5. \A q \in Processos : canal'[q].ativos = canal[q].ativos
    <2>1. CASE UNCHANGED canal
      BY <2>1
    <2>2. CASE canal' \in Reverificado(p, a, Consolidado(desp[p].lin, canal[p].ativos))
      <3>1. PICK quem :
              canal' = [q \in Processos |-> [canal[q] EXCEPT !.verificado =
                          IF q \in quem THEN @ \cup {a} ELSE @ \ {a}]]
        BY <2>2 DEF Reverificado
      <3>. QED BY <1>0, <3>1 DEF Canal
    <2>. QED BY <1>4, <2>1, <2>2
  <1>6. desp' = [desp EXCEPT ![p] = Proximo(p)]
    BY DEF Consolidar
  <1>7. PICK gravou \in BOOLEAN : gravou = (ok /\ Gravada(a))
    OBVIOUS
  <1>8. ASSUME gravou
        PROVE  /\ Gravada(a)
               /\ alerta'[a].chave = alerta[a].chave /\ alerta'[a].rec = alerta[a].rec
               /\ alerta'[a].status = alerta[a].status
               /\ alerta'[a].delivery = Consolidado(desp[p].lin, canal[p].ativos)
               /\ alerta'[a].notif = n
               /\ \A b \in Ids : b # a => alerta'[b] = alerta[b]
    <2>1. PICK e : e = Consolidado(desp[p].lin, canal[p].ativos)
      OBVIOUS
    <2>2. alerta' = [alerta EXCEPT ![a] = [@ EXCEPT !.delivery = e, !.prox = prox, !.notif = n]]
      BY <1>4, <1>7, <1>8, <2>1
    <2>. QED BY <1>0, <1>7, <1>8, <2>1, <2>2 DEF Alerta
  <1>9. ~gravou => alerta' = alerta /\ (BancoFalha \/ ~Gravada(a))
    BY <1>4, <1>7 DEF Resposta
  <1>10. /\ gravou =>
              /\ Gravada(a)
              /\ alerta'[a].chave = alerta[a].chave /\ alerta'[a].rec = alerta[a].rec
              /\ alerta'[a].status = alerta[a].status
              /\ alerta'[a].delivery = Consolidado(desp[p].lin, canal[p].ativos)
              /\ IF desp[p].entregou THEN alerta'[a].notif # Nunca /\ alerta'[a].notif =< Duracao
                 ELSE alerta'[a].notif = alerta[a].notif
         /\ ~gravou => alerta'[a] = alerta[a] /\ (BancoFalha \/ ~Gravada(a))
         /\ \A b \in Ids : b # a => alerta'[b] = alerta[b]
    BY <1>3, <1>8, <1>9
  <1>. WITNESS a \in Ids, gravou \in BOOLEAN
  <1>. QED BY <1>0, <1>1, <1>5, <1>6, <1>10

\* a row is concluded as sent only by a line that is
LEMMA ConsolidadoEnviado ==
  ASSUME NEW lin \in [Canais -> Linha], NEW ativos \in SUBSET Canais, ativos # {},
         \A c \in ativos : lin[c].status \notin {"ausente", "dispensado"},
         Consolidado(lin, ativos) = "enviado"
  PROVE  \E c \in ativos : lin[c].status = "enviado"
  <1>1. \A c \in ativos : lin[c].status \in Entregas \cup {"ausente"}
    BY DEF Linha
  <1>2. \A c \in ativos : lin[c].status \notin {"pendente", "sem_canal", "falhou"}
    BY DEF Consolidado
  <1>. QED BY <1>1, <1>2 DEF Entregas

LEMMA EntregaConsolidar ==
  ASSUME EntregaInv, TypeOK', NEW p \in Processos, Consolidar(p)
  PROVE  EntregaInv'
  <1>0. PICK a \in Ids, gravou \in BOOLEAN :
           /\ a = Atual(p) /\ a \in desp[p].lote /\ desp[p].pc = "consolida"
           /\ \A b \in Ids : b # a => alerta'[b] = alerta[b]
           /\ gravou =>
                /\ alerta'[a].chave = alerta[a].chave /\ alerta'[a].rec = alerta[a].rec
                /\ alerta'[a].status = alerta[a].status
                /\ alerta'[a].delivery = Consolidado(desp[p].lin, canal[p].ativos)
                /\ ~desp[p].entregou => alerta'[a].notif = alerta[a].notif
           /\ ~gravou => alerta'[a] = alerta[a]
           /\ \A q \in Processos : canal'[q].ativos = canal[q].ativos
           /\ desp' = [desp EXCEPT ![p] = Proximo(p)]
    BY FormaConsolidar DEF EntregaInv
  <1>1. UNCHANGED <<linha, envio, det>>
    BY DEF Consolidar, externo
  <1>2. ~Fresca(a) /\ DespCerto(p) /\ EmMaos(p)
    BY <1>0 DEF EntregaInv, DespCerto, EmMaos
  <1>3. ASSUME gravou, alerta[a].status = "open",
               Consolidado(desp[p].lin, canal[p].ativos) = "enviado"
        PROVE  Avisada(a)
    <2>1. Fieis(a, desp[p].lin)
      BY <1>0, <1>2, <1>3 DEF DespCerto
    <2>2. /\ desp[p].lin \in [Canais -> Linha] /\ canal[p].ativos \in SUBSET Canais
          /\ canal[p].ativos # {}
      BY <1>2, ConstantesOk DEF EntregaInv, TypeOK, Desp, Registro, Canal, DespCerto
    <2>3. \A c \in canal[p].ativos : desp[p].lin[c].status \notin {"ausente", "dispensado"}
      BY <1>2, <2>1, <2>2 DEF DespCerto, Fieis
    <2>4. PICK c \in canal[p].ativos : desp[p].lin[c].status = "enviado"
      BY <1>3, <2>2, <2>3, ConsolidadoEnviado
    <2>. QED BY <2>1, <2>2, <2>4 DEF Fieis, Avisada
  <1>4. desp[p].entregou => Avisada(a)
    BY <1>0, <1>2 DEF DespCerto
  <1>5. ASSUME NEW b \in Ids PROVE Anda(b)
    <2>1. CASE b # a \/ ~gravou
      BY <1>0, <1>1, <2>1, AndaAlerta
    <2>2. CASE b = a /\ gravou
      BY <1>0, <1>1, <1>2, <1>3, <1>4, <2>2, AndaAlerta DEF Gravada
    <2>. QED BY <2>1, <2>2
  <1>6. /\ desp'[p] = Proximo(p)
        /\ \A q \in Processos : q # p => desp'[q] = desp[q]
    BY <1>0 DEF EntregaInv, TypeOK
  <1>7. DespCerto(p)'
    BY <1>5, <1>6, ProximoSolto, DespSolta DEF EntregaInv
  <1>. QED BY <1>0, <1>1, <1>5, <1>6, <1>7, PassoDesp DEF Mesmo

LEMMA EntregaDespachante ==
  ASSUME EntregaInv, TypeOK', NEW p \in Processos, Despachante(p)
  PROVE  EntregaInv'
  BY EntregaFechar, EntregaDispensarLer, EntregaDispensarAlertas, EntregaDispensarLinhas,
     EntregaRetomar, EntregaClaim, EntregaGarantir, EntregaPreparar, EntregaEntregar, EntregaConsolidar
     DEF Despachante

-----------------------------------------------------------------------------
LEMMA EntregaInicial == Init => EntregaInv
  <1>. SUFFICES ASSUME Init PROVE EntregaInv
    OBVIOUS
  <1>1. TypeOK
    BY TipoInicial
  <1>2. ASSUME NEW a \in Ids
        PROVE  LinhaCerta(a) /\ alerta[a].status = "livre"
    <2>1. /\ alerta[a].status = "livre" /\ alerta[a].delivery = "pendente"
          /\ alerta[a].notif = Nunca
      BY DEF Init, Vazia, Nova
    <2>2. \A c \in Canais : linha[a][c].status = "ausente" /\ envio[a][c] = Nunca
      BY DEF Init, SemLinhas, LinhaAusente
    <2>. QED BY <2>1, <2>2 DEF LinhaCerta, Gravada
  <1>3. \A d \in Detectores : det[d].pc = "ocioso"
    BY DEF Init, DetOcioso
  <1>4. \A p \in Processos : desp[p].pc = "inicia" /\ desp[p].lote = {}
    BY DEF Init, DespInicio
  <1>5. RecuperacaoAnunciada
    BY <1>2 DEF RecuperacaoAnunciada, Gravada
  <1>. QED BY <1>1, <1>2, <1>3, <1>4, <1>5
           DEF EntregaInv, DetCerto, DespCerto, EmMaos, AberturasDistintas, LivresNoFim

LEMMA EntregaPasso == EntregaInv /\ [Next]_vars => EntregaInv'
  <1>. SUFFICES ASSUME EntregaInv, [Next]_vars PROVE EntregaInv'
    OBVIOUS
  <1>0. TypeOK'
    BY TipoPasso DEF EntregaInv
  <1>1. CASE UNCHANGED vars
    <2>1. UNCHANGED <<alerta, linha, envio, det, desp, canal>>
      BY <1>1 DEF vars
    <2>. QED BY <1>0, <2>1, AndaAlerta, PassoComum DEF Mesmo
  <1>2. CASE Next
    BY <1>0, <1>2, EntregaDetector, EntregaOperador, EntregaDespachante, EntregaVerificar,
       EntregaQueda, EntregaPrune, EntregaTick DEF Next
  <1>. QED BY <1>1, <1>2

\* An alert nobody is to look at again was really delivered: whatever the processes,
\* the crashes, the failures of the database and the order of detectors, operators,
\* dispatchers and retention, an open row is "enviado" only if some channel accepted a
\* message of it.
THEOREM EnviadoSempreAvisado == Spec => []EnviadoFoiAvisado
  <1>1. EntregaInv => EnviadoFoiAvisado
    BY DEF EntregaInv, LinhaCerta, EnviadoFoiAvisado
  <1>. QED BY <1>1, EntregaInicial, EntregaPasso, PTL DEF Spec

\* No recovery is announced of a problem nobody was told about: a row Recovered
\* inserts has an earlier row of its key that some channel accepted.
THEOREM RecuperacaoSempreAnunciada == Spec => []RecuperacaoAnunciada
  <1>1. EntregaInv => RecuperacaoAnunciada
    BY DEF EntregaInv
  <1>. QED BY <1>1, EntregaInicial, EntregaPasso, PTL DEF Spec

-----------------------------------------------------------------------------
(* One process that neither crashes nor loses a write.                      *)

UmProcesso == \A p, q \in Processos : p = q

\* The rows of a batch are still owed, nothing resumed was dispensed, and a message goes
\* to an active channel only.
DespCala(p) ==
  /\ desp[p].pc \in {"inicia", "dorme", "dispensa", "dispensa_alertas", "dispensa_linhas"} =>
       desp[p].caso \in {"dispensado", "enviado"}
  /\ desp[p].pc \notin {"prepara", "envia", "consolida"} => desp[p].lote = {}
  /\ \A a \in desp[p].lote : Gravada(a) => alerta[a].delivery = "pendente"
  /\ desp[p].pc = "retoma_alertas" =>
       \A a \in desp[p].ids :
         ~Fresca(a) /\ ~alerta[a].rec /\ (Gravada(a) => alerta[a].delivery # "dispensado")
  /\ desp[p].pc = "envia" => desp[p].faltam \subseteq canal[p].ativos

\* the acceptance of a message of row a is still in a dispatcher's memory only
PorContar(a) ==
  \E p \in Processos : EmMaos(p) /\ a = Atual(p) /\ desp[p].entregou

\* A dispensed row was never accepted, and an acceptance is on record in
\* last_notified_at or about to be.
LinhaCala(a) ==
  /\ alerta[a].rec => alerta[a].status # "open"
  /\ alerta[a].status = "open" => alerta[a].delivery # "dispensado"
  /\ Gravada(a) /\ alerta[a].delivery = "dispensado" => ~Avisada(a)
  /\ Gravada(a) /\ Avisada(a) => alerta[a].notif # Nunca \/ PorContar(a)
  /\ \A p \in Processos, c \in Canais : envio[a][c] # Nunca => c \in canal[p].ativos

CalaInv ==
  /\ EntregaInv
  /\ \A p \in Processos : DespCala(p)
  /\ \A a \in Ids : LinhaCala(a)

-----------------------------------------------------------------------------
(* What one step may make of one row.                                       *)

\* neither what the row is nor whether it was announced changes
Igual(a) ==
  /\ alerta'[a].rec = alerta[a].rec
  /\ alerta'[a].notif = Nunca <=> alerta[a].notif = Nunca

\* nothing its reader sees changes
Fica(a) ==
  /\ Igual(a) /\ alerta'[a].status = alerta[a].status
  /\ alerta'[a].delivery = alerta[a].delivery

\* resolved by Enqueue, Recovered, fecharDuplicados or an operator
Fecha(a) ==
  /\ Igual(a) /\ alerta'[a].delivery = alerta[a].delivery
  /\ Viva(a) /\ alerta'[a].status = "resolved"

\* acknowledged
Reconhece(a) ==
  /\ Igual(a) /\ alerta'[a].delivery = alerta[a].delivery
  /\ Gravada(a) /\ alerta'[a].status = "acked"
  /\ alerta[a].status = "resolved" => a \in tardio'

\* put back in the queue
Volta(a) ==
  /\ Igual(a) /\ alerta'[a].status = alerta[a].status
  /\ Gravada(a) /\ ~alerta[a].rec /\ alerta[a].delivery # "dispensado"
  /\ alerta'[a].delivery = "pendente"

\* settled by dispensarResolvidos
Liquida(a) ==
  /\ Igual(a) /\ alerta'[a].status = "resolved"
  /\ alerta[a].status = "resolved" /\ alerta[a].delivery = "pendente" /\ ~alerta[a].rec
  /\ \/ alerta'[a].delivery = "dispensado" /\ ~Avisada(a)
     \/ alerta'[a].delivery = "enviado" /\ Avisada(a)
  /\ \A p \in Processos : desp[p].pc = "dispensa_alertas"

\* committed
Nasce(a) ==
  /\ Fresca(a)
  /\ alerta'[a].delivery = "pendente" /\ alerta'[a].notif = Nunca
  /\ \/ alerta'[a].status = "open" /\ ~alerta'[a].rec
     \/ alerta'[a].status = "resolved" /\ alerta'[a].rec

\* pruned
Some(a) ==
  /\ Gravada(a) /\ alerta[a].status # "open"
  /\ alerta'[a].status = "apagado" /\ alerta'[a].rec = alerta[a].rec

\* not visible before nor after
Fora(a) == Fresca(a) /\ alerta'[a].status \in {"gravando", "apagado"}

Comum(a) ==
  /\ \A c \in Canais : envio'[a][c] = Nunca <=> envio[a][c] = Nunca
  /\ \/ Fica(a) \/ Fecha(a) \/ Reconhece(a) \/ Volta(a) \/ Liquida(a)
     \/ Nasce(a) \/ Some(a) \/ Fora(a)

MesmoTudo(p) == Mesmo(p) /\ desp'[p].caso = desp[p].caso

LEMMA ComumAvisada ==
  ASSUME NEW a, Comum(a)
  PROVE  Avisada(a)' <=> Avisada(a)
  BY DEF Comum, Avisada

LEMMA ComumLinha ==
  ASSUME EntregaInv, NEW a \in Ids, LinhaCala(a), Comum(a),
         \A p \in Processos : /\ canal'[p].ativos = canal[p].ativos
                              /\ Mesmo(p) \/ ~EmMaos(p)
  PROVE  LinhaCala(a)'
  <1>1. Avisada(a)' <=> Avisada(a)
    BY ComumAvisada
  <1>2. PorContar(a) => PorContar(a)'
    <2>1. ASSUME NEW p \in Processos, EmMaos(p), a = Atual(p), desp[p].entregou
          PROVE  EmMaos(p)' /\ a = Atual(p)' /\ desp'[p].entregou
      BY <2>1 DEF Mesmo, EmMaos, Atual
    <2>. QED BY <2>1 DEF PorContar
  <1>3. \A p \in Processos, c \in Canais : envio'[a][c] # Nunca => c \in canal'[p].ativos
    BY DEF Comum, LinhaCala
  <1>4. Fresca(a) => ~Avisada(a)
    BY DEF EntregaInv, LinhaCerta, Avisada
  <1>5. CASE Fica(a) \/ Fecha(a) \/ Reconhece(a)
    BY <1>1, <1>2, <1>3, <1>5 DEF Fica, Fecha, Reconhece, Igual, LinhaCala, Gravada, Viva
  <1>6. CASE Volta(a) \/ Some(a) \/ Fora(a) \/ Nasce(a)
    BY <1>1, <1>2, <1>3, <1>4, <1>6
       DEF Volta, Some, Fora, Nasce, Igual, LinhaCala, Gravada
  <1>7. CASE Liquida(a)
    BY <1>1, <1>2, <1>3, <1>7 DEF Liquida, Igual, LinhaCala, Gravada
  <1>. QED BY <1>5, <1>6, <1>7 DEF Comum

LEMMA ComumDesp ==
  ASSUME EntregaInv, \A a \in Ids : Comum(a),
         NEW p \in Processos, DespCala(p), MesmoTudo(p)
  PROVE  DespCala(p)'
  <1>0. /\ desp[p].ids \subseteq Ids /\ desp[p].lote \subseteq Ids
        /\ \A a \in desp[p].lote : ~Fresca(a)
    BY DEF EntregaInv, TypeOK, Desp, Registro, DespCerto
  <1>1. ASSUME NEW a \in desp[p].lote, Gravada(a)'
        PROVE  alerta'[a].delivery = "pendente"
    <2>1. ~Fresca(a) /\ Comum(a)
      BY <1>0
    <2>2. ~Liquida(a)
      BY DEF Liquida, DespCala
    <2>3. Gravada(a) => alerta[a].delivery = "pendente"
      BY DEF DespCala
    <2>. QED BY <1>1, <2>1, <2>2, <2>3
             DEF Comum, Fica, Fecha, Reconhece, Volta, Nasce, Some, Fora, Gravada, Viva
  <1>2. ASSUME desp[p].pc = "retoma_alertas", NEW a \in desp[p].ids
        PROVE  /\ ~Fresca(a)' /\ ~alerta'[a].rec
               /\ Gravada(a)' => alerta'[a].delivery # "dispensado"
    <2>1. /\ ~Fresca(a) /\ ~alerta[a].rec /\ Comum(a)
          /\ Gravada(a) => alerta[a].delivery # "dispensado"
      BY <1>0, <1>2 DEF DespCala
    <2>2. ~Liquida(a)
      BY <1>2 DEF Liquida
    <2>. QED BY <2>1, <2>2 DEF Comum, Fica, Fecha, Reconhece, Volta, Nasce, Some, Fora,
                               Igual, Gravada, Fresca, Viva
  <1>. QED BY <1>1, <1>2 DEF DespCala, MesmoTudo, Mesmo

\* A step that moves the rows in these ways keeps the invariant.
LEMMA PassoCala ==
  ASSUME CalaInv, EntregaInv', \A a \in Ids : Comum(a),
         \A p \in Processos :
           /\ canal'[p].ativos = canal[p].ativos
           /\ MesmoTudo(p) \/ (~EmMaos(p) /\ DespCala(p)')
  PROVE  CalaInv'
  <1>1. \A a \in Ids : LinhaCala(a)'
    BY ComumLinha DEF CalaInv, MesmoTudo
  <1>2. \A p \in Processos : DespCala(p)'
    BY ComumDesp DEF CalaInv
  <1>. QED BY <1>1, <1>2 DEF CalaInv

LEMMA ComumParada ==
  ASSUME UNCHANGED envio, NEW a, alerta'[a] = alerta[a]
  PROVE  Comum(a)
  BY DEF Comum, Fica, Igual

LEMMA ComumFecha ==
  ASSUME TypeOK, UNCHANGED envio, NEW S, NEW a \in Ids, alerta'[a] = Resolvidas(S)[a]
  PROVE  Comum(a)
  <1>0. alerta[a] \in Alerta
    BY DEF TypeOK
  <1>1. CASE alerta'[a] = alerta[a]
    BY <1>1, ComumParada
  <1>2. CASE Viva(a) /\ alerta'[a] = [alerta[a] EXCEPT !.status = "resolved"]
    <2>1. /\ alerta'[a].rec = alerta[a].rec /\ alerta'[a].notif = alerta[a].notif
          /\ alerta'[a].status = "resolved" /\ alerta'[a].delivery = alerta[a].delivery
      BY <1>0, <1>2 DEF Alerta
    <2>. QED BY <1>2, <2>1 DEF Comum, Fecha, Igual
  <1>. QED BY <1>1, <1>2 DEF Resolvidas

\* a row that only goes back to the queue
LEMMA ComumVolta ==
  ASSUME TypeOK, UNCHANGED envio, NEW a \in Ids, Gravada(a), ~alerta[a].rec,
         alerta[a].delivery # "dispensado",
         \/ alerta'[a] = Devolvida(alerta[a])
         \/ alerta'[a] = [Devolvida(alerta[a]) EXCEPT !.visto = 0]
  PROVE  Comum(a)
  <1>0. alerta[a] \in Alerta
    BY DEF TypeOK
  <1>1. /\ alerta'[a].rec = alerta[a].rec /\ alerta'[a].notif = alerta[a].notif
        /\ alerta'[a].status = alerta[a].status /\ alerta'[a].delivery = "pendente"
    BY <1>0 DEF Alerta, Devolvida
  <1>. QED BY <1>1 DEF Comum, Volta, Igual

\* A committed row somebody was told of, and the renotified one in particular, is not
\* one dispensed in silence.
LEMMA ComumDetector ==
  ASSUME ~BancoFalha, CalaInv, NEW d \in Detectores, Detector(d)
  PROVE  \A a \in Ids : Comum(a)
  <1>0. /\ TypeOK /\ DetCerto(d) /\ alerta \in [Ids -> Alerta] /\ Resposta = {TRUE}
    BY DEF CalaInv, EntregaInv, TypeOK, Resposta
  <1>1. envio' = envio
    BY DEF Detector, DetectorContinua, EnqueueVivo, Renotificar, ReabrirLinhas, UltimoAviso,
           CriarAlerta, ConfirmarAlerta, RecoveredLer, RecoveredResolver, RecoveredAnunciar,
           externo
  <1>2. CASE alerta' = alerta
    BY <1>1, <1>2, ComumParada
  <1>3. CASE Renotificar(d)
    <2>1. ASSUME NEW a \in Ids PROVE Comum(a)
      <3>1. CASE a = det[d].id /\ Gravada(a) /\ det[d].avisar
        <4>1. Avisada(a) /\ ~alerta[a].rec /\ LinhaCala(a)
          BY <1>0, <1>3, <3>1 DEF Renotificar, DetCerto, CalaInv
        <4>2. alerta'[a] = [Devolvida(alerta[a]) EXCEPT !.visto = 0]
          BY <1>0, <1>3, <3>1 DEF Renotificar
        <4>. QED BY <1>0, <1>1, <3>1, <4>1, <4>2, ComumVolta DEF LinhaCala
      <3>2. CASE a = det[d].id /\ Gravada(a) /\ ~det[d].avisar
        <4>1. alerta'[a] = [alerta[a] EXCEPT !.visto = 0]
          BY <1>0, <1>3, <3>2 DEF Renotificar
        <4>2. /\ alerta'[a].rec = alerta[a].rec /\ alerta'[a].notif = alerta[a].notif
              /\ alerta'[a].status = alerta[a].status
              /\ alerta'[a].delivery = alerta[a].delivery
          BY <1>0, <4>1 DEF Alerta
        <4>. QED BY <1>1, <4>2 DEF Comum, Fica, Igual
      <3>3. CASE ~(a = det[d].id /\ Gravada(a))
        <4>1. alerta'[a] = alerta[a]
          BY <1>0, <1>3, <3>3 DEF Renotificar
        <4>. QED BY <1>1, <4>1, ComumParada
      <3>. QED BY <3>1, <3>2, <3>3
    <2>. QED BY <2>1
  <1>4. CASE CriarAlerta(d)
    <2>1. PICK novo \in Ids : novo = Min(Livres) /\ alerta[novo].status = "livre"
      BY <1>4, PrimeiraLivre DEF CriarAlerta, CalaInv
    <2>2. alerta' = [alerta EXCEPT ![novo] = Nova(ChaveDe[d], FALSE, "gravando", det[d].prox)]
      BY <1>4, <2>1 DEF CriarAlerta
    <2>3. ASSUME NEW a \in Ids PROVE Comum(a)
      <3>1. CASE a = novo
        <4>1. alerta'[a].status = "gravando"
          BY <1>0, <2>2, <3>1 DEF Nova
        <4>. QED BY <1>1, <2>1, <3>1, <4>1 DEF Comum, Fora, Fresca
      <3>2. CASE a # novo
        BY <1>0, <1>1, <2>2, <3>2, ComumParada
      <3>. QED BY <3>1, <3>2
    <2>. QED BY <2>3
  <1>5. CASE ConfirmarAlerta(d)
    <2>1. PICK i \in Ids : /\ i = det[d].id /\ alerta[i].status = "gravando"
                           /\ ~alerta[i].rec /\ LinhaCerta(i)
      BY <1>0, <1>5 DEF ConfirmarAlerta, DetCerto, CalaInv, EntregaInv
    <2>2. alerta' = [Resolvidas(det[d].ids) EXCEPT ![i].status = "open"]
      BY <1>0, <1>5, <2>1 DEF ConfirmarAlerta
    <2>3. Resolvidas(det[d].ids) \in [Ids -> Alerta]
      BY <1>0, ResolvidasTipo
    <2>4. ASSUME NEW a \in Ids PROVE Comum(a)
      <3>1. CASE a = i
        <4>1. Resolvidas(det[d].ids)[i] = alerta[i]
          BY <2>1 DEF Resolvidas, Viva
        <4>2. alerta'[a] = [alerta[i] EXCEPT !.status = "open"]
          BY <2>2, <2>3, <3>1, <4>1
        <4>3. /\ alerta'[a].rec = alerta[i].rec /\ alerta'[a].notif = alerta[i].notif
              /\ alerta'[a].status = "open" /\ alerta'[a].delivery = alerta[i].delivery
          BY <1>0, <4>2 DEF Alerta
        <4>. QED BY <1>1, <2>1, <3>1, <4>3 DEF Comum, Nasce, Fresca, LinhaCerta
      <3>2. CASE a # i
        <4>1. alerta'[a] = Resolvidas(det[d].ids)[a]
          BY <2>2, <2>3, <3>2
        <4>. QED BY <1>0, <1>1, <4>1, ComumFecha
      <3>. QED BY <3>1, <3>2
    <2>. QED BY <2>4
  <1>6. CASE RecoveredResolver(d)
    <2>1. alerta' = Resolvidas(VivasDe(ChaveDe[d]))
      BY <1>0, <1>6 DEF RecoveredResolver
    <2>. QED BY <1>0, <1>1, <2>1, ComumFecha
  <1>7. CASE RecoveredAnunciar(d)
    <2>1. PICK novo \in Ids : novo = Min(Livres) /\ alerta[novo].status = "livre"
      BY <1>7, PrimeiraLivre DEF RecoveredAnunciar, CalaInv
    <2>2. alerta' = [alerta EXCEPT ![novo] = Nova(ChaveDe[d], TRUE, "resolved", 0)]
      BY <1>0, <1>7, <2>1 DEF RecoveredAnunciar
    <2>3. ASSUME NEW a \in Ids PROVE Comum(a)
      <3>1. CASE a = novo
        <4>1. /\ alerta'[a].status = "resolved" /\ alerta'[a].rec
              /\ alerta'[a].delivery = "pendente" /\ alerta'[a].notif = Nunca
          BY <1>0, <2>2, <3>1 DEF Nova
        <4>. QED BY <1>1, <2>1, <3>1, <4>1 DEF Comum, Nasce, Fresca
      <3>2. CASE a # novo
        BY <1>0, <1>1, <2>2, <3>2, ComumParada
      <3>. QED BY <3>1, <3>2
    <2>. QED BY <2>3
  <1>. QED BY <1>2, <1>3, <1>4, <1>5, <1>6, <1>7
           DEF Detector, DetectorContinua, EnqueueVivo, ReabrirLinhas, UltimoAviso,
               RecoveredLer, tabelas

LEMMA ComumOperador ==
  ASSUME CalaInv, NEW o \in Operadores, AlertDaRota(o) \/ AlertGravar(o)
  PROVE  \A a \in Ids : Comum(a)
  <1>0. alerta \in [Ids -> Alerta] /\ op[o] \in Op /\ envio' = envio
    BY DEF CalaInv, EntregaInv, TypeOK, AlertDaRota, AlertGravar, externo
  <1>1. ASSUME NEW a \in Ids PROVE Comum(a)
    <2>1. \/ alerta'[a] = alerta[a]
          \/ /\ Gravada(a) /\ op[o].verbo \in {"acked", "resolved"}
             /\ alerta'[a] = [alerta[a] EXCEPT !.status = op[o].verbo]
             /\ op[o].verbo = "acked" /\ alerta[a].status = "resolved" => a \in tardio'
      BY <1>0 DEF AlertDaRota, AlertGravar, tabelas, Op, OpOcioso
    <2>2. CASE alerta'[a] = alerta[a]
      BY <1>0, <2>2, ComumParada
    <2>3. CASE /\ Gravada(a) /\ op[o].verbo \in {"acked", "resolved"}
               /\ alerta'[a] = [alerta[a] EXCEPT !.status = op[o].verbo]
               /\ op[o].verbo = "acked" /\ alerta[a].status = "resolved" => a \in tardio'
      <3>1. /\ alerta'[a].rec = alerta[a].rec /\ alerta'[a].notif = alerta[a].notif
            /\ alerta'[a].status = op[o].verbo /\ alerta'[a].delivery = alerta[a].delivery
        BY <1>0, <2>3 DEF Alerta
      <3>. QED BY <1>0, <2>3, <3>1 DEF Comum, Fica, Fecha, Reconhece, Igual, Gravada, Viva
    <2>. QED BY <2>1, <2>2, <2>3
  <1>. QED BY <1>1

LEMMA ComumPrune ==
  ASSUME CalaInv, PruneAlerts
  PROVE  \A a \in Ids : Comum(a)
  <1>0. envio' = envio
    BY DEF PruneAlerts, externo
  <1>1. ASSUME NEW a \in Ids, Podavel(a) PROVE Comum(a)
    <2>1. alerta'[a] = Apagada(a)
      BY <1>1 DEF PruneAlerts
    <2>2. Apagada(a).status = "apagado" /\ Apagada(a).rec = alerta[a].rec
      BY DEF Apagada, Nova
    <2>. QED BY <1>0, <1>1, <2>1, <2>2 DEF Comum, Some, Podavel
  <1>2. ASSUME NEW a \in Ids, ~Podavel(a) PROVE Comum(a)
    <2>1. alerta'[a] = alerta[a]
      BY <1>2 DEF PruneAlerts
    <2>. QED BY <1>0, <2>1, ComumParada
  <1>. QED BY <1>1, <1>2

LEMMA ComumTick ==
  ASSUME CalaInv, Tick
  PROVE  \A a \in Ids : Comum(a)
  <1>0. alerta \in [Ids -> Alerta] /\ envio \in [Ids -> [Canais -> Nunca..Cooldown]]
    BY DEF CalaInv, EntregaInv, TypeOK
  <1>1. ASSUME NEW a \in Ids PROVE Comum(a)
    <2>1. \A c \in Canais : envio'[a][c] = Nunca <=> envio[a][c] = Nunca
      <3>1. ASSUME NEW c \in Canais PROVE envio'[a][c] = Nunca <=> envio[a][c] = Nunca
        <4>1. envio[a][c] \in Nunca..Cooldown /\ envio'[a][c] = Envelhece(envio[a][c], Cooldown)
          BY <1>0 DEF Tick
        <4>. QED BY <4>1 DEF Envelhece, Nunca
      <3>. QED BY <3>1
    <2>2. CASE ~Gravada(a)
      <3>1. alerta'[a] = alerta[a]
        BY <2>2 DEF Tick
      <3>. QED BY <2>1, <3>1 DEF Comum, Fica, Igual
    <2>3. CASE Gravada(a)
      <3>1. PICK prox, visto, idade :
              alerta'[a] = [alerta[a] EXCEPT !.prox = prox, !.visto = visto,
                              !.notif = Envelhece(@, Cooldown), !.idade = idade]
        BY <2>3 DEF Tick
      <3>2. /\ alerta'[a].rec = alerta[a].rec /\ alerta'[a].status = alerta[a].status
            /\ alerta'[a].delivery = alerta[a].delivery
            /\ alerta'[a].notif = Envelhece(alerta[a].notif, Cooldown)
            /\ alerta[a].notif \in Nunca..Cooldown
        BY <1>0, <3>1 DEF Alerta
      <3>. QED BY <2>1, <3>2 DEF Comum, Fica, Igual, Envelhece, Nunca
    <2>. QED BY <2>2, <2>3
  <1>. QED BY <1>1

\* The steps of the others leave the dispatcher as it is.
LEMMA MesmoTudoAlheio ==
  ASSUME TypeOK, NEW p \in Processos,
         \/ UNCHANGED <<desp, canal>>
         \/ Tick
         \/ \E q \in Processos : VerificarCanal(q)
  PROVE  MesmoTudo(p)
  <1>0. desp \in [Processos -> Desp] /\ desp[p] \in Registro
    BY DEF TypeOK, Desp
  <1>1. CASE UNCHANGED <<desp, canal>>
    BY <1>1 DEF MesmoTudo, Mesmo
  <1>2. CASE Tick
    <2>1. desp'[p] = desp[p] \/ desp'[p] = [desp[p] EXCEPT !.t = @ + 1]
      BY <1>2 DEF Tick
    <2>2. canal' = canal
      BY <1>2 DEF Tick
    <2>. QED BY <1>0, <2>1, <2>2 DEF MesmoTudo, Mesmo, Registro
  <1>3. ASSUME NEW q \in Processos, VerificarCanal(q) PROVE MesmoTudo(p)
    <2>1. PICK bem \in BOOLEAN : canal' = [canal EXCEPT ![q] = Marcado(q, bem)]
      BY <1>3 DEF VerificarCanal
    <2>2. canal'[p].ativos = canal[p].ativos
      BY <2>1, MarcadoMesmo
    <2>3. desp' = Marcando(q, desp)
      BY <1>3 DEF VerificarCanal
    <2>. QED BY <1>0, <2>2, <2>3, MarcandoMesmo DEF MesmoTudo, Mesmo
  <1>. QED BY <1>1, <1>2, <1>3

LEMMA CalaAlheio ==
  ASSUME ~BancoFalha, CalaInv, EntregaInv',
         \/ \E d \in Detectores : Detector(d)
         \/ \E o \in Operadores : AlertDaRota(o) \/ AlertGravar(o)
         \/ \E p \in Processos : VerificarCanal(p)
         \/ PruneAlerts \/ Tick
  PROVE  CalaInv' /\ \A a \in Ids : Comum(a)
  <1>1. \A a \in Ids : Comum(a)
    <2>1. ASSUME NEW p \in Processos, VerificarCanal(p) PROVE \A a \in Ids : Comum(a)
      BY <2>1, ComumParada DEF VerificarCanal, tabelas, externo
    <2>. QED BY <2>1, ComumDetector, ComumOperador, ComumPrune, ComumTick
  <1>2. \/ UNCHANGED <<desp, canal>> \/ Tick \/ \E q \in Processos : VerificarCanal(q)
    BY DEF Detector, DetectorContinua, EnqueueVivo, Renotificar, ReabrirLinhas, UltimoAviso,
           CriarAlerta, ConfirmarAlerta, RecoveredLer, RecoveredResolver, RecoveredAnunciar,
           AlertDaRota, AlertGravar, PruneAlerts
  <1>3. \A p \in Processos : MesmoTudo(p)
    BY <1>2, MesmoTudoAlheio DEF CalaInv, EntregaInv
  <1>4. CalaInv'
    BY <1>1, <1>3, PassoCala DEF MesmoTudo, Mesmo
  <1>. QED BY <1>1, <1>4

\* The only dispatcher, before a row is in its hands.
LEMMA PassoDespCala ==
  ASSUME UmProcesso, CalaInv, EntregaInv', UNCHANGED canal, \A a \in Ids : Comum(a),
         NEW p \in Processos, ~EmMaos(p), DespCala(p)'
  PROVE  CalaInv'
  BY PassoCala DEF UmProcesso

LEMMA CalaFechar ==
  ASSUME UmProcesso, CalaInv, EntregaInv', NEW p \in Processos, FecharDuplicados(p)
  PROVE  CalaInv' /\ \A a \in Ids : Comum(a)
  <1>0. desp \in [Processos -> Desp] /\ desp[p] \in Registro /\ TypeOK
    BY DEF CalaInv, EntregaInv, TypeOK, Desp
  <1>1. UNCHANGED <<envio, canal>>
    BY DEF FecharDuplicados, externo
  <1>2. \A a \in Ids : Comum(a)
    <2>1. PICK S : alerta' = alerta \/ alerta' = Resolvidas(S)
      BY DEF FecharDuplicados
    <2>. QED BY <1>0, <1>1, <2>1, ComumParada, ComumFecha
  <1>3. /\ desp[p].pc = "inicia" /\ desp'[p].pc = "dorme"
        /\ desp'[p].lote = desp[p].lote /\ desp'[p].caso = desp[p].caso
    BY <1>0 DEF FecharDuplicados, Registro
  <1>4. ~EmMaos(p) /\ DespCala(p)'
    BY <1>3 DEF EmMaos, DespCala, CalaInv
  <1>. QED BY <1>1, <1>2, <1>4, PassoDespCala

\* one case after the other: what is marked "dispensado", then what is marked "enviado"
LEMMA DepoisCala ==
  ASSUME NEW r \in Desp, r.lote = {}, r.caso \in {"dispensado", "enviado"},
         NEW p \in Processos, desp'[p] = DepoisDeDispensar(r)
  PROVE  DespCala(p)'
  <1>1. r \in Registro
    BY DEF Desp
  <1>2. /\ desp'[p].lote = {} /\ desp'[p].pc \in {"dispensa", "retoma"}
        /\ desp'[p].pc = "dispensa" => desp'[p].caso = "enviado"
    BY <1>1 DEF DepoisDeDispensar, Registro
  <1>. QED BY <1>2 DEF DespCala

LEMMA CalaDispensar ==
  ASSUME UmProcesso, ~BancoFalha, CalaInv, EntregaInv', NEW p \in Processos,
         DispensarLer(p) \/ DispensarAlertas(p) \/ DispensarLinhas(p)
  PROVE  CalaInv' /\ \A a \in Ids : Comum(a)
  <1>0. /\ desp \in [Processos -> Desp] /\ desp[p] \in Registro /\ desp[p] \in Desp
        /\ alerta \in [Ids -> Alerta] /\ Resposta = {TRUE}
    BY DEF CalaInv, EntregaInv, TypeOK, Desp, Resposta
  <1>1. UNCHANGED <<envio, canal>>
    BY DEF DispensarLer, DispensarAlertas, DispensarLinhas, externo
  <1>2. /\ desp[p].pc \in {"dorme", "dispensa", "dispensa_alertas", "dispensa_linhas"}
        /\ desp[p].lote = {} /\ desp[p].caso \in {"dispensado", "enviado"} /\ ~EmMaos(p)
    BY DEF DispensarLer, DispensarAlertas, DispensarLinhas, CalaInv, DespCala, EmMaos
  <1>3. CASE DispensarLer(p)
    <2>1. \A a \in Ids : Comum(a)
      BY <1>1, <1>3, ComumParada DEF DispensarLer, tabelas
    <2>2. /\ desp'[p].pc = "dispensa_alertas" /\ desp'[p].lote = {}
          /\ desp'[p].caso = desp[p].caso
      <3>1. PICK ids : desp' = [desp EXCEPT ![p] = [@ EXCEPT !.pc = "dispensa_alertas",
                                                            !.ids = ids]]
        BY <1>3 DEF DispensarLer
      <3>. QED BY <1>0, <1>2, <3>1 DEF Registro
    <2>3. DespCala(p)'
      BY <1>2, <2>2 DEF DespCala
    <2>. QED BY <1>1, <1>2, <2>1, <2>3, PassoDespCala
  <1>4. CASE DispensarAlertas(p)
    <2>1. ASSUME NEW a \in Ids PROVE Comum(a)
      <3>1. CASE a \notin Dispensaveis(desp[p].caso)
        <4>1. alerta'[a] = alerta[a]
          BY <1>0, <1>4, <3>1 DEF DispensarAlertas
        <4>. QED BY <1>1, <4>1, ComumParada
      <3>2. CASE a \in Dispensaveis(desp[p].caso)
        <4>1. /\ alerta[a].status = "resolved" /\ alerta[a].delivery = "pendente"
              /\ ~alerta[a].rec
              /\ (alerta[a].notif = Nunca) <=> (desp[p].caso = "dispensado")
          BY <3>2 DEF Dispensaveis
        <4>2. alerta'[a] = [alerta[a] EXCEPT !.delivery = desp[p].caso, !.prox = 0]
          BY <1>0, <1>4, <3>2 DEF DispensarAlertas
        <4>3. /\ alerta'[a].rec = alerta[a].rec /\ alerta'[a].notif = alerta[a].notif
              /\ alerta'[a].status = "resolved" /\ alerta'[a].delivery = desp[p].caso
          BY <1>0, <4>1, <4>2 DEF Alerta
        <4>4. alerta[a].notif # Nunca <=> Avisada(a)
          <5>1. ~PorContar(a)
            BY <1>2 DEF PorContar, UmProcesso
          <5>. QED BY <4>1, <5>1 DEF CalaInv, LinhaCala, EntregaInv, LinhaCerta, Gravada
        <4>5. \A q \in Processos : desp[q].pc = "dispensa_alertas"
          BY <1>4 DEF UmProcesso, DispensarAlertas
        <4>. QED BY <1>1, <1>2, <4>1, <4>3, <4>4, <4>5 DEF Comum, Liquida, Igual
      <3>. QED BY <3>1, <3>2
    <2>2. DespCala(p)'
      <3>1. CASE desp' = [desp EXCEPT ![p] = [@ EXCEPT !.pc = "dispensa_linhas"]]
        <4>1. /\ desp'[p].pc = "dispensa_linhas" /\ desp'[p].lote = {}
              /\ desp'[p].caso = desp[p].caso
          BY <1>0, <1>2, <3>1 DEF Registro
        <4>. QED BY <1>2, <4>1 DEF DespCala
      <3>2. CASE desp' = [desp EXCEPT ![p] = DepoisDeDispensar(@)]
        BY <1>0, <1>2, <3>2, DepoisCala
      <3>. QED BY <1>4, <3>1, <3>2 DEF DispensarAlertas
    <2>. QED BY <1>1, <1>2, <2>1, <2>2, PassoDespCala
  <1>5. CASE DispensarLinhas(p)
    <2>1. \A a \in Ids : Comum(a)
      BY <1>1, <1>5, ComumParada DEF DispensarLinhas
    <2>2. desp' = [desp EXCEPT ![p] = DepoisDeDispensar(@)]
      BY <1>5 DEF DispensarLinhas
    <2>3. DespCala(p)'
      BY <1>0, <1>2, <2>2, DepoisCala
    <2>. QED BY <1>1, <1>2, <2>1, <2>3, PassoDespCala
  <1>. QED BY <1>3, <1>4, <1>5

\* a dispatcher whose batch is empty and which is in none of the first cases
LEMMA SoltoCala ==
  ASSUME NEW p \in Processos, desp'[p].lote = {},
         desp'[p].pc \in {"retoma", "retoma_linhas", "reivindica"}
  PROVE  DespCala(p)'
  BY DEF DespCala

LEMMA CalaRetomar ==
  ASSUME UmProcesso, ~BancoFalha, CalaInv, EntregaInv', NEW p \in Processos,
         RetomarLer(p) \/ RetomarAlertas(p) \/ RetomarLinhas(p)
  PROVE  CalaInv' /\ \A a \in Ids : Comum(a)
  <1>0. /\ desp \in [Processos -> Desp] /\ desp[p] \in Registro /\ desp[p] \in Desp
        /\ TypeOK /\ Resposta = {TRUE}
    BY DEF CalaInv, EntregaInv, TypeOK, Desp, Resposta
  <1>1. UNCHANGED <<envio, canal>>
    BY DEF RetomarLer, RetomarAlertas, RetomarLinhas, externo
  <1>2. desp[p].lote = {} /\ ~EmMaos(p)
    BY DEF RetomarLer, RetomarAlertas, RetomarLinhas, CalaInv, DespCala, EmMaos
  <1>3. CASE RetomarLer(p)
    <2>. DEFINE caso  == desp[p].caso
                prova == IF caso = "falhou" THEN desp[p].provados
                         ELSE IF canal[p].estado = "ok" THEN canal[p].verificado ELSE {}
                lidos == [desp[p] EXCEPT !.ids = Presos(caso, prova), !.provados = prova,
                                         !.pc = "retoma_alertas"]
                sai   == [desp[p] EXCEPT !.pc = "reivindica", !.caso = "dispensado"]
    <2>1. alerta' = alerta
      BY <1>3 DEF RetomarLer, tabelas
    <2>2. \A a \in Ids : Comum(a)
      BY <1>1, <2>1, ComumParada
    <2>3. desp'[p] \in {lidos, sai, DepoisDeRetomar(lidos)}
      BY <1>0, <1>3 DEF RetomarLer
    <2>4. /\ lidos.lote = {} /\ lidos.pc = "retoma_alertas" /\ lidos.ids = Presos(caso, prova)
          /\ sai.lote = {} /\ sai.pc = "reivindica"
      <3>. HIDE DEF prova
      <3>. QED BY <1>0, <1>2 DEF Registro
    <2>5. /\ DepoisDeRetomar(lidos).lote = {}
          /\ DepoisDeRetomar(lidos).pc \in {"retoma", "reivindica"}
      <3>. HIDE DEF prova
      <3>. QED BY <1>0, <1>2 DEF DepoisDeRetomar, Registro
    <2>. HIDE DEF lidos, sai
    <2>6. ASSUME NEW a \in Presos(caso, prova)
          PROVE  ~Fresca(a)' /\ ~alerta'[a].rec /\ alerta'[a].delivery # "dispensado"
      BY <2>1 DEF Presos, CalaInv, LinhaCala, Fresca
    <2>7. DespCala(p)'
      <3>1. CASE desp'[p] = lidos
        BY <2>4, <2>6, <3>1 DEF DespCala
      <3>2. CASE desp'[p] = sai \/ desp'[p] = DepoisDeRetomar(lidos)
        BY <2>4, <2>5, <3>2, SoltoCala
      <3>. QED BY <2>3, <3>1, <3>2
    <2>. QED BY <1>1, <1>2, <2>2, <2>7, PassoDespCala
  <1>4. CASE RetomarAlertas(p)
    <2>1. ASSUME NEW a \in Ids PROVE Comum(a)
      <3>1. CASE a \in desp[p].ids /\ Gravada(a)
        <4>1. alerta'[a] = Devolvida(alerta[a])
          BY <1>0, <1>4, <3>1 DEF RetomarAlertas
        <4>2. ~alerta[a].rec /\ alerta[a].delivery # "dispensado"
          BY <1>4, <3>1 DEF RetomarAlertas, CalaInv, DespCala
        <4>. QED BY <1>0, <1>1, <3>1, <4>1, <4>2, ComumVolta
      <3>2. CASE ~(a \in desp[p].ids /\ Gravada(a))
        <4>1. alerta'[a] = alerta[a]
          BY <1>0, <1>4, <3>2 DEF RetomarAlertas
        <4>. QED BY <1>1, <4>1, ComumParada
      <3>. QED BY <3>1, <3>2
    <2>2. desp' = [desp EXCEPT ![p] = [@ EXCEPT !.pc = "retoma_linhas"]]
      BY <1>0, <1>4 DEF RetomarAlertas
    <2>3. desp'[p].pc = "retoma_linhas" /\ desp'[p].lote = {}
      BY <1>0, <1>2, <2>2 DEF Registro
    <2>. QED BY <1>1, <1>2, <2>1, <2>3, SoltoCala, PassoDespCala
  <1>5. CASE RetomarLinhas(p)
    <2>1. \A a \in Ids : Comum(a)
      BY <1>1, <1>5, ComumParada DEF RetomarLinhas
    <2>2. desp'[p] = DepoisDeRetomar(desp[p])
      BY <1>0, <1>5 DEF RetomarLinhas
    <2>3. desp'[p].lote = {} /\ desp'[p].pc \in {"retoma", "reivindica"}
      BY <1>0, <1>2, <2>2, DepoisSolto
    <2>. QED BY <1>1, <1>2, <2>1, <2>3, SoltoCala, PassoDespCala
  <1>. QED BY <1>3, <1>4, <1>5

LEMMA CalaClaim ==
  ASSUME UmProcesso, CalaInv, EntregaInv', NEW p \in Processos, ClaimBatch(p)
  PROVE  CalaInv' /\ \A a \in Ids : Comum(a)
  <1>0. /\ desp \in [Processos -> Desp] /\ desp[p] \in Registro
        /\ alerta \in [Ids -> Alerta]
    BY DEF CalaInv, EntregaInv, TypeOK, Desp
  <1>1. UNCHANGED <<envio, canal>>
    BY DEF ClaimBatch, externo
  <1>2. ~EmMaos(p)
    BY DEF ClaimBatch, EmMaos
  <1>3. CASE alerta' = alerta /\ desp' = [desp EXCEPT ![p] = DespDorme]
    <2>1. \A a \in Ids : Comum(a)
      BY <1>1, <1>3, ComumParada
    <2>2. desp'[p].pc = "dorme" /\ desp'[p].lote = {} /\ desp'[p].caso = "dispensado"
      BY <1>0, <1>3 DEF DespDorme, DespInicio
    <2>3. DespCala(p)'
      BY <2>2 DEF DespCala
    <2>. QED BY <1>1, <1>2, <2>1, <2>3, PassoDespCala
  <1>4. ASSUME NEW S, S \subseteq {a \in Ids : Vencida(a)},
               alerta' = [a \in Ids |-> IF a \in S THEN [alerta[a] EXCEPT !.prox = Lease]
                                        ELSE alerta[a]],
               desp' = [desp EXCEPT ![p] = [@ EXCEPT !.pc = "prepara", !.lote = S]]
        PROVE  CalaInv' /\ \A a \in Ids : Comum(a)
    <2>1. ASSUME NEW a \in Ids
          PROVE  Comum(a) /\ alerta'[a].delivery = alerta[a].delivery
      <3>1. CASE a \notin S
        BY <1>1, <1>4, <3>1, ComumParada
      <3>2. CASE a \in S
        <4>1. /\ alerta'[a].rec = alerta[a].rec /\ alerta'[a].notif = alerta[a].notif
              /\ alerta'[a].status = alerta[a].status
              /\ alerta'[a].delivery = alerta[a].delivery
          BY <1>0, <1>4, <3>2 DEF Alerta
        <4>. QED BY <1>1, <4>1 DEF Comum, Fica, Igual
      <3>. QED BY <3>1, <3>2
    <2>2. desp'[p].pc = "prepara" /\ desp'[p].lote = S
      BY <1>0, <1>4 DEF Registro
    <2>3. \A a \in S : alerta'[a].delivery = "pendente"
      BY <1>4, <2>1 DEF Vencida
    <2>4. DespCala(p)'
      BY <2>2, <2>3 DEF DespCala
    <2>. QED BY <1>1, <1>2, <2>1, <2>4, PassoDespCala
  <1>5. CASE ~(alerta' = alerta /\ desp' = [desp EXCEPT ![p] = DespDorme])
    <2>1. PICK S : /\ S \subseteq {a \in Ids : Vencida(a)}
                   /\ alerta' = [a \in Ids |-> IF a \in S THEN [alerta[a] EXCEPT !.prox = Lease]
                                               ELSE alerta[a]]
                   /\ desp' = [desp EXCEPT ![p] = [@ EXCEPT !.pc = "prepara", !.lote = S]]
      BY <1>5 DEF ClaimBatch
    <2>. QED BY <1>4, <2>1
  <1>. QED BY <1>3, <1>5

\* the rows left of the batch, when the one in hand is done with
LEMMA ProximoCala ==
  ASSUME TypeOK, NEW p \in Processos, desp[p].pc \in {"prepara", "envia", "consolida"},
         desp'[p] = Proximo(p),
         \A a \in desp[p].lote \ {Atual(p)} : Gravada(a)' => alerta'[a].delivery = "pendente"
  PROVE  DespCala(p)'
  <1>1. CASE Proximo(p) = DespDorme
    BY <1>1 DEF DespCala, DespDorme, DespInicio
  <1>2. CASE Proximo(p) = [DespInicio EXCEPT !.pc = "prepara", !.lote = desp[p].lote \ {Atual(p)}]
    <2>1. desp'[p].pc = "prepara" /\ desp'[p].lote = desp[p].lote \ {Atual(p)}
      BY <1>2 DEF DespInicio
    <2>. QED BY <2>1 DEF DespCala
  <1>. QED BY <1>1, <1>2 DEF Proximo

LEMMA CalaGarantir ==
  ASSUME UmProcesso, ~BancoFalha, CalaInv, EntregaInv', NEW p \in Processos, GarantirLinhas(p)
  PROVE  CalaInv' /\ \A b \in Ids : Comum(b)
  <1>0. /\ desp \in [Processos -> Desp] /\ TypeOK /\ ~EmMaos(p) /\ desp[p].pc = "prepara"
    BY DEF GarantirLinhas, CalaInv, EntregaInv, TypeOK, EmMaos
  <1>1. UNCHANGED <<envio, canal, alerta>>
    BY DEF GarantirLinhas, externo
  <1>2. \A b \in Ids : Comum(b)
    BY <1>1, ComumParada
  <1>3. \A b \in desp[p].lote : Gravada(b) => alerta[b].delivery = "pendente"
    BY DEF CalaInv, DespCala
  <1>4. DespCala(p)'
    <2>1. CASE desp' = desp
      BY <1>0, <1>1, <1>3, <2>1 DEF DespCala, Gravada
    <2>2. CASE desp' # desp
      <3>1. desp'[p] = Proximo(p)
        BY <1>0, <2>2 DEF GarantirLinhas
      <3>. QED BY <1>0, <1>1, <1>3, <3>1, ProximoCala DEF Gravada
    <2>. QED BY <2>1, <2>2
  <1>5. CalaInv'
    BY <1>0, <1>1, <1>2, <1>4, PassoDespCala
  <1>. QED BY <1>2, <1>5

\* a process with no channel has never delivered anything
LEMMA CalaPreparar ==
  ASSUME UmProcesso, ~BancoFalha, CalaInv, EntregaInv', NEW p \in Processos, Preparar(p)
  PROVE  /\ CalaInv'
         /\ \A b \in Ids :
              \/ Comum(b)
              \/ /\ envio' = envio /\ Gravada(b) /\ ~Avisada(b)
                 /\ alerta[b].delivery = "pendente"
                 /\ alerta'[b] = [alerta[b] EXCEPT !.delivery = "sem_canal", !.prox = 0]
  <1>0. /\ desp \in [Processos -> Desp] /\ desp[p] \in Registro /\ TypeOK
        /\ alerta \in [Ids -> Alerta] /\ Resposta = {TRUE}
        /\ desp[p].pc = "prepara" /\ ~EmMaos(p)
    BY DEF Preparar, CalaInv, EntregaInv, TypeOK, Desp, Resposta, EmMaos
  <1>1. UNCHANGED <<envio, canal>>
    BY DEF Preparar, externo
  <1>2. PICK a \in Ids : a = Atual(p) /\ a \in desp[p].lote
    BY <1>0, AtualNoLote
  <1>3. \A b \in desp[p].lote : Gravada(b) => alerta[b].delivery = "pendente"
    BY DEF CalaInv, DespCala
  <1>4. CASE canal[p].ativos = {} /\ Gravada(a)
    <2>1. /\ alerta' = [alerta EXCEPT ![a] = [@ EXCEPT !.delivery = "sem_canal", !.prox = 0]]
          /\ desp' = [desp EXCEPT ![p] = Proximo(p)]
      BY <1>0, <1>2, <1>4 DEF Preparar
    <2>2. \A b \in Ids : b # a => alerta'[b] = alerta[b] /\ Comum(b)
      BY <1>0, <1>1, <2>1, ComumParada
    <2>3. /\ alerta'[a] = [alerta[a] EXCEPT !.delivery = "sem_canal", !.prox = 0]
          /\ alerta'[a].rec = alerta[a].rec /\ alerta'[a].notif = alerta[a].notif
          /\ alerta'[a].status = alerta[a].status /\ alerta'[a].delivery = "sem_canal"
      BY <1>0, <2>1 DEF Alerta
    <2>4. ~Avisada(a)
      BY <1>2, <1>4 DEF CalaInv, LinhaCala, Avisada
    <2>5. LinhaCala(a)'
      BY <1>1, <1>2, <2>3, <2>4 DEF CalaInv, LinhaCala, Gravada, Avisada
    <2>6. \A b \in Ids : b # a => LinhaCala(b)'
      <3>1. \A q \in Processos : ~EmMaos(q)
        BY <1>0 DEF UmProcesso
      <3>. QED BY <1>1, <2>2, <3>1, ComumLinha DEF CalaInv
    <2>7. DespCala(p)'
      <3>1. desp[p].lote \subseteq Ids
        BY <1>0 DEF Registro
      <3>2. desp'[p] = Proximo(p)
        BY <1>0, <2>1
      <3>. QED BY <1>0, <1>2, <1>3, <2>2, <3>1, <3>2, ProximoCala DEF Gravada
    <2>8. CalaInv'
      BY <2>5, <2>6, <2>7 DEF CalaInv, UmProcesso
    <2>. QED BY <1>1, <1>2, <1>3, <1>4, <2>2, <2>3, <2>4, <2>8
  <1>5. CASE ~(canal[p].ativos = {} /\ Gravada(a))
    <2>1. alerta' = alerta
      BY <1>0, <1>2, <1>5 DEF Preparar
    <2>2. \A b \in Ids : Comum(b)
      BY <1>1, <2>1, ComumParada
    <2>3. DespCala(p)'
      <3>1. CASE desp' = [desp EXCEPT ![p] = Proximo(p)]
        <4>1. desp'[p] = Proximo(p)
          BY <1>0, <3>1
        <4>. QED BY <1>0, <1>3, <2>1, <4>1, ProximoCala DEF Gravada
      <3>2. ASSUME NEW lin, NEW faltam, NEW pc, faltam \subseteq canal[p].ativos,
                   pc \in {"envia", "consolida"},
                   desp' = [desp EXCEPT ![p] =
                     [@ EXCEPT !.lin = lin, !.faltam = faltam, !.t = 0, !.marcaram = {},
                               !.tentou = faltam # {}, !.entregou = FALSE, !.pc = pc]]
            PROVE  DespCala(p)'
        <4>1. /\ desp'[p].pc = pc /\ desp'[p].lote = desp[p].lote
              /\ desp'[p].faltam = faltam
          BY <1>0, <3>2 DEF Registro
        <4>. QED BY <1>1, <1>3, <2>1, <3>2, <4>1 DEF DespCala, Gravada
      <3>3. CASE desp' # [desp EXCEPT ![p] = Proximo(p)]
        <4>. DEFINE lin    == linha[a]
                    faltam == {c \in canal[p].ativos : Devida(lin[c])}
                    pc     == IF faltam = {} THEN "consolida" ELSE "envia"
        <4>1. desp' = [desp EXCEPT ![p] =
                     [@ EXCEPT !.lin = lin, !.faltam = faltam, !.t = 0, !.marcaram = {},
                               !.tentou = faltam # {}, !.entregou = FALSE, !.pc = pc]]
          BY <1>2, <3>3 DEF Preparar
        <4>2. faltam \subseteq canal[p].ativos /\ pc \in {"envia", "consolida"}
          OBVIOUS
        <4>. HIDE DEF lin, faltam, pc
        <4>. QED BY <3>2, <4>1, <4>2
      <3>. QED BY <3>1, <3>3
    <2>4. CalaInv'
      BY <1>0, <1>1, <2>2, <2>3, PassoDespCala
    <2>. QED BY <2>2, <2>4
  <1>. QED BY <1>4, <1>5

\* what the dispatcher has to count is of the row in its hands
LEMMA PorContarAtual ==
  ASSUME UmProcesso, NEW p \in Processos, NEW a, PorContar(a)
  PROVE  a = Atual(p) /\ desp[p].entregou
  BY DEF UmProcesso, PorContar

LEMMA CalaEntregar ==
  ASSUME UmProcesso, ~BancoFalha, CalaInv, EntregaInv', NEW p \in Processos, Entregar(p)
  PROVE  /\ CalaInv'
         /\ \A b \in Ids :
              \/ Comum(b)
              \/ /\ alerta'[b] = alerta[b]
                 /\ Gravada(b) => alerta[b].delivery = "pendente"
                 /\ Avisada(b) => Avisada(b)'
  <1>0. PICK a \in Ids, c \in Canais, sucesso \in BOOLEAN :
           /\ a = Atual(p) /\ a \in desp[p].lote /\ desp[p].pc = "envia"
           /\ c \in desp[p].faltam
           /\ \A b \in Ids : b # a => envio'[b] = envio[b]
           /\ \A x \in Canais : x # c => envio'[a][x] = envio[a][x]
           /\ envio'[a][c] = IF sucesso THEN 0 ELSE envio[a][c]
           /\ desp'[p].pc = IF desp'[p].faltam = {} THEN "consolida" ELSE "envia"
           /\ desp'[p].faltam = desp[p].faltam \ {c}
           /\ desp'[p].lote = desp[p].lote
           /\ desp'[p].entregou = (desp[p].entregou \/ sucesso)
           /\ \A q \in Processos : canal'[q].ativos = canal[q].ativos
    BY FormaEntregar DEF CalaInv, EntregaInv
  <1>1. alerta' = alerta
    BY DEF Entregar
  <1>2. DespCala(p) /\ LinhaCala(a)
    BY DEF CalaInv
  <1>3. EmMaos(p)' /\ Atual(p)' = a
    BY <1>0 DEF EmMaos, Atual
  <1>4. /\ Gravada(a) => alerta[a].delivery = "pendente"
        /\ Avisada(a) => Avisada(a)'
        /\ ~sucesso => (Avisada(a)' <=> Avisada(a))
    BY <1>0, <1>2 DEF DespCala, Avisada, Nunca
  <1>5. \A b \in Ids : b # a => Comum(b)
    BY <1>0, <1>1 DEF Comum, Fica, Igual
  <1>6. LinhaCala(a)'
    <2>1. Gravada(a)' /\ Avisada(a)' => alerta'[a].notif # Nunca \/ PorContar(a)'
      <3>1. CASE sucesso
        BY <1>0, <1>3, <3>1 DEF PorContar
      <3>2. CASE ~sucesso
        <4>1. PorContar(a) => PorContar(a)'
          BY <1>0, <1>3, PorContarAtual DEF PorContar
        <4>. QED BY <1>1, <1>2, <1>4, <3>2, <4>1 DEF LinhaCala, Gravada
      <3>. QED BY <3>1, <3>2
    <2>2. ASSUME NEW q \in Processos, NEW x \in Canais, envio'[a][x] # Nunca
          PROVE  x \in canal'[q].ativos
      BY <1>0, <1>2, <2>2 DEF UmProcesso, LinhaCala, DespCala
    <2>3. Gravada(a)' => alerta'[a].delivery # "dispensado"
      BY <1>1, <1>4 DEF Gravada
    <2>. QED BY <1>1, <1>2, <2>1, <2>2, <2>3 DEF LinhaCala, Gravada
  <1>7. ASSUME NEW b \in Ids, b # a PROVE LinhaCala(b)'
    <2>1. LinhaCala(b) /\ ~PorContar(b)
      BY <1>0, <1>7, PorContarAtual DEF CalaInv
    <2>. QED BY <1>0, <1>1, <1>7, <2>1 DEF LinhaCala, Gravada, Avisada
  <1>8. DespCala(p)'
    BY <1>0, <1>1, <1>2 DEF DespCala, Gravada
  <1>9. CalaInv'
    BY <1>6, <1>7, <1>8 DEF CalaInv, UmProcesso
  <1>. QED BY <1>1, <1>4, <1>5, <1>9

LEMMA CalaConsolidar ==
  ASSUME UmProcesso, ~BancoFalha, CalaInv, EntregaInv', NEW p \in Processos, Consolidar(p)
  PROVE  /\ CalaInv'
         /\ \A b \in Ids :
              \/ Comum(b)
              \/ /\ b = Atual(p) /\ envio' = envio
                 /\ Gravada(b) /\ alerta[b].delivery = "pendente"
                 /\ alerta'[b].rec = alerta[b].rec /\ alerta'[b].status = alerta[b].status
                 /\ alerta'[b].delivery = Consolidado(desp[p].lin, canal[p].ativos)
  <1>0. PICK a \in Ids, gravou \in BOOLEAN :
           /\ a = Atual(p) /\ a \in desp[p].lote /\ desp[p].pc = "consolida"
           /\ \A b \in Ids : b # a => alerta'[b] = alerta[b]
           /\ gravou =>
                /\ Gravada(a)
                /\ alerta'[a].chave = alerta[a].chave /\ alerta'[a].rec = alerta[a].rec
                /\ alerta'[a].status = alerta[a].status
                /\ alerta'[a].delivery = Consolidado(desp[p].lin, canal[p].ativos)
                /\ IF desp[p].entregou THEN alerta'[a].notif # Nunca /\ alerta'[a].notif =< Duracao
                   ELSE alerta'[a].notif = alerta[a].notif
           /\ ~gravou => alerta'[a] = alerta[a] /\ ~Gravada(a)
           /\ \A q \in Processos : canal'[q].ativos = canal[q].ativos
           /\ desp' = [desp EXCEPT ![p] = Proximo(p)]
    BY FormaConsolidar DEF CalaInv, EntregaInv
  <1>1. envio' = envio
    BY DEF Consolidar, externo
  <1>2. /\ DespCala(p) /\ LinhaCala(a) /\ desp[p].lote \subseteq Ids
        /\ desp \in [Processos -> Desp] /\ TypeOK
    BY DEF CalaInv, EntregaInv, TypeOK, Desp, Registro
  <1>3. Gravada(a) => alerta[a].delivery = "pendente"
    BY <1>0, <1>2 DEF DespCala
  <1>4. \A b \in Ids : b # a \/ ~gravou => Comum(b)
    BY <1>0, <1>1, ComumParada
  <1>5. LinhaCala(a)'
    <2>1. CASE ~gravou
      BY <1>0, <1>1, <1>2, <2>1 DEF LinhaCala, Gravada
    <2>2. CASE gravou
      <3>1. Consolidado(desp[p].lin, canal[p].ativos) # "dispensado"
        BY DEF Consolidado
      <3>2. Avisada(a) => alerta'[a].notif # Nunca
        BY <1>0, <1>2, <2>2, PorContarAtual DEF LinhaCala
      <3>3. Avisada(a)' <=> Avisada(a)
        BY <1>1 DEF Avisada
      <3>. QED BY <1>0, <1>1, <1>2, <2>2, <3>1, <3>2, <3>3 DEF LinhaCala, Gravada
    <2>. QED BY <2>1, <2>2
  <1>6. ASSUME NEW b \in Ids, b # a PROVE LinhaCala(b)'
    <2>1. LinhaCala(b) /\ ~PorContar(b)
      BY <1>0, <1>6, PorContarAtual DEF CalaInv
    <2>. QED BY <1>0, <1>1, <1>6, <2>1 DEF LinhaCala, Gravada, Avisada
  <1>7. DespCala(p)'
    <2>1. desp'[p] = Proximo(p)
      BY <1>0, <1>2
    <2>2. \A b \in desp[p].lote \ {Atual(p)} : Gravada(b)' => alerta'[b].delivery = "pendente"
      BY <1>0, <1>2 DEF DespCala, Gravada
    <2>. QED BY <1>0, <1>2, <2>1, <2>2, ProximoCala
  <1>8. CalaInv'
    BY <1>5, <1>6, <1>7 DEF CalaInv, UmProcesso
  <1>. QED BY <1>0, <1>1, <1>3, <1>4, <1>8

LEMMA CalaInicial == Init => CalaInv
  <1>. SUFFICES ASSUME Init PROVE CalaInv
    OBVIOUS
  <1>1. EntregaInv
    BY EntregaInicial
  <1>2. ASSUME NEW a \in Ids PROVE LinhaCala(a)
    <2>1. alerta[a].status = "livre" /\ \A c \in Canais : envio[a][c] = Nunca
      BY DEF Init, Vazia, Nova
    <2>. QED BY <2>1 DEF LinhaCala, Gravada
  <1>3. ASSUME NEW p \in Processos PROVE DespCala(p)
    <2>1. desp[p].pc = "inicia" /\ desp[p].caso = "dispensado" /\ desp[p].lote = {}
      BY DEF Init, DespInicio
    <2>. QED BY <2>1 DEF DespCala
  <1>. QED BY <1>1, <1>2, <1>3 DEF CalaInv

LEMMA SemQueda ==
  ASSUME MaxQuedas = 0, TypeOK, NEW p \in Processos
  PROVE  ~Queda(p)
  BY DEF TypeOK, Queda

LEMMA CalaPasso ==
  ASSUME UmProcesso, MaxQuedas = 0, ~BancoFalha, CalaInv, [Next]_vars
  PROVE  CalaInv'
  <1>0. EntregaInv'
    BY EntregaPasso DEF CalaInv
  <1>1. CASE UNCHANGED vars
    <2>1. UNCHANGED <<alerta, envio, desp, canal>>
      BY <1>1 DEF vars
    <2>. QED BY <1>0, <2>1, ComumParada, PassoCala DEF MesmoTudo, Mesmo
  <1>2. CASE Next
    <2>1. ASSUME NEW p \in Processos, Despachante(p) PROVE CalaInv'
      BY <1>0, <2>1, CalaFechar, CalaDispensar, CalaRetomar, CalaClaim, CalaGarantir, CalaPreparar,
         CalaEntregar, CalaConsolidar DEF Despachante
    <2>. QED BY <1>0, <1>2, <2>1, CalaAlheio, SemQueda DEF Next, CalaInv, EntregaInv
  <1>. QED BY <1>1, <1>2

\* "dispensado" says that nobody was told, and it is true: with one process that
\* neither crashes nor loses a write, a row dispensarResolvidos takes out of the queue
\* in silence was never accepted by a channel, whatever detectors, operators and
\* retention do meanwhile, a late acknowledgement included.
THEOREM DispensadoSempreMudo ==
  UmProcesso /\ MaxQuedas = 0 /\ ~BancoFalha /\ Spec => []DispensadoNuncaSaiu
  <1>1. SUFFICES ASSUME UmProcesso, MaxQuedas = 0, ~BancoFalha
                 PROVE  Spec => []DispensadoNuncaSaiu
    OBVIOUS
  <1>2. CalaInv /\ [Next]_vars => CalaInv'
    BY <1>1, CalaPasso
  <1>3. CalaInv => DispensadoNuncaSaiu
    BY DEF CalaInv, LinhaCala, DispensadoNuncaSaiu
  <1>. QED BY <1>2, <1>3, CalaInicial, PTL DEF Spec

-----------------------------------------------------------------------------
(* The life of an alert.                                                    *)

\* The rows to dispense are resolved incidents, and the lines of a row in hand say
\* "enviado" of channels that accepted it, whatever its status has become.
DespCiclo(p) ==
  /\ desp[p].pc \in {"dispensa_alertas", "dispensa_linhas"} =>
       \A a \in desp[p].ids : alerta[a].status \in {"resolved", "apagado"} /\ ~alerta[a].rec
  /\ \A a \in desp[p].lote : Fieis(a, linha[a])
  /\ EmMaos(p) => /\ Fieis(Atual(p), desp[p].lin)
                  /\ \A c \in Canais : desp[p].lin[c].status # "sem_canal"

\* likewise for every row still open or acknowledged, and every recovery
LinhaCiclo(a) ==
  /\ Viva(a) \/ alerta[a].rec => Fieis(a, linha[a])
  /\ \A c \in Canais : linha[a][c].status # "sem_canal"

CicloInv ==
  /\ CalaInv
  /\ \A p \in Processos : DespCiclo(p)
  /\ \A a \in Ids : LinhaCiclo(a)

\* no line of the row becomes final
LinhasQuietas(a) ==
  \A c \in Canais : linha'[a][c].status \in {linha[a][c].status, "pendente", "ausente"}

LEMMA FieisFicam ==
  ASSUME NEW a, Comum(a)
  PROVE  /\ LinhasQuietas(a) /\ Fieis(a, linha[a]) => Fieis(a, linha[a])'
         /\ \A p \in Processos :
              Fieis(a, desp[p].lin) /\ desp'[p].lin = desp[p].lin => Fieis(a, desp[p].lin)'
  BY DEF Comum, LinhasQuietas, Fieis

LEMMA ComumLinhaCiclo ==
  ASSUME EntregaInv, tardio' = {}, NEW a \in Ids, LinhaCiclo(a), Comum(a), LinhasQuietas(a)
  PROVE  LinhaCiclo(a)'
  <1>1. \A c \in Canais : linha'[a][c].status # "sem_canal"
    BY DEF LinhaCiclo, LinhasQuietas
  <1>2. Fresca(a) => Fieis(a, linha[a])
    BY DEF EntregaInv, LinhaCerta, Fieis
  <1>3. Viva(a)' \/ alerta'[a].rec => Viva(a) \/ alerta[a].rec \/ Fresca(a)
    BY DEF Comum, Fica, Fecha, Reconhece, Volta, Liquida, Nasce, Some, Fora, Igual,
           Viva, Gravada
  <1>. QED BY <1>1, <1>2, <1>3, FieisFicam DEF LinhaCiclo

LEMMA ComumDespCiclo ==
  ASSUME TypeOK, tardio' = {}, \A a \in Ids : Comum(a) /\ LinhasQuietas(a),
         NEW p \in Processos, DespCiclo(p), MesmoTudo(p)
  PROVE  DespCiclo(p)'
  <1>0. desp[p].ids \subseteq Ids /\ desp[p].lote \subseteq Ids
    BY DEF TypeOK, Desp, Registro
  <1>1. ASSUME NEW a \in Ids, alerta[a].status \in {"resolved", "apagado"}, ~alerta[a].rec
        PROVE  alerta'[a].status \in {"resolved", "apagado"} /\ ~alerta'[a].rec
    BY <1>1 DEF Comum, Fica, Fecha, Reconhece, Volta, Liquida, Nasce, Some, Fora, Igual,
                Viva, Gravada, Fresca
  <1>2. \A a \in desp[p].lote : Fieis(a, linha[a])'
    BY <1>0, FieisFicam DEF DespCiclo
  <1>3. ASSUME EmMaos(p)
        PROVE  Fieis(Atual(p), desp[p].lin)'
    <2>1. PICK a \in Ids : a = Atual(p)
      BY <1>3, AtualNoLote DEF EmMaos
    <2>2. Atual(p)' = a
      BY <2>1 DEF Atual, MesmoTudo, Mesmo
    <2>3. Fieis(a, desp[p].lin)'
      BY <1>3, <2>1, FieisFicam DEF DespCiclo, MesmoTudo, Mesmo
    <2>. QED BY <2>2, <2>3
  <1>. QED BY <1>0, <1>1, <1>2, <1>3 DEF DespCiclo, MesmoTudo, Mesmo, EmMaos

LEMMA PassoCiclo ==
  ASSUME CicloInv, CalaInv', tardio' = {},
         \A a \in Ids : Comum(a) /\ LinhasQuietas(a),
         \A p \in Processos : MesmoTudo(p) \/ DespCiclo(p)'
  PROVE  CicloInv'
  <1>1. \A a \in Ids : LinhaCiclo(a)'
    BY ComumLinhaCiclo DEF CicloInv, CalaInv
  <1>2. \A p \in Processos : DespCiclo(p)'
    BY ComumDespCiclo DEF CicloInv, CalaInv, EntregaInv
  <1>. QED BY <1>1, <1>2 DEF CicloInv

\* the portrait of a row, and what the steps of its life make of it
Retrato(s, e, v, r) == [status |-> s, entrega |-> e, avisada |-> v, rec |-> r]

LEMMA RetratoMuda ==
  ASSUME NEW s, NEW e, NEW v, NEW r, NEW x
  PROVE  /\ [Retrato(s, e, v, r) EXCEPT !.status = x] = Retrato(x, e, v, r)
         /\ [Retrato(s, e, v, r) EXCEPT !.entrega = x] = Retrato(s, x, v, r)
         /\ [Retrato(s, e, v, r) EXCEPT !.avisada = x] = Retrato(s, e, x, r)
         /\ Retrato(s, e, v, r).status = s /\ Retrato(s, e, v, r).entrega = e
         /\ Retrato(s, e, v, r).avisada = v /\ Retrato(s, e, v, r).rec = r
  BY DEF Retrato

LEMMA VidaRetrato ==
  ASSUME NEW a \in Ids
  PROVE  /\ Vida[a] = IF ~Gravada(a) THEN Ciclo!Ausente
                      ELSE Retrato(alerta[a].status, alerta[a].delivery, Avisada(a), alerta[a].rec)
         /\ Vida'[a] = IF ~Gravada(a)' THEN Ciclo!Ausente
                       ELSE Retrato(alerta'[a].status, alerta'[a].delivery, Avisada(a)',
                                    alerta'[a].rec)
         /\ Ciclo!Ausente = Retrato("ausente", "pendente", FALSE, FALSE)
  BY DEF Vida, Ciclo!Ausente, Retrato

\* Each of these ways is a step of the life of the row.
LEMMA ComumVive ==
  ASSUME CalaInv, NEW a \in Ids, Comum(a)
  PROVE  Ciclo!Passo(Vida[a], Vida'[a])
  <1>. DEFINE s == alerta[a].status   e == alerta[a].delivery   r == alerta[a].rec
  <1>0. Avisada(a) \in BOOLEAN /\ Avisada(a)' \in BOOLEAN
    BY DEF Avisada
  <1>1. Avisada(a)' = Avisada(a)
    BY <1>0, ComumAvisada
  <1>2. PICK v \in BOOLEAN : v = Avisada(a)
    BY <1>0
  <1>3. Fresca(a) => ~v
    BY <1>2 DEF CalaInv, EntregaInv, LinhaCerta, Avisada
  <1>4. Gravada(a) => Vida[a] = Retrato(s, e, v, r)
    BY <1>2, VidaRetrato
  <1>5. Gravada(a)' => Vida'[a] = Retrato(alerta'[a].status, alerta'[a].delivery, v, alerta'[a].rec)
    BY <1>1, <1>2, VidaRetrato
  <1>. HIDE DEF s, e, r
  <1>6. CASE Gravada(a) /\ (Fica(a) \/ Fecha(a) \/ Reconhece(a))
    <2>1. \/ Vida'[a] = Retrato(s, e, v, r)
          \/ Vida'[a] = Retrato("resolved", e, v, r) /\ s \in {"open", "acked"}
          \/ Vida'[a] = Retrato("acked", e, v, r) /\ s \in {"open", "acked", "resolved"}
      BY <1>5, <1>6 DEF Fica, Fecha, Reconhece, Igual, Gravada, Viva, s, e, r
    <2>. QED BY <1>4, <1>6, <2>1, RetratoMuda DEF Ciclo!Passo, Ciclo!Reconhece, Ciclo!Resolve
  <1>7. CASE Volta(a)
    <2>1. Gravada(a) /\ ~r /\ e \in Entregas \ {"dispensado"}
      BY <1>7 DEF CalaInv, EntregaInv, TypeOK, Alerta, Volta, e, r
    <2>2. Vida'[a] = Retrato(s, "pendente", v, r)
      BY <1>5, <1>7 DEF Volta, Igual, Gravada, s, e, r
    <2>. QED BY <1>4, <2>1, <2>2, RetratoMuda DEF Entregas, Ciclo!Passo, Ciclo!Volta
  <1>8. CASE Liquida(a)
    <2>1. /\ Gravada(a) /\ s = "resolved" /\ e = "pendente" /\ ~r
          /\ \/ ~v /\ Vida'[a] = Retrato(s, "dispensado", v, r)
             \/ v /\ Vida'[a] = Retrato(s, "enviado", v, r)
      BY <1>2, <1>5, <1>8 DEF Liquida, Igual, Gravada, s, e, r
    <2>. QED BY <1>4, <2>1, RetratoMuda DEF Ciclo!Passo, Ciclo!Dispensa, Ciclo!Conclui
  <1>9. CASE Nasce(a)
    <2>1. /\ ~Gravada(a) /\ Gravada(a)' /\ ~v
      BY <1>3, <1>9 DEF Nasce, Fresca, Gravada
    <2>2. Vida[a].status = "ausente"
      <3>1. Vida[a] = Retrato("ausente", "pendente", FALSE, FALSE)
        BY <2>1, VidaRetrato
      <3>. QED BY <3>1 DEF Retrato
    <2>. QED BY <1>5, <1>9, <2>1, <2>2, RetratoMuda DEF Nasce, Ciclo!Passo, Ciclo!Nasce
  <1>10. CASE Some(a)
    <2>1. ~Gravada(a)' /\ Gravada(a) /\ s \in {"acked", "resolved"}
      BY <1>10 DEF Some, Gravada, s
    <2>2. Vida'[a] = Ciclo!Ausente
      BY <2>1, VidaRetrato
    <2>. QED BY <1>4, <2>1, <2>2, RetratoMuda DEF Ciclo!Passo, Ciclo!Some
  <1>11. CASE ~Gravada(a) /\ ~Gravada(a)'
    BY <1>11, VidaRetrato DEF Ciclo!Passo
  <1>. QED BY <1>6, <1>7, <1>8, <1>9, <1>10, <1>11
           DEF Comum, Fica, Fecha, Reconhece, Volta, Liquida, Nasce, Some, Fora,
               Gravada, Viva, Fresca

-----------------------------------------------------------------------------
(* The invariant of the life of a row, action by action.                    *)

LEMMA PassoDespCiclo ==
  ASSUME UmProcesso, CicloInv, CalaInv', tardio' = {},
         \A a \in Ids : Comum(a) /\ LinhasQuietas(a),
         NEW p \in Processos, DespCiclo(p)'
  PROVE  CicloInv'
  BY PassoCiclo DEF UmProcesso

LEMMA LinhaParada ==
  ASSUME UNCHANGED linha, NEW a
  PROVE  LinhasQuietas(a)
  BY DEF LinhasQuietas

LEMMA SoltoCiclo ==
  ASSUME NEW p, desp'[p].lote = {},
         desp'[p].pc \notin {"dispensa_alertas", "dispensa_linhas", "envia", "consolida"}
  PROVE  DespCiclo(p)'
  BY DEF DespCiclo, EmMaos

LEMMA CicloAlheio ==
  ASSUME ~BancoFalha, CicloInv, EntregaInv', tardio' = {},
         \/ \E d \in Detectores : Detector(d)
         \/ \E o \in Operadores : AlertDaRota(o) \/ AlertGravar(o)
         \/ \E p \in Processos : VerificarCanal(p)
         \/ PruneAlerts \/ Tick
  PROVE  CicloInv' /\ \A a \in Ids : Comum(a)
  <1>0. CalaInv /\ linha \in [Ids -> [Canais -> Linha]]
    BY DEF CicloInv, CalaInv, EntregaInv, TypeOK
  <1>1. CalaInv' /\ \A a \in Ids : Comum(a)
    BY <1>0, CalaAlheio
  <1>2. ASSUME NEW d \in Detectores, ReabrirLinhas(d), NEW a \in Ids
        PROVE  LinhasQuietas(a)
    <2>1. linha'[a] = linha[a] \/
          linha'[a] = [c \in Canais |-> IF linha[a][c].status = "ausente" THEN linha[a][c]
                                        ELSE LinhaDevida]
      BY <1>0, <1>2 DEF ReabrirLinhas
    <2>. QED BY <2>1 DEF LinhasQuietas, LinhaDevida
  <1>3. ASSUME Tick, NEW a \in Ids
        PROVE  LinhasQuietas(a)
    <2>1. ASSUME NEW c \in Canais PROVE linha'[a][c].status = linha[a][c].status
      <3>1. linha[a][c] \in Linha
        BY <1>0
      <3>2. linha'[a][c] = [linha[a][c] EXCEPT !.prox = Falta(@, 1)]
        BY <1>3 DEF Tick
      <3>. QED BY <3>1, <3>2 DEF Linha
    <2>. QED BY <2>1 DEF LinhasQuietas
  <1>4. ASSUME PruneAlerts, NEW a \in Ids
        PROVE  LinhasQuietas(a)
    <2>1. linha'[a] = linha[a] \/ linha'[a] = SemLinhas
      BY <1>4 DEF PruneAlerts
    <2>. QED BY <2>1 DEF LinhasQuietas, SemLinhas, LinhaAusente
  <1>5. ASSUME NEW a \in Ids PROVE LinhasQuietas(a)
    BY <1>2, <1>3, <1>4, LinhaParada
       DEF Detector, DetectorContinua, EnqueueVivo, Renotificar, UltimoAviso, CriarAlerta,
           ConfirmarAlerta, RecoveredLer, RecoveredResolver, RecoveredAnunciar, AlertDaRota,
           AlertGravar, VerificarCanal, tabelas
  <1>6. \A p \in Processos : MesmoTudo(p)
    <2>1. \/ UNCHANGED <<desp, canal>> \/ Tick \/ \E q \in Processos : VerificarCanal(q)
      BY DEF Detector, DetectorContinua, EnqueueVivo, Renotificar, ReabrirLinhas, UltimoAviso,
             CriarAlerta, ConfirmarAlerta, RecoveredLer, RecoveredResolver, RecoveredAnunciar,
             AlertDaRota, AlertGravar, PruneAlerts
    <2>. QED BY <1>0, <2>1, MesmoTudoAlheio DEF CalaInv, EntregaInv
  <1>. QED BY <1>1, <1>5, <1>6, PassoCiclo

LEMMA CicloFechar ==
  ASSUME UmProcesso, CicloInv, EntregaInv', tardio' = {}, NEW p \in Processos,
         FecharDuplicados(p)
  PROVE  CicloInv' /\ \A a \in Ids : Comum(a)
  <1>0. CalaInv /\ desp \in [Processos -> Desp] /\ desp[p] \in Registro
    BY DEF CicloInv, CalaInv, EntregaInv, TypeOK, Desp
  <1>1. CalaInv' /\ \A a \in Ids : Comum(a)
    BY <1>0, CalaFechar
  <1>2. desp'[p].pc = "dorme" /\ desp'[p].lote = {}
    <2>1. desp[p].lote = {}
      BY <1>0 DEF FecharDuplicados, CalaInv, DespCala
    <2>. QED BY <1>0, <2>1 DEF FecharDuplicados, Registro
  <1>3. \A a \in Ids : LinhasQuietas(a)
    BY LinhaParada DEF FecharDuplicados
  <1>. QED BY <1>1, <1>2, <1>3, SoltoCiclo, PassoDespCiclo

LEMMA CicloDispensar ==
  ASSUME UmProcesso, ~BancoFalha, CicloInv, EntregaInv', tardio' = {}, NEW p \in Processos,
         DispensarLer(p) \/ DispensarAlertas(p) \/ DispensarLinhas(p)
  PROVE  CicloInv' /\ \A a \in Ids : Comum(a)
  <1>0. /\ CalaInv /\ desp \in [Processos -> Desp] /\ desp[p] \in Registro /\ desp[p] \in Desp
        /\ alerta \in [Ids -> Alerta] /\ Resposta = {TRUE} /\ DespCiclo(p)
    BY DEF CicloInv, CalaInv, EntregaInv, TypeOK, Desp, Resposta
  <1>1. CalaInv' /\ \A a \in Ids : Comum(a)
    BY <1>0, CalaDispensar
  <1>2. desp[p].lote = {} /\ desp[p].caso \in {"dispensado", "enviado"}
    BY <1>0 DEF DispensarLer, DispensarAlertas, DispensarLinhas, CalaInv, DespCala
  <1>3. ASSUME desp' = [desp EXCEPT ![p] = DepoisDeDispensar(@)]
        PROVE  DespCiclo(p)'
    <2>1. desp'[p] = DepoisDeDispensar(desp[p])
      BY <1>0, <1>3
    <2>2. desp'[p].lote = {} /\ desp'[p].pc \in {"dispensa", "retoma"}
      BY <1>0, <1>2, <2>1, DepoisSolto
    <2>. QED BY <2>2, SoltoCiclo
  <1>4. CASE DispensarLer(p)
    <2>1. desp' = [desp EXCEPT ![p] = [@ EXCEPT !.pc = "dispensa_alertas",
                                                !.ids = Dispensaveis(desp[p].caso)]]
      BY <1>0, <1>4 DEF DispensarLer
    <2>2. /\ desp'[p].pc = "dispensa_alertas" /\ desp'[p].ids = Dispensaveis(desp[p].caso)
          /\ desp'[p].lote = {}
      BY <1>0, <1>2, <2>1 DEF Registro
    <2>3. alerta' = alerta /\ \A a \in Ids : LinhasQuietas(a)
      BY <1>4, LinhaParada DEF DispensarLer, tabelas
    <2>4. \A a \in desp'[p].ids : alerta'[a].status = "resolved" /\ ~alerta'[a].rec
      BY <2>2, <2>3 DEF Dispensaveis
    <2>5. DespCiclo(p)'
      BY <2>2, <2>4 DEF DespCiclo, EmMaos
    <2>. QED BY <1>1, <2>3, <2>5, PassoDespCiclo
  <1>5. CASE DispensarAlertas(p)
    <2>1. \A a \in Ids : LinhasQuietas(a)
      BY <1>5, LinhaParada DEF DispensarAlertas
    <2>2. ASSUME desp' = [desp EXCEPT ![p] = [@ EXCEPT !.pc = "dispensa_linhas"]]
          PROVE  DespCiclo(p)'
      <3>1. /\ desp'[p].pc = "dispensa_linhas" /\ desp'[p].lote = {}
            /\ desp'[p].ids = desp[p].ids /\ desp[p].ids \subseteq Ids
        BY <1>0, <1>2, <2>2 DEF Registro
      <3>2. ASSUME NEW a \in desp[p].ids
            PROVE  alerta'[a].status \in {"resolved", "apagado"} /\ ~alerta'[a].rec
        <4>1. alerta'[a] = alerta[a] \/
              alerta'[a] = [alerta[a] EXCEPT !.delivery = desp[p].caso, !.prox = 0]
          BY <1>0, <1>5, <3>1 DEF DispensarAlertas
        <4>2. alerta'[a].status = alerta[a].status /\ alerta'[a].rec = alerta[a].rec
          BY <1>0, <3>1, <4>1 DEF Alerta
        <4>. QED BY <1>0, <1>5, <4>2 DEF DespCiclo, DispensarAlertas
      <3>. QED BY <3>1, <3>2 DEF DespCiclo, EmMaos
    <2>3. DespCiclo(p)'
      BY <1>3, <1>5, <2>2 DEF DispensarAlertas
    <2>. QED BY <1>1, <2>1, <2>3, PassoDespCiclo
  <1>6. CASE DispensarLinhas(p)
    <2>1. UNCHANGED <<alerta, envio>>
      BY <1>6 DEF DispensarLinhas, externo
    <2>0. ASSUME NEW a \in Ids, NEW c \in Canais
          PROVE  linha'[a][c] = IF a \in desp[p].ids /\ linha[a][c].status = "pendente"
                                THEN [linha[a][c] EXCEPT !.status = desp[p].caso, !.prox = 0]
                                ELSE linha[a][c]
      <3>1. linha' = [b \in Ids |-> [x \in Canais |->
                       IF b \in desp[p].ids /\ linha[b][x].status = "pendente"
                       THEN [linha[b][x] EXCEPT !.status = desp[p].caso, !.prox = 0]
                       ELSE linha[b][x]]]
        BY <1>0, <1>6 DEF DispensarLinhas
      <3>. QED BY <3>1
    <2>2. ASSUME NEW a \in Ids PROVE LinhaCiclo(a)'
      <3>0. LinhaCiclo(a) /\ \A c \in Canais : linha[a][c] \in Linha
        BY DEF CicloInv, CalaInv, EntregaInv, TypeOK
      <3>1. CASE a \in desp[p].ids
        <4>1. ~(Viva(a) \/ alerta[a].rec)
          BY <1>0, <1>6, <3>1 DEF DespCiclo, DispensarLinhas, Viva
        <4>2. ASSUME NEW c \in Canais PROVE linha'[a][c].status # "sem_canal"
          <5>1. \/ linha'[a][c] = linha[a][c]
                \/ linha'[a][c] = [linha[a][c] EXCEPT !.status = desp[p].caso, !.prox = 0]
            BY <2>0
          <5>2. \/ linha'[a][c].status = linha[a][c].status
                \/ linha'[a][c].status = desp[p].caso
            BY <3>0, <5>1 DEF Linha
          <5>. QED BY <1>2, <3>0, <5>2 DEF LinhaCiclo
        <4>. QED BY <2>1, <4>1, <4>2 DEF LinhaCiclo, Viva
      <3>2. CASE a \notin desp[p].ids
        <4>1. \A c \in Canais : linha'[a][c] = linha[a][c]
          BY <2>0, <3>2
        <4>. QED BY <2>1, <3>0, <4>1 DEF LinhaCiclo, Fieis, Viva
      <3>. QED BY <3>1, <3>2
    <2>3. DespCiclo(p)'
      BY <1>3, <1>6 DEF DispensarLinhas
    <2>. QED BY <1>1, <2>2, <2>3 DEF CicloInv, UmProcesso
  <1>. QED BY <1>4, <1>5, <1>6

LEMMA LinhaCicloIgual ==
  ASSUME NEW a, LinhaCiclo(a), linha'[a] = linha[a], envio'[a] = envio[a],
         alerta'[a].status = alerta[a].status, alerta'[a].rec = alerta[a].rec
  PROVE  LinhaCiclo(a)'
  BY DEF LinhaCiclo, Fieis, Viva

LEMMA CicloRetomar ==
  ASSUME UmProcesso, ~BancoFalha, CicloInv, EntregaInv', tardio' = {}, NEW p \in Processos,
         RetomarLer(p) \/ RetomarAlertas(p) \/ RetomarLinhas(p)
  PROVE  CicloInv' /\ \A a \in Ids : Comum(a)
  <1>0. /\ CalaInv /\ desp \in [Processos -> Desp] /\ desp[p] \in Registro /\ desp[p] \in Desp
        /\ Resposta = {TRUE}
    BY DEF CicloInv, CalaInv, EntregaInv, TypeOK, Desp, Resposta
  <1>1. CalaInv' /\ \A a \in Ids : Comum(a)
    BY <1>0, CalaRetomar
  <1>2. desp[p].lote = {}
    BY <1>0 DEF RetomarLer, RetomarAlertas, RetomarLinhas, CalaInv, DespCala
  <1>3. ASSUME NEW a \in Ids PROVE LinhasQuietas(a)
    <2>1. CASE linha' = linha
      BY <2>1, LinhaParada
    <2>2. CASE linha' = Relinhadas(desp[p].ids, {"sem_canal", "falhou"}, LinhaDevida)
      BY <2>2 DEF Relinhadas, LinhasQuietas, LinhaDevida
    <2>. QED BY <1>0, <2>1, <2>2 DEF RetomarLer, RetomarAlertas, RetomarLinhas, tabelas
  <1>4. /\ desp'[p].lote = {}
        /\ desp'[p].pc \in {"retoma", "retoma_alertas", "retoma_linhas", "reivindica"}
    <2>1. CASE RetomarLer(p)
      <3>. DEFINE prova == IF desp[p].caso = "falhou" THEN desp[p].provados
                           ELSE IF canal[p].estado = "ok" THEN canal[p].verificado ELSE {}
                  presos == Presos(desp[p].caso, prova)
                  lidos == [desp[p] EXCEPT !.ids = presos, !.provados = prova,
                                           !.pc = "retoma_alertas"]
                  sai   == [desp[p] EXCEPT !.pc = "reivindica", !.caso = "dispensado"]
      <3>1. desp'[p] \in {lidos, sai, DepoisDeRetomar(lidos)}
        BY <1>0, <2>1 DEF RetomarLer
      <3>. HIDE DEF prova, presos
      <3>2. /\ lidos.lote = {} /\ lidos.pc = "retoma_alertas"
            /\ sai.lote = {} /\ sai.pc = "reivindica"
            /\ DepoisDeRetomar(lidos).lote = {}
            /\ DepoisDeRetomar(lidos).pc \in {"retoma", "reivindica"}
        BY <1>0, <1>2 DEF DepoisDeRetomar, Registro
      <3>. HIDE DEF lidos, sai
      <3>. QED BY <3>1, <3>2
    <2>2. CASE RetomarAlertas(p)
      <3>1. desp' = [desp EXCEPT ![p] = [@ EXCEPT !.pc = "retoma_linhas"]]
        BY <1>0, <2>2 DEF RetomarAlertas
      <3>. QED BY <1>0, <1>2, <3>1 DEF Registro
    <2>3. CASE RetomarLinhas(p)
      <3>1. desp'[p] = DepoisDeRetomar(desp[p])
        BY <1>0, <2>3 DEF RetomarLinhas
      <3>. QED BY <1>0, <1>2, <3>1, DepoisSolto
    <2>. QED BY <2>1, <2>2, <2>3
  <1>. QED BY <1>1, <1>3, <1>4, SoltoCiclo, PassoDespCiclo

\* a row that is due is one somebody is still to be told of: its lines are faithful
LEMMA CicloClaim ==
  ASSUME UmProcesso, CicloInv, EntregaInv', tardio' = {}, NEW p \in Processos, ClaimBatch(p)
  PROVE  CicloInv' /\ \A a \in Ids : Comum(a)
  <1>0. CalaInv /\ desp \in [Processos -> Desp] /\ desp[p] \in Registro
    BY DEF CicloInv, CalaInv, EntregaInv, TypeOK, Desp
  <1>1. CalaInv' /\ \A a \in Ids : Comum(a)
    BY <1>0, CalaClaim
  <1>2. UNCHANGED <<linha, envio>> /\ \A a \in Ids : LinhasQuietas(a)
    BY LinhaParada DEF ClaimBatch, externo
  <1>3. CASE desp' = [desp EXCEPT ![p] = DespDorme]
    <2>1. desp'[p].pc = "dorme" /\ desp'[p].lote = {}
      BY <1>0, <1>3 DEF DespDorme, DespInicio
    <2>. QED BY <1>1, <1>2, <2>1, SoltoCiclo, PassoDespCiclo
  <1>4. CASE desp' # [desp EXCEPT ![p] = DespDorme]
    <2>1. PICK S : /\ S \subseteq {a \in Ids : Vencida(a)}
                   /\ desp' = [desp EXCEPT ![p] = [@ EXCEPT !.pc = "prepara", !.lote = S]]
      BY <1>4 DEF ClaimBatch
    <2>2. desp'[p].pc = "prepara" /\ desp'[p].lote = S
      BY <1>0, <2>1 DEF Registro
    <2>3. ASSUME NEW a \in S PROVE Fieis(a, linha[a])'
      <3>1. a \in Ids /\ LinhaCiclo(a) /\ (Viva(a) \/ alerta[a].rec)
        BY <2>1 DEF CicloInv, Vencida, Gravada, Viva
      <3>. QED BY <1>2, <3>1 DEF LinhaCiclo, Fieis
    <2>4. DespCiclo(p)'
      BY <2>2, <2>3 DEF DespCiclo, EmMaos
    <2>. QED BY <1>1, <1>2, <2>4, PassoDespCiclo
  <1>. QED BY <1>3, <1>4

LEMMA ProximoCiclo ==
  ASSUME NEW p \in Processos, DespCiclo(p), desp'[p] = Proximo(p), UNCHANGED <<linha, envio>>
  PROVE  DespCiclo(p)'
  <1>1. desp'[p].lote \subseteq desp[p].lote /\ desp'[p].pc \in {"dorme", "prepara"}
    BY ProximoSolto
  <1>. QED BY <1>1 DEF DespCiclo, EmMaos, Fieis

\* A process without a channel settles the row as "sem_canal", and nobody was told of it.
LEMMA SemCanalVive ==
  ASSUME NEW a \in Ids, envio' = envio, Gravada(a), ~Avisada(a), alerta[a] \in Alerta,
         alerta[a].delivery = "pendente",
         alerta'[a] = [alerta[a] EXCEPT !.delivery = "sem_canal", !.prox = 0]
  PROVE  Ciclo!Passo(Vida[a], Vida'[a])
  <1>. DEFINE s == alerta[a].status   r == alerta[a].rec
  <1>1. Avisada(a) = FALSE /\ Avisada(a)' = FALSE
    BY DEF Avisada
  <1>2. /\ alerta'[a].status = s /\ alerta'[a].rec = r /\ alerta'[a].delivery = "sem_canal"
        /\ Gravada(a)'
    BY DEF Alerta, Gravada
  <1>3. PICK v : v = FALSE
    OBVIOUS
  <1>4. Vida[a] = Retrato(s, "pendente", v, r) /\ Vida'[a] = Retrato(s, "sem_canal", v, r)
    BY <1>1, <1>2, <1>3, VidaRetrato
  <1>. HIDE DEF s, r
  <1>. QED BY <1>3, <1>4, RetratoMuda DEF Ciclo!Passo, Ciclo!Conclui

LEMMA CicloGarantir ==
  ASSUME UmProcesso, ~BancoFalha, CicloInv, EntregaInv', tardio' = {}, NEW p \in Processos,
         GarantirLinhas(p)
  PROVE  CicloInv' /\ \A a \in Ids : Comum(a)
  <1>0. /\ CalaInv /\ TypeOK /\ desp \in [Processos -> Desp] /\ desp[p] \in Registro
        /\ linha \in [Ids -> [Canais -> Linha]] /\ DespCiclo(p)
    BY DEF CicloInv, CalaInv, EntregaInv, TypeOK, Desp
  <1>1. CalaInv' /\ \A b \in Ids : Comum(b)
    BY <1>0, CalaGarantir
  <1>2. desp[p].pc = "prepara"
    BY DEF GarantirLinhas
  <1>3. PICK a \in Ids : a = Atual(p)
    BY <1>0, <1>2, AtualNoLote
  <1>4. CASE desp' = [desp EXCEPT ![p] = Proximo(p)] /\ linha' = linha
    <2>1. desp'[p] = Proximo(p)
      BY <1>0, <1>4
    <2>2. envio' = envio
      BY DEF GarantirLinhas, externo
    <2>3. DespCiclo(p)'
      BY <1>0, <1>2, <1>4, <2>1, <2>2, ProximoCiclo
    <2>. QED BY <1>1, <1>4, <2>3, LinhaParada, PassoDespCiclo
  <1>5. CASE ~(desp' = [desp EXCEPT ![p] = Proximo(p)] /\ linha' = linha)
    <2>. DEFINE faltam == {c \in canal[p].ativos : linha[a][c].status = "ausente"}
                novas  == [c \in Canais |-> IF c \in faltam THEN LinhaDevida ELSE linha[a][c]]
    <2>1. linha' = [linha EXCEPT ![a] = novas] /\ desp' = desp
      BY <1>0, <1>3, <1>5 DEF GarantirLinhas
    <2>2. linha'[a] = novas /\ \A b \in Ids : b # a => linha'[b] = linha[b]
      BY <1>0, <2>1
    <2>3. \A c \in Canais : novas[c].status \in {linha[a][c].status, "pendente"}
      BY DEF LinhaDevida
    <2>. HIDE DEF novas
    <2>4. \A b \in Ids : LinhasQuietas(b)
      BY <2>2, <2>3 DEF LinhasQuietas
    <2>5. \A b \in desp[p].lote : Fieis(b, linha[b])'
      <3>1. desp[p].lote \subseteq Ids
        BY <1>0 DEF Registro
      <3>. QED BY <1>0, <1>1, <2>4, <3>1, FieisFicam DEF DespCiclo
    <2>6. DespCiclo(p)'
      BY <1>2, <2>1, <2>5 DEF DespCiclo, EmMaos
    <2>. QED BY <1>1, <2>4, <2>6, PassoDespCiclo
  <1>. QED BY <1>1, <1>4, <1>5

LEMMA CicloPreparar ==
  ASSUME UmProcesso, ~BancoFalha, CicloInv, EntregaInv', tardio' = {}, NEW p \in Processos,
         Preparar(p)
  PROVE  CicloInv' /\ \A a \in Ids : Ciclo!Passo(Vida[a], Vida'[a])
  <1>0. /\ CalaInv /\ TypeOK /\ desp \in [Processos -> Desp] /\ desp[p] \in Registro
        /\ alerta \in [Ids -> Alerta] /\ linha \in [Ids -> [Canais -> Linha]]
        /\ DespCiclo(p) /\ \A b \in Ids : LinhaCiclo(b)
    BY DEF CicloInv, CalaInv, EntregaInv, TypeOK, Desp
  <1>1. /\ CalaInv'
        /\ \A b \in Ids :
             \/ Comum(b)
             \/ /\ envio' = envio /\ Gravada(b) /\ ~Avisada(b)
                /\ alerta[b].delivery = "pendente"
                /\ alerta'[b] = [alerta[b] EXCEPT !.delivery = "sem_canal", !.prox = 0]
    BY <1>0, CalaPreparar
  <1>2. \A b \in Ids : Ciclo!Passo(Vida[b], Vida'[b])
    BY <1>0, <1>1, ComumVive, SemCanalVive
  <1>3. UNCHANGED envio /\ desp[p].pc = "prepara"
    BY DEF Preparar, externo
  <1>4. PICK a \in Ids : a = Atual(p) /\ a \in desp[p].lote
    BY <1>0, <1>3, AtualNoLote
  <1>5. CASE desp' = [desp EXCEPT ![p] = Proximo(p)]
    <2>0. linha' = linha
      BY DEF Preparar
    <2>1. DespCiclo(p)'
      <3>1. desp'[p] = Proximo(p)
        BY <1>0, <1>5
      <3>. QED BY <1>0, <1>3, <2>0, <3>1, ProximoCiclo
    <2>2. ASSUME NEW b \in Ids PROVE LinhaCiclo(b)'
      <3>1. \/ alerta'[b] = alerta[b]
            \/ alerta'[b] = [alerta[b] EXCEPT !.delivery = "sem_canal", !.prox = 0]
        BY <1>0 DEF Preparar
      <3>2. alerta'[b].status = alerta[b].status /\ alerta'[b].rec = alerta[b].rec
        BY <1>0, <3>1 DEF Alerta
      <3>. QED BY <1>0, <1>3, <2>0, <3>2, LinhaCicloIgual
    <2>. QED BY <1>1, <1>2, <2>1, <2>2 DEF CicloInv, UmProcesso
  <1>6. CASE desp' # [desp EXCEPT ![p] = Proximo(p)]
    <2>. DEFINE lin    == linha[a]
                faltam == {c \in canal[p].ativos : Devida(lin[c])}
                r      == [desp[p] EXCEPT !.lin = lin, !.faltam = faltam, !.t = 0,
                             !.marcaram = {}, !.tentou = faltam # {}, !.entregou = FALSE,
                             !.pc = IF faltam = {} THEN "consolida" ELSE "envia"]
    <2>1. linha' = linha /\ alerta' = alerta /\ desp' = [desp EXCEPT ![p] = r]
      BY <1>4, <1>6 DEF Preparar
    <2>2. r.lin = lin /\ r.lote = desp[p].lote /\ r.pc \in {"envia", "consolida"}
      BY <1>0 DEF Registro
    <2>. HIDE DEF r
    <2>3. /\ desp'[p].lin = lin /\ desp'[p].lote = desp[p].lote
          /\ desp'[p].pc \in {"envia", "consolida"} /\ Atual(p)' = a
      BY <1>0, <1>4, <2>1, <2>2 DEF Atual
    <2>4. \A b \in Ids : Comum(b) /\ LinhasQuietas(b)
      BY <1>3, <2>1, ComumParada, LinhaParada
    <2>5. desp[p].lote \subseteq Ids
      BY <1>0 DEF Registro
    <2>6. \A b \in desp[p].lote : Fieis(b, linha[b])'
      BY <1>0, <2>4, <2>5, FieisFicam DEF DespCiclo
    <2>7. Fieis(a, desp[p].lin)' /\ \A c \in Canais : desp'[p].lin[c].status # "sem_canal"
      BY <1>0, <1>4, <2>1, <2>3, <2>6 DEF Fieis, LinhaCiclo
    <2>8. DespCiclo(p)'
      BY <2>3, <2>6, <2>7 DEF DespCiclo
    <2>. QED BY <1>1, <1>2, <2>4, <2>8, PassoDespCiclo
  <1>. QED BY <1>5, <1>6

\* An acceptance is recorded by the channel while the row is pending.
LEMMA EntregueVive ==
  ASSUME NEW a \in Ids, alerta'[a] = alerta[a], Gravada(a) => alerta[a].delivery = "pendente",
         Avisada(a) => Avisada(a)'
  PROVE  Ciclo!Passo(Vida[a], Vida'[a])
  <1>. DEFINE s == alerta[a].status   r == alerta[a].rec
  <1>1. CASE Gravada(a)
    <2>1. PICK v, w : v = Avisada(a) /\ w = Avisada(a)'
      OBVIOUS
    <2>2. v = w \/ w = TRUE
      BY <2>1 DEF Avisada
    <2>3. Vida[a] = Retrato(s, "pendente", v, r) /\ Vida'[a] = Retrato(s, "pendente", w, r)
      BY <1>1, <2>1, VidaRetrato DEF Gravada
    <2>. HIDE DEF s, r
    <2>. QED BY <2>2, <2>3, RetratoMuda DEF Ciclo!Passo, Ciclo!Sai
  <1>2. CASE ~Gravada(a)
    BY <1>2, VidaRetrato DEF Gravada, Ciclo!Passo
  <1>. QED BY <1>1, <1>2

LEMMA CicloEntregar ==
  ASSUME UmProcesso, ~BancoFalha, CicloInv, EntregaInv', tardio' = {}, NEW p \in Processos,
         Entregar(p)
  PROVE  CicloInv' /\ \A a \in Ids : Ciclo!Passo(Vida[a], Vida'[a])
  <1>0. /\ CalaInv /\ DespCiclo(p) /\ (\A b \in Ids : LinhaCiclo(b)) /\ desp[p].lote \subseteq Ids
    BY DEF CicloInv, CalaInv, EntregaInv, TypeOK, Desp, Registro
  <1>1. /\ CalaInv'
        /\ \A b \in Ids :
             \/ Comum(b)
             \/ /\ alerta'[b] = alerta[b]
                /\ Gravada(b) => alerta[b].delivery = "pendente"
                /\ Avisada(b) => Avisada(b)'
    BY <1>0, CalaEntregar
  <1>2. \A b \in Ids : Ciclo!Passo(Vida[b], Vida'[b])
    BY <1>0, <1>1, ComumVive, EntregueVive
  <1>3. PICK a \in Ids, c \in Canais, sucesso \in BOOLEAN :
           /\ a = Atual(p) /\ a \in desp[p].lote /\ desp[p].pc = "envia"
           /\ \A b \in Ids : b # a => linha'[b] = linha[b] /\ envio'[b] = envio[b]
           /\ \A x \in Canais : x # c => /\ linha'[a][x] = linha[a][x]
                                         /\ envio'[a][x] = envio[a][x]
                                         /\ desp'[p].lin[x] = desp[p].lin[x]
           /\ envio'[a][c] = IF sucesso THEN 0 ELSE envio[a][c]
           /\ desp'[p].lin[c].status \in {"enviado", "falhou", "pendente"}
           /\ sucesso <=> desp'[p].lin[c].status = "enviado"
           /\ \/ linha'[a][c] = linha[a][c]
              \/ linha'[a][c].status = desp'[p].lin[c].status
           /\ desp'[p].pc = IF desp'[p].faltam = {} THEN "consolida" ELSE "envia"
           /\ desp'[p].lote = desp[p].lote
    BY FormaEntregar DEF CicloInv, CalaInv, EntregaInv
  <1>4. alerta' = alerta
    BY DEF Entregar
  <1>5. Fieis(a, linha[a]) => Fieis(a, linha[a])'
    BY <1>3 DEF Fieis, Nunca
  <1>6. Fieis(a, desp[p].lin) => Fieis(a, desp[p].lin)'
    BY <1>3 DEF Fieis, Nunca
  <1>7. ASSUME NEW b \in Ids PROVE LinhaCiclo(b)'
    <2>1. CASE b # a
      BY <1>0, <1>3, <1>4, <2>1, LinhaCicloIgual
    <2>2. CASE b = a
      <3>1. \A x \in Canais : linha'[a][x].status # "sem_canal"
        BY <1>0, <1>3 DEF LinhaCiclo
      <3>. QED BY <1>0, <1>4, <1>5, <2>2, <3>1 DEF LinhaCiclo, Viva
    <2>. QED BY <2>1, <2>2
  <1>8. DespCiclo(p)'
    <2>1. EmMaos(p) /\ EmMaos(p)' /\ Atual(p)' = a
      BY <1>3 DEF EmMaos, Atual
    <2>2. Fieis(a, desp[p].lin)'
      BY <1>0, <1>3, <1>6, <2>1 DEF DespCiclo
    <2>3. \A x \in Canais : desp'[p].lin[x].status # "sem_canal"
      BY <1>0, <1>3, <2>1 DEF DespCiclo
    <2>4. ASSUME NEW b \in desp[p].lote PROVE Fieis(b, linha[b])'
      BY <1>0, <1>3, <1>5 DEF DespCiclo, Fieis
    <2>. QED BY <1>3, <2>1, <2>2, <2>3, <2>4 DEF DespCiclo, EmMaos
  <1>. QED BY <1>1, <1>2, <1>7, <1>8 DEF CicloInv, UmProcesso

\* What consolidar derives from faithful lines is what the life of a row allows:
\* "enviado" only of a row a channel accepted, and never "sem_canal".
LEMMA ConsolidadoVive ==
  ASSUME CicloInv, NEW p \in Processos, desp[p].pc = "consolida",
         NEW a \in Ids, a = Atual(p), envio' = envio,
         Gravada(a), alerta[a].delivery = "pendente",
         alerta'[a].rec = alerta[a].rec, alerta'[a].status = alerta[a].status,
         alerta'[a].delivery = Consolidado(desp[p].lin, canal[p].ativos)
  PROVE  Ciclo!Passo(Vida[a], Vida'[a])
  <1>. DEFINE s == alerta[a].status   r == alerta[a].rec
              lin == desp[p].lin   ativos == canal[p].ativos
              e == Consolidado(lin, ativos)
  <1>1. /\ EmMaos(p) /\ ativos # {} /\ ativos \in SUBSET Canais /\ lin \in [Canais -> Linha]
        /\ \A c \in ativos : lin[c].status \notin {"ausente", "dispensado", "sem_canal"}
        /\ Fieis(a, lin)
    <2>1. TypeOK /\ DespCerto(p) /\ DespCiclo(p) /\ EmMaos(p)
      BY DEF CicloInv, CalaInv, EntregaInv, EmMaos
    <2>2. ativos \in Configs /\ lin \in [Canais -> Linha]
      BY <2>1 DEF TypeOK, Canal, Desp, Registro
    <2>3. ativos \in SUBSET Canais
      BY <2>2, ConstantesOk
    <2>. QED BY <2>1, <2>2, <2>3 DEF DespCerto, DespCiclo, Fieis
  <1>2. PICK v : v = Avisada(a) /\ v = Avisada(a)'
    <2>1. Avisada(a) = Avisada(a)'
      BY DEF Avisada
    <2>. QED BY <2>1
  <1>3. e \in {"pendente", "falhou", "enviado"} /\ (e = "enviado" => v = TRUE)
    <2>. HIDE DEF lin, ativos
    <2>1. e # "sem_canal"
      BY <1>1 DEF Consolidado
    <2>2. ASSUME e = "enviado" PROVE v = TRUE
      <3>1. PICK c \in ativos : lin[c].status = "enviado"
        BY <1>1, <2>2, ConsolidadoEnviado
      <3>. QED BY <1>1, <1>2, <3>1 DEF Fieis, Avisada
    <2>3. e \in {"pendente", "sem_canal", "falhou", "enviado"}
      BY DEF Consolidado
    <2>. HIDE DEF e
    <2>. QED BY <2>1, <2>2, <2>3
  <1>4. Vida[a] = Retrato(s, "pendente", v, r) /\ Vida'[a] = Retrato(s, e, v, r)
    BY <1>2, VidaRetrato DEF Gravada
  <1>. HIDE DEF s, r, e
  <1>. QED BY <1>3, <1>4, RetratoMuda DEF Ciclo!Passo, Ciclo!Conclui

LEMMA CicloConsolidar ==
  ASSUME UmProcesso, ~BancoFalha, CicloInv, EntregaInv', tardio' = {}, NEW p \in Processos,
         Consolidar(p)
  PROVE  CicloInv' /\ \A a \in Ids : Ciclo!Passo(Vida[a], Vida'[a])
  <1>0. /\ CalaInv /\ TypeOK /\ DespCiclo(p) /\ (\A b \in Ids : LinhaCiclo(b))
        /\ desp \in [Processos -> Desp]
    BY DEF CicloInv, CalaInv, EntregaInv, TypeOK
  <1>1. /\ CalaInv'
        /\ \A b \in Ids :
             \/ Comum(b)
             \/ /\ b = Atual(p) /\ envio' = envio
                /\ Gravada(b) /\ alerta[b].delivery = "pendente"
                /\ alerta'[b].rec = alerta[b].rec /\ alerta'[b].status = alerta[b].status
                /\ alerta'[b].delivery = Consolidado(desp[p].lin, canal[p].ativos)
    BY <1>0, CalaConsolidar
  <1>2. UNCHANGED <<linha, envio>> /\ desp[p].pc = "consolida"
    BY DEF Consolidar, externo
  <1>3. \A b \in Ids : Ciclo!Passo(Vida[b], Vida'[b])
    BY <1>0, <1>1, <1>2, ComumVive, ConsolidadoVive
  <1>4. PICK a \in Ids, gravou \in BOOLEAN :
          /\ \A b \in Ids : b # a => alerta'[b] = alerta[b]
          /\ gravou => alerta'[a].rec = alerta[a].rec /\ alerta'[a].status = alerta[a].status
          /\ ~gravou => alerta'[a] = alerta[a]
          /\ desp' = [desp EXCEPT ![p] = Proximo(p)]
    BY <1>0, FormaConsolidar
  <1>5. \A b \in Ids : LinhaCiclo(b)'
    BY <1>0, <1>2, <1>4, LinhaCicloIgual
  <1>6. DespCiclo(p)'
    BY <1>0, <1>2, <1>4, ProximoCiclo
  <1>. QED BY <1>1, <1>3, <1>5, <1>6 DEF CicloInv, UmProcesso

LEMMA CicloInicial == Init => CicloInv
  <1>. SUFFICES ASSUME Init PROVE CicloInv
    OBVIOUS
  <1>1. CalaInv
    BY CalaInicial
  <1>2. ASSUME NEW a \in Ids PROVE LinhaCiclo(a)
    <2>1. \A c \in Canais : linha[a][c].status = "ausente"
      BY DEF Init, SemLinhas, LinhaAusente
    <2>. QED BY <2>1 DEF LinhaCiclo, Fieis
  <1>3. ASSUME NEW p \in Processos PROVE DespCiclo(p)
    <2>1. desp[p].pc = "inicia" /\ desp[p].lote = {}
      BY DEF Init, DespInicio
    <2>. QED BY <2>1 DEF DespCiclo, EmMaos
  <1>. QED BY <1>1, <1>2, <1>3 DEF CicloInv

LEMMA VidaInicial == Init => Ciclo!Init
  <1>. SUFFICES ASSUME Init PROVE Vida = [a \in Ids |-> Ciclo!Ausente]
    BY DEF Ciclo!Init
  <1>1. \A a \in Ids : ~Gravada(a)
    BY DEF Init, Vazia, Nova, Gravada
  <1>. QED BY <1>1 DEF Vida, Ciclo!Ausente

LEMMA CicloPasso ==
  ASSUME UmProcesso, MaxQuedas = 0, ~BancoFalha, CicloInv, tardio' = {}, [Next]_vars
  PROVE  CicloInv' /\ [Ciclo!Next]_Vida
  <1>0. CalaInv /\ EntregaInv' /\ TypeOK
    BY EntregaPasso DEF CicloInv, CalaInv, EntregaInv
  <1>1. CASE UNCHANGED vars
    <2>1. UNCHANGED <<alerta, linha, envio, desp, canal>>
      BY <1>1 DEF vars
    <2>2. \A a \in Ids : Comum(a) /\ LinhasQuietas(a)
      BY <2>1, ComumParada, LinhaParada
    <2>3. CalaInv'
      BY <1>0, <1>1, CalaPasso
    <2>4. CicloInv'
      BY <2>1, <2>2, <2>3, PassoCiclo DEF MesmoTudo, Mesmo
    <2>5. UNCHANGED Vida
      BY <2>1 DEF Vida, Gravada, Avisada
    <2>. QED BY <2>4, <2>5
  <1>2. CASE Next
    <2>1. CicloInv' /\ \A a \in Ids : Ciclo!Passo(Vida[a], Vida'[a])
      <3>1. CASE \E p \in Processos : Despachante(p)
        <4>1. PICK p \in Processos : Despachante(p)
          BY <3>1
        <4>. QED BY <1>0, <4>1, ComumVive, CicloFechar, CicloDispensar, CicloRetomar, CicloClaim,
                    CicloGarantir, CicloPreparar, CicloEntregar, CicloConsolidar DEF Despachante
      <3>2. CASE \/ \E d \in Detectores : Detector(d)
                 \/ \E o \in Operadores : AlertDaRota(o) \/ AlertGravar(o)
                 \/ \E p \in Processos : VerificarCanal(p)
                 \/ PruneAlerts \/ Tick
        BY <1>0, <3>2, ComumVive, CicloAlheio
      <3>. QED BY <1>0, <1>2, <3>1, <3>2, SemQueda DEF Next
    <2>2. DOMAIN Vida' = Ids
      BY DEF Vida
    <2>. QED BY <2>1, <2>2 DEF Ciclo!Next
  <1>. QED BY <1>1, <1>2

\* The queue implements the life of an alert that docs/api.md tables: with one process
\* that neither crashes nor loses a write, and as long as nobody acknowledges a row
\* already resolved, every statement of detectors, dispatcher, operators and retention
\* moves each row by a step of AlertLifecycle or not at all.
THEOREM CumpreCicloSempre ==
  UmProcesso /\ MaxQuedas = 0 /\ ~BancoFalha /\ Spec /\ [](tardio = {}) => CumpreCiclo
  <1>1. SUFFICES ASSUME UmProcesso, MaxQuedas = 0, ~BancoFalha
                 PROVE  Spec /\ [](tardio = {}) => CumpreCiclo
    OBVIOUS
  <1>2. CicloInv /\ (tardio = {})' /\ [Next]_vars => CicloInv' /\ [Ciclo!Next]_Vida
    BY <1>1, CicloPasso
  <1>. QED BY <1>2, CicloInicial, VidaInicial, PTL DEF Spec, CumpreCiclo, Ciclo!Spec

-----------------------------------------------------------------------------
(* The cooldown of a channel.                                               *)

\* no process has more than one active channel
UmCanal == \A A \in Configs : \A c, e \in A : c = e

\* what a line says that is owed, or may be owed again
PorEntregar == {"pendente", "falhou", "sem_canal"}

\* the last message of the row was the end of its delivery: what its lines say now
\* counts only once it is put back in the queue
Assente(a) == alerta[a].delivery = "enviado" \/ PorContar(a)

\* A line that may still be delivered is a cooldown away from the last message, or waits
\* for the row to be announced again; last_notified_at is no older than that message but
\* for the time a delivery takes.
LinhaRitmo(a) ==
  Gravada(a) =>
    \A c \in Canais :
      /\ linha[a][c].status \in PorEntregar => Longe(a, c) \/ Assente(a)
      /\ linha[a][c].status = "ausente" => envio[a][c] = Nunca
      /\ envio[a][c] # Nunca =>
           \/ PorContar(a)
           \/ alerta[a].notif # Nunca /\ alerta[a].notif =< envio[a][c] + Duracao

\* The row to announce again is quiet since a cooldown, and after its UPDATE until the
\* dispatcher delivers it.
DetRitmo(d) ==
  LET i == det[d].id IN
  /\ det[d].pc = "renotifica" /\ det[d].avisar /\ Gravada(i) =>
       /\ alerta[i].chave = ChaveDe[d] /\ alerta[i].delivery = "enviado"
       /\ \A c \in Canais : Longe(i, c)
  /\ det[d].pc = "reabre" =>
       /\ i \in Ids /\ ~Fresca(i)
       /\ Gravada(i) => /\ alerta[i].chave = ChaveDe[d]
                        /\ \A c \in Canais : Longe(i, c) \/ Assente(i)

\* What a dispatcher is about to send is a cooldown away, a message accepted ends the
\* delivery of its row, and no row that was sent is resumed.
DespRitmo(p) ==
  /\ desp[p].pc = "envia" => \A c \in desp[p].faltam : Longe(Atual(p), c)
  /\ EmMaos(p) /\ desp[p].entregou =>
       /\ desp[p].pc = "consolida"
       /\ \A c \in canal[p].ativos : desp[p].lin[c].status = "enviado"
  /\ desp[p].pc = "retoma" => desp[p].caso \in {"sem_canal", "falhou"}
  /\ desp[p].pc = "retoma_alertas" =>
       \A a \in desp[p].ids : Gravada(a) => alerta[a].delivery # "enviado"

RitmoInv ==
  /\ CalaInv
  /\ \A a \in Ids : LinhaRitmo(a)
  /\ \A d \in Detectores : DetRitmo(d)
  /\ \A p \in Processos : DespRitmo(p)

\* What a step makes of a row it does not deliver.
Sereno(a) ==
  /\ envio'[a] = envio[a]
  /\ Fresca(a) => linha'[a] = linha[a]
  /\ ~Fresca(a) => ~Fresca(a)'
  /\ ~Fresca(a) /\ Gravada(a)' =>
       /\ Gravada(a)
       /\ alerta'[a].chave = alerta[a].chave /\ alerta'[a].notif = alerta[a].notif
       /\ alerta[a].delivery = "enviado" => alerta'[a].delivery = "enviado"
       /\ \A c \in Canais :
            /\ linha'[a][c].status \in PorEntregar =>
                 linha[a][c].status \in PorEntregar \/ Longe(a, c) \/ Assente(a)
            /\ linha'[a][c].status = "ausente" => linha[a][c].status = "ausente"

\* no row is marked as sent
NaoConclui(a) ==
  ~Fresca(a) /\ Gravada(a)' /\ alerta'[a].delivery = "enviado" => alerta[a].delivery = "enviado"

LEMMA SerenoParada ==
  ASSUME NEW a, alerta'[a] = alerta[a], linha'[a] = linha[a], envio'[a] = envio[a]
  PROVE  Sereno(a) /\ NaoConclui(a)
  BY DEF Sereno, NaoConclui, Fresca, Gravada

LEMMA SerenoCampos ==
  ASSUME NEW a, linha'[a] = linha[a], envio'[a] = envio[a], ~Fresca(a), ~Fresca(a)',
         Gravada(a)' =>
           /\ Gravada(a)
           /\ alerta'[a].chave = alerta[a].chave /\ alerta'[a].notif = alerta[a].notif
           /\ alerta'[a].delivery = alerta[a].delivery
  PROVE  Sereno(a) /\ NaoConclui(a)
  BY DEF Sereno, NaoConclui

LEMMA SerenoFecha ==
  ASSUME TypeOK, NEW S, NEW a \in Ids, alerta'[a] = Resolvidas(S)[a],
         linha'[a] = linha[a], envio'[a] = envio[a]
  PROVE  Sereno(a) /\ NaoConclui(a)
  <1>0. alerta[a] \in Alerta
    BY DEF TypeOK
  <1>1. CASE alerta'[a] = alerta[a]
    BY <1>1, SerenoParada
  <1>2. CASE Viva(a) /\ alerta'[a] = [alerta[a] EXCEPT !.status = "resolved"]
    <2>1. /\ alerta'[a].chave = alerta[a].chave /\ alerta'[a].notif = alerta[a].notif
          /\ alerta'[a].status = "resolved" /\ alerta'[a].delivery = alerta[a].delivery
      BY <1>0, <1>2 DEF Alerta
    <2>. QED BY <1>2, <2>1, SerenoCampos DEF Gravada, Viva, Fresca
  <1>. QED BY <1>1, <1>2 DEF Resolvidas

\* a row in hand while nothing of it was accepted is pending and not concluded
LEMMA SoEsta ==
  ASSUME UmProcesso, CalaInv, NEW p \in Processos, ~EmMaos(p) \/ ~desp[p].entregou, NEW a
  PROVE  ~PorContar(a)
  BY DEF UmProcesso, PorContar

LEMMA SerenoLinha ==
  ASSUME EntregaInv, NEW a \in Ids, Sereno(a), LinhaRitmo(a), PorContar(a) => PorContar(a)'
  PROVE  LinhaRitmo(a)'
  <1>1. CASE Fresca(a)
    <2>1. \A c \in Canais : linha'[a][c].status = "ausente" /\ envio'[a][c] = Nunca
      BY <1>1 DEF EntregaInv, LinhaCerta, Sereno
    <2>. QED BY <2>1 DEF LinhaRitmo, PorEntregar
  <1>2. CASE ~Fresca(a)
    <2>1. ASSUME Gravada(a)', NEW c \in Canais
          PROVE  /\ linha'[a][c].status \in PorEntregar => Longe(a, c)' \/ Assente(a)'
                 /\ linha'[a][c].status = "ausente" => envio'[a][c] = Nunca
                 /\ envio'[a][c] # Nunca =>
                      \/ PorContar(a)'
                      \/ alerta'[a].notif # Nunca /\ alerta'[a].notif =< envio'[a][c] + Duracao
      <3>1. Longe(a, c) => Longe(a, c)'
        BY DEF Sereno, Longe
      <3>2. Assente(a) => Assente(a)'
        BY <1>2, <2>1 DEF Sereno, Assente
      <3>. QED BY <1>2, <2>1, <3>1, <3>2 DEF Sereno, LinhaRitmo
    <2>. QED BY <2>1 DEF LinhaRitmo
  <1>. QED BY <1>1, <1>2

LEMMA SerenoDet ==
  ASSUME EntregaInv, NEW d \in Detectores, DetRitmo(d), det'[d] = det[d],
         \A a \in Ids : PorContar(a) => PorContar(a)',
         det[d].pc \in {"renotifica", "reabre"} => Sereno(det[d].id)
  PROVE  DetRitmo(d)'
  <1>1. PICK i : i = det[d].id
    OBVIOUS
  <1>2. ASSUME det[d].pc = "renotifica", det[d].avisar, Gravada(i)'
        PROVE  /\ alerta'[i].chave = ChaveDe[d] /\ alerta'[i].delivery = "enviado"
               /\ \A c \in Canais : Longe(i, c)'
    <2>1. ~Fresca(i)
      BY <1>1, <1>2 DEF EntregaInv, DetCerto
    <2>. QED BY <1>1, <1>2, <2>1 DEF DetRitmo, Sereno, Longe
  <1>3. ASSUME det[d].pc = "reabre"
        PROVE  /\ i \in Ids /\ ~Fresca(i)'
               /\ Gravada(i)' => /\ alerta'[i].chave = ChaveDe[d]
                                 /\ \A c \in Canais : Longe(i, c)' \/ Assente(i)'
    BY <1>1, <1>3 DEF DetRitmo, Sereno, Longe, Assente
  <1>. QED BY <1>1, <1>2, <1>3 DEF DetRitmo

LEMMA SerenoDesp ==
  ASSUME CalaInv, NEW p \in Processos, DespRitmo(p), MesmoTudo(p),
         \A a \in Ids : Sereno(a) /\ NaoConclui(a)
  PROVE  DespRitmo(p)'
  <1>0. desp[p].ids \subseteq Ids
    BY DEF CalaInv, EntregaInv, TypeOK, Desp, Registro
  <1>1. Atual(p)' = Atual(p)
    BY DEF Atual, MesmoTudo, Mesmo
  <1>2. ASSUME desp[p].pc = "envia", NEW c \in desp[p].faltam PROVE Longe(Atual(p), c)'
    <2>1. PICK a \in Ids : a = Atual(p)
      BY <1>2, AtualNoLote DEF CalaInv, EntregaInv
    <2>. QED BY <1>1, <1>2, <2>1 DEF DespRitmo, Sereno, Longe
  <1>3. ASSUME desp[p].pc = "retoma_alertas", NEW a \in desp[p].ids, Gravada(a)'
        PROVE  alerta'[a].delivery # "enviado"
    BY <1>0, <1>3 DEF CalaInv, DespCala, DespRitmo, Sereno, NaoConclui
  <1>. QED BY <1>1, <1>2, <1>3 DEF DespRitmo, MesmoTudo, Mesmo, EmMaos

LEMMA MesmoConta ==
  ASSUME \A p \in Processos : Mesmo(p) \/ ~EmMaos(p), NEW a, PorContar(a)
  PROVE  PorContar(a)'
  <1>1. PICK p \in Processos : EmMaos(p) /\ a = Atual(p) /\ desp[p].entregou
    BY DEF PorContar
  <1>. QED BY <1>1 DEF PorContar, EmMaos, Atual, Mesmo

\* A step that delivers nothing keeps the invariant.
LEMMA PassoRitmo ==
  ASSUME RitmoInv, CalaInv', NEW X, X \subseteq Ids,
         \A a \in Ids \ X : Sereno(a),
         \A a \in X : LinhaRitmo(a)',
         \A d \in Detectores :
           \/ det'[d] = det[d] /\ (det[d].pc \in {"renotifica", "reabre"} => det[d].id \notin X)
           \/ DetRitmo(d)',
         \A p \in Processos :
           \/ MesmoTudo(p) /\ DespRitmo(p)'
           \/ ~EmMaos(p) /\ DespRitmo(p)'
  PROVE  RitmoInv'
  <1>1. \A a \in Ids : PorContar(a) => PorContar(a)'
    BY MesmoConta DEF MesmoTudo
  <1>2. \A a \in Ids : LinhaRitmo(a)'
    BY <1>1, SerenoLinha DEF RitmoInv, CalaInv
  <1>3. \A d \in Detectores : DetRitmo(d)'
    <2>1. ASSUME NEW d \in Detectores, det'[d] = det[d],
                 det[d].pc \in {"renotifica", "reabre"} => det[d].id \notin X
          PROVE  DetRitmo(d)'
      <3>1. CASE det[d].pc \in {"renotifica", "reabre"} /\ det[d].id \in Ids
        BY <1>1, <2>1, <3>1, SerenoDet DEF RitmoInv, CalaInv
      <3>2. CASE ~(det[d].pc \in {"renotifica", "reabre"} /\ det[d].id \in Ids)
        <4>1. ~(det[d].pc = "renotifica" /\ det[d].avisar) /\ det[d].pc # "reabre"
          BY <3>2 DEF RitmoInv, CalaInv, EntregaInv, DetCerto, DetRitmo
        <4>. QED BY <2>1, <4>1 DEF DetRitmo
      <3>. QED BY <3>1, <3>2
    <2>. QED BY <2>1
  <1>. QED BY <1>2, <1>3 DEF RitmoInv

LEMMA PassoSereno ==
  ASSUME RitmoInv, CalaInv', \A a \in Ids : Sereno(a) /\ NaoConclui(a),
         \A d \in Detectores : det'[d] = det[d] \/ DetRitmo(d)',
         \A p \in Processos : MesmoTudo(p)
  PROVE  RitmoInv'
  <1>1. \A p \in Processos : MesmoTudo(p) /\ DespRitmo(p)'
    BY SerenoDesp DEF RitmoInv
  <1>2. PICK X : X = {}
    OBVIOUS
  <1>. QED BY <1>1, <1>2, PassoRitmo

LEMMA PassoDespRitmo ==
  ASSUME UmProcesso, RitmoInv, CalaInv', \A a \in Ids : Sereno(a), UNCHANGED det,
         NEW p \in Processos, ~EmMaos(p), DespRitmo(p)'
  PROVE  RitmoInv'
  <1>1. \A q \in Processos : ~EmMaos(q) /\ DespRitmo(q)'
    BY DEF UmProcesso
  <1>2. PICK X : X = {}
    OBVIOUS
  <1>. QED BY <1>1, <1>2, PassoRitmo

LEMMA RitmoInicial == Init => RitmoInv
  <1>. SUFFICES ASSUME Init PROVE RitmoInv
    OBVIOUS
  <1>1. \A a \in Ids : LinhaRitmo(a)
    BY DEF Init, Vazia, Nova, LinhaRitmo, Gravada
  <1>2. \A d \in Detectores : DetRitmo(d)
    BY DEF Init, DetOcioso, DetRitmo
  <1>3. \A p \in Processos : DespRitmo(p)
    BY DEF Init, DespInicio, DespRitmo, EmMaos
  <1>. QED BY <1>1, <1>2, <1>3, CalaInicial DEF RitmoInv

-----------------------------------------------------------------------------
(* The steps of the others.                                                 *)

\* a row in the only dispatcher's hands is pending, so a row "enviado" was accepted for
\* the last time when last_notified_at says
LEMMA AvisoLonge ==
  ASSUME RitmoInv, NEW a \in Ids, PodeAvisar(a), NEW c \in Canais
  PROVE  Longe(a, c)
  <1>0. /\ alerta[a].notif \in Int /\ envio[a][c] \in Int /\ Cooldown \in Nat /\ Duracao \in Nat
        /\ TypeOK
    BY ConstantesOk DEF RitmoInv, CalaInv, EntregaInv, TypeOK, Alerta, Nunca
  <1>1. ~PorContar(a)
    <2>1. SUFFICES ASSUME NEW p \in Processos, EmMaos(p), a = Atual(p) PROVE FALSE
      BY DEF PorContar
    <2>2. a \in desp[p].lote
      BY <1>0, <2>1, AtualNoLote DEF EmMaos
    <2>. QED BY <2>2 DEF RitmoInv, CalaInv, DespCala, PodeAvisar, Gravada
  <1>2. LinhaRitmo(a) /\ Gravada(a)
    BY DEF RitmoInv, PodeAvisar, Gravada
  <1>3. envio[a][c] # Nunca => alerta[a].notif # Nunca /\ alerta[a].notif =< envio[a][c] + Duracao
    BY <1>1, <1>2 DEF LinhaRitmo
  <1>. QED BY <1>0, <1>3 DEF PodeAvisar, Longe

LEMMA RitmoEnqueue ==
  ASSUME RitmoInv, CalaInv', NEW d \in Detectores, EnqueueVivo(d)
  PROVE  RitmoInv'
  <1>. DEFINE vivos == {a \in VivasDe(ChaveDe[d]) : alerta[a].visto <= Retomada}
              i     == Max(vivos)
  <1>0. det \in [Detectores -> Det] /\ DetOcioso \in Det /\ TypeOK
    BY DetOciosoTipo DEF RitmoInv, CalaInv, EntregaInv, TypeOK
  <1>1. /\ UNCHANGED <<alerta, linha, envio, desp, canal>>
        /\ \A a \in Ids : Sereno(a) /\ NaoConclui(a)
    BY SerenoParada DEF EnqueueVivo, tabelas, externo
  <1>2. DetRitmo(d)'
    <2>1. CASE det' = [det EXCEPT ![d].pc = "ultimo"]
      <3>1. det'[d].pc = "ultimo"
        BY <1>0, <2>1 DEF Det
      <3>. QED BY <3>1 DEF DetRitmo
    <2>2. CASE /\ vivos # {}
               /\ det' = [det EXCEPT ![d] = [DetOcioso EXCEPT !.pc = "renotifica",
                                               !.id = i, !.avisar = PodeAvisar(i)]]
      <3>1. i \in vivos
        <4>1. vivos \in SUBSET (0..MaxAlertas) /\ MaxAlertas \in Nat
          BY ConstantesOk DEF VivasDe, DaChave, Ids
        <4>. QED BY <2>2, <4>1, MaxPertence
      <3>2. PICK j \in Ids : j = i /\ alerta[j].chave = ChaveDe[d]
        BY <3>1 DEF VivasDe, DaChave
      <3>3. det'[d].pc = "renotifica" /\ det'[d].id = j /\ det'[d].avisar = PodeAvisar(j)
        BY <1>0, <2>2, <3>2 DEF DetOcioso
      <3>4. PodeAvisar(j) => alerta[j].delivery = "enviado" /\ \A c \in Canais : Longe(j, c)
        BY AvisoLonge DEF PodeAvisar
      <3>. QED BY <1>1, <3>2, <3>3, <3>4 DEF DetRitmo, Longe
    <2>. QED BY <2>1, <2>2 DEF EnqueueVivo
  <1>3. \A e \in Detectores : e # d => det'[e] = det[e]
    BY <1>0 DEF EnqueueVivo
  <1>. QED BY <1>0, <1>1, <1>2, <1>3, MesmoTudoAlheio, PassoSereno

LEMMA RitmoRenotificar ==
  ASSUME UmDetectorPorChave, ~BancoFalha, RitmoInv, CalaInv', NEW d \in Detectores,
         Renotificar(d)
  PROVE  RitmoInv'
  <1>0. /\ det \in [Detectores -> Det] /\ DetOcioso \in Det /\ alerta \in [Ids -> Alerta]
        /\ DetRitmo(d) /\ det[d].pc = "renotifica" /\ TypeOK /\ Resposta = {TRUE} /\ DetCerto(d)
    BY DetOciosoTipo DEF RitmoInv, CalaInv, EntregaInv, TypeOK, Renotificar, Resposta
  <1>1. UNCHANGED <<linha, envio, desp, canal>>
    BY DEF Renotificar, externo
  <1>2. PICK i : i = det[d].id
    OBVIOUS
  <1>3. \A p \in Processos : MesmoTudo(p)
    BY <1>0, <1>1, MesmoTudoAlheio
  <1>4. CASE ~det[d].avisar
    <2>1. det'[d] = DetOcioso /\ \A e \in Detectores : e # d => det'[e] = det[e]
      BY <1>0, <1>4 DEF Renotificar
    <2>2. ASSUME NEW a \in Ids PROVE Sereno(a) /\ NaoConclui(a)
      <3>1. \/ alerta'[a] = alerta[a]
            \/ Gravada(a) /\ alerta'[a] = [alerta[a] EXCEPT !.visto = 0]
        BY <1>0, <1>4 DEF Renotificar
      <3>2. CASE Gravada(a) /\ alerta'[a] = [alerta[a] EXCEPT !.visto = 0]
        <4>1. /\ alerta'[a].chave = alerta[a].chave /\ alerta'[a].notif = alerta[a].notif
              /\ alerta'[a].status = alerta[a].status
              /\ alerta'[a].delivery = alerta[a].delivery
          BY <1>0, <3>2 DEF Alerta
        <4>. QED BY <1>1, <3>2, <4>1, SerenoCampos DEF Fresca, Gravada
      <3>. QED BY <1>1, <3>1, <3>2, SerenoParada
    <2>3. DetRitmo(d)'
      BY <2>1 DEF DetRitmo, DetOcioso
    <2>. QED BY <1>3, <2>1, <2>2, <2>3, PassoSereno
  <1>5. CASE det[d].avisar
    <2>1. /\ det'[d].pc = "reabre" /\ det'[d].id = i
          /\ \A e \in Detectores : e # d => det'[e] = det[e]
          /\ i \in Ids /\ ~Fresca(i)
      BY <1>0, <1>2, <1>5 DEF Renotificar, Det, DetCerto
    <2>2. \A a \in Ids : a # i \/ ~Gravada(i) => Sereno(a)
      <3>1. \A a \in Ids : a # i \/ ~Gravada(i) => alerta'[a] = alerta[a]
        BY <1>0, <1>2, <1>5 DEF Renotificar
      <3>. QED BY <1>1, <3>1, SerenoParada
    <2>3. ASSUME Gravada(i)
          PROVE  /\ alerta'[i].chave = ChaveDe[d] /\ alerta[i].chave = ChaveDe[d]
                 /\ alerta'[i].notif = alerta[i].notif
                 /\ alerta'[i].status = alerta[i].status /\ alerta'[i].delivery = "pendente"
                 /\ \A c \in Canais : Longe(i, c)
      <3>1. alerta'[i] = [Devolvida(alerta[i]) EXCEPT !.visto = 0]
        BY <1>0, <1>2, <1>5, <2>1, <2>3 DEF Renotificar
      <3>. QED BY <1>0, <1>2, <1>5, <2>1, <2>3, <3>1 DEF DetRitmo, Devolvida, Alerta
    <2>4. Gravada(i)' => Gravada(i)
      <3>1. ~Gravada(i) => alerta'[i] = alerta[i]
        BY <1>0, <1>2, <1>5 DEF Renotificar
      <3>. QED BY <3>1 DEF Gravada
    <2>5. ~Fresca(i)'
      <3>1. ~Gravada(i) => alerta'[i] = alerta[i]
        BY <1>0, <1>2, <1>5 DEF Renotificar
      <3>. QED BY <2>1, <2>3, <3>1 DEF Fresca, Gravada
    <2>6. DetRitmo(d)'
      BY <1>1, <2>1, <2>3, <2>4, <2>5 DEF DetRitmo, Longe
    <2>7. ASSUME NEW p \in Processos PROVE DespRitmo(p)'
      <3>1. \A a \in Ids : Gravada(a)' /\ alerta'[a].delivery = "enviado" =>
              a # i /\ Gravada(a) /\ alerta[a].delivery = "enviado"
        <4>1. \A a \in Ids : a # i \/ ~Gravada(i) => alerta'[a] = alerta[a]
          BY <1>0, <1>2, <1>5 DEF Renotificar
        <4>. QED BY <2>3, <2>4, <4>1 DEF Gravada
      <3>2. desp[p].ids \subseteq Ids
        BY <1>0 DEF TypeOK, Desp, Registro
      <3>. QED BY <1>1, <3>1, <3>2 DEF RitmoInv, DespRitmo, EmMaos, Atual, Longe
    <2>8. LinhaRitmo(i)'
      <3>1. PorContar(i) => PorContar(i)'
        BY <1>3, MesmoConta DEF MesmoTudo
      <3>2. LinhaRitmo(i)
        BY <2>1 DEF RitmoInv
      <3>. QED BY <1>1, <2>3, <2>4, <3>1, <3>2 DEF LinhaRitmo, Longe
    <2>9. ASSUME NEW e \in Detectores, e # d,
                 det[e].pc \in {"renotifica", "reabre"}, det[e].id = i, Gravada(i)
          PROVE  ~(det[e].pc = "renotifica" /\ det[e].avisar) /\ det[e].pc # "reabre"
      BY <2>3, <2>9 DEF UmDetectorPorChave, RitmoInv, DetRitmo
    <2>10. ASSUME NEW e \in Detectores
           PROVE  \/ det'[e] = det[e] /\ (det[e].pc \in {"renotifica", "reabre"} =>
                                            det[e].id \notin {i} \/ ~Gravada(i))
                  \/ DetRitmo(e)'
      <3>1. CASE e = d
        BY <2>6, <3>1
      <3>2. CASE e # d
        <4>1. det'[e] = det[e]
          BY <2>1, <3>2
        <4>2. CASE det[e].pc \in {"renotifica", "reabre"} /\ det[e].id = i /\ Gravada(i)
          BY <2>9, <3>2, <4>1, <4>2 DEF DetRitmo
        <4>. QED BY <4>1, <4>2
      <3>. QED BY <3>1, <3>2
    <2>11. PICK X : X = IF Gravada(i) THEN {i} ELSE {}
      OBVIOUS
    <2>12. X \subseteq Ids /\ (\A a \in Ids \ X : Sereno(a)) /\ (\A a \in X : LinhaRitmo(a)')
      BY <2>1, <2>2, <2>8, <2>11
    <2>13. \A e \in Detectores :
             \/ det'[e] = det[e] /\ (det[e].pc \in {"renotifica", "reabre"} => det[e].id \notin X)
             \/ DetRitmo(e)'
      BY <2>10, <2>11
    <2>. QED BY <1>3, <2>7, <2>12, <2>13, PassoRitmo
  <1>. QED BY <1>4, <1>5

LEMMA RitmoReabrir ==
  ASSUME RitmoInv, CalaInv', NEW d \in Detectores, ReabrirLinhas(d)
  PROVE  RitmoInv'
  <1>0. /\ det \in [Detectores -> Det] /\ linha \in [Ids -> [Canais -> Linha]]
        /\ DetRitmo(d) /\ det[d].pc = "reabre" /\ TypeOK
    BY DEF RitmoInv, CalaInv, EntregaInv, TypeOK, ReabrirLinhas
  <1>1. UNCHANGED <<alerta, envio, desp, canal>>
    BY DEF ReabrirLinhas, externo
  <1>2. PICK i \in Ids : i = det[d].id /\ ~Fresca(i)
    BY <1>0 DEF DetRitmo
  <1>3. ASSUME NEW a \in Ids PROVE Sereno(a) /\ NaoConclui(a)
    <2>1. CASE a # i
      <3>1. linha'[a] = linha[a]
        BY <1>0, <1>2, <2>1 DEF ReabrirLinhas
      <3>. QED BY <1>1, <3>1, SerenoParada
    <2>2. CASE a = i
      <3>1. Gravada(i) => \A c \in Canais : Longe(i, c) \/ Assente(i)
        BY <1>0, <1>2 DEF DetRitmo
      <3>2. \A c \in Canais : linha'[i][c].status = "ausente" => linha[i][c].status = "ausente"
        BY <1>0, <1>2 DEF ReabrirLinhas, LinhaDevida
      <3>. QED BY <1>1, <1>2, <2>2, <3>1, <3>2 DEF Sereno, NaoConclui, Fresca, Gravada
    <2>. QED BY <2>1, <2>2
  <1>4. det'[d] = DetOcioso /\ \A e \in Detectores : e # d => det'[e] = det[e]
    BY <1>0 DEF ReabrirLinhas
  <1>5. DetRitmo(d)'
    BY <1>4 DEF DetRitmo, DetOcioso
  <1>. QED BY <1>0, <1>1, <1>3, <1>4, <1>5, MesmoTudoAlheio, PassoSereno

\* the detector's other steps create, show and resolve rows
LEMMA RitmoOutros ==
  ASSUME ~BancoFalha, RitmoInv, CalaInv', NEW d \in Detectores,
         \/ UltimoAviso(d) \/ CriarAlerta(d) \/ ConfirmarAlerta(d)
         \/ RecoveredLer(d) \/ RecoveredResolver(d) \/ RecoveredAnunciar(d)
  PROVE  RitmoInv'
  <1>0. /\ det \in [Detectores -> Det] /\ DetOcioso \in Det /\ alerta \in [Ids -> Alerta]
        /\ TypeOK /\ Resposta = {TRUE} /\ EntregaInv /\ DetCerto(d)
    BY DetOciosoTipo DEF RitmoInv, CalaInv, EntregaInv, TypeOK, Resposta
  <1>1. UNCHANGED <<linha, envio, desp, canal>>
    BY DEF UltimoAviso, CriarAlerta, ConfirmarAlerta, RecoveredLer, RecoveredResolver,
           RecoveredAnunciar, externo, tabelas
  <1>2. /\ det'[d].pc \in {"cria", "confirma", "resolve", "anuncia", "ocioso"}
        /\ \A e \in Detectores : e # d => det'[e] = det[e]
    <2>1. CASE UltimoAviso(d)
      <3>1. PICK prox : det' = [det EXCEPT ![d] = [@ EXCEPT !.pc = "cria", !.prox = prox]]
        BY <1>0, <2>1 DEF UltimoAviso
      <3>. QED BY <1>0, <3>1 DEF Det
    <2>2. CASE CriarAlerta(d)
      <3>1. PICK i, s : det' = [det EXCEPT ![d] = [@ EXCEPT !.pc = "confirma", !.id = i, !.ids = s]]
        BY <2>2 DEF CriarAlerta
      <3>. QED BY <1>0, <3>1 DEF Det
    <2>3. CASE RecoveredLer(d)
      <3>1. PICK avisar : det' = [det EXCEPT ![d] = [@ EXCEPT !.pc = "resolve", !.avisar = avisar]]
        BY <2>3 DEF RecoveredLer
      <3>. QED BY <1>0, <3>1 DEF Det
    <2>4. CASE RecoveredResolver(d)
      <3>1. PICK r \in {[det[d] EXCEPT !.pc = "anuncia"], DetOcioso} : det' = [det EXCEPT ![d] = r]
        BY <1>0, <2>4 DEF RecoveredResolver
      <3>. QED BY <1>0, <3>1 DEF Det, DetOcioso
    <2>5. CASE ConfirmarAlerta(d) \/ RecoveredAnunciar(d)
      <3>1. det' = [det EXCEPT ![d] = DetOcioso]
        BY <2>5 DEF ConfirmarAlerta, RecoveredAnunciar
      <3>. QED BY <1>0, <3>1 DEF DetOcioso
    <2>. QED BY <2>1, <2>2, <2>3, <2>4, <2>5
  <1>3. DetRitmo(d)'
    BY <1>2 DEF DetRitmo
  <1>4. ASSUME NEW a \in Ids PROVE Sereno(a) /\ NaoConclui(a)
    <2>1. CASE UltimoAviso(d) \/ RecoveredLer(d)
      BY <1>1, <2>1, SerenoParada DEF UltimoAviso, RecoveredLer, tabelas
    <2>2. CASE CriarAlerta(d) \/ RecoveredAnunciar(d)
      <3>1. PICK novo \in Ids : novo = Min(Livres) /\ alerta[novo].status = "livre"
        BY <1>0, <2>2, PrimeiraLivre DEF CriarAlerta, RecoveredAnunciar
      <3>2. PICK r : alerta' = [alerta EXCEPT ![novo] = r]
        BY <1>0, <2>2, <3>1 DEF CriarAlerta, RecoveredAnunciar
      <3>3. CASE a = novo
        BY <1>1, <3>1, <3>3 DEF Sereno, NaoConclui, Fresca
      <3>4. CASE a # novo
        BY <1>0, <1>1, <3>2, <3>4, SerenoParada
      <3>. QED BY <3>3, <3>4
    <2>3. CASE ConfirmarAlerta(d)
      <3>1. PICK i \in Ids : i = det[d].id /\ alerta[i].status = "gravando"
        BY <1>0, <2>3 DEF ConfirmarAlerta, DetCerto
      <3>2. alerta' = [Resolvidas(det[d].ids) EXCEPT ![i].status = "open"]
        BY <1>0, <2>3, <3>1 DEF ConfirmarAlerta
      <3>3. Resolvidas(det[d].ids) \in [Ids -> Alerta]
        BY <1>0, ResolvidasTipo
      <3>4. CASE a = i
        BY <1>1, <3>1, <3>4 DEF Sereno, NaoConclui, Fresca
      <3>5. CASE a # i
        <4>1. alerta'[a] = Resolvidas(det[d].ids)[a]
          BY <3>2, <3>3, <3>5
        <4>. QED BY <1>0, <1>1, <4>1, SerenoFecha
      <3>. QED BY <3>4, <3>5
    <2>4. CASE RecoveredResolver(d)
      <3>1. alerta' = Resolvidas(VivasDe(ChaveDe[d]))
        BY <1>0, <2>4 DEF RecoveredResolver
      <3>. QED BY <1>0, <1>1, <3>1, SerenoFecha
    <2>. QED BY <2>1, <2>2, <2>3, <2>4
  <1>. QED BY <1>0, <1>1, <1>2, <1>3, <1>4, MesmoTudoAlheio, PassoSereno

LEMMA RitmoOperador ==
  ASSUME RitmoInv, CalaInv', NEW o \in Operadores, AlertDaRota(o) \/ AlertGravar(o)
  PROVE  RitmoInv'
  <1>0. alerta \in [Ids -> Alerta] /\ op[o] \in Op /\ TypeOK
    BY DEF RitmoInv, CalaInv, EntregaInv, TypeOK
  <1>1. UNCHANGED <<linha, envio, desp, canal, det>>
    BY DEF AlertDaRota, AlertGravar, tabelas, externo
  <1>2. ASSUME NEW a \in Ids PROVE Sereno(a) /\ NaoConclui(a)
    <2>1. \/ alerta'[a] = alerta[a]
          \/ /\ Gravada(a) /\ op[o].verbo \in {"acked", "resolved"}
             /\ alerta'[a] = [alerta[a] EXCEPT !.status = op[o].verbo]
      BY <1>0 DEF AlertDaRota, AlertGravar, tabelas, Op, OpOcioso
    <2>2. CASE /\ Gravada(a) /\ op[o].verbo \in {"acked", "resolved"}
               /\ alerta'[a] = [alerta[a] EXCEPT !.status = op[o].verbo]
      <3>1. /\ alerta'[a].chave = alerta[a].chave /\ alerta'[a].notif = alerta[a].notif
            /\ alerta'[a].status = op[o].verbo /\ alerta'[a].delivery = alerta[a].delivery
        BY <1>0, <2>2 DEF Alerta
      <3>. QED BY <1>1, <2>2, <3>1, SerenoCampos DEF Fresca, Gravada
    <2>. QED BY <1>1, <2>1, <2>2, SerenoParada
  <1>. QED BY <1>0, <1>1, <1>2, MesmoTudoAlheio, PassoSereno

LEMMA RitmoPrune ==
  ASSUME RitmoInv, CalaInv', PruneAlerts
  PROVE  RitmoInv'
  <1>0. TypeOK /\ UNCHANGED <<envio, desp, canal, det>>
    BY DEF RitmoInv, CalaInv, EntregaInv, PruneAlerts, externo
  <1>1. ASSUME NEW a \in Ids PROVE Sereno(a) /\ NaoConclui(a)
    <2>1. CASE Podavel(a)
      <3>1. alerta'[a] = Apagada(a)
        BY <2>1 DEF PruneAlerts
      <3>2. alerta'[a].status = "apagado" /\ ~Fresca(a)
        BY <2>1, <3>1 DEF Apagada, Nova, Podavel, Gravada, Fresca
      <3>. QED BY <1>0, <3>2 DEF Sereno, NaoConclui, Fresca, Gravada
    <2>2. CASE ~Podavel(a)
      <3>1. alerta'[a] = alerta[a] /\ linha'[a] = linha[a]
        BY <2>2 DEF PruneAlerts
      <3>. QED BY <1>0, <3>1, SerenoParada
    <2>. QED BY <2>1, <2>2
  <1>. QED BY <1>0, <1>1, MesmoTudoAlheio, PassoSereno

LEMMA RitmoVerificar ==
  ASSUME RitmoInv, CalaInv', NEW p \in Processos, VerificarCanal(p)
  PROVE  RitmoInv'
  <1>0. TypeOK
    BY DEF RitmoInv, CalaInv, EntregaInv
  <1>1. UNCHANGED <<alerta, linha, envio, det>>
    BY DEF VerificarCanal, tabelas, externo
  <1>2. \A q \in Processos : MesmoTudo(q)
    BY <1>0, MesmoTudoAlheio
  <1>. QED BY <1>1, <1>2, SerenoParada, PassoSereno

\* time passes while nothing that was accepted waits to be written
LEMMA RitmoTick ==
  ASSUME RitmoInv, CalaInv', Tick
  PROVE  RitmoInv'
  <1>0. /\ alerta \in [Ids -> Alerta] /\ linha \in [Ids -> [Canais -> Linha]]
        /\ envio \in [Ids -> [Canais -> Nunca..Cooldown]] /\ TypeOK
        /\ Cooldown \in Nat /\ Duracao \in Nat
    BY ConstantesOk DEF RitmoInv, CalaInv, EntregaInv, TypeOK
  <1>1. \A p \in Processos : MesmoTudo(p)
    BY <1>0, MesmoTudoAlheio
  <1>2. \A a \in Ids : ~PorContar(a)
    BY DEF PorContar, RitmoInv, DespRitmo, Tick
  <1>3. ASSUME NEW a \in Ids, NEW c \in Canais
        PROVE  /\ linha'[a][c].status = linha[a][c].status
               /\ envio'[a][c] = Envelhece(envio[a][c], Cooldown)
               /\ envio[a][c] \in Nunca..Cooldown
               /\ Longe(a, c) => Longe(a, c)'
    <2>1. linha'[a][c].status = linha[a][c].status
      <3>1. PICK prox : linha'[a][c] = [linha[a][c] EXCEPT !.prox = prox]
        BY DEF Tick
      <3>. QED BY <1>0, <3>1 DEF Linha
    <2>2. envio[a][c] \in Nunca..Cooldown /\ envio'[a][c] = Envelhece(envio[a][c], Cooldown)
      BY <1>0 DEF Tick
    <2>3. Longe(a, c) => Longe(a, c)'
      BY <1>0, <2>2 DEF Longe, Envelhece, Nunca
    <2>. QED BY <2>1, <2>2, <2>3
  <1>4. ASSUME NEW a \in Ids, Gravada(a)'
        PROVE  /\ Gravada(a) /\ alerta'[a].delivery = alerta[a].delivery
               /\ alerta'[a].notif = Envelhece(alerta[a].notif, Cooldown)
               /\ alerta[a].notif \in Nunca..Cooldown
    <2>1. Gravada(a)
      <3>1. ~Gravada(a) => alerta'[a] = alerta[a]
        BY DEF Tick
      <3>. QED BY <1>4, <3>1 DEF Gravada
    <2>2. PICK prox, visto, idade :
            alerta'[a] = [alerta[a] EXCEPT !.prox = prox, !.visto = visto,
                            !.notif = Envelhece(@, Cooldown), !.idade = idade]
      BY <2>1 DEF Tick
    <2>. QED BY <1>0, <2>1, <2>2 DEF Alerta
  <1>5. ASSUME NEW a \in Ids PROVE LinhaRitmo(a)'
    <2>1. ASSUME Gravada(a)', NEW c \in Canais
          PROVE  /\ linha'[a][c].status \in PorEntregar => Longe(a, c)' \/ Assente(a)'
                 /\ linha'[a][c].status = "ausente" => envio'[a][c] = Nunca
                 /\ envio'[a][c] # Nunca =>
                      alerta'[a].notif # Nunca /\ alerta'[a].notif =< envio'[a][c] + Duracao
      <3>0. LinhaRitmo(a) /\ ~PorContar(a)
        BY <1>2 DEF RitmoInv
      <3>1. /\ linha[a][c].status \in PorEntregar => Longe(a, c) \/ Assente(a)
            /\ linha[a][c].status = "ausente" => envio[a][c] = Nunca
            /\ envio[a][c] # Nunca =>
                 alerta[a].notif # Nunca /\ alerta[a].notif =< envio[a][c] + Duracao
        BY <1>4, <2>1, <3>0 DEF LinhaRitmo
      <3>2. Assente(a) => Assente(a)'
        BY <1>4, <2>1, <3>0 DEF Assente
      <3>3. envio[a][c] = Nunca <=> envio'[a][c] = Nunca
        BY <1>3 DEF Envelhece, Nunca
      <3>4. envio'[a][c] # Nunca =>
              alerta'[a].notif # Nunca /\ alerta'[a].notif =< envio'[a][c] + Duracao
        <4>1. PICK n, m : n = alerta[a].notif /\ m = envio[a][c]
          OBVIOUS
        <4>2. n \in Nunca..Cooldown /\ m \in Nunca..Cooldown
          BY <1>3, <1>4, <2>1, <4>1
        <4>3. m # Nunca => n # Nunca /\ n =< m + Duracao
          BY <3>1, <4>1
        <4>4. Envelhece(m, Cooldown) # Nunca =>
                Envelhece(n, Cooldown) # Nunca
                /\ Envelhece(n, Cooldown) =< Envelhece(m, Cooldown) + Duracao
          BY <1>0, <4>2, <4>3 DEF Envelhece, Nunca
        <4>. QED BY <1>3, <1>4, <2>1, <4>1, <4>4
      <3>. QED BY <1>3, <3>1, <3>2, <3>3, <3>4
    <2>. QED BY <2>1 DEF LinhaRitmo
  <1>6. ASSUME NEW d \in Detectores PROVE DetRitmo(d)'
    <2>1. det[d] = DetOcioso /\ det' = det
      BY DEF Tick
    <2>. QED BY <2>1 DEF DetRitmo, DetOcioso
  <1>7. ASSUME NEW p \in Processos PROVE DespRitmo(p)'
    <2>1. ASSUME desp[p].pc = "envia", NEW c \in desp[p].faltam PROVE Longe(Atual(p), c)'
      <3>1. PICK a \in Ids : a = Atual(p)
        BY <1>0, <2>1, AtualNoLote
      <3>2. c \in Canais
        BY <1>0, <2>1 DEF TypeOK, Desp, Registro
      <3>3. Atual(p)' = a
        BY <1>1, <3>1 DEF Atual, MesmoTudo, Mesmo
      <3>4. Longe(a, c)
        BY <2>1, <3>1 DEF RitmoInv, DespRitmo
      <3>5. Longe(a, c)'
        BY <1>3, <3>2, <3>4
      <3>. QED BY <3>3, <3>5 DEF Longe
    <2>2. Atual(p)' = Atual(p)
      BY <1>1 DEF Atual, MesmoTudo, Mesmo
    <2>3. desp[p].pc \in {"dorme", "envia"}
      BY DEF Tick
    <2>. QED BY <1>1, <2>1, <2>2, <2>3 DEF RitmoInv, DespRitmo, MesmoTudo, Mesmo, EmMaos
  <1>. QED BY <1>5, <1>6, <1>7 DEF RitmoInv

-----------------------------------------------------------------------------
(* The steps of the dispatcher.                                             *)

LEMMA SoltoRitmo ==
  ASSUME NEW p \in Processos, desp'[p].pc \notin {"envia", "consolida", "retoma_alertas"},
         desp'[p].pc = "retoma" => desp'[p].caso \in {"sem_canal", "falhou"}
  PROVE  DespRitmo(p)'
  BY DEF DespRitmo, EmMaos

LEMMA RitmoFechar ==
  ASSUME UmProcesso, RitmoInv, CalaInv', NEW p \in Processos, FecharDuplicados(p)
  PROVE  RitmoInv'
  <1>0. desp \in [Processos -> Desp] /\ desp[p] \in Registro /\ TypeOK
    BY DEF RitmoInv, CalaInv, EntregaInv, TypeOK, Desp
  <1>1. UNCHANGED <<linha, envio, canal, det>> /\ ~EmMaos(p)
    BY DEF FecharDuplicados, externo, EmMaos
  <1>2. \A a \in Ids : Sereno(a)
    <2>1. PICK S : alerta' = alerta \/ alerta' = Resolvidas(S)
      BY DEF FecharDuplicados
    <2>. QED BY <1>0, <1>1, <2>1, SerenoParada, SerenoFecha
  <1>3. desp'[p].pc = "dorme"
    BY <1>0 DEF FecharDuplicados, Registro
  <1>. QED BY <1>1, <1>2, <1>3, SoltoRitmo, PassoDespRitmo

\* the rows dispensed were pending, and their lines are owed no more
LEMMA RitmoDispensar ==
  ASSUME UmProcesso, ~BancoFalha, RitmoInv, CalaInv', NEW p \in Processos,
         DispensarLer(p) \/ DispensarAlertas(p) \/ DispensarLinhas(p)
  PROVE  RitmoInv'
  <1>0. /\ desp \in [Processos -> Desp] /\ desp[p] \in Registro
        /\ alerta \in [Ids -> Alerta] /\ linha \in [Ids -> [Canais -> Linha]]
        /\ Resposta = {TRUE} /\ EntregaInv
    BY DEF RitmoInv, CalaInv, EntregaInv, TypeOK, Desp, Resposta
  <1>1. UNCHANGED <<envio, canal, det>>
    BY DEF DispensarLer, DispensarAlertas, DispensarLinhas, externo
  <1>2. /\ desp[p].pc \in {"dorme", "dispensa", "dispensa_alertas", "dispensa_linhas"}
        /\ desp[p].caso \in {"dispensado", "enviado"} /\ ~EmMaos(p)
    BY DEF DispensarLer, DispensarAlertas, DispensarLinhas, RitmoInv, CalaInv, DespCala, EmMaos
  <1>3. /\ DepoisDeDispensar(desp[p]).pc \in {"dispensa", "retoma"}
        /\ DepoisDeDispensar(desp[p]).caso \in {"enviado", "sem_canal"}
        /\ DepoisDeDispensar(desp[p]).pc = "retoma" =>
             DepoisDeDispensar(desp[p]).caso = "sem_canal"
    BY <1>0 DEF DepoisDeDispensar, Registro
  <1>4. CASE DispensarLer(p)
    <2>1. \A a \in Ids : Sereno(a)
      BY <1>1, <1>4, SerenoParada DEF DispensarLer, tabelas
    <2>2. desp'[p].pc = "dispensa_alertas"
      <3>1. PICK ids : desp' = [desp EXCEPT ![p] = [@ EXCEPT !.pc = "dispensa_alertas",
                                                            !.ids = ids]]
        BY <1>4 DEF DispensarLer
      <3>. QED BY <1>0, <3>1 DEF Registro
    <2>. QED BY <1>1, <1>2, <2>1, <2>2, SoltoRitmo, PassoDespRitmo
  <1>5. CASE DispensarAlertas(p)
    <2>0. UNCHANGED linha
      BY <1>5 DEF DispensarAlertas
    <2>1. ASSUME NEW a \in Ids PROVE Sereno(a)
      <3>1. CASE a \notin Dispensaveis(desp[p].caso)
        <4>1. alerta'[a] = alerta[a]
          BY <1>0, <1>5, <3>1 DEF DispensarAlertas
        <4>. QED BY <1>1, <2>0, <4>1, SerenoParada
      <3>2. CASE a \in Dispensaveis(desp[p].caso)
        <4>1. alerta[a].status = "resolved" /\ alerta[a].delivery = "pendente"
          BY <3>2 DEF Dispensaveis
        <4>2. alerta'[a] = [alerta[a] EXCEPT !.delivery = desp[p].caso, !.prox = 0]
          BY <1>0, <1>5, <3>2 DEF DispensarAlertas
        <4>3. /\ alerta'[a].chave = alerta[a].chave /\ alerta'[a].notif = alerta[a].notif
              /\ alerta'[a].status = "resolved"
          BY <1>0, <4>1, <4>2 DEF Alerta
        <4>. QED BY <1>1, <2>0, <4>1, <4>3 DEF Sereno, Fresca, Gravada
      <3>. QED BY <3>1, <3>2
    <2>2. \/ desp'[p].pc = "dispensa_linhas"
          \/ desp'[p] = DepoisDeDispensar(desp[p])
      <3>1. CASE desp' = [desp EXCEPT ![p] = [@ EXCEPT !.pc = "dispensa_linhas"]]
        BY <1>0, <3>1 DEF Registro
      <3>2. CASE desp' = [desp EXCEPT ![p] = DepoisDeDispensar(@)]
        BY <1>0, <3>2
      <3>. QED BY <1>5, <3>1, <3>2 DEF DispensarAlertas
    <2>. QED BY <1>1, <1>2, <1>3, <2>1, <2>2, SoltoRitmo, PassoDespRitmo
  <1>6. CASE DispensarLinhas(p)
    <2>1. ASSUME NEW a \in Ids PROVE Sereno(a)
      <3>0. linha'[a] = [c \in Canais |->
                           IF a \in desp[p].ids /\ linha[a][c].status = "pendente"
                           THEN [linha[a][c] EXCEPT !.status = desp[p].caso, !.prox = 0]
                           ELSE linha[a][c]]
        BY <1>0, <1>6 DEF DispensarLinhas
      <3>1. alerta'[a] = alerta[a]
        BY <1>6 DEF DispensarLinhas
      <3>2. ASSUME NEW c \in Canais
            PROVE  /\ linha'[a][c].status \in PorEntregar => linha[a][c].status \in PorEntregar
                   /\ linha'[a][c].status = "ausente" => linha[a][c].status = "ausente"
        <4>1. CASE linha'[a][c] = [linha[a][c] EXCEPT !.status = desp[p].caso, !.prox = 0]
          <5>1. linha'[a][c].status = desp[p].caso
            BY <1>0, <4>1 DEF Linha
          <5>. QED BY <1>2, <5>1 DEF PorEntregar
        <4>2. CASE linha'[a][c] = linha[a][c]
          BY <4>2
        <4>. QED BY <3>0, <4>1, <4>2
      <3>3. Fresca(a) => linha'[a] = linha[a]
        <4>1. ASSUME Fresca(a), NEW c \in Canais PROVE linha'[a][c] = linha[a][c]
          <5>1. linha[a][c].status = "ausente"
            BY <1>0, <4>1 DEF EntregaInv, LinhaCerta
          <5>. QED BY <3>0, <5>1
        <4>2. linha'[a] = [c \in Canais |-> linha'[a][c]]
          BY <3>0
        <4>. QED BY <1>0, <4>1, <4>2
      <3>. QED BY <1>1, <3>1, <3>2, <3>3 DEF Sereno, Fresca, Gravada
    <2>2. desp'[p] = DepoisDeDispensar(desp[p])
      BY <1>0, <1>6 DEF DispensarLinhas
    <2>. QED BY <1>1, <1>2, <1>3, <2>1, <2>2, SoltoRitmo, PassoDespRitmo
  <1>. QED BY <1>4, <1>5, <1>6

\* no row resumed was sent, and the lines resumed were owed already
LEMMA RitmoRetomar ==
  ASSUME UmProcesso, ~BancoFalha, RitmoInv, CalaInv', NEW p \in Processos,
         RetomarLer(p) \/ RetomarAlertas(p) \/ RetomarLinhas(p)
  PROVE  RitmoInv'
  <1>0. /\ desp \in [Processos -> Desp] /\ desp[p] \in Registro
        /\ alerta \in [Ids -> Alerta] /\ linha \in [Ids -> [Canais -> Linha]]
        /\ Resposta = {TRUE} /\ EntregaInv /\ DespRitmo(p)
    BY DEF RitmoInv, CalaInv, EntregaInv, TypeOK, Desp, Resposta
  <1>1. UNCHANGED <<envio, canal, det>> /\ ~EmMaos(p)
    BY DEF RetomarLer, RetomarAlertas, RetomarLinhas, externo, EmMaos
  <1>2. ASSUME NEW r, r \in Registro
        PROVE  /\ DepoisDeRetomar(r).pc \in {"retoma", "reivindica"}
               /\ DepoisDeRetomar(r).pc = "retoma" => DepoisDeRetomar(r).caso = "falhou"
    BY <1>2 DEF DepoisDeRetomar, Registro
  <1>3. CASE RetomarLer(p)
    <2>. DEFINE caso  == desp[p].caso
                prova == IF caso = "falhou" THEN desp[p].provados
                         ELSE IF canal[p].estado = "ok" THEN canal[p].verificado ELSE {}
                lidos == [desp[p] EXCEPT !.ids = Presos(caso, prova), !.provados = prova,
                                         !.pc = "retoma_alertas"]
                sai   == [desp[p] EXCEPT !.pc = "reivindica", !.caso = "dispensado"]
    <2>1. alerta' = alerta /\ linha' = linha /\ caso \in {"sem_canal", "falhou"}
      BY <1>0, <1>3 DEF RetomarLer, tabelas, DespRitmo
    <2>2. \A a \in Ids : Sereno(a)
      BY <1>1, <2>1, SerenoParada
    <2>3. desp'[p] \in {lidos, sai, DepoisDeRetomar(lidos)}
      BY <1>0, <1>3 DEF RetomarLer
    <2>4. /\ lidos.pc = "retoma_alertas" /\ lidos.ids = Presos(caso, prova)
          /\ sai.pc = "reivindica"
      <3>. HIDE DEF prova
      <3>. QED BY <1>0 DEF Registro
    <2>5. /\ DepoisDeRetomar(lidos).pc \in {"retoma", "reivindica"}
          /\ DepoisDeRetomar(lidos).pc = "retoma" => DepoisDeRetomar(lidos).caso = "falhou"
      <3>. HIDE DEF prova
      <3>. QED BY <1>0 DEF DepoisDeRetomar, Registro
    <2>. HIDE DEF lidos, sai
    <2>6. \A a \in Presos(caso, prova) : alerta'[a].delivery # "enviado"
      BY <2>1 DEF Presos
    <2>7. DespRitmo(p)'
      <3>1. CASE desp'[p] = lidos
        BY <2>4, <2>6, <3>1 DEF DespRitmo, EmMaos
      <3>2. CASE desp'[p] = sai \/ desp'[p] = DepoisDeRetomar(lidos)
        BY <2>4, <2>5, <3>2, SoltoRitmo
      <3>. QED BY <2>3, <3>1, <3>2
    <2>. QED BY <1>1, <2>2, <2>7, PassoDespRitmo
  <1>4. CASE RetomarAlertas(p)
    <2>0. UNCHANGED linha
      BY <1>4 DEF RetomarAlertas
    <2>1. ASSUME NEW a \in Ids PROVE Sereno(a)
      <3>1. CASE a \in desp[p].ids /\ Gravada(a)
        <4>1. alerta'[a] = Devolvida(alerta[a])
          BY <1>0, <1>4, <3>1 DEF RetomarAlertas
        <4>2. /\ alerta'[a].chave = alerta[a].chave /\ alerta'[a].notif = alerta[a].notif
              /\ alerta'[a].status = alerta[a].status
          BY <1>0, <4>1 DEF Devolvida, Alerta
        <4>3. alerta[a].delivery # "enviado"
          BY <1>0, <1>4, <3>1 DEF RetomarAlertas, DespRitmo
        <4>. QED BY <1>1, <2>0, <3>1, <4>2, <4>3 DEF Sereno, Fresca, Gravada
      <3>2. CASE ~(a \in desp[p].ids /\ Gravada(a))
        <4>1. alerta'[a] = alerta[a]
          BY <1>0, <1>4, <3>2 DEF RetomarAlertas
        <4>. QED BY <1>1, <2>0, <4>1, SerenoParada
      <3>. QED BY <3>1, <3>2
    <2>2. desp' = [desp EXCEPT ![p] = [@ EXCEPT !.pc = "retoma_linhas"]]
      BY <1>0, <1>4 DEF RetomarAlertas
    <2>3. desp'[p].pc = "retoma_linhas"
      BY <1>0, <2>2 DEF Registro
    <2>. QED BY <1>1, <2>1, <2>3, SoltoRitmo, PassoDespRitmo
  <1>5. CASE RetomarLinhas(p)
    <2>1. ASSUME NEW a \in Ids PROVE Sereno(a)
      <3>1. alerta'[a] = alerta[a]
        BY <1>5 DEF RetomarLinhas
      <3>2. ASSUME NEW c \in Canais
            PROVE  \/ linha'[a][c] = linha[a][c]
                   \/ /\ linha[a][c].status \in {"sem_canal", "falhou"}
                      /\ linha'[a][c].status = "pendente"
        BY <1>0, <1>5 DEF RetomarLinhas, Relinhadas, LinhaDevida
      <3>3. Fresca(a) => linha'[a] = linha[a]
        <4>1. ASSUME Fresca(a) PROVE \A c \in Canais : linha'[a][c] = linha[a][c]
          BY <1>0, <3>2, <4>1 DEF EntregaInv, LinhaCerta
        <4>2. linha'[a] = [c \in Canais |-> linha'[a][c]]
          BY <1>0, <1>5 DEF RetomarLinhas, Relinhadas
        <4>. QED BY <1>0, <4>1, <4>2
      <3>. QED BY <1>1, <3>1, <3>2, <3>3 DEF Sereno, Fresca, Gravada, PorEntregar
    <2>2. desp'[p] = DepoisDeRetomar(desp[p])
      BY <1>0, <1>5 DEF RetomarLinhas
    <2>. QED BY <1>0, <1>1, <1>2, <2>1, <2>2, SoltoRitmo, PassoDespRitmo
  <1>. QED BY <1>3, <1>4, <1>5

LEMMA RitmoClaim ==
  ASSUME UmProcesso, RitmoInv, CalaInv', NEW p \in Processos, ClaimBatch(p)
  PROVE  RitmoInv'
  <1>0. /\ desp \in [Processos -> Desp] /\ desp[p] \in Registro /\ alerta \in [Ids -> Alerta]
    BY DEF RitmoInv, CalaInv, EntregaInv, TypeOK, Desp
  <1>1. UNCHANGED <<linha, envio, canal, det>> /\ ~EmMaos(p)
    BY DEF ClaimBatch, externo, EmMaos
  <1>2. \A a \in Ids : Sereno(a)
    <2>1. ASSUME NEW a \in Ids, alerta'[a] # alerta[a]
          PROVE  Gravada(a) /\ alerta'[a] = [alerta[a] EXCEPT !.prox = Lease]
      BY <2>1 DEF ClaimBatch, Vencida
    <2>2. ASSUME NEW a \in Ids, alerta'[a] # alerta[a] PROVE Sereno(a)
      <3>0. Gravada(a) /\ alerta'[a] = [alerta[a] EXCEPT !.prox = Lease]
        BY <2>1, <2>2
      <3>1. /\ alerta'[a].chave = alerta[a].chave /\ alerta'[a].notif = alerta[a].notif
            /\ alerta'[a].status = alerta[a].status /\ alerta'[a].delivery = alerta[a].delivery
        BY <1>0, <3>0 DEF Alerta
      <3>. QED BY <1>1, <3>0, <3>1, SerenoCampos DEF Gravada, Fresca
    <2>. QED BY <1>1, <2>2, SerenoParada
  <1>3. desp'[p].pc \in {"prepara", "dorme"}
    <2>1. PICK S : \/ desp' = [desp EXCEPT ![p] = [@ EXCEPT !.pc = "prepara", !.lote = S]]
                   \/ desp' = [desp EXCEPT ![p] = DespDorme]
      BY DEF ClaimBatch
    <2>2. CASE desp' = [desp EXCEPT ![p] = [@ EXCEPT !.pc = "prepara", !.lote = S]]
      BY <1>0, <2>2 DEF Registro
    <2>3. CASE desp' = [desp EXCEPT ![p] = DespDorme]
      BY <1>0, <2>3 DEF DespDorme, DespInicio
    <2>. QED BY <2>1, <2>2, <2>3
  <1>. QED BY <1>1, <1>2, <1>3, SoltoRitmo, PassoDespRitmo

LEMMA ProximoRitmo ==
  ASSUME NEW p \in Processos, desp'[p] = Proximo(p)
  PROVE  desp'[p].pc \in {"prepara", "dorme"} /\ DespRitmo(p)'
  <1>1. desp'[p].pc \in {"prepara", "dorme"}
    BY DEF Proximo, DespDorme, DespInicio
  <1>. QED BY <1>1, SoltoRitmo

\* a line created for the first time follows no message
LEMMA RitmoGarantir ==
  ASSUME UmProcesso, ~BancoFalha, RitmoInv, CalaInv', NEW p \in Processos, GarantirLinhas(p)
  PROVE  RitmoInv'
  <1>0. /\ desp \in [Processos -> Desp] /\ linha \in [Ids -> [Canais -> Linha]]
        /\ desp[p].pc = "prepara" /\ ~EmMaos(p) /\ TypeOK
    BY DEF GarantirLinhas, RitmoInv, CalaInv, EntregaInv, TypeOK, EmMaos
  <1>1. UNCHANGED <<alerta, envio, canal, det>>
    BY DEF GarantirLinhas, externo
  <1>2. PICK a \in Ids : a = Atual(p) /\ a \in desp[p].lote
    BY <1>0, AtualNoLote
  <1>3. CASE linha' = linha /\ desp' = [desp EXCEPT ![p] = Proximo(p)]
    <2>1. \A b \in Ids : Sereno(b)
      BY <1>1, <1>3, SerenoParada
    <2>2. desp'[p] = Proximo(p)
      BY <1>0, <1>3
    <2>. QED BY <1>0, <1>1, <2>1, <2>2, ProximoRitmo, PassoDespRitmo
  <1>4. CASE ~(linha' = linha /\ desp' = [desp EXCEPT ![p] = Proximo(p)])
    <2>. DEFINE faltam == {c \in canal[p].ativos : linha[a][c].status = "ausente"}
                novas  == [c \in Canais |-> IF c \in faltam THEN LinhaDevida ELSE linha[a][c]]
    <2>1. linha' = [linha EXCEPT ![a] = novas] /\ desp' = desp /\ Gravada(a)
      BY <1>0, <1>2, <1>4 DEF GarantirLinhas
    <2>2. linha'[a] = novas /\ \A b \in Ids : b # a => linha'[b] = linha[b]
      BY <1>0, <2>1
    <2>3. \A c \in Canais : \/ novas[c] = linha[a][c]
                            \/ linha[a][c].status = "ausente" /\ novas[c].status = "pendente"
      BY DEF LinhaDevida
    <2>. HIDE DEF novas
    <2>4. LinhaRitmo(a) /\ ~Fresca(a)
      BY <1>2 DEF RitmoInv, CalaInv, EntregaInv, DespCerto
    <2>5. \A c \in Canais : linha[a][c].status = "ausente" => Longe(a, c)
      BY <2>1, <2>4 DEF LinhaRitmo, Longe
    <2>6. ASSUME NEW b \in Ids PROVE Sereno(b)
      <3>1. CASE b # a
        BY <1>1, <2>2, <3>1, SerenoParada
      <3>2. CASE b = a
        BY <1>1, <2>1, <2>2, <2>3, <2>4, <2>5, <3>2 DEF Sereno, Fresca, Gravada
      <3>. QED BY <3>1, <3>2
    <2>7. DespRitmo(p)'
      BY <1>0, <2>1 DEF DespRitmo, EmMaos
    <2>. QED BY <1>0, <1>1, <2>6, <2>7, PassoDespRitmo
  <1>. QED BY <1>3, <1>4

\* a line still owed was due before the row came to the dispatcher
LEMMA RitmoPreparar ==
  ASSUME UmProcesso, ~BancoFalha, RitmoInv, CalaInv', NEW p \in Processos, Preparar(p)
  PROVE  RitmoInv'
  <1>0. /\ desp \in [Processos -> Desp] /\ desp[p] \in Registro
        /\ alerta \in [Ids -> Alerta] /\ linha \in [Ids -> [Canais -> Linha]]
        /\ desp[p].pc = "prepara" /\ ~EmMaos(p) /\ TypeOK /\ canal[p].ativos \subseteq Canais
    <2>1. canal[p] \in Canal
      BY DEF RitmoInv, CalaInv, EntregaInv, TypeOK
    <2>2. canal[p].ativos \subseteq Canais
      BY <2>1, ConstantesOk DEF Canal
    <2>. QED BY <2>2 DEF Preparar, RitmoInv, CalaInv, EntregaInv, TypeOK, Desp, EmMaos
  <1>1. UNCHANGED <<envio, canal, det>>
    BY DEF Preparar, externo
  <1>2. PICK a \in Ids : a = Atual(p) /\ a \in desp[p].lote
    BY <1>0, AtualNoLote
  <1>3. ~Fresca(a) /\ (Gravada(a) => alerta[a].delivery = "pendente")
    BY <1>2 DEF RitmoInv, CalaInv, EntregaInv, DespCerto, DespCala
  <1>4. CASE canal[p].ativos = {} /\ Gravada(a)
    <2>0. linha' = linha /\ desp' = [desp EXCEPT ![p] = Proximo(p)]
      BY <1>4 DEF Preparar
    <2>1. ASSUME NEW b \in Ids PROVE Sereno(b)
      <3>1. \/ alerta'[b] = alerta[b]
            \/ b = a /\ alerta'[b] = [alerta[b] EXCEPT !.delivery = "sem_canal", !.prox = 0]
        BY <1>0, <1>2, <1>4 DEF Preparar
      <3>2. CASE b = a /\ alerta'[b] = [alerta[b] EXCEPT !.delivery = "sem_canal", !.prox = 0]
        <4>1. /\ alerta'[a].chave = alerta[a].chave /\ alerta'[a].notif = alerta[a].notif
              /\ alerta'[a].status = alerta[a].status
          BY <1>0, <3>2 DEF Alerta
        <4>. QED BY <1>1, <1>3, <1>4, <2>0, <3>2, <4>1 DEF Sereno, Fresca, Gravada
      <3>. QED BY <1>1, <2>0, <3>1, <3>2, SerenoParada
    <2>2. desp'[p] = Proximo(p)
      BY <1>0, <2>0
    <2>. QED BY <1>0, <1>1, <2>1, <2>2, ProximoRitmo, PassoDespRitmo
  <1>5. CASE alerta' = alerta /\ desp' = [desp EXCEPT ![p] = Proximo(p)]
    <2>0. linha' = linha
      BY DEF Preparar
    <2>1. \A b \in Ids : Sereno(b)
      BY <1>1, <1>5, <2>0, SerenoParada
    <2>2. desp'[p] = Proximo(p)
      BY <1>0, <1>5
    <2>. QED BY <1>0, <1>1, <2>1, <2>2, ProximoRitmo, PassoDespRitmo
  <1>6. CASE /\ ~(canal[p].ativos = {} /\ Gravada(a))
             /\ ~(alerta' = alerta /\ desp' = [desp EXCEPT ![p] = Proximo(p)])
    <2>. DEFINE ativos == canal[p].ativos
                lin    == linha[a]
                faltam == {c \in ativos : Devida(lin[c])}
                r      == [desp[p] EXCEPT !.lin = lin, !.faltam = faltam, !.t = 0,
                             !.marcaram = {}, !.tentou = faltam # {}, !.entregou = FALSE,
                             !.pc = IF faltam = {} THEN "consolida" ELSE "envia"]
    <2>1. /\ linha' = linha /\ alerta' = alerta
          /\ desp' = [desp EXCEPT ![p] = r] /\ Gravada(a)
      BY <1>2, <1>6 DEF Preparar
    <2>2. /\ r.lote = desp[p].lote /\ r.faltam = faltam /\ r.entregou = FALSE
          /\ r.pc \in {"envia", "consolida"}
      BY <1>0 DEF Registro
    <2>3. desp'[p] = r
      BY <1>0, <2>1
    <2>4. \A c \in faltam : c \in Canais /\ linha[a][c].status = "pendente"
      BY <1>0 DEF Devida
    <2>. HIDE DEF r, faltam
    <2>5. \A b \in Ids : Sereno(b)
      BY <1>1, <2>1, SerenoParada
    <2>6. LinhaRitmo(a) /\ ~PorContar(a)
      BY <1>0 DEF RitmoInv, PorContar, UmProcesso
    <2>7. \A c \in faltam : Longe(a, c)
      BY <1>3, <2>1, <2>4, <2>6 DEF LinhaRitmo, PorEntregar, Assente
    <2>8. DespRitmo(p)'
      <3>1. Atual(p)' = a
        BY <1>2, <2>2, <2>3 DEF Atual
      <3>. QED BY <1>1, <2>2, <2>3, <2>7, <3>1 DEF DespRitmo, Longe
    <2>. QED BY <1>0, <1>1, <2>5, <2>8, PassoDespRitmo
  <1>. QED BY <1>4, <1>5, <1>6

\* the only active channel answers, and the delivery of the row is over
LEMMA RitmoEntregar ==
  ASSUME UmProcesso, UmCanal, ~BancoFalha, RitmoInv, CalaInv', NEW p \in Processos, Entregar(p)
  PROVE  RitmoInv'
  <1>0. PICK a \in Ids, c \in Canais, sucesso \in BOOLEAN :
           /\ a = Atual(p) /\ a \in desp[p].lote /\ desp[p].pc = "envia"
           /\ c \in desp[p].faltam
           /\ \A b \in Ids : b # a => linha'[b] = linha[b] /\ envio'[b] = envio[b]
           /\ \A x \in Canais : x # c => /\ linha'[a][x] = linha[a][x]
                                         /\ envio'[a][x] = envio[a][x]
           /\ envio'[a][c] = IF sucesso THEN 0 ELSE envio[a][c]
           /\ desp'[p].lin[c].status \in {"enviado", "falhou", "pendente"}
           /\ sucesso <=> desp'[p].lin[c].status = "enviado"
           /\ \/ linha'[a][c] = linha[a][c] /\ (BancoFalha \/ ~Gravada(a))
              \/ linha'[a][c].status = desp'[p].lin[c].status
           /\ desp'[p].pc = IF desp'[p].faltam = {} THEN "consolida" ELSE "envia"
           /\ desp'[p].faltam = desp[p].faltam \ {c}
           /\ desp'[p].lote = desp[p].lote
           /\ desp'[p].entregou = (desp[p].entregou \/ sucesso)
           /\ \A q \in Processos : canal'[q].ativos = canal[q].ativos
    BY FormaEntregar DEF RitmoInv, CalaInv, EntregaInv
  <1>1. alerta' = alerta /\ det' = det
    BY DEF Entregar
  <1>2. /\ DespRitmo(p) /\ LinhaRitmo(a) /\ Longe(a, c) /\ desp[p].entregou = FALSE
        /\ Gravada(a) => alerta[a].delivery = "pendente"
    <2>1. desp[p].entregou \in BOOLEAN
      BY DEF RitmoInv, CalaInv, EntregaInv, TypeOK, Desp, Registro
    <2>. QED BY <1>0, <2>1 DEF RitmoInv, DespRitmo, CalaInv, DespCala, EmMaos
  <1>3. \A b : ~PorContar(b)
    BY <1>2, SoEsta DEF RitmoInv
  <1>4. /\ \A x \in canal[p].ativos : x = c
        /\ desp'[p].faltam = {} /\ desp'[p].pc = "consolida"
    <2>1. canal[p].ativos \in Configs
      BY DEF RitmoInv, CalaInv, EntregaInv, TypeOK, Canal
    <2>2. desp[p].faltam \subseteq canal[p].ativos
      BY <1>0 DEF RitmoInv, CalaInv, DespCala
    <2>3. \A x \in canal[p].ativos : x = c
      BY <1>0, <2>1, <2>2 DEF UmCanal
    <2>4. desp'[p].faltam = {}
      BY <1>0, <2>2, <2>3
    <2>. QED BY <1>0, <2>3, <2>4
  <1>5. Atual(p)' = a /\ (sucesso => PorContar(a)')
    <2>1. Atual(p)' = a
      BY <1>0 DEF Atual
    <2>. QED BY <1>0, <1>4, <2>1 DEF PorContar, EmMaos
  <1>6. LinhaRitmo(a)'
    <2>1. ASSUME Gravada(a)', NEW x \in Canais
          PROVE  /\ linha'[a][x].status \in PorEntregar => Longe(a, x)' \/ Assente(a)'
                 /\ linha'[a][x].status = "ausente" => envio'[a][x] = Nunca
                 /\ envio'[a][x] # Nunca =>
                      \/ PorContar(a)'
                      \/ alerta'[a].notif # Nunca /\ alerta'[a].notif =< envio'[a][x] + Duracao
      <3>1. Gravada(a) /\ ~Assente(a)
        BY <1>1, <1>2, <1>3, <2>1 DEF Gravada, Assente
      <3>2. CASE sucesso
        <4>1. linha'[a][x].status = "ausente" => envio'[a][x] = Nunca
          BY <1>0, <1>2, <3>1, <3>2 DEF LinhaRitmo
        <4>. QED BY <1>5, <3>2, <4>1 DEF Assente
      <3>3. CASE ~sucesso
        <4>1. envio'[a][x] = envio[a][x] /\ (Longe(a, x) => Longe(a, x)')
          BY <1>0, <3>3 DEF Longe
        <4>2. CASE x = c
          BY <1>0, <1>1, <1>2, <1>3, <3>1, <3>3, <4>1, <4>2 DEF LinhaRitmo
        <4>3. CASE x # c
          BY <1>0, <1>1, <1>2, <1>3, <3>1, <4>1, <4>3 DEF LinhaRitmo
        <4>. QED BY <4>2, <4>3
      <3>. QED BY <3>2, <3>3
    <2>. QED BY <2>1 DEF LinhaRitmo
  <1>7. ASSUME NEW b \in Ids, b # a PROVE LinhaRitmo(b)'
    BY <1>0, <1>1, <1>3, <1>7, SerenoParada, SerenoLinha DEF RitmoInv, CalaInv
  <1>8. ASSUME NEW d \in Detectores PROVE DetRitmo(d)'
    <2>0. PICK i : i = det[d].id
      OBVIOUS
    <2>1. ASSUME det[d].pc = "renotifica", det[d].avisar, Gravada(i)
          PROVE  /\ alerta[i].chave = ChaveDe[d] /\ alerta[i].delivery = "enviado"
                 /\ \A x \in Canais : Longe(i, x)'
      <3>1. /\ alerta[i].chave = ChaveDe[d] /\ alerta[i].delivery = "enviado"
            /\ \A x \in Canais : Longe(i, x)
        BY <2>0, <2>1 DEF RitmoInv, DetRitmo
      <3>2. i \in Ids /\ i # a
        BY <1>2, <2>0, <2>1, <3>1 DEF RitmoInv, CalaInv, EntregaInv, DetCerto
      <3>. QED BY <1>0, <3>1, <3>2 DEF Longe
    <2>2. ASSUME det[d].pc = "reabre"
          PROVE  /\ i \in Ids /\ ~Fresca(i)
                 /\ Gravada(i) => /\ alerta[i].chave = ChaveDe[d]
                                  /\ \A x \in Canais : Longe(i, x)' \/ Assente(i)'
      <3>1. /\ i \in Ids /\ ~Fresca(i)
            /\ Gravada(i) => /\ alerta[i].chave = ChaveDe[d]
                             /\ \A x \in Canais : Longe(i, x) \/ Assente(i)
        BY <2>0, <2>2 DEF RitmoInv, DetRitmo
      <3>2. Assente(i) => Assente(i)'
        BY <1>1, <1>3 DEF Assente
      <3>3. CASE i = a /\ sucesso
        BY <1>5, <3>1, <3>3 DEF Assente
      <3>4. CASE ~(i = a /\ sucesso)
        <4>1. \A x \in Canais : envio'[i][x] = envio[i][x]
          BY <1>0, <3>1, <3>4
        <4>. QED BY <3>1, <3>2, <4>1 DEF Longe
      <3>. QED BY <3>3, <3>4
    <2>. QED BY <1>1, <2>0, <2>1, <2>2 DEF DetRitmo, Fresca, Gravada
  <1>9. DespRitmo(p)'
    BY <1>0, <1>2, <1>4 DEF DespRitmo
  <1>. QED BY <1>6, <1>7, <1>8, <1>9 DEF RitmoInv, UmProcesso

\* a message accepted ends the delivery, and last_notified_at is the instant captured
\* before the call
LEMMA RitmoConsolidar ==
  ASSUME UmProcesso, ~BancoFalha, RitmoInv, CalaInv', NEW p \in Processos, Consolidar(p)
  PROVE  RitmoInv'
  <1>0. PICK a \in Ids, gravou \in BOOLEAN :
           /\ a = Atual(p) /\ a \in desp[p].lote /\ desp[p].pc = "consolida"
           /\ \A b \in Ids : b # a => alerta'[b] = alerta[b]
           /\ gravou =>
                /\ Gravada(a)
                /\ alerta'[a].chave = alerta[a].chave /\ alerta'[a].rec = alerta[a].rec
                /\ alerta'[a].status = alerta[a].status
                /\ alerta'[a].delivery = Consolidado(desp[p].lin, canal[p].ativos)
                /\ IF desp[p].entregou THEN alerta'[a].notif # Nunca /\ alerta'[a].notif =< Duracao
                   ELSE alerta'[a].notif = alerta[a].notif
           /\ ~gravou => alerta'[a] = alerta[a] /\ ~Gravada(a)
           /\ \A q \in Processos : canal'[q].ativos = canal[q].ativos
           /\ desp' = [desp EXCEPT ![p] = Proximo(p)]
    BY FormaConsolidar DEF RitmoInv, CalaInv, EntregaInv
  <1>1. linha' = linha /\ envio' = envio /\ det' = det
    BY DEF Consolidar, externo
  <1>2. /\ desp \in [Processos -> Desp] /\ envio \in [Ids -> [Canais -> Nunca..Cooldown]]
        /\ DespRitmo(p) /\ LinhaRitmo(a) /\ EmMaos(p)
        /\ ~Fresca(a) /\ (Gravada(a) => alerta[a].delivery = "pendente")
    BY <1>0 DEF RitmoInv, CalaInv, EntregaInv, TypeOK, DespCala, DespCerto, EmMaos
  <1>3. \A b \in Ids : b # a \/ ~desp[p].entregou => ~PorContar(b)
    BY <1>0, PorContarAtual
  <1>4. gravou /\ desp[p].entregou => Assente(a)'
    <2>1. ASSUME desp[p].entregou PROVE Consolidado(desp[p].lin, canal[p].ativos) = "enviado"
      BY <1>2, <2>1 DEF DespRitmo, Consolidado
    <2>. QED BY <1>0, <2>1 DEF Assente
  <1>5. ASSUME gravou, ~desp[p].entregou, NEW x \in Canais,
               Longe(a, x) \/ Assente(a)
        PROVE  Longe(a, x)'
    BY <1>0, <1>1, <1>2, <1>3, <1>5 DEF Assente, Longe
  <1>6. LinhaRitmo(a)'
    <2>1. ASSUME Gravada(a)', NEW x \in Canais
          PROVE  /\ linha'[a][x].status \in PorEntregar => Longe(a, x)' \/ Assente(a)'
                 /\ linha'[a][x].status = "ausente" => envio'[a][x] = Nunca
                 /\ envio'[a][x] # Nunca =>
                      alerta'[a].notif # Nunca /\ alerta'[a].notif =< envio'[a][x] + Duracao
      <3>1. gravou /\ Gravada(a)
        BY <1>0, <2>1 DEF Gravada
      <3>2. CASE desp[p].entregou
        <4>1. envio[a][x] \in Int /\ (envio[a][x] # Nunca => envio[a][x] >= 0) /\ Duracao \in Nat
          BY <1>2, ConstantesOk DEF Nunca
        <4>2. alerta'[a].notif \in Int
          BY DEF CalaInv, EntregaInv, TypeOK, Alerta, Nunca
        <4>. QED BY <1>0, <1>1, <1>2, <1>4, <3>1, <3>2, <4>1, <4>2 DEF LinhaRitmo
      <3>3. CASE ~desp[p].entregou
        BY <1>0, <1>1, <1>2, <1>3, <1>5, <3>1, <3>3 DEF LinhaRitmo
      <3>. QED BY <3>2, <3>3
    <2>. QED BY <2>1 DEF LinhaRitmo
  <1>7. ASSUME NEW b \in Ids, b # a PROVE LinhaRitmo(b)'
    BY <1>0, <1>1, <1>3, <1>7, SerenoParada, SerenoLinha DEF RitmoInv, CalaInv
  <1>8. ASSUME NEW d \in Detectores PROVE DetRitmo(d)'
    <2>0. PICK i : i = det[d].id
      OBVIOUS
    <2>1. ASSUME det[d].pc = "renotifica", det[d].avisar, Gravada(i)'
          PROVE  /\ alerta'[i].chave = ChaveDe[d] /\ alerta'[i].delivery = "enviado"
                 /\ \A x \in Canais : Longe(i, x)'
      <3>1. Gravada(i) => /\ alerta[i].chave = ChaveDe[d] /\ alerta[i].delivery = "enviado"
                          /\ \A x \in Canais : Longe(i, x)
        BY <2>0, <2>1 DEF RitmoInv, DetRitmo
      <3>2. i \in Ids
        BY <2>0, <2>1 DEF RitmoInv, CalaInv, EntregaInv, DetCerto
      <3>3. CASE i = a
        BY <1>0, <1>2, <2>1, <3>1, <3>3 DEF Gravada
      <3>4. CASE i # a
        <4>1. alerta'[i] = alerta[i]
          BY <1>0, <3>2, <3>4
        <4>. QED BY <1>1, <2>1, <3>1, <4>1 DEF Gravada, Longe
      <3>. QED BY <3>3, <3>4
    <2>2. ASSUME det[d].pc = "reabre"
          PROVE  /\ i \in Ids /\ ~Fresca(i)'
                 /\ Gravada(i)' => /\ alerta'[i].chave = ChaveDe[d]
                                   /\ \A x \in Canais : Longe(i, x)' \/ Assente(i)'
      <3>1. /\ i \in Ids /\ ~Fresca(i)
            /\ Gravada(i) => /\ alerta[i].chave = ChaveDe[d]
                             /\ \A x \in Canais : Longe(i, x) \/ Assente(i)
        BY <2>0, <2>2 DEF RitmoInv, DetRitmo
      <3>2. CASE i # a \/ ~gravou
        <4>1. alerta'[i] = alerta[i]
          BY <1>0, <3>1, <3>2
        <4>2. Gravada(i) => i # a /\ ~PorContar(i)
          BY <1>0, <1>3, <3>1, <3>2
        <4>. QED BY <1>1, <3>1, <4>1, <4>2 DEF Fresca, Gravada, Assente, Longe
      <3>3. CASE i = a /\ gravou
        <4>1. \A x \in Canais : Longe(i, x)' \/ Assente(i)'
          BY <1>0, <1>4, <1>5, <3>1, <3>3
        <4>. QED BY <1>0, <3>1, <3>3, <4>1 DEF Fresca, Gravada
      <3>. QED BY <3>2, <3>3
    <2>. QED BY <1>1, <2>0, <2>1, <2>2 DEF DetRitmo
  <1>9. DespRitmo(p)'
    <2>1. desp'[p] = Proximo(p)
      BY <1>0, <1>2
    <2>. QED BY <2>1, ProximoRitmo
  <1>. QED BY <1>6, <1>7, <1>8, <1>9 DEF RitmoInv, UmProcesso

LEMMA RitmoPasso ==
  ASSUME UmProcesso, UmCanal, UmDetectorPorChave, MaxQuedas = 0, ~BancoFalha,
         RitmoInv, [Next]_vars
  PROVE  RitmoInv'
  <1>0. CalaInv' /\ TypeOK
    BY CalaPasso DEF RitmoInv, CalaInv, EntregaInv
  <1>1. CASE UNCHANGED vars
    <2>1. UNCHANGED <<alerta, linha, envio, det, desp, canal>>
      BY <1>1 DEF vars
    <2>. QED BY <1>0, <2>1, SerenoParada, PassoSereno DEF MesmoTudo, Mesmo
  <1>2. ASSUME NEW d \in Detectores, Detector(d) PROVE RitmoInv'
    BY <1>0, <1>2, RitmoEnqueue, RitmoRenotificar, RitmoReabrir, RitmoOutros
       DEF Detector, DetectorContinua
  <1>3. ASSUME NEW p \in Processos, Despachante(p) PROVE RitmoInv'
    BY <1>0, <1>3, RitmoFechar, RitmoDispensar, RitmoRetomar, RitmoClaim, RitmoGarantir, RitmoPreparar,
       RitmoEntregar, RitmoConsolidar DEF Despachante
  <1>4. CASE Next
    BY <1>0, <1>2, <1>3, <1>4, RitmoOperador, RitmoVerificar, RitmoPrune, RitmoTick, SemQueda
       DEF Next
  <1>. QED BY <1>1, <1>4

\* The cooldown holds per row and channel: whatever detectors announce again, operators
\* acknowledge and the dispatcher retries, resumes and dispenses, no row is accepted
\* twice by its channel before ALERT_COOLDOWN, less the time a delivery takes, is over.
\* One active channel, one detector per key, and one process that neither crashes nor
\* loses a write: the property fails without any one of the five.
THEOREM CooldownSempre ==
  UmProcesso /\ UmCanal /\ UmDetectorPorChave /\ MaxQuedas = 0 /\ ~BancoFalha /\ Spec
    => CooldownPorLinha
  <1>1. SUFFICES ASSUME UmProcesso, UmCanal, UmDetectorPorChave, MaxQuedas = 0, ~BancoFalha
                 PROVE  Spec => CooldownPorLinha
    OBVIOUS
  <1>2. RitmoInv /\ [Next]_vars => RitmoInv'
    BY <1>1, RitmoPasso
  <1>3. RitmoInv /\ [Next]_vars =>
          [\A p \in Processos, a \in Ids, c \in Canais : Aceita(p, a, c) => Longe(a, c)]_vars
    BY DEF RitmoInv, DespRitmo, Aceita
  <1>. QED BY <1>2, <1>3, RitmoInicial, PTL DEF Spec, CooldownPorLinha
=============================================================================
