----------------------------- MODULE AlertQueue -----------------------------
(***************************************************************************)
(* The persisted alert queue of internal/alert: detectors open, renotify   *)
(* and recover incidents (fila.go), one dispatcher per process claims them *)
(* in batches and delivers them channel by channel (fila.go, entrega.go),  *)
(* operators acknowledge and resolve through the API (alerts_handler.go),  *)
(* retention deletes old rows (retention.go), and processes crash.         *)
(*                                                                         *)
(* One step is one database statement (or one committed transaction), or   *)
(* the answer of one HTTP delivery.  Timestamps are kept as ages and       *)
(* countdowns that saturate where the code stops telling them apart, so    *)
(* time itself is unbounded.  Time passes only while no detector and no    *)
(* operator is between two statements, and while every dispatcher sleeps   *)
(* or waits for an HTTP answer.                                            *)
(***************************************************************************)
EXTENDS Integers, FiniteSets, FiniteSetsExt

CONSTANTS
  Chaves,          \* incident keys
  Detectores,      \* goroutines that call Enqueue and Recovered
  ChaveDe,         \* [Detectores -> Chaves]: the key each one watches
  Operadores,      \* HTTP requests that acknowledge or resolve
  Verbos,          \* what operators ask for, a subset of {"acked", "resolved"}
  Processos,       \* server processes, one dispatcher each
  Casa,            \* [Detectores \cup Operadores -> Processos]
  NCanais,         \* channels, numbered in the order of registro (canal.go)
  Configs,         \* the sets of channels a process may be started with
  MaxAlertas,      \* bound: rows ever created
  MaxQuedas,       \* bound: process crashes
  Lote,            \* rows claimed in one pass (defaultDespachoLote)
  MaxTentativas,   \* ALERT_MAX_ATTEMPTS
  Lease,           \* despachoLease
  EsperaBase,      \* backoffBase
  EsperaMax,       \* backoffMax
  Cooldown,        \* ALERT_COOLDOWN
  Retomada,        \* ALERT_RESUME_HOURS
  Visto,           \* vistoACada
  Duracao,         \* bound: time units the delivery of one row may take
  Retencao,        \* ALERT_RETENTION_DAYS
  Poda,            \* whether the retention worker runs
  RecoveryEnabled, \* ALERT_NOTIFY_RECOVERY
  BancoFalha       \* whether a database statement may fail

Ids      == 1..MaxAlertas
Canais   == 1..NCanais
Telegram == 1
Prazos   == 0..(Lease + EsperaMax + Cooldown)
Nunca    == -1

ASSUME ConstantesOk ==
  /\ Chaves # {}
  /\ ChaveDe \in [Detectores -> Chaves]
  /\ Casa \in [Detectores \cup Operadores -> Processos]
  /\ Verbos \subseteq {"acked", "resolved"}
  /\ Configs # {} /\ Configs \subseteq SUBSET Canais
  /\ {MaxAlertas, MaxQuedas, Lease, EsperaMax, Cooldown, Retomada, Visto,
      Duracao, Retencao, NCanais} \subseteq Nat
  /\ {Lote, MaxTentativas, EsperaBase} \subseteq Nat \ {0}
  /\ EsperaBase <= EsperaMax
  /\ {Poda, RecoveryEnabled, BancoFalha} \subseteq BOOLEAN

VARIABLES
  alerta,  \* the table alerts: one row per id
  linha,   \* the table alert_deliveries: one line per id and channel
  det,     \* what each detector goroutine has read and will write next
  op,      \* what each API request has read and will write next
  desp,    \* the local state of each process's dispatcher
  canal,   \* the active channels of each process and the health it reports
  envio,   \* history: age of the last accepted message of a row on a channel
  tardio,  \* history: rows acknowledged after they had been resolved
  quedas   \* crashes so far

vars     == <<alerta, linha, det, op, desp, canal, envio, tardio, quedas>>
tabelas  == <<alerta, linha>>
historia == <<envio, tardio>>
externo  == <<envio, tardio, quedas>>

-----------------------------------------------------------------------------
(* Rows.  "livre" is an id never used, "gravando" an insert not committed   *)
(* yet, "apagado" a deleted row or a rolled back insert.                    *)
Situacoes == {"livre", "gravando", "open", "acked", "resolved", "apagado"}
Entregas  == {"pendente", "enviado", "falhou", "sem_canal", "dispensado"}

Alerta ==
  [chave : Chaves, rec : BOOLEAN, status : Situacoes, delivery : Entregas,
   prox : Prazos, visto : 0..(Retomada + 1), notif : Nunca..Cooldown,
   idade : 0..Retencao]

\* a line still owed has attempts left
Linha ==
  {l \in [status : Entregas \cup {"ausente"}, tent : 0..MaxTentativas, prox : Prazos] :
     l.status = "pendente" => l.tent < MaxTentativas}

Nova_SemTransacao(k, rec, status, prox) ==
  [chave |-> k, rec |-> rec, delivery |-> "pendente", prox |-> prox,
   status |-> IF status = "gravando" THEN "open" ELSE status,
   visto |-> 0, notif |-> Nunca, idade |-> 0]

\* a row as Enqueue and Recovered insert it
Nova(k, rec, status, prox) ==
  [chave |-> k, rec |-> rec, status |-> status, delivery |-> "pendente",
   prox |-> prox, visto |-> 0, notif |-> Nunca, idade |-> 0]

Vazia      == Nova(CHOOSE k \in Chaves : TRUE, FALSE, "livre", 0)

Apagada_SemRollback(a) == [alerta[a] EXCEPT !.status = "open"]

\* a row deleted, or whose insert was rolled back
Apagada(a) == Nova(alerta[a].chave, alerta[a].rec, "apagado", 0)

LinhaAusente == [status |-> "ausente", tent |-> 0, prox |-> 0]
LinhaDevida  == [status |-> "pendente", tent |-> 0, prox |-> 0]
SemLinhas    == [c \in Canais |-> LinhaAusente]

Gravada(a) == alerta[a].status \in {"open", "acked", "resolved"}
Viva(a)    == alerta[a].status \in {"open", "acked"}
DaChave(k) == {a \in Ids : Gravada(a) /\ alerta[a].chave = k /\ ~alerta[a].rec}
VivasDe(k) == {a \in DaChave(k) : Viva(a)}
Livres     == {a \in Ids : alerta[a].status = "livre"}

Resposta == IF BancoFalha THEN BOOLEAN ELSE {TRUE}

\* a countdown, or an age, one or more time units later
Falta(n, d)        == IF n > d THEN n - d ELSE 0
Envelhece(n, teto) == IF n = Nunca \/ n >= teto THEN n ELSE n + 1

\* a row back in the queue, due at once
Devolvida(r) == [r EXCEPT !.delivery = "pendente", !.prox = 0]

\* UPDATE alerts SET status = 'resolved' WHERE id IN S and not resolved
Resolvidas(S) ==
  [a \in Ids |-> IF a \in S /\ Viva(a)
                 THEN [alerta[a] EXCEPT !.status = "resolved"] ELSE alerta[a]]

-----------------------------------------------------------------------------
(* Detectors: Enqueue and Recovered.                                        *)

DetOcioso == [pc |-> "ocioso", id |-> 0, ids |-> {}, avisar |-> FALSE, prox |-> 0]
Det == [pc : {"ocioso", "renotifica", "reabre", "ultimo", "cria", "confirma",
              "resolve", "anuncia"},
        id : 0..MaxAlertas, ids : SUBSET Ids, avisar : BOOLEAN, prox : Prazos]

\* enough ids are left for this detector and those already on their way
HaId == Cardinality(Livres) >
          Cardinality({d \in Detectores :
                         det[d].pc \in {"ultimo", "cria", "resolve", "anuncia"}})

PodeAvisar_SemCooldown(i) ==
  alerta[i].status = "open" /\ alerta[i].delivery = "enviado"

\* whether renotificar puts the row back in the queue
PodeAvisar(i) ==
  /\ alerta[i].status = "open"
  /\ alerta[i].delivery = "enviado"
  /\ alerta[i].notif = Nunca \/ alerta[i].notif >= Cooldown

\* incidenteVivo, and the decisions renotificar takes on the row it read
EnqueueVivo(d) ==
  LET vivos  == {a \in VivasDe(ChaveDe[d]) : alerta[a].visto <= Retomada}
      i      == Max(vivos)
      avisar == PodeAvisar(i)
  IN /\ det[d].pc = "ocioso"
     /\ \/ /\ vivos = {} /\ HaId
           /\ det' = [det EXCEPT ![d].pc = "ultimo"]
        \/ /\ vivos # {}
           /\ avisar \/ alerta[i].visto >= Visto
           /\ det' = [det EXCEPT ![d] = [DetOcioso EXCEPT !.pc = "renotifica",
                                           !.id = i, !.avisar = avisar]]
     /\ UNCHANGED <<tabelas, op, desp, canal, externo>>

\* the UPDATE of renotificar
Renotificar(d) ==
  LET i == det[d].id IN
  /\ det[d].pc = "renotifica"
  /\ \E ok \in Resposta :
       /\ alerta' = IF ~ok \/ ~Gravada(i) THEN alerta
                    ELSE IF det[d].avisar
                    THEN [alerta EXCEPT ![i] = [Devolvida(@) EXCEPT !.visto = 0]]
                    ELSE [alerta EXCEPT ![i].visto = 0]
       /\ det' = [det EXCEPT ![d] = IF ok /\ det[d].avisar
                                    THEN [@ EXCEPT !.pc = "reabre"] ELSE DetOcioso]
  /\ UNCHANGED <<linha, op, desp, canal, externo>>

ReabrirLinhas(d) ==
  LET i == det[d].id IN
  /\ det[d].pc = "reabre"
  /\ \E ok \in Resposta :
       linha' = IF ~ok THEN linha
                ELSE [linha EXCEPT ![i] = [c \in Canais |->
                        IF @[c].status = "ausente" THEN @[c] ELSE LinhaDevida]]
  /\ det' = [det EXCEPT ![d] = DetOcioso]
  /\ UNCHANGED <<alerta, op, desp, canal, externo>>

\* the cooldown of a new incident: MAX(last_notified_at) of the key
UltimoAviso(d) ==
  LET avisos == {alerta[a].notif : a \in DaChave(ChaveDe[d])} \ {Nunca} IN
  /\ det[d].pc = "ultimo"
  /\ \E ok \in Resposta :
       det' = [det EXCEPT ![d] =
                 [@ EXCEPT !.pc = "cria",
                           !.prox = IF ok /\ avisos # {}
                                    THEN Falta(Cooldown, Min(avisos)) ELSE 0]]
  /\ UNCHANGED <<tabelas, op, desp, canal, externo>>

\* the INSERT and the UPDATE of Enqueue's transaction, not committed yet: the
\* UPDATE sees the rows other transactions have committed
CriarAlerta(d) ==
  LET novo == Min(Livres) IN
  /\ det[d].pc = "cria" /\ Livres # {}
  /\ alerta' = [alerta EXCEPT ![novo] =
                  Nova(ChaveDe[d], FALSE, "gravando", det[d].prox)]
  /\ det' = [det EXCEPT ![d] = [@ EXCEPT !.pc = "confirma", !.id = novo,
                                         !.ids = VivasDe(ChaveDe[d])]]
  /\ UNCHANGED <<linha, op, desp, canal, externo>>

\* the commit: the new row appears and the rows it replaces are resolved
ConfirmarAlerta(d) ==
  /\ det[d].pc = "confirma"
  /\ \E ok \in Resposta :
       alerta' = IF ok
                 THEN [Resolvidas(det[d].ids) EXCEPT ![det[d].id].status = "open"]
                 ELSE [alerta EXCEPT ![det[d].id] = Apagada(det[d].id)]
  /\ det' = [det EXCEPT ![d] = DetOcioso]
  /\ UNCHANGED <<linha, op, desp, canal, externo>>

Anunciado_Sempre(abertos) == abertos # {}

Anunciado(abertos) == \E a \in abertos : alerta[a].notif # Nunca

RecoveredLer(d) ==
  LET abertos == VivasDe(ChaveDe[d]) IN
  /\ det[d].pc = "ocioso" /\ HaId
  /\ abertos # {}
  /\ det' = [det EXCEPT ![d] = [@ EXCEPT !.pc = "resolve",
                                         !.avisar = Anunciado(abertos)]]
  /\ UNCHANGED <<tabelas, op, desp, canal, externo>>

RecoveredResolver(d) ==
  /\ det[d].pc = "resolve"
  /\ \E ok \in Resposta :
       /\ alerta' = IF ok THEN Resolvidas(VivasDe(ChaveDe[d])) ELSE alerta
       /\ det' = [det EXCEPT ![d] = IF ok /\ det[d].avisar /\ RecoveryEnabled
                                    THEN [@ EXCEPT !.pc = "anuncia"] ELSE DetOcioso]
  /\ UNCHANGED <<linha, op, desp, canal, externo>>

\* the recovery message is a row of its own, born resolved
RecoveredAnunciar(d) ==
  /\ det[d].pc = "anuncia" /\ Livres # {}
  /\ \E ok \in Resposta :
       alerta' = IF ok THEN [alerta EXCEPT ![Min(Livres)] =
                               Nova(ChaveDe[d], TRUE, "resolved", 0)]
                 ELSE alerta
  /\ det' = [det EXCEPT ![d] = DetOcioso]
  /\ UNCHANGED <<linha, op, desp, canal, externo>>

DetectorContinua(d) ==
  \/ Renotificar(d) \/ ReabrirLinhas(d)
  \/ UltimoAviso(d) \/ CriarAlerta(d) \/ ConfirmarAlerta(d)
  \/ RecoveredResolver(d) \/ RecoveredAnunciar(d)

Detector(d) == EnqueueVivo(d) \/ RecoveredLer(d) \/ DetectorContinua(d)

-----------------------------------------------------------------------------
(* Operators: the row is read and checked, then written by id alone.        *)

OpOcioso == [verbo |-> "nada", id |-> 0]
Op == {OpOcioso} \cup [verbo : {"acked", "resolved"}, id : Ids]

AlertDaRota(o) ==
  /\ op[o] = OpOcioso
  /\ \E a \in Ids, v \in Verbos :
       /\ Viva(a)
       /\ op' = [op EXCEPT ![o] = [verbo |-> v, id |-> a]]
  /\ UNCHANGED <<tabelas, det, desp, canal, externo>>

AlertGravar(o) ==
  LET a == op[o].id IN
  /\ op[o].verbo # "nada"
  /\ \E ok \in Resposta :
       IF ok /\ Gravada(a)
       THEN /\ alerta' = [alerta EXCEPT ![a].status = op[o].verbo]
            /\ tardio' = IF op[o].verbo = "acked" /\ alerta[a].status = "resolved"
                         THEN tardio \cup {a} ELSE tardio
       ELSE UNCHANGED <<alerta, tardio>>
  /\ op' = [op EXCEPT ![o] = OpOcioso]
  /\ UNCHANGED <<linha, det, desp, canal, envio, quedas>>

-----------------------------------------------------------------------------
(* Health of the Telegram channel.  verificado[p] holds the failed rows      *)
(* whose last attempt is older than p's last health mark; a delivery in      *)
(* flight remembers in marcaram who marked since it started.                 *)

Estados == {"desligado", "ok", "degradado"}
Canal   == [ativos : Configs, estado : Estados, verificado : SUBSET Ids]

Falhos == {a \in Ids : alerta[a].status = "open" /\ alerta[a].delivery = "falhou"}

Marcado(p, bem) ==
  [canal[p] EXCEPT !.estado = IF bem THEN "ok" ELSE "degradado",
                   !.verificado = Falhos]

Marcando(p, d) == [q \in Processos |-> [d[q] EXCEPT !.marcaram = @ \cup {p}]]

\* verificarCanal, at any moment vigiarCanal wakes up
VerificarCanal(p) ==
  /\ canal[p].estado # "desligado"
  /\ \E bem \in BOOLEAN : canal' = [canal EXCEPT ![p] = Marcado(p, bem)]
  /\ desp' = Marcando(p, desp)
  /\ UNCHANGED <<tabelas, det, op, externo>>

-----------------------------------------------------------------------------
(* The dispatcher.                                                          *)

Registro ==
  [pc : {"inicia", "dorme", "dispensa", "dispensa_alertas", "dispensa_linhas",
         "retoma", "retoma_alertas", "retoma_linhas", "reivindica", "prepara",
         "envia", "consolida"},
   caso : Entregas,              \* the case of dispensarResolvidos / retomarPresos
   ids : SUBSET Ids,             \* rows listed for it
   provados : SUBSET Ids,        \* the snapshot Status() allows to resume
   lote : SUBSET Ids,            \* the claimed batch, in memory
   lin : [Canais -> Linha],      \* the lines of the row being delivered
   faltam : SUBSET Canais,       \* channels still to try for it
   tentou : BOOLEAN, entregou : BOOLEAN,
   t : 0..Duracao,               \* age of the instant entregarAlerta captured
   marcaram : SUBSET Processos]  \* health marks since that instant

\* the delivery in hand has a row, and the channels still to try are owed
Desp ==
  {d \in Registro :
     /\ d.pc \in {"prepara", "envia", "consolida"} => d.lote # {}
     /\ d.pc = "envia" => d.faltam # {}
     /\ \A c \in d.faltam : d.lin[c].status = "pendente"}

DespInicio ==
  [pc |-> "inicia", caso |-> "dispensado", ids |-> {}, provados |-> {},
   lote |-> {}, lin |-> SemLinhas, faltam |-> {}, tentou |-> FALSE,
   entregou |-> FALSE, t |-> 0, marcaram |-> {}]
DespDorme == [DespInicio EXCEPT !.pc = "dorme"]

\* fecharDuplicados, before the first pass
FecharDuplicados(p) ==
  /\ desp[p].pc = "inicia"
  /\ \E ok \in Resposta :
       alerta' = IF ~ok THEN alerta
                 ELSE Resolvidas({a \in Ids : \E b \in VivasDe(alerta[a].chave) : a < b})
  /\ desp' = [desp EXCEPT ![p].pc = "dorme"]
  /\ UNCHANGED <<linha, det, op, canal, externo>>

Dispensaveis_SemFiltro(caso) ==
  {a \in Ids : /\ alerta[a].status = "resolved"
               /\ alerta[a].delivery = "pendente"
               /\ ~alerta[a].rec}

\* what a case of dispensarResolvidos selects
Dispensaveis(caso) ==
  {a \in Ids : /\ alerta[a].status = "resolved"
               /\ alerta[a].delivery = "pendente"
               /\ ~alerta[a].rec
               /\ (alerta[a].notif = Nunca) <=> (caso = "dispensado")}

DepoisDeDispensar(d) ==
  IF d.caso = "dispensado"
  THEN [d EXCEPT !.pc = "dispensa", !.caso = "enviado", !.ids = {}]
  ELSE [d EXCEPT !.pc = "retoma", !.caso = "sem_canal", !.ids = {}]

\* a pass starts with the first case of dispensarResolvidos
DispensarLer(p) ==
  /\ desp[p].pc \in {"dorme", "dispensa"}
  /\ \E ok \in Resposta :
       desp' = [desp EXCEPT ![p] =
                  [@ EXCEPT !.pc = "dispensa_alertas",
                            !.ids = IF ok THEN Dispensaveis(desp[p].caso) ELSE {}]]
  /\ UNCHANGED <<tabelas, det, op, canal, externo>>

DispensarAlertas(p) ==
  LET S == Dispensaveis(desp[p].caso) IN
  /\ desp[p].pc = "dispensa_alertas"
  /\ \E ok \in Resposta :
       /\ alerta' = IF ~ok THEN alerta
                    ELSE [a \in Ids |-> IF a \in S
                            THEN [alerta[a] EXCEPT !.delivery = desp[p].caso, !.prox = 0]
                            ELSE alerta[a]]
       /\ desp' = [desp EXCEPT ![p] = IF ok /\ @.ids # {}
                                      THEN [@ EXCEPT !.pc = "dispensa_linhas"]
                                      ELSE DepoisDeDispensar(@)]
  /\ UNCHANGED <<linha, det, op, canal, externo>>

\* the lines of the rows of S with a status of T become nova, keeping the rest
Relinhadas(S, T, nova) ==
  [a \in Ids |-> [c \in Canais |-> IF a \in S /\ linha[a][c].status \in T
                                   THEN nova ELSE linha[a][c]]]

DispensarLinhas(p) ==
  /\ desp[p].pc = "dispensa_linhas"
  /\ \E ok \in Resposta :
       linha' = IF ~ok THEN linha
                ELSE [a \in Ids |-> [c \in Canais |->
                       IF a \in desp[p].ids /\ linha[a][c].status = "pendente"
                       THEN [linha[a][c] EXCEPT !.status = desp[p].caso, !.prox = 0]
                       ELSE linha[a][c]]]
  /\ desp' = [desp EXCEPT ![p] = DepoisDeDispensar(@)]
  /\ UNCHANGED <<alerta, det, op, canal, externo>>

Presos_Invertido(caso, provados) ==
  {a \in Ids : /\ alerta[a].status = "open"
               /\ alerta[a].delivery = caso
               /\ alerta[a].visto <= Retomada
               /\ caso = "falhou" => a \notin provados}

Presos_Todos(caso, provados) ==
  {a \in Ids : Gravada(a) /\ alerta[a].delivery = caso /\ alerta[a].visto <= Retomada}

\* what a case of retomarPresos selects, given what Status() proved
Presos(caso, provados) ==
  {a \in Ids : /\ alerta[a].status = "open"
               /\ alerta[a].delivery = caso
               /\ alerta[a].visto <= Retomada
               /\ caso = "falhou" => a \in provados}

DepoisDeRetomar(d) ==
  IF d.caso = "sem_canal" /\ d.provados # {}
  THEN [d EXCEPT !.pc = "retoma", !.caso = "falhou", !.ids = {}]
  ELSE [d EXCEPT !.pc = "reivindica", !.caso = "dispensado", !.ids = {},
                 !.provados = {}]

\* the first case reads Status(); a disabled Telegram resumes nothing
RetomarLer(p) ==
  LET d     == desp[p]
      prova == IF d.caso = "falhou" THEN d.provados
               ELSE IF canal[p].estado = "ok" THEN canal[p].verificado ELSE {}
      lidos == [d EXCEPT !.ids = Presos(d.caso, prova), !.provados = prova,
                         !.pc = "retoma_alertas"]
  IN /\ d.pc = "retoma"
     /\ \E ok \in Resposta : desp' = [desp EXCEPT ![p] =
          IF d.caso = "sem_canal" /\ canal[p].estado = "desligado"
          THEN [d EXCEPT !.pc = "reivindica", !.caso = "dispensado"]
          ELSE IF ok /\ lidos.ids # {} THEN lidos ELSE DepoisDeRetomar(lidos)]
     /\ UNCHANGED <<tabelas, det, op, canal, externo>>

\* retomarAlertas writes by id, whatever the rows have become
RetomarAlertas(p) ==
  /\ desp[p].pc = "retoma_alertas"
  /\ \E ok \in Resposta :
       /\ alerta' = IF ~ok THEN alerta
                    ELSE [a \in Ids |-> IF a \in desp[p].ids /\ Gravada(a)
                            THEN Devolvida(alerta[a])
                            ELSE alerta[a]]
       /\ desp' = [desp EXCEPT ![p] = IF ok THEN [@ EXCEPT !.pc = "retoma_linhas"]
                                      ELSE DepoisDeRetomar(@)]
  /\ UNCHANGED <<linha, det, op, canal, externo>>

RetomarLinhas(p) ==
  /\ desp[p].pc = "retoma_linhas"
  /\ \E ok \in Resposta :
       linha' = IF ~ok THEN linha
                ELSE Relinhadas(desp[p].ids, {"sem_canal", "falhou"}, LinhaDevida)
  /\ desp' = [desp EXCEPT ![p] = DepoisDeRetomar(@)]
  /\ UNCHANGED <<alerta, det, op, canal, externo>>

\* pendentesVencidos
Vencida(a) ==
  /\ Gravada(a) /\ alerta[a].delivery = "pendente" /\ alerta[a].prox = 0
  /\ alerta[a].status # "resolved" \/ alerta[a].rec

\* claimBatch, one transaction with FOR UPDATE SKIP LOCKED
ClaimBatch(p) ==
  LET vencidas == {a \in Ids : Vencida(a)}
      claimed  == {a \in vencidas : Cardinality({b \in vencidas : b < a}) < Lote}
  IN /\ desp[p].pc = "reivindica"
     /\ \E ok \in Resposta :
          IF ok /\ claimed # {}
          THEN /\ alerta' = [a \in Ids |-> IF a \in claimed
                               THEN [alerta[a] EXCEPT !.prox = Lease] ELSE alerta[a]]
               /\ desp' = [desp EXCEPT ![p] = [@ EXCEPT !.pc = "prepara", !.lote = claimed]]
          ELSE /\ desp' = [desp EXCEPT ![p] = DespDorme]
               /\ UNCHANGED alerta
     /\ UNCHANGED <<linha, det, op, canal, externo>>

\* the row in hand, and the state of the dispatcher when it is done with it
Atual(p)   == Min(desp[p].lote)
Proximo(p) == LET resto == desp[p].lote \ {Atual(p)} IN
              IF resto = {} THEN DespDorme
              ELSE [DespInicio EXCEPT !.pc = "prepara", !.lote = resto]

Devida(l) == l.status = "pendente" /\ l.prox = 0

\* the INSERT ... ON CONFLICT DO NOTHING of garantirLinhas, a statement of its own
\* when it has a line to create: it fails for a row deleted meanwhile
GarantirLinhas(p) ==
  LET a      == Atual(p)
      faltam == {c \in canal[p].ativos : linha[a][c].status = "ausente"}
  IN /\ desp[p].pc = "prepara" /\ faltam # {}
     /\ \E ok \in Resposta :
          \/ /\ ok /\ Gravada(a)
             /\ linha' = [linha EXCEPT ![a] =
                            [c \in Canais |-> IF c \in faltam THEN LinhaDevida ELSE @[c]]]
             /\ UNCHANGED desp
          \/ /\ ~(ok /\ Gravada(a))
             /\ desp' = [desp EXCEPT ![p] = Proximo(p)]
             /\ UNCHANGED linha
     /\ UNCHANGED <<alerta, det, op, canal, externo>>

\* entregarAlerta up to its first delivery: registerSemCanal, or the SELECT of
\* garantirLinhas
Preparar(p) ==
  LET a      == Atual(p)
      ativos == canal[p].ativos
      faltam == {c \in ativos : Devida(linha[a][c])}
  IN /\ desp[p].pc = "prepara"
     /\ \A c \in ativos : linha[a][c].status # "ausente"
     /\ \E ok \in Resposta :
          \/ /\ ativos = {}
             /\ alerta' = IF ok /\ Gravada(a)
                          THEN [alerta EXCEPT ![a] = [@ EXCEPT !.delivery = "sem_canal", !.prox = 0]]
                          ELSE alerta
             /\ desp' = [desp EXCEPT ![p] = Proximo(p)]
          \/ /\ ativos # {} /\ ok /\ Gravada(a)
             /\ desp' = [desp EXCEPT ![p] =
                  [@ EXCEPT !.lin = linha[a], !.faltam = faltam, !.t = 0, !.marcaram = {},
                            !.tentou = faltam # {}, !.entregou = FALSE,
                            !.pc = IF faltam = {} THEN "consolida" ELSE "envia"]]
             /\ UNCHANGED alerta
          \/ /\ ativos # {} /\ ~(ok /\ Gravada(a))
             /\ desp' = [desp EXCEPT ![p] = Proximo(p)]
             /\ UNCHANGED alerta
     /\ UNCHANGED <<linha, det, op, canal, externo>>

\* retryDelay: it doubles from backoffBase up to backoffMax
RetryDelay(tentativas) ==
  LET dobro == EsperaBase * 2^(tentativas - 1)
  IN IF dobro \in 1..EsperaMax THEN dobro ELSE EsperaMax

Resultado_UmaAMais(l, sucesso) ==
  LET n == l.tent + 1 IN
  CASE sucesso -> [status |-> "enviado", tent |-> n, prox |-> 0]
    [] ~sucesso /\ n > MaxTentativas -> [status |-> "falhou", tent |-> n, prox |-> 0]
    [] ~sucesso /\ n <= MaxTentativas -> [status |-> "pendente", tent |-> n, prox |-> RetryDelay(n)]

Resultado_SemContar(l, sucesso) ==
  IF sucesso THEN [status |-> "enviado", tent |-> l.tent, prox |-> 0]
  ELSE [status |-> "pendente", tent |-> l.tent, prox |-> RetryDelay(1)]

\* registrarResultado on a line, next_attempt_at relative to the captured instant.
\* Its ErrSemCanal case is left out: Entregar answers it only on a channel that is
\* not configured (telegram.go:169, ntfy.go:43, webhook.go:81), and the channels
\* delivered to are the configured ones
Resultado(l, sucesso) ==
  LET n == l.tent + 1 IN
  CASE sucesso -> [status |-> "enviado", tent |-> n, prox |-> 0]
    [] ~sucesso /\ n >= MaxTentativas -> [status |-> "falhou", tent |-> n, prox |-> 0]
    [] ~sucesso /\ n < MaxTentativas  ->
         [status |-> "pendente", tent |-> n, prox |-> RetryDelay(n)]

\* the answer of one HTTP delivery, and the line it is registered on
Entregar(p) ==
  LET a == Atual(p)
      c == Min(desp[p].faltam)
  IN /\ desp[p].pc = "envia"
     /\ \E sucesso \in BOOLEAN, ok \in Resposta :
          LET l     == Resultado(desp[p].lin[c], sucesso)
              resto == desp[p].faltam \ {c}
              d     == [desp EXCEPT ![p] =
                         [@ EXCEPT !.lin[c] = l, !.faltam = resto,
                                   !.entregou = desp[p].entregou \/ sucesso,
                                   !.pc = IF resto = {} THEN "consolida" ELSE "envia"]]
          IN /\ linha' = IF ok /\ Gravada(a)
                         THEN [linha EXCEPT ![a][c] =
                                 [l EXCEPT !.prox = Falta(@, desp[p].t)]]
                         ELSE linha
             /\ envio' = IF sucesso THEN [envio EXCEPT ![a][c] = 0] ELSE envio
             /\ IF c = Telegram
                THEN /\ canal' = [canal EXCEPT ![p] = Marcado(p, sucesso)]
                     /\ desp' = Marcando(p, d)
                ELSE /\ desp' = d
                     /\ UNCHANGED canal
     /\ UNCHANGED <<alerta, det, op, tardio, quedas>>

Consolidado_SemFalha(lin, ativos) ==
  LET tem(s) == \E c \in ativos : lin[c].status = s IN
  CASE tem("pendente")  -> "pendente"
    [] tem("sem_canal") -> "sem_canal"
    [] OTHER            -> "enviado"

\* the delivery consolidar derives from the lines of the active channels
Consolidado(lin, ativos) ==
  LET tem(s) == \E c \in ativos : lin[c].status = s IN
  CASE tem("pendente")  -> "pendente"
    [] tem("sem_canal") -> "sem_canal"
    [] tem("falhou")    -> "falhou"
    [] OTHER            -> "enviado"

\* whether the row's new last_attempt_at is older than each health mark: known
\* from marcaram if a line was tried now, else it may be any earlier instant
Reverificado(p, a, delivery) ==
  LET podem  == {q \in Processos : canal[q].estado # "desligado"}
      depois == IF delivery # "falhou" THEN {{}}
                ELSE IF desp[p].tentou THEN {desp[p].marcaram \cap podem}
                ELSE SUBSET podem
  IN {[q \in Processos |->
         [canal[q] EXCEPT !.verificado = IF q \in quem THEN @ \cup {a} ELSE @ \ {a}]]
       : quem \in depois}

Consolidar(p) ==
  LET a         == Atual(p)
      ativos    == canal[p].ativos
      lin       == desp[p].lin
      t         == desp[p].t
      delivery  == Consolidado(lin, ativos)
      pendentes == {lin[c].prox : c \in {x \in ativos : lin[x].status = "pendente"}}
  IN /\ desp[p].pc = "consolida"
     /\ \E ok \in Resposta :
          IF ok /\ Gravada(a)
          THEN /\ alerta' = [alerta EXCEPT ![a] =
                    [@ EXCEPT !.delivery = delivery,
                              !.prox = IF delivery = "pendente"
                                       THEN Falta(Min(pendentes), t) ELSE 0,
                              !.notif = IF ~desp[p].entregou THEN alerta[a].notif
                                        ELSE IF t < Cooldown THEN t ELSE Cooldown]]
               /\ canal' \in Reverificado(p, a, delivery)
          ELSE UNCHANGED <<alerta, canal>>
     /\ desp' = [desp EXCEPT ![p] = Proximo(p)]
     /\ UNCHANGED <<linha, det, op, externo>>

Despachante(p) ==
  \/ FecharDuplicados(p)
  \/ DispensarLer(p) \/ DispensarAlertas(p) \/ DispensarLinhas(p)
  \/ RetomarLer(p) \/ RetomarAlertas(p) \/ RetomarLinhas(p)
  \/ ClaimBatch(p) \/ GarantirLinhas(p) \/ Preparar(p) \/ Entregar(p) \/ Consolidar(p)

-----------------------------------------------------------------------------
(* Retention, crashes and time.                                             *)

\* pruneAlerts; alert_deliveries goes by ON DELETE CASCADE (migration 014)
Podavel(a) ==
  /\ Gravada(a) /\ alerta[a].idade >= Retencao /\ alerta[a].status # "open"
  /\ alerta[a].status = "resolved" \/ alerta[a].delivery = "enviado"

PruneAlerts ==
  LET S == {a \in Ids : Podavel(a)} IN
  /\ Poda /\ S # {}
  /\ alerta' = [a \in Ids |-> IF a \in S THEN Apagada(a) ELSE alerta[a]]
  /\ linha' = [a \in Ids |-> IF a \in S THEN SemLinhas ELSE linha[a]]
  /\ UNCHANGED <<det, op, desp, canal, externo>>

\* a process stops anywhere and starts again with some set of channels: what it
\* held in memory is gone, an open transaction is rolled back, and alert.Init
\* verifies Telegram before anything else runs
Queda(p) ==
  LET meus == {x \in Detectores \cup Operadores : Casa[x] = p}
      abertas == {det[d].id : d \in {x \in Detectores \cap meus : det[x].pc = "confirma"}}
  IN /\ quedas < MaxQuedas
     /\ quedas' = quedas + 1
     /\ alerta' = [a \in Ids |-> IF a \in abertas THEN Apagada(a) ELSE alerta[a]]
     /\ det' = [d \in Detectores |-> IF d \in meus THEN DetOcioso ELSE det[d]]
     /\ op' = [o \in Operadores |-> IF o \in meus THEN OpOcioso ELSE op[o]]
     /\ \E ativos \in Configs, bem \in BOOLEAN :
          IF Telegram \in ativos
          THEN /\ canal' = [canal EXCEPT ![p] = [Marcado(p, bem) EXCEPT !.ativos = ativos]]
               /\ desp' = Marcando(p, [desp EXCEPT ![p] = DespInicio])
          ELSE /\ canal' = [canal EXCEPT ![p] =
                    [ativos |-> ativos, estado |-> "desligado", verificado |-> {}]]
               /\ desp' = [desp EXCEPT ![p] = DespInicio]
     /\ UNCHANGED <<linha, historia>>

Tick ==
  /\ \A d \in Detectores : det[d] = DetOcioso
  /\ \A o \in Operadores : op[o] = OpOcioso
  /\ \A p \in Processos : \/ desp[p].pc = "dorme"
                          \/ desp[p].pc = "envia" /\ desp[p].t < Duracao
  /\ alerta' = [a \in Ids |-> IF ~Gravada(a) THEN alerta[a] ELSE
       [alerta[a] EXCEPT !.prox = Falta(@, 1), !.visto = Envelhece(@, Retomada + 1),
                         !.notif = Envelhece(@, Cooldown), !.idade = Envelhece(@, Retencao)]]
  /\ linha' = [a \in Ids |-> [c \in Canais |-> [linha[a][c] EXCEPT !.prox = Falta(@, 1)]]]
  /\ desp' = [p \in Processos |-> IF desp[p].pc = "envia"
                                  THEN [desp[p] EXCEPT !.t = @ + 1] ELSE desp[p]]
  /\ envio' = [a \in Ids |-> [c \in Canais |-> Envelhece(envio[a][c], Cooldown)]]
  /\ UNCHANGED <<det, op, canal, tardio, quedas>>

Init ==
  /\ alerta = [a \in Ids |-> Vazia]
  /\ linha = [a \in Ids |-> SemLinhas]
  /\ det = [d \in Detectores |-> DetOcioso]
  /\ op = [o \in Operadores |-> OpOcioso]
  /\ desp = [p \in Processos |-> DespInicio]
  /\ canal \in [Processos -> [ativos : Configs, estado : Estados, verificado : {{}}]]
  /\ \A p \in Processos : (canal[p].estado = "desligado") <=> (Telegram \notin canal[p].ativos)
  /\ envio = [a \in Ids |-> [c \in Canais |-> Nunca]]
  /\ tardio = {}
  /\ quedas = 0

Next ==
  \/ \E d \in Detectores : Detector(d)
  \/ \E o \in Operadores : AlertDaRota(o) \/ AlertGravar(o)
  \/ \E p \in Processos : Despachante(p) \/ VerificarCanal(p) \/ Queda(p)
  \/ PruneAlerts
  \/ Tick

Spec == Init /\ [][Next]_vars

\* the ticker of each dispatcher, the answers of the database and of HTTP calls
\* (bounded by timeouts), and time go on; nobody has to detect, recover,
\* acknowledge, resolve, prune or crash
Fairness ==
  /\ \A d \in Detectores : WF_vars(DetectorContinua(d))
  /\ \A o \in Operadores : WF_vars(AlertGravar(o))
  /\ \A p \in Processos : WF_vars(Despachante(p))
  /\ SF_vars(Tick)

FairSpec == Spec /\ Fairness
=============================================================================
