# DockKeeper in TLA+

DockKeeper is a monitoring panel. One Go server (`src/backend`) collects metrics of
machines over SSH and from agents, evaluates alert rules, keeps the incidents in
PostgreSQL, tells people about them over Telegram, ntfy or a webhook, and elects the
main load balancer of each site from the traffic it sees. A React panel (`src/frontend`)
reads its HTTP API and writes through it.

This directory models the parts of the server, and the views of the panel, where order,
failure and concurrency decide whether they are correct. TLC checks the models on small
instances; TLAPS proves the theorems that matter most for every value of the constants.
Names are those of the code (in Portuguese) wherever TLA+ allows it. Paths below are
relative to `src/backend/internal` unless they start with `docs/` or `cmd/`, or end in
`.tsx` or `.ts`: those are under `src/frontend/src` (`components/` where no directory is
given).

## 1. Inventory

`cmd/dockkeeper/main.go` starts everything in one process: channels of alert, discovery,
the database (with its migrations), authentication, then the workers (trends, log
retention, certificates, rule engine, absence watch, SSH collectors, metric retention,
channel health, dispatcher, election, discovery) and the HTTP server; at the end it
stops the collectors and flushes the log writer. Every worker is a goroutine under
`safego.Run`, which restarts it after a panic with a growing pause. Workers share the
database and almost nothing else: what one writes another reads in a later statement,
seldom in the same transaction. That is where most of the hazards come from.

| Component | State it keeps | Operations | What is hard | What makes it correct |
|---|---|---|---|---|
| **Alert queue** (`alert/fila.go`, `entrega.go`) | tables `alerts` and `alert_deliveries` (one line per alert and channel) | `Enqueue`, `renotificar`, `Recovered`; `dispatchPending`: `dispensarResolvidos`, `retomarPresos`, `claimBatch`, `entregarAlerta`, `consolidar` | every operation is several statements; detectors, operators and one dispatcher per process interleave; an HTTP call takes time; any statement may fail; crashes | one unresolved row per key; "enviado" means a message left; nothing announced as over that was not announced; the cooldown; nothing due stays for ever |
| **Channel health** (`alert/saude.go`) | state and instant of the last check, in memory | `verificarCanal`; a mark by every delivery | the dispatcher reads it at another moment than the rows it resumes | a failed row is resumed after a later sign of life, and then is |
| **Alert API** (`api/alerts_handler.go`) | none | acknowledge, resolve | the row is read and checked, then written by id | an acknowledgement does not revive a resolved row |
| **Rule engine** (`rules/engine.go`) | table `alert_states`: start of the violation, last violating sample, whether it has an incident | `evaluate` each 30 s: `loadAlertStates`, `alert.Enqueue`, `alert.Recovered`, `flushBreaches`, `flushSettled` | the incident is in another table, opened before and closed before the state is written; errors are only logged | no incident before `for_duration_sec`; no incident forgotten; a lasting violation fires, a lasting recovery closes |
| **Rules API** (`api/rules_handler.go`) | table `alert_rules` | create, toggle, remove | a rule changes while it is evaluated | states go with their rule |
| **Load balancer election** (`malha/eleicao.go`) | challenge counters in memory; `nginx_papel` in `servers` | `Eleger` each minute: list, sum, `decidir` per group, write each role, announce | rows move between the listing and the writes; roles are written one by one; the counters die with the process | at most one principal; hysteresis; a real failover is recognised |
| **Probes** (`ssh/nginx_sonda.go`, `postgres_sonda.go`, `mysql_sonda.go`) | columns of `servers`, inventory of databases | run a command over SSH, parse, write | a failing probe against a lasting fact | candidacy follows the probe |
| **Servers and sites API** (`api/servers_handler.go`, `site_handler.go`) | `servers`, `sites` | register, patch, remove | removal under a running election, collector or rule | references cleared in one transaction |
| **Absence watch** (`rules/ausencia.go`) | none: it reads open keys and devices | every 30 s opens or closes one incident per device | keys and devices are read apart | silent devices alerted once, forgotten keys closed |
| **Trend rollup, metric retention** (`database/trends.go`, `retention.go`) | `metric_server_trends`, raw metrics | hourly buckets from a sliding window; prune by age | the window begins in the middle of an hour; retention waits for the first pass only | a bucket never loses samples; nothing pruned before it is rolled up |
| **Log store** (`logstore/store.go`) | bounded queue, a buffer, a loss counter | `save`, `flush`, the writer with batches and retries | full queue, an outage, a panic, a flush at shutdown | every line is written, counted as lost, or refused alone |
| **SSH collectors** (`ssh/manager.go`, `sessions.go`, `backoff.go`) | map of running servers, sessions per host | `Start`, `Stop`, `StopAll`; acquire, release | stop and start of one server; cap under contention; shutdown | one set of goroutines per server; the cap holds; nothing leaks |
| **Direct triggers** (`ssh/gatilhos.go`, `window.go`) | windows of 30 slots per key | count, open, close | slots leaving the window | a burst opens one incident and the calm closes it |
| **Sessions** (`auth/auth.go`, `database/session.go`) | `sessions` | login, touch, revoke, expire | a revocation with requests in flight | a dead session never comes back |
| **Stream tickets** (`api/ticket.go`) | tickets in memory | issue, use, expire | concurrent uses | one use, and only while the session lives |
| **Login limiter** (`api/ratelimit.go`) | failures per key | allow, fail, succeed, evict | eviction at the cap | a blocked key stays blocked for its window |
| **Enrollment** (`api/enroll_handler.go`, `device_auth.go`) | tokens, device credentials | invite, exchange, revoke | two exchanges at once | one credential per invite |
| **Ingestion** (`api/ingest.go`, `inventory_ingest.go`) | servers, addresses, inventory | upserts by machine id and address | two samples of one machine at once | one row per machine |
| **Discovery** (`discovery/worker.go`) | network hosts | sweep, adopt, prune | a sweep that outlasts its interval | one sweep at a time |
| **Certificate watch** (`network/worker.go`, `ssl.go`) | `domains` | check with bounded concurrency | rows deleted while checked | two keys per domain, each closed |
| **Migrations** (`database/migracoes.go`) | `schema_migrations` | apply in order under an advisory lock | two processes start, a crash in between | each applied once, in order |
| **Panic supervision** (`safego/safego.go`) | the pause | run, restart | shutdown during a pause | the routine comes back until it is cancelled |
| Channels and rendering, configuration, counters, most read-only handlers, agent, schema | none that interleaves | formats, queries, single writes | nothing TLC would add | — |

The panel is one browser tab. Everything in it runs on one thread, so what interleaves
are its requests, whose answers come in any order, its timers, the clicks, and the
server with its other users behind.

| Component | State it keeps | Operations | What is hard | What makes it correct |
|---|---|---|---|---|
| **Readings of the views** (`charts/useMetricSeries.ts`, `ui/load-status.ts`, every view) | what was read, the error beside it, the loading flag | effect, poll, reload, clean-up | nothing orders the answers; each view cancels in its own way | data of a selection that was left passes; a failure is not an empty list; the last version arrives |
| **Writes of the views** (`ServersView.tsx`, `AlertsView.tsx`, …, `ui/DialogProvider.tsx`) | busy flag, one dialog | ask, send, reload or apply | the list the click was made on is old; a reading is in flight; another dialog replaces the first | a flag is up exactly while an operation holds it; the button comes back |
| **Live streams** (`ui/stream-reconnect.ts`) | a source or a timer per effect | ticket, open, drop, back off | a ticket answered after the view moved on | one source, lines of the selection, a state that is true |
| **Session and navigation** (`App.tsx`, `lib/session.ts`, `lib/rotas.ts`, `lib/api.ts`) | session in memory and in `localStorage`, path, panel, sites, site chosen | login, logout, expiry, navigation | a 401 of an earlier session, two clocks | path, panel, sessions and sites agree; a revoked session ends at the login |
| **Dashboards** (`DashboardsView.tsx`) | list, selection, draft | new, edit, save, rename, remove | lists that arrive during a draft, and that leave charts out; answers out of order | keys that are the draft's own; a selection that is listed |
| **Floor plans** (`FloorPlanView.tsx`) | plans, pins, mode | choose, place, move, save, remove | the poll of the pins against the user's hand | pins under edition move by the user only |
| **Databases** (`BancosView.tsx`, `EsquemaDiagrama.tsx`) | filters, panel, dialog, schema, focus | filter, open, choose, focus, Escape | three layers and a keyboard that reaches all of them | the diagram is of the base that is open |
| **Schema diagram** (`lib/erd.ts`) | none: a layout | walk, levels, placing | cycles | contiguous levels, relations that go down, everything fits |
| **Containers** (`ContainersView.tsx`, `lib/containers.ts`) | list, search, preferences, folds | search, hide, order, fold | absent measures, a storage that refuses | every container once, in order; sums over what is there |
| **Routing mesh** (`lib/upstream.ts`, `Dashboard.tsx`, `NginxView.tsx`) | none: a fold of three answers | nodes, edges, totals, severities | addresses that share a machine and machines that share an address | no request lost or doubled among the nodes |
| **Network inventory** (`NetworkView.tsx`) | list, filters, detail, form | filter, edit, save; scan, telemetry and adoption behind | a form older than the row; statements of one handler with others between | one row per site and address; a save changes what the user changed, in the host he edited |
| **Audit pages** (`AuditView.tsx`) | filter, offset, page, total | apply, next, previous | entries written and pruned between pages | no record skipped |
| **History of metrics** (`MetricsHistoryView.tsx`, `lib/metrics.ts`) | server, metric, window, period | choose each, in any order | a catalogue that comes late | no ready-made window the metric lacks |

`PROJECT.json` lists every component with its sources and, under "hazards", what in this
code is hard to test, each at its line.

### How they interact

```
 probes ──► servers ◄── API           metrics ◄── collectors, agents
               │                         │
               ▼                         ▼
        election (malha)          rule engine ◄─► alert_states
               │ Enqueue               │ Enqueue / Recovered
               ▼                       ▼
        ┌──────────────── alerts, alert_deliveries ───────────────┐
        │   ▲ ack, resolve          ▲ claim, deliver, consolidate │
        │   operators (API)         dispatcher ◄── channel health │
        └─────────────────────────────────────────────────────────┘
```

The alert queue is the centre: every detector ends there. It is modelled in full detail;
the rule engine sees its table as "the target has an open incident or not", and the
election sees of it nothing but the announcement at the end of a change.

The panel meets the server at the HTTP API only. `NetworkInventory` and `AuditPages`
have both ends, the handlers with the tables they write and the view with the answers it
holds; `DashboardDraft`, `FloorPlanEditor` and `PanelSession` have of the server the
rows that a request reads or writes; `ViewReads` and `ViewEdits` reduce it to a version
and to a set of items.

### Hazards

`PROJECT.json` lists under "hazards" those that a property covers, and three that none
does, each with the reason (`alert/fila.go:176` and `:440`, `Dashboard.tsx:208`). Others of components not modelled: the incremental pass of
the trends overwrites its oldest hour with part of its samples (`database/trends.go:44`)
and a first pass that fails still opens the gate of retention (`trends.go:27`); the
bounded queue of lines during an outage, a batch written twice after a lost answer, and
a panic of the writer (`logstore/store.go:75`, `:166`, `:93`); Stop and Start of one
server, and the cap of its sessions (`ssh/manager.go:62`, `sessions.go:32`); two
exchanges of an invite (`api/enroll_handler.go:190`); one use of a ticket
(`api/ticket.go:57`); eviction of keys (`api/ratelimit.go:109`); a domain removed while
it is checked (`network/worker.go:63`); keys and devices read apart
(`rules/ausencia.go:61`); the rules of a site that is removed
(`api/site_handler.go:142`).

## 2. Modules

| Module | What it is |
|---|---|
| `AlertQueue` | tables, detectors, operators, dispatchers, health, crashes, retention and time of the alert queue |
| `AlertQueueProperties` | its properties, and the refinement mapping to `AlertLifecycle` |
| `AlertLifecycle` | the abstract life of one alert, as `docs/api.md` tables it |
| `AlertQueueProofs` | its theorems: types, unresolved rows, what is delivered, and the refinement of `AlertLifecycle` |
| `RuleEngine` | `evaluate` for one rule and its targets, with its properties |
| `RuleEngineProofs` | its theorems: types, incidents remembered, duration demanded |
| `BalancerElection` | the election, the rows it reads and who else writes them, with its properties |
| `BalancerElectionProofs` | its theorems |
| `MCAlertQueue`, `MCRuleEngine`, `MCBalancerElection` | model values for TLC |
| `ViewReads`, `ReadCatalog` | how a view reads; the record of each of the 44 readings |
| `ViewEdits`, `EditCatalog` | how a view writes; the record of each of the 33 handlers |
| `StreamReconnect`, `StreamReconnectProofs` | the hook of the live streams; its theorem |
| `PanelSession`, `PanelSessionProofs` | who is signed in and what is on screen; its theorem |
| `DashboardDraft` | the editor of dashboards |
| `FloorPlanEditor` | the editor of floor plans |
| `DatabaseExplorer`, `ComboSelect` | the views of databases, with the drop-down list they use |
| `SchemaDiagram`, `SchemaDiagramProofs` | the layout of the schema diagram; its theorem, with the stack of the walk |
| `ContainerBoard` | the containers: groups, order, sums, preferences |
| `MeshTraffic` | the mesh: nodes, edges, totals, severities |
| `NetworkInventory` | the inventory, table and view |
| `AuditPages` | the audit trail, statements and pages |
| `MetricsHistory` | the choices of the history of metrics |
| `PanelViews` | composes the views: App draws one at a time, and they share the variables |
| `PanelBoardsProofs` | theorems about containers, mesh, dashboards, databases and floor plans, on that composition |
| `PanelViewsProofs` | theorems about the other views, and the types of every view |
| `MCPanelViews` | model values for the views |
| `MCPanelSession` | model values for the session |

Operators whose name ends in `_Something` (`Nova_SemTransacao`, `Breach_Esquecida`) are
plausible bugs in the operator they are named after; no action uses them. They serve to
show that a property fails when the code is wrong in that way.

### AlertQueue and the code

| Model | Code |
|---|---|
| `alerta[a]` | a row of `alerts`: key, recovery or not, `status`, `delivery`, whether there is a `last_notified_at` and its age, age of `last_seen_at`, of the last attempt, time to `next_attempt_at` |
| `linha[a][c]` | the line of `alert_deliveries`: `status`, `attempts`, time to `next_attempt_at` |
| `det[d]` | what a goroutine inside `Enqueue`, `renotificar` or `Recovered` has read and writes next |
| `op[o]` | a request between `alertDaRota` and its UPDATE |
| `desp[p]` | the dispatcher of a process: ids it read, batch it claimed, lines and channels of the alert in hand |
| `canal[p]` | channels active since `Init` (`canaisAtivos`), state and instant of health |
| `EnqueueVivo`, `Renotificar`, `ReabrirLinhas`, `UltimoAviso`, `CriarAlerta`, `ConfirmarAlerta` | the statements of `Enqueue`; the last two are the transaction, whose row is visible only after the commit |
| `RecoveredLer`, `RecoveredResolver`, `RecoveredAnunciar` | the three statements of `Recovered` |
| `AlertDaRota`, `AlertGravar` | acknowledge and resolve |
| `FecharDuplicados`, `DispensarLer`, `DispensarAlertas`, `DispensarLinhas`, `RetomarLer`, `RetomarAlertas`, `RetomarLinhas`, `ClaimBatch`, `GarantirLinhas`, `Preparar`, `Entregar`, `Consolidar` | one pass of `dispatchPending`, statement by statement, with `Entregar` one HTTP call and the write of its line |
| `VerificarCanal` | `verificarCanal` |
| `PruneAlerts` | `pruneAlerts` of `database/retention.go` |
| `Queda` | the process stops at any point and starts again with a set of channels of `Configs` |
| `Tick` | one unit of time: every age and countdown moves |

Instants are ages and countdowns that saturate where the code stops telling them apart,
so the state space is finite with no bound on time. `Tick` waits for database statements
in flight (they are short next to every interval of this code) and not for HTTP calls: a
delivery may take up to `Duracao` units. History variables: `envio` (age of the last
message of a row a channel accepted), `tardio` (rows acknowledged after they were
resolved), `quedas`.

Left out: the severity floor of `Enqueue` (a detector below it does nothing), the direct
`Send` used with no database, the gauge of `medirFila`, texts and formats.

### RuleEngine and the code

| Model | Code |
|---|---|
| `regra` | the row of `alert_rules`: enabled, disabled, deleted |
| `states[k]` | the row of `alert_states` of target k: ages of `first_breach_at` and `last_breach_at`, `active` |
| `aberto[k]` | whether key k has an unresolved row in `alerts` |
| `motor` | the locals of `evaluate`: metrics read, states loaded, targets left, `breaches`, `settled` |
| `Comecar`, `LoadAlertStates` | the reads at the top of `evaluate`; an error of the second is only logged and looks like no state at all |
| `Dentro`, `Viola` | the body of the loop for a sample in the limit and for one that violates |
| `FlushBreaches`, `FlushSettled` | the two writes after the loop; the foreign key of migration 002 refuses the first for a deleted rule |
| `Alternar`, `RemoverRegra`, `Resolver` | PUT and DELETE of a rule, an operator that resolves |
| `Queda`, `Reiniciar`, `Tick` | a crash or panic, the restart, the ticker |

One rule stands for all: rules share only what they read. A target that is "muda" has no
recent metric, or is not a target any more. The other module's incident is one bit here:
`Enqueue` may return true or false on an open one (it renotifies or not), and true on a
closed one unless the severity is below the floor or the statement fails. History:
`violando` (the violation by the samples evaluated, and not by what was written),
`perdido` (targets whose open incident the engine lost by a failure, a crash or the
removal of the rule), `viciado` (targets whose count was not zeroed because of a
failure).

### BalancerElection and the code

| Model | Code |
|---|---|
| `servidor[s]` | the row of `servers`: site, candidate or not, `nginx_papel` |
| `unidades` | the sites |
| `desafios[g]` | the map `desafios` |
| `eleicao` | the locals of `Eleger` and `aplicar` |
| `Listar`, `Esquecido`, `Decidir`, `GravarPapel`, `Anunciar`, `Encerrar` | list and sum; a group no longer listed loses its counter; `decidir` under the mutex; one UPDATE per role that changed; the announcement |
| `Sondar`, `Registrar`, `Remover`, `RemoverUnidade` | what the probe and the API do to the rows meanwhile |
| `Queda` | the counters and the election in flight are lost |

The comparison with the margin is exact here. In the code it is a product of float64,
exact too for the default of 25% and every multiple of 25.

### The panel and the code

| Model | Code |
|---|---|
| `ViewReads`: `leitura` | which record of `ReadCatalog` is run; it never changes |
| `pedidos`, `dados`, `erro`, `primeira` | requests in flight, the state `useState` keeps, `useLoadStatus`, the loading flag |
| `TrocaChave`, `Repete`, `Recarrega`, `Recebe` | the effect run again with its clean-up, the interval, a reload, the continuation of a fetch |
| `Responde`, `Falha`, `ServidorMuda` | the server (external to the view) |
| `ViewEdits`: `mesa`, `dialogo`, `ocupado` | the handlers past their first line and the readings that no handler asked for (the one at mount, those of a timer), the dialog of `DialogProvider.tsx`, the busy flags: one of the view, or one of each row |
| `Clica`, `Settle`, `Executa`, `Recusa`, `Termina`, `Dispara`, `Le`, `Mostra`, `Repete` | the handler up to its first `await`, the dialog, the request, its answer with the catch and the finally, the timer some handlers set, the reread, the interval |

| `StreamReconnect`: `pedidos`, `fontes`, `timers` by effect | `openStream` in flight, `EventSource`s, reconnection timers |
| `PanelSession`: `sessao`, `guardada` | `session` of `App.tsx` and `localStorage`; `Expira` is `clearSession` with the event that follows; `PedeUnidade` and `CreateSiteInline` are the site created from the floor plans, chosen before the list that has it is read |
| `NetworkInventory`: `rede` | the rows of `network_hosts`; `inventory`, `editing`, `form` are the view's |
| `AdotaSemUnidade`, `Varre`, `Telemetria` | the adoption of the rows of no site and the upsert that follows it, two statements: the first may fail and anything may happen in between |
| `LeHost`, `Grava`, `ReleHost` | the three statements of `networkHostUpdateHandler`; another operator's save (`EditaAlheio`) is one step |
| `AuditPages`: `Conta`, `Lista` | the two statements of `audit_handler.go` |
| `SchemaDiagram`: `pilha`, `estado`, `nivel` | the locals of `nivelDosNos` in `lib/erd.ts`, one step per turn of its loop |
| the others | variables and actions have the names of the state and the handlers of their view |

A record of `ReadCatalog` says what the effect of a reading depends on, whether its
clean-up cancels it, whether an interval asks again and with which signal, whether the
answer clears the flag per key or once, and what a failure leaves. One of `EditCatalog`
says when the handler asks, whether it holds a busy flag, of the view or of the row,
whether it sends an item or the whole list, and what it does on success. Readings that
do the same have definitions of their own, each with the lines of its code, and equal
records.

`PanelViews` has one variable for the view on screen and thirteen that are its memory.
This is a composition by alternatives and not by interleaving, as in the code: `App.tsx`
mounts one view and unmounting loses its state. What survives a change of view, the
session, is `PanelSession`.

## 3. Runs

Bounds are in the `.cfg` files; every one is named in the module that declares it.

| Run | Instance | What it shows |
|---|---|---|
| `AQ_ciclo` | fair; 1 key, 1 process whose one channel, Telegram, is configured or not, 2 rows, 2 attempts, delivery takes up to 1 unit | `TypeOK`; `RecuperacaoAnunciada`: a recovery message only after a message of the incident was accepted; `CooldownPorLinha`: a channel accepts the same alert twice only a cooldown apart; `PendenteSai`: a due row leaves the queue; `FalhouERetomado`: a failed row is resumed while the channel is found up |
| `AQ_canais` | 2 channels, batches of 1, 2 rows | `EnviadoFoiAvisado`, `DispensadoNuncaSaiu`: what the delivery of the row says of its lines; `CumpreCiclo`: the queue implements `AlertLifecycle` |
| `AQ_quedas` | 1 operator, 1 crash anywhere, any statement may fail, one channel other than Telegram, retention | `UmaVivaPorChave`: one unresolved row per key, late acknowledgements apart; `AberturaIntegra`, its strengthening |
| `AQ_processos` | violation; 2 keys with a detector each, 2 processes, a delivery of 2 units, a lease of 3, a batch of 2 rows | `SoUmDespacha` (no row in two hands) fails: see section 6 |
| `RE_regras` | fair, 2 targets, duration 2, gap 2, 2 failures | `TypeOK`; `IncidenteLembrado`; `DuracaoExigida`; `ViolacaoDispara`; `VoltaFecha` |
| `RE_orfao` | violation, 1 target, 1 failure | `FechaOProprio` fails: see section 6 |
| `BE_papeis` | fair; 2 servers that come, go and change site, 2 groups, 2 cycles, margin 100%, failing writes, crashes | `TypeOK` (a counter stays below the cycles); `UmPrincipal`; `SemVaivem`; `FailoverReconhecido`: who takes the traffic for good ends as the principal |
| `FE_telas` | fair; each view of the panel, with the data in `MCPanelViews` | 17 properties, below |
| `FE_sessao` | fair; 2 logins, 1 site that exists or is created, 2 requests in flight | `QuadroCoerente`; `RevogadaVoltaAoLogin`: a session the server refuses ends at the login |
| `FE_renomeia` | violation; 2 dashboards, 2 charts | `RenomeiaMantem` fails: see section 6 |
| `FE_gravar_host` | violation; 2 sites, 1 address | `NaoQuebra` fails: see section 6 |
| `FE_inventario` | violation; 2 sites, 1 address | `SoOHostEditado` fails: see section 6 |

`FE_telas` asks of each view what that view may get wrong:

- readings: `OutraChavePassa` (data of a selection that was left passes: a view that hides
  what it waits for never draws it, a protected one only until the new answer arrives, or
  under its failure), `FalhaNuncaViraVazio`, `TelaChega` (the last version, or the
  selection's own data or failure, ends on screen for good);
- writes: `TravaExata` (a busy flag is up exactly while an operation holds it, and no two
  hold the same one), `OcupadoSai`, and `TelaChega` for the lists a timer reads again;
- streams: `FluxoIntegro`, and `TelaChega` for a selection that stays;
- `RascunhoIntegro` (dashboards), `EdicaoFica` (floor plans), `DiagramaDoAlvo`
  (databases), `OrdemESoma` (containers), `NadaPulado` (audit), `JanelaProntaCabe`
  (history);
- inventory: `EdicaoParcial`, `UmaLinhaPorChave`;
- drawings: `DesenhoCerto` (`lib/erd.ts`), `MalhaConfere` (`lib/upstream.ts`);
- `TypeOK` of every module.

Why these bounds are enough to be of interest. Two rows of a key are what it takes for
an old incident and its successor, or an incident and its recovery message, to meet. One
detector per key is what the code has (each key belongs to one goroutine), and one
operator is enough to be late. Two channels are the first number at which one of them
owes while the other has delivered. A batch of one and a batch of two make the
dispatcher hold none, some or all of the rows. Two attempts separate "retry" from "give
up". For a batch to outlast its lease it takes two rows and a lease between the time of
one delivery and that of two. In the engine, a duration of two ticks and a gap of two
make a violation that starts, is interrupted and restarts; two targets are what one
flush may tear apart from the other. In the election, two servers and two groups let the
same server be principal in one group and move to the other; three servers add ties that
two already have, at a size TLC does not finish in minutes. Two requests against one,
with a margin of 100%, hit the boundary of the margin exactly.

In the panel, two selections and two requests are what it takes for an answer to be
late, three events let a failure fall between them. Two items and two operations make a
list that is old when it is sent; one write by another administrator makes it wrong; a
reading of the mount or of the interval may be in flight beside the two. Three effects
let a stream be left twice with a request in flight. Two dashboards of two charts meet
both limits (`MAX_PANELS` and `MAX_DASHBOARDS` are constants). An image of 40 pixels
with clicks at -4 and 30 has a pin at the edge. Three tables with keys of one, four and
nine columns, and three relations, contain every cycle of up to three, self references,
and boxes of different heights. The mesh has a machine of two addresses, and an address
of two machines. Pages of two entries over three or four leave a partial last page.

### Fairness

`AlertQueue!Fairness`: the dispatcher of each process goes on (a ticker of seconds that
never stops, `safego` under it), a detector or a request that began goes on (statements
and HTTP calls have timeouts), and time goes on (strong, because statements in flight
hold `Tick` back). Nobody is obliged to detect, recover, acknowledge, resolve, prune or
crash. `RuleEngine!FairSpec`: `evaluate` goes on, a process that crashed is started
again (`restart: unless-stopped` in `docker-compose.yml`), time goes on; failures are
bounded, so a liveness property says what happens when they end.
`BalancerElection!FairSpec`: `Eleger` goes on; the property itself assumes that from
some moment the rows stop moving and the traffic stays with one server. `mexidos = {}`
in it means no more crashes either.

In the panel: an interval fires while its view is mounted, a request settles (`fetch`
resolves or rejects) and a timer of reconnection fires. Nobody has to click, answer a
dialog, fail, or write at the server; failures are bounded. `PanelSession` assumes that
the view on screen goes on polling, which every view of the panel does.

## 4. Proofs

Assumptions are the `ConstantesOk` of each module, which `PanelViews` collects in
`ConstantesDasTelas`: naturals, non-empty sets, a delay that is not above its ceiling,
and, of what a server may answer, that a list of containers is finite and has one
container per identifier, that the tables of a schema are finitely many, and that hosts,
ports, links and registered machines are finitely many, machines being numbered from 1.
No theorem bounds the number of keys, rows, detectors, operators, processes, channels,
targets, servers, groups, failures, selections, effects, requests in flight, tables,
relations, metrics, containers, charts, plans, links or lines of traffic. A condition
before `Spec` is a hypothesis of that theorem alone: the code does not impose it, and
section 5 says what happens without it.

| Theorem | States |
|---|---|
| `AlertQueueProofs!TipoCorreto` | `Spec => []TypeOK` |
| `AlertQueueProofs!UmaVivaSempre` | `UmDetectorPorChave /\ Spec => []UmaVivaPorChave` |
| `AlertQueueProofs!AberturaSempre` | `UmDetectorPorChave /\ Spec => []AberturaIntegra` |
| `AlertQueueProofs!EnviadoSempreAvisado` | `Spec => []EnviadoFoiAvisado` |
| `AlertQueueProofs!RecuperacaoSempreAnunciada` | `Spec => []RecuperacaoAnunciada` |
| `AlertQueueProofs!DispensadoSempreMudo` | `SemPerda /\ Spec => []DispensadoNuncaSaiu` |
| `AlertQueueProofs!CumpreCicloSempre` | `SemPerda /\ Spec /\ [](tardio = {}) => CumpreCiclo` |
| `AlertQueueProofs!CooldownSempre` | `SemPerda /\ UmCanal /\ UmDetectorPorChave /\ Spec => CooldownPorLinha` |
| `RuleEngineProofs!TipoMotor` | `Spec => []TypeOK` |
| `RuleEngineProofs!IncidenteLembradoSempre` | `Spec => []IncidenteLembrado` |
| `RuleEngineProofs!DuracaoSempreExigida` | `Spec => DuracaoExigida` |
| `BalancerElectionProofs!TipoEleicao` | `Spec => []TypeOK` |
| `BalancerElectionProofs!SemVaivemSempre` | `Spec => SemVaivem` |
| `BalancerElectionProofs!UmPrincipalSempre` | `Spec => []UmPrincipal` |
| `StreamReconnectProofs!FluxoSempreIntegro` | `Spec => [](TypeOK /\ SoUmaFonte /\ LinhasDaSelecao /\ EstadoFiel /\ EsperaCresce)` |
| `SchemaDiagramProofs!DesenhoSempreCerto` | `Spec => [](TypeOK /\ NiveisContiguos /\ RelacaoDesce /\ CabeNoDesenho /\ VizinhancaExata)` |
| `PanelBoardsProofs!OrdemSempreCerta` | `Spec => []OrdemESoma` |
| `PanelBoardsProofs!MalhaSempreConfere` | `Spec => []MalhaConfere` |
| `PanelBoardsProofs!RascunhoSempreIntegro` | `Spec => []RascunhoIntegro` |
| `PanelBoardsProofs!DiagramaSempreDoAlvo` | `Spec => []DiagramaDoAlvo` |
| `PanelBoardsProofs!EdicaoSempreFica` | `Spec => EdicaoFica` |
| `PanelViewsProofs!OutraChaveSemprePassa` | `Spec => []OutraChavePassa` |
| `PanelViewsProofs!FalhaSempreAnunciada` | `Spec => []FalhaNuncaViraVazio` |
| `PanelViewsProofs!TravaSempreExata` | `Spec => []TravaExata` |
| `PanelViewsProofs!FluxoSempreIntegroNaTela` | `Spec => []FluxoIntegro` |
| `PanelViewsProofs!JanelaProntaSempreCabe` | `Spec => []JanelaProntaCabe` |
| `PanelViewsProofs!DesenhoSempreCertoNaTela` | `Spec => []DesenhoCerto` |
| `PanelViewsProofs!EdicaoSempreParcial` | `Spec => EdicaoParcial` |
| `PanelViewsProofs!UmaLinhaSemprePorChave` | `Spec => []UmaLinhaPorChave` |
| `PanelViewsProofs!NadaFicaPulado` | `Spec => []NadaPulado` |
| `PanelViewsProofs!TiposSempre` | `Spec => []TypeOK` |
| `PanelSessionProofs!QuadroSempreCoerente` | `Spec => []QuadroCoerente` |

`SemPerda` abbreviates here `UmProcesso /\ MaxQuedas = 0 /\ ~BancoFalha`: one process,
which neither crashes nor loses a write.

**Types of the queue.** `TypeOK` of the queue is more than types: the sets of states
carry what a dispatcher in each phase holds. A line that is owed has attempts left, a
dispatcher that delivers holds a row, and each channel it has still to try is owed.
Without these the attempts could pass their maximum and the proof that `Resultado` keeps
a line a line would not go through.

**One unresolved row per key.** `UmaVivaPorChave` is not inductive: between the read of
`Enqueue` and its commit there is a row nobody sees. `UmaVivaInv` adds
`AberturaIntegra`: while that transaction is open its row is hidden, belongs to the key
of its detector, and every unresolved row of the key that was not acknowledged late is
among those it read and resolves in the same transaction. Most actions bring no row to
life (`SemVidaNova`); one lemma (`PassoManso`) disposes of all of them, and what is left
is the creation, the commit, the acknowledgement and the crash. The hypothesis
`UmDetectorPorChave` is needed: two transactions of the same key would each resolve the
rows the other cannot see.

**What a message leaves behind.** `EnviadoFoiAvisado` and `RecuperacaoAnunciada` share
`EntregaInv`. The row and its lines are read by one statement and written by another, by
goroutines that do not wait for each other, so the invariant speaks of what each of them
holds in memory as much as of the table: a row not committed yet has had nothing sent of
it (`LinhaCerta`); the row `renotificar` puts back and the incident whose end `Recovered`
announces were announced (`DetCerto`); the lines a dispatcher delivers by say "enviado"
only of channels that accepted a message (`DespCerto`). Ids are handed out in order and
never again (`LivresNoFim`), which is what makes the announced incident earlier than its
recovery. No hypothesis is needed: a crash forgets, and a failing write leaves a row
saying less than happened, never more.

**What "dispensado" says.** `CalaInv` adds the other direction, which a crash does
break: what was accepted is recorded (`LinhaCala`), in the table or still in the memory
of the dispatcher that is delivering the row, and a row `dispensarResolvidos` has read
is not one a delivery is about to consolidate, because the pass of one process does both
in turn.

**The queue implements the life of an alert.** `CicloInv` adds what each row in hand may
still become. Every action of the queue is shown to move each row in one of eight ways:
it stays, closes, is acknowledged, goes back to the queue, is settled, is born, is
pruned, or is hidden before and after (`Fica`, `Fecha`, `Reconhece`, `Volta`, `Liquida`,
`Nasce`, `Some`, `Fora`), or by a step of its delivery. Each of these maps, under
`Vida`, to a step of `AlertLifecycle` of that row or to none, and many rows may move in
one statement (`WHERE id IN`), which is why `AlertLifecycle` lets every row move at
once.

**The cooldown.** `RitmoInv` says that a line still owed is a cooldown away from the
last message its channel accepted, unless the row was settled as sent and its lines
count no more until it is put back (`LinhaRitmo`); that `last_notified_at` is no older
than that message but for `Duracao`; that the row `renotificar` has decided to announce
again has been quiet for a cooldown (`DetRitmo`); and that what a dispatcher is about to
send is `Longe`, an acceptance being the end of that delivery (`DespRitmo`, where one
channel is needed).

**No incident forgotten.** `IncidenteLembrado` needs `LembraInv`: in each phase of an
evaluation only the sets of that phase are in use (`Fases`); and, for every target with
an incident that was not lost, the state loaded is active while the target is still to
be evaluated (`Carregado`), the row to be written is active once it was found violating
(`Anotado`), and the target is not among those to settle (`Fechado`).

**No incident before its time.** The property compares what was observed
(`violando`) with what the engine knows, which is older: it reads the table, decides in
memory, opens the incident and writes the table in separate steps. `ContaInv` says that
the count is never ahead of the observation in any of the three places: in the table
(`Contado`), in the states the evaluation loaded (`Lido`) and in the row it has yet to
write (`Escrito`). A write that fails leaves the table behind and does no harm; the one
exception is the zeroing that was lost, which the property sets apart as `viciado`.

**At most one principal.** `PapeisInv` says that in a group nobody disturbed since the
listing, what was listed is what the table has while the group waits for its decision
(`Leitura`), and afterwards every row outside the set still to be written has the role
that was decided (`Escrita`); when the last row of the group is written without an
error, the table is the decision, and a decision has one principal. `SemVaivem` needs
that the counter of a group never exceeds the number of decisions since its last change
(`Contagem`): crashes and forgotten groups zero the counter and never raise it.

**One source per view.** `SoUmaFonte` says that the current effect has exactly one of a
request, a source and a timer, and that an effect that was left has neither a source nor
a timer (a request in flight cannot be taken back). It is inductive together with
`Futuros`: an effect that has not run has asked for nothing, so that the next one starts
from zero. `EsperaCresce` is about the wait of the next try: doubled up to a ceiling, it
never comes down between two failures, which takes the lemma that 2^n grows and the
assumption that the first wait is not above the ceiling.

**Levels without a gap, relations that go down.** The layout walks the relations with a
stack of its own. `PilhaEmOrdem` says what the stack is: the tables being visited, each
once, each a target of the one below, with targets of its own still to look at. A
finished table keeps its level, and it is the reason of every level above it, so no
level under a table is empty, cycles or not (`NiveisContiguos`). `DesceInv` says what a
finished table owes its targets: each is finished one level further at least, or it was
being visited at that moment, and then it is an ancestor that reaches back
(`RelacaoDesce`). `NosInv` says that the nodes drawn are the tables, one each;
`VizinhancaExata` is then about sets of tables alone, and is proved from the definitions
of the walk over the distances.

**The composed panel.** `PanelBoardsProofs` and `PanelViewsProofs` prove their theorems
of `PanelViews!Spec`, the specification `FE_telas` checks. No step changes the view on
screen, so an invariant of a view is carried by the steps of that view alone
(`tela = "fluxo" => ...`). The streams and the diagram have theorems about their own
specification; the instance inside `PanelViews` is another one to the prover, and the
steps of one are shown to be steps of the other.

**Data of a selection that was left.** `LeituraInv` speaks of the requests too. In a
reading that cancels each request it makes (`Cancela`), every request in flight is of
the selection on screen and the next change of it cancels it (`SoDaSelecao`); what such
a reading shows is then of the selection, or a failure or a request in flight tells
otherwise. In one that clears its loading flag per key, the data are of the key last
answered, and what it hides while it waits is never drawn. Which of the two protects a
reading is in its record, and the proof holds for every record.

**A flag and its holders.** `TravaExata` compares the flags that are up with those that
the operations in course hold (`Presas`): from the request to the finally, or to the end
of the reading or of the timer the handler waits for. What makes it inductive is the
dialog: while one is on screen, what it asks about is free (`PerguntaLivre`), because the
flag is raised only after the answer and a second dialog takes the place of the first.
Every action is then shown to move one slot, and one lemma (`TravaMuda`) says what that
does to the flags: an operation takes what was free, or gives back what was its own.

**Pins under the hand.** `MarcadoresQuietos` is an action property that needs no
invariant: every action is shown to keep the pins while they are in edition, or to end
the edition.

**The draft.** `SelecaoListada` is not inductive: the list becomes what another request
brings, and the answer of any of several may clear "saving". `DraftInv` says what each
request carries (`PedidoBom`): a write, charts of a draft or of a list; a list on its way
back, dashboards within the limits (`Guarda`), of which a list may leave charts out; and
whether it is the save of the draft, of which there is one at most. The keys of the draft
are below the next one (`ChavesProprias`), which an action raises by at most one draft:
that bound makes them a type (`ChavesCabem`).

**The schema of the base.** `BancosInv` says that a schema, once there, is of the base
asked for, that with no schema there is no focus, and that the focus is a table of the
schema chosen. That it is one of those drawn is then a lemma about the layout
(`DesenhadasDoSchema`): the neighbourhood of a table has that table in it.

**Sums and orders.** `OrdemESoma` and `MalhaConfere` say of a state what its sums and
rows are, so the invariants under them are small (`BoardInv`: types, and preferences
that a reload gives back; for the mesh, types). The work is in two lemmas about finite
sets. A sum is a fold over an order nobody chose; `SomaExata` shows that it is the one
function that has the sum of the empty set at zero and grows by each element taken
(`Somas`), and from that a sum by parts (`SomaPorPartes`): the totals of the projects, or
of the nodes, add up to the total of what they share out, because each thing is in one
part and no more. And what is in a total order can be put in a row (`FilaExiste`), so the
rows the code sorts exist; the comparator is shown to be a total order, what was not
measured included (`MedidasEmOrdem`, `OrdemTotal`). The severity of a destination is
what a walk over the lines leaves; its closed form is proved position by position
(`CrescendoAte`).

**Types of the panel.** `TypeOK` of the panel follows from `TelasInv`, one invariant per
view. In most views it is the one above, or the types alone; the floor plans need
`PlantasInv`, which says that the pins a request carries may be of one plan (a host once,
inside the image) and that a reading of pins is of the plan on screen.

**Ready-made windows.** `JanelaProntaCabe` speaks of the reading under way. What makes it
inductive is what the choices never are: a window longer than the samples of the metric
on screen (`JanelaCabe`) and a period with its ends out of order that was applied
(`PeriodoValido`).

**The inventory.** `UmaLinhaPorChave` is inductive with the types. An upsert writes a key
that is not there, or touches no key at all. An adoption gives the rows of no site of an
address to a site that has none there, and there is one such row at most, because their
key is one key too (`AdotaUnica`); without the `NOT EXISTS` of the statement it would give
the site a second one. Between the two statements anything may happen, and each is shown
alone. `EdicaoParcial` is about one step, but of a state that is not arbitrary: `TypeOK`
of the inventory says that a row whose type is fixed by hand has one that was typed
(`Digitado`). Without it the form would open on a fixed type that no field shows, and
saving it untouched would release it. The other half of it is that two fields the user
left as they were produce no entry of the patch.

**No page skipped.** `NadaPulado` follows from what the pages owe (`Dividas`): of the
entries there were when the filter was applied, those not shown yet are at the page asked
for or after it (`Depois`); after it, once the page was read; and if any is left, the
total tells of one more page, unless an entry was written between the count and the
list. New entries push the old ones towards later pages and retention removes them, so
neither brings one back before the offset. A page is the set of entries whose
`Posicao` is in it; that it holds `PAGE_SIZE` at most is the pigeonhole of the positions,
which are distinct, and with no filter the entries are an interval, so that a page with
something after it is full.

**The frame of the panel.** `QuadroCoerente` is inductive as it stands: path, panel and
accesses agree after every render (`Assentado`), the session stored is the one in
memory, and a site chosen that is not in the list is waiting for it: the list is being
read, or its reading failed (`UnidadeListada`).

What stays with TLC: liveness (`PendenteSai`, `FalhouERetomado`, `ViolacaoDispara`,
`VoltaFecha`, `FailoverReconhecido`, `TelaChega`, `OcupadoSai`, `RevogadaVoltaAoLogin`),
since the prover has no fairness or ENABLED, and the five properties that the code does
not have (section 6), which runs refute. Every invariant and every action property that a
passing run checks is proved.

## 5. Hypotheses of the properties

Some properties hold only under conditions the code does not impose, which the runs
state and the properties name:

- `DispensadoNuncaSaiu` and `CumpreCiclo` hold with one process that neither crashes nor
  loses a write. After a crash between `registrarResultado` and `consolidar` the line
  says "enviado" and the row was never marked as notified: the next pass consolidates it
  as sent with no `last_notified_at`, no recovery is announced and its cooldown is not
  seen by the next incident.
- `CumpreCiclo` needs, besides, that nobody acknowledges a row already resolved (the run
  has no operator; the theorem says `tardio = {}`). A late acknowledgement between the
  two statements of `dispensarResolvidos` makes the lines of a row that is open to
  delivery "dispensado", and the row is then claimed and consolidated from them, a step
  no reader of `docs/api.md` expects. TLC shows it with one operator.
- `CooldownPorLinha` allows for the time of one delivery (`Duracao`), because
  `last_notified_at` is the instant captured before the HTTP call. It holds for one
  process that neither crashes nor loses a write, with one active channel and one
  detector per key, and TLC has a counterexample without each of the five: a second
  process, a crash or a lost write deliver once more what was delivered and not
  recorded; two detectors of one key each put the row back; with two channels the one
  that failed keeps the row in the queue while `renotificar` reopens the line of the
  one that did not.
- `UmaVivaPorChave` sets late acknowledgements apart; the next section says why.
- `IncidenteLembrado`, `DuracaoExigida` and `VoltaFecha` set apart the targets hit by an
  error that is only logged, by a crash or by the removal of the rule. What the engine
  does with those is exactly the finding of `RE_orfao`.
- `UmPrincipal` speaks of groups whose last election was written in full. Between two
  UPDATEs of a change there are two principals, or none, and an error leaves it so until
  the next minute.
- `OutraChavePassa` is about the readings that run again with the selection. One half is
  about those that hide what they wait for; the other about those that show their failures
  and are protected (`Protegida`): every request is cancelled, or an answer of another
  selection puts the view back to waiting. A protected view may draw the data that was
  left while the new answer is on its way, and not all of them mark the wait: the disk
  history of `Dashboard.tsx:1031-1047` and the chart of `InterfacesDeRede.tsx:98-103`
  draw the old series under the new title. The readings of neither half show a late answer
  until the next poll.
- `FalhaNuncaViraVazio` is about the readings that show their failures. The test
  `falhasDeLeitura.test.tsx:79` says it of the views it lists; the readings made
  `Calada` in `ReadCatalog` are the silent ones.
- `TelaChega` needs the polls to go on being answered, or every request to be cancelled.
  A view with neither may end on what a late answer brought; so may one whose handlers
  write from a list another reading has replaced.
- `TravaExata` leaves out the handlers that ask only before they stop or disable
  (`AcaoNoContainer`, `AlternarConta`): whether there is a dialog is decided by the row as
  it was drawn, so a container that stops while its dialog is up may be started at once by
  a second click, and the answer to the dialog then runs beside it.
- `JanelaProntaCabe` holds a period of the user's own to nothing but the order of the two
  ends when both were typed. Seven days of a metric outside the trend go out, and the
  server refuses them (`MetricsHistoryView.tsx:75-87`, `history.go:138-145`); a period with
  no end runs to the moment of the query, which a start in the future comes after
  (`lib/metrics.ts:78-83`).
- `EdicaoFica` begins when the reading that entering the edit mode starts has answered.
- `NadaPulado` is about entries that were there when the filter was applied and still
  are. It sets apart the filter "pending", which an entry leaves by itself, and an entry
  written between the count and the list of the last page.
- `UmaLinhaPorChave` says nothing of the rows of no site. The adoption of a sweep is a
  statement of its own, and an error of it is only logged (`discovery/worker.go:204-206`):
  the upsert that follows then creates the row of the site beside the one of no site,
  which the `NOT EXISTS` of every later adoption leaves where it is, against
  `docs/inventario-de-rede.md:42-48`.
- `FalhouERetomado` is checked with Telegram alone. A row that failed on another channel
  is resumed only after a health mark newer than its last attempt, so it would need the
  health watch to go on as well.

## 6. Where code and documentation part

Shown by a run:

- **Two processes deliver the same alert** (`AQ_processos`). `docs/operacao.md:117` says
  that they do not, because the claim uses `FOR UPDATE SKIP LOCKED`. That keeps two claims
  apart while their transactions are open; what keeps a batch afterwards is a lease of one
  minute that nothing renews (`alert/fila.go:35`, `:502`). A batch is ten rows on up to
  three channels of up to ten seconds, 300 seconds at worst: once the lease is over the
  rows not reached yet are due, and another process claims and delivers them while the
  first delivers them from memory. The run shows it with two rows. A long batch is not the
  only way, by the same model: with Telegram, two processes may both read a failed row in
  `retomarPresos`, one resumes and claims it, and the UPDATE of the other, by id alone
  (`alert/entrega.go:220`), makes it due while it is in hand.
- **A rename deletes the charts it does not show** (`FE_renomeia`). `listDashboards`
  leaves out the charts whose server is gone or out of the reach of the user (`viewOf`,
  `api/dashboards_handler.go:131-173`); `handleRename` (`DashboardsView.tsx:154-163`)
  writes back the charts it was given, and the PUT replaces all there were.
  `docs/adr/010:39-40` says that a chart that leaves the reach reappears with it, because
  it is still in the database. A dashboard may end with no chart at all; so may one saved
  with none, which `validateDashboard` accepts.
- **An incident the engine never closes** (`RE_orfao`). `evaluate` ignores the result of
  `alert.Recovered` and settles the state all the same, and writes `active` only after
  the incident was opened. A failure or a crash in between leaves an open incident that
  only an operator resolves; `docs/operacao.md:129` says the engine closes it.
- **A host saved takes the panel down** (`FE_gravar_host`). The PATCH of a host answers
  the row of the table, whose `open_ports` is a string (`api/site_handler.go:254-260`,
  `database/schema.go:112`); `handleSaved` (`NetworkView.tsx:372`) merges it into the
  list, and drawing the row calls `open_ports.map`. Nothing catches it, so React
  unmounts the panel. `lib/api.ts:165` declares `open_ports: string[]`.
- **A host saved in one site is written in the other** (`FE_inventario`). The handler
  reads the first row of the address, checks the role there and updates every row of
  that address (`api/site_handler.go:174-243`). `docs/adr/005` and
  `docs/inventario-de-rede.md:10` say the key is the site and the address.

Read while modelling the server, not shown by a run:

- A late acknowledgement revives a resolved alert: `alertAckHandler` checks the status
  in `alertDaRota` and writes by id alone (`api/alerts_handler.go:259`). If `Recovered`
  resolves the row in between and `Enqueue` opens the next incident, the key has two
  unresolved rows, which `docs/api.md:510` and `docs/operacao.md:127` exclude. The next
  `Recovered`, or the next start (`fecharDuplicados`), clears it.
- A renotification may be sent twice: `renotificar` marks the row pending and then
  reopens its lines (`alert/fila.go:216`). A dispatcher that claims the row in between
  delivers the line a channel owed, after which the reopened line is due at once, inside
  `ALERT_COOLDOWN` (`docs/configuracao.md:337`).
- A probe that stumbles demotes at once: with no candidate left `decidir` returns no
  principal, whatever the counter (`malha/eleicao.go:120`); `docs/adr/014:55` says the
  counter covers the loss of candidacy for exactly that case.
- `retomarPresos` returns at once when health is "desligado", which an unconfigured
  Telegram reports for ever: alerts left "sem_canal" are not resumed when only ntfy or a
  webhook comes to exist, against `docs/api.md:488`.
- Between the two statements of `renotificar` a dispatcher may consolidate the row from
  its old lines, still "enviado", without sending anything.
- A row claimed and then resolved is still sent: the batch is delivered from memory.
- One channel that always fails keeps the row from being "enviado", and `renotificar`
  never announces again over the healthy ones.
- The challenge counter belongs to the group and not to the challenger: two servers that
  lead in turns add up to one promotion.
- `docs/configuracao.md:203-205` gives 5 minutes, 20% and 3 as the defaults of the
  interval, the margin and `MALHA_CICLOS_TROCA`; the code (`eleicao.go:18-20`) has one
  minute, 25% and 2, and so has the ADR for the last two.
- A crash between the writes of the roles and `anunciar` loses the announcement.
- A rule of a site becomes a rule of every server when the site is removed
  (`site_handler.go:142`); a server that leaves a rule's targets leaves its incident
  behind; so does the removal of a rule.
- An hourly bucket loses samples: the incremental pass starts three hours before now, in
  the middle of its oldest hour, and overwrites that bucket with what it saw
  (`trends.go:44`). A first full pass that fails opens the gate of retention all the
  same (`trends.go:27`).
- Removing a site leaves `site_locked` true on hosts with no site
  (`api/site_handler.go:145`), and fails when a host of no site has the same address. A
  host may be assigned to a site that was removed meanwhile.

Read while modelling the panel, not shown by a run:

- `lib/session.ts:44` ends a session by the clock of the browser, and `lib/api.ts:406`
  by the answer of the server, with or without the other; `docs/configuracao.md:59`
  knows one expiry. A 401 of an earlier session clears a later one (`lib/api.ts:415`),
  and the list of sites asked for by an earlier session may arrive after the next login.
- A principal with no line of its own for a destination is credited with all the traffic
  of it (`lib/upstream.ts:285-292`): what the reserve served is then counted twice at
  the node, where `lib/malhaTopologia.test.ts:167` counts it once. Two servers with one
  `host_ip` share a node.
- Associating an address sends the whole list of aliases from a register read earlier
  (`Dashboard.tsx:201`, `NginxView.tsx:219`): an alias another administrator added
  meanwhile is lost, where `malhaAssociar.test.tsx:122` preserves those there were.
- The answer of a save whose form was closed closes the form of another host
  (`NetworkView.tsx:378`). The answer of a save of pins replaces those of the plan that
  is current by then; edits made before the reading of the edit mode, or before the end
  of an upload, are lost.
- Edits of a draft during its save are lost with it; a rename sends the charts of the
  render it was asked in.
- A site created from the floor plans is chosen before the list that has it is read
  (`FloorPlanView.tsx:184-186`): if that reading fails, the selector goes on without it
  until the next list.
- A total of zero at an offset above zero hides the pager of the audit, and an entry
  that leaves "pending" moves those after it to the page before.
- "Tabelas sem relação" says that no foreign key enters or leaves a table, and lists
  those whose keys all cross to another schema (`EsquemaDiagrama.tsx:377`);
  `selecionada` of `BancosView.tsx` survives its instance; Escape with a picker open
  closes the whole dialog.
- Reloads of one view overlap with no order among them. A stream that reconnects asks
  for lines it has already shown, and its backoff restarts at every opening
  (`ui/stream-reconnect.ts:59`). The log of a container shows the CPU of when it was
  opened. A domain removed may come back with a poll that was in flight (`SslView.tsx`).
  The interval of `AlertsView.tsx` carries no signal (`:106`). The counter of `goBack`
  (`App.tsx:179-198`) does not see the browser's own back button.

## 7. Plan

Done: the alert queue, the rule engine and the election, in that order, because every
other component ends in the first, the second is its main customer and the third is the
one algorithm whose outcome an operator acts on; then the panel, view by view, with the
handlers of the inventory and of the audit trail behind it.

Next, in order:

1. `TrendRollup`: raw samples, hourly buckets, the sliding window, retention behind its
   gate. Properties: a bucket never loses samples; nothing is pruned before it is rolled
   up. One instance with two hours of two samples.
2. `LogWriter`: queue, batch, retries, panic, flush. Properties: every line saved is
   written, counted or refused; a flush returns; order within a batch. An abstract
   specification (a lossy queue that counts what it loses) that it implements.
3. `SshManager`: start, stop, restart, sessions cap, backoff, and `Shutdown`, which
   composes it with `LogWriter`: after `StopAll` nobody saves, then `Flush` drains.
4. `Sessions`: sessions, tickets and the login limiter in one module over one clock.
   Properties: no request is served after a revocation it could have seen; a ticket has
   one use; a key stays blocked for its window unless it is evicted.
5. `Enrollment` and `Ingest`: one credential per invite, one row per machine, with
   concurrent transactions and unique indexes.
6. `AbsenceWatch`, `SslWorker` and the sweep of `discovery/worker.go`: small modules of
   read-then-act over rows others delete.
7. `Safego`, `Migrations`, `SlidingWindow`: supervision, start of two processes, and the
   window against a reference count.

Theorems to add come with these modules: the conservation of lines of `LogWriter`, the
cap of sessions, the single use of an invite. The lemmas on sums, rows and finite sets of
`PanelBoardsProofs` are about no view in particular and serve them too.

A run is kept for each distinct question; as modules are added, runs of a module that
ask related questions are merged.

## 8. Not modelled

The agent (a loop that posts samples), most handlers of one query or one write,
rendering and parsing, the catalogue of metrics, counters and configuration: nothing in
them interleaves beyond what one SQL statement already orders. Of the panel: what a view
looks like (most of the lines of `components/`), texts and formats, the fields of forms
and their validation, zoom and dragging in the diagrams, the search by text, and two
tabs of one browser. React is taken at its word: one handler or effect at a time, a
clean-up before the next run of an effect, writes to a view that has gone dropped.
PostgreSQL is taken at read committed: a statement is one step, a transaction is as
visible as its commit makes it. SSH, HTTP and the operating system appear only as what
they may do to the code: answer, fail, or take time.

## 9. Running

`tlc -config AQ_ciclo.cfg MCAlertQueue.tla`, and likewise for each row of section 3
(`AQ_*` with `MCAlertQueue`, `RE_*` with `MCRuleEngine`, `BE_*` with
`MCBalancerElection`, `FE_telas` with `MCPanelViews`, `FE_sessao` with `MCPanelSession`,
`FE_gravar_host` and `FE_inventario` with `NetworkInventory`, `FE_renomeia` with
`DashboardDraft`); the longest takes about
three minutes. `tlapm AlertQueueProofs.tla`, and likewise each module whose name ends in
`Proofs`, checks its proofs from nothing; `AlertQueueProofs` takes about a quarter of an
hour, `PanelViewsProofs` as much, `PanelBoardsProofs` half of that, the others one or
two minutes.
