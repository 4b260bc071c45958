------------------------------ MODULE AuditPages ------------------------------
(***************************************************************************)
(* The audit log, page by page (frontend/src/components/AuditView.tsx and  *)
(* backend/internal/api/audit_handler.go).  Entries are written while the  *)
(* user leafs through them, newest first, by offset; the server counts and *)
(* lists in two statements, and retention takes the oldest away.           *)
(*                                                                         *)
(* Of the filters only the result is kept: "pending" is the one that an    *)
(* entry leaves by itself, when its request ends.                          *)
(***************************************************************************)
EXTENDS FiniteSets, Integers

CONSTANTS
  PAGE_SIZE,
  Iniciais,      \* bound: the entries there at first are 1..Iniciais, the last one pending
  MaxRegistros,  \* bound: entries ever written
  MaxFiltros     \* bound: filters applied

ConstantesOk ==
  /\ PAGE_SIZE \in Nat \ {0} /\ MaxRegistros \in Nat /\ Iniciais \in 1..MaxRegistros
  /\ MaxFiltros \in Nat

VARIABLES
  proximo,    \* the next entry to be written
  primeira,   \* the oldest entry retention left
  pendentes,  \* the entries whose request has not ended
  applied, offset,
  items,      \* the entries of the page, whose order is that of their numbers
  total, erro,
  pedido,     \* the reading the page waits for
  filtros,
  base,       \* history: the entries there were when the filter was applied
  vistos,     \* history: the entries shown since
  mexeu       \* history: an entry was written between the two statements

vars == <<proximo, primeira, pendentes, applied, offset, items, total, erro, pedido,
          filtros, base, vistos, mexeu>>

-----------------------------------------------------------------------------
RESULTS == {"", "pending"}
Nenhum  == [fase |-> "nenhum"]

Existem == primeira..(proximo - 1)
Filtrados(f) == IF f = "" THEN Existem ELSE Existem \cap pendentes

\* The page of a query, newest first from an offset: the entries with no less than that
\* many newer ones, up to a page of them.
Posicao(S, e) == Cardinality({x \in S : x > e})
Pagina(S, o) == {e \in S : o <= Posicao(S, e) /\ Posicao(S, e) < o + PAGE_SIZE}

Loading == pedido # Nenhum
TemAnterior == offset > 0

\* Mutant: the last entry is left to a page nobody is offered.
TemProxima_UmaAMenos == offset + Cardinality(items) + 1 < total

TemProxima == offset + Cardinality(items) < total

-----------------------------------------------------------------------------
Init ==
  /\ proximo = Iniciais + 1 /\ primeira = 1 /\ pendentes = {Iniciais}
  /\ applied = "" /\ offset = 0 /\ items = {} /\ total = 0 /\ erro = FALSE
  /\ pedido = [fase |-> "indo"] /\ filtros = 0
  /\ base = 1..Iniciais /\ vistos = {} /\ mexeu = FALSE

Registra ==
  /\ proximo <= MaxRegistros
  /\ proximo' = proximo + 1 /\ pendentes' = pendentes \cup {proximo}
  /\ mexeu' = (mexeu \/ pedido.fase = "contada")
  /\ UNCHANGED <<primeira, applied, offset, items, total, erro, pedido, filtros, base, vistos>>

Conclui(r) ==
  /\ r \in Existem \cap pendentes
  /\ pendentes' = pendentes \ {r}
  /\ UNCHANGED <<proximo, primeira, applied, offset, items, total, erro, pedido, filtros,
                 base, vistos, mexeu>>

\* pruneAuditLog, a pass of which is one step.
Poda ==
  /\ primeira < proximo
  /\ primeira' = primeira + 1 /\ pendentes' = pendentes \ {primeira}
  /\ UNCHANGED <<proximo, applied, offset, items, total, erro, pedido, filtros,
                 base, vistos, mexeu>>

\* The effect of the view: the reading of before is abandoned for that of
\* what is applied now.
Pede(f, o) ==
  /\ applied' = f /\ offset' = o
  /\ pedido' = [fase |-> "indo"]
  /\ mexeu' = FALSE
  /\ UNCHANGED <<proximo, primeira, pendentes, items, total, erro>>

\* The button waits for the reading; so does the way to the pages.
Aplicar(f) ==
  /\ ~Loading /\ filtros < MaxFiltros
  /\ filtros' = filtros + 1
  /\ Pede(f, 0)
  /\ base' = Filtrados(f) /\ vistos' = {}

Anterior ==
  /\ TemAnterior /\ ~Loading /\ total > 0
  /\ Pede(applied, IF offset > PAGE_SIZE THEN offset - PAGE_SIZE ELSE 0)
  /\ UNCHANGED <<filtros, base, vistos>>

Proxima ==
  /\ TemProxima /\ ~Loading /\ total > 0
  /\ Pede(applied, offset + PAGE_SIZE)
  /\ UNCHANGED <<filtros, base, vistos>>

\* auditListHandler: Count, then Find, in no transaction.
Conta ==
  /\ pedido.fase = "indo"
  /\ pedido' = [fase |-> "contada", total |-> Cardinality(Filtrados(applied))]
  /\ UNCHANGED <<proximo, primeira, pendentes, applied, offset, items, total, erro,
                 filtros, base, vistos, mexeu>>

Lista ==
  /\ pedido.fase = "contada"
  /\ pedido' = [fase |-> "lida", total |-> pedido.total, items |-> Pagina(Filtrados(applied), offset)]
  /\ UNCHANGED <<proximo, primeira, pendentes, applied, offset, items, total, erro,
                 filtros, base, vistos, mexeu>>

Recebe ==
  /\ pedido.fase = "lida"
  /\ items' = pedido.items /\ total' = pedido.total /\ erro' = FALSE /\ pedido' = Nenhum
  /\ vistos' = vistos \cup pedido.items
  /\ UNCHANGED <<proximo, primeira, pendentes, applied, offset, filtros, base, mexeu>>

Falha ==
  /\ Loading
  /\ items' = {} /\ total' = 0 /\ erro' = TRUE /\ pedido' = Nenhum
  /\ UNCHANGED <<proximo, primeira, pendentes, applied, offset, filtros, base, vistos, mexeu>>

Next ==
  \/ Registra \/ Poda \/ Anterior \/ Proxima \/ Conta \/ Lista \/ Recebe \/ Falha
  \/ \E r \in 1..MaxRegistros : Conclui(r)
  \/ \E f \in RESULTS : Aplicar(f)

Spec == Init /\ [][Next]_vars

-----------------------------------------------------------------------------
TypeOK ==
  /\ proximo \in 1..(MaxRegistros + 1) /\ primeira \in 1..proximo
  /\ pendentes \subseteq 1..MaxRegistros
  /\ applied \in RESULTS
  /\ \E n \in 0..MaxRegistros : offset = n * PAGE_SIZE
  /\ Cardinality(items) <= PAGE_SIZE /\ items \subseteq 1..MaxRegistros
  /\ total \in 0..MaxRegistros /\ erro \in BOOLEAN
  /\ pedido.fase \in {"nenhum", "indo", "contada", "lida"}
  /\ filtros \in 0..MaxFiltros
  /\ base \subseteq 1..MaxRegistros /\ vistos \subseteq 1..MaxRegistros /\ mexeu \in BOOLEAN

\* Leafing to the last page shows every entry that was there when the filter
\* was applied and still is, whatever was written meanwhile: new entries push
\* the old ones towards pages still to come.  It takes that none is written
\* between the count and the list of the last page, and that the filter is
\* not one that entries leave.
NadaPulado ==
  (~Loading /\ ~erro /\ ~TemProxima /\ ~mexeu /\ applied = "")
     => base \cap Existem \subseteq vistos
=============================================================================
