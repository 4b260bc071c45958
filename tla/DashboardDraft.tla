---------------------------- MODULE DashboardDraft ----------------------------
(***************************************************************************)
(* The dashboards of the user (frontend/src/components/DashboardsView.tsx):*)
(* the list the view read, the one selected, the draft being edited and    *)
(* the requests that save, rename, delete and read again.  A draft is a    *)
(* sequence of charts, each with the key React draws it by.                *)
(*                                                                         *)
(* A rename sends the charts of the render it was asked in.  The answer of *)
(* a save closes whatever draft is open by then, and the edits made while  *)
(* it was in flight go with it.  The title, the width and the window of a  *)
(* chart are one value; a name is left out.                                *)
(***************************************************************************)
EXTENDS FiniteSets, Integers, Sequences

CONSTANTS
  Ids,            \* bound: the identifiers the server hands out
  Graficos,       \* what a chart shows
  MaxPanels,      \* MAX_PANELS
  MaxDashboards,  \* MAX_DASHBOARDS
  Vagas,          \* bound: slots for the requests in flight
  MaxAcoes        \* bound: what the user does, and failures

Nenhum == 0
\* What the constants must be.
ConstantesOk ==
  /\ Ids \subseteq Nat \ {Nenhum} /\ MaxPanels \in Nat \ {0} /\ MaxDashboards \in Nat /\ MaxAcoes \in Nat

VARIABLES
  gravados,    \* the dashboards at the server: charts by id
  dashboards,  \* the list the view holds
  selectedId,
  draft,       \* the draft, or SemRascunho
  nextKey, saving,
  dialogo,     \* the prompt or confirmation on screen, with what it was asked of
  pedidos,     \* requests in flight, by slot
  acoes

vars == <<gravados, dashboards, selectedId, draft, nextKey, saving, dialogo, pedidos, acoes>>

-----------------------------------------------------------------------------
SemRascunho == [dashboardId |-> -1, panels |-> <<>>]
Chaves      == 1..(1 + MaxAcoes * (1 + MaxPanels))
Painel      == [key : Chaves, grafico : Graficos]
Conteudo(panels) == [i \in DOMAIN panels |-> panels[i].grafico]

Arranjos  == UNION {[1..n -> Graficos] : n \in 0..MaxPanels}
Guardados == UNION {[D -> Arranjos] : D \in SUBSET Ids}

Livre   == [tipo |-> "livre"]
Fechado == [tipo |-> "fechado"]
Perguntas ==
  {Fechado, [tipo |-> "novo"]} \cup [tipo : {"renomeia", "apaga"}, id : Ids, graficos : Arranjos]
Escritas == [tipo : {"salva", "renomeia", "apaga"}, id : Ids \cup {Nenhum}, graficos : Arranjos]
Idas     == [tipo : {"le"}, select : Ids \cup {Nenhum}]
Voltas   == [tipo : {"lida"}, select : Ids \cup {Nenhum}, lista : Guardados]
              \cup [tipo : {"salvo", "feito", "apagado", "falhou"}, id : Ids \cup {Nenhum}, salva : BOOLEAN]

TypeOK ==
  /\ gravados \in Guardados /\ dashboards \in Guardados
  /\ selectedId \in Ids \cup {Nenhum}
  /\ draft = SemRascunho \/ draft.dashboardId \in Ids \cup {Nenhum}
  /\ \A i \in DOMAIN draft.panels : draft.panels[i] \in Painel
  /\ nextKey \in Chaves /\ saving \in BOOLEAN
  /\ dialogo \in Perguntas
  /\ \A v \in Vagas : pedidos[v] \in {Livre} \cup Escritas \cup Idas \cup Voltas
  /\ acoes \in 0..MaxAcoes

Init ==
  /\ gravados \in Guardados
  /\ dashboards = <<>> /\ selectedId = Nenhum
  /\ draft = SemRascunho /\ nextKey = 1 /\ saving = FALSE /\ dialogo = Fechado
  /\ \E v \in Vagas : pedidos = [w \in Vagas |-> IF w = v THEN [tipo |-> "le", select |-> Nenhum] ELSE Livre]
  /\ acoes = 0

Age == acoes < MaxAcoes /\ acoes' = acoes + 1

Aberto == draft # SemRascunho
Selecionado == selectedId \in DOMAIN dashboards

Poe(v, p) == pedidos' = [pedidos EXCEPT ![v] = p]

-----------------------------------------------------------------------------
\* Mutant: what was wanted is selected, listed or not.
Escolhido_Querido(lista, querido) == querido

\* load(select): the list, and the wanted dashboard, the one of before or the first.
Escolhido(lista, querido) ==
  IF querido \in DOMAIN lista THEN querido
  ELSE IF lista = <<>> THEN Nenhum ELSE CHOOSE d \in DOMAIN lista : \A e \in DOMAIN lista : d <= e

Load(v, select) == Poe(v, [tipo |-> "le", select |-> select])

\* The places of a set, in their order: one sequence.
Ordens(S) == {s \in [1..Cardinality(S) -> S] : \A a, b \in DOMAIN s : a < b => s[a] < s[b]}

\* viewOf: of the charts of a dashboard, those whose server exists and is of a site the
\* user sees.
ViewOf(graficos, visiveis) ==
  {[n \in DOMAIN ordem |-> graficos[ordem[n]]] :
     ordem \in Ordens({i \in DOMAIN graficos : graficos[i] \in visiveis})}

Listagem(visiveis) ==
  {lista \in [DOMAIN gravados -> Arranjos] :
     \A d \in DOMAIN gravados : lista[d] \in ViewOf(gravados[d], visiveis)}

\* listDashboards: a server that is gone or moved takes its charts out of the list.
Lista(v) ==
  /\ pedidos[v].tipo = "le"
  /\ \E visiveis \in SUBSET Graficos :
       /\ IF visiveis = Graficos THEN UNCHANGED acoes ELSE Age
       /\ \E lista \in Listagem(visiveis) :
            Poe(v, [tipo |-> "lida", select |-> pedidos[v].select, lista |-> lista])
  /\ UNCHANGED <<gravados, dashboards, selectedId, draft, nextKey, saving, dialogo>>

RecebeLista(v) ==
  /\ pedidos[v].tipo = "lida"
  /\ dashboards' = pedidos[v].lista
  /\ selectedId' = Escolhido(pedidos[v].lista, IF pedidos[v].select = Nenhum THEN selectedId ELSE pedidos[v].select)
  /\ Poe(v, Livre)
  /\ UNCHANGED <<gravados, draft, nextKey, saving, dialogo, acoes>>

\* setSelectedId of the list of tabs, drawn while there is no draft.
Seleciona ==
  /\ ~Aberto /\ Age
  /\ \E d \in DOMAIN dashboards \ {selectedId} : selectedId' = d
  /\ UNCHANGED <<gravados, dashboards, draft, nextKey, saving, dialogo, pedidos>>

\* handleNew, handleRename and handleDelete up to their await.
Pergunta ==
  /\ ~Aberto /\ Age
  /\ \/ Cardinality(DOMAIN dashboards) < MaxDashboards /\ dialogo' = [tipo |-> "novo"]
     \/ /\ Selecionado
        /\ \E t \in {"renomeia", "apaga"} :
             dialogo' = [tipo |-> t, id |-> selectedId, graficos |-> dashboards[selectedId]]
  /\ UNCHANGED <<gravados, dashboards, selectedId, draft, nextKey, saving, pedidos>>

Nega ==
  /\ dialogo # Fechado /\ dialogo' = Fechado
  /\ UNCHANGED <<gravados, dashboards, selectedId, draft, nextKey, saving, pedidos, acoes>>

HandleNew ==
  /\ dialogo = [tipo |-> "novo"] /\ dialogo' = Fechado
  /\ draft' = [dashboardId |-> Nenhum, panels |-> <<>>]
  /\ UNCHANGED <<gravados, dashboards, selectedId, nextKey, saving, pedidos, acoes>>

HandleRenameOuDelete(v) ==
  /\ dialogo.tipo \in {"renomeia", "apaga"} /\ dialogo' = Fechado
  /\ pedidos[v] = Livre /\ Poe(v, dialogo)
  /\ UNCHANGED <<gravados, dashboards, selectedId, draft, nextKey, saving, acoes>>

\* handleEdit: a copy of the selected dashboard under new keys.
CopiaCom(graficos, k) == [i \in DOMAIN graficos |-> [key |-> k + i - 1, grafico |-> graficos[i]]]

HandleEdit ==
  /\ ~Aberto /\ Selecionado /\ Age
  /\ draft' = [dashboardId |-> selectedId, panels |-> CopiaCom(dashboards[selectedId], nextKey)]
  /\ nextKey' = nextKey + Len(dashboards[selectedId])
  /\ UNCHANGED <<gravados, dashboards, selectedId, saving, dialogo, pedidos>>

-----------------------------------------------------------------------------
\* The buttons of the draft.
Desenha(panels) == Aberto /\ Age /\ draft' = [draft EXCEPT !.panels = panels]

\* newDraftPanel
Acrescenta ==
  /\ Len(draft.panels) < MaxPanels
  /\ \E g \in Graficos : Desenha(Append(draft.panels, [key |-> nextKey, grafico |-> g]))
  /\ nextKey' = nextKey + 1

UpdatePanel ==
  /\ \E i \in DOMAIN draft.panels, g \in Graficos :
       LET key == draft.panels[i].key
       IN Desenha([j \in DOMAIN draft.panels |->
            IF draft.panels[j].key = key THEN [draft.panels[j] EXCEPT !.grafico = g] ELSE draft.panels[j]])
  /\ UNCHANGED nextKey

MovePanel ==
  /\ \E i \in DOMAIN draft.panels, delta \in {-1, 1} :
       /\ i + delta \in DOMAIN draft.panels
       /\ Desenha([draft.panels EXCEPT ![i] = draft.panels[i + delta], ![i + delta] = draft.panels[i]])
  /\ UNCHANGED nextKey

RetiraPanel ==
  /\ \E i \in DOMAIN draft.panels :
       LET ficam == {j \in DOMAIN draft.panels : draft.panels[j].key # draft.panels[i].key}
       IN \E ordem \in Ordens(ficam) : Desenha([n \in DOMAIN ordem |-> draft.panels[ordem[n]]])
  /\ UNCHANGED nextKey

Edita ==
  /\ Acrescenta \/ UpdatePanel \/ MovePanel \/ RetiraPanel
  /\ UNCHANGED <<gravados, dashboards, selectedId, saving, dialogo, pedidos>>

Cancela ==
  /\ Aberto /\ draft' = SemRascunho
  /\ UNCHANGED <<gravados, dashboards, selectedId, nextKey, saving, dialogo, pedidos, acoes>>

\* handleSave: the body is the draft of the click.
HandleSave(v) ==
  /\ Aberto /\ ~saving /\ draft.panels # <<>>
  /\ pedidos[v] = Livre
  /\ Poe(v, [tipo |-> "salva", id |-> draft.dashboardId, graficos |-> Conteudo(draft.panels)])
  /\ saving' = TRUE
  /\ UNCHANGED <<gravados, dashboards, selectedId, draft, nextKey, dialogo, acoes>>

-----------------------------------------------------------------------------
Grava(id, graficos) == [d \in DOMAIN gravados \cup {id} |-> IF d = id THEN graficos ELSE gravados[d]]

\* The server executes a write, or refuses one for a dashboard that is gone.
Executa(v) ==
  LET p == pedidos[v]
      alvo == IF p.id = Nenhum THEN Ids \ DOMAIN gravados ELSE {p.id} \cap DOMAIN gravados
  IN /\ p.tipo \in {"salva", "renomeia", "apaga"}
     /\ \/ \E id \in alvo :
             /\ gravados' = IF p.tipo = "apaga" THEN [d \in DOMAIN gravados \ {id} |-> gravados[d]]
                                                ELSE Grava(id, p.graficos)
             /\ Poe(v, [tipo |-> CASE p.tipo = "salva" -> "salvo" [] p.tipo = "apaga" -> "apagado" [] OTHER -> "feito",
                        id |-> id, salva |-> p.tipo = "salva"])
        \/ /\ alvo = {}
           /\ Poe(v, [tipo |-> "falhou", id |-> p.id, salva |-> p.tipo = "salva"])
           /\ UNCHANGED gravados
     /\ UNCHANGED <<dashboards, selectedId, draft, nextKey, saving, dialogo, acoes>>

FalhaDeRede(v) ==
  /\ pedidos[v].tipo \in {"salva", "renomeia", "apaga", "le"} /\ Age
  /\ Poe(v, IF pedidos[v].tipo = "le" THEN Livre
            ELSE [tipo |-> "falhou", id |-> pedidos[v].id, salva |-> pedidos[v].tipo = "salva"])
  /\ UNCHANGED <<gravados, dashboards, selectedId, draft, nextKey, saving, dialogo>>

\* After the await: the draft on screen goes, whichever it is.
Conclui(v) ==
  /\ pedidos[v].tipo \in {"salvo", "feito", "apagado", "falhou"}
  /\ draft' = IF pedidos[v].tipo = "salvo" THEN SemRascunho ELSE draft
  /\ saving' = (saving /\ ~pedidos[v].salva)
  /\ selectedId' = IF pedidos[v].tipo = "apagado" THEN Nenhum ELSE selectedId
  /\ IF pedidos[v].tipo = "falhou" THEN Poe(v, Livre)
     ELSE Load(v, IF pedidos[v].tipo = "apagado" THEN Nenhum ELSE pedidos[v].id)
  /\ UNCHANGED <<gravados, dashboards, nextKey, dialogo, acoes>>

Next ==
  \/ Seleciona \/ Pergunta \/ Nega \/ HandleNew \/ HandleEdit \/ Edita \/ Cancela
  \/ \E v \in Vagas :
       HandleSave(v) \/ HandleRenameOuDelete(v) \/ Lista(v) \/ RecebeLista(v) \/ Executa(v)
         \/ FalhaDeRede(v) \/ Conclui(v)

Spec == Init /\ [][Next]_vars

-----------------------------------------------------------------------------
\* The charts of a draft have keys of their own, below the counter, whatever was copied,
\* added, moved and taken out before: a click reaches one chart.
ChavesProprias ==
  \A i, j \in DOMAIN draft.panels :
    draft.panels[i].key < nextKey /\ (draft.panels[i].key = draft.panels[j].key => i = j)

\* What is selected is in the list, and a busy save is one in flight or on its way back:
\* no answer, refusal or deletion leaves the view on a dashboard that is not there or
\* the button of saving disabled for good.
SelecaoListada ==
  /\ selectedId \in DOMAIN dashboards \cup {Nenhum}
  /\ saving <=> \E v \in Vagas : pedidos[v].tipo = "salva"
                    \/ (pedidos[v].tipo \in {"salvo", "falhou"} /\ pedidos[v].salva)

\* docs/adr/010 says that a chart out of the reader's reach stays in the database: a
\* rename, which writes back the charts the list showed, should keep those it left out.
RenomeiaMantem ==
  [][\A v \in Vagas :
       pedidos[v].tipo = "renomeia" /\ pedidos'[v].tipo = "feito" => gravados' = gravados]_vars
=============================================================================
