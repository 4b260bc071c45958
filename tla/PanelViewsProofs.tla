--------------------------- MODULE PanelViewsProofs ---------------------------
(***************************************************************************)
(* Theorems about the other views of the panel, for any selections,        *)
(* servers, metrics, entries and tables, and any bounds, and about the     *)
(* types of every view: each is of the whole panel, with whatever view on  *)
(* screen.                                                                 *)
(*                                                                         *)
(* A view's invariant speaks of its memory, m1..m13: the INSTANCE of its   *)
(* module in PanelViews says which variable each of them is, and a comment *)
(* in each section repeats those that its proofs name.  The streams and    *)
(* the diagram have their invariants in modules of their own.              *)
(***************************************************************************)
EXTENDS PanelBoardsProofs

-----------------------------------------------------------------------------
(* The readings.  m1 is the record of the reading, m2 the selection, m3     *)
(* the version at the server, m4 the requests, m5 the data, m6 the failure, *)
(* m8 the selection last answered and m9 the events so far.                 *)

\* Every request in flight is of the selection, and the next change of it cancels them.
SoDaSelecao == \A v \in Vagas : Reads!EmVoo(v) => m4[v].sinal /\ m4[v].chave = m2

\* The reading cancels each request it makes.
Cancela == m1.sinal /\ (m1.timer => m1.timerSinal) /\ ~m1.recarga

\* What the data on screen may be of, by the way the reading protects itself: the selection
\* of the moment, or the one that was last answered.
LeituraInv ==
  /\ Reads!TypeOK /\ m3 <= m9
  /\ m1.avisa /\ m5 = Reads!SemDados => m6 \/ Reads!Pendente
  /\ Cancela => SoDaSelecao
  /\ Cancela /\ m1.avisa => m5.chave \in {m2, Reads!Nenhuma} \/ m6 \/ Reads!Pendente
  /\ m1.avisa /\ m8 # Reads!Nenhuma => m5.chave \in {m8, Reads!Nenhuma} \/ m6
  /\ m1.limpa => m5.chave \in {m8, Reads!Nenhuma}

\* What a reading holds, cancels and is typed by does not depend on more than its memory.
LEMMA LeituraParada ==
  ASSUME LeituraInv, UNCHANGED Reads!vars
  PROVE  LeituraInv'
  BY DEF LeituraInv, Reads!vars, Reads!TypeOK, Reads!Pendente, Reads!EmVoo, Reads!Livre, Reads!Pedido,
         Reads!Lidos, Reads!SemDados, Cancela, SoDaSelecao

\* A request is one that was sent; an empty slot holds none.
LEMMA PedidoTipo ==
  ASSUME NEW k \in Selecoes, NEW s \in BOOLEAN
  PROVE  [fase |-> "indo", chave |-> k, sinal |-> s] \in Reads!Pedido \ {Reads!Livre}
  BY DEF Reads!Pedido, Reads!Livre

\* A slot that waits or holds an answer holds a request.
LEMMA PedidoEmVoo ==
  ASSUME Reads!TypeOK, NEW v \in Vagas, m4[v].fase \in {"indo", "voltando"}
  PROVE  Reads!EmVoo(v) /\ m4[v] \in Reads!Pedido
  BY DEF Reads!TypeOK, Reads!Livre, Reads!EmVoo

\* The view just drawn, whose first request is in flight.
LEMMA LeituraInicia ==
  ASSUME Reads!ConstantesOk, Reads!Init
  PROVE  LeituraInv
  <1>1. PICK v \in Vagas :
          m4 = [w \in Vagas |-> IF w = v THEN [fase |-> "indo", chave |-> m2, sinal |-> m1.sinal]
                                         ELSE Reads!Livre]
    BY DEF Reads!Init
  <1>2. m1 \in Reads!ModoDeLeitura
    BY DEF Reads!ConstantesOk, Reads!Init
  <1>3. [fase |-> "indo", chave |-> m2, sinal |-> m1.sinal] \in Reads!Pedido \ {Reads!Livre}
    BY <1>2 DEF Reads!Init, Reads!Pedido, Reads!Livre, Reads!ModoDeLeitura
  <1>4. m4 \in [Vagas -> Reads!Pedido \cup {Reads!Livre}] /\ Reads!Pendente
    BY <1>1, <1>3 DEF Reads!Pendente, Reads!EmVoo
  <1>5. Reads!TypeOK /\ m3 <= m9
    <2>1. /\ m1 \in CatalogoDeLeituras!LeiturasDoPainel /\ m2 \in Selecoes
          /\ m3 = 0 /\ m9 = 0 /\ m5 = Reads!SemDados /\ m6 = FALSE /\ m7 = TRUE /\ m8 = Reads!Nenhuma
          /\ MaxEventos \in Nat
      BY DEF Reads!Init, Reads!ConstantesOk
    <2>2. m3 \in 0..MaxEventos /\ m9 \in 0..MaxEventos /\ m3 <= m9
      BY <2>1
    <2>. QED  BY <1>4, <2>1, <2>2 DEF Reads!TypeOK
  <1>6. Cancela => SoDaSelecao
    BY <1>1, <1>3 DEF Cancela, SoDaSelecao, Reads!EmVoo
  <1>7. m5.chave = Reads!Nenhuma /\ m8 = Reads!Nenhuma
    BY DEF Reads!Init, Reads!SemDados, Reads!Nenhuma
  <1>. QED  BY <1>4, <1>5, <1>6, <1>7 DEF LeituraInv

\* One more request: of the selection, for those that cancel theirs.
LEMMA PerguntaMantem ==
  ASSUME Reads!ConstantesOk, LeituraInv, NEW v \in Vagas, NEW k \in Selecoes, NEW s \in BOOLEAN,
         m4' = Reads!Pergunta(v, k, s), Cancela => k = m2 /\ s, ~Reads!EmVoo(v),
         UNCHANGED <<m1, m2, m3, m5, m6, m7, m8>>, m9' \in 0..MaxEventos, m9' >= m9
  PROVE  LeituraInv'
  <1>1. [fase |-> "indo", chave |-> k, sinal |-> s] \in Reads!Pedido \ {Reads!Livre}
    BY PedidoTipo
  <1>2. m4' = [m4 EXCEPT ![v] = [fase |-> "indo", chave |-> k, sinal |-> s]]
        /\ m4 \in [Vagas -> Reads!Pedido \cup {Reads!Livre}]
    BY DEF Reads!Pergunta, LeituraInv, Reads!TypeOK
  <1>3. Reads!TypeOK' /\ m3' <= m9'
    <2>1. m4' \in [Vagas -> Reads!Pedido \cup {Reads!Livre}]
      BY <1>1, <1>2
    <2>2. m3 \in Int /\ m9 \in Int /\ m9' \in Int
      BY DEF LeituraInv, Reads!TypeOK
    <2>. QED  BY <2>1, <2>2 DEF LeituraInv, Reads!TypeOK
  <1>4. Reads!Pendente => Reads!Pendente'
    <2>1. ASSUME NEW w \in Vagas, Reads!EmVoo(w), m4[w].chave = m2
          PROVE  Reads!EmVoo(w)' /\ m4'[w].chave = m2'
      BY <1>2, <2>1 DEF Reads!EmVoo
    <2>. QED  BY <2>1 DEF Reads!Pendente
  <1>5. Cancela' => SoDaSelecao'
    BY <1>1, <1>2 DEF LeituraInv, Cancela, SoDaSelecao, Reads!EmVoo
  <1>. QED  BY <1>3, <1>4, <1>5 DEF LeituraInv, Cancela

\* Another selection: its request is in flight, and those of a reading that cancels are not.
LEMMA TrocaChaveMantem ==
  ASSUME Reads!ConstantesOk, LeituraInv, Reads!TrocaChave
  PROVE  LeituraInv'
  <1>1. PICK k \in Selecoes \ {m2}, v \in Vagas :
          /\ m2' = k
          /\ m4' = [w \in Vagas |->
               IF w = v THEN [fase |-> "indo", chave |-> k, sinal |-> m1.sinal]
               ELSE IF w \in Reads!Cancelados THEN Reads!Livre ELSE m4[w]]
    BY DEF Reads!TrocaChave
  <1>2. m1 \in Reads!ModoDeLeitura /\ m1.sinal \in BOOLEAN
    BY DEF LeituraInv, Reads!TypeOK, Reads!ConstantesOk, Reads!ModoDeLeitura
  <1>3. [fase |-> "indo", chave |-> k, sinal |-> m1.sinal] \in Reads!Pedido \ {Reads!Livre}
    BY <1>2, PedidoTipo
  <1>4. Reads!TypeOK' /\ m3' <= m9'
    <2>1. m4' \in [Vagas -> Reads!Pedido \cup {Reads!Livre}]
      BY <1>1, <1>3 DEF LeituraInv, Reads!TypeOK
    <2>2. m7' \in BOOLEAN /\ m9' \in 0..MaxEventos /\ m3' <= m9'
      BY DEF Reads!TrocaChave, Reads!Evento, LeituraInv, Reads!TypeOK, Reads!ConstantesOk
    <2>. QED  BY <1>1, <2>1, <2>2 DEF Reads!TrocaChave, LeituraInv, Reads!TypeOK
  <1>5. Reads!Pendente'
    BY <1>1, <1>3 DEF Reads!Pendente, Reads!EmVoo
  <1>6. Cancela' => SoDaSelecao'
    BY <1>1, <1>3 DEF LeituraInv, Cancela, SoDaSelecao, Reads!EmVoo, Reads!Cancelados, Reads!TrocaChave
  <1>7. UNCHANGED <<m1, m5, m6, m8>>
    BY DEF Reads!TrocaChave
  <1>. QED  BY <1>4, <1>5, <1>6, <1>7 DEF LeituraInv

\* The timer, a handler or a button asks again.
LEMMA RepeteMantem ==
  ASSUME Reads!ConstantesOk, LeituraInv, Reads!Repete \/ Reads!Recarrega
  PROVE  LeituraInv'
  <1>1. /\ m1 \in Reads!ModoDeLeitura /\ m1.timerSinal \in BOOLEAN /\ m2 \in Selecoes
        /\ m9 \in 0..MaxEventos /\ MaxEventos \in Nat
    BY DEF LeituraInv, Reads!TypeOK, Reads!ConstantesOk, Reads!ModoDeLeitura
  <1>2. CASE Reads!Repete
    BY <1>1, <1>2, PerguntaMantem DEF Reads!Repete, Cancela
  <1>3. CASE Reads!Recarrega
    <2>1. PICK v \in Vagas, k \in Selecoes : ~Reads!EmVoo(v) /\ m4' = Reads!Pergunta(v, k, FALSE)
      BY <1>1, <1>3 DEF Reads!Recarrega
    <2>2. ~Cancela /\ m9' \in 0..MaxEventos /\ m9' >= m9
      BY <1>1, <1>3 DEF Reads!Recarrega, Reads!Evento, Cancela
    <2>. QED  BY <1>1, <1>3, <2>1, <2>2, PerguntaMantem DEF Reads!Recarrega
  <1>. QED  BY <1>2, <1>3

\* The data changes at the server, and nothing in the view.
LEMMA ServidorMudaMantem ==
  ASSUME Reads!ConstantesOk, LeituraInv, Reads!ServidorMuda
  PROVE  LeituraInv'
  <1>1. m3' \in 0..MaxEventos /\ m9' \in 0..MaxEventos /\ m3' <= m9'
    BY DEF Reads!ServidorMuda, Reads!Evento, LeituraInv, Reads!TypeOK, Reads!ConstantesOk
  <1>2. UNCHANGED <<m1, m2, m4, m5, m6, m7, m8>>
    BY DEF Reads!ServidorMuda
  <1>3. Reads!TypeOK'
    BY <1>1, <1>2 DEF LeituraInv, Reads!TypeOK
  <1>. QED  BY <1>1, <1>2, <1>3 DEF LeituraInv, Reads!Pendente, Reads!EmVoo, Cancela, SoDaSelecao

\* A request settles, still in flight and of the same selection.
LEMMA AssentaMantem ==
  ASSUME Reads!ConstantesOk, LeituraInv, NEW v \in Vagas, Reads!Responde(v) \/ Reads!Falha(v)
  PROVE  LeituraInv'
  <1>1. PICK ok \in BOOLEAN : Reads!Assenta(v, ok)
    BY DEF Reads!Responde, Reads!Falha
  <1>2. m9' \in 0..MaxEventos /\ m9' >= m9 /\ m9 \in Int /\ m3 \in 0..MaxEventos
    <2>1. m9 \in 0..MaxEventos /\ m3 \in 0..MaxEventos /\ MaxEventos \in Nat
      BY DEF LeituraInv, Reads!TypeOK, Reads!ConstantesOk
    <2>2. m9' = m9 \/ (m9 < MaxEventos /\ m9' = m9 + 1)
      BY DEF Reads!Responde, Reads!Falha, Reads!Evento
    <2>. QED  BY <2>1, <2>2
  <1>3. UNCHANGED <<m1, m2, m3, m5, m6, m7, m8>> /\ m4[v].fase = "indo"
    BY <1>1 DEF Reads!Assenta
  <1>. DEFINE r == [fase |-> "voltando", chave |-> m4[v].chave, sinal |-> m4[v].sinal, versao |-> m3,
                    ok |-> ok]
  <1>4. m4' = [m4 EXCEPT ![v] = r] /\ m4 \in [Vagas -> Reads!Pedido \cup {Reads!Livre}]
    BY <1>1 DEF Reads!Assenta, LeituraInv, Reads!TypeOK
  <1>5. Reads!EmVoo(v) /\ m4[v] \in Reads!Pedido
    BY <1>3, PedidoEmVoo DEF LeituraInv
  <1>6. r \in Reads!Pedido \ {Reads!Livre}
    BY <1>2, <1>5 DEF Reads!Pedido, Reads!Livre
  <1>7. r.chave = m4[v].chave /\ r.sinal = m4[v].sinal
    OBVIOUS
  <1>. HIDE DEF r
  <1>8. Reads!TypeOK' /\ m3' <= m9'
    <2>1. m4' \in [Vagas -> Reads!Pedido \cup {Reads!Livre}]
      BY <1>4, <1>6
    <2>. QED  BY <1>2, <1>3, <2>1 DEF LeituraInv, Reads!TypeOK
  <1>9. \A w \in Vagas : /\ Reads!EmVoo(w)' = Reads!EmVoo(w)
                         /\ m4'[w].chave = m4[w].chave /\ m4'[w].sinal = m4[w].sinal
    BY <1>4, <1>5, <1>6, <1>7 DEF Reads!EmVoo
  <1>10. Reads!Pendente' = Reads!Pendente /\ (SoDaSelecao => SoDaSelecao')
    BY <1>3, <1>9 DEF Reads!Pendente, SoDaSelecao
  <1>. QED  BY <1>3, <1>8, <1>10 DEF LeituraInv, Cancela

\* An answer: of the selection, for those that cancel; a failure that is shown, for those
\* that show it.
LEMMA RecebeMantem ==
  ASSUME Reads!ConstantesOk, LeituraInv, NEW v \in Vagas, Reads!Recebe(v)
  PROVE  LeituraInv'
  <1>1. /\ m4[v].fase = "voltando" /\ m7' = FALSE /\ m8' = m4[v].chave
        /\ m4' = [m4 EXCEPT ![v] = Reads!Livre] /\ UNCHANGED <<m1, m2, m3, m9>>
    BY DEF Reads!Recebe, Reads!RecebeOk, Reads!RecebeFalha
  <1>2. Reads!EmVoo(v) /\ m4[v] \in Reads!Pedido
    BY <1>1, PedidoEmVoo DEF LeituraInv
  <1>3. m4[v].chave \in Selecoes /\ m4[v].versao \in 0..MaxEventos /\ m4[v].chave # Reads!Nenhuma
    BY <1>1, <1>2 DEF Reads!Pedido, Reads!ConstantesOk
  <1>4. \/ m5' = [chave |-> m4[v].chave, versao |-> m4[v].versao] /\ m6' = FALSE
        \/ m5' \in {m5, Reads!SemDados} /\ m6' = (m6 \/ m1.avisa) /\ (m1.limpa => m5' = Reads!SemDados)
    BY DEF Reads!Recebe, Reads!RecebeOk, Reads!RecebeFalha
  <1>5. m1 \in Reads!ModoDeLeitura /\ m1.avisa \in BOOLEAN /\ m6 \in BOOLEAN
    BY DEF LeituraInv, Reads!TypeOK, Reads!ConstantesOk, Reads!ModoDeLeitura
  <1>6. Reads!TypeOK' /\ m3' <= m9'
    <2>1. m4' \in [Vagas -> Reads!Pedido \cup {Reads!Livre}]
      BY <1>1 DEF LeituraInv, Reads!TypeOK
    <2>2. m5' \in Reads!Lidos \cup {Reads!SemDados} /\ m6' \in BOOLEAN
      <3>1. CASE m5' = [chave |-> m4[v].chave, versao |-> m4[v].versao] /\ m6' = FALSE
        BY <1>3, <3>1 DEF Reads!Lidos
      <3>2. CASE m5' \in {m5, Reads!SemDados} /\ m6' = (m6 \/ m1.avisa)
        BY <1>5, <3>2 DEF LeituraInv, Reads!TypeOK
      <3>. QED  BY <1>4, <3>1, <3>2
    <2>. QED  BY <1>1, <1>3, <2>1, <2>2 DEF LeituraInv, Reads!TypeOK
  <1>7. m5'.chave = m4[v].chave \/ (m1.avisa => m6')
    BY <1>4, <1>5
  <1>8. Cancela => SoDaSelecao' /\ m4[v].chave = m2
    BY <1>1, <1>2 DEF LeituraInv, SoDaSelecao, Cancela, Reads!EmVoo, Reads!TypeOK
  <1>9. m5' = Reads!SemDados => (m1.avisa => m6')
    <2>1. Reads!SemDados.chave = Reads!Nenhuma
      BY DEF Reads!SemDados, Reads!Nenhuma
    <2>. QED  BY <1>3, <1>7, <2>1
  <1>10. m1.limpa => m5'.chave \in {m8', Reads!Nenhuma}
    BY <1>1, <1>4 DEF Reads!SemDados, Reads!Nenhuma
  <1>. QED  BY <1>1, <1>6, <1>7, <1>8, <1>9, <1>10 DEF LeituraInv, Cancela

\* Any step, by its action.
LEMMA LeituraMantem ==
  ASSUME Reads!ConstantesOk, LeituraInv, [Reads!Next]_(Reads!vars)
  PROVE  LeituraInv'
  BY LeituraParada, TrocaChaveMantem, RepeteMantem, ServidorMudaMantem, AssentaMantem, RecebeMantem
     DEF Reads!Next

\* What the invariant says of what is drawn.
LEMMA LeituraVale ==
  ASSUME Reads!ConstantesOk, LeituraInv
  PROVE  Reads!OutraChavePassa /\ Reads!FalhaNuncaViraVazio
  <1>1. m2 \in Selecoes /\ m2 # Reads!Nenhuma
    BY DEF LeituraInv, Reads!TypeOK, Reads!ConstantesOk
  <1>2. Reads!FalhaNuncaViraVazio
    BY DEF LeituraInv, Reads!FalhaNuncaViraVazio
  <1>3. ASSUME Reads!Protegida, m1.avisa
        PROVE  Reads!Desenhados.chave \in {m2, Reads!Nenhuma} \/ m6 \/ Reads!Pendente
    <2>1. CASE Cancela
      BY <1>3, <2>1 DEF LeituraInv, Reads!Desenhados, Reads!SemDados, Reads!Nenhuma
    <2>2. CASE m1.espera = "chave" /\ m1.esconde
      BY <1>1, <1>3, <2>2
         DEF LeituraInv, Reads!Desenhados, Reads!Carregando, Reads!SemDados, Reads!Nenhuma
    <2>. QED  BY <1>3, <2>1, <2>2 DEF Reads!Protegida, Cancela
  <1>4. ASSUME m1.espera = "chave", m1.esconde, m1.limpa
        PROVE  Reads!Desenhados.chave \in {m2, Reads!Nenhuma}
    BY <1>4 DEF LeituraInv, Reads!Desenhados, Reads!Carregando, Reads!SemDados, Reads!Nenhuma
  <1>. QED  BY <1>2, <1>3, <1>4 DEF Reads!OutraChavePassa

-----------------------------------------------------------------------------
\* The invariant, of the whole panel.
LEMMA LeituraSempre ==
  ASSUME ConstantesDasTelas
  PROVE  Spec => [](tela = "leituras" => LeituraInv)
  <1>. DEFINE Inv == tela = "leituras" => LeituraInv
  <1>1. Init => Inv
    BY InicioDaTela, LeituraInicia DEF ConstantesDasTelas
  <1>2. Inv /\ [Next]_memoria => Inv'
    BY PassoDaTela, LeituraMantem DEF ConstantesDasTelas
  <1>. QED  BY <1>1, <1>2, PTL DEF Spec

\* The data of a selection left behind is drawn by no view that hides what it waits for, and
\* by a protected one only until the new answer arrives or under its failure, whatever the
\* order of the answers, the failures and the choices (the effects of the views and their
\* ignore flags).
THEOREM OutraChaveSemprePassa ==
  ASSUME ConstantesDasTelas
  PROVE  Spec => []OutraChavePassa
  <1>1. (tela = "leituras" => LeituraInv) => OutraChavePassa
    BY LeituraVale DEF ConstantesDasTelas, OutraChavePassa
  <1>. QED  BY <1>1, LeituraSempre, PTL

\* A reading that failed is never drawn as an empty list in the views that report their
\* failures, whatever was read before it (the catch of each poll).
THEOREM FalhaSempreAnunciada ==
  ASSUME ConstantesDasTelas
  PROVE  Spec => []FalhaNuncaViraVazio
  <1>1. (tela = "leituras" => LeituraInv) => FalhaNuncaViraVazio
    BY LeituraVale DEF ConstantesDasTelas, FalhaNuncaViraVazio
  <1>. QED  BY <1>1, LeituraSempre, PTL

-----------------------------------------------------------------------------
(* The writes.  m1 is the record of the handler, m2 the server, m3 the      *)
(* view, m4 the dialog, m5 the operations in course, m6 the busy flags, m7  *)
(* the clicks and m8 what others did.                                       *)

Operacoes == Edits!Pergunta \cup Edits!Leitura \cup Edits!Volta \cup {Edits!Vazia}

\* The flags are those the operations hold, each by one of them.
Exata ==
  /\ m6 = Edits!Presas
  /\ \A v, w \in Edits!Todas : v # w => Edits!Presa(m5[v]) \cap Edits!Presa(m5[w]) = {}

\* The dialog on screen, of a handler that always asks, is about something that is free: it
\* was when the dialog came, and nothing is taken before its answer.
PerguntaLivre ==
  /\ m1.pergunta = "nunca" => m4 = Edits!Fechado
  /\ m4 # Edits!Fechado => Edits!Tranca(m5[m4].item) \cap m6 = {}

EdicaoInv == Edits!TypeOK /\ (m1.pergunta # "ao tirar" => Exata /\ PerguntaLivre)

\* The slots: those of the handlers, and the view's own; no slot is the closed dialog.
LEMMA Mesas ==
  ASSUME Edits!ConstantesOk
  PROVE  /\ Edits!Fechado \notin Vagas /\ Edits!Relogio \notin Vagas /\ Vagas \subseteq Edits!Todas
         /\ Edits!Relogio \in Edits!Todas /\ Edits!Todas = Vagas \cup {Edits!Relogio}
         /\ Edits!Vazia.fase = "vazia"
  BY DEF Edits!ConstantesOk, Edits!Fechado, Edits!Relogio, Edits!Todas, Edits!Vazia

\* ... by their phase.
LEMMA MesaTipo ==
  ASSUME Edits!TypeOK, NEW v \in Edits!Todas
  PROVE  /\ m5[v].fase \in {"perguntando", "indo"} => m5[v] \in Edits!Pergunta
         /\ m5[v].fase = "voltando" => m5[v] \in Edits!Volta
         /\ m5[v].fase \in {"agendada", "lendo", "lida"} => m5[v].tranca \subseteq Itens
         /\ m5[v].fase = "lida" => m5[v].lida \subseteq Itens
  <1>1. m5[v] \in Edits!Pergunta \cup Edits!Leitura \cup Edits!Volta \cup {Edits!Vazia}
    BY DEF Edits!TypeOK
  <1>. QED
    BY <1>1 DEF Edits!Pergunta, Edits!Leitura, Edits!Volta, Edits!Vazia

\* One slot changes.
LEMMA PoeUma ==
  ASSUME Edits!TypeOK, NEW v \in Edits!Todas, NEW m, Edits!Poe(v, m)
  PROVE  /\ m5'[v] = m /\ \A w \in Edits!Todas \ {v} : m5'[w] = m5[w]
         /\ m \in Operacoes => m5' \in [Edits!Todas -> Operacoes]
  BY DEF Edits!TypeOK, Edits!Poe, Operacoes

\* A slot whose dialog is not on screen changes: the dialog on screen is still asking.
LEMMA OutraMesa ==
  ASSUME Edits!ConstantesOk, Edits!TypeOK, NEW v \in Edits!Todas, NEW m \in Operacoes,
         Edits!Poe(v, m), m5[v].fase # "perguntando", UNCHANGED m4
  PROVE  /\ m5' \in [Edits!Todas -> Operacoes]
         /\ m4' # Edits!Fechado => m5'[m4'].fase = "perguntando" /\ m5'[m4'] = m5[m4]
  <1>1. m4 # Edits!Fechado => m4 \in Edits!Todas \ {v} /\ m5[m4].fase = "perguntando"
    BY Mesas DEF Edits!TypeOK
  <1>. QED  BY <1>1, PoeUma

\* Requests and answers have the shape of their phase.
LEMMA FasesTipo ==
  ASSUME NEW x \in Itens, NEW p \in SUBSET Itens, NEW t \in SUBSET Itens, NEW o \in BOOLEAN
  PROVE  /\ [fase |-> "perguntando", item |-> x, pedida |-> p] \in Operacoes
         /\ [fase |-> "indo", item |-> x, pedida |-> p] \in Operacoes
         /\ [fase |-> "voltando", item |-> x, pedida |-> p, ok |-> o] \in Operacoes
         /\ [fase |-> "agendada", tranca |-> t] \in Operacoes
         /\ Edits!Lendo(t) \in Operacoes
         /\ [fase |-> "lida", tranca |-> t, lida |-> p] \in Operacoes
         /\ Edits!Vazia \in Operacoes
  BY DEF Operacoes, Edits!Pergunta, Edits!Volta, Edits!Leitura, Edits!Lendo

\* A list with or without an item is a list of items.
LEMMA ComTipo ==
  ASSUME NEW l \in SUBSET Itens, NEW x \in Itens, NEW d \in BOOLEAN
  PROVE  Edits!Com(l, x, d) \in SUBSET Itens
  BY DEF Edits!Com

\* The flags of an item are of items.
LEMMA TrancaTipo ==
  ASSUME NEW x \in Itens
  PROVE  Edits!Tranca(x) \in SUBSET Itens
  BY DEF Edits!Tranca

\* What an operation holds, by its phase.
LEMMA PresaDe ==
  ASSUME NEW m
  PROVE  /\ m.fase \in {"indo", "voltando"} => Edits!Presa(m) = Edits!Tranca(m.item)
         /\ m.fase \in {"agendada", "lendo", "lida"} => Edits!Presa(m) = m.tranca
         /\ m.fase \in {"vazia", "perguntando"} => Edits!Presa(m) = {}
  BY DEF Edits!Presa

\* One slot goes from what it holds to B, which nobody else holds, and the flags follow.
LEMMA TravaMuda ==
  ASSUME Edits!TypeOK, Exata, NEW v \in Edits!Todas, NEW m, Edits!Poe(v, m), UNCHANGED m1,
         m6' = (m6 \ Edits!Presa(m5[v])) \cup Edits!Presa(m),
         Edits!Presa(m) \cap (m6 \ Edits!Presa(m5[v])) = {}
  PROVE  Exata'
  <1>. DEFINE P(w) == Edits!Presa(m5[w])
              Q(w) == Edits!Presa(m5[w])'
              B    == Edits!Presa(m)
  <1>1. m5'[v] = m /\ \A w \in Edits!Todas \ {v} : m5'[w] = m5[w]
    BY PoeUma
  <1>2. Q(v) = B /\ \A w \in Edits!Todas \ {v} : Q(w) = P(w)
    BY <1>1 DEF Edits!Presa, Edits!Tranca
  <1>3. \A x : x \in m6 <=> \E w \in Edits!Todas : x \in P(w)
    BY DEF Exata, Edits!Presas
  <1>4. \A w, z \in Edits!Todas : w # z => P(w) \cap P(z) = {}
    BY DEF Exata
  <1>5. m6' = (m6 \ P(v)) \cup B /\ B \cap (m6 \ P(v)) = {}
    OBVIOUS
  <1>. HIDE DEF P, Q, B
  <1>6. \A w \in Edits!Todas \ {v} : P(w) \cap B = {}
    BY <1>3, <1>4, <1>5
  <1>7. \A w, z \in Edits!Todas : w # z => Q(w) \cap Q(z) = {}
    BY <1>2, <1>4, <1>6
  <1>8. \A x : x \in m6' <=> \E w \in Edits!Todas : x \in Q(w)
    <2>1. ASSUME NEW x, x \in m6' PROVE \E w \in Edits!Todas : x \in Q(w)
      <3>1. CASE x \in B
        BY <1>2, <3>1
      <3>2. CASE x \in m6 /\ x \notin P(v)
        <4>1. PICK w \in Edits!Todas : x \in P(w)
          BY <1>3, <3>2
        <4>. QED  BY <1>2, <3>2, <4>1
      <3>. QED  BY <1>5, <2>1, <3>1, <3>2
    <2>2. ASSUME NEW x, NEW w \in Edits!Todas, x \in Q(w) PROVE x \in m6'
      <3>1. CASE w = v
        BY <1>2, <1>5, <2>2, <3>1
      <3>2. CASE w # v
        <4>1. x \in P(w) /\ x \in m6
          BY <1>2, <1>3, <2>2, <3>2
        <4>2. x \notin P(v)
          BY <1>4, <3>2, <4>1
        <4>. QED  BY <1>5, <4>1, <4>2
      <3>. QED  BY <3>1, <3>2
    <2>. QED  BY <2>1, <2>2
  <1>9. m6' = Edits!Presas'
    BY <1>8 DEF Edits!Presas, Q
  <1>. QED  BY <1>7, <1>9 DEF Exata, Q

\* ... and a dialog on screen stays about something free, if no flag is raised.
LEMMA LivreFica ==
  ASSUME Edits!ConstantesOk, Edits!TypeOK, PerguntaLivre, NEW v \in Edits!Todas,
         NEW m \in Operacoes, Edits!Poe(v, m), m5[v].fase # "perguntando",
         UNCHANGED <<m1, m4>>, m6' \subseteq m6
  PROVE  PerguntaLivre'
  <1>1. m4' # Edits!Fechado => m5'[m4'] = m5[m4]
    BY OutraMesa
  <1>. QED  BY <1>1 DEF PerguntaLivre, Edits!Tranca

\* An operation that asks nothing and raises no flag goes on, or ends.
LEMMA ElaAnda ==
  ASSUME Edits!ConstantesOk, EdicaoInv, NEW v \in Edits!Todas, NEW m \in Operacoes, Edits!Poe(v, m),
         m5[v].fase # "perguntando", UNCHANGED <<m1, m4>>,
         m6' = m6 \ (Edits!Presa(m5[v]) \ Edits!Presa(m)), Edits!Presa(m) \subseteq Edits!Presa(m5[v])
  PROVE  m1'.pergunta # "ao tirar" => Exata' /\ PerguntaLivre'
  <1>. SUFFICES ASSUME m1.pergunta # "ao tirar" PROVE Exata' /\ PerguntaLivre'
    OBVIOUS
  <1>1. Edits!TypeOK /\ Exata /\ PerguntaLivre
    BY DEF EdicaoInv
  <1>2. Edits!Presa(m5[v]) \subseteq m6
    BY <1>1 DEF Exata, Edits!Presas
  <1>3. m6' = (m6 \ Edits!Presa(m5[v])) \cup Edits!Presa(m)
    BY <1>2
  <1>4. Exata'
    BY <1>1, <1>3, TravaMuda
  <1>. QED  BY <1>1, <1>4, LivreFica

\* The view just drawn, with nothing in course but its own reading.
LEMMA EdicaoInicia ==
  ASSUME Edits!ConstantesOk, Edits!Init
  PROVE  EdicaoInv
  <1>1. /\ Vagas \subseteq Edits!Todas /\ Edits!Relogio \in Edits!Todas
        /\ 0 \in 0..MaxCliques /\ 0 \in 0..MaxAlheios
    BY Mesas DEF Edits!ConstantesOk
  <1>2. Edits!Lendo({}) \in Operacoes /\ Edits!Vazia \in Operacoes
    BY DEF Operacoes, Edits!Leitura, Edits!Lendo
  <1>3. m5 \in [Edits!Todas -> {Edits!Vazia, Edits!Lendo({})}]
    BY DEF Edits!Init
  <1>4. m5 \in [Edits!Todas -> Operacoes]
    BY <1>2, <1>3
  <1>5. Edits!TypeOK
    BY <1>1, <1>4 DEF Edits!Init, Edits!TypeOK, Operacoes
  <1>6. \A v \in Edits!Todas : Edits!Presa(m5[v]) = {}
    BY <1>3 DEF Edits!Presa, Edits!Vazia, Edits!Lendo
  <1>7. Exata
    BY <1>6 DEF Exata, Edits!Presas, Edits!Init
  <1>8. PerguntaLivre
    BY DEF PerguntaLivre, Edits!Init
  <1>. QED  BY <1>5, <1>7, <1>8 DEF EdicaoInv

\* A click: what it takes was free.
LEMMA ClicaMantem ==
  ASSUME Edits!ConstantesOk, EdicaoInv, NEW v \in Vagas, NEW x \in Itens, Edits!Clica(v, x)
  PROVE  EdicaoInv'
  <1>. DEFINE p == Edits!Com(IF m1.lista THEN m3 ELSE {}, x, x \notin m3)
              f == IF Edits!PedeDialogo(x) THEN "perguntando" ELSE "indo"
              m == [fase |-> f, item |-> x, pedida |-> p]
  <1>1. Edits!TypeOK /\ m5[v] = Edits!Vazia /\ Edits!Poe(v, m) /\ v \in Edits!Todas
    BY Mesas DEF EdicaoInv, Edits!Clica
  <1>2. p \in SUBSET Itens
    <2>. (IF m1.lista THEN m3 ELSE {}) \in SUBSET Itens /\ (x \notin m3) \in BOOLEAN
      BY <1>1 DEF Edits!TypeOK
    <2>. QED  BY ComTipo
  <1>3. m \in Operacoes /\ m.fase = f /\ m.item = x
    BY <1>2, FasesTipo
  <1>. HIDE DEF m, p
  <1>4. m5'[v] = m /\ (\A w \in Edits!Todas \ {v} : m5'[w] = m5[w]) /\ m5' \in [Edits!Todas -> Operacoes]
    BY <1>1, <1>3, PoeUma
  <1>5. /\ m4' = (IF Edits!PedeDialogo(x) THEN v ELSE m4)
        /\ m6' = (IF Edits!PedeDialogo(x) THEN m6 ELSE m6 \cup Edits!Tranca(x))
        /\ UNCHANGED <<m1, m2, m3, m8>> /\ Edits!Tranca(x) \cap m6 = {}
    BY DEF Edits!Clica, Edits!Travado
  <1>6. Edits!TypeOK'
    <2>1. m4' # Edits!Fechado => m5'[m4'].fase = "perguntando"
      <3>1. CASE Edits!PedeDialogo(x)
        BY <1>3, <1>4, <1>5, <3>1
      <3>2. CASE ~Edits!PedeDialogo(x)
        <4>1. m4 # Edits!Fechado => m4 \in Edits!Todas \ {v}
          BY <1>1, Mesas DEF Edits!TypeOK
        <4>. QED  BY <1>1, <1>4, <1>5, <3>2, <4>1 DEF Edits!TypeOK
      <3>. QED  BY <3>1, <3>2
    <2>2. m7' \in 0..MaxCliques
      BY <1>1 DEF Edits!Clica, Edits!TypeOK, Edits!ConstantesOk
    <2>3. m4' \in Vagas \cup {Edits!Fechado}
      BY <1>1, <1>5 DEF Edits!TypeOK
    <2>4. m6' \in SUBSET Itens
      BY <1>1, <1>5, TrancaTipo DEF Edits!TypeOK
    <2>. QED  BY <1>1, <1>4, <1>5, <2>1, <2>2, <2>3, <2>4 DEF Edits!TypeOK, Operacoes
  <1>7. ASSUME m1.pergunta # "ao tirar" PROVE Exata' /\ PerguntaLivre'
    <2>1. Exata /\ PerguntaLivre
      BY <1>7 DEF EdicaoInv
    <2>2. Edits!Presa(m5[v]) = {}
      BY <1>1, Mesas, PresaDe
    <2>3. Edits!Presa(m) = IF Edits!PedeDialogo(x) THEN {} ELSE Edits!Tranca(x)
      BY <1>3, PresaDe
    <2>4. Exata'
      BY <1>1, <1>5, <2>1, <2>2, <2>3, TravaMuda
    <2>5. m1.pergunta \in {"nunca", "ao tirar", "sempre"}
      BY <1>1 DEF Edits!TypeOK, Edits!ConstantesOk, Edits!ModoDeEdicao
    <2>6. CASE Edits!PedeDialogo(x)
      <3>1. m1.pergunta # "nunca" /\ m4' = v /\ m6' = m6 /\ m5'[m4'].item = x
        BY <1>3, <1>4, <1>5, <2>6 DEF Edits!PedeDialogo
      <3>. QED  BY <1>5, <2>4, <3>1 DEF PerguntaLivre, Edits!Tranca
    <2>7. CASE ~Edits!PedeDialogo(x)
      <3>1. m1.pergunta = "nunca"
        BY <1>7, <2>5, <2>7 DEF Edits!PedeDialogo
      <3>2. m4' = Edits!Fechado
        BY <1>5, <2>1, <2>7, <3>1 DEF PerguntaLivre
      <3>. QED  BY <2>4, <3>2 DEF PerguntaLivre
    <2>. QED  BY <2>6, <2>7
  <1>. QED  BY <1>5, <1>6, <1>7 DEF EdicaoInv

\* The dialog on screen is answered: what it is about is free still.
LEMMA SettleMantem ==
  ASSUME Edits!ConstantesOk, EdicaoInv, NEW aceito \in BOOLEAN, Edits!Settle(aceito)
  PROVE  EdicaoInv'
  <1>. DEFINE m == IF aceito THEN [m5[m4] EXCEPT !.fase = "indo"] ELSE Edits!Vazia
  <1>0. PICK v \in Vagas : v = m4
    BY DEF EdicaoInv, Edits!TypeOK, Edits!Settle
  <1>1. /\ Edits!TypeOK /\ v = m4 /\ v \in Edits!Todas /\ m5[v].fase = "perguntando"
        /\ m5[v] \in Edits!Pergunta /\ v # Edits!Fechado
    BY <1>0, Mesas, MesaTipo DEF EdicaoInv, Edits!TypeOK, Edits!Settle
  <1>2. /\ Edits!Poe(v, m) /\ m4' = Edits!Fechado
        /\ m6' = (IF aceito THEN m6 \cup Edits!Tranca(m5[v].item) ELSE m6)
        /\ UNCHANGED <<m1, m2, m3, m7, m8>>
    BY <1>1 DEF Edits!Settle
  <1>3. /\ aceito => m \in Edits!Pergunta /\ m.fase = "indo" /\ m.item = m5[v].item
        /\ ~aceito => m = Edits!Vazia
        /\ m5[v].item \in Itens
    BY <1>1 DEF Edits!Pergunta
  <1>4. m \in Operacoes
    BY <1>3 DEF Operacoes
  <1>. HIDE DEF m
  <1>5. m5'[v] = m /\ (\A w \in Edits!Todas \ {v} : m5'[w] = m5[w]) /\ m5' \in [Edits!Todas -> Operacoes]
    BY <1>1, <1>2, <1>4, PoeUma
  <1>6. Edits!TypeOK'
    <2>1. m6' \in SUBSET Itens
      BY <1>1, <1>2, <1>3, TrancaTipo DEF Edits!TypeOK
    <2>. QED  BY <1>1, <1>2, <1>5, <2>1 DEF Edits!TypeOK, Operacoes
  <1>7. ASSUME m1.pergunta # "ao tirar" PROVE Exata' /\ PerguntaLivre'
    <2>1. Exata /\ Edits!Tranca(m5[v].item) \cap m6 = {}
      BY <1>1, <1>7 DEF EdicaoInv, PerguntaLivre
    <2>2. Edits!Presa(m5[v]) = {}
      BY <1>1, PresaDe
    <2>3. Edits!Presa(m) = IF aceito THEN Edits!Tranca(m5[v].item) ELSE {}
      BY <1>3, PresaDe, Mesas
    <2>4. Exata'
      BY <1>1, <1>2, <2>1, <2>2, <2>3, TravaMuda
    <2>. QED  BY <1>2, <2>4 DEF PerguntaLivre
  <1>. QED  BY <1>2, <1>6, <1>7 DEF EdicaoInv

\* The server answers: the operation holds what it held.
LEMMA RespondeMantem ==
  ASSUME Edits!ConstantesOk, EdicaoInv, NEW v \in Vagas, Edits!Executa(v) \/ Edits!Recusa(v)
  PROVE  EdicaoInv'
  <1>1. Edits!TypeOK /\ v \in Edits!Todas /\ m5[v].fase = "indo" /\ m5[v] \in Edits!Pergunta
    BY Mesas, MesaTipo DEF EdicaoInv, Edits!Executa, Edits!Recusa
  <1>2. m5[v].item \in Itens /\ m5[v].pedida \in SUBSET Itens
    BY <1>1 DEF Edits!Pergunta
  <1>3. PICK ok \in BOOLEAN :
          /\ Edits!Responde(v, ok)
          /\ m2' = Edits!Gravado(m5[v]) \/ m2' = m2
          /\ m8' \in 0..MaxAlheios
          /\ UNCHANGED <<m1, m3, m4, m6, m7>>
    <2>1. CASE Edits!Executa(v)
      BY <1>1, <2>1 DEF Edits!Executa, Edits!TypeOK
    <2>2. CASE Edits!Recusa(v)
      <3>1. m8' \in 0..MaxAlheios
        BY <1>1, <2>2 DEF Edits!Recusa, Edits!TypeOK, Edits!ConstantesOk
      <3>. QED  BY <2>2, <3>1 DEF Edits!Recusa
    <2>. QED  BY <2>1, <2>2
  <1>. DEFINE m == [fase |-> "voltando", item |-> m5[v].item, pedida |-> m5[v].pedida, ok |-> ok]
  <1>4. Edits!Poe(v, m)
    BY <1>3 DEF Edits!Responde
  <1>5. m \in Operacoes /\ m.fase = "voltando" /\ m.item = m5[v].item
    BY <1>2, FasesTipo
  <1>. HIDE DEF m
  <1>6. m2' \in SUBSET Itens
    <2>. m2 \in SUBSET Itens
      BY <1>1 DEF Edits!TypeOK
    <2>1. Edits!Com(m2, m5[v].item, m5[v].item \in m5[v].pedida) \in SUBSET Itens
      BY <1>2 DEF Edits!Com
    <2>. QED  BY <1>2, <1>3, <2>1 DEF Edits!Gravado
  <1>7. Edits!TypeOK'
    <2>1. /\ m5' \in [Edits!Todas -> Operacoes]
          /\ m4' # Edits!Fechado => m5'[m4'].fase = "perguntando"
      BY <1>1, <1>3, <1>4, <1>5, OutraMesa
    <2>. QED  BY <1>1, <1>3, <1>6, <2>1 DEF Edits!TypeOK, Operacoes
  <1>8. Edits!Presa(m) = Edits!Presa(m5[v])
    BY <1>1, <1>5, PresaDe
  <1>9. m1'.pergunta # "ao tirar" => Exata' /\ PerguntaLivre'
    BY <1>1, <1>3, <1>4, <1>5, <1>8, ElaAnda
  <1>. QED  BY <1>7, <1>9 DEF EdicaoInv

\* The handler goes on after its await: it frees what it held, or leaves it to the reading.
LEMMA TerminaMantem ==
  ASSUME Edits!ConstantesOk, EdicaoInv, NEW v \in Vagas, Edits!Termina(v)
  PROVE  EdicaoInv'
  <1>0. PICK m : m = Edits!Resto(m5[v])
    OBVIOUS
  <1>1. Edits!TypeOK /\ v \in Edits!Todas /\ m5[v].fase = "voltando" /\ m5[v] \in Edits!Volta
    BY Mesas, MesaTipo DEF EdicaoInv, Edits!Termina
  <1>2. m5[v].item \in Itens /\ m5[v].pedida \in SUBSET Itens /\ m5[v].ok \in BOOLEAN
    BY <1>1 DEF Edits!Volta
  <1>3. /\ Edits!Poe(v, m)
        /\ m3' = (IF m5[v].ok /\ m1.depois = "aplica" THEN Edits!Aplicada(m5[v]) ELSE m3)
        /\ m6' = m6 \ Edits!Solta(m5[v])
        /\ UNCHANGED <<m1, m2, m4, m7, m8>>
    BY <1>0 DEF Edits!Termina
  <1>. DEFINE t == IF Edits!Espera(m5[v]) THEN Edits!Tranca(m5[v].item) ELSE {}
  <1>4. t \in SUBSET Itens
    BY <1>2, TrancaTipo
  <1>5. m \in {[fase |-> "agendada", tranca |-> t], Edits!Lendo(t), Edits!Vazia}
    BY <1>0 DEF Edits!Resto
  <1>6. m = Edits!Vazia => ~Edits!Espera(m5[v])
    <2>. [fase |-> "agendada", tranca |-> t] # Edits!Vazia /\ Edits!Lendo(t) # Edits!Vazia
      <3>1. [fase |-> "agendada", tranca |-> t].fase = "agendada" /\ Edits!Lendo(t).fase = "lendo"
        BY DEF Edits!Lendo
      <3>. QED  BY <3>1, Mesas
    <2>. QED  BY <1>0 DEF Edits!Resto, Edits!Espera
  <1>7. Edits!Presa(m) = t
    <2>1. CASE m = Edits!Vazia
      BY <1>6, <2>1, Mesas, PresaDe
    <2>2. CASE m # Edits!Vazia
      BY <1>5, <2>2 DEF Edits!Presa, Edits!Lendo
    <2>. QED  BY <2>1, <2>2
  <1>8. m \in Operacoes
    BY <1>4, <1>5 DEF Operacoes, Edits!Leitura, Edits!Lendo
  <1>9. Edits!TypeOK'
    <2>1. /\ m5' \in [Edits!Todas -> Operacoes]
          /\ m4' # Edits!Fechado => m5'[m4'].fase = "perguntando"
      BY <1>1, <1>3, <1>8, OutraMesa
    <2>2. m3' \in SUBSET Itens
      <3>. m3 \in SUBSET Itens
        BY <1>1 DEF Edits!TypeOK
      <3>1. Edits!Com(m3, m5[v].item, m5[v].item \in m5[v].pedida) \in SUBSET Itens
        BY <1>2 DEF Edits!Com
      <3>. QED  BY <1>2, <1>3, <3>1 DEF Edits!Aplicada
    <2>3. m6' \in SUBSET Itens
      BY <1>1, <1>3 DEF Edits!TypeOK
    <2>. QED  BY <1>1, <1>3, <2>1, <2>2, <2>3 DEF Edits!TypeOK, Operacoes
  <1>10. Edits!Presa(m5[v]) = Edits!Tranca(m5[v].item)
    BY <1>1, PresaDe
  <1>11. m6' = m6 \ (Edits!Presa(m5[v]) \ Edits!Presa(m)) /\ Edits!Presa(m) \subseteq Edits!Presa(m5[v])
    BY <1>3, <1>7, <1>10 DEF Edits!Solta
  <1>12. m1'.pergunta # "ao tirar" => Exata' /\ PerguntaLivre'
    BY <1>1, <1>3, <1>8, <1>11, ElaAnda
  <1>. QED  BY <1>9, <1>12 DEF EdicaoInv

\* A reading of the handler or of the view: scheduled, sent, answered, shown or failed.
LEMMA LeituraDaEdicaoMantem ==
  ASSUME Edits!ConstantesOk, EdicaoInv, NEW v \in Edits!Todas,
         Edits!Dispara(v) \/ Edits!Le(v) \/ Edits!LeituraFalha(v) \/ Edits!Mostra(v)
  PROVE  EdicaoInv'
  <1>1. /\ Edits!TypeOK /\ m5[v].fase \in {"agendada", "lendo", "lida"} /\ m5[v].tranca \in SUBSET Itens
        /\ m5[v].fase = "lida" => m5[v].lida \in SUBSET Itens
        /\ m2 \in SUBSET Itens /\ m3 \in SUBSET Itens
    BY MesaTipo DEF EdicaoInv, Edits!TypeOK, Edits!Dispara, Edits!Le, Edits!LeituraFalha, Edits!Mostra
  <1>. DEFINE l == [fase |-> "lida", tranca |-> m5[v].tranca, lida |-> m2]
  <1>2. PICK m \in Operacoes :
          /\ Edits!Poe(v, m) /\ m6' = m6 \ (m5[v].tranca \ Edits!Presa(m))
          /\ Edits!Presa(m) \subseteq m5[v].tranca
          /\ m3' \in SUBSET Itens /\ m8' \in 0..MaxAlheios /\ UNCHANGED <<m1, m2, m4, m7>>
    <2>1. /\ Edits!Presa(Edits!Vazia) = {} /\ Edits!Presa(Edits!Lendo({})) = {}
          /\ Edits!Presa(l) = m5[v].tranca
      BY DEF Edits!Presa, Edits!Vazia, Edits!Lendo
    <2>2. Edits!Vazia \in Operacoes /\ Edits!Lendo({}) \in Operacoes /\ l \in Operacoes
      BY <1>1 DEF Operacoes, Edits!Leitura, Edits!Lendo
    <2>3. CASE Edits!Dispara(v)
      BY <1>1, <2>1, <2>2, <2>3 DEF Edits!Dispara, Edits!TypeOK
    <2>4. CASE Edits!Le(v)
      <3>1. Edits!Poe(v, l) /\ UNCHANGED <<m1, m2, m3, m4, m6, m7, m8>>
        BY <2>4 DEF Edits!Le
      <3>. HIDE DEF l
      <3>. QED  BY <1>1, <2>1, <2>2, <3>1 DEF Edits!TypeOK
    <2>5. CASE Edits!LeituraFalha(v)
      <3>1. m8' \in 0..MaxAlheios
        BY <1>1, <2>5 DEF Edits!LeituraFalha, Edits!TypeOK, Edits!ConstantesOk
      <3>2. m3' = {} \/ m3' = m3
        BY <2>5 DEF Edits!LeituraFalha
      <3>. QED  BY <1>1, <2>1, <2>2, <2>5, <3>1, <3>2 DEF Edits!LeituraFalha
    <2>6. CASE Edits!Mostra(v)
      BY <1>1, <2>1, <2>2, <2>6 DEF Edits!Mostra, Edits!TypeOK
    <2>. QED  BY <2>3, <2>4, <2>5, <2>6
  <1>3. Edits!TypeOK'
    <2>1. /\ m5' \in [Edits!Todas -> Operacoes]
          /\ m4' # Edits!Fechado => m5'[m4'].fase = "perguntando"
      BY <1>1, <1>2, OutraMesa
    <2>2. m6' \in SUBSET Itens
      BY <1>1, <1>2 DEF Edits!TypeOK
    <2>. QED  BY <1>1, <1>2, <2>1, <2>2 DEF Edits!TypeOK, Operacoes
  <1>4. Edits!Presa(m5[v]) = m5[v].tranca
    BY <1>1, PresaDe
  <1>5. m1'.pergunta # "ao tirar" => Exata' /\ PerguntaLivre'
    BY <1>1, <1>2, <1>4, ElaAnda
  <1>. QED  BY <1>3, <1>5 DEF EdicaoInv

\* No operation and no flag changes.
LEMMA TravaFica ==
  ASSUME UNCHANGED <<m1, m4, m5, m6>>
  PROVE  /\ Exata => Exata'
         /\ PerguntaLivre => PerguntaLivre'
  <1>1. \A n : Edits!Tranca(n)' = Edits!Tranca(n)
    BY DEF Edits!Tranca
  <1>2. \A v : Edits!Presa(m5[v])' = Edits!Presa(m5[v])
    BY DEF Edits!Presa, Edits!Tranca
  <1>3. Edits!Presas' = Edits!Presas
    BY <1>2 DEF Edits!Presas
  <1>4. Exata => Exata'
    BY <1>2, <1>3 DEF Exata
  <1>5. Edits!Tranca(m5[m4].item)' = Edits!Tranca(m5[m4].item)
    BY DEF Edits!Tranca
  <1>6. PerguntaLivre => PerguntaLivre'
    BY <1>5 DEF PerguntaLivre
  <1>. QED  BY <1>4, <1>6

\* Another administrator writes, or the timer of the view fires.
LEMMA AlheioMantem ==
  ASSUME Edits!ConstantesOk, EdicaoInv, NEW x \in Itens, Edits!Alheio(x)
  PROVE  EdicaoInv'
  <1>1. UNCHANGED <<m1, m3, m4, m5, m6, m7>>
    BY DEF Edits!Alheio
  <1>2. m2' \in SUBSET Itens
    BY DEF EdicaoInv, Edits!TypeOK, Edits!Alheio, Edits!Com
  <1>3. m8' \in 0..MaxAlheios
    <2>1. m8 \in 0..MaxAlheios /\ MaxAlheios \in Nat /\ m8 < MaxAlheios /\ m8' = m8 + 1
      BY DEF EdicaoInv, Edits!TypeOK, Edits!Alheio, Edits!ConstantesOk
    <2>. QED  BY <2>1
  <1>4. Edits!TypeOK'
    BY <1>1, <1>2, <1>3 DEF EdicaoInv, Edits!TypeOK
  <1>. QED  BY <1>1, <1>4, TravaFica DEF EdicaoInv

LEMMA RepeteEdicaoMantem ==
  ASSUME Edits!ConstantesOk, EdicaoInv, Edits!Repete
  PROVE  EdicaoInv'
  <1>1. /\ Edits!TypeOK /\ m5[Edits!Relogio] = Edits!Vazia
        /\ Edits!Poe(Edits!Relogio, Edits!Lendo({}))
        /\ UNCHANGED <<m1, m2, m3, m4, m6, m7, m8>>
    BY DEF EdicaoInv, Edits!Repete
  <1>2. Edits!Lendo({}) \in Operacoes
    BY DEF Operacoes, Edits!Leitura, Edits!Lendo
  <1>3. Edits!Presa(Edits!Lendo({})) = {} /\ Edits!Presa(Edits!Vazia) = {}
    BY DEF Edits!Presa, Edits!Lendo, Edits!Vazia
  <1>4. Edits!TypeOK'
    <2>1. /\ m5' \in [Edits!Todas -> Operacoes]
          /\ m4' # Edits!Fechado => m5'[m4'].fase = "perguntando"
      BY <1>1, <1>2, Mesas, OutraMesa
    <2>. QED  BY <1>1, <2>1 DEF Edits!TypeOK, Operacoes
  <1>5. m1'.pergunta # "ao tirar" => Exata' /\ PerguntaLivre'
    BY <1>1, <1>2, <1>3, Mesas, ElaAnda
  <1>. QED  BY <1>4, <1>5 DEF EdicaoInv

\* The view as it is.
LEMMA EdicaoParada ==
  ASSUME EdicaoInv, UNCHANGED Edits!vars
  PROVE  EdicaoInv'
  <1>1. UNCHANGED <<m1, m2, m3, m4, m5, m6, m7, m8>>
    BY DEF Edits!vars
  <1>2. Edits!TypeOK'
    BY <1>1 DEF EdicaoInv, Edits!TypeOK
  <1>. QED  BY <1>1, <1>2, TravaFica DEF EdicaoInv

\* Any step, by its action.
LEMMA EdicaoMantem ==
  ASSUME Edits!ConstantesOk, EdicaoInv, [Edits!Next]_(Edits!vars)
  PROVE  EdicaoInv'
  <1>. Vagas \subseteq Edits!Todas
    BY Mesas
  <1>. QED
    BY EdicaoParada, SettleMantem, AlheioMantem, ClicaMantem, RespondeMantem, TerminaMantem,
       LeituraDaEdicaoMantem, RepeteEdicaoMantem
       DEF Edits!Next

-----------------------------------------------------------------------------
\* The invariant, of the whole panel.
LEMMA EdicaoSempre ==
  ASSUME ConstantesDasTelas
  PROVE  Spec => [](tela = "edicoes" => EdicaoInv)
  <1>. DEFINE Inv == tela = "edicoes" => EdicaoInv
  <1>1. Init => Inv
    BY InicioDaTela, EdicaoInicia DEF ConstantesDasTelas
  <1>2. Inv /\ [Next]_memoria => Inv'
    BY PassoDaTela, EdicaoMantem DEF ConstantesDasTelas
  <1>. QED  BY <1>1, <1>2, PTL DEF Spec

\* A busy flag is up exactly while an operation that raised it is in course, and no two
\* operations hold the same one, whatever dialogs replaced one another: the finally of one
\* operation never enables the button of another that still runs (DialogProvider.tsx).  Of
\* every handler but the one that asks only before it stops a container.
THEOREM TravaSempreExata ==
  ASSUME ConstantesDasTelas
  PROVE  Spec => []TravaExata
  <1>1. (tela = "edicoes" => EdicaoInv) => TravaExata
    BY DEF TravaExata, Edits!TravaExata, EdicaoInv, Exata
  <1>. QED  BY <1>1, EdicaoSempre, PTL

-----------------------------------------------------------------------------
(* The streams, whose invariant is FluxoInv of StreamReconnectProofs.       *)

FluxoP == INSTANCE StreamReconnectProofs WITH
  Fontes <- Selecoes,
  atual <- m1, chave <- m2, pedidos <- m3, fontes <- m4, timers <- m5, tentativa <- m6, estado <- m7,
  linhas <- m8, quedas <- m9

\* The module the theorems are about is the one the view runs.
LEMMA FluxoMesmo ==
  /\ Stream!ConstantesOk => FluxoP!ConstantesOk
  /\ Stream!Init => FluxoP!Init
  /\ [Stream!Next]_(Stream!vars) => [FluxoP!Next]_(FluxoP!vars)
  <1>1. Stream!ConstantesOk => FluxoP!ConstantesOk
    BY DEF Stream!Nenhuma, FluxoP!Nenhuma, Stream!ConstantesOk, FluxoP!ConstantesOk
  <1>2. Stream!Init => FluxoP!Init
    BY DEF Stream!Nenhuma, FluxoP!Nenhuma, Stream!Efeitos, FluxoP!Efeitos, Stream!Init,
         FluxoP!Init
  <1>3. [Stream!Next]_(Stream!vars) => [FluxoP!Next]_(FluxoP!vars)
    BY DEF Stream!Nenhuma, FluxoP!Nenhuma, Stream!Efeitos, FluxoP!Efeitos, Stream!vars,
         FluxoP!vars, Stream!Mais, FluxoP!Mais, Stream!Menos, FluxoP!Menos, Stream!Fecha,
         FluxoP!Fecha, Stream!Seleciona, FluxoP!Seleciona, Stream!Agenda, FluxoP!Agenda,
         Stream!Cancelado, FluxoP!Cancelado, Stream!Abre, FluxoP!Abre, Stream!Recusa,
         FluxoP!Recusa, Stream!Cai, FluxoP!Cai, Stream!Dispara, FluxoP!Dispara, Stream!Mensagem,
         FluxoP!Mensagem, Stream!Passo, FluxoP!Passo, Stream!Next, FluxoP!Next
  <1>. QED  BY <1>1, <1>2, <1>3

\* What the invariant says of the lines, the state and the waits drawn.
LEMMA FluxoVale ==
  ASSUME FluxoP!FluxoInv
  PROVE  Stream!SoUmaFonte /\ Stream!LinhasDaSelecao /\ Stream!EstadoFiel /\ Stream!EsperaCresce
  <1>1. FluxoP!SoUmaFonte /\ FluxoP!LinhasDaSelecao /\ FluxoP!EstadoFiel
    BY DEF FluxoP!FluxoInv
  <1>2. FluxoP!EsperaCresce
    BY FluxoP!EsperaSempreCresce DEF FluxoP!FluxoInv
  <1>3. FluxoP!EsperaCresce => Stream!EsperaCresce
    BY DEF Stream!BaseMs, FluxoP!BaseMs, Stream!TetoMs, FluxoP!TetoMs, Stream!EsperaNominal,
         FluxoP!EsperaNominal, Stream!EsperaDoBackoff, FluxoP!EsperaDoBackoff, Stream!Sorteios,
         FluxoP!Sorteios, Stream!EsperaCresce, FluxoP!EsperaCresce
  <1>. QED
    BY <1>1, <1>2, <1>3 DEF
         Stream!Nenhuma, FluxoP!Nenhuma, Stream!Efeitos, FluxoP!Efeitos, Stream!SoUmaFonte,
         FluxoP!SoUmaFonte, Stream!LinhasDaSelecao, FluxoP!LinhasDaSelecao, Stream!EstadoFiel,
         FluxoP!EstadoFiel

-----------------------------------------------------------------------------
\* Whatever is on screen, a stream keeps one source for what it follows, shows lines of
\* the selection only, says truly how it is connected and waits longer from one drop to the
\* next (components/ui/stream-reconnect.ts).
THEOREM FluxoSempreIntegroNaTela ==
  ASSUME ConstantesDasTelas
  PROVE  Spec => []FluxoIntegro
  <1>. DEFINE Inv == tela = "fluxo" => FluxoP!FluxoInv
  <1>1. Init => Inv
    BY InicioDaTela, FluxoMesmo, FluxoP!FluxoInicia DEF ConstantesDasTelas
  <1>2. Inv /\ [Next]_memoria => Inv'
    BY PassoDaTela, FluxoMesmo, FluxoP!FluxoMantem DEF ConstantesDasTelas
  <1>3. Inv => FluxoIntegro
    BY FluxoVale DEF FluxoIntegro
  <1>. QED  BY <1>1, <1>2, <1>3, PTL DEF Spec

-----------------------------------------------------------------------------
(* The history of metrics.  m1 is the catalogue, m4 the metric chosen, m5   *)
(* the window, m6 and m7 the period typed, m8 the period applied, m9 its    *)
(* error and m10 the reading under way.                                     *)
(*                                                                          *)
(* JanelaProntaCabe speaks of the reading under way; that it holds takes    *)
(* what the choices themselves never are: a window longer than the samples  *)
(* of the metric on screen (JanelaCabe), and a period that was applied      *)
(* without a beginning or ends before it (PeriodoValido).                   *)

JanelaCabe ==
  /\ m1 # "lido" => m4 = ""
  /\ m1 = "lido" /\ m5 \in History!SemTendenciaNaoTem => History!Metric(m1, m4) \in ComTendencia

Valido(p) == p.from # History!Vazio /\ (p.to = History!Vazio \/ p.to > p.from)
PeriodoValido == m8 = History!NenhumPeriodo \/ Valido(m8)

HistoricoInv == History!TypeOK /\ JanelaCabe /\ PeriodoValido /\ History!JanelaProntaCabe

\* The metric drawn is one of the catalogue once it arrived.
LEMMA MetricTipo ==
  ASSUME History!ConstantesOk, NEW m \in Metricas \cup {""}
  PROVE  /\ History!Metric("lido", m) \in Metricas
         /\ \A c : c # "lido" /\ m = "" => History!Metric(c, m) = ""
  BY DEF History!ConstantesOk, History!Metric

\* The reading that choices lead to is as the property says when their window fits their
\* metric and their period is valid.
LEMMA ConsultaConferida ==
  ASSUME History!ConstantesOk,
         NEW c, NEW s, NEW m \in Metricas \cup {""},
         NEW r \in History!HISTORY_RANGES \cup {History!CUSTOM}, NEW p,
         p = History!NenhumPeriodo \/ Valido(p),
         c # "lido" => m = "",
         c = "lido" /\ r \in History!SemTendenciaNaoTem => History!Metric(c, m) \in ComTendencia,
         History!Consulta(c, s, m, r, p)
  PROVE  History!JanelaProntaCabe'
  <1>1. CASE \/ s = "" \/ History!Metric(c, m) = ""
             \/ (r = History!CUSTOM /\ p = History!NenhumPeriodo)
    BY <1>1 DEF History!Consulta, History!JanelaProntaCabe
  <1>2. CASE ~(\/ s = "" \/ History!Metric(c, m) = ""
               \/ (r = History!CUSTOM /\ p = History!NenhumPeriodo))
    <2>1. m10' = [metric |-> History!Metric(c, m), janela |-> History!Janela(r, p)]
      BY <1>2 DEF History!Consulta
    <2>2. c = "lido"
      BY <1>2, MetricTipo
    <2>3. CASE r = History!CUSTOM
      BY <1>2, <2>1, <2>3 DEF History!JanelaProntaCabe, History!Janela, Valido
    <2>4. CASE r # History!CUSTOM
      BY <2>1, <2>2, <2>4 DEF History!JanelaProntaCabe, History!Janela
    <2>. QED  BY <2>3, <2>4
  <1>. QED  BY <1>1, <1>2

\* The choices of a view just drawn.
LEMMA HistoricoInicia ==
  ASSUME History!ConstantesOk, History!Init
  PROVE  HistoricoInv
  BY DEF History!ConstantesOk, History!Init, HistoricoInv, History!TypeOK, JanelaCabe, PeriodoValido,
         History!JanelaProntaCabe, History!HISTORY_RANGES, History!SemTendenciaNaoTem,
         History!NenhumPeriodo, History!Vazio

\* Any step of the history, by its action.
LEMMA HistoricoMantem ==
  ASSUME History!ConstantesOk, HistoricoInv, [History!Next]_(History!vars)
  PROVE  HistoricoInv'
  <1>. USE DEF HistoricoInv
  <1>1. CASE UNCHANGED History!vars
    <2>1. History!TypeOK'
      BY <1>1 DEF History!vars, History!TypeOK
    <2>2. JanelaCabe' /\ PeriodoValido' /\ History!JanelaProntaCabe'
      BY <1>1 DEF History!vars, JanelaCabe, PeriodoValido, History!JanelaProntaCabe
    <2>. QED  BY <2>1, <2>2
  <1>2. ASSUME NEW ok \in BOOLEAN, History!CarregarCatalogo(ok) PROVE HistoricoInv'
    <2>1. /\ History!TypeOK' /\ PeriodoValido' /\ m4 = ""
          /\ m5 \in History!HISTORY_RANGES \cup {History!CUSTOM}
      BY <1>2 DEF History!CarregarCatalogo, History!TypeOK, JanelaCabe, PeriodoValido
    <2>2. JanelaCabe'
      BY <1>2, <2>1 DEF History!CarregarCatalogo, JanelaCabe, History!Metric, History!ConstantesOk
    <2>3. History!JanelaProntaCabe'
      BY <1>2, <2>1, <2>2, ConsultaConferida DEF History!CarregarCatalogo, JanelaCabe, PeriodoValido
    <2>. QED  BY <2>1, <2>2, <2>3
  <1>3. ASSUME NEW s \in ServidoresMedidos, History!FetchServers(s) \/ History!SetServerId(s)
        PROVE  HistoricoInv'
    <2>1. History!TypeOK' /\ JanelaCabe' /\ PeriodoValido'
      BY <1>3 DEF History!FetchServers, History!SetServerId, History!TypeOK, JanelaCabe, PeriodoValido
    <2>2. History!JanelaProntaCabe'
      BY <1>3, <2>1, ConsultaConferida
         DEF History!FetchServers, History!SetServerId, History!TypeOK, JanelaCabe, PeriodoValido
    <2>. QED  BY <2>1, <2>2
  <1>4. ASSUME NEW m \in Metricas, History!EscolherMetrica(m) PROVE HistoricoInv'
    <2>1. History!TypeOK' /\ PeriodoValido'
      <3>1. m5' \in History!HISTORY_RANGES \cup {History!CUSTOM}
        BY <1>4 DEF History!EscolherMetrica, History!RangeAoEscolher, History!TypeOK,
                    History!HISTORY_RANGES
      <3>. QED  BY <1>4, <3>1 DEF History!EscolherMetrica, History!TypeOK, PeriodoValido
    <2>2. JanelaCabe'
      <3>1. /\ m1 = "lido" /\ m1' = m1
            /\ m4' = m /\ m5' = History!RangeAoEscolher(m)
        BY <1>4 DEF History!EscolherMetrica
      <3>2. m # ""
        BY DEF History!ConstantesOk
      <3>3. History!Metric(m1', m4') = m
        BY <3>1, <3>2 DEF History!Metric
      <3>4. m5' \in History!SemTendenciaNaoTem => m \in ComTendencia
        BY <3>1 DEF History!RangeAoEscolher, History!JanelaIndisponivel, History!SemTendenciaNaoTem,
                    History!CUSTOM
      <3>. QED  BY <3>1, <3>3, <3>4 DEF JanelaCabe
    <2>3. History!JanelaProntaCabe'
      BY <1>4, <2>1, <2>2, ConsultaConferida
         DEF History!EscolherMetrica, History!TypeOK, JanelaCabe, PeriodoValido
    <2>. QED  BY <2>1, <2>2, <2>3
  <1>5. ASSUME NEW r \in History!HISTORY_RANGES \cup {History!CUSTOM}, History!RangeButton(r)
        PROVE  HistoricoInv'
    <2>1. History!TypeOK' /\ PeriodoValido'
      BY <1>5 DEF History!RangeButton, History!TypeOK, PeriodoValido
    <2>2. m1 = "lido" => History!Metric(m1, m4) \in Metricas
      BY MetricTipo DEF History!TypeOK
    <2>3. JanelaCabe'
      BY <1>5, <2>2 DEF History!RangeButton, History!JanelaIndisponivel, JanelaCabe,
                        History!SemTendenciaNaoTem, History!CUSTOM
    <2>4. History!JanelaProntaCabe'
      BY <1>5, <2>1, <2>3, ConsultaConferida
         DEF History!RangeButton, History!TypeOK, JanelaCabe, PeriodoValido
    <2>. QED  BY <2>1, <2>3, <2>4
  <1>6. ASSUME NEW de \in Instantes \cup {History!Vazio}, NEW ate \in Instantes \cup {History!Vazio},
               History!Preenche(de, ate)
        PROVE  HistoricoInv'
    <2>1. History!TypeOK'
      BY <1>6 DEF History!Preenche, History!TypeOK
    <2>2. JanelaCabe' /\ PeriodoValido' /\ History!JanelaProntaCabe'
      BY <1>6 DEF History!Preenche, JanelaCabe, PeriodoValido, History!JanelaProntaCabe
    <2>. QED  BY <2>1, <2>2
  <1>7. ASSUME History!ApplyCustom PROVE HistoricoInv'
    <2>1. CASE m6 = History!Vazio \/ (m7 # History!Vazio /\ m7 <= m6)
      BY <1>7, <2>1
         DEF History!ApplyCustom, History!TypeOK, JanelaCabe, PeriodoValido, History!JanelaProntaCabe
    <2>2. CASE ~(m6 = History!Vazio \/ (m7 # History!Vazio /\ m7 <= m6))
      <3>1. /\ m8' = [from |-> m6, to |-> m7]
            /\ History!Consulta(m1, m3, m4, m5, m8')
            /\ m9' = FALSE
            /\ UNCHANGED <<m1, m2, m3, m4, m5, m6, m7>>
        BY <1>7, <2>2 DEF History!ApplyCustom
      <3>2. /\ m6 \in Nat /\ m7 \in Nat /\ m8'.from = m6 /\ m8'.to = m7
        <4>1. m6 \in Instantes \cup {History!Vazio} /\ m7 \in Instantes \cup {History!Vazio}
          BY DEF History!TypeOK
        <4>2. Instantes \subseteq Nat
          BY DEF History!ConstantesOk
        <4>3. m6 \in Nat /\ m7 \in Nat
          BY <4>1, <4>2 DEF History!Vazio
        <4>. QED  BY <3>1, <4>3
      <3>3. Valido(m8')
        BY <2>2, <3>2 DEF Valido
      <3>4. History!TypeOK'
        BY <3>1 DEF History!TypeOK
      <3>5. JanelaCabe'
        BY <3>1 DEF JanelaCabe
      <3>6. History!JanelaProntaCabe'
        BY <3>1, <3>3, ConsultaConferida DEF History!TypeOK, JanelaCabe
      <3>. QED  BY <3>3, <3>6, <3>4, <3>5 DEF PeriodoValido
    <2>. QED  BY <2>1, <2>2
  <1>. QED  BY <1>1, <1>2, <1>3, <1>4, <1>5, <1>6, <1>7 DEF History!Next

-----------------------------------------------------------------------------
\* Whatever the order the catalogue, the metric, the window and the period come in, no
\* ready-made window is asked of a metric that keeps no sample for it, and no period whose
\* typed ends are out of order (components/MetricsHistoryView.tsx).
THEOREM JanelaProntaSempreCabe ==
  ASSUME ConstantesDasTelas
  PROVE  Spec => []JanelaProntaCabe
  <1>. DEFINE Inv == tela = "historico" => HistoricoInv
  <1>1. Init => Inv
    BY InicioDaTela, HistoricoInicia DEF ConstantesDasTelas
  <1>2. Inv /\ [Next]_memoria => Inv'
    BY PassoDaTela, HistoricoMantem DEF ConstantesDasTelas
  <1>3. Inv => JanelaProntaCabe
    BY DEF JanelaProntaCabe, HistoricoInv
  <1>. QED  BY <1>1, <1>2, <1>3, PTL DEF Spec
-----------------------------------------------------------------------------
(* The diagram of a schema, whose invariants are those of                   *)
(* SchemaDiagramProofs.                                                     *)

DesenhoP == INSTANCE SchemaDiagramProofs WITH
  presentes <- m1, relacoes <- m2, pedida <- m3, pedidos <- m4, estado <- m5, nivel <- m6, pilha <- m7,
  nos <- m8

\* The module the theorems are about is the one the view runs.
LEMMA DesenhoMesmo ==
  /\ Diagram!ConstantesOk => DesenhoP!ConstantesOk
  /\ Diagram!Init => DesenhoP!Init
  /\ [Diagram!Next]_(Diagram!vars) => [DesenhoP!Next]_(DesenhoP!vars)
  <1>1. Diagram!ConstantesOk => DesenhoP!ConstantesOk
    BY DEF
         Diagram!NenhumaRaiz, DesenhoP!NenhumaRaiz, Diagram!ConstantesOk, DesenhoP!ConstantesOk,
         Diagram!IsFiniteSet, DesenhoP!IsFiniteSet
  <1>2. Diagram!Init => DesenhoP!Init
    BY DEF
         Diagram!NenhumaRaiz, DesenhoP!NenhumaRaiz, Diagram!Init, DesenhoP!Init,
         Diagram!Cardinality, DesenhoP!Cardinality
  <1>3. [Diagram!Next]_(Diagram!vars) => [DesenhoP!Next]_(DesenhoP!vars)
    BY DEF
         Diagram!NenhumaRaiz, DesenhoP!NenhumaRaiz, Diagram!vars, DesenhoP!vars,
         Diagram!entrada, DesenhoP!entrada, Diagram!LARGURA_DO_NO, DesenhoP!LARGURA_DO_NO,
         Diagram!ALTURA_DO_CABECALHO, DesenhoP!ALTURA_DO_CABECALHO, Diagram!ALTURA_DA_COLUNA,
         DesenhoP!ALTURA_DA_COLUNA, Diagram!RESPIRO_DO_NO, DesenhoP!RESPIRO_DO_NO,
         Diagram!ESPACO_ENTRE_NIVEIS, DesenhoP!ESPACO_ENTRE_NIVEIS, Diagram!ESPACO_ENTRE_NOS,
         DesenhoP!ESPACO_ENTRE_NOS, Diagram!MARGEM, DesenhoP!MARGEM,
         Diagram!MAXIMO_DE_COLUNAS_NO_NO, DesenhoP!MAXIMO_DE_COLUNAS_NO_NO,
         Diagram!SALTOS_MINIMOS, DesenhoP!SALTOS_MINIMOS, Diagram!SALTOS_MAXIMOS,
         DesenhoP!SALTOS_MAXIMOS, Diagram!Menor, DesenhoP!Menor, Diagram!Maior, DesenhoP!Maior,
         Diagram!Saltos, DesenhoP!Saltos, Diagram!Raiz, DesenhoP!Raiz, Diagram!DoEsquema,
         DesenhoP!DoEsquema, Diagram!Ligadas, DesenhoP!Ligadas, Diagram!Onda, DesenhoP!Onda,
         Diagram!Visiveis, DesenhoP!Visiveis, Diagram!Relacoes, DesenhoP!Relacoes,
         Diagram!ComRelacao, DesenhoP!ComRelacao, Diagram!Desenhadas, DesenhoP!Desenhadas,
         Diagram!Saidas, DesenhoP!Saidas, Diagram!Primeiro, DesenhoP!Primeiro, Diagram!Topo,
         DesenhoP!Topo, Diagram!Empilha, DesenhoP!Empilha, Diagram!Comeca, DesenhoP!Comeca,
         Diagram!Acima, DesenhoP!Acima, Diagram!Terminada, DesenhoP!Terminada, Diagram!Examina,
         DesenhoP!Examina, Diagram!Desempilha, DesenhoP!Desempilha, Diagram!Mostradas,
         DesenhoP!Mostradas, Diagram!AlturaDoNo, DesenhoP!AlturaDoNo, Diagram!Empilhados,
         DesenhoP!Empilhados, Diagram!Fim, DesenhoP!Fim, Diagram!No, DesenhoP!No,
         Diagram!Percorrida, DesenhoP!Percorrida, Diagram!Coloca, DesenhoP!Coloca, Diagram!Next,
         DesenhoP!Next, Diagram!Cardinality, DesenhoP!Cardinality
  <1>. QED  BY <1>1, <1>2, <1>3

\* What is proved of the drawing there is what the view promises.
LEMMA DesenhoMesmasProvas ==
  /\ DesenhoP!NiveisContiguos => Diagram!NiveisContiguos
  /\ DesenhoP!RelacaoDesce => Diagram!RelacaoDesce
  /\ DesenhoP!CabeNoDesenho => Diagram!CabeNoDesenho
  /\ DesenhoP!VizinhancaExata => Diagram!VizinhancaExata
  <1>1. DesenhoP!NiveisContiguos => Diagram!NiveisContiguos
    BY DEF
         Diagram!NenhumaRaiz, DesenhoP!NenhumaRaiz, Diagram!SALTOS_MINIMOS,
         DesenhoP!SALTOS_MINIMOS, Diagram!SALTOS_MAXIMOS, DesenhoP!SALTOS_MAXIMOS,
         Diagram!Menor, DesenhoP!Menor, Diagram!Maior, DesenhoP!Maior, Diagram!Saltos,
         DesenhoP!Saltos, Diagram!Raiz, DesenhoP!Raiz, Diagram!DoEsquema, DesenhoP!DoEsquema,
         Diagram!Ligadas, DesenhoP!Ligadas, Diagram!Onda, DesenhoP!Onda, Diagram!Visiveis,
         DesenhoP!Visiveis, Diagram!Relacoes, DesenhoP!Relacoes, Diagram!Saidas,
         DesenhoP!Saidas, Diagram!NiveisContiguos, DesenhoP!NiveisContiguos
  <1>2. DesenhoP!RelacaoDesce => Diagram!RelacaoDesce
    BY DEF
         Diagram!NenhumaRaiz, DesenhoP!NenhumaRaiz, Diagram!SALTOS_MINIMOS,
         DesenhoP!SALTOS_MINIMOS, Diagram!SALTOS_MAXIMOS, DesenhoP!SALTOS_MAXIMOS,
         Diagram!Menor, DesenhoP!Menor, Diagram!Maior, DesenhoP!Maior, Diagram!Saltos,
         DesenhoP!Saltos, Diagram!Raiz, DesenhoP!Raiz, Diagram!DoEsquema, DesenhoP!DoEsquema,
         Diagram!Ligadas, DesenhoP!Ligadas, Diagram!Onda, DesenhoP!Onda, Diagram!Visiveis,
         DesenhoP!Visiveis, Diagram!Relacoes, DesenhoP!Relacoes, Diagram!ComRelacao,
         DesenhoP!ComRelacao, Diagram!Desenhadas, DesenhoP!Desenhadas, Diagram!Percorrida,
         DesenhoP!Percorrida, Diagram!Aciclico, DesenhoP!Aciclico, Diagram!RelacaoDesce,
         DesenhoP!RelacaoDesce, Diagram!Cardinality, DesenhoP!Cardinality
  <1>3. DesenhoP!CabeNoDesenho => Diagram!CabeNoDesenho
    BY DEF
         Diagram!NenhumaRaiz, DesenhoP!NenhumaRaiz, Diagram!LARGURA_DO_NO,
         DesenhoP!LARGURA_DO_NO, Diagram!ESPACO_ENTRE_NIVEIS, DesenhoP!ESPACO_ENTRE_NIVEIS,
         Diagram!ESPACO_ENTRE_NOS, DesenhoP!ESPACO_ENTRE_NOS, Diagram!MARGEM, DesenhoP!MARGEM,
         Diagram!RAIO_DA_ALCA, DesenhoP!RAIO_DA_ALCA, Diagram!DESVIO_LATERAL,
         DesenhoP!DESVIO_LATERAL, Diagram!SALTOS_MINIMOS, DesenhoP!SALTOS_MINIMOS,
         Diagram!SALTOS_MAXIMOS, DesenhoP!SALTOS_MAXIMOS, Diagram!Menor, DesenhoP!Menor,
         Diagram!Maior, DesenhoP!Maior, Diagram!Saltos, DesenhoP!Saltos, Diagram!Raiz,
         DesenhoP!Raiz, Diagram!DoEsquema, DesenhoP!DoEsquema, Diagram!Ligadas,
         DesenhoP!Ligadas, Diagram!Onda, DesenhoP!Onda, Diagram!Visiveis, DesenhoP!Visiveis,
         Diagram!Relacoes, DesenhoP!Relacoes, Diagram!ComRelacao, DesenhoP!ComRelacao,
         Diagram!Desenhadas, DesenhoP!Desenhadas, Diagram!Empilhados, DesenhoP!Empilhados,
         Diagram!Fim, DesenhoP!Fim, Diagram!Percorrida, DesenhoP!Percorrida, Diagram!Desenhado,
         DesenhoP!Desenhado, Diagram!Direita, DesenhoP!Direita, Diagram!MeiaAltura,
         DesenhoP!MeiaAltura, Diagram!Pontos, DesenhoP!Pontos, Diagram!Niveis, DesenhoP!Niveis,
         Diagram!Largura, DesenhoP!Largura, Diagram!Altura, DesenhoP!Altura,
         Diagram!CabeNoDesenho, DesenhoP!CabeNoDesenho, Diagram!Cardinality,
         DesenhoP!Cardinality
  <1>4. DesenhoP!VizinhancaExata => Diagram!VizinhancaExata
    BY DEF
         Diagram!NenhumaRaiz, DesenhoP!NenhumaRaiz, Diagram!SALTOS_MINIMOS,
         DesenhoP!SALTOS_MINIMOS, Diagram!SALTOS_MAXIMOS, DesenhoP!SALTOS_MAXIMOS,
         Diagram!Menor, DesenhoP!Menor, Diagram!Maior, DesenhoP!Maior, Diagram!Saltos,
         DesenhoP!Saltos, Diagram!Raiz, DesenhoP!Raiz, Diagram!DoEsquema, DesenhoP!DoEsquema,
         Diagram!Ligadas, DesenhoP!Ligadas, Diagram!Onda, DesenhoP!Onda, Diagram!Visiveis,
         DesenhoP!Visiveis, Diagram!Relacoes, DesenhoP!Relacoes, Diagram!ComRelacao,
         DesenhoP!ComRelacao, Diagram!Desenhadas, DesenhoP!Desenhadas, Diagram!VizinhancaExata,
         DesenhoP!VizinhancaExata
  <1>. QED  BY <1>1, <1>2, <1>3, <1>4

-----------------------------------------------------------------------------
\* Whatever is on screen, a diagram drawn has no level missing, no relation that rises
\* without a cycle, no box or line out of place and the neighbourhood asked for (lib/erd.ts).
THEOREM DesenhoSempreCertoNaTela ==
  ASSUME ConstantesDasTelas
  PROVE  Spec => []DesenhoCerto
  <1>. DEFINE Inv == tela = "esquema" => DesenhoP!DesenhoInv
  <1>1. Init => Inv
    BY InicioDaTela, DesenhoMesmo, DesenhoP!DesenhoInicia DEF ConstantesDasTelas
  <1>2. Inv /\ [Next]_memoria => Inv'
    BY PassoDaTela, DesenhoMesmo, DesenhoP!DesenhoMantem DEF ConstantesDasTelas
  <1>3. Inv => DesenhoCerto
    <2>1. Diagram!ConstantesOk
      BY DEF ConstantesDasTelas
    <2>. QED  BY <2>1, DesenhoMesmo, DesenhoMesmasProvas, DesenhoP!DesenhoVale DEF DesenhoCerto
  <1>. QED  BY <1>1, <1>2, <1>3, PTL DEF Spec

-----------------------------------------------------------------------------
(* The inventory of the network.  m1 is the sites that exist, m2 the table, *)
(* m3 the list on screen, m8 the host of the form, m9 the form and m11 the  *)
(* saves in flight.                                                         *)

\* What the server keeps of the hosts, and what a save may change of one.
RedeBoa(r) == DOMAIN r \subseteq Ids /\ \A i \in DOMAIN r : r[i] \in Net!Linha
PatchBom(p) ==
  /\ DOMAIN p \subseteq Net!Campos
  /\ "site" \in DOMAIN p => p["site"] \in Sites \cup {Net!SemUnidade}
  /\ "tipo" \in DOMAIN p => p["tipo"] \in Tipos \cup {Net!Automatico}
  /\ "sala" \in DOMAIN p => p["sala"] \in Salas \cup {""}

\* The first of some identifiers is one of them.
LEMMA PrimeiroPertence ==
  ASSUME NEW S \in SUBSET Nat, S # {}
  PROVE  Net!Primeiro(S) \in S
  BY PrimeiroExiste DEF Net!Primeiro

\* The rows of no site at an address are handed over to the site that has none there, but
\* for those an admin keeps.
LEMMA AdotaFaz ==
  ASSUME NEW r, RedeBoa(r), NEW s \in Sites \cup {Net!SemUnidade}, NEW ip \in Ips
  PROVE  /\ RedeBoa(Net!Adota(r, s, ip)) /\ DOMAIN Net!Adota(r, s, ip) = DOMAIN r
         /\ \A i \in DOMAIN r :
              /\ Net!Adota(r, s, ip)[i].ip = r[i].ip
              /\ Net!Adota(r, s, ip)[i].siteTravado = r[i].siteTravado
              /\ \/ Net!Adota(r, s, ip)[i].site = r[i].site
                 \/ r[i].ip = ip /\ Net!Adota(r, s, ip)[i].site = s
  <1>1. CASE s = Net!SemUnidade \/ \E i \in DOMAIN r : Net!Chave(r[i]) = <<s, ip>>
    BY <1>1 DEF Net!Adota
  <1>2. CASE ~(s = Net!SemUnidade \/ \E i \in DOMAIN r : Net!Chave(r[i]) = <<s, ip>>)
    <2>. DEFINE a == [i \in DOMAIN r |->
                        IF Net!Chave(r[i]) = <<Net!SemUnidade, ip>> /\ ~r[i].siteTravado
                        THEN [r[i] EXCEPT !.site = s] ELSE r[i]]
    <2>1. Net!Adota(r, s, ip) = a
      BY <1>2 DEF Net!Adota
    <2>2. ASSUME NEW i \in DOMAIN r
          PROVE  /\ a[i] \in Net!Linha /\ a[i].ip = r[i].ip /\ a[i].siteTravado = r[i].siteTravado
                 /\ a[i].site = r[i].site \/ (r[i].ip = ip /\ a[i].site = s)
      <3>1. r[i] \in Net!Linha
        BY DEF RedeBoa
      <3>2. CASE Net!Chave(r[i]) = <<Net!SemUnidade, ip>> /\ ~r[i].siteTravado
        <4>1. a[i] = [r[i] EXCEPT !.site = s] /\ r[i].ip = ip
          BY <3>2 DEF Net!Chave
        <4>. HIDE DEF a
        <4>. QED  BY <3>1, <4>1 DEF Net!Linha, Net!Digitado
      <3>3. CASE ~(Net!Chave(r[i]) = <<Net!SemUnidade, ip>> /\ ~r[i].siteTravado)
        <4>1. a[i] = r[i]
          BY <3>3
        <4>. HIDE DEF a
        <4>. QED  BY <3>1, <4>1
      <3>. QED  BY <3>2, <3>3
    <2>3. DOMAIN a = DOMAIN r
      OBVIOUS
    <2>. HIDE DEF a
    <2>. QED  BY <2>1, <2>2, <2>3 DEF RedeBoa
  <1>. QED  BY <1>1, <1>2

\* Rows handed over fall on no row of the site: there is none, or nothing is handed over.
LEMMA AdotaUnica ==
  ASSUME NEW r, RedeBoa(r), Net!ChavesUnicas(r), NEW s \in Sites \cup {Net!SemUnidade}, NEW ip \in Ips
  PROVE  Net!ChavesUnicas(Net!Adota(r, s, ip))
  <1>1. CASE s = Net!SemUnidade \/ \E i \in DOMAIN r : Net!Chave(r[i]) = <<s, ip>>
    BY <1>1 DEF Net!Adota
  <1>2. CASE ~(s = Net!SemUnidade \/ \E i \in DOMAIN r : Net!Chave(r[i]) = <<s, ip>>)
    <2>. DEFINE Solta(i) == Net!Chave(r[i]) = <<Net!SemUnidade, ip>> /\ ~r[i].siteTravado
                a == [i \in DOMAIN r |-> IF Solta(i) THEN [r[i] EXCEPT !.site = s] ELSE r[i]]
    <2>1. Net!Adota(r, s, ip) = a
      BY <1>2 DEF Net!Adota
    <2>2. ASSUME NEW i \in DOMAIN r
          PROVE  Net!Chave(a[i]) = IF Solta(i) THEN <<s, ip>> ELSE Net!Chave(r[i])
      <3>1. r[i] \in Net!Linha
        BY DEF RedeBoa
      <3>2. CASE Solta(i)
        <4>1. a[i] = [r[i] EXCEPT !.site = s] /\ r[i].ip = ip
          BY <3>2 DEF Net!Chave
        <4>2. [r[i] EXCEPT !.site = s].site = s /\ [r[i] EXCEPT !.site = s].ip = r[i].ip
          BY <3>1 DEF Net!Linha
        <4>. HIDE DEF a
        <4>3. a[i].site = s /\ a[i].ip = ip
          BY <4>1, <4>2, Zenon
        <4>. QED  BY <3>2, <4>3 DEF Net!Chave
      <3>3. CASE ~Solta(i)
        BY <3>3
      <3>. QED  BY <3>2, <3>3
    <2>3. DOMAIN a = DOMAIN r
      OBVIOUS
    <2>4. \A i \in DOMAIN r : Solta(i) => Net!Chave(r[i]) = <<Net!SemUnidade, ip>>
      OBVIOUS
    <2>5. \A i \in DOMAIN r : Net!Chave(r[i]) # <<s, ip>>
      BY <1>2
    <2>. HIDE DEF a, Solta
    <2>6. ASSUME NEW i \in DOMAIN r, NEW j \in DOMAIN r, Net!Chave(a[i]) = Net!Chave(a[j])
          PROVE  i = j
      <3>1. CASE Solta(i) /\ Solta(j)
        <4>1. Net!Chave(r[i]) = Net!Chave(r[j])
          BY <2>4, <3>1
        <4>. QED  BY <4>1 DEF Net!ChavesUnicas
      <3>2. CASE ~Solta(i) /\ ~Solta(j)
        <4>1. Net!Chave(r[i]) = Net!Chave(r[j])
          BY <2>2, <2>6, <3>2
        <4>. QED  BY <4>1 DEF Net!ChavesUnicas
      <3>3. CASE Solta(i) /\ ~Solta(j)
        BY <2>2, <2>5, <2>6, <3>3
      <3>4. CASE ~Solta(i) /\ Solta(j)
        BY <2>2, <2>5, <2>6, <3>4
      <3>. QED  BY <3>1, <3>2, <3>3, <3>4
    <2>. QED  BY <2>1, <2>3, <2>6 DEF Net!ChavesUnicas
  <1>. QED  BY <1>1, <1>2

\* A row is added under an identifier of the table and the others stay.
LEMMA AcrescentaTipo ==
  ASSUME Net!ConstantesOk, NEW r, RedeBoa(r), NEW l \in Net!Linha, Ids \ DOMAIN r # {}
  PROVE  RedeBoa(Net!Acrescenta(r, l))
  <1>. DEFINE n == Net!Primeiro(Ids \ DOMAIN r)
  <1>1. n \in Ids
    BY PrimeiroPertence DEF Net!ConstantesOk
  <1>. HIDE DEF n
  <1>2. Net!Acrescenta(r, l) = [k \in DOMAIN r \cup {n} |-> IF k = n THEN l ELSE r[k]]
    BY DEF n, Net!Acrescenta
  <1>. QED  BY <1>1, <1>2 DEF RedeBoa

\* A row is added where there is none of its key.
LEMMA AcrescentaUnica ==
  ASSUME NEW r, Net!ChavesUnicas(r), NEW l, \A i \in DOMAIN r : Net!Chave(r[i]) # Net!Chave(l)
  PROVE  Net!ChavesUnicas(Net!Acrescenta(r, l))
  <1>. DEFINE n == Net!Primeiro(Ids \ DOMAIN r)
              a == [k \in DOMAIN r \cup {n} |-> IF k = n THEN l ELSE r[k]]
  <1>1. Net!Acrescenta(r, l) = a
    BY DEF Net!Acrescenta
  <1>2. DOMAIN a = DOMAIN r \cup {n} /\ a[n] = l /\ \A k \in DOMAIN r : k # n => a[k] = r[k]
    OBVIOUS
  <1>. HIDE DEF a, n
  <1>3. ASSUME NEW i \in DOMAIN a, NEW j \in DOMAIN a, Net!Chave(a[i]) = Net!Chave(a[j])
        PROVE  i = j
    <2>1. CASE i = n \/ j = n
      BY <1>2, <1>3, <2>1
    <2>2. CASE i # n /\ j # n
      BY <1>2, <1>3, <2>2 DEF Net!ChavesUnicas
    <2>. QED  BY <2>1, <2>2
  <1>. QED  BY <1>1, <1>3 DEF Net!ChavesUnicas

\* Rows that keep their keys keep them apart.
LEMMA ChavesFicam ==
  ASSUME NEW r, NEW q, Net!ChavesUnicas(r), DOMAIN q \subseteq DOMAIN r,
         \A i \in DOMAIN q : Net!Chave(q[i]) = Net!Chave(r[i])
  PROVE  Net!ChavesUnicas(q)
  BY DEF Net!ChavesUnicas

\* A save of a field changes that field and no other.
LEMMA AplicaFaz ==
  ASSUME NEW l \in Net!Linha, NEW p, PatchBom(p), NEW ps \in Tipos \cup {Net!Desconhecido}
  PROVE  /\ Net!Aplica(l, p, ps) \in Net!Linha /\ Net!Aplica(l, p, ps).ip = l.ip
         /\ "site" \notin DOMAIN p => /\ Net!Aplica(l, p, ps).site = l.site
                                      /\ Net!Aplica(l, p, ps).siteTravado = l.siteTravado
         /\ "site" \in DOMAIN p => Net!Aplica(l, p, ps).site = p["site"]
         /\ "tipo" \notin DOMAIN p => /\ Net!Aplica(l, p, ps).tipo = l.tipo
                                      /\ Net!Aplica(l, p, ps).tipoTravado = l.tipoTravado
         /\ "sala" \notin DOMAIN p => Net!Aplica(l, p, ps).sala = l.sala
  <1>. DEFINE a == IF "site" \notin DOMAIN p THEN l
                   ELSE [l EXCEPT !.site = p["site"], !.siteTravado = p["site"] # Net!SemUnidade]
              b == IF "tipo" \notin DOMAIN p THEN a
                   ELSE IF p["tipo"] = Net!Automatico
                   THEN [a EXCEPT !.tipo = ps, !.tipoTravado = FALSE]
                   ELSE [a EXCEPT !.tipo = p["tipo"], !.tipoTravado = TRUE]
              c == IF "sala" \notin DOMAIN p THEN b ELSE [b EXCEPT !.sala = p["sala"]]
  <1>1. Net!Aplica(l, p, ps) = c
    BY DEF Net!Aplica
  <1>2. /\ a \in Net!Linha /\ a.ip = l.ip /\ a.tipo = l.tipo /\ a.tipoTravado = l.tipoTravado
        /\ a.sala = l.sala
        /\ "site" \notin DOMAIN p => a = l
        /\ "site" \in DOMAIN p => a.site = p["site"]
    <2>1. CASE "site" \in DOMAIN p
      <3>1. p["site"] \in Sites \cup {Net!SemUnidade}
        BY <2>1 DEF PatchBom
      <3>2. (p["site"] # Net!SemUnidade) \in BOOLEAN
        OBVIOUS
      <3>3. a = [l EXCEPT !.site = p["site"], !.siteTravado = p["site"] # Net!SemUnidade]
        BY <2>1
      <3>. HIDE DEF a
      <3>. QED  BY <2>1, <3>1, <3>2, <3>3 DEF Net!Linha, Net!Digitado
    <2>2. CASE "site" \notin DOMAIN p
      BY <2>2
    <2>. QED  BY <2>1, <2>2
  <1>. HIDE DEF a
  <1>3. /\ b \in Net!Linha /\ b.ip = a.ip /\ b.site = a.site /\ b.siteTravado = a.siteTravado
        /\ b.sala = a.sala
        /\ "tipo" \notin DOMAIN p => b = a
    <2>1. CASE "tipo" \in DOMAIN p /\ p["tipo"] = Net!Automatico
      <3>1. b = [a EXCEPT !.tipo = ps, !.tipoTravado = FALSE]
        BY <2>1
      <3>. HIDE DEF b
      <3>. QED  BY <1>2, <2>1, <3>1 DEF Net!Linha, Net!Digitado
    <2>2. CASE "tipo" \in DOMAIN p /\ p["tipo"] # Net!Automatico
      <3>1. b = [a EXCEPT !.tipo = p["tipo"], !.tipoTravado = TRUE] /\ p["tipo"] \in Tipos
        BY <2>2 DEF PatchBom
      <3>. HIDE DEF b
      <3>. QED  BY <1>2, <2>2, <3>1 DEF Net!Linha, Net!Digitado
    <2>3. CASE "tipo" \notin DOMAIN p
      BY <1>2, <2>3
    <2>. QED  BY <2>1, <2>2, <2>3
  <1>. HIDE DEF b
  <1>4. /\ c \in Net!Linha /\ c.ip = b.ip /\ c.site = b.site /\ c.siteTravado = b.siteTravado
        /\ c.tipo = b.tipo /\ c.tipoTravado = b.tipoTravado
        /\ "sala" \notin DOMAIN p => c = b
    BY <1>3 DEF PatchBom, Net!Linha, Net!Digitado
  <1>. HIDE DEF c
  <1>. QED  BY <1>1, <1>2, <1>3, <1>4

\* The rows a save writes are those of the address.
LEMMA GravadasFaz ==
  ASSUME NEW r, RedeBoa(r), NEW ip \in Ips, NEW p, PatchBom(p),
         NEW ps \in Tipos \cup {Net!Desconhecido}
  PROVE  /\ RedeBoa(Net!Gravadas(r, ip, p, ps)) /\ DOMAIN Net!Gravadas(r, ip, p, ps) = DOMAIN r
         /\ \A i \in DOMAIN r :
              /\ "site" \notin DOMAIN p =>
                   /\ Net!Chave(Net!Gravadas(r, ip, p, ps)[i]) = Net!Chave(r[i])
                   /\ Net!Gravadas(r, ip, p, ps)[i].site = r[i].site
                   /\ Net!Gravadas(r, ip, p, ps)[i].siteTravado = r[i].siteTravado
              /\ "tipo" \notin DOMAIN p =>
                   /\ Net!Gravadas(r, ip, p, ps)[i].tipo = r[i].tipo
                   /\ Net!Gravadas(r, ip, p, ps)[i].tipoTravado = r[i].tipoTravado
              /\ "sala" \notin DOMAIN p => Net!Gravadas(r, ip, p, ps)[i].sala = r[i].sala
  <1>. DEFINE G == Net!Gravadas(r, ip, p, ps)
  <1>1. G = [i \in DOMAIN r |-> IF r[i].ip = ip THEN Net!Aplica(r[i], p, ps) ELSE r[i]]
    BY DEF Net!Gravadas
  <1>. HIDE DEF G
  <1>2. ASSUME NEW i \in DOMAIN r
        PROVE  /\ G[i] \in Net!Linha /\ G[i].ip = r[i].ip
               /\ "site" \notin DOMAIN p => /\ G[i].site = r[i].site
                                            /\ G[i].siteTravado = r[i].siteTravado
               /\ "tipo" \notin DOMAIN p => /\ G[i].tipo = r[i].tipo
                                            /\ G[i].tipoTravado = r[i].tipoTravado
               /\ "sala" \notin DOMAIN p => G[i].sala = r[i].sala
    <2>1. r[i] \in Net!Linha
      BY DEF RedeBoa
    <2>2. CASE r[i].ip = ip
      <3>1. G[i] = Net!Aplica(r[i], p, ps)
        BY <1>1, <2>2
      <3>. QED  BY <2>1, <3>1, AplicaFaz
    <2>3. CASE r[i].ip # ip
      <3>1. G[i] = r[i]
        BY <1>1, <2>3
      <3>. QED  BY <2>1, <3>1
    <2>. QED  BY <2>2, <2>3
  <1>3. DOMAIN G = DOMAIN r
    BY <1>1
  <1>4. RedeBoa(G)
    BY <1>2, <1>3 DEF RedeBoa
  <1>5. \A i \in DOMAIN r : "site" \notin DOMAIN p => Net!Chave(G[i]) = Net!Chave(r[i])
    BY <1>2 DEF Net!Chave
  <1>. QED  BY <1>2, <1>3, <1>4, <1>5 DEF G

\* The ports of the first row of an address.
LEMMA PortasDoPrimeiro ==
  ASSUME Net!ConstantesOk, NEW r, RedeBoa(r), NEW ip \in Ips, Net!DoIp(r, ip) # {}
  PROVE  /\ Net!Primeiro(Net!DoIp(r, ip)) \in DOMAIN r
         /\ r[Net!Primeiro(Net!DoIp(r, ip))].portas \in Tipos \cup {Net!Desconhecido}
  <1>1. Net!DoIp(r, ip) \subseteq Nat /\ Net!DoIp(r, ip) \subseteq DOMAIN r
    BY DEF Net!ConstantesOk, RedeBoa, Net!DoIp
  <1>2. Net!Primeiro(Net!DoIp(r, ip)) \in DOMAIN r
    BY <1>1, PrimeiroPertence
  <1>. QED  BY <1>2 DEF RedeBoa, Net!Linha, Net!Digitado

\* What a scan, the telemetry, the oblivion or an operator elsewhere leaves.
LEMMA ServidorTipo ==
  ASSUME Net!TypeOK, RedeBoa(m2'), m1' \subseteq Sites, m13' \in 0..MaxAcoesNaRede,
         UNCHANGED <<m3, m4, m5, m6, m7, m8, m9, m10, m11, m12>>
  PROVE  Net!TypeOK'
  BY DEF Net!TypeOK, RedeBoa

LEMMA AcoesContadas ==
  ASSUME Net!ConstantesOk, Net!TypeOK, Net!Age
  PROVE  m13' \in 0..MaxAcoesNaRede
  BY DEF Net!ConstantesOk, Net!TypeOK, Net!Age

\* A row just found.
LEMMA NovaTipo ==
  ASSUME NEW s \in Sites \cup {Net!SemUnidade}, NEW ip \in Ips, NEW ps \in Tipos \cup {Net!Desconhecido},
         NEW t \in Tipos \cup {Net!Automatico, Net!Desconhecido}, NEW snmp \in BOOLEAN
  PROVE  /\ Net!Nova(s, ip, ps, t, snmp) \in Net!Linha
         /\ Net!Chave(Net!Nova(s, ip, ps, t, snmp)) = <<s, ip>>
  BY DEF Net!Nova, Net!Linha, Net!Digitado, Net!Chave

\* A row seen again keeps its key.
LEMMA VistaFaz ==
  ASSUME NEW l \in Net!Linha, NEW ps \in Tipos
  PROVE  /\ Net!Vista(l, ps) \in Net!Linha /\ Net!Vista(l, ps).ip = l.ip
         /\ Net!Vista(l, ps).site = l.site /\ Net!Vista(l, ps).siteTravado = l.siteTravado
  <1>. DEFINE t == IF l.tipoTravado THEN l.tipo ELSE ps
  <1>1. t \in Tipos \cup {Net!Automatico, Net!Desconhecido} /\ (l.tipoTravado => t \in Tipos)
    BY DEF Net!Linha, Net!Digitado
  <1>2. Net!Vista(l, ps) = [l EXCEPT !.online = TRUE, !.portas = ps, !.tipo = t]
    BY DEF Net!Vista, Net!Linha, Net!Digitado
  <1>. HIDE DEF t
  <1>. QED  BY <1>1, <1>2 DEF Net!Linha, Net!Digitado

LEMMA AdotaTipo ==
  ASSUME Net!TypeOK, Net!UmaLinhaPorChave, NEW s \in Sites, NEW ip \in Ips,
         Net!AdotaSemUnidade(s, ip)
  PROVE  /\ RedeBoa(m2') /\ Net!ChavesUnicas(m2') /\ Net!Age
         /\ UNCHANGED <<m1, m3, m4, m5, m6, m7, m8, m9, m10, m11, m12>>
  <1>1. RedeBoa(m2) /\ Net!ChavesUnicas(m2)
    BY DEF Net!TypeOK, RedeBoa, Net!UmaLinhaPorChave
  <1>2. m2' = Net!Adota(m2, s, ip) /\ Net!Age /\ UNCHANGED <<m1, m3, m4, m5, m6, m7, m8, m9, m10, m11, m12>>
    BY DEF Net!AdotaSemUnidade
  <1>. QED  BY <1>1, <1>2, AdotaFaz, AdotaUnica

\* A scan writes the row of its key, or adds it where there is none.
LEMMA VarreTipo ==
  ASSUME Net!ConstantesOk, Net!TypeOK, Net!UmaLinhaPorChave,
         NEW s \in Sites \cup {Net!SemUnidade}, NEW ip \in Ips, NEW ps \in Tipos, Net!Varre(s, ip, ps)
  PROVE  /\ RedeBoa(m2') /\ Net!ChavesUnicas(m2') /\ Net!Age
         /\ UNCHANGED <<m1, m3, m4, m5, m6, m7, m8, m9, m10, m11, m12>>
  <1>. DEFINE mesmas == Net!DaChave(s, ip)
              l == Net!Nova(s, ip, ps, ps, FALSE)
  <1>1. RedeBoa(m2) /\ Net!ChavesUnicas(m2)
    BY DEF Net!TypeOK, RedeBoa, Net!UmaLinhaPorChave
  <1>2. /\ mesmas = {} => Ids \ DOMAIN m2 # {}
        /\ m2' = IF mesmas = {} THEN Net!Acrescenta(m2, l)
                 ELSE [i \in DOMAIN m2 |-> IF i \in mesmas THEN Net!Vista(m2[i], ps) ELSE m2[i]]
        /\ Net!Age /\ UNCHANGED <<m1, m3, m4, m5, m6, m7, m8, m9, m10, m11, m12>>
    BY DEF Net!Varre
  <1>3. CASE mesmas = {}
    <2>1. m2' = Net!Acrescenta(m2, l) /\ Ids \ DOMAIN m2 # {}
      BY <1>2, <1>3
    <2>2. l \in Net!Linha /\ Net!Chave(l) = <<s, ip>>
      BY NovaTipo
    <2>3. \A i \in DOMAIN m2 : Net!Chave(m2[i]) # Net!Chave(l)
      BY <1>3, <2>2 DEF Net!DaChave
    <2>. HIDE DEF mesmas, l
    <2>. QED  BY <1>1, <1>2, <2>1, <2>2, <2>3, AcrescentaTipo, AcrescentaUnica
  <1>4. CASE mesmas # {}
    <2>1. m2' = [i \in DOMAIN m2 |-> IF i \in mesmas THEN Net!Vista(m2[i], ps) ELSE m2[i]]
      BY <1>2, <1>4
    <2>2. \A i \in DOMAIN m2 : /\ m2[i] \in Net!Linha /\ Net!Vista(m2[i], ps) \in Net!Linha
                                /\ Net!Chave(Net!Vista(m2[i], ps)) = Net!Chave(m2[i])
      BY <1>1, VistaFaz DEF RedeBoa, Net!Chave
    <2>. HIDE DEF mesmas, l
    <2>3. \A i \in DOMAIN m2 : m2'[i] \in Net!Linha /\ Net!Chave(m2'[i]) = Net!Chave(m2[i])
      BY <2>1, <2>2
    <2>4. DOMAIN m2' = DOMAIN m2
      BY <2>1
    <2>5. RedeBoa(m2')
      BY <1>1, <2>3, <2>4 DEF RedeBoa
    <2>6. Net!ChavesUnicas(m2')
      BY <1>1, <2>3, <2>4, ChavesFicam
    <2>. QED  BY <1>2, <2>5, <2>6
  <1>. QED  BY <1>3, <1>4

LEMMA TelemetriaTipo ==
  ASSUME Net!ConstantesOk, Net!TypeOK, Net!UmaLinhaPorChave, NEW s \in Sites, NEW ip \in Ips,
         NEW b \in BOOLEAN, Net!Telemetria(s, ip, b)
  PROVE  /\ RedeBoa(m2') /\ Net!ChavesUnicas(m2') /\ Net!Age
         /\ UNCHANGED <<m1, m3, m4, m5, m6, m7, m8, m9, m10, m11, m12>>
  <1>. DEFINE mesmas == Net!DaChave(s, ip)
              l == Net!Nova(s, ip, Net!Desconhecido, Net!Automatico, TRUE)
              T(x) == [x EXCEPT !.snmp = TRUE, !.online = b \/ x.online]
  <1>1. RedeBoa(m2) /\ Net!ChavesUnicas(m2)
    BY DEF Net!TypeOK, RedeBoa, Net!UmaLinhaPorChave
  <1>2. /\ mesmas = {} => Ids \ DOMAIN m2 # {}
        /\ m2' = IF mesmas = {} THEN Net!Acrescenta(m2, l)
                 ELSE [i \in DOMAIN m2 |-> IF i \in mesmas THEN T(m2[i]) ELSE m2[i]]
        /\ Net!Age /\ UNCHANGED <<m1, m3, m4, m5, m6, m7, m8, m9, m10, m11, m12>>
    BY DEF Net!Telemetria
  <1>3. ASSUME NEW x \in Net!Linha PROVE T(x) \in Net!Linha /\ Net!Chave(T(x)) = Net!Chave(x)
    <2>1. (b \/ x.online) \in BOOLEAN
      BY DEF Net!Linha, Net!Digitado
    <2>. QED  BY <2>1 DEF Net!Linha, Net!Digitado, Net!Chave
  <1>. HIDE DEF T
  <1>4. CASE mesmas = {}
    <2>1. m2' = Net!Acrescenta(m2, l) /\ Ids \ DOMAIN m2 # {}
      BY <1>2, <1>4
    <2>2. l \in Net!Linha /\ Net!Chave(l) = <<s, ip>>
      BY NovaTipo
    <2>3. \A i \in DOMAIN m2 : Net!Chave(m2[i]) # Net!Chave(l)
      BY <1>4, <2>2 DEF Net!DaChave
    <2>. HIDE DEF mesmas, l
    <2>. QED  BY <1>1, <1>2, <2>1, <2>2, <2>3, AcrescentaTipo, AcrescentaUnica
  <1>5. CASE mesmas # {}
    <2>1. m2' = [i \in DOMAIN m2 |-> IF i \in mesmas THEN T(m2[i]) ELSE m2[i]]
      BY <1>2, <1>5
    <2>2. \A i \in DOMAIN m2 : m2[i] \in Net!Linha
      BY <1>1 DEF RedeBoa
    <2>. HIDE DEF mesmas, l
    <2>3. \A i \in DOMAIN m2 : m2'[i] \in Net!Linha /\ Net!Chave(m2'[i]) = Net!Chave(m2[i])
      BY <1>3, <2>1, <2>2
    <2>4. DOMAIN m2' = DOMAIN m2
      BY <2>1
    <2>5. RedeBoa(m2')
      BY <1>1, <2>3, <2>4 DEF RedeBoa
    <2>6. Net!ChavesUnicas(m2')
      BY <1>1, <2>3, <2>4, ChavesFicam
    <2>. QED  BY <1>2, <2>5, <2>6
  <1>. QED  BY <1>4, <1>5

LEMMA EsquecimentoTipo ==
  ASSUME Net!TypeOK, Net!UmaLinhaPorChave, NEW i \in Ids, Net!Some(i) \/ Net!Poda(i)
  PROVE  /\ RedeBoa(m2') /\ Net!ChavesUnicas(m2') /\ Net!Age
         /\ UNCHANGED <<m1, m3, m4, m5, m6, m7, m8, m9, m10, m11, m12>>
  <1>1. RedeBoa(m2) /\ Net!ChavesUnicas(m2)
    BY DEF Net!TypeOK, RedeBoa, Net!UmaLinhaPorChave
  <1>2. CASE Net!Some(i)
    <2>1. m2' = [m2 EXCEPT ![i].online = FALSE] /\ i \in DOMAIN m2
      BY <1>2 DEF Net!Some
    <2>2. /\ [m2[i] EXCEPT !.online = FALSE] \in Net!Linha
          /\ Net!Chave([m2[i] EXCEPT !.online = FALSE]) = Net!Chave(m2[i])
      BY <1>1, <2>1 DEF RedeBoa, Net!Linha, Net!Digitado, Net!Chave
    <2>3. \A k \in DOMAIN m2 : m2'[k] = IF k = i THEN [m2[i] EXCEPT !.online = FALSE] ELSE m2[k]
      BY <2>1
    <2>4. DOMAIN m2' = DOMAIN m2
      BY <2>1
    <2>5. RedeBoa(m2')
      BY <1>1, <2>2, <2>3, <2>4 DEF RedeBoa
    <2>6. Net!ChavesUnicas(m2')
      BY <1>1, <2>2, <2>3, <2>4, ChavesFicam
    <2>. QED  BY <1>2, <2>5, <2>6 DEF Net!Some
  <1>3. CASE Net!Poda(i)
    <2>1. m2' = [k \in DOMAIN m2 \ {i} |-> m2[k]]
      BY <1>3 DEF Net!Poda
    <2>2. RedeBoa(m2')
      BY <1>1, <2>1 DEF RedeBoa
    <2>3. Net!ChavesUnicas(m2')
      BY <1>1, <2>1, ChavesFicam
    <2>. QED  BY <1>3, <2>2, <2>3 DEF Net!Poda
  <1>. QED  BY <1>2, <1>3

LEMMA RemoveUnidadeTipo ==
  ASSUME Net!TypeOK, NEW s \in Sites, Net!RemoveUnidade(s)
  PROVE  /\ RedeBoa(m2') /\ Net!ChavesUnicas(m2') /\ Net!Age /\ m1' \subseteq m1
         /\ UNCHANGED <<m3, m4, m5, m6, m7, m8, m9, m10, m11, m12>>
  <1>1. RedeBoa(m2)
    BY DEF Net!TypeOK, RedeBoa
  <1>2. m2' = [i \in DOMAIN m2 |-> IF m2[i].site = s THEN [m2[i] EXCEPT !.site = Net!SemUnidade]
                                   ELSE m2[i]]
    BY DEF Net!RemoveUnidade
  <1>3. ASSUME NEW i \in DOMAIN m2 PROVE m2'[i] \in Net!Linha
    <2>1. m2[i] \in Net!Linha
      BY <1>1 DEF RedeBoa
    <2>2. [m2[i] EXCEPT !.site = Net!SemUnidade] \in Net!Linha
      BY <2>1 DEF Net!Linha, Net!Digitado
    <2>. QED  BY <1>2, <2>1, <2>2
  <1>4. RedeBoa(m2')
    BY <1>1, <1>2, <1>3 DEF RedeBoa
  <1>5. Net!ChavesUnicas(m2')
    BY <1>2 DEF Net!RemoveUnidade
  <1>. QED  BY <1>4, <1>5 DEF Net!RemoveUnidade

\* Another operator saves the room or the type.
LEMMA EditaAlheioTipo ==
  ASSUME Net!ConstantesOk, Net!TypeOK, NEW ip \in Ips, NEW c, NEW x, Net!EditaAlheio(ip, c, x),
         (c = "sala" /\ x \in Salas) \/ (c = "tipo" /\ x \in Tipos)
  PROVE  /\ RedeBoa(m2') /\ Net!ChavesUnicas(m2') /\ Net!Age
         /\ UNCHANGED <<m1, m3, m4, m5, m6, m7, m8, m9, m10, m11, m12>>
  <1>. DEFINE p == [k \in {c} |-> x]
              ps == m2[Net!Primeiro(Net!DoIp(m2, ip))].portas
  <1>1. RedeBoa(m2)
    BY DEF Net!TypeOK, RedeBoa
  <1>2. PatchBom(p)
    BY DEF PatchBom, Net!Campos
  <1>3. /\ Net!DoIp(m2, ip) # {} /\ m2' = Net!Gravadas(m2, ip, p, ps)
        /\ Net!ChavesUnicas(Net!Gravadas(m2, ip, p, ps)) /\ Net!Age
        /\ UNCHANGED <<m1, m3, m4, m5, m6, m7, m8, m9, m10, m11, m12>>
    BY DEF Net!EditaAlheio, Net!Aceita, Net!Cabe
  <1>4. ps \in Tipos \cup {Net!Desconhecido}
    BY <1>1, <1>3, PortasDoPrimeiro
  <1>. HIDE DEF p, ps
  <1>. QED  BY <1>1, <1>2, <1>3, <1>4, GravadasFaz

-----------------------------------------------------------------------------
\* What the view holds of a save, by how far it went.
LEMMA PedidoForma ==
  ASSUME NEW p \in Net!Pedidos
  PROVE  /\ p.tipo \in {"livre", "falhou", "gravado", "grava", "lido", "escrito"}
         /\ p.tipo = "livre" => p = Net!Livre
         /\ p.tipo \in {"grava", "lido"} => /\ p.id \in Ids /\ p.ip \in Ips /\ p.inicial \in Net!Form
                                            /\ p.form \in Net!Form /\ p.desta \in BOOLEAN
         /\ p.tipo = "lido" => p.portas \in Tipos \cup {Net!Desconhecido}
         /\ p.tipo = "escrito" => p.ip \in Ips /\ p.desta \in BOOLEAN
         /\ p.tipo = "gravado" => p.host \in Net!Hospedeiro /\ p.desta \in BOOLEAN
         /\ p # Net!Livre => p.desta \in BOOLEAN /\ [p EXCEPT !.desta = FALSE] \in Net!Pedidos
  <1>1. CASE p = Net!Livre
    BY <1>1 DEF Net!Livre
  <1>2. CASE p \in [tipo : {"falhou"}, desta : BOOLEAN]
    <2>1. [p EXCEPT !.desta = FALSE] \in [tipo : {"falhou"}, desta : BOOLEAN]
      BY <1>2
    <2>. QED  BY <1>2, <2>1 DEF Net!Pedidos
  <1>3. CASE p \in [tipo : {"gravado"}, desta : BOOLEAN, host : Net!Hospedeiro]
    <2>1. [p EXCEPT !.desta = FALSE] \in [tipo : {"gravado"}, desta : BOOLEAN, host : Net!Hospedeiro]
      BY <1>3
    <2>. QED  BY <1>3, <2>1 DEF Net!Pedidos
  <1>4. CASE p \in [tipo : {"grava"}, desta : BOOLEAN, id : Ids, ip : Ips, inicial : Net!Form,
                    form : Net!Form]
    <2>1. [p EXCEPT !.desta = FALSE] \in [tipo : {"grava"}, desta : BOOLEAN, id : Ids, ip : Ips,
                                          inicial : Net!Form, form : Net!Form]
      BY <1>4
    <2>. QED  BY <1>4, <2>1 DEF Net!Pedidos
  <1>5. CASE p \in [tipo : {"lido"}, desta : BOOLEAN, id : Ids, ip : Ips, inicial : Net!Form,
                    form : Net!Form, portas : Tipos \cup {Net!Desconhecido}]
    <2>1. [p EXCEPT !.desta = FALSE] \in [tipo : {"lido"}, desta : BOOLEAN, id : Ids, ip : Ips,
             inicial : Net!Form, form : Net!Form, portas : Tipos \cup {Net!Desconhecido}]
      BY <1>5
    <2>. QED  BY <1>5, <2>1 DEF Net!Pedidos
  <1>6. CASE p \in [tipo : {"escrito"}, desta : BOOLEAN, ip : Ips]
    <2>1. [p EXCEPT !.desta = FALSE] \in [tipo : {"escrito"}, desta : BOOLEAN, ip : Ips]
      BY <1>6
    <2>. QED  BY <1>6, <2>1 DEF Net!Pedidos
  <1>. QED  BY <1>1, <1>2, <1>3, <1>4, <1>5, <1>6 DEF Net!Pedidos

\* The form that closes abandons its saves, which remain what they are.
LEMMA AbandonaTipo ==
  ASSUME Net!TypeOK
  PROVE  /\ Net!Abandona \in [VagasDaRede -> Net!Pedidos]
         /\ \A w \in VagasDaRede : Net!Abandona[w].tipo = m11[w].tipo
  <1>1. ASSUME NEW w \in VagasDaRede
        PROVE  /\ (IF m11[w] = Net!Livre THEN Net!Livre ELSE [m11[w] EXCEPT !.desta = FALSE])
                    \in Net!Pedidos
               /\ (IF m11[w] = Net!Livre THEN Net!Livre ELSE [m11[w] EXCEPT !.desta = FALSE]).tipo
                    = m11[w].tipo
    <2>1. m11[w] \in Net!Pedidos
      BY DEF Net!TypeOK
    <2>2. CASE m11[w] = Net!Livre
      BY <2>1, <2>2
    <2>3. CASE m11[w] # Net!Livre
      <3>1. [m11[w] EXCEPT !.desta = FALSE].tipo = m11[w].tipo
        BY <2>1, <2>3 DEF Net!Pedidos
      <3>. QED  BY <2>1, <2>3, <3>1, PedidoForma
    <2>. QED  BY <2>2, <2>3
  <1>. QED  BY <1>1 DEF Net!Abandona

\* A host as it is read, and the form that opens on it.
LEMMA LidoTipo ==
  ASSUME NEW r, RedeBoa(r), NEW i \in DOMAIN r
  PROVE  Net!Lido(i, r) \in Net!Hospedeiro
  <1>1. i \in Ids /\ r[i] \in Net!Linha
    BY DEF RedeBoa
  <1>. QED  BY <1>1 DEF Net!Lido, Net!Linha, Net!Hospedeiro, Net!Digitado

LEMMA BuildFormTipo ==
  ASSUME NEW h \in Net!Hospedeiro
  PROVE  Net!BuildForm(h) \in Net!Form
  BY DEF Net!BuildForm, Net!Hospedeiro, Net!Digitado, Net!Form

-----------------------------------------------------------------------------
\* What the user does keeps the types; the table is the server's, so but for the save.
LEMMA RedeInicia ==
  ASSUME Net!ConstantesOk, Net!Init
  PROVE  Net!TypeOK
  <1>1. DOMAIN Net!SemQuadro = {}
    BY DEF Net!SemQuadro
  <1>2. m9 \in Net!Form /\ m11 \in [VagasDaRede -> Net!Pedidos] /\ m13 \in 0..MaxAcoesNaRede
    <2>1. Net!Livre \in Net!Pedidos
      BY DEF Net!Pedidos
    <2>2. m9 \in Net!Form
      BY DEF Net!Init, Net!Form
    <2>3. m11 \in [VagasDaRede -> Net!Pedidos]
      BY <2>1 DEF Net!Init
    <2>4. m13 = 0 /\ MaxAcoesNaRede \in Nat
      BY DEF Net!Init, Net!ConstantesOk
    <2>5. m13 \in 0..MaxAcoesNaRede
      BY <2>4
    <2>. QED  BY <2>2, <2>3, <2>5
  <1>. QED  BY <1>1, <1>2 DEF Net!Init, Net!TypeOK, Net!Filtros

LEMMA LeInventarioTipo ==
  ASSUME Net!TypeOK, Net!LeInventario
  PROVE  Net!TypeOK'
  <1>1. RedeBoa(m2)
    BY DEF Net!TypeOK, RedeBoa
  <1>2. DOMAIN m3' \subseteq Ids /\ \A i \in DOMAIN m3' : m3'[i] \in Net!Hospedeiro
    <2>1. m3' = [i \in {k \in DOMAIN m2 : m2[k].site \in Alcance} |-> Net!Lido(i, m2)]
      BY DEF Net!LeInventario
    <2>2. \A i \in DOMAIN m2 : Net!Lido(i, m2) \in Net!Hospedeiro
      BY <1>1, LidoTipo
    <2>. QED  BY <1>1, <2>1, <2>2 DEF RedeBoa
  <1>3. m7' \in {"resumo", "interfaces"}
    BY DEF Net!LeInventario, Net!AbaEm, Net!TypeOK
  <1>4. UNCHANGED <<m1, m2, m4, m5, m6, m8, m9, m10, m11, m12, m13>>
    BY DEF Net!LeInventario
  <1>. QED  BY <1>2, <1>3, <1>4 DEF Net!TypeOK

LEMMA EscolhasTipo ==
  ASSUME Net!ConstantesOk, Net!TypeOK,
         \/ Net!FechaDetalhe
         \/ \E u \in Sites \cup {Net!SemUnidade} : Net!EscolheUnidade(u)
         \/ \E f \in Net!Filtros : Net!Filtra(f)
         \/ \E a \in {"resumo", "interfaces"} : Net!EscolheAba(a)
  PROVE  Net!TypeOK'
  <1>. USE DEF Net!TypeOK
  <1>1. CASE Net!FechaDetalhe
    BY <1>1 DEF Net!FechaDetalhe
  <1>2. ASSUME NEW u \in Sites \cup {Net!SemUnidade}, Net!EscolheUnidade(u) PROVE Net!TypeOK'
    <2>1. m12' \in BOOLEAN
      BY <1>2 DEF Net!EscolheUnidade, Net!Quebra
    <2>2. m13' \in 0..MaxAcoesNaRede
      BY <1>2, AcoesContadas DEF Net!EscolheUnidade
    <2>. QED  BY <1>2, <2>1, <2>2 DEF Net!EscolheUnidade
  <1>3. ASSUME NEW f \in Net!Filtros, Net!Filtra(f) PROVE Net!TypeOK'
    <2>1. m12' \in BOOLEAN
      BY <1>3 DEF Net!Filtra, Net!Quebra
    <2>2. m13' \in 0..MaxAcoesNaRede
      BY <1>3, AcoesContadas DEF Net!Filtra
    <2>. QED  BY <1>3, <2>1, <2>2 DEF Net!Filtra
  <1>4. ASSUME NEW a \in {"resumo", "interfaces"}, Net!EscolheAba(a) PROVE Net!TypeOK'
    <2>1. m13' \in 0..MaxAcoesNaRede
      BY <1>4, AcoesContadas DEF Net!EscolheAba
    <2>. QED  BY <1>4, <2>1 DEF Net!EscolheAba
  <1>. QED  BY <1>1, <1>2, <1>3, <1>4

\* The dialogs: the host shown is one listed, and the form says what it says of it.
LEMMA DialogosTipo ==
  ASSUME Net!ConstantesOk, Net!TypeOK,
         \/ Net!FechaCadastro
         \/ \E i \in Ids : Net!AbreDetalhe(i) \/ Net!AbreCadastro(i)
  PROVE  Net!TypeOK'
  <1>1. CASE Net!FechaCadastro
    BY <1>1, AbandonaTipo DEF Net!FechaCadastro, Net!TypeOK
  <1>2. ASSUME NEW i \in Ids, Net!AbreDetalhe(i) PROVE Net!TypeOK'
    <2>1. m3[i] \in Net!Hospedeiro
      BY <1>2 DEF Net!AbreDetalhe, Net!Hosts, Net!TypeOK
    <2>2. m6' \in {0} \cup Ids /\ m7' = "resumo" /\ m13' \in 0..MaxAcoesNaRede
      BY <1>2, <2>1, AcoesContadas DEF Net!AbreDetalhe, Net!Hospedeiro
    <2>. QED  BY <1>2, <2>2 DEF Net!AbreDetalhe, Net!TypeOK
  <1>3. ASSUME NEW i \in Ids, Net!AbreCadastro(i) PROVE Net!TypeOK'
    <2>1. m3[i] \in Net!Hospedeiro
      BY <1>3 DEF Net!AbreCadastro, Net!Hosts, Net!TypeOK
    <2>2. m8' \in Net!Hospedeiro /\ m9' \in Net!Form /\ m10' = FALSE /\ m13' \in 0..MaxAcoesNaRede
      BY <1>3, <2>1, BuildFormTipo, AcoesContadas DEF Net!AbreCadastro
    <2>. QED  BY <1>3, <2>2 DEF Net!AbreCadastro, Net!TypeOK
  <1>. QED  BY <1>1, <1>2, <1>3

LEMMA PreencheTipo ==
  ASSUME Net!ConstantesOk, Net!TypeOK,
         \/ \E x \in Sites \cup {Net!SemUnidade} : Net!Preenche("site", x)
         \/ \E x \in Tipos \cup {Net!Automatico} : Net!Preenche("tipo", x)
         \/ \E x \in Salas : Net!Preenche("sala", x)
  PROVE  Net!TypeOK'
  <1>1. m9 \in Net!Form
    BY DEF Net!TypeOK
  <1>2. m9' \in Net!Form
    <2>1. ASSUME NEW x \in Sites \cup {Net!SemUnidade}, Net!Preenche("site", x)
          PROVE  m9' \in Net!Form
      <3>1. m9' = [m9 EXCEPT !["site"] = x]
        BY <2>1 DEF Net!Preenche
      <3>. QED  BY <1>1, <3>1 DEF Net!Form
    <2>2. ASSUME NEW x \in Tipos \cup {Net!Automatico}, Net!Preenche("tipo", x)
          PROVE  m9' \in Net!Form
      <3>1. m9' = [m9 EXCEPT !["tipo"] = x]
        BY <2>2 DEF Net!Preenche
      <3>. QED  BY <1>1, <3>1 DEF Net!Form
    <2>3. ASSUME NEW x \in Salas, Net!Preenche("sala", x)
          PROVE  m9' \in Net!Form
      <3>1. m9' = [m9 EXCEPT !["sala"] = x]
        BY <2>3 DEF Net!Preenche
      <3>. QED  BY <1>1, <3>1 DEF Net!Form
    <2>. QED  BY <2>1, <2>2, <2>3
  <1>3. /\ Net!Age
        /\ UNCHANGED <<m1, m2, m3, m4, m5, m6, m7, m8, m10, m11, m12>>
    BY DEF Net!Preenche
  <1>4. m13' \in 0..MaxAcoesNaRede
    BY <1>3, AcoesContadas
  <1>. QED  BY <1>2, <1>3, <1>4 DEF Net!TypeOK

LEMMA HandleSubmitTipo ==
  ASSUME Net!TypeOK, NEW v \in VagasDaRede, Net!HandleSubmit(v)
  PROVE  Net!TypeOK' /\ (m11'[v] # m11[v] => m11'[v].tipo = "grava")
         /\ \A w \in VagasDaRede \ {v} : m11'[w] = m11[w]
  <1>1. CASE DOMAIN Net!Patch(Net!BuildForm(m8), m9) = {}
    BY <1>1 DEF Net!HandleSubmit, Net!TypeOK
  <1>2. CASE DOMAIN Net!Patch(Net!BuildForm(m8), m9) # {}
    <2>. DEFINE p == [tipo |-> "grava", id |-> m8.id, ip |-> m8.ip, inicial |-> Net!BuildForm(m8),
                      form |-> m9, desta |-> TRUE]
    <2>1. m11' = [m11 EXCEPT ![v] = p] /\ m10' = TRUE
          /\ UNCHANGED <<m1, m2, m3, m4, m5, m6, m7, m8, m9, m12, m13>>
      BY <1>2 DEF Net!HandleSubmit
    <2>2. m8 \in Net!Hospedeiro /\ m9 \in Net!Form
      BY DEF Net!HandleSubmit, Net!TypeOK
    <2>3. m8.id \in Ids /\ m8.ip \in Ips
      BY <2>2 DEF Net!Hospedeiro
    <2>4. p \in Net!Pedidos /\ p.tipo = "grava"
      BY <2>2, <2>3, BuildFormTipo DEF Net!Pedidos
    <2>. HIDE DEF p
    <2>5. m11' \in [VagasDaRede -> Net!Pedidos]
      BY <2>1, <2>4 DEF Net!TypeOK
    <2>. QED  BY <2>1, <2>4, <2>5 DEF Net!TypeOK
  <1>. QED  BY <1>1, <1>2

LEMMA HandleSavedTipo ==
  ASSUME Net!TypeOK, NEW v \in VagasDaRede, Net!HandleSaved(v)
  PROVE  Net!TypeOK' /\ \A w \in VagasDaRede : m11'[w].tipo \in {m11[w].tipo, "livre"}
  <1>. DEFINE h == m11[v].host
  <1>1. h \in Net!Hospedeiro
    BY PedidoForma DEF Net!TypeOK, Net!HandleSaved
  <1>. HIDE DEF h
  <1>2. /\ m3' = [i \in DOMAIN m3 |-> IF m3[i].ip = h.ip THEN [h EXCEPT !.online = m3[i].online]
                                      ELSE m3[i]]
        /\ m8' = Net!SemEdicao /\ m10' = FALSE /\ m11' = [Net!Abandona EXCEPT ![v] = Net!Livre]
        /\ m7' = Net!AbaEm(m3') /\ m12' = Net!Quebra(m3', m4, m5)
        /\ UNCHANGED <<m1, m2, m4, m5, m6, m9, m13>>
    BY DEF Net!HandleSaved, h
  <1>3. DOMAIN m3' \subseteq Ids /\ \A i \in DOMAIN m3' : m3'[i] \in Net!Hospedeiro
    <2>1. ASSUME NEW i \in DOMAIN m3 PROVE m3'[i] \in Net!Hospedeiro
      <3>1. m3[i] \in Net!Hospedeiro
        BY DEF Net!TypeOK
      <3>2. m3[i].online \in BOOLEAN
        BY <3>1 DEF Net!Hospedeiro
      <3>3. [h EXCEPT !.online = m3[i].online] \in Net!Hospedeiro
        BY <1>1, <3>2 DEF Net!Hospedeiro, Net!Digitado
      <3>. QED  BY <1>2, <3>1, <3>3
    <2>2. DOMAIN m3' = DOMAIN m3
      BY <1>2
    <2>. QED  BY <2>1, <2>2 DEF Net!TypeOK
  <1>4. m7' \in {"resumo", "interfaces"} /\ m12' \in BOOLEAN
    BY <1>2 DEF Net!AbaEm, Net!Quebra, Net!TypeOK
  <1>5. Net!Livre \in Net!Pedidos /\ Net!Livre.tipo = "livre"
    BY DEF Net!Pedidos, Net!Livre
  <1>6. m11' \in [VagasDaRede -> Net!Pedidos]
    BY <1>2, <1>5, AbandonaTipo
  <1>7. \A w \in VagasDaRede : m11'[w].tipo \in {m11[w].tipo, "livre"}
    BY <1>2, <1>5, AbandonaTipo
  <1>. QED  BY <1>2, <1>3, <1>4, <1>6, <1>7 DEF Net!TypeOK

LEMMA GravacaoFalhaTipo ==
  ASSUME Net!TypeOK, NEW v \in VagasDaRede, Net!GravacaoFalha(v)
  PROVE  Net!TypeOK' /\ \A w \in VagasDaRede : m11'[w].tipo \in {m11[w].tipo, "livre"}
  <1>1. m10' \in BOOLEAN
    <2>1. m10 \in BOOLEAN /\ m11[v].desta \in BOOLEAN
      BY PedidoForma DEF Net!TypeOK, Net!GravacaoFalha
    <2>. QED  BY <2>1 DEF Net!GravacaoFalha
  <1>2. Net!Livre \in Net!Pedidos /\ Net!Livre.tipo = "livre"
    BY DEF Net!Pedidos, Net!Livre
  <1>3. m11' = [m11 EXCEPT ![v] = Net!Livre]
        /\ UNCHANGED <<m1, m2, m3, m4, m5, m6, m7, m8, m9, m12, m13>>
    BY DEF Net!GravacaoFalha
  <1>4. m11' \in [VagasDaRede -> Net!Pedidos]
        /\ \A w \in VagasDaRede : m11'[w].tipo \in {m11[w].tipo, "livre"}
    BY <1>2, <1>3 DEF Net!TypeOK
  <1>. QED  BY <1>1, <1>3, <1>4 DEF Net!TypeOK

\* What the form changed is what a save may change.
LEMMA PatchTipo ==
  ASSUME NEW f \in Net!Form, NEW g \in Net!Form
  PROVE  /\ PatchBom(Net!Patch(f, g))
         /\ \A c \in Net!Campos : g[c] = f[c] => c \notin DOMAIN Net!Patch(f, g)
  <1>1. g["site"] \in Sites \cup {Net!SemUnidade} /\ g["tipo"] \in Tipos \cup {Net!Automatico}
        /\ g["sala"] \in Salas \cup {""}
    BY DEF Net!Form
  <1>. QED  BY <1>1 DEF Net!Patch, PatchBom

\* A handler that only reads changes its own save and nothing else.
LEMMA SoOPedido ==
  ASSUME Net!TypeOK, NEW v \in VagasDaRede, NEW q \in Net!Pedidos, m11' = [m11 EXCEPT ![v] = q],
         UNCHANGED <<m1, m2, m3, m4, m5, m6, m7, m8, m9, m10, m12, m13>>
  PROVE  Net!TypeOK' /\ \A w \in VagasDaRede \ {v} : m11'[w] = m11[w]
  <1>1. m11' \in [VagasDaRede -> Net!Pedidos] /\ \A w \in VagasDaRede \ {v} : m11'[w] = m11[w]
    BY DEF Net!TypeOK
  <1>. QED  BY <1>1 DEF Net!TypeOK

LEMMA LeHostTipo ==
  ASSUME Net!ConstantesOk, Net!TypeOK, NEW v \in VagasDaRede, Net!LeHost(v)
  PROVE  /\ Net!TypeOK' /\ \A w \in VagasDaRede \ {v} : m11'[w] = m11[w]
         /\ m11[v].tipo = "grava" /\ m2' = m2
  <1>. DEFINE p == m11[v]
              ps == m2[Net!Primeiro(Net!DoIp(m2, p.ip))].portas
              lido == [tipo |-> "lido", id |-> p.id, ip |-> p.ip, inicial |-> p.inicial,
                       form |-> p.form, desta |-> p.desta, portas |-> ps]
              falhou == [tipo |-> "falhou", desta |-> p.desta]
              aceita == Net!Aceita(m2, p.ip, Net!Patch(p.inicial, p.form))
  <1>1. /\ p.tipo = "grava" /\ m11' = [m11 EXCEPT ![v] = IF aceita THEN lido ELSE falhou]
        /\ UNCHANGED <<m1, m2, m3, m4, m5, m6, m7, m8, m9, m10, m12, m13>>
    BY DEF Net!LeHost
  <1>2. /\ p.id \in Ids /\ p.ip \in Ips /\ p.inicial \in Net!Form /\ p.form \in Net!Form
        /\ p.desta \in BOOLEAN
    BY <1>1, PedidoForma DEF Net!TypeOK
  <1>3. aceita => lido \in Net!Pedidos
    <2>1. aceita => ps \in Tipos \cup {Net!Desconhecido}
      <3>1. aceita => Net!DoIp(m2, p.ip) # {}
        BY DEF Net!Aceita
      <3>2. RedeBoa(m2)
        BY DEF Net!TypeOK, RedeBoa
      <3>. QED  BY <1>2, <3>1, <3>2, PortasDoPrimeiro
    <2>. HIDE DEF ps, aceita
    <2>. QED  BY <1>2, <2>1 DEF Net!Pedidos
  <1>4. falhou \in Net!Pedidos
    BY <1>2 DEF Net!Pedidos
  <1>. HIDE DEF lido, falhou, aceita
  <1>5. (IF aceita THEN lido ELSE falhou) \in Net!Pedidos
    BY <1>3, <1>4
  <1>. QED  BY <1>1, <1>5, SoOPedido

LEMMA ReleHostTipo ==
  ASSUME Net!ConstantesOk, Net!TypeOK, NEW v \in VagasDaRede, Net!ReleHost(v)
  PROVE  /\ Net!TypeOK' /\ \A w \in VagasDaRede \ {v} : m11'[w] = m11[w]
         /\ m11[v].tipo = "escrito" /\ m2' = m2
  <1>. DEFINE p == m11[v]
              h == Net!Lido(Net!Primeiro(Net!DoIp(m2, p.ip)), m2)
              q == [tipo |-> "gravado", desta |-> p.desta, host |-> [h EXCEPT !.portas = "texto"]]
              falhou == [tipo |-> "falhou", desta |-> p.desta]
              ha == Net!DoIp(m2, p.ip) # {}
  <1>1. /\ p.tipo = "escrito" /\ m11' = [m11 EXCEPT ![v] = IF ha THEN q ELSE falhou]
        /\ UNCHANGED <<m1, m2, m3, m4, m5, m6, m7, m8, m9, m10, m12, m13>>
    BY DEF Net!ReleHost
  <1>2. p.ip \in Ips /\ p.desta \in BOOLEAN
    BY <1>1, PedidoForma DEF Net!TypeOK
  <1>3. ha => q \in Net!Pedidos
    <2>1. ha => h \in Net!Hospedeiro
      <3>1. RedeBoa(m2)
        BY DEF Net!TypeOK, RedeBoa
      <3>. QED  BY <1>2, <3>1, PortasDoPrimeiro, LidoTipo
    <2>. HIDE DEF h, ha
    <2>2. ha => [h EXCEPT !.portas = "texto"] \in Net!Hospedeiro
      BY <2>1 DEF Net!Hospedeiro, Net!Digitado
    <2>. QED  BY <1>2, <2>2 DEF Net!Pedidos
  <1>4. falhou \in Net!Pedidos
    BY <1>2 DEF Net!Pedidos
  <1>. HIDE DEF q, falhou, ha
  <1>5. (IF ha THEN q ELSE falhou) \in Net!Pedidos
    BY <1>3, <1>4
  <1>. QED  BY <1>1, <1>5, SoOPedido

\* The save writes the rows of the address, the fields of the form that were changed.
LEMMA GravaFaz ==
  ASSUME Net!ConstantesOk, Net!TypeOK, Net!UmaLinhaPorChave, NEW v \in VagasDaRede, Net!Grava(v)
  PROVE  /\ Net!TypeOK' /\ Net!ChavesUnicas(m2') /\ \A w \in VagasDaRede \ {v} : m11'[w] = m11[w]
         /\ m11[v].tipo = "lido"
         /\ \/ m2' = m2 /\ m11'[v].tipo = "falhou"
            \/ \E p, ip : /\ PatchBom(p) /\ ip \in Ips
                          /\ \E ps \in Tipos \cup {Net!Desconhecido} : m2' = Net!Gravadas(m2, ip, p, ps)
                          /\ \A c \in Net!Campos :
                               m11[v].form[c] = m11[v].inicial[c] => c \notin DOMAIN p
  <1>. DEFINE p == Net!Patch(m11[v].inicial, m11[v].form)
              ip == m11[v].ip
              ps == m11[v].portas
  <1>1. m11[v].tipo = "lido" /\ m11[v] \in Net!Pedidos
    BY DEF Net!Grava, Net!TypeOK
  <1>2. /\ ip \in Ips /\ m11[v].inicial \in Net!Form /\ m11[v].form \in Net!Form
        /\ m11[v].desta \in BOOLEAN /\ ps \in Tipos \cup {Net!Desconhecido}
    BY <1>1, PedidoForma
  <1>3. /\ PatchBom(p)
        /\ \A c \in Net!Campos : m11[v].form[c] = m11[v].inicial[c] => c \notin DOMAIN p
    BY <1>2, PatchTipo
  <1>4. RedeBoa(m2) /\ Net!ChavesUnicas(m2)
    BY DEF Net!TypeOK, RedeBoa, Net!UmaLinhaPorChave
  <1>5. UNCHANGED <<m1, m3, m4, m5, m6, m7, m8, m9, m10, m12, m13>>
    BY DEF Net!Grava
  <1>6. CASE Net!Cabe(m2, ip, p, ps)
    <2>. DEFINE q == [tipo |-> "escrito", ip |-> ip, desta |-> m11[v].desta]
    <2>1. /\ m2' = Net!Gravadas(m2, ip, p, ps) /\ m11' = [m11 EXCEPT ![v] = q]
          /\ Net!ChavesUnicas(m2')
      BY <1>6 DEF Net!Grava, Net!Cabe
    <2>2. q \in Net!Pedidos
      BY <1>2 DEF Net!Pedidos
    <2>. HIDE DEF p, q, ip, ps
    <2>3. RedeBoa(m2')
      BY <1>2, <1>3, <1>4, <2>1, GravadasFaz
    <2>4. m11' \in [VagasDaRede -> Net!Pedidos] /\ \A w \in VagasDaRede \ {v} : m11'[w] = m11[w]
      BY <2>1, <2>2 DEF Net!TypeOK
    <2>5. Net!TypeOK'
      BY <1>5, <2>3, <2>4 DEF Net!TypeOK, RedeBoa
    <2>. QED  BY <1>1, <1>2, <1>3, <2>1, <2>4, <2>5
  <1>7. CASE ~Net!Cabe(m2, ip, p, ps)
    <2>. DEFINE q == [tipo |-> "falhou", desta |-> m11[v].desta]
    <2>1. m2' = m2 /\ m11' = [m11 EXCEPT ![v] = q]
      BY <1>7 DEF Net!Grava
    <2>2. q \in Net!Pedidos /\ q.tipo = "falhou"
      BY <1>2 DEF Net!Pedidos
    <2>. HIDE DEF q
    <2>3. m11'[v].tipo = "falhou"
      BY <2>1, <2>2 DEF Net!TypeOK
    <2>. QED  BY <1>1, <1>4, <1>5, <2>1, <2>2, <2>3, SoOPedido
  <1>. QED  BY <1>6, <1>7

\* Every step keeps the types, and the keys apart.
RedeInv == Net!TypeOK /\ Net!UmaLinhaPorChave

LEMMA RedeComeca ==
  ASSUME Net!ConstantesOk, Net!Init
  PROVE  RedeInv
  <1>1. DOMAIN m2 = {}
    BY DEF Net!Init, Net!SemQuadro
  <1>. QED  BY <1>1, RedeInicia DEF RedeInv, Net!UmaLinhaPorChave, Net!ChavesUnicas

LEMMA RedeMantem ==
  ASSUME Net!ConstantesOk, RedeInv, [Net!Next]_(Net!vars)
  PROVE  RedeInv'
  <1>. USE DEF RedeInv
  <1>1. ASSUME m2' = m2
        PROVE  Net!UmaLinhaPorChave'
    BY <1>1 DEF Net!UmaLinhaPorChave
  <1>2. CASE UNCHANGED Net!vars
    BY <1>1, <1>2 DEF Net!vars, Net!TypeOK
  <1>3. CASE Net!NoServidor
    <2>1. /\ RedeBoa(m2') /\ Net!ChavesUnicas(m2') /\ Net!Age /\ m1' \subseteq Sites
          /\ UNCHANGED <<m3, m4, m5, m6, m7, m8, m9, m10, m11, m12>>
      <3>1. m1 \subseteq Sites
        BY DEF Net!TypeOK
      <3>2. CASE \E s \in Sites \cup {Net!SemUnidade}, ip \in Ips, t \in Tipos : Net!Varre(s, ip, t)
        BY <3>1, <3>2, VarreTipo
      <3>3. CASE \E s \in Sites, ip \in Ips : Net!AdotaSemUnidade(s, ip)
        BY <3>1, <3>3, AdotaTipo
      <3>4. CASE \E s \in Sites, ip \in Ips, a \in BOOLEAN : Net!Telemetria(s, ip, a)
        BY <3>1, <3>4, TelemetriaTipo
      <3>5. CASE \E i \in Ids : Net!Some(i) \/ Net!Poda(i)
        BY <3>1, <3>5, EsquecimentoTipo
      <3>6. CASE \E s \in Sites : Net!RemoveUnidade(s)
        BY <3>1, <3>6, RemoveUnidadeTipo
      <3>7. CASE \/ \E ip \in Ips, x \in Salas : Net!EditaAlheio(ip, "sala", x)
                 \/ \E ip \in Ips, x \in Tipos : Net!EditaAlheio(ip, "tipo", x)
        BY <3>1, <3>7, EditaAlheioTipo
      <3>. QED  BY <1>3, <3>2, <3>3, <3>4, <3>5, <3>6, <3>7 DEF Net!NoServidor
    <2>2. Net!TypeOK'
      BY <2>1, AcoesContadas, ServidorTipo
    <2>. QED  BY <2>1, <2>2 DEF Net!UmaLinhaPorChave
  <1>4. CASE Net!NaTela
    <2>1. ASSUME NEW v \in VagasDaRede, Net!Grava(v)
          PROVE  RedeInv'
      BY <2>1, GravaFaz DEF Net!UmaLinhaPorChave
    <2>2. ASSUME NEW v \in VagasDaRede, Net!LeHost(v) \/ Net!ReleHost(v)
          PROVE  RedeInv'
      BY <1>1, <2>2, LeHostTipo, ReleHostTipo
    <2>3. ASSUME NEW v \in VagasDaRede,
                 Net!HandleSubmit(v) \/ Net!HandleSaved(v) \/ Net!GravacaoFalha(v)
          PROVE  RedeInv'
      <3>1. m2' = m2
        BY <2>3 DEF Net!HandleSubmit, Net!HandleSaved, Net!GravacaoFalha
      <3>. QED  BY <1>1, <2>3, <3>1, HandleSubmitTipo, HandleSavedTipo, GravacaoFalhaTipo
    <2>4. CASE \/ Net!LeInventario \/ Net!FechaDetalhe \/ Net!FechaCadastro
               \/ \E u \in Sites \cup {Net!SemUnidade} : Net!EscolheUnidade(u)
               \/ \E f \in Net!Filtros : Net!Filtra(f)
               \/ \E a \in {"resumo", "interfaces"} : Net!EscolheAba(a)
               \/ \E i \in Ids : Net!AbreDetalhe(i) \/ Net!AbreCadastro(i)
               \/ \E x \in Sites \cup {Net!SemUnidade} : Net!Preenche("site", x)
               \/ \E x \in Tipos \cup {Net!Automatico} : Net!Preenche("tipo", x)
               \/ \E x \in Salas : Net!Preenche("sala", x)
      <3>1. m2' = m2
        BY <2>4 DEF Net!LeInventario, Net!FechaDetalhe, Net!FechaCadastro, Net!EscolheUnidade,
                    Net!Filtra, Net!EscolheAba, Net!AbreDetalhe, Net!AbreCadastro, Net!Preenche
      <3>2. Net!TypeOK'
        BY <2>4, LeInventarioTipo, EscolhasTipo, DialogosTipo, PreencheTipo
      <3>. QED  BY <1>1, <3>1, <3>2
    <2>. QED  BY <1>4, <2>1, <2>2, <2>3, <2>4 DEF Net!NaTela
  <1>. QED  BY <1>2, <1>3, <1>4 DEF Net!Next

-----------------------------------------------------------------------------
\* Only the save of a form ends it, and it writes the fields the form changed.
LEMMA GravaParcial ==
  ASSUME Net!ConstantesOk, RedeInv, Net!Next
  PROVE  Net!GravaSoOMudado
  <1>. USE DEF RedeInv
  <1>. SUFFICES ASSUME NEW v \in VagasDaRede, m11[v].tipo = "lido", m11'[v].tipo = "escrito",
                       NEW i \in DOMAIN m2, NEW c \in Net!Campos, m11[v].form[c] = m11[v].inicial[c]
                PROVE  Net!Cadastro(m2'[i], c) = Net!Cadastro(m2[i], c)
    BY DEF Net!GravaSoOMudado
  <1>1. Net!Grava(v)
    <2>1. CASE Net!NoServidor
      <3>1. m11' = m11
        BY <2>1 DEF Net!NoServidor, Net!Varre, Net!AdotaSemUnidade, Net!Telemetria, Net!Some, Net!Poda, Net!RemoveUnidade,
                    Net!EditaAlheio
      <3>. QED  BY <3>1
    <2>2. CASE \/ Net!LeInventario \/ Net!FechaDetalhe
               \/ \E u \in Sites \cup {Net!SemUnidade} : Net!EscolheUnidade(u)
               \/ \E f \in Net!Filtros : Net!Filtra(f)
               \/ \E a \in {"resumo", "interfaces"} : Net!EscolheAba(a)
               \/ \E k \in Ids : Net!AbreDetalhe(k) \/ Net!AbreCadastro(k)
               \/ \E x \in Sites \cup {Net!SemUnidade} : Net!Preenche("site", x)
               \/ \E x \in Tipos \cup {Net!Automatico} : Net!Preenche("tipo", x)
               \/ \E x \in Salas : Net!Preenche("sala", x)
      <3>1. m11' = m11
        BY <2>2 DEF Net!LeInventario, Net!FechaDetalhe, Net!EscolheUnidade, Net!Filtra, Net!EscolheAba,
                    Net!AbreDetalhe, Net!AbreCadastro, Net!Preenche
      <3>. QED  BY <3>1
    <2>3. CASE Net!FechaCadastro
      <3>1. m11' = Net!Abandona
        BY <2>3 DEF Net!FechaCadastro
      <3>. QED  BY <3>1, AbandonaTipo
    <2>4. ASSUME NEW w \in VagasDaRede,
                 Net!HandleSubmit(w) \/ Net!HandleSaved(w) \/ Net!GravacaoFalha(w)
          PROVE  FALSE
      BY <2>4, HandleSubmitTipo, HandleSavedTipo, GravacaoFalhaTipo
    <2>5. ASSUME NEW w \in VagasDaRede, Net!Grava(w), w # v
          PROVE  FALSE
      BY <2>5, GravaFaz
    <2>6. ASSUME NEW w \in VagasDaRede, Net!LeHost(w) \/ Net!ReleHost(w)
          PROVE  FALSE
      <3>1. w # v
        BY <2>6, LeHostTipo, ReleHostTipo
      <3>2. m11'[v] = m11[v]
        BY <2>6, <3>1, LeHostTipo, ReleHostTipo
      <3>. QED  BY <3>2
    <2>. QED  BY <2>1, <2>2, <2>3, <2>4, <2>5, <2>6 DEF Net!Next, Net!NaTela
  <1>2. PICK p, ip : /\ PatchBom(p) /\ ip \in Ips /\ c \notin DOMAIN p
                     /\ \E ps \in Tipos \cup {Net!Desconhecido} : m2' = Net!Gravadas(m2, ip, p, ps)
    BY <1>1, GravaFaz
  <1>3. RedeBoa(m2)
    BY DEF Net!TypeOK, RedeBoa
  <1>4. /\ "site" \notin DOMAIN p => m2'[i].site = m2[i].site /\ m2'[i].siteTravado = m2[i].siteTravado
        /\ "tipo" \notin DOMAIN p => m2'[i].tipo = m2[i].tipo /\ m2'[i].tipoTravado = m2[i].tipoTravado
        /\ "sala" \notin DOMAIN p => m2'[i].sala = m2[i].sala
    BY <1>2, <1>3, GravadasFaz
  <1>. QED  BY <1>2, <1>4 DEF Net!Cadastro, Net!Campos

-----------------------------------------------------------------------------
\* The rows, the list and the forms have their types all along; a type fixed by hand is one
\* that was typed.
LEMMA RedeSempre ==
  ASSUME ConstantesDasTelas
  PROVE  Spec => [](tela = "rede" => RedeInv)
  <1>. DEFINE Inv == tela = "rede" => RedeInv
  <1>1. Init => Inv
    BY InicioDaTela, RedeComeca DEF ConstantesDasTelas
  <1>2. Inv /\ [Next]_memoria => Inv'
    BY PassoDaTela, RedeMantem DEF ConstantesDasTelas
  <1>. QED  BY <1>1, <1>2, PTL DEF Spec

LEMMA PassoDaRede ==
  ASSUME Next, tela = "rede"
  PROVE  Net!Next
  BY DEF Next, TelaDeLeituras, TelaDeEdicoes, TelaDeFluxo, TelaDeRascunho, TelaDePlantas,
         TelaDeBancos, TelaDeContainers, TelaDeRede, TelaDeAuditoria, TelaDeHistorico,
         TelaDeEsquema, TelaDeMalha

\* A save of the form of a host leaves alone every field its user did not change, in every
\* row of the address, whatever was written since the form opened (handleSubmit of
\* NetworkView.tsx, networkHostUpdateHandler).
THEOREM EdicaoSempreParcial ==
  ASSUME ConstantesDasTelas
  PROVE  Spec => EdicaoParcial
  <1>1. (tela = "rede" => RedeInv) /\ [Next]_memoria
          => [tela = "rede" => Net!GravaSoOMudado]_memoria
    BY PassoDaRede, GravaParcial DEF ConstantesDasTelas
  <1>. QED  BY <1>1, RedeSempre, PTL DEF Spec, EdicaoParcial

\* The table never holds two hosts under one site and address, in whatever order scans,
\* telemetry, adoptions, removals of sites and saves run their statements
\* (AdoptNetworkHostsWithoutSite, discovery/worker.go, site_handler.go).
THEOREM UmaLinhaSemprePorChave ==
  ASSUME ConstantesDasTelas
  PROVE  Spec => []UmaLinhaPorChave
  <1>1. (tela = "rede" => RedeInv) => UmaLinhaPorChave
    BY DEF RedeInv, UmaLinhaPorChave
  <1>. QED  BY <1>1, RedeSempre, PTL

-----------------------------------------------------------------------------
(* The audit trail.  m1 is the next entry and m2 the oldest one, m5 the     *)
(* offset, m6 the page, m7 the total, m9 the reading, m11 the entries there *)
(* were, m12 those shown and m13 whether one was written meanwhile.         *)

\* What the reading brings, at each phase of it.
PedidoDaTrilha ==
  \/ m9 = Audit!Nenhum \/ m9 = [fase |-> "indo"]
  \/ \E t \in 0..MaxRegistros : m9 = [fase |-> "contada", total |-> t]
  \/ \E t \in 0..MaxRegistros, S \in SUBSET (1..MaxRegistros) :
       /\ m9 = [fase |-> "lida", total |-> t, items |-> S]
       /\ Audit!Cardinality(S) <= PAGE_SIZE

\* How many entries that there are come before one.
Antes(e) == m1 - 1 - e

\* The entries still to be shown, of those there were and are.
AVer(S) == (m11 \cap Audit!Existem) \ S

\* What was not shown is no earlier than a place.
Depois(o, S) == \A e \in AVer(S) : o <= Antes(e)

\* What the pages owe, when no filter is applied.  What was not shown is at the page asked
\* for or after it; after it, once the page was read; and then the total tells that there is
\* a page after it, if it counted what was read.
Dividas ==
  /\ Depois(m5, m12)
  /\ m9.fase = "contada" /\ ~m13 => m9.total >= m1 - m2
  /\ m9.fase = "lida" =>
       /\ Depois(m5 + PAGE_SIZE, m12 \cup m9.items)
       /\ ~m13 /\ AVer(m12 \cup m9.items) # {} => m5 + Audit!Cardinality(m9.items) < m9.total
  /\ m9.fase = "nenhum" /\ ~m8 =>
       /\ Depois(m5 + PAGE_SIZE, m12)
       /\ ~m13 /\ AVer(m12) # {} => m5 + Audit!Cardinality(m6) < m7

TrilhaInv ==
  /\ Audit!TypeOK /\ PedidoDaTrilha
  /\ \A e \in m11 : e \in Nat /\ e < m1
  /\ m8 => m7 = 0
  /\ m4 = "" => Dividas

\* The numbers of the entries are the order they were written in.
LEMMA PosicaoNaTrilha ==
  ASSUME NEW a \in Nat, NEW b \in Nat, NEW e \in a..(b - 1)
  PROVE  Audit!Posicao(a..(b - 1), e) = b - 1 - e
  <1>1. {x \in a..(b - 1) : x > e} = (e + 1)..(b - 1)
    OBVIOUS
  <1>2. Cardinality((e + 1)..(b - 1)) = b - 1 - e
    <2>1. e + 1 \in Int /\ b - 1 \in Int /\ e \in Int /\ e <= b - 1
      OBVIOUS
    <2>2. Cardinality((e + 1)..(b - 1)) = IF e + 1 > b - 1 THEN 0 ELSE (b - 1) - (e + 1) + 1
      BY <2>1, FS_Interval
    <2>. QED  BY <2>1, <2>2
  <1>. QED  BY <1>1, <1>2 DEF Audit!Posicao, Audit!Cardinality, Cardinality

\* One page further, and one back.
LEMMA Paginas ==
  ASSUME NEW n \in Nat, NEW P \in Nat \ {0}
  PROVE  /\ n * P \in Nat /\ n <= n * P
         /\ (n + 1) * P = n * P + P
         /\ n * P > P => n - 1 \in Nat /\ n * P - P = (n - 1) * P
         /\ 0 = 0 * P
  OBVIOUS

\* Two entries of a query have places of their own, so a page holds no more than PAGE_SIZE.
LEMMA PosicaoPropria ==
  ASSUME NEW S \in SUBSET (1..MaxRegistros), MaxRegistros \in Nat, NEW d \in S, NEW e \in S, d < e
  PROVE  Audit!Posicao(S, e) < Audit!Posicao(S, d) /\ Audit!Posicao(S, e) \in Nat
  <1>. DEFINE D == {x \in S : x > d}
              E == {x \in S : x > e}
  <1>1. S \subseteq Nat /\ IsFiniteSet(S)
    BY Finito
  <1>2. E \subseteq D /\ e \in D /\ e \notin E /\ D \subseteq S
    <2>1. \A x \in S : x > e => x > d
      BY <1>1
    <2>2. e > d /\ ~(e > e)
      BY <1>1
    <2>. QED  BY <2>1, <2>2
  <1>. HIDE DEF D, E
  <1>4. IsFiniteSet(D) /\ Cardinality(D) \in Nat
    BY <1>1, <1>2, FS_Subset, FS_CardinalityType
  <1>5. Cardinality(E) \in Nat /\ Cardinality(E) <= Cardinality(D) /\ Cardinality(E) # Cardinality(D)
    BY <1>2, <1>4, FS_Subset, FS_CardinalityType
  <1>6. Cardinality(E) < Cardinality(D)
    BY <1>4, <1>5
  <1>. QED  BY <1>5, <1>6 DEF D, E, Audit!Posicao, Audit!Cardinality, Cardinality

LEMMA PaginaCurta ==
  ASSUME Audit!ConstantesOk, NEW S \in SUBSET (1..MaxRegistros), NEW o \in Nat
  PROVE  Audit!Cardinality(Audit!Pagina(S, o)) <= PAGE_SIZE
  <1>. DEFINE P == Audit!Pagina(S, o)
              T == o..(o + PAGE_SIZE - 1)
              f == [e \in P |-> Audit!Posicao(S, e)]
  <1>1. PAGE_SIZE \in Nat \ {0} /\ MaxRegistros \in Nat
    BY DEF Audit!ConstantesOk
  <1>2. IsFiniteSet(T) /\ Cardinality(T) = PAGE_SIZE
    <2>1. o \in Int /\ o + PAGE_SIZE - 1 \in Int /\ ~(o > o + PAGE_SIZE - 1)
      BY <1>1
    <2>2. (o + PAGE_SIZE - 1) - o + 1 = PAGE_SIZE
      BY <1>1
    <2>. HIDE DEF T
    <2>. QED  BY <2>1, <2>2, FS_Interval DEF T
  <1>3. P \subseteq S
    BY DEF Audit!Pagina
  <1>4. IsFiniteSet(P) /\ Cardinality(P) \in Nat
    <2>1. P \subseteq 1..MaxRegistros
      BY <1>3
    <2>. HIDE DEF P
    <2>. QED  BY <1>1, <2>1, Finito
  <1>5. \A e \in S : Audit!Posicao(S, e) \in Nat
    <2>1. IsFiniteSet(S)
      BY <1>1, Finito
    <2>2. ASSUME NEW e \in S PROVE Cardinality({x \in S : x > e}) \in Nat
      BY <2>1, FS_Subset, FS_CardinalityType
    <2>. QED  BY <2>2 DEF Audit!Posicao, Audit!Cardinality, Cardinality
  <1>6. f \in [P -> T]
    <2>1. ASSUME NEW e \in P PROVE Audit!Posicao(S, e) \in T
      <3>1. e \in S /\ o <= Audit!Posicao(S, e) /\ Audit!Posicao(S, e) < o + PAGE_SIZE
        BY <2>1 DEF Audit!Pagina
      <3>2. Audit!Posicao(S, e) \in Nat
        BY <1>5, <3>1
      <3>. QED  BY <1>1, <3>1, <3>2
    <2>. HIDE DEF P, T
    <2>. QED  BY <2>1
  <1>7. ASSUME NEW d \in P, NEW e \in P, d # e PROVE f[d] # f[e]
    <2>1. d \in S /\ e \in S /\ d \in Nat /\ e \in Nat
      <3>1. S \subseteq Nat
        BY <1>1, Finito
      <3>. HIDE DEF P
      <3>. QED  BY <1>3, <1>7, <3>1
    <2>2. f[d] = Audit!Posicao(S, d) /\ f[e] = Audit!Posicao(S, e)
      OBVIOUS
    <2>3. CASE d < e
      <3>1. Audit!Posicao(S, e) < Audit!Posicao(S, d)
        BY <1>1, <2>1, <2>3, PosicaoPropria
      <3>. QED  BY <1>5, <2>1, <2>2, <3>1
    <2>4. CASE e < d
      <3>1. Audit!Posicao(S, d) < Audit!Posicao(S, e)
        BY <1>1, <2>1, <2>4, PosicaoPropria
      <3>. QED  BY <1>5, <2>1, <2>2, <3>1
    <2>5. d < e \/ e < d
      BY <1>7, <2>1
    <2>. QED  BY <2>3, <2>4, <2>5
  <1>. HIDE DEF P, T, f
  <1>8. ~(PAGE_SIZE < Cardinality(P))
    BY <1>2, <1>4, <1>6, <1>7, FS_PigeonHole
  <1>9. Cardinality(P) <= PAGE_SIZE
    BY <1>1, <1>4, <1>8
  <1>. QED  BY <1>9 DEF P, Audit!Cardinality, Cardinality

\* With no filter the entries are an interval: a page has those from the offset on, and when
\* one is left for the next page it is full.
LEMMA PaginaInteira ==
  ASSUME NEW a \in Nat, NEW b \in Nat, NEW o \in Nat, PAGE_SIZE \in Nat \ {0}
  PROVE  \A e \in a..(b - 1) :
           o <= b - 1 - e /\ e \notin Audit!Pagina(a..(b - 1), o)
             => /\ o + PAGE_SIZE <= b - 1 - e
                /\ o + Audit!Cardinality(Audit!Pagina(a..(b - 1), o)) < b - a
  <1>. SUFFICES ASSUME NEW e \in a..(b - 1), o <= b - 1 - e, e \notin Audit!Pagina(a..(b - 1), o)
                PROVE  /\ o + PAGE_SIZE <= b - 1 - e
                       /\ o + Audit!Cardinality(Audit!Pagina(a..(b - 1), o)) < b - a
    OBVIOUS
  <1>1. \A x \in a..(b - 1) : Audit!Posicao(a..(b - 1), x) = b - 1 - x
    BY PosicaoNaTrilha
  <1>2. o + PAGE_SIZE <= b - 1 - e
    BY <1>1 DEF Audit!Pagina
  <1>. DEFINE c == b - o - PAGE_SIZE
              d == b - 1 - o
  <1>3. Audit!Pagina(a..(b - 1), o) = c..d
    <2>1. \A x : x \in Audit!Pagina(a..(b - 1), o) <=>
                   x \in a..(b - 1) /\ o <= b - 1 - x /\ b - 1 - x < o + PAGE_SIZE
      BY <1>1 DEF Audit!Pagina
    <2>2. \A x : x \in c..d <=> x \in Int /\ b - o - PAGE_SIZE <= x /\ x <= b - 1 - o
      OBVIOUS
    <2>3. \A x \in Int : o <= b - 1 - x /\ b - 1 - x < o + PAGE_SIZE
                           <=> b - o - PAGE_SIZE <= x /\ x <= b - 1 - o
      OBVIOUS
    <2>4. \A x \in Int : b - o - PAGE_SIZE <= x /\ x <= b - 1 - o => x \in a..(b - 1)
      BY <1>2
    <2>. HIDE DEF c, d
    <2>5. \A x : x \in Audit!Pagina(a..(b - 1), o) <=> x \in c..d
      BY <2>1, <2>2, <2>3, <2>4
    <2>. QED  BY <2>5
  <1>4. Cardinality(c..d) = PAGE_SIZE
    <2>1. c \in Int /\ d \in Int /\ ~(c > d) /\ d - c + 1 = PAGE_SIZE
      OBVIOUS
    <2>. HIDE DEF c, d
    <2>. QED  BY <2>1, FS_Interval
  <1>5. o + PAGE_SIZE < b - a
    BY <1>2
  <1>. QED  BY <1>2, <1>3, <1>4, <1>5 DEF Audit!Cardinality, Cardinality

-----------------------------------------------------------------------------
\* What the numbers of the trail are, for the arithmetic of the pages.
LEMMA TrilhaNumeros ==
  ASSUME Audit!ConstantesOk, Audit!TypeOK
  PROVE  /\ PAGE_SIZE \in Nat \ {0} /\ MaxRegistros \in Nat /\ m1 \in Nat /\ m2 \in Nat
         /\ m2 <= m1 /\ m1 <= MaxRegistros + 1 /\ 1 <= m2
         /\ m5 \in Nat /\ Audit!Existem = m2..(m1 - 1) /\ Audit!Existem \subseteq 1..MaxRegistros
         /\ m7 \in Nat
  <1>1. PAGE_SIZE \in Nat \ {0} /\ MaxRegistros \in Nat
    BY DEF Audit!ConstantesOk
  <1>2. m1 \in 1..(MaxRegistros + 1) /\ m2 \in 1..m1 /\ m7 \in 0..MaxRegistros
    BY DEF Audit!TypeOK
  <1>3. m5 \in Nat
    BY <1>1, Paginas DEF Audit!TypeOK
  <1>. QED  BY <1>1, <1>2, <1>3 DEF Audit!Existem

\* The phases of a reading.
LEMMA PedidoDaTrilhaForma ==
  ASSUME PedidoDaTrilha
  PROVE  /\ m9.fase \in {"nenhum", "indo", "contada", "lida"}
         /\ m9.fase = "nenhum" => m9 = Audit!Nenhum
         /\ m9.fase = "contada" => m9.total \in 0..MaxRegistros
         /\ m9.fase = "lida" => /\ m9.total \in 0..MaxRegistros /\ m9.items \in SUBSET (1..MaxRegistros)
                                /\ Audit!Cardinality(m9.items) <= PAGE_SIZE
  <1>1. CASE m9 = Audit!Nenhum
    BY <1>1 DEF Audit!Nenhum
  <1>2. CASE m9 = [fase |-> "indo"]
    BY <1>2
  <1>3. ASSUME NEW t \in 0..MaxRegistros, m9 = [fase |-> "contada", total |-> t]
        PROVE  m9.fase = "contada" /\ m9.total = t
    BY <1>3
  <1>4. ASSUME NEW t \in 0..MaxRegistros, NEW S \in SUBSET (1..MaxRegistros),
               m9 = [fase |-> "lida", total |-> t, items |-> S]
        PROVE  m9.fase = "lida" /\ m9.total = t /\ m9.items = S
    BY <1>4
  <1>. QED  BY <1>1, <1>2, <1>3, <1>4 DEF PedidoDaTrilha

LEMMA TrilhaInicia ==
  ASSUME Audit!ConstantesOk, Audit!Init
  PROVE  TrilhaInv
  <1>1. /\ PAGE_SIZE \in Nat \ {0} /\ MaxRegistros \in Nat /\ MaxFiltros \in Nat
        /\ Iniciais \in Nat /\ 1 <= Iniciais /\ Iniciais <= MaxRegistros
    BY DEF Audit!ConstantesOk
  <1>2. /\ m1 = Iniciais + 1 /\ m2 = 1 /\ m3 = {Iniciais} /\ m4 = "" /\ m5 = 0 /\ m6 = {} /\ m7 = 0
        /\ m8 = FALSE /\ m9 = [fase |-> "indo"] /\ m10 = 0 /\ m11 = 1..Iniciais /\ m12 = {}
        /\ m13 = FALSE
    BY DEF Audit!Init
  <1>3. Audit!TypeOK
    <2>1. Audit!Cardinality(m6) <= PAGE_SIZE
      <3>1. Cardinality({}) = 0 /\ 0 <= PAGE_SIZE
        BY <1>1, FS_EmptySet
      <3>. QED  BY <1>2, <3>1 DEF Audit!Cardinality, Cardinality
    <2>2. \E n \in 0..MaxRegistros : m5 = n * PAGE_SIZE
      <3>1. 0 \in 0..MaxRegistros
        BY <1>1
      <3>2. 0 = 0 * PAGE_SIZE
        BY <1>1
      <3>. QED  BY <1>2, <3>1, <3>2
    <2>3. /\ m1 \in 1..(MaxRegistros + 1) /\ m2 \in 1..m1
          /\ m7 \in 0..MaxRegistros /\ m10 \in 0..MaxFiltros
      <3>1. Iniciais + 1 \in 1..(MaxRegistros + 1) /\ 1 \in 1..(Iniciais + 1)
        BY <1>1
      <3>2. 0 \in 0..MaxRegistros /\ 0 \in 0..MaxFiltros
        BY <1>1
      <3>. QED  BY <1>2, <3>1, <3>2
    <2>4. m3 \subseteq 1..MaxRegistros /\ m11 \subseteq 1..MaxRegistros
      <3>1. \A e \in 1..Iniciais : e \in 1..MaxRegistros
        BY <1>1
      <3>2. Iniciais \in 1..Iniciais
        BY <1>1
      <3>. QED  BY <1>2, <3>1, <3>2
    <2>5. m4 \in Audit!RESULTS /\ m9.fase = "indo" /\ m6 \subseteq 1..MaxRegistros
          /\ m12 \subseteq 1..MaxRegistros /\ m8 \in BOOLEAN /\ m13 \in BOOLEAN
      BY <1>2 DEF Audit!RESULTS
    <2>. QED  BY <2>1, <2>2, <2>3, <2>4, <2>5 DEF Audit!TypeOK
  <1>4. PedidoDaTrilha /\ m9.fase = "indo"
    BY <1>2 DEF PedidoDaTrilha
  <1>5. \A e \in m11 : e \in Nat /\ e < m1 /\ 0 <= m1 - 1 - e
    <2>1. PICK k : k = Iniciais + 1
      OBVIOUS
    <2>2. \A e \in 1..Iniciais : e \in Nat /\ e < k /\ 0 <= k - 1 - e
      BY <1>1, <2>1
    <2>3. m1 = k /\ m11 = 1..Iniciais
      BY <1>2, <2>1
    <2>. QED  BY <2>2, <2>3
  <1>6. Depois(m5, m12)
    BY <1>2, <1>5 DEF Depois, AVer, Antes
  <1>. QED  BY <1>2, <1>3, <1>4, <1>5, <1>6 DEF TrilhaInv, Dividas

\* What the server does meanwhile, with the page as it is: nothing comes nearer to the first
\* page, and what there was to show is never more.
LEMMA DividasFicam ==
  ASSUME Dividas, UNCHANGED <<m5, m6, m7, m8, m9, m11, m12>>,
         ~m13' => ~m13,
         m9.fase = "contada" /\ ~m13' => m9.total >= m1' - m2',
         m5 \in Nat, PAGE_SIZE \in Nat \ {0},
         \A e \in m11 \cap Audit!Existem' :
            e \in Audit!Existem /\ Antes(e) \in Int /\ Antes(e)' \in Int /\ Antes(e)' >= Antes(e)
  PROVE  Dividas'
  <1>1. ASSUME NEW S PROVE AVer(S)' \subseteq AVer(S)
    BY DEF AVer
  <1>2. ASSUME NEW S, NEW o \in Nat, Depois(o, S) PROVE Depois(o, S)'
    <2>1. ASSUME NEW e \in AVer(S)' PROVE o <= Antes(e)'
      <3>1. e \in AVer(S) /\ e \in m11 \cap Audit!Existem'
        BY <1>1 DEF AVer
      <3>2. o <= Antes(e)
        BY <1>2, <3>1 DEF Depois
      <3>3. Antes(e) \in Int /\ Antes(e)' \in Int /\ Antes(e)' >= Antes(e)
        BY <3>1
      <3>. QED  BY <3>2, <3>3
    <2>. QED  BY <2>1 DEF Depois
  <1>3. m5 + PAGE_SIZE \in Nat
    OBVIOUS
  <1>4. Depois(m5, m12)'
    <2>. DEFINE o == m5
                S == m12
    <2>1. PICK a, B : a = m5 /\ B = m12
      OBVIOUS
    <2>2. Depois(a, B)'
      BY <1>2, <2>1 DEF Dividas
    <2>. QED  BY <2>1, <2>2 DEF Depois
  <1>5. m9.fase = "lida" =>
          /\ Depois(m5 + PAGE_SIZE, m12 \cup m9.items)'
          /\ AVer(m12 \cup m9.items)' \subseteq AVer(m12 \cup m9.items)
    <2>1. PICK a, B : a = m5 + PAGE_SIZE /\ B = m12 \cup m9.items
      OBVIOUS
    <2>2. m9.fase = "lida" => Depois(a, B)'
      BY <1>2, <1>3, <2>1 DEF Dividas
    <2>3. AVer(B)' \subseteq AVer(B)
      BY <1>1
    <2>. QED  BY <2>1, <2>2, <2>3 DEF Depois, AVer
  <1>6. m9.fase = "nenhum" /\ ~m8 => Depois(m5 + PAGE_SIZE, m12)'
    <2>1. PICK a, B : a = m5 + PAGE_SIZE /\ B = m12
      OBVIOUS
    <2>2. m9.fase = "nenhum" /\ ~m8 => Depois(a, B)'
      BY <1>2, <1>3, <2>1 DEF Dividas
    <2>. QED  BY <2>1, <2>2 DEF Depois, AVer
  <1>7. AVer(m12)' \subseteq AVer(m12)
    BY DEF AVer
  <1>. QED  BY <1>4, <1>5, <1>6, <1>7 DEF Dividas

\* An entry is written: the pages move on, and the page counted before may be short.
LEMMA TrilhaRegistra ==
  ASSUME Audit!ConstantesOk, TrilhaInv, Audit!Registra
  PROVE  TrilhaInv'
  <1>1. Audit!TypeOK /\ PedidoDaTrilha /\ (\A e \in m11 : e \in Nat /\ e < m1)
        /\ (m8 => m7 = 0) /\ (m4 = "" => Dividas)
    BY DEF TrilhaInv
  <1>2. /\ PAGE_SIZE \in Nat \ {0} /\ MaxRegistros \in Nat /\ m1 \in Nat /\ m2 \in Nat
        /\ m2 <= m1 /\ 1 <= m2 /\ m5 \in Nat
    BY <1>1, TrilhaNumeros
  <1>3. /\ m1 <= MaxRegistros /\ m1' = m1 + 1 /\ m3' = m3 \cup {m1}
        /\ m13' = (m13 \/ m9.fase = "contada")
        /\ UNCHANGED <<m2, m4, m5, m6, m7, m8, m9, m10, m11, m12>>
    BY DEF Audit!Registra
  <1>4. Audit!TypeOK'
    <2>1. m1 + 1 \in 1..(MaxRegistros + 1) /\ m2 \in 1..(m1 + 1) /\ m1 \in 1..MaxRegistros
      BY <1>2, <1>3
    <2>2. m1' \in 1..(MaxRegistros + 1) /\ m2' \in 1..m1' /\ m3' \subseteq 1..MaxRegistros
      BY <1>1, <1>3, <2>1 DEF Audit!TypeOK
    <2>3. m13' \in BOOLEAN
      BY <1>3
    <2>. QED  BY <1>1, <1>3, <2>2, <2>3 DEF Audit!TypeOK
  <1>5. PedidoDaTrilha'
    BY <1>1, <1>3 DEF PedidoDaTrilha
  <1>6. \A e \in m11' : e \in Nat /\ e < m1'
    <2>1. ASSUME NEW e \in m11 PROVE e \in Nat /\ e < m1 + 1
      <3>1. e \in Nat /\ e < m1
        BY <1>1
      <3>. QED  BY <1>2, <3>1
    <2>. QED  BY <1>3, <2>1
  <1>7. m4 = "" => Dividas'
    <2>1. \A e \in m11 \cap Audit!Existem' :
            e \in Audit!Existem /\ Antes(e) \in Int /\ Antes(e)' \in Int /\ Antes(e)' >= Antes(e)
      <3>1. SUFFICES ASSUME NEW e \in m11, e \in Audit!Existem'
                     PROVE  e \in Audit!Existem /\ Antes(e) \in Int /\ Antes(e)' \in Int
                            /\ Antes(e)' >= Antes(e)
        OBVIOUS
      <3>2. e \in Nat /\ e < m1
        BY <1>1, <3>1
      <3>3. e \in m2..(m1' - 1)
        BY <1>3, <3>1 DEF Audit!Existem
      <3>4. m2 <= e
        <4>1. m1' - 1 \in Int
          BY <1>2, <1>3
        <4>. QED  BY <1>2, <3>2, <3>3, <4>1
      <3>5. e \in m2..(m1 - 1)
        BY <1>2, <3>2, <3>4
      <3>. QED  BY <1>2, <1>3, <3>2, <3>5 DEF Audit!Existem, Antes
    <2>2. (~m13' => ~m13) /\ ~(m9.fase = "contada" /\ ~m13')
      BY <1>3
    <2>. QED  BY <1>1, <1>2, <1>3, <2>1, <2>2, DividasFicam
  <1>. QED  BY <1>1, <1>3, <1>4, <1>5, <1>6, <1>7 DEF TrilhaInv

\* A request ends: its entry is there as before.
LEMMA TrilhaConclui ==
  ASSUME Audit!ConstantesOk, TrilhaInv, NEW r \in 1..MaxRegistros, Audit!Conclui(r)
  PROVE  TrilhaInv'
  <1>1. Audit!TypeOK /\ PedidoDaTrilha /\ (\A e \in m11 : e \in Nat /\ e < m1)
        /\ (m8 => m7 = 0) /\ (m4 = "" => Dividas)
    BY DEF TrilhaInv
  <1>2. /\ m3' = m3 \ {r}
        /\ UNCHANGED <<m1, m2, m4, m5, m6, m7, m8, m9, m10, m11, m12, m13>>
    BY DEF Audit!Conclui
  <1>3. Audit!TypeOK'
    BY <1>1, <1>2 DEF Audit!TypeOK
  <1>4. PedidoDaTrilha' /\ (Dividas => Dividas')
    BY <1>1, <1>2 DEF PedidoDaTrilha, Dividas, Depois, AVer, Antes, Audit!Existem
  <1>. QED  BY <1>1, <1>2, <1>3, <1>4 DEF TrilhaInv

\* Retention takes the oldest entry: there is less to show.
LEMMA TrilhaPoda ==
  ASSUME Audit!ConstantesOk, TrilhaInv, Audit!Poda
  PROVE  TrilhaInv'
  <1>1. Audit!TypeOK /\ PedidoDaTrilha /\ (\A e \in m11 : e \in Nat /\ e < m1)
        /\ (m8 => m7 = 0) /\ (m4 = "" => Dividas)
    BY DEF TrilhaInv
  <1>2. /\ PAGE_SIZE \in Nat \ {0} /\ MaxRegistros \in Nat /\ m1 \in Nat /\ m2 \in Nat
        /\ m2 <= m1 /\ 1 <= m2 /\ m5 \in Nat
    BY <1>1, TrilhaNumeros
  <1>3. /\ m2 < m1 /\ m2' = m2 + 1 /\ m3' = m3 \ {m2}
        /\ UNCHANGED <<m1, m4, m5, m6, m7, m8, m9, m10, m11, m12, m13>>
    BY DEF Audit!Poda
  <1>4. Audit!TypeOK'
    <2>1. m2 + 1 \in 1..m1
      BY <1>2, <1>3
    <2>2. m2' \in 1..m1' /\ m3' \subseteq 1..MaxRegistros
      BY <1>1, <1>3, <2>1 DEF Audit!TypeOK
    <2>. QED  BY <1>1, <1>3, <2>2 DEF Audit!TypeOK
  <1>5. PedidoDaTrilha'
    BY <1>1, <1>3 DEF PedidoDaTrilha
  <1>6. m4 = "" => Dividas'
    <2>1. \A e \in m11 \cap Audit!Existem' :
            e \in Audit!Existem /\ Antes(e) \in Int /\ Antes(e)' \in Int /\ Antes(e)' >= Antes(e)
      <3>1. SUFFICES ASSUME NEW e \in m11, e \in Audit!Existem'
                     PROVE  e \in Audit!Existem /\ Antes(e) \in Int /\ Antes(e)' \in Int
                            /\ Antes(e)' >= Antes(e)
        OBVIOUS
      <3>2. e \in Nat /\ e < m1
        BY <1>1, <3>1
      <3>3. e \in (m2 + 1)..(m1 - 1)
        BY <1>3, <3>1 DEF Audit!Existem
      <3>4. m2 <= e
        BY <1>2, <3>2, <3>3
      <3>5. e \in m2..(m1 - 1)
        BY <1>2, <3>2, <3>4
      <3>. QED  BY <1>2, <1>3, <3>2, <3>5 DEF Audit!Existem, Antes
    <2>2. m9.fase = "contada" /\ ~m13 /\ Dividas => m9.total >= m1' - m2'
      <3>1. m9.fase = "contada" => m9.total \in 0..MaxRegistros
        BY <1>1, PedidoDaTrilhaForma
      <3>2. m9.fase = "contada" /\ ~m13 /\ Dividas => m9.total >= m1 - m2
        BY DEF Dividas
      <3>. QED  BY <1>2, <1>3, <3>1, <3>2
    <2>. QED  BY <1>1, <1>2, <1>3, <2>1, <2>2, DividasFicam
  <1>. QED  BY <1>1, <1>3, <1>4, <1>5, <1>6 DEF TrilhaInv

\* A filter is applied: what there is is still to be shown, from the first page on.
LEMMA TrilhaAplicar ==
  ASSUME Audit!ConstantesOk, TrilhaInv, NEW f \in Audit!RESULTS, Audit!Aplicar(f)
  PROVE  TrilhaInv'
  <1>1. Audit!TypeOK /\ (m8 => m7 = 0)
    BY DEF TrilhaInv
  <1>2. /\ PAGE_SIZE \in Nat \ {0} /\ MaxRegistros \in Nat /\ m1 \in Nat /\ m2 \in Nat
        /\ m2 <= m1 /\ 1 <= m2 /\ m5 \in Nat /\ Audit!Existem = m2..(m1 - 1)
        /\ Audit!Existem \subseteq 1..MaxRegistros
    BY <1>1, TrilhaNumeros
  <1>3. /\ m10 < MaxFiltros /\ m10' = m10 + 1 /\ m4' = f /\ m5' = 0 /\ m9' = [fase |-> "indo"]
        /\ m13' = FALSE /\ m11' = Audit!Filtrados(f) /\ m12' = {}
        /\ UNCHANGED <<m1, m2, m3, m6, m7, m8>>
    BY DEF Audit!Aplicar, Audit!Pede
  <1>4. m11' \subseteq Audit!Existem /\ m9'.fase = "indo"
    BY <1>3 DEF Audit!Filtrados
  <1>5. \A e \in Audit!Existem : e \in Nat /\ e < m1 /\ 0 <= m1 - 1 - e
    BY <1>2
  <1>6. Audit!TypeOK'
    <2>1. 0 \in 0..MaxRegistros /\ 0 = 0 * PAGE_SIZE
      BY <1>2
    <2>2. m10' \in 0..MaxFiltros
      <3>1. MaxFiltros \in Nat /\ m10 \in 0..MaxFiltros
        BY <1>1 DEF Audit!ConstantesOk, Audit!TypeOK
      <3>. QED  BY <1>3, <3>1
    <2>3. \E n \in 0..MaxRegistros : m5' = n * PAGE_SIZE
      BY <1>3, <2>1
    <2>4. m11' \subseteq 1..MaxRegistros /\ m12' \subseteq 1..MaxRegistros /\ m13' \in BOOLEAN
      BY <1>2, <1>3, <1>4
    <2>. QED  BY <1>1, <1>3, <1>4, <2>2, <2>3, <2>4 DEF Audit!TypeOK
  <1>7. PedidoDaTrilha'
    BY <1>3 DEF PedidoDaTrilha
  <1>8. \A e \in m11' : e \in Nat /\ e < m1'
    BY <1>3, <1>4, <1>5
  <1>9. Dividas'
    <2>1. ASSUME NEW e \in m11' PROVE 0 <= Antes(e)'
      BY <1>3, <1>4, <1>5 DEF Antes
    <2>2. Depois(m5, m12)'
      BY <1>3, <2>1 DEF Depois, AVer
    <2>. QED  BY <1>4, <2>2 DEF Dividas
  <1>. QED  BY <1>1, <1>3, <1>6, <1>7, <1>8, <1>9 DEF TrilhaInv

\* A page back: what was not shown is no earlier than the page asked for before.
LEMMA TrilhaAnterior ==
  ASSUME Audit!ConstantesOk, TrilhaInv, Audit!Anterior
  PROVE  TrilhaInv'
  <1>1. Audit!TypeOK /\ (\A e \in m11 : e \in Nat /\ e < m1)
        /\ (m8 => m7 = 0) /\ (m4 = "" => Dividas)
    BY DEF TrilhaInv
  <1>2. PAGE_SIZE \in Nat \ {0} /\ MaxRegistros \in Nat /\ m1 \in Nat /\ m5 \in Nat
    BY <1>1, TrilhaNumeros
  <1>3. /\ m5' = IF m5 > PAGE_SIZE THEN m5 - PAGE_SIZE ELSE 0
        /\ m9' = [fase |-> "indo"] /\ m13' = FALSE
        /\ UNCHANGED <<m1, m2, m3, m4, m6, m7, m8, m10, m11, m12>>
    BY DEF Audit!Anterior, Audit!Pede
  <1>4. m9'.fase = "indo" /\ m13' \in BOOLEAN /\ PedidoDaTrilha'
    BY <1>3 DEF PedidoDaTrilha
  <1>5. \E n \in 0..MaxRegistros : m5' = n * PAGE_SIZE
    <2>1. PICK n \in 0..MaxRegistros : m5 = n * PAGE_SIZE
      BY <1>1 DEF Audit!TypeOK
    <2>2. CASE m5 > PAGE_SIZE
      <3>1. n - 1 \in Nat /\ n * PAGE_SIZE - PAGE_SIZE = (n - 1) * PAGE_SIZE
        BY <1>2, <2>1, <2>2, Paginas
      <3>2. n - 1 \in 0..MaxRegistros
        BY <1>2, <3>1
      <3>3. m5' = (n - 1) * PAGE_SIZE
        BY <1>3, <2>1, <2>2, <3>1
      <3>. QED  BY <3>2, <3>3
    <2>3. CASE ~(m5 > PAGE_SIZE)
      <3>1. 0 \in 0..MaxRegistros /\ 0 = 0 * PAGE_SIZE
        BY <1>2
      <3>. QED  BY <1>3, <2>3, <3>1
    <2>. QED  BY <2>2, <2>3
  <1>6. Audit!TypeOK'
    BY <1>1, <1>3, <1>4, <1>5 DEF Audit!TypeOK
  <1>7. m4 = "" => Dividas'
    <2>1. SUFFICES ASSUME m4 = "" PROVE Depois(m5, m12)'
      BY <1>4 DEF Dividas
    <2>2. m5' \in Nat /\ m5' <= m5
      BY <1>2, <1>3
    <2>3. ASSUME NEW e \in AVer(m12) PROVE m5 <= Antes(e) /\ Antes(e) \in Int
      <3>1. m5 <= Antes(e)
        BY <1>1, <2>1 DEF Dividas, Depois
      <3>2. e \in Nat
        BY <1>1 DEF AVer
      <3>. QED  BY <1>2, <3>1, <3>2 DEF Antes
    <2>4. \A e \in AVer(m12) : m5' <= Antes(e)
      BY <1>2, <2>2, <2>3
    <2>. QED  BY <1>3, <2>4 DEF Depois, AVer, Antes, Audit!Existem
  <1>. QED  BY <1>1, <1>3, <1>4, <1>6, <1>7 DEF TrilhaInv

\* A page on: the page left was read, and what was not shown is after it.
LEMMA TrilhaProxima ==
  ASSUME Audit!ConstantesOk, TrilhaInv, Audit!Proxima
  PROVE  TrilhaInv'
  <1>1. Audit!TypeOK /\ (\A e \in m11 : e \in Nat /\ e < m1)
        /\ (m8 => m7 = 0) /\ (m4 = "" => Dividas)
    BY DEF TrilhaInv
  <1>2. PAGE_SIZE \in Nat \ {0} /\ MaxRegistros \in Nat /\ m1 \in Nat /\ m5 \in Nat
        /\ m7 \in 0..MaxRegistros
    BY <1>1, TrilhaNumeros DEF Audit!TypeOK
  <1>3. /\ m5 + Audit!Cardinality(m6) < m7 /\ m9 = Audit!Nenhum /\ m7 > 0
        /\ m5' = m5 + PAGE_SIZE /\ m9' = [fase |-> "indo"] /\ m13' = FALSE
        /\ UNCHANGED <<m1, m2, m3, m4, m6, m7, m8, m10, m11, m12>>
    BY DEF Audit!Proxima, Audit!Pede, Audit!TemProxima, Audit!Loading
  <1>4. m9'.fase = "indo" /\ m13' \in BOOLEAN /\ PedidoDaTrilha'
    BY <1>3 DEF PedidoDaTrilha
  <1>5. \E n \in 0..MaxRegistros : m5' = n * PAGE_SIZE
    <2>1. PICK n \in 0..MaxRegistros : m5 = n * PAGE_SIZE
      BY <1>1 DEF Audit!TypeOK
    <2>2. n \in Nat /\ n <= n * PAGE_SIZE /\ (n + 1) * PAGE_SIZE = n * PAGE_SIZE + PAGE_SIZE
      <3>1. n \in Nat
        BY <1>2, <2>1
      <3>. QED  BY <1>2, <3>1, Paginas
    <2>3. Audit!Cardinality(m6) \in Nat
      <3>1. m6 \in SUBSET (1..MaxRegistros)
        BY <1>1 DEF Audit!TypeOK
      <3>2. Cardinality(m6) \in Nat
        BY <1>2, <3>1, Finito
      <3>. QED  BY <3>2 DEF Audit!Cardinality, Cardinality
    <2>4. m5 < MaxRegistros
      BY <1>2, <1>3, <2>3
    <2>5. n < MaxRegistros
      BY <1>2, <2>1, <2>2, <2>4
    <2>6. n + 1 \in 0..MaxRegistros
      BY <1>2, <2>2, <2>5
    <2>7. m5' = (n + 1) * PAGE_SIZE
      BY <1>3, <2>1, <2>2
    <2>. QED  BY <2>6, <2>7
  <1>6. Audit!TypeOK'
    BY <1>1, <1>3, <1>4, <1>5 DEF Audit!TypeOK
  <1>7. m4 = "" => Dividas'
    <2>1. SUFFICES ASSUME m4 = "" PROVE Depois(m5, m12)'
      BY <1>4 DEF Dividas
    <2>2. ~m8
      <3>1. m7 # 0
        BY <1>2, <1>3
      <3>. QED  BY <1>1, <3>1
    <2>3. m9.fase = "nenhum"
      BY <1>3 DEF Audit!Nenhum
    <2>4. Depois(m5 + PAGE_SIZE, m12)
      BY <1>1, <2>1, <2>2, <2>3 DEF Dividas
    <2>. QED  BY <1>3, <2>4 DEF Depois, AVer, Antes, Audit!Existem
  <1>. QED  BY <1>1, <1>3, <1>4, <1>6, <1>7 DEF TrilhaInv

\* The entries are counted: all there are, when no filter is applied.
LEMMA TrilhaConta ==
  ASSUME Audit!ConstantesOk, TrilhaInv, Audit!Conta
  PROVE  TrilhaInv'
  <1>1. Audit!TypeOK /\ (\A e \in m11 : e \in Nat /\ e < m1)
        /\ (m8 => m7 = 0) /\ (m4 = "" => Dividas)
    BY DEF TrilhaInv
  <1>2. /\ PAGE_SIZE \in Nat \ {0} /\ MaxRegistros \in Nat /\ m1 \in Nat /\ m2 \in Nat
        /\ m2 <= m1 /\ m1 <= MaxRegistros + 1 /\ 1 <= m2 /\ Audit!Existem = m2..(m1 - 1)
        /\ Audit!Existem \subseteq 1..MaxRegistros
    BY <1>1, TrilhaNumeros
  <1>. DEFINE t == Audit!Cardinality(Audit!Filtrados(m4))
  <1>3. /\ m9' = [fase |-> "contada", total |-> t]
        /\ UNCHANGED <<m1, m2, m3, m4, m5, m6, m7, m8, m10, m11, m12, m13>>
    BY DEF Audit!Conta
  <1>4. t \in 0..MaxRegistros
    <2>1. Audit!Filtrados(m4) \in SUBSET (1..MaxRegistros)
      BY <1>2 DEF Audit!Filtrados
    <2>2. Cardinality(Audit!Filtrados(m4)) \in 0..MaxRegistros
      BY <1>2, <2>1, Finito
    <2>. QED  BY <2>2 DEF Audit!Cardinality, Cardinality
  <1>5. m4 = "" => t = m1 - m2
    <2>1. Cardinality(m2..(m1 - 1)) = m1 - m2
      <3>1. m2 \in Int /\ m1 - 1 \in Int
        BY <1>2
      <3>2. Cardinality(m2..(m1 - 1)) = IF m2 > m1 - 1 THEN 0 ELSE (m1 - 1) - m2 + 1
        BY <3>1, FS_Interval
      <3>. QED  BY <1>2, <3>2
    <2>2. m4 = "" => Audit!Filtrados(m4) = m2..(m1 - 1)
      BY <1>2 DEF Audit!Filtrados
    <2>. QED  BY <2>1, <2>2 DEF Audit!Cardinality, Cardinality
  <1>. HIDE DEF t
  <1>6. m9'.fase = "contada" /\ m9'.total = t /\ PedidoDaTrilha'
    BY <1>3, <1>4 DEF PedidoDaTrilha
  <1>7. Audit!TypeOK'
    BY <1>1, <1>3, <1>6 DEF Audit!TypeOK
  <1>8. m4 = "" => Dividas'
    <2>1. SUFFICES ASSUME m4 = "" PROVE Dividas'
      OBVIOUS
    <2>2. Depois(m5, m12)'
      BY <1>1, <1>3, <2>1 DEF Dividas, Depois, AVer, Antes, Audit!Existem
    <2>3. m9'.total >= m1' - m2'
      <3>1. m1 - m2 >= m1 - m2
        BY <1>2
      <3>2. m9'.total = m1 - m2 /\ m1' = m1 /\ m2' = m2
        BY <1>3, <1>5, <1>6, <2>1
      <3>. QED  BY <3>1, <3>2
    <2>. QED  BY <1>6, <2>2, <2>3 DEF Dividas
  <1>. QED  BY <1>1, <1>3, <1>6, <1>7, <1>8 DEF TrilhaInv

\* The page is listed: what it leaves is after it, and was counted.
LEMMA TrilhaLista ==
  ASSUME Audit!ConstantesOk, TrilhaInv, Audit!Lista
  PROVE  TrilhaInv'
  <1>1. Audit!TypeOK /\ PedidoDaTrilha /\ (\A e \in m11 : e \in Nat /\ e < m1)
        /\ (m8 => m7 = 0) /\ (m4 = "" => Dividas)
    BY DEF TrilhaInv
  <1>2. /\ PAGE_SIZE \in Nat \ {0} /\ MaxRegistros \in Nat /\ m1 \in Nat /\ m2 \in Nat
        /\ m2 <= m1 /\ m5 \in Nat /\ Audit!Existem = m2..(m1 - 1)
        /\ Audit!Existem \subseteq 1..MaxRegistros
    BY <1>1, TrilhaNumeros
  <1>. DEFINE P == Audit!Pagina(Audit!Filtrados(m4), m5)
  <1>3. /\ m9.fase = "contada" /\ m9' = [fase |-> "lida", total |-> m9.total, items |-> P]
        /\ UNCHANGED <<m1, m2, m3, m4, m5, m6, m7, m8, m10, m11, m12, m13>>
    BY DEF Audit!Lista
  <1>4. m9.total \in 0..MaxRegistros
    BY <1>1, <1>3, PedidoDaTrilhaForma
  <1>5. P \in SUBSET (1..MaxRegistros) /\ Audit!Cardinality(P) <= PAGE_SIZE
    <2>1. Audit!Filtrados(m4) \in SUBSET (1..MaxRegistros)
      BY <1>2 DEF Audit!Filtrados
    <2>2. P \subseteq Audit!Filtrados(m4)
      BY DEF Audit!Pagina
    <2>. QED  BY <1>2, <2>1, <2>2, PaginaCurta
  <1>6. m4 = "" => P = Audit!Pagina(m2..(m1 - 1), m5)
    BY <1>2 DEF Audit!Filtrados
  <1>. HIDE DEF P
  <1>7. m9'.fase = "lida" /\ m9'.total = m9.total /\ m9'.items = P /\ PedidoDaTrilha'
    BY <1>3, <1>4, <1>5 DEF PedidoDaTrilha
  <1>8. Audit!TypeOK'
    BY <1>1, <1>3, <1>7 DEF Audit!TypeOK
  <1>9. m4 = "" => Dividas'
    <2>1. SUFFICES ASSUME m4 = "" PROVE Dividas'
      OBVIOUS
    <2>2. Depois(m5, m12) /\ (~m13 => m9.total >= m1 - m2)
      BY <1>1, <1>3, <2>1 DEF Dividas
    <2>3. ASSUME NEW e \in AVer(m12 \cup P)
          PROVE  m5 + PAGE_SIZE <= Antes(e) /\ m5 + Audit!Cardinality(P) < m1 - m2
      <3>1. e \in AVer(m12) /\ e \notin P /\ e \in m2..(m1 - 1)
        BY <1>2, <2>3 DEF AVer
      <3>2. m5 <= m1 - 1 - e
        BY <2>2, <3>1 DEF Depois, Antes
      <3>. QED  BY <1>2, <1>6, <2>1, <3>1, <3>2, PaginaInteira DEF Antes
    <2>4. Depois(m5, m12)'
      BY <1>3, <2>2 DEF Depois, AVer, Antes, Audit!Existem
    <2>5. Depois(m5 + PAGE_SIZE, m12 \cup m9.items)'
      BY <1>3, <1>7, <2>3 DEF Depois, AVer, Antes, Audit!Existem
    <2>6. ~m13 /\ AVer(m12 \cup P) # {} => m5 + Audit!Cardinality(P) < m9.total
      <3>1. Cardinality(P) \in Nat
        BY <1>2, <1>5, Finito
      <3>2. Audit!Cardinality(P) \in Nat
        BY <3>1 DEF Audit!Cardinality, Cardinality
      <3>3. AVer(m12 \cup P) # {} => m5 + Audit!Cardinality(P) < m1 - m2
        BY <2>3
      <3>4. m9.total \in Nat
        BY <1>2, <1>4
      <3>5. ~m13 => m9.total >= m1 - m2
        BY <2>2
      <3>6. m5 + Audit!Cardinality(P) < m1 - m2 /\ m9.total >= m1 - m2
              => m5 + Audit!Cardinality(P) < m9.total
        BY <1>2, <3>2, <3>4
      <3>. QED  BY <3>3, <3>5, <3>6
    <2>7. ~m13' /\ AVer(m12 \cup m9.items)' # {} => m5' + Audit!Cardinality(m9'.items) < m9'.total
      BY <1>3, <1>7, <2>6 DEF AVer, Audit!Existem
    <2>. QED  BY <1>7, <2>4, <2>5, <2>7 DEF Dividas
  <1>. QED  BY <1>1, <1>3, <1>7, <1>8, <1>9 DEF TrilhaInv

\* The answer arrives, and the page is what was read.
LEMMA TrilhaRecebe ==
  ASSUME Audit!ConstantesOk, TrilhaInv, Audit!Recebe
  PROVE  TrilhaInv'
  <1>1. Audit!TypeOK /\ PedidoDaTrilha /\ (\A e \in m11 : e \in Nat /\ e < m1)
        /\ (m4 = "" => Dividas)
    BY DEF TrilhaInv
  <1>2. /\ m9.fase = "lida" /\ m6' = m9.items /\ m7' = m9.total /\ m8' = FALSE
        /\ m9' = Audit!Nenhum /\ m12' = m12 \cup m9.items
        /\ UNCHANGED <<m1, m2, m3, m4, m5, m10, m11, m13>>
    BY DEF Audit!Recebe
  <1>3. /\ m9.total \in 0..MaxRegistros /\ m9.items \in SUBSET (1..MaxRegistros)
        /\ Audit!Cardinality(m9.items) <= PAGE_SIZE
    BY <1>1, <1>2, PedidoDaTrilhaForma
  <1>4. m9'.fase = "nenhum" /\ PedidoDaTrilha'
    BY <1>2 DEF PedidoDaTrilha, Audit!Nenhum
  <1>5. Audit!TypeOK'
    BY <1>1, <1>2, <1>3, <1>4 DEF Audit!TypeOK
  <1>6. m4 = "" => Dividas'
    <2>1. SUFFICES ASSUME m4 = "" PROVE Dividas'
      OBVIOUS
    <2>2. /\ Depois(m5, m12) /\ Depois(m5 + PAGE_SIZE, m12 \cup m9.items)
          /\ ~m13 /\ AVer(m12 \cup m9.items) # {} => m5 + Audit!Cardinality(m9.items) < m9.total
      BY <1>1, <1>2, <2>1 DEF Dividas
    <2>3. Depois(m5, m12)'
      BY <1>2, <2>2 DEF Depois, AVer, Antes, Audit!Existem
    <2>4. Depois(m5 + PAGE_SIZE, m12)'
      BY <1>2, <2>2 DEF Depois, AVer, Antes, Audit!Existem
    <2>5. ~m13' /\ AVer(m12)' # {} => m5' + Audit!Cardinality(m6') < m7'
      BY <1>2, <2>2 DEF AVer, Audit!Existem
    <2>. QED  BY <1>4, <2>3, <2>4, <2>5 DEF Dividas
  <1>. QED  BY <1>1, <1>2, <1>4, <1>5, <1>6 DEF TrilhaInv

\* The reading fails: there is no page, and the total says so.
LEMMA TrilhaFalha ==
  ASSUME Audit!ConstantesOk, TrilhaInv, Audit!Falha
  PROVE  TrilhaInv'
  <1>1. Audit!TypeOK /\ (\A e \in m11 : e \in Nat /\ e < m1) /\ (m4 = "" => Dividas)
    BY DEF TrilhaInv
  <1>2. PAGE_SIZE \in Nat \ {0} /\ MaxRegistros \in Nat
    BY <1>1, TrilhaNumeros
  <1>3. /\ m6' = {} /\ m7' = 0 /\ m8' = TRUE /\ m9' = Audit!Nenhum
        /\ UNCHANGED <<m1, m2, m3, m4, m5, m10, m11, m12, m13>>
    BY DEF Audit!Falha
  <1>4. m9'.fase = "nenhum" /\ PedidoDaTrilha'
    BY <1>3 DEF PedidoDaTrilha, Audit!Nenhum
  <1>5. Audit!TypeOK'
    <2>1. Audit!Cardinality(m6') <= PAGE_SIZE
      <3>1. Cardinality({}) = 0 /\ 0 <= PAGE_SIZE
        BY <1>2, FS_EmptySet
      <3>. QED  BY <1>3, <3>1 DEF Audit!Cardinality, Cardinality
    <2>2. m7' \in 0..MaxRegistros
      BY <1>2, <1>3
    <2>. QED  BY <1>1, <1>3, <1>4, <2>1, <2>2 DEF Audit!TypeOK
  <1>6. m4 = "" => Dividas'
    BY <1>1, <1>3, <1>4 DEF Dividas, Depois, AVer, Antes, Audit!Existem
  <1>. QED  BY <1>1, <1>3, <1>4, <1>5, <1>6 DEF TrilhaInv

\* Everything else leaves the trail and its pages alone.
LEMMA TrilhaParada ==
  ASSUME TrilhaInv, UNCHANGED Audit!vars
  PROVE  TrilhaInv'
  <1>1. UNCHANGED <<m1, m2, m3, m4, m5, m6, m7, m8, m9, m10, m11, m12, m13>>
    BY DEF Audit!vars
  <1>. QED  BY <1>1 DEF TrilhaInv, Audit!TypeOK, PedidoDaTrilha, Dividas, Depois, AVer, Antes,
                        Audit!Existem

\* With the last page on screen there is none after it, so nothing is left to show.
LEMMA TrilhaVale ==
  ASSUME Audit!ConstantesOk, TrilhaInv
  PROVE  Audit!NadaPulado
  <1>1. SUFFICES ASSUME m9 = Audit!Nenhum, ~m8, ~Audit!TemProxima, ~m13, m4 = ""
                 PROVE  AVer(m12) = {}
    BY DEF Audit!NadaPulado, Audit!Loading, AVer
  <1>2. Dividas /\ m9.fase = "nenhum"
    BY <1>1 DEF TrilhaInv, Audit!Nenhum
  <1>3. AVer(m12) # {} => m5 + Audit!Cardinality(m6) < m7
    BY <1>1, <1>2 DEF Dividas
  <1>. QED  BY <1>1, <1>3 DEF Audit!TemProxima

LEMMA TrilhaMantem ==
  ASSUME Audit!ConstantesOk, TrilhaInv, [Audit!Next]_(Audit!vars)
  PROVE  TrilhaInv'
  BY TrilhaRegistra, TrilhaConclui, TrilhaPoda, TrilhaAplicar, TrilhaAnterior, TrilhaProxima,
     TrilhaConta, TrilhaLista, TrilhaRecebe, TrilhaFalha, TrilhaParada DEF Audit!Next

\* The audit log skips nothing: whatever is written while the user leafs to the last page, every
\* entry that was there when the filter was applied and still is was shown, for every size of
\* the page and every number of entries.
THEOREM NadaFicaPulado ==
  ASSUME ConstantesDasTelas
  PROVE  Spec => []NadaPulado
  <1>1. Init => (tela = "auditoria" => TrilhaInv)
    BY InicioDaTela, TrilhaInicia DEF ConstantesDasTelas
  <1>2. (tela = "auditoria" => TrilhaInv) /\ [Next]_memoria => (tela = "auditoria" => TrilhaInv)'
    BY PassoDaTela, TrilhaMantem DEF ConstantesDasTelas
  <1>3. (tela = "auditoria" => TrilhaInv) => NadaPulado
    BY TrilhaVale DEF ConstantesDasTelas, NadaPulado
  <1>. QED  BY <1>1, <1>2, <1>3, PTL DEF Spec

-----------------------------------------------------------------------------
(* The types of every view.                                                *)

\* Each view has its invariant while it is on screen.
TelasInv ==
  /\ tela = "leituras"   => LeituraInv
  /\ tela = "edicoes"    => EdicaoInv
  /\ tela = "fluxo"      => FluxoP!FluxoInv
  /\ tela = "rascunho"   => DraftInv
  /\ tela = "plantas"    => PlantasInv
  /\ tela = "bancos"     => BancosInv
  /\ tela = "containers" => BoardInv
  /\ tela = "rede"       => RedeInv
  /\ tela = "auditoria"  => TrilhaInv
  /\ tela = "historico"  => HistoricoInv
  /\ tela = "esquema"    => DesenhoP!DesenhoInv
  /\ tela = "malha"      => Mesh!TypeOK

\* The types proved of the streams and of the diagram are those of the views.
LEMMA FluxoTipo ==
  ASSUME FluxoP!FluxoInv
  PROVE  Stream!TypeOK
  BY DEF FluxoP!FluxoInv, FluxoP!TypeOK, Stream!TypeOK, FluxoP!Efeitos, Stream!Efeitos, FluxoP!Nenhuma,
         Stream!Nenhuma, FluxoP!Estados, Stream!Estados

LEMMA DesenhoTipo ==
  ASSUME DesenhoP!DesenhoInv
  PROVE  Diagram!TypeOK
  <1>1. DesenhoP!TypeOK
    BY DEF DesenhoP!DesenhoInv, DesenhoP!DesceInv, DesenhoP!DiagramaInv
  <1>. QED  BY <1>1 DEF DesenhoP!TypeOK, Diagram!TypeOK, DesenhoP!NenhumaRaiz, Diagram!NenhumaRaiz,
                        DesenhoP!Estados, Diagram!Estados

LEMMA TelasIniciam ==
  ASSUME ConstantesDasTelas, Init
  PROVE  TelasInv
  BY InicioDaTela, FluxoMesmo, DesenhoMesmo, LeituraInicia, EdicaoInicia, FluxoP!FluxoInicia,
     DraftInicia, PlantasInicia, BancosInicia, QuadroInicia, RedeComeca, TrilhaInicia, HistoricoInicia,
     DesenhoP!DesenhoInicia, MalhaInicia
  DEF ConstantesDasTelas, TelasInv

LEMMA TelasMantem ==
  ASSUME ConstantesDasTelas, TelasInv, [Next]_memoria
  PROVE  TelasInv'
  BY PassoDaTela, FluxoMesmo, DesenhoMesmo, LeituraMantem, EdicaoMantem, FluxoP!FluxoMantem,
     DraftMantem, PlantasMantem, BancosMantem, QuadroMantem, RedeMantem, TrilhaMantem, HistoricoMantem,
     DesenhoP!DesenhoMantem, MalhaMantem
  DEF ConstantesDasTelas, TelasInv

\* Whatever the view on screen and whatever happens to it, its memory and its server keep
\* their types (the state of every view of the panel).
THEOREM TiposSempre ==
  ASSUME ConstantesDasTelas
  PROVE  Spec => []TypeOK
  <1>1. Init => TelasInv
    BY TelasIniciam
  <1>2. TelasInv /\ [Next]_memoria => TelasInv'
    BY TelasMantem
  <1>3. TelasInv => TypeOK
    <2>1. LeituraInv => Reads!TypeOK
      BY DEF LeituraInv
    <2>2. EdicaoInv => Edits!TypeOK
      BY DEF EdicaoInv
    <2>3. BancosInv => Data!TypeOK
      BY DEF BancosInv
    <2>4. TrilhaInv => Audit!TypeOK
      BY DEF TrilhaInv
    <2>5. HistoricoInv => History!TypeOK
      BY DEF HistoricoInv
    <2>6. BoardInv => Board!TypeOK
      BY DEF BoardInv
    <2>7. RedeInv => Net!TypeOK
      BY DEF RedeInv
    <2>. QED  BY <2>1, <2>2, <2>3, <2>4, <2>5, <2>6, <2>7, FluxoTipo, DesenhoTipo, DraftTipo, PlantasTipo
              DEF ConstantesDasTelas, TelasInv, TypeOK
  <1>. QED  BY <1>1, <1>2, <1>3, PTL DEF Spec
=============================================================================
