------------------------- MODULE SchemaDiagramProofs -------------------------
(***************************************************************************)
(* Theorems of SchemaDiagram, for any tables and any relations.            *)
(*                                                                         *)
(* NiveisContiguos takes what the stack of the walk is (PilhaEmOrdem): the *)
(* tables being visited, each once and each a target of the one below it,  *)
(* with targets of its own still to look at.  A finished table then never  *)
(* changes its level, and it is the reason of every level above it.        *)
(*                                                                         *)
(* RelacaoDesce takes DesceInv: any order that the relations follow orders *)
(* the stack, so that the only target being visited that the table on top  *)
(* may have is itself, and a finished table is above all of its targets.   *)
(*                                                                         *)
(* CabeNoDesenho takes NosInv: the boxes placed are the first of the       *)
(* tables, each below those of its level.  With no level left out, a level *)
(* is less than the number of levels in use, which gives the width.        *)
(***************************************************************************)
EXTENDS SchemaDiagram, SequenceTheorems, FiniteSetTheorems, WellFoundedInduction, TLAPS

Item == [id : Tabelas, resta : SUBSET Tabelas]

PilhaEmOrdem ==
  /\ \A i \in 1..Len(pilha) :
       estado[pilha[i].id] = "visitando" /\ pilha[i].resta \subseteq Saidas(pilha[i].id)
  /\ \A i, j \in 1..Len(pilha) : pilha[i].id = pilha[j].id => i = j
  /\ \A i \in 2..Len(pilha) : pilha[i].id \in Saidas(pilha[i - 1].id)

DiagramaInv == TypeOK /\ PilhaEmOrdem /\ NiveisContiguos

-----------------------------------------------------------------------------
(* The choice of a table, and the relations drawn.                          *)

\* The first of a set of naturals is not after any of them.
LEMMA PrimeiroEntra ==
  ASSUME NEW S \in SUBSET Nat, S # {}
  PROVE  Primeiro(S) \in S /\ \A u \in S : Primeiro(S) <= u
  <1>1. PICK t \in S : \A u \in S : ~(<<u, t>> \in OpToRel(<, Nat))
    BY NatLessThanWellFounded, WFMin
  <1>2. \A u \in S : ~(<<u, t>> \in {ss \in Nat \X Nat : ss[1] < ss[2]})
    BY <1>1 DEF OpToRel
  <1>3. ASSUME NEW u \in S PROVE t <= u
    <2>1. ~(<<u, t>>[1] < <<u, t>>[2])
      BY <1>2
    <2>. QED  BY <2>1
  <1>. QED  BY <1>3 DEF Primeiro

\* A finite set of integers has a last one.
LEMMA UltimoExiste ==
  ASSUME NEW S \in SUBSET Int, IsFiniteSet(S), S # {}
  PROVE  \E m \in S : \A u \in S : u <= m
  <1>. DEFINE TemUltimo(T) == \E m \in T : \A u \in T : u <= m
              Tamanhos == {k \in Nat : \E T \in SUBSET S : T # {} /\ Cardinality(T) = k /\ ~TemUltimo(T)}
              k == Primeiro(Tamanhos)
  <1>1. SUFFICES ASSUME Tamanhos # {} PROVE FALSE
    <2>1. Cardinality(S) \in Nat
      BY FS_CardinalityType
    <2>. QED  BY <2>1
  <1>2. k \in Tamanhos /\ \A j \in Tamanhos : k <= j
    <2>1. Tamanhos \in SUBSET Nat
      OBVIOUS
    <2>. HIDE DEF Tamanhos
    <2>. QED  BY <1>1, <2>1, PrimeiroEntra
  <1>. HIDE DEF k
  <1>3. PICK T \in SUBSET S : T # {} /\ Cardinality(T) = k /\ ~TemUltimo(T)
    BY <1>2
  <1>4. PICK x \in T : TRUE
    BY <1>3
  <1>5. IsFiniteSet(T) /\ IsFiniteSet(T \ {x}) /\ Cardinality(T \ {x}) = k - 1
    <2>1. IsFiniteSet(T)
      BY FS_Subset
    <2>. QED  BY <1>3, <1>4, <2>1, FS_RemoveElement
  <1>6. TemUltimo(T \ {x})
    <2>1. CASE T \ {x} = {}
      <3>1. T = {x} /\ x \in Int
        BY <1>4, <2>1
      <3>. QED  BY <1>3, <3>1
    <2>2. CASE T \ {x} # {}
      <3>1. k \in Nat /\ k - 1 \in Nat
        BY <1>2, <1>5, FS_CardinalityType
      <3>2. k - 1 \notin Tamanhos
        BY <1>2, <3>1
      <3>. QED  BY <1>5, <2>2, <3>1, <3>2
    <2>. QED  BY <2>1, <2>2
  <1>7. PICK m \in T \ {x} : \A u \in T \ {x} : u <= m
    BY <1>6
  <1>8. m \in Int /\ x \in Int /\ \A u \in T : u \in Int
    BY <1>4
  <1>9. TemUltimo(T)
    <2>1. CASE x <= m
      BY <1>7, <1>8, <2>1
    <2>2. CASE m < x
      BY <1>4, <1>7, <1>8, <2>2
    <2>. QED  BY <1>8, <2>1, <2>2
  <1>. QED  BY <1>3, <1>9

\* What a function makes of a finite set is finite.
LEMMA ImagemFinita ==
  ASSUME NEW S, IsFiniteSet(S), NEW f, DOMAIN f = S, f = [s \in S |-> f[s]]
  PROVE  IsFiniteSet({f[s] : s \in S})
  <1>. DEFINE T == {f[s] : s \in S}
  <1>1. f \in Surjection(S, T)
    <2>1. f \in [S -> T]
      OBVIOUS
    <2>2. \A t \in T : \E s \in S : f[s] = t
      OBVIOUS
    <2>. QED  BY <2>1, <2>2 DEF Surjection
  <1>. HIDE DEF T
  <1>2. IsFiniteSet(T)
    BY <1>1, FS_Surjection
  <1>. QED  BY <1>2 DEF T

\* Tables are numbers, and what is drawn or pointed at is a table.
LEMMA DesenhoTipo ==
  ASSUME ConstantesOk, TypeOK
  PROVE  /\ Tabelas \subseteq Nat
         /\ Desenhadas \subseteq Tabelas
         /\ \A t : Saidas(t) \subseteq Tabelas
  <1>1. Tabelas \subseteq Nat
    BY DEF ConstantesOk
  <1>2. presentes \subseteq Tabelas
    BY DEF TypeOK
  <1>3. Relacoes \subseteq Tabelas \X Tabelas
    BY <1>2 DEF Relacoes, DoEsquema
  <1>4. \A r \in Relacoes : r[1] \in Tabelas /\ r[2] \in Tabelas
    BY <1>3
  <1>5. ASSUME NEW t \in Visiveis, t = Raiz PROVE t \in Tabelas
    BY <1>2, <1>5 DEF Visiveis, Raiz
  <1>6. Desenhadas \subseteq Tabelas
    BY <1>4, <1>5 DEF Desenhadas, ComRelacao
  <1>7. \A t : Saidas(t) \subseteq Tabelas
    BY <1>4 DEF Saidas
  <1>. QED  BY <1>1, <1>6, <1>7

\* The walk and the placing change neither the relations drawn nor the tables.
LEMMA DesenhoFica ==
  ASSUME UNCHANGED entrada
  PROVE  \A t : Saidas(t)' = Saidas(t)
  <1>1. Visiveis' = Visiveis
    BY DEF entrada, Visiveis, Onda, Ligadas, DoEsquema, Raiz, Saltos, Menor, Maior
  <1>2. Relacoes' = Relacoes
    BY <1>1 DEF entrada, Relacoes, DoEsquema
  <1>. QED  BY <1>2 DEF Saidas

\* The targets of a table are the ends of its relations.
LEMMA SaidaRelacao ==
  ASSUME TypeOK
  PROVE  /\ \A t, u : u \in Saidas(t) => <<t, u>> \in Relacoes /\ <<t, u>> \in DoEsquema
         /\ \A r \in Relacoes : r[2] \in Saidas(r[1]) /\ r[1] \in Desenhadas
  <1>1. Relacoes \subseteq DoEsquema /\ DoEsquema \subseteq presentes \X presentes
    BY DEF Relacoes, DoEsquema
  <1>2. \A r \in Relacoes : r = <<r[1], r[2]>>
    BY <1>1
  <1>3. \A r \in Relacoes : r[2] \in Saidas(r[1])
    BY DEF Saidas
  <1>4. \A r \in Relacoes : r[1] \in Visiveis
    BY <1>2 DEF Relacoes
  <1>5. \A r \in Relacoes : r[1] \in Desenhadas
    BY <1>4 DEF Desenhadas, ComRelacao
  <1>6. ASSUME NEW t, NEW u \in Saidas(t) PROVE <<t, u>> \in Relacoes
    BY <1>2 DEF Saidas
  <1>. QED  BY <1>1, <1>3, <1>5, <1>6

\* an order of the tables that every relation between two of them follows
Ordena(ordem) == \A r \in DoEsquema : r[1] # r[2] => ordem[r[1]] > ordem[r[2]]

\* The walk changes neither the relations nor what is drawn.
LEMMA EntradaFica ==
  ASSUME UNCHANGED entrada
  PROVE  /\ Desenhadas' = Desenhadas /\ Relacoes' = Relacoes /\ DoEsquema' = DoEsquema
         /\ Aciclico' = Aciclico
         /\ \A ordem : Ordena(ordem)' = Ordena(ordem)
  <1>1. DoEsquema' = DoEsquema /\ Visiveis' = Visiveis /\ Raiz' = Raiz
    BY DEF entrada, Visiveis, Onda, Ligadas, DoEsquema, Raiz, Saltos, Menor, Maior
  <1>2. Relacoes' = Relacoes
    BY <1>1 DEF Relacoes
  <1>3. Desenhadas' = Desenhadas
    BY <1>1, <1>2 DEF Desenhadas, ComRelacao
  <1>. QED  BY <1>1, <1>2, <1>3 DEF Aciclico, Ordena

-----------------------------------------------------------------------------
(* Levels.                                                                  *)

\* A table that starts to be visited on the ground is nobody's reason for a level.
LEMMA ChaoContiguo ==
  ASSUME ConstantesOk, TypeOK, NiveisContiguos, NEW a \in Tabelas, estado[a] = "novo",
         Empilha(a), UNCHANGED entrada
  PROVE  NiveisContiguos'
  <1>1. ASSUME NEW t \in Tabelas, nivel'[t] > 0
        PROVE  \E u \in Saidas(t) : estado'[u] = "pronto" /\ nivel'[u] = nivel'[t] - 1
    <2>1. t # a /\ nivel'[t] = nivel[t]
      BY <1>1 DEF Empilha, TypeOK
    <2>2. PICK u \in Saidas(t) : estado[u] = "pronto" /\ nivel[u] = nivel[t] - 1
      BY <1>1, <2>1 DEF NiveisContiguos
    <2>3. u \in Tabelas /\ u # a
      BY <2>2, DesenhoTipo
    <2>4. estado'[u] = "pronto" /\ nivel'[u] = nivel[u]
      BY <2>2, <2>3 DEF Empilha, TypeOK
    <2>. QED  BY <2>1, <2>2, <2>4
  <1>. QED  BY <1>1, DesenhoFica DEF NiveisContiguos

\* A table being visited that rises over a finished target of its own stands on it.
LEMMA AcimaContiguo ==
  ASSUME ConstantesOk, TypeOK, NiveisContiguos, UNCHANGED entrada,
         NEW a \in Tabelas, estado[a] = "visitando",
         NEW b \in Saidas(a), b # a, estado'[b] = "pronto",
         \A u \in Tabelas : estado[u] = "pronto" => estado'[u] = "pronto",
         nivel' = Acima(a, b)
  PROVE  NiveisContiguos'
  <1>1. b \in Tabelas /\ nivel \in [Tabelas -> Nat]
    BY DesenhoTipo DEF TypeOK
  <1>2. nivel'[a] = Maior(nivel[a], nivel[b] + 1) /\ \A u \in Tabelas \ {a} : nivel'[u] = nivel[u]
    BY <1>1 DEF Acima
  <1>3. ASSUME NEW t \in Tabelas, nivel[t] > 0
        PROVE  \E u \in Saidas(t) : estado'[u] = "pronto" /\ nivel'[u] = nivel[t] - 1
    <2>1. PICK u \in Saidas(t) : estado[u] = "pronto" /\ nivel[u] = nivel[t] - 1
      BY <1>3 DEF NiveisContiguos
    <2>2. u \in Tabelas \ {a}
      BY <2>1, DesenhoTipo
    <2>. QED  BY <1>2, <2>1, <2>2
  <1>4. ASSUME NEW t \in Tabelas, nivel'[t] > 0
        PROVE  \E u \in Saidas(t) : estado'[u] = "pronto" /\ nivel'[u] = nivel'[t] - 1
    <2>1. CASE nivel'[t] = nivel[t]
      BY <1>3, <1>4, <2>1
    <2>2. CASE nivel'[t] # nivel[t]
      <3>1. t = a /\ nivel'[a] = nivel[b] + 1
        BY <1>1, <1>2, <2>2 DEF Maior
      <3>2. nivel'[b] = nivel[b]
        BY <1>1, <1>2
      <3>. QED  BY <1>1, <3>1, <3>2
    <2>. QED  BY <2>1, <2>2
  <1>. QED  BY <1>4, DesenhoFica DEF NiveisContiguos

-----------------------------------------------------------------------------
(* The steps of the walk.                                                   *)

\* Nothing was visited yet.
LEMMA DiagramaInicia ==
  ASSUME ConstantesOk, Init
  PROVE  DiagramaInv
  BY DEF ConstantesOk, Init, DiagramaInv, TypeOK, PilhaEmOrdem, NiveisContiguos, Estados

\* A new walk begins with one table on the stack.
LEMMA ComecaMantem ==
  ASSUME ConstantesOk, DiagramaInv, Comeca
  PROVE  DiagramaInv'
  <1>. DEFINE novas == {t \in Desenhadas : estado[t] = "novo"}
              a == Primeiro(novas)
  <1>1. a \in Tabelas /\ estado[a] = "novo" /\ Saidas(a) \subseteq Tabelas
    <2>1. novas \in SUBSET Nat /\ novas # {} /\ novas \subseteq Tabelas
      BY DesenhoTipo DEF DiagramaInv, Comeca
    <2>. QED  BY <2>1, PrimeiroEntra, DesenhoTipo DEF DiagramaInv
  <1>. HIDE DEF a
  <1>2. /\ Empilha(a) /\ UNCHANGED entrada /\ nos' = nos
        /\ pilha' = <<[id |-> a, resta |-> Saidas(a)]>>
    BY DEF Comeca, a
  <1>3. TypeOK'
    BY <1>1, <1>2 DEF DiagramaInv, TypeOK, Empilha, Estados, entrada
  <1>4. PilhaEmOrdem'
    <2>1. Len(pilha') = 1 /\ pilha'[1].id = a /\ pilha'[1].resta = Saidas(a)
      BY <1>2
    <2>2. estado'[a] = "visitando"
      BY <1>1, <1>2 DEF DiagramaInv, TypeOK, Empilha
    <2>. QED  BY <1>2, <2>1, <2>2, DesenhoFica DEF PilhaEmOrdem
  <1>5. NiveisContiguos'
    BY <1>1, <1>2, ChaoContiguo DEF DiagramaInv
  <1>. QED  BY <1>3, <1>4, <1>5 DEF DiagramaInv

\* The stack is a sequence of tables, each with targets of its own.
LEMMA PilhaTipo ==
  ASSUME DiagramaInv
  PROVE  /\ pilha \in Seq(Item) /\ Len(pilha) \in Nat
         /\ pilha # <<>> => Len(pilha) > 0
         /\ \A i \in 1..Len(pilha) :
              pilha[i] \in Item /\ pilha[i].id \in Tabelas /\ pilha[i].resta \subseteq Tabelas
  <1>1. pilha \in Seq(Item)
    BY DEF DiagramaInv, TypeOK, Item
  <1>2. /\ Len(pilha) \in Nat /\ pilha # <<>> => Len(pilha) > 0
        /\ \A i \in 1..Len(pilha) : pilha[i] \in Item
    BY <1>1
  <1>3. \A x \in Item : x.id \in Tabelas /\ x.resta \subseteq Tabelas
    BY DEF Item
  <1>. QED  BY <1>1, <1>2, <1>3

\* A target looked at leaves the stack as it was, but for that target.
LEMMA ExaminadaTipo ==
  ASSUME ConstantesOk, DiagramaInv, pilha # <<>>, NEW alvo
  PROVE  LET seguinte == [pilha EXCEPT ![Len(pilha)].resta = @ \ {alvo}] IN
         /\ seguinte \in Seq(Item) /\ Len(seguinte) = Len(pilha)
         /\ \A i \in 1..Len(pilha) :
              seguinte[i].id = pilha[i].id /\ seguinte[i].resta \subseteq pilha[i].resta
  <1>. DEFINE n == Len(pilha)
              seguinte == [pilha EXCEPT ![n].resta = @ \ {alvo}]
  <1>1. pilha \in Seq(Item) /\ n \in 1..n
    BY DEF DiagramaInv, TypeOK, Item
  <1>2. pilha[n] \in Item
    BY <1>1
  <1>3. seguinte = [pilha EXCEPT ![n] = [pilha[n] EXCEPT !.resta = pilha[n].resta \ {alvo}]]
    BY <1>1, <1>2
  <1>4. [pilha[n] EXCEPT !.resta = pilha[n].resta \ {alvo}] \in Item
    BY <1>2 DEF Item
  <1>. QED  BY <1>1, <1>2, <1>3, <1>4 DEF Item

\* The table on top is a table, being visited, and each target left is one of its own.
LEMMA TopoTipo ==
  ASSUME ConstantesOk, DiagramaInv, pilha # <<>>
  PROVE  /\ Topo \in Item /\ Len(pilha) \in Nat \ {0}
         /\ estado[Topo.id] = "visitando" /\ Topo.resta \subseteq Saidas(Topo.id)
         /\ Topo.resta # {} => Primeiro(Topo.resta) \in Topo.resta
  <1>1. Topo \in Item /\ Len(pilha) \in Nat \ {0}
    BY PilhaTipo DEF Topo
  <1>2. estado[Topo.id] = "visitando" /\ Topo.resta \subseteq Saidas(Topo.id)
    BY <1>1 DEF DiagramaInv, PilhaEmOrdem, Topo
  <1>3. Topo.resta \in SUBSET Nat
    BY <1>1, DesenhoTipo DEF DiagramaInv, Item
  <1>. QED  BY <1>1, <1>2, <1>3, PrimeiroEntra

\* A target: one not visited yet goes on the stack, a finished one lifts the top, and one
\* being visited is passed over.
LEMMA ExaminaMantem ==
  ASSUME ConstantesOk, DiagramaInv, Examina
  PROVE  DiagramaInv'
  <1>. DEFINE alvo == Primeiro(Topo.resta)
              n == Len(pilha)
              seguinte == [pilha EXCEPT ![n].resta = @ \ {alvo}]
  <1>1. /\ pilha # <<>> /\ UNCHANGED entrada /\ nos' = nos
        /\ Topo \in Item /\ n \in Nat \ {0} /\ estado[Topo.id] = "visitando"
        /\ alvo \in Topo.resta /\ alvo \in Saidas(Topo.id)
    BY TopoTipo DEF Examina
  <1>2. alvo \in Tabelas /\ Saidas(alvo) \in SUBSET Tabelas
    BY <1>1, DesenhoTipo DEF DiagramaInv
  <1>3. /\ seguinte \in Seq(Item) /\ Len(seguinte) = n
        /\ \A i \in 1..n : seguinte[i].id = pilha[i].id /\ seguinte[i].resta \subseteq pilha[i].resta
    BY <1>1, ExaminadaTipo
  <1>4. \/ estado[alvo] = "novo" /\ Empilha(alvo)
             /\ pilha' = Append(seguinte, [id |-> alvo, resta |-> Saidas(alvo)])
        \/ Terminada(alvo) /\ nivel' = Acima(Topo.id, alvo) /\ pilha' = seguinte /\ estado' = estado
        \/ pilha' = seguinte /\ estado' = estado /\ nivel' = nivel
    BY DEF Examina
  <1>. HIDE DEF alvo, seguinte
  <1>5. CASE estado[alvo] = "novo" /\ Empilha(alvo)
             /\ pilha' = Append(seguinte, [id |-> alvo, resta |-> Saidas(alvo)])
    <2>1. /\ pilha' \in Seq(Item) /\ Len(pilha') = n + 1
          /\ \A i \in 1..n : pilha'[i] = seguinte[i]
          /\ pilha'[n + 1] = [id |-> alvo, resta |-> Saidas(alvo)]
      <3>1. [id |-> alvo, resta |-> Saidas(alvo)] \in Item
        BY <1>2 DEF Item
      <3>. QED  BY <1>1, <1>3, <1>5, <3>1, AppendProperties
    <2>2. TypeOK'
      BY <1>1, <1>2, <1>5, <2>1 DEF DiagramaInv, TypeOK, Empilha, Estados, entrada, Item
    <2>3. estado'[alvo] = "visitando" /\ \A t \in Tabelas \ {alvo} : estado'[t] = estado[t]
      BY <1>2, <1>5 DEF DiagramaInv, TypeOK, Empilha
    <2>4. \A i \in 1..n : pilha[i].id \in Tabelas \ {alvo}
      <3>1. \A i \in 1..n : pilha[i].id \in Tabelas
        BY PilhaTipo
      <3>. QED  BY <1>5, <3>1 DEF DiagramaInv, PilhaEmOrdem
    <2>5. \A i \in 1..(n + 1) : i \in 1..n \/ i = n + 1
      BY <1>1
    <2>6. \A i \in 1..n : pilha'[i].id = pilha[i].id /\ pilha'[i].resta \subseteq pilha[i].resta
      BY <1>3, <2>1
    <2>7. PilhaEmOrdem'
      <3>1. ASSUME NEW i \in 1..(n + 1)
            PROVE  estado'[pilha'[i].id] = "visitando" /\ pilha'[i].resta \subseteq Saidas(pilha'[i].id)
        <4>1. CASE i \in 1..n
          <5>1. estado[pilha[i].id] = "visitando" /\ pilha[i].resta \subseteq Saidas(pilha[i].id)
            BY <4>1 DEF DiagramaInv, PilhaEmOrdem
          <5>. QED  BY <2>3, <2>4, <2>6, <4>1, <5>1
        <4>2. CASE i = n + 1
          BY <2>1, <2>3, <4>2
        <4>. QED  BY <2>5, <4>1, <4>2
      <3>2. ASSUME NEW i \in 1..(n + 1), NEW j \in 1..(n + 1), pilha'[i].id = pilha'[j].id PROVE i = j
        BY <1>1, <2>1, <2>4, <2>5, <2>6, <3>2 DEF DiagramaInv, PilhaEmOrdem
      <3>3. ASSUME NEW i \in 2..(n + 1) PROVE pilha'[i].id \in Saidas(pilha'[i - 1].id)
        <4>1. CASE i \in 2..n
          BY <1>1, <2>6, <4>1 DEF DiagramaInv, PilhaEmOrdem
        <4>2. CASE i = n + 1
          <5>1. i - 1 = n /\ pilha'[n].id = Topo.id
            BY <1>1, <2>6, <4>2 DEF Topo
          <5>. QED  BY <1>1, <2>1, <4>2, <5>1
        <4>. QED  BY <1>1, <4>1, <4>2
      <3>. QED  BY <1>1, <2>1, <3>1, <3>2, <3>3, DesenhoFica DEF PilhaEmOrdem
    <2>8. NiveisContiguos'
      BY <1>1, <1>2, <1>5, ChaoContiguo DEF DiagramaInv
    <2>. QED  BY <2>2, <2>7, <2>8 DEF DiagramaInv
  <1>6. ASSUME pilha' = seguinte, estado' = estado PROVE PilhaEmOrdem'
    <2>1. \A t : Saidas(t)' = Saidas(t)
      BY <1>1, DesenhoFica
    <2>. QED  BY <1>1, <1>3, <1>6, <2>1 DEF DiagramaInv, PilhaEmOrdem
  <1>7. CASE Terminada(alvo) /\ nivel' = Acima(Topo.id, alvo) /\ pilha' = seguinte /\ estado' = estado
    <2>1. Topo.id \in Tabelas
      BY <1>1 DEF Item
    <2>2. TypeOK'
      <3>1. nivel \in [Tabelas -> Nat]
        BY DEF DiagramaInv, TypeOK
      <3>2. nivel' \in [Tabelas -> Nat]
        BY <1>2, <1>7, <2>1, <3>1 DEF Acima, Maior
      <3>. QED  BY <1>1, <1>3, <1>7, <3>2 DEF DiagramaInv, TypeOK, entrada, Item
    <2>3. NiveisContiguos'
      BY <1>1, <1>2, <1>7, <2>1, AcimaContiguo DEF DiagramaInv, Terminada
    <2>. QED  BY <1>6, <1>7, <2>2, <2>3 DEF DiagramaInv
  <1>8. CASE pilha' = seguinte /\ estado' = estado /\ nivel' = nivel
    <2>1. TypeOK'
      BY <1>1, <1>3, <1>8 DEF DiagramaInv, TypeOK, entrada, Item
    <2>2. NiveisContiguos'
      BY <1>1, <1>8, DesenhoFica DEF DiagramaInv, NiveisContiguos
    <2>. QED  BY <1>6, <1>8, <2>1, <2>2 DEF DiagramaInv
  <1>. QED  BY <1>4, <1>5, <1>7, <1>8

\* A sequence without its last element.
LEMMA SemUltimo ==
  ASSUME NEW S, NEW q \in Seq(S), Len(q) # 0
  PROVE  LET r == SubSeq(q, 1, Len(q) - 1) IN
         /\ r \in Seq(S) /\ Len(r) = Len(q) - 1
         /\ \A i \in 1..(Len(q) - 1) : r[i] = q[i]
  <1>. DEFINE m == Len(q) - 1
  <1>1. m \in Nat /\ \A i \in 1..m : q[i] \in S
    OBVIOUS
  <1>. HIDE DEF m
  <1>2. /\ SubSeq(q, 1, m) \in Seq(S)
        /\ Len(SubSeq(q, 1, m)) = IF 1 <= m THEN m - 1 + 1 ELSE 0
        /\ \A i \in 1..(m - 1 + 1) : SubSeq(q, 1, m)[i] = q[1 + i - 1]
    BY <1>1, SubSeqProperties
  <1>3. m - 1 + 1 = m /\ \A i \in 1..m : 1 + i - 1 = i
    BY <1>1
  <1>4. Len(SubSeq(q, 1, m)) = m
    BY <1>1, <1>2
  <1>. QED  BY <1>2, <1>3, <1>4 DEF m

\* A table with no target left is finished, and the one below stands on it.
LEMMA DesempilhaMantem ==
  ASSUME ConstantesOk, DiagramaInv, Desempilha
  PROVE  DiagramaInv'
  <1>. DEFINE n == Len(pilha)
  <1>1. /\ UNCHANGED entrada /\ nos' = nos
        /\ Topo \in Item /\ Topo.id \in Tabelas /\ n \in Nat \ {0} /\ Topo = pilha[n]
        /\ estado' = [estado EXCEPT ![Topo.id] = "pronto"]
        /\ pilha' = SubSeq(pilha, 1, n - 1)
    BY TopoTipo DEF Desempilha, Topo, Item
  <1>2. pilha \in Seq(Item) /\ \A i \in 1..n : pilha[i] \in Item
    BY PilhaTipo
  <1>3. pilha' \in Seq(Item) /\ Len(pilha') = n - 1 /\ \A i \in 1..(n - 1) : pilha'[i] = pilha[i]
    BY <1>1, <1>2, SemUltimo
  <1>4. estado'[Topo.id] = "pronto" /\ \A t \in Tabelas \ {Topo.id} : estado'[t] = estado[t]
    BY <1>1 DEF DiagramaInv, TypeOK
  <1>5. \A i \in 1..(n - 1) : i \in 1..n /\ pilha[i].id \in Tabelas \ {Topo.id}
    <2>1. ASSUME NEW i \in 1..(n - 1) PROVE i \in 1..n /\ n \in 1..n /\ i # n
      BY <1>1
    <2>. QED  BY <1>1, <2>1, PilhaTipo DEF DiagramaInv, PilhaEmOrdem
  <1>6. PilhaEmOrdem'
    <2>1. ASSUME NEW i \in 1..(n - 1)
          PROVE  estado'[pilha'[i].id] = "visitando" /\ pilha'[i].resta \subseteq Saidas(pilha'[i].id)
      BY <1>3, <1>4, <1>5 DEF DiagramaInv, PilhaEmOrdem
    <2>2. ASSUME NEW i \in 1..(n - 1), NEW j \in 1..(n - 1), pilha'[i].id = pilha'[j].id PROVE i = j
      BY <1>3, <1>5, <2>2 DEF DiagramaInv, PilhaEmOrdem
    <2>3. ASSUME NEW i \in 2..(n - 1) PROVE pilha'[i].id \in Saidas(pilha'[i - 1].id)
      <3>1. i \in 2..n /\ i \in 1..(n - 1) /\ i - 1 \in 1..(n - 1)
        BY <1>1
      <3>. QED  BY <1>3, <3>1 DEF DiagramaInv, PilhaEmOrdem
    <2>4. \A t : Saidas(t)' = Saidas(t)
      BY <1>1, DesenhoFica
    <2>5. (\A i \in 1..Len(pilha) :
             estado[pilha[i].id] = "visitando" /\ pilha[i].resta \subseteq Saidas(pilha[i].id))'
      BY <1>3, <2>1, <2>4
    <2>6. (\A i, j \in 1..Len(pilha) : pilha[i].id = pilha[j].id => i = j)'
      BY <1>3, <2>2
    <2>7. (\A i \in 2..Len(pilha) : pilha[i].id \in Saidas(pilha[i - 1].id))'
      BY <1>3, <2>3, <2>4
    <2>. QED  BY <2>5, <2>6, <2>7 DEF PilhaEmOrdem
  <1>7. CASE n > 1
    <2>. DEFINE p == pilha[n - 1].id
    <2>1. nivel' = Acima(p, Topo.id)
      BY <1>7 DEF Desempilha
    <2>2. /\ p \in Tabelas /\ p # Topo.id /\ estado[p] = "visitando" /\ Topo.id \in Saidas(p)
      BY <1>1, <1>5, <1>7 DEF DiagramaInv, PilhaEmOrdem
    <2>3. TypeOK'
      <3>1. estado \in [Tabelas -> Estados] /\ nivel \in [Tabelas -> Nat]
        BY DEF DiagramaInv, TypeOK
      <3>2. nivel' \in [Tabelas -> Nat]
        BY <1>1, <2>1, <2>2, <3>1 DEF Acima, Maior
      <3>3. estado' \in [Tabelas -> Estados]
        BY <1>1, <3>1 DEF Estados
      <3>. QED  BY <1>1, <1>3, <3>2, <3>3 DEF DiagramaInv, TypeOK, entrada, Item
    <2>4. NiveisContiguos'
      BY <1>1, <1>4, <2>1, <2>2, AcimaContiguo DEF DiagramaInv
    <2>. QED  BY <1>6, <2>3, <2>4 DEF DiagramaInv
  <1>8. CASE ~(n > 1)
    <2>1. nivel' = nivel
      BY <1>8 DEF Desempilha
    <2>2. TypeOK'
      BY <1>1, <1>3, <2>1 DEF DiagramaInv, TypeOK, Estados, entrada, Item
    <2>3. NiveisContiguos'
      <3>1. \A u \in Tabelas : estado[u] = "pronto" => estado'[u] = "pronto"
        BY <1>4
      <3>. QED  BY <1>1, <2>1, <3>1, DesenhoTipo, DesenhoFica DEF DiagramaInv, NiveisContiguos
    <2>. QED  BY <1>6, <2>2, <2>3 DEF DiagramaInv
  <1>. QED  BY <1>7, <1>8

\* A box placed changes no level.
LEMMA ColocaMantem ==
  ASSUME ConstantesOk, DiagramaInv, Coloca
  PROVE  DiagramaInv'
  <1>. DEFINE faltam == Desenhadas \ DOMAIN nos
  <1>1. UNCHANGED <<entrada, estado, nivel, pilha>> /\ DOMAIN nos' = DOMAIN nos \cup {Primeiro(faltam)}
    BY DEF Coloca
  <1>2. Primeiro(faltam) \in Tabelas
    <2>1. faltam \in SUBSET Nat /\ faltam # {} /\ faltam \subseteq Tabelas
      BY DesenhoTipo DEF DiagramaInv, Coloca
    <2>. QED  BY <2>1, PrimeiroEntra
  <1>3. TypeOK'
    BY <1>1, <1>2 DEF DiagramaInv, TypeOK, entrada
  <1>4. PilhaEmOrdem' /\ NiveisContiguos'
    BY <1>1, DesenhoFica DEF DiagramaInv, PilhaEmOrdem, NiveisContiguos
  <1>. QED  BY <1>3, <1>4 DEF DiagramaInv

\* Any step, by its action.
LEMMA DiagramaMantem ==
  ASSUME ConstantesOk, DiagramaInv, [Next]_vars
  PROVE  DiagramaInv'
  <1>1. CASE UNCHANGED vars
    <2>1. UNCHANGED <<entrada, estado, nivel, pilha, nos>>
      BY <1>1 DEF vars, entrada
    <2>2. TypeOK'
      BY <2>1 DEF DiagramaInv, TypeOK, entrada
    <2>3. PilhaEmOrdem' /\ NiveisContiguos'
      BY <2>1, DesenhoFica DEF DiagramaInv, PilhaEmOrdem, NiveisContiguos
    <2>. QED  BY <2>2, <2>3 DEF DiagramaInv
  <1>. QED  BY <1>1, ComecaMantem, ExaminaMantem, DesempilhaMantem, ColocaMantem DEF Next

-----------------------------------------------------------------------------
(* Without a cycle every relation goes down.                                *)

\* a table being visited is on the stack
Visitadas == \A t \in Tabelas : estado[t] = "visitando" => \E i \in 1..Len(pilha) : pilha[i].id = t

\* the stack goes down any such order
PilhaDesce ==
  \A ordem \in [Tabelas -> 1..Cardinality(Tabelas)] : Ordena(ordem) =>
    \A i, j \in 1..Len(pilha) : i < j => ordem[pilha[i].id] > ordem[pilha[j].id]

\* u is finished and under t
Sob(t, u) == estado[u] = "pronto" /\ nivel[t] > nivel[u]
SobDepois(t, u) == estado'[u] = "pronto" /\ nivel'[t] > nivel'[u]

\* The targets of a finished table are finished and under it; so are those of a table on
\* the stack that were looked at, but for itself and the one being visited above it.
Prontas == \A t \in Tabelas : estado[t] = "pronto" => \A u \in Saidas(t) \ {t} : Sob(t, u)
Olhadas ==
  \A i \in 1..Len(pilha) : \A u \in Saidas(pilha[i].id) \ pilha[i].resta :
    \/ u = pilha[i].id
    \/ Sob(pilha[i].id, u)
    \/ i < Len(pilha) /\ u = pilha[i + 1].id

DesceInv ==
  /\ DiagramaInv /\ Visitadas /\ PilhaDesce
  /\ Aciclico => Prontas /\ Olhadas

\* A new drawing: nothing visited, every reading still to answer.
LEMMA DesceInicia ==
  ASSUME ConstantesOk, Init
  PROVE  DesceInv
  <1>1. DiagramaInv
    BY DiagramaInicia
  <1>2. Len(pilha) = 0 /\ \A t \in Tabelas : estado[t] = "novo"
    BY DEF Init
  <1>. QED  BY <1>1, <1>2 DEF DesceInv, Visitadas, PilhaDesce, Prontas, Olhadas

\* What is finished stays so at its level, and so stays what stands on it.
LEMMA ProntasFicam ==
  ASSUME ConstantesOk, DiagramaInv, Prontas, UNCHANGED entrada,
         \A t \in Tabelas : estado[t] = "pronto" => estado'[t] = "pronto" /\ nivel'[t] = nivel[t],
         \A t \in Tabelas : estado'[t] = "pronto" /\ estado[t] # "pronto" =>
           \A u \in Saidas(t) \ {t} : SobDepois(t, u)
  PROVE  Prontas'
  <1>1. \A t : Saidas(t)' = Saidas(t) /\ Saidas(t) \subseteq Tabelas
    BY DesenhoFica, DesenhoTipo DEF DiagramaInv
  <1>2. ASSUME NEW t \in Tabelas, estado'[t] = "pronto", NEW u \in Saidas(t) \ {t}
        PROVE  SobDepois(t, u)
    <2>1. CASE estado[t] = "pronto"
      <3>1. Sob(t, u) /\ u \in Tabelas
        BY <1>1, <1>2, <2>1 DEF Prontas
      <3>. QED  BY <2>1, <3>1 DEF Sob, SobDepois
    <2>. QED  BY <1>2, <2>1
  <1>. QED  BY <1>1, <1>2 DEF Prontas, Sob, SobDepois

\* The first visit of a table that no walk has reached.
LEMMA ComecaDesce ==
  ASSUME ConstantesOk, DesceInv, Comeca
  PROVE  DesceInv'
  <1>. DEFINE novas == {t \in Desenhadas : estado[t] = "novo"}
              a == Primeiro(novas)
  <1>1. a \in Tabelas /\ estado[a] = "novo"
    <2>1. novas \in SUBSET Nat /\ novas # {} /\ novas \subseteq Tabelas
      BY DesenhoTipo DEF DesceInv, DiagramaInv, Comeca
    <2>. QED  BY <2>1, PrimeiroEntra
  <1>. HIDE DEF a
  <1>2. /\ Empilha(a) /\ UNCHANGED entrada /\ pilha = <<>>
        /\ pilha' = <<[id |-> a, resta |-> Saidas(a)]>>
    BY DEF Comeca, a
  <1>3. DiagramaInv' /\ DiagramaInv
    BY ComecaMantem DEF DesceInv
  <1>4. Len(pilha') = 1 /\ pilha'[1].id = a /\ pilha'[1].resta = Saidas(a)
    BY <1>2
  <1>5. /\ estado'[a] = "visitando"
        /\ \A t \in Tabelas \ {a} : estado'[t] = estado[t] /\ nivel'[t] = nivel[t]
    BY <1>1, <1>2, <1>3 DEF DiagramaInv, TypeOK, Empilha
  <1>6. Visitadas'
    <2>1. \A t \in Tabelas : estado[t] # "visitando"
      BY <1>2 DEF DesceInv, Visitadas
    <2>2. ASSUME NEW t \in Tabelas, estado'[t] = "visitando" PROVE t = a
      BY <1>5, <2>1, <2>2
    <2>. QED  BY <1>4, <2>2 DEF Visitadas
  <1>7. PilhaDesce'
    BY <1>4 DEF PilhaDesce
  <1>8. Aciclico' => Prontas' /\ Olhadas'
    <2>1. Olhadas'
      BY <1>2, <1>4, DesenhoFica DEF Olhadas
    <2>2. ASSUME Aciclico PROVE Prontas'
      BY <1>1, <1>2, <1>3, <1>5, <2>2, ProntasFicam DEF DesceInv
    <2>. QED  BY <1>2, <2>1, <2>2, EntradaFica
  <1>. QED  BY <1>3, <1>6, <1>7, <1>8 DEF DesceInv

\* A target looked at leaves the targets still to look at, and nothing else changes.
LEMMA ExaminadaResta ==
  ASSUME DiagramaInv, pilha # <<>>, NEW alvo
  PROVE  LET n == Len(pilha)
             seguinte == [pilha EXCEPT ![n].resta = @ \ {alvo}] IN
         /\ seguinte \in Seq(Item) /\ Len(seguinte) = n
         /\ \A i \in 1..n : seguinte[i].id = pilha[i].id
         /\ \A i \in 1..n : i # n => seguinte[i].resta = pilha[i].resta
         /\ seguinte[n].resta = pilha[n].resta \ {alvo}
  <1>. DEFINE n == Len(pilha)
              seguinte == [pilha EXCEPT ![n].resta = @ \ {alvo}]
  <1>1. pilha \in Seq(Item) /\ n \in 1..n
    BY DEF DiagramaInv, TypeOK, Item
  <1>2. pilha[n] \in Item
    BY <1>1
  <1>3. seguinte = [pilha EXCEPT ![n] = [pilha[n] EXCEPT !.resta = pilha[n].resta \ {alvo}]]
    BY <1>1, <1>2
  <1>4. [pilha[n] EXCEPT !.resta = pilha[n].resta \ {alvo}] \in Item
    BY <1>2 DEF Item
  <1>. QED  BY <1>1, <1>2, <1>3, <1>4 DEF Item

\* Without a cycle, the only target being visited that the top may have is itself.
LEMMA SoASiMesma ==
  ASSUME ConstantesOk, DesceInv, Aciclico, pilha # <<>>,
         NEW alvo \in Topo.resta, estado[alvo] = "visitando"
  PROVE  alvo = Topo.id
  <1>. DEFINE n == Len(pilha)
  <1>1. n \in Nat \ {0} /\ Topo \in Item /\ Topo.resta \subseteq Saidas(Topo.id) /\ Topo = pilha[n]
    BY TopoTipo DEF DesceInv, Topo
  <1>2. alvo \in Tabelas /\ alvo \in Saidas(Topo.id)
    BY <1>1 DEF Item
  <1>3. PICK j \in 1..n : pilha[j].id = alvo
    BY <1>2 DEF DesceInv, Visitadas
  <1>4. PICK ordem \in [Tabelas -> 1..Cardinality(Tabelas)] : Ordena(ordem)
    BY DEF Aciclico, Ordena
  <1>5. SUFFICES ASSUME alvo # Topo.id PROVE FALSE
    OBVIOUS
  <1>6. j < n
    BY <1>1, <1>3, <1>5
  <1>7. ordem[alvo] > ordem[Topo.id]
    BY <1>1, <1>3, <1>4, <1>6 DEF DesceInv, PilhaDesce
  <1>8. ordem[Topo.id] > ordem[alvo]
    <2>1. <<Topo.id, alvo>> \in DoEsquema
      BY <1>2, SaidaRelacao DEF DesceInv, DiagramaInv
    <2>. QED  BY <1>4, <1>5, <2>1 DEF Ordena
  <1>9. ordem[alvo] \in Int /\ ordem[Topo.id] \in Int
    BY <1>1, <1>2, <1>4 DEF Item
  <1>. QED  BY <1>7, <1>8, <1>9

\* One relation of the table on top is looked at: its other end is entered, skipped or done.
LEMMA ExaminaDesce ==
  ASSUME ConstantesOk, DesceInv, Examina
  PROVE  DesceInv'
  <1>. DEFINE alvo == Primeiro(Topo.resta)
              n == Len(pilha)
              seguinte == [pilha EXCEPT ![n].resta = @ \ {alvo}]
  <1>0. DiagramaInv /\ DiagramaInv'
    BY ExaminaMantem DEF DesceInv
  <1>1. /\ pilha # <<>> /\ UNCHANGED entrada
        /\ Topo \in Item /\ Topo = pilha[n] /\ n \in Nat \ {0} /\ estado[Topo.id] = "visitando"
        /\ alvo \in Topo.resta /\ alvo \in Saidas(Topo.id)
    BY <1>0, TopoTipo DEF Examina, Topo
  <1>2. alvo \in Tabelas /\ Topo.id \in Tabelas
    BY <1>1 DEF Item
  <1>3. /\ seguinte \in Seq(Item) /\ Len(seguinte) = n
        /\ \A i \in 1..n : seguinte[i].id = pilha[i].id
        /\ \A i \in 1..n : i # n => seguinte[i].resta = pilha[i].resta
        /\ seguinte[n].resta = pilha[n].resta \ {alvo}
    BY <1>0, <1>1, ExaminadaResta
  <1>4. \/ estado[alvo] = "novo" /\ Empilha(alvo)
             /\ pilha' = Append(seguinte, [id |-> alvo, resta |-> Saidas(alvo)])
        \/ Terminada(alvo) /\ nivel' = Acima(Topo.id, alvo) /\ pilha' = seguinte /\ estado' = estado
        \/ estado[alvo] = "visitando" /\ pilha' = seguinte /\ estado' = estado /\ nivel' = nivel
    BY DEF Examina
  <1>. HIDE DEF alvo, seguinte
  <1>5. /\ estado \in [Tabelas -> Estados] /\ nivel \in [Tabelas -> Nat]
        /\ \A i \in 1..n : pilha[i].id \in Tabelas
        /\ \A t : Saidas(t) \subseteq Tabelas /\ Saidas(t)' = Saidas(t)
    BY <1>0, <1>1, PilhaTipo, DesenhoTipo, DesenhoFica DEF DiagramaInv, TypeOK
  <1>6. CASE estado[alvo] = "novo" /\ Empilha(alvo)
             /\ pilha' = Append(seguinte, [id |-> alvo, resta |-> Saidas(alvo)])
    <2>1. /\ Len(pilha') = n + 1
          /\ \A i \in 1..n : pilha'[i] = seguinte[i]
          /\ pilha'[n + 1].id = alvo /\ pilha'[n + 1].resta = Saidas(alvo)
      <3>1. [id |-> alvo, resta |-> Saidas(alvo)] \in Item
        BY <1>2, <1>5 DEF Item
      <3>. QED  BY <1>1, <1>3, <1>6, <3>1, AppendProperties
    <2>2. /\ estado'[alvo] = "visitando"
          /\ \A t \in Tabelas \ {alvo} : estado'[t] = estado[t] /\ nivel'[t] = nivel[t]
      BY <1>2, <1>5, <1>6 DEF Empilha
    <2>3. /\ \A i \in 1..(n + 1) : i \in 1..n \/ i = n + 1
          /\ n + 1 \in 1..(n + 1) /\ \A i \in 1..n : i \in 1..(n + 1) /\ i < n + 1
      BY <1>1
    <2>4. \A i \in 1..n : pilha'[i].id = pilha[i].id
      BY <1>3, <2>1
    <2>5. Visitadas'
      <3>1. ASSUME NEW t \in Tabelas, estado'[t] = "visitando"
            PROVE  \E i \in 1..(n + 1) : pilha'[i].id = t
        <4>1. CASE t = alvo
          BY <2>1, <2>3, <4>1
        <4>2. CASE t # alvo
          <5>1. PICK i \in 1..n : pilha[i].id = t
            BY <2>2, <3>1, <4>2 DEF DesceInv, Visitadas
          <5>. QED  BY <2>3, <2>4, <5>1
        <4>. QED  BY <4>1, <4>2
      <3>. QED  BY <2>1, <3>1 DEF Visitadas
    <2>6. PilhaDesce'
      <3>1. ASSUME NEW ordem \in [Tabelas -> 1..Cardinality(Tabelas)], Ordena(ordem),
                   NEW i \in 1..(n + 1), NEW j \in 1..(n + 1), i < j
            PROVE  ordem[pilha'[i].id] > ordem[pilha'[j].id]
        <4>1. i \in 1..n
          BY <1>1, <3>1
        <4>2. CASE j \in 1..n
          BY <2>4, <3>1, <4>1, <4>2 DEF DesceInv, PilhaDesce
        <4>3. CASE j = n + 1
          <5>1. ordem[Topo.id] > ordem[alvo]
            <6>1. <<Topo.id, alvo>> \in DoEsquema
              BY <1>0, <1>1, SaidaRelacao DEF DiagramaInv
            <6>2. Topo.id # alvo
              BY <1>1, <1>6
            <6>. QED  BY <3>1, <6>1, <6>2 DEF Ordena
          <5>2. i = n \/ ordem[pilha[i].id] > ordem[Topo.id]
            BY <1>1, <3>1, <4>1 DEF DesceInv, PilhaDesce
          <5>3. ordem[alvo] \in Int /\ ordem[Topo.id] \in Int /\ ordem[pilha[i].id] \in Int
            BY <1>2, <1>5, <3>1, <4>1
          <5>. QED  BY <1>1, <2>1, <2>4, <4>1, <4>3, <5>1, <5>2, <5>3
        <4>. QED  BY <2>3, <4>2, <4>3
      <3>2. Tabelas' = Tabelas /\ \A ordem : Ordena(ordem)' = Ordena(ordem)
        BY <1>1, EntradaFica
      <3>. QED  BY <2>1, <3>1, <3>2 DEF PilhaDesce
    <2>7. ASSUME Aciclico PROVE Prontas' /\ Olhadas'
      <3>1. Prontas'
        BY <1>0, <1>1, <1>6, <2>2, <2>7, ProntasFicam DEF DesceInv
      <3>2. ASSUME NEW t \in Tabelas, NEW u \in Tabelas, Sob(t, u), t # alvo PROVE SobDepois(t, u)
        BY <1>6, <2>2, <3>2 DEF Sob, SobDepois
      <3>3. ASSUME NEW i \in 1..(n + 1), NEW u \in Saidas(pilha'[i].id) \ pilha'[i].resta
            PROVE  \/ u = pilha'[i].id
                   \/ SobDepois(pilha'[i].id, u)
                   \/ i < n + 1 /\ u = pilha'[i + 1].id
        <4>1. i \in 1..n
          BY <2>1, <2>3, <3>3
        <4>2. CASE i = n /\ u = alvo
          BY <1>1, <2>1, <4>2
        <4>3. CASE ~(i = n /\ u = alvo)
          <5>1. u \in Saidas(pilha[i].id) \ pilha[i].resta
            BY <1>3, <2>1, <2>4, <3>3, <4>1, <4>3
          <5>2. \/ u = pilha[i].id
                \/ Sob(pilha[i].id, u)
                \/ i < n /\ u = pilha[i + 1].id
            BY <2>7, <4>1, <5>1 DEF DesceInv, Olhadas
          <5>3. pilha[i].id # alvo /\ u \in Tabelas
            <6>1. estado[pilha[i].id] = "visitando"
              BY <1>0, <4>1 DEF DiagramaInv, PilhaEmOrdem
            <6>. QED  BY <1>5, <1>6, <5>1, <6>1
          <5>4. i < n => i + 1 \in 1..n /\ pilha'[i + 1].id = pilha[i + 1].id
            BY <1>1, <2>4, <4>1
          <5>5. i < n + 1
            BY <2>3, <4>1
          <5>6. Sob(pilha[i].id, u) => SobDepois(pilha[i].id, u)
            BY <1>5, <3>2, <4>1, <5>3
          <5>. QED  BY <2>4, <4>1, <5>2, <5>4, <5>5, <5>6
        <4>. QED  BY <4>2, <4>3
      <3>4. Olhadas'
        BY <1>5, <2>1, <3>3 DEF Olhadas, Sob, SobDepois
      <3>. QED  BY <3>1, <3>4
    <2>. QED  BY <1>0, <1>1, <2>5, <2>6, <2>7, EntradaFica DEF DesceInv
  <1>7. ASSUME pilha' = seguinte, estado' = estado,
               nivel' = nivel \/ nivel' = Acima(Topo.id, alvo),
               Aciclico => alvo = Topo.id \/ SobDepois(Topo.id, alvo)
        PROVE  DesceInv'
    <2>1. Len(pilha') = n /\ \A i \in 1..n : pilha'[i].id = pilha[i].id
      BY <1>3, <1>7
    <2>2. /\ \A t \in Tabelas \ {Topo.id} : nivel'[t] = nivel[t]
          /\ nivel'[Topo.id] >= nivel[Topo.id]
      BY <1>2, <1>5, <1>7 DEF Acima, Maior
    <2>3. Visitadas'
      BY <1>7, <2>1 DEF DesceInv, Visitadas
    <2>4. PilhaDesce'
      <3>1. Tabelas' = Tabelas /\ \A ordem : Ordena(ordem)' = Ordena(ordem)
        BY <1>1, EntradaFica
      <3>. QED  BY <2>1, <3>1 DEF DesceInv, PilhaDesce
    <2>5. ASSUME Aciclico PROVE Prontas' /\ Olhadas'
      <3>1. Prontas'
        <4>1. \A t \in Tabelas : estado[t] = "pronto" => estado'[t] = "pronto" /\ nivel'[t] = nivel[t]
          BY <1>1, <1>7, <2>2
        <4>. QED  BY <1>0, <1>1, <1>7, <2>5, <4>1, ProntasFicam DEF DesceInv
      <3>2. ASSUME NEW t \in Tabelas, NEW u \in Tabelas, Sob(t, u) PROVE SobDepois(t, u)
        <4>1. u # Topo.id /\ nivel[t] \in Int /\ nivel[u] \in Int /\ nivel'[u] = nivel[u]
          BY <1>1, <1>5, <2>2, <3>2 DEF Sob, SobDepois
        <4>2. nivel'[t] >= nivel[t] /\ nivel'[t] \in Int
          <5>1. nivel' \in [Tabelas -> Nat]
            BY <1>0 DEF DiagramaInv, TypeOK
          <5>. QED  BY <1>5, <2>2, <5>1
        <4>. QED  BY <1>7, <3>2, <4>1, <4>2 DEF Sob, SobDepois
      <3>3. ASSUME NEW i \in 1..n, NEW u \in Saidas(pilha'[i].id) \ pilha'[i].resta
            PROVE  \/ u = pilha'[i].id
                   \/ SobDepois(pilha'[i].id, u)
                   \/ i < n /\ u = pilha'[i + 1].id
        <4>1. CASE i = n /\ u = alvo
          BY <1>1, <1>7, <2>1, <2>5, <4>1
        <4>2. CASE ~(i = n /\ u = alvo)
          <5>1. u \in Saidas(pilha[i].id) \ pilha[i].resta
            BY <1>3, <1>7, <2>1, <3>3, <4>2
          <5>2. \/ u = pilha[i].id
                \/ Sob(pilha[i].id, u)
                \/ i < n /\ u = pilha[i + 1].id
            BY <2>5, <5>1 DEF DesceInv, Olhadas
          <5>3. i < n => i + 1 \in 1..n /\ pilha'[i + 1].id = pilha[i + 1].id
            BY <1>1, <2>1
          <5>4. Sob(pilha[i].id, u) => SobDepois(pilha[i].id, u)
            BY <1>5, <3>2, <5>1
          <5>. QED  BY <2>1, <5>2, <5>3, <5>4
        <4>. QED  BY <4>1, <4>2
      <3>4. Olhadas'
        BY <1>5, <2>1, <3>3 DEF Olhadas, Sob, SobDepois
      <3>. QED  BY <3>1, <3>4
    <2>. QED  BY <1>0, <1>1, <2>3, <2>4, <2>5, EntradaFica DEF DesceInv
  <1>8. CASE Terminada(alvo) /\ nivel' = Acima(Topo.id, alvo) /\ pilha' = seguinte /\ estado' = estado
    <2>1. Topo.id # alvo
      BY <1>1, <1>8 DEF Terminada
    <2>2. nivel'[Topo.id] = Maior(nivel[Topo.id], nivel[alvo] + 1) /\ nivel'[alvo] = nivel[alvo]
      BY <1>2, <1>5, <1>8, <2>1 DEF Acima
    <2>3. SobDepois(Topo.id, alvo)
      <3>1. nivel'[Topo.id] > nivel'[alvo]
        BY <1>2, <1>5, <2>2 DEF Maior
      <3>. QED  BY <1>8, <3>1 DEF Sob, SobDepois, Terminada
    <2>. QED  BY <1>7, <1>8, <2>3
  <1>9. CASE estado[alvo] = "visitando" /\ pilha' = seguinte /\ estado' = estado /\ nivel' = nivel
    BY <1>1, <1>7, <1>9, SoASiMesma
  <1>. QED  BY <1>4, <1>6, <1>8, <1>9

\* A table with no relation left is done, above none that it points to.
LEMMA DesempilhaDesce ==
  ASSUME ConstantesOk, DesceInv, Desempilha
  PROVE  DesceInv'
  <1>. DEFINE n == Len(pilha)
  <1>0. DiagramaInv /\ DiagramaInv'
    BY DesempilhaMantem DEF DesceInv
  <1>1. /\ UNCHANGED entrada /\ Topo.resta = {}
        /\ Topo.id \in Tabelas /\ n \in Nat \ {0} /\ Topo = pilha[n] /\ estado[Topo.id] = "visitando"
        /\ estado' = [estado EXCEPT ![Topo.id] = "pronto"]
        /\ pilha' = SubSeq(pilha, 1, n - 1)
    BY <1>0, TopoTipo DEF Desempilha, Topo, Item
  <1>2. pilha \in Seq(Item)
    BY <1>0, PilhaTipo
  <1>3. Len(pilha') = n - 1 /\ \A i \in 1..(n - 1) : pilha'[i] = pilha[i] /\ i \in 1..n
    BY <1>1, <1>2, SemUltimo
  <1>4. /\ estado \in [Tabelas -> Estados] /\ nivel \in [Tabelas -> Nat] /\ nivel' \in [Tabelas -> Nat]
        /\ \A i \in 1..n : pilha[i].id \in Tabelas
        /\ \A t : Saidas(t) \subseteq Tabelas /\ Saidas(t)' = Saidas(t)
    BY <1>0, <1>1, PilhaTipo, DesenhoTipo, DesenhoFica DEF DiagramaInv, TypeOK
  <1>5. estado'[Topo.id] = "pronto" /\ \A t \in Tabelas \ {Topo.id} : estado'[t] = estado[t]
    BY <1>1, <1>4
  \* what rises, rises over the table that ends
  <1>6. /\ \A t \in Tabelas : nivel'[t] >= nivel[t]
        /\ \A t \in Tabelas : estado[t] = "pronto" \/ t = Topo.id => nivel'[t] = nivel[t]
        /\ n > 1 => SobDepois(pilha[n - 1].id, Topo.id)
    <2>1. CASE n > 1
      <3>. DEFINE p == pilha[n - 1].id
      <3>1. n - 1 \in 1..n /\ n \in 1..n /\ n - 1 # n
        BY <1>1, <2>1
      <3>2. p \in Tabelas /\ p # Topo.id /\ estado[p] = "visitando"
        BY <1>0, <1>1, <1>4, <3>1 DEF DiagramaInv, PilhaEmOrdem
      <3>3. nivel' = Acima(p, Topo.id)
        BY <2>1 DEF Desempilha
      <3>. HIDE DEF p
      <3>4. /\ nivel'[p] = Maior(nivel[p], nivel[Topo.id] + 1)
            /\ \A t \in Tabelas \ {p} : nivel'[t] = nivel[t]
        BY <1>1, <1>4, <3>2, <3>3 DEF Acima
      <3>5. nivel'[p] >= nivel[p] /\ nivel'[p] > nivel[Topo.id]
        BY <1>1, <1>4, <3>2, <3>4 DEF Maior
      <3>6. nivel'[Topo.id] = nivel[Topo.id]
        BY <1>1, <3>2, <3>4
      <3>7. SobDepois(p, Topo.id)
        BY <1>5, <3>5, <3>6 DEF SobDepois
      <3>8. \A t \in Tabelas : nivel'[t] >= nivel[t]
        BY <1>4, <3>4, <3>5
      <3>9. \A t \in Tabelas : estado[t] = "pronto" \/ t = Topo.id => nivel'[t] = nivel[t]
        BY <3>2, <3>4
      <3>. QED  BY <3>7, <3>8, <3>9 DEF p
    <2>2. CASE ~(n > 1)
      <3>1. nivel' = nivel
        BY <2>2 DEF Desempilha
      <3>. QED  BY <1>4, <2>2, <3>1
    <2>. QED  BY <2>1, <2>2
  <1>7. ASSUME NEW t \in Tabelas, NEW u \in Tabelas, Sob(t, u) PROVE SobDepois(t, u)
    <2>1. estado'[u] = "pronto" /\ nivel'[u] = nivel[u] /\ nivel'[t] >= nivel[t] /\ nivel[t] > nivel[u]
      BY <1>5, <1>6, <1>7 DEF Sob
    <2>. QED  BY <1>4, <2>1 DEF SobDepois
  <1>8. Visitadas'
    <2>1. ASSUME NEW t \in Tabelas, estado'[t] = "visitando"
          PROVE  \E i \in 1..(n - 1) : pilha'[i].id = t
      <3>1. t # Topo.id /\ estado[t] = "visitando"
        BY <1>5, <2>1
      <3>2. PICK i \in 1..n : pilha[i].id = t
        BY <3>1 DEF DesceInv, Visitadas
      <3>3. i \in 1..(n - 1)
        BY <1>1, <3>1, <3>2
      <3>. QED  BY <1>3, <3>2, <3>3
    <2>. QED  BY <1>3, <2>1 DEF Visitadas
  <1>9. PilhaDesce'
    <2>1. Tabelas' = Tabelas /\ \A ordem : Ordena(ordem)' = Ordena(ordem)
      BY <1>1, EntradaFica
    <2>2. ASSUME NEW ordem \in [Tabelas -> 1..Cardinality(Tabelas)], Ordena(ordem),
                 NEW i \in 1..(n - 1), NEW j \in 1..(n - 1), i < j
          PROVE  ordem[pilha'[i].id] > ordem[pilha'[j].id]
      <3>1. i \in 1..Len(pilha) /\ j \in 1..Len(pilha)
        BY <1>1, <1>3
      <3>. QED  BY <1>3, <2>2, <3>1 DEF DesceInv, PilhaDesce
    <2>. QED  BY <1>3, <2>1, <2>2 DEF PilhaDesce
  <1>10. ASSUME Aciclico PROVE Prontas' /\ Olhadas'
    <2>1. ASSUME NEW i \in 1..n, NEW u \in Saidas(pilha[i].id) \ pilha[i].resta
          PROVE  \/ u = pilha[i].id \/ SobDepois(pilha[i].id, u)
                 \/ i < n /\ u = pilha[i + 1].id
      <3>1. \/ u = pilha[i].id \/ Sob(pilha[i].id, u)
            \/ i < n /\ u = pilha[i + 1].id
        BY <1>10, <2>1 DEF DesceInv, Olhadas
      <3>2. pilha[i].id \in Tabelas /\ u \in Tabelas
        BY <1>4, <2>1
      <3>. QED  BY <1>7, <3>1, <3>2
    <2>2. Prontas'
      <3>1. ASSUME NEW t \in Tabelas, estado'[t] = "pronto", estado[t] # "pronto",
                   NEW u \in Saidas(t) \ {t}
            PROVE  SobDepois(t, u)
        <4>1. t = pilha[n].id /\ n \in 1..n /\ pilha[n].resta = {}
          BY <1>1, <1>5, <3>1
        <4>2. \/ u = pilha[n].id \/ SobDepois(pilha[n].id, u) \/ n < n
          BY <2>1, <3>1, <4>1
        <4>. QED  BY <1>1, <3>1, <4>1, <4>2
      <3>2. \A t \in Tabelas : estado[t] = "pronto" => estado'[t] = "pronto" /\ nivel'[t] = nivel[t]
        BY <1>5, <1>6
      <3>. QED  BY <1>0, <1>1, <1>10, <3>1, <3>2, ProntasFicam DEF DesceInv
    <2>3. ASSUME NEW i \in 1..(n - 1), NEW u \in Saidas(pilha'[i].id) \ pilha'[i].resta
          PROVE  \/ u = pilha'[i].id \/ SobDepois(pilha'[i].id, u)
                 \/ i < n - 1 /\ u = pilha'[i + 1].id
      <3>1. /\ pilha'[i] = pilha[i] /\ i \in 1..n
            /\ i + 1 \in 1..(n - 1) \/ i + 1 = n
        BY <1>1, <1>3
      <3>2. \/ u = pilha[i].id \/ SobDepois(pilha[i].id, u)
            \/ i < n /\ u = pilha[i + 1].id
        BY <2>1, <2>3, <3>1
      <3>3. CASE i + 1 \in 1..(n - 1)
        BY <1>1, <1>3, <3>1, <3>2, <3>3
      <3>4. CASE i + 1 = n
        <4>1. n > 1 /\ n - 1 = i
          BY <1>1, <3>4
        <4>2. SobDepois(pilha[i].id, Topo.id)
          BY <1>6, <4>1
        <4>. QED  BY <1>1, <3>1, <3>2, <3>4, <4>2
      <3>. QED  BY <3>1, <3>3, <3>4
    <2>4. Olhadas'
      BY <1>3, <1>4, <2>3 DEF Olhadas, Sob, SobDepois
    <2>. QED  BY <2>2, <2>4
  <1>. QED  BY <1>0, <1>1, <1>8, <1>9, <1>10, EntradaFica DEF DesceInv

\* Any step: what the walk does not touch stays as it is.
LEMMA DesceMantem ==
  ASSUME ConstantesOk, DesceInv, [Next]_vars
  PROVE  DesceInv'
  <1>1. DiagramaInv'
    BY DiagramaMantem DEF DesceInv
  <1>2. ASSUME UNCHANGED <<entrada, estado, nivel, pilha>> PROVE DesceInv'
    <2>1. \A t : Saidas(t)' = Saidas(t)
      BY <1>2, DesenhoFica
    <2>2. Visitadas'
      BY <1>2 DEF DesceInv, Visitadas
    <2>3. PilhaDesce'
      BY <1>2, EntradaFica DEF DesceInv, PilhaDesce
    <2>4. Aciclico => Prontas' /\ Olhadas'
      BY <1>2, <2>1 DEF DesceInv, Prontas, Olhadas, Sob
    <2>. QED  BY <1>1, <1>2, <2>2, <2>3, <2>4, EntradaFica DEF DesceInv
  <1>3. CASE UNCHANGED vars
    BY <1>2, <1>3 DEF vars, entrada
  <1>4. CASE Coloca
    BY <1>2, <1>4 DEF Coloca
  <1>. QED  BY <1>3, <1>4, ComecaDesce, ExaminaDesce, DesempilhaDesce DEF Next

\* With no cycle, the drawn relations go down.
LEMMA RelacaoDesceSempre ==
  ASSUME DesceInv
  PROVE  RelacaoDesce
  <1>1. ASSUME Percorrida, Aciclico, NEW r \in Relacoes, r[1] # r[2]
        PROVE  nivel[r[1]] > nivel[r[2]]
    <2>1. r[2] \in Saidas(r[1]) /\ r[1] \in Desenhadas
      BY SaidaRelacao DEF DesceInv, DiagramaInv
    <2>2. estado[r[1]] = "pronto" /\ r[1] \in Tabelas
      <3>1. r \in Tabelas \X Tabelas
        BY DEF DesceInv, DiagramaInv, TypeOK, Relacoes, DoEsquema
      <3>. QED  BY <1>1, <2>1, <3>1 DEF Percorrida
    <2>. QED  BY <1>1, <2>1, <2>2 DEF DesceInv, Prontas, Sob
  <1>. QED  BY <1>1 DEF RelacaoDesce

-----------------------------------------------------------------------------
(* The boxes.                                                               *)

\* the height of a level in use, and the column of its boxes
Coluna(n) == MARGEM + n * (LARGURA_DO_NO + ESPACO_ENTRE_NIVEIS)

\* The boxes placed are the first of the tables, after the walk: each in the column of
\* its level, under those of the level that were placed before it.
NosInv ==
  /\ DOMAIN nos \subseteq Desenhadas
  /\ DOMAIN nos # {} => Percorrida
  /\ \A t \in DOMAIN nos : \A u \in Desenhadas \ DOMAIN nos : t < u
  /\ \A t \in DOMAIN nos :
       /\ nos[t].nivel = nivel[t] /\ nos[t].x = Coluna(nivel[t])
       /\ nos[t].y \in Nat /\ nos[t].y >= MARGEM /\ nos[t].altura \in 46..190
  /\ \A t, u \in DOMAIN nos : t < u /\ nos[t].nivel = nos[u].nivel =>
       nos[t].y + nos[t].altura + ESPACO_ENTRE_NOS <= nos[u].y

\* The height of a box, which shows eight columns at most.
LEMMA AlturaCabe ==
  ASSUME ConstantesOk, TypeOK, NEW t \in Tabelas
  PROVE  AlturaDoNo(Mostradas(t)) \in 46..190
  <1>1. IsFiniteSet(Saidas(t))
    BY DesenhoTipo, FS_Subset DEF ConstantesOk
  <1>2. Cardinality(Saidas(t)) \in Nat /\ Primarias[t] \in Nat
    BY <1>1, FS_CardinalityType DEF ConstantesOk
  <1>3. Mostradas(t) \in 0..8
    BY <1>2 DEF Mostradas, Menor, MAXIMO_DE_COLUNAS_NO_NO
  <1>. QED
    BY <1>3 DEF AlturaDoNo, ALTURA_DO_CABECALHO, ALTURA_DA_COLUNA, RESPIRO_DO_NO

\* Where the next box of a level goes: under all there are.
LEMMA FimDepois ==
  ASSUME ConstantesOk, TypeOK, NosInv, NEW n
  PROVE  /\ Fim(n) \in Nat
         /\ \A t \in DOMAIN nos : nos[t].nivel = n =>
              nos[t].y + nos[t].altura + ESPACO_ENTRE_NOS <= MARGEM + Fim(n)
  <1>1. /\ Empilhados(n) \subseteq DOMAIN nos /\ DOMAIN nos \subseteq Tabelas /\ Tabelas \subseteq Nat
        /\ \A t \in DOMAIN nos : nos[t].nivel = n => t \in Empilhados(n) /\ t \in Nat
        /\ \A t \in Empilhados(n) : t \in Nat
    BY DEF TypeOK, ConstantesOk, Empilhados
  <1>2. CASE Empilhados(n) = {}
    BY <1>1, <1>2 DEF Fim
  <1>3. CASE Empilhados(n) # {}
    <2>. DEFINE ultimo == CHOOSE t \in Empilhados(n) : \A u \in Empilhados(n) : u <= t
    <2>1. Empilhados(n) \in SUBSET Int
      <3>1. \A t \in Empilhados(n) : t \in Int
        BY <1>1
      <3>. QED  BY <3>1
    <2>2. IsFiniteSet(Empilhados(n))
      BY <1>1, FS_Subset DEF ConstantesOk
    <2>3. ultimo \in Empilhados(n) /\ \A u \in Empilhados(n) : u <= ultimo
      <3>1. \E m \in Empilhados(n) : \A u \in Empilhados(n) : u <= m
        BY <1>3, <2>1, <2>2, UltimoExiste
      <3>. QED  BY <3>1
    <2>4. Fim(n) = nos[ultimo].y - MARGEM + nos[ultimo].altura + ESPACO_ENTRE_NOS
      BY <1>3 DEF Fim
    <2>. HIDE DEF ultimo
    <2>5. /\ ultimo \in DOMAIN nos /\ nos[ultimo].nivel = n
          /\ nos[ultimo].y \in Nat /\ nos[ultimo].y >= MARGEM /\ nos[ultimo].altura \in 46..190
      BY <1>1, <2>3 DEF NosInv, Empilhados
    <2>6. Fim(n) \in Nat /\ MARGEM + Fim(n) = nos[ultimo].y + nos[ultimo].altura + ESPACO_ENTRE_NOS
      BY <2>4, <2>5 DEF MARGEM, ESPACO_ENTRE_NOS
    <2>7. ASSUME NEW t \in DOMAIN nos, nos[t].nivel = n
          PROVE  nos[t].y + nos[t].altura + ESPACO_ENTRE_NOS <= MARGEM + Fim(n)
      <3>1. CASE t = ultimo
        BY <2>5, <2>6, <3>1 DEF ESPACO_ENTRE_NOS
      <3>2. CASE t # ultimo
        <4>1. t < ultimo
          <5>1. t \in Nat /\ ultimo \in Nat /\ t <= ultimo
            BY <1>1, <2>3, <2>7
          <5>. QED  BY <3>2, <5>1
        <4>2. nos[t].y + nos[t].altura + ESPACO_ENTRE_NOS <= nos[ultimo].y
          BY <2>5, <2>7, <4>1 DEF NosInv
        <4>3. nos[t].y \in Nat /\ nos[t].altura \in 46..190
          BY <2>7 DEF NosInv
        <4>4. nos[ultimo].y \in Int /\ nos[ultimo].altura \in Int /\ nos[ultimo].altura >= 0
          BY <2>5
        <4>. HIDE DEF NosInv
        <4>5. nos[ultimo].y <= nos[ultimo].y + nos[ultimo].altura + ESPACO_ENTRE_NOS
          BY <4>4 DEF ESPACO_ENTRE_NOS
        <4>. QED  BY <2>6, <4>2, <4>3, <4>4, <4>5 DEF ESPACO_ENTRE_NOS
      <3>. QED  BY <3>1, <3>2
    <2>. QED  BY <2>6, <2>7
  <1>. QED  BY <1>2, <1>3

\* While the walk goes on no box is placed.
LEMMA NadaColocado ==
  ASSUME NosInv, DOMAIN nos # {}
  PROVE  pilha = <<>> /\ \A t \in Desenhadas : estado[t] = "pronto"
  BY DEF NosInv, Percorrida

\* A table is placed in its column, under those that are there.
LEMMA ColocaNos ==
  ASSUME ConstantesOk, DiagramaInv, NosInv, Coloca
  PROVE  NosInv'
  <1>. DEFINE faltam == Desenhadas \ DOMAIN nos
              p == Primeiro(faltam)
  <1>1. /\ UNCHANGED <<entrada, estado, nivel, pilha>> /\ Percorrida
        /\ nos' = [t \in DOMAIN nos \cup {p} |-> IF t \in DOMAIN nos THEN nos[t] ELSE No(t)]
    BY DEF Coloca
  <1>2. Desenhadas \subseteq Tabelas /\ Tabelas \subseteq Nat /\ nivel \in [Tabelas -> Nat]
    BY DesenhoTipo DEF DiagramaInv, TypeOK
  <1>3. p \in faltam /\ \A u \in faltam : p <= u
    <2>1. faltam \in SUBSET Nat /\ faltam # {}
      BY <1>2 DEF Coloca
    <2>. HIDE DEF faltam
    <2>. QED  BY <2>1, PrimeiroEntra
  <1>. HIDE DEF p
  <1>4. p \in Desenhadas /\ p \notin DOMAIN nos /\ p \in Tabelas /\ p \in Nat
    BY <1>2, <1>3
  <1>5. /\ DOMAIN nos' = DOMAIN nos \cup {p} /\ nos'[p] = No(p)
        /\ \A t \in DOMAIN nos : nos'[t] = nos[t]
    BY <1>1, <1>4
  <1>6. Desenhadas' = Desenhadas /\ Percorrida'
    BY <1>1, EntradaFica DEF Percorrida
  <1>7. ASSUME NEW t \in DOMAIN nos', NEW u \in Desenhadas \ DOMAIN nos' PROVE t < u
    <2>1. CASE t = p
      <3>1. u \in faltam /\ u # p /\ u \in Nat
        BY <1>2, <1>5, <1>7
      <3>. QED  BY <1>3, <1>4, <2>1, <3>1
    <2>2. CASE t \in DOMAIN nos
      BY <1>5, <1>7, <2>2 DEF NosInv
    <2>. QED  BY <1>5, <1>7, <2>1, <2>2
  <1>8. Fim(nivel[p]) \in Nat /\ AlturaDoNo(Mostradas(p)) \in 46..190
    BY <1>4, FimDepois, AlturaCabe DEF DiagramaInv
  <1>9. /\ nos'[p].nivel = nivel[p] /\ nos'[p].x = Coluna(nivel[p])
        /\ nos'[p].y = MARGEM + Fim(nivel[p]) /\ nos'[p].altura = AlturaDoNo(Mostradas(p))
    BY <1>5 DEF No, Coluna
  <1>10. nos'[p].y \in Nat /\ nos'[p].y >= MARGEM /\ nos'[p].altura \in 46..190
    BY <1>8, <1>9 DEF MARGEM
  <1>11. ASSUME NEW t \in DOMAIN nos'
         PROVE  /\ nos'[t].nivel = nivel'[t] /\ nos'[t].x = Coluna(nivel'[t])
                /\ nos'[t].y \in Nat /\ nos'[t].y >= MARGEM /\ nos'[t].altura \in 46..190
    <2>1. CASE t = p
      BY <1>1, <1>9, <1>10, <2>1
    <2>2. CASE t \in DOMAIN nos
      BY <1>1, <1>5, <2>2 DEF NosInv
    <2>. QED  BY <1>5, <1>11, <2>1, <2>2
  <1>12. ASSUME NEW t \in DOMAIN nos', NEW u \in DOMAIN nos', t < u, nos'[t].nivel = nos'[u].nivel
         PROVE  nos'[t].y + nos'[t].altura + ESPACO_ENTRE_NOS <= nos'[u].y
    <2>1. t # p
      <3>1. ASSUME t = p PROVE FALSE
        <4>1. u \in DOMAIN nos
          BY <1>4, <1>5, <1>12, <3>1
        <4>2. u < p /\ u \in Nat
          BY <1>2, <1>4, <4>1 DEF NosInv
        <4>. QED  BY <1>4, <1>12, <3>1, <4>2
      <3>. QED  BY <3>1
    <2>2. t \in DOMAIN nos /\ nos'[t] = nos[t]
      BY <1>5, <1>12, <2>1
    <2>3. CASE u = p
      <3>1. nos[t].nivel = nivel[p]
        BY <1>9, <1>12, <2>2, <2>3
      <3>2. nos[t].y + nos[t].altura + ESPACO_ENTRE_NOS <= MARGEM + Fim(nivel[p])
        BY <2>2, <3>1, FimDepois DEF DiagramaInv
      <3>. QED  BY <1>9, <2>2, <2>3, <3>2
    <2>4. CASE u \in DOMAIN nos
      BY <1>5, <1>12, <2>2, <2>4 DEF NosInv
    <2>. QED  BY <1>5, <1>12, <2>3, <2>4
  <1>13. (DOMAIN nos \subseteq Desenhadas)'
    BY <1>4, <1>5, <1>6 DEF NosInv
  <1>14. \A n : Coluna(n)' = Coluna(n)
    BY DEF Coluna
  <1>. QED  BY <1>6, <1>7, <1>11, <1>12, <1>13, <1>14 DEF NosInv

\* Any step, by its action, for the boxes.
LEMMA NosMantem ==
  ASSUME ConstantesOk, DiagramaInv, NosInv, [Next]_vars
  PROVE  NosInv'
  <1>1. CASE UNCHANGED vars
    <2>1. UNCHANGED <<entrada, estado, nivel, pilha, nos>> /\ Desenhadas' = Desenhadas
      BY <1>1, EntradaFica DEF vars, entrada
    <2>. QED  BY <2>1 DEF NosInv, Percorrida, Coluna
  <1>2. CASE Comeca \/ Examina \/ Desempilha
    <2>1. DOMAIN nos = {}
      BY <1>2, NadaColocado DEF Comeca, Examina, Desempilha
    <2>2. nos' = nos
      BY <1>2 DEF Comeca, Examina, Desempilha
    <2>. QED  BY <2>1, <2>2 DEF NosInv
  <1>. QED  BY <1>1, <1>2, ColocaNos DEF Next

\* No level is left out, so that a level is less than the number of levels in use.
LEMMA NivelContado ==
  ASSUME ConstantesOk, DiagramaInv, NosInv, Desenhado, NEW t \in DOMAIN nos
  PROVE  Niveis \in Nat /\ nivel[t] \in Nat /\ nivel[t] + 1 <= Niveis
  <1>. DEFINE L == {nos[u].nivel : u \in DOMAIN nos}
              k == nivel[t]
              Falhas == {d \in 0..k : k - d \notin L}
  <1>1. /\ DOMAIN nos = Desenhadas /\ Desenhadas \subseteq Tabelas /\ nivel \in [Tabelas -> Nat]
        /\ \A u \in DOMAIN nos : nos[u].nivel = nivel[u]
    BY DesenhoTipo DEF DiagramaInv, TypeOK, Desenhado, NosInv
  <1>2. k \in Nat /\ k \in L /\ \A u \in Desenhadas : nivel[u] \in L
    BY <1>1
  <1>3. ASSUME NEW u \in Desenhadas, nivel[u] > 0 PROVE nivel[u] - 1 \in L
    <2>1. PICK v \in Saidas(u) : nivel[v] = nivel[u] - 1
      BY <1>1, <1>3 DEF DiagramaInv, NiveisContiguos
    <2>2. v \in Desenhadas
      <3>1. <<u, v>> \in Relacoes
        BY SaidaRelacao DEF DiagramaInv
      <3>2. <<u, v>> \in Visiveis \X Visiveis /\ <<u, v>>[2] = v
        BY <3>1 DEF Relacoes
      <3>. QED  BY <3>1, <3>2 DEF Desenhadas, ComRelacao
    <2>. QED  BY <1>2, <2>1, <2>2
  <1>4. \A n \in L : n \in Nat /\ (n > 0 => n - 1 \in L)
    BY <1>1, <1>3
  <1>5. IsFiniteSet(L)
    <2>. DEFINE f == [u \in DOMAIN nos |-> nos[u].nivel]
    <2>1. IsFiniteSet(DOMAIN nos)
      BY <1>1, FS_Subset DEF ConstantesOk
    <2>2. L = {f[u] : u \in DOMAIN nos}
      OBVIOUS
    <2>3. f = [u \in DOMAIN nos |-> f[u]] /\ DOMAIN f = DOMAIN nos
      OBVIOUS
    <2>. HIDE DEF f, L
    <2>. QED  BY <2>1, <2>2, <2>3, ImagemFinita
  <1>. HIDE DEF L, k
  <1>6. Falhas = {}
    <2>1. SUFFICES ASSUME Falhas # {} PROVE FALSE
      OBVIOUS
    <2>. DEFINE d == Primeiro(Falhas)
    <2>2. d \in Falhas /\ \A e \in Falhas : d <= e
      <3>1. Falhas \in SUBSET Nat
        OBVIOUS
      <3>. HIDE DEF Falhas
      <3>. QED  BY <2>1, <3>1, PrimeiroEntra
    <2>. HIDE DEF d
    <2>3. d \in 0..k /\ k - d \notin L /\ d # 0
      BY <1>2, <2>2
    <2>4. d - 1 \in 0..k /\ d - 1 \notin Falhas
      BY <1>2, <2>2, <2>3
    <2>5. k - (d - 1) \in L /\ k - (d - 1) > 0
      BY <1>2, <2>3, <2>4
    <2>6. k - (d - 1) - 1 \in L
      BY <1>4, <2>5
    <2>7. k - (d - 1) - 1 = k - d
      BY <1>2, <2>3
    <2>. QED  BY <2>3, <2>6, <2>7
  <1>7. 0..k \subseteq L
    <2>1. ASSUME NEW n \in 0..k PROVE n \in L
      <3>1. k - n \in 0..k /\ k - (k - n) = n
        BY <1>2
      <3>2. k - n \notin Falhas
        BY <1>6
      <3>. QED  BY <3>1, <3>2
    <2>. QED  BY <2>1
  <1>8. IsFiniteSet(0..k) /\ Cardinality(0..k) = k + 1
    <2>1. /\ 0 \in Int /\ k \in Int
          /\ (IF 0 > k THEN 0 ELSE k - 0 + 1) = k + 1
      BY <1>2
    <2>. QED  BY <2>1, FS_Interval
  <1>9. Niveis = Cardinality(L)
    BY DEF Niveis, L
  <1>10. Cardinality(L) \in Nat /\ Cardinality(0..k) <= Cardinality(L)
    BY <1>5, <1>7, FS_Subset, FS_CardinalityType
  <1>. QED  BY <1>2, <1>8, <1>9, <1>10 DEF k

\* The drawing is as high as its highest level.
LEMMA AlturaContada ==
  ASSUME ConstantesOk, DiagramaInv, NosInv
  PROVE  /\ Altura \in Nat
         /\ \A t \in DOMAIN nos : nos[t].y + nos[t].altura <= Altura - MARGEM
  <1>. DEFINE L == {nos[u].nivel : u \in DOMAIN nos}
              g == [n \in L |-> Fim(n) - ESPACO_ENTRE_NOS]
              fins == {g[n] : n \in L} \cup {0}
              alto == CHOOSE f \in fins : \A h \in fins : h <= f
  <1>1. IsFiniteSet(L)
    <2>. DEFINE f == [u \in DOMAIN nos |-> nos[u].nivel]
    <2>1. IsFiniteSet(DOMAIN nos)
      BY FS_Subset DEF ConstantesOk, DiagramaInv, TypeOK
    <2>2. L = {f[u] : u \in DOMAIN nos}
      OBVIOUS
    <2>3. f = [u \in DOMAIN nos |-> f[u]] /\ DOMAIN f = DOMAIN nos
      OBVIOUS
    <2>. HIDE DEF f, L
    <2>. QED  BY <2>1, <2>2, <2>3, ImagemFinita
  <1>2. IsFiniteSet({g[n] : n \in L})
    <2>1. g = [n \in L |-> g[n]] /\ DOMAIN g = L
      OBVIOUS
    <2>. HIDE DEF g, L
    <2>. QED  BY <1>1, <2>1, ImagemFinita
  <1>3. \A n \in L : g[n] \in Int /\ g[n] = Fim(n) - ESPACO_ENTRE_NOS
    <2>1. \A n : Fim(n) \in Nat
      BY FimDepois DEF DiagramaInv
    <2>2. \A n \in L : g[n] = Fim(n) - ESPACO_ENTRE_NOS
      OBVIOUS
    <2>. HIDE DEF g, L
    <2>. QED  BY <2>1, <2>2 DEF ESPACO_ENTRE_NOS
  <1>4. Altura = MARGEM * 2 + alto
    <2>1. {g[n] : n \in L} = {Fim(n) - ESPACO_ENTRE_NOS : n \in L}
      OBVIOUS
    <2>. QED  BY <2>1 DEF Altura
  <1>5. \A u \in DOMAIN nos : nos[u].nivel \in L
    OBVIOUS
  <1>. HIDE DEF g, L
  <1>6. alto \in fins /\ \A h \in fins : h <= alto
    <2>1. fins \in SUBSET Int
      BY <1>3
    <2>2. IsFiniteSet(fins)
      BY <1>2, FS_AddElement
    <2>3. fins # {}
      OBVIOUS
    <2>. HIDE DEF fins
    <2>4. \E m \in fins : \A u \in fins : u <= m
      BY <2>1, <2>2, <2>3, UltimoExiste
    <2>. QED  BY <2>4
  <1>. HIDE DEF alto
  <1>7. alto \in Int /\ alto >= 0 /\ \A n \in L : g[n] <= alto
    BY <1>3, <1>6
  <1>8. ASSUME NEW t \in DOMAIN nos PROVE nos[t].y + nos[t].altura <= Altura - MARGEM
    <2>. DEFINE n == nos[t].nivel
    <2>1. Fim(n) - ESPACO_ENTRE_NOS <= alto /\ Fim(n) \in Nat
      BY <1>3, <1>5, <1>7, FimDepois DEF DiagramaInv
    <2>2. nos[t].y + nos[t].altura + ESPACO_ENTRE_NOS <= MARGEM + Fim(n)
      BY FimDepois DEF DiagramaInv
    <2>3. nos[t].y \in Nat /\ nos[t].altura \in Nat
      BY DEF NosInv
    <2>. HIDE DEF n
    <2>. QED  BY <1>4, <1>7, <2>1, <2>2, <2>3 DEF MARGEM, ESPACO_ENTRE_NOS
  <1>. QED  BY <1>4, <1>7, <1>8 DEF MARGEM

\* Nothing overlaps and everything fits.
LEMMA CabeSempre ==
  ASSUME ConstantesOk, DiagramaInv, NosInv
  PROVE  CabeNoDesenho
  <1>1. SUFFICES ASSUME Desenhado
        PROVE
          /\ \A t, u \in DOMAIN nos :
               t # u /\ nos[t].x = nos[u].x =>
                 nos[t].y + nos[t].altura < nos[u].y \/ nos[u].y + nos[u].altura < nos[t].y
          /\ \A t \in DOMAIN nos :
               Direita(nos[t]) <= Largura - MARGEM /\ nos[t].y + nos[t].altura <= Altura - MARGEM
          /\ \A r \in Relacoes : \A q \in Pontos(r[1], r[2]) : q[1] \in 0..Largura /\ q[2] \in 0..Altura
    BY DEF CabeNoDesenho
  <1>2. ASSUME NEW t \in DOMAIN nos
        PROVE  /\ t \in Nat /\ nos[t].nivel = nivel[t] /\ nivel[t] \in Nat
               /\ nos[t].x = 32 + nivel[t] * 340
               /\ nos[t].y \in Nat /\ nos[t].y >= 32 /\ nos[t].altura \in 46..190
    <2>1. t \in Nat /\ nivel[t] \in Nat
      BY DEF DiagramaInv, TypeOK, ConstantesOk
    <2>2. /\ nos[t].nivel = nivel[t] /\ nos[t].x = Coluna(nivel[t])
          /\ nos[t].y \in Nat /\ nos[t].y >= MARGEM /\ nos[t].altura \in 46..190
      BY DEF NosInv
    <2>. QED  BY <2>1, <2>2 DEF Coluna, MARGEM, LARGURA_DO_NO, ESPACO_ENTRE_NIVEIS
  <1>3. ASSUME NEW t \in DOMAIN nos, NEW u \in DOMAIN nos, t # u, nos[t].x = nos[u].x
        PROVE  nos[t].y + nos[t].altura < nos[u].y \/ nos[u].y + nos[u].altura < nos[t].y
    <2>1. nos[t].nivel = nos[u].nivel
      BY <1>2, <1>3
    <2>2. t < u \/ u < t
      BY <1>2, <1>3
    <2>3. \/ nos[t].y + nos[t].altura + 28 <= nos[u].y
          \/ nos[u].y + nos[u].altura + 28 <= nos[t].y
      BY <2>1, <2>2 DEF NosInv, ESPACO_ENTRE_NOS
    <2>. QED  BY <1>2, <2>3
  <1>4. ASSUME NEW t \in DOMAIN nos
        PROVE  /\ Largura \in Int /\ nos[t].x + 280 <= Largura
               /\ Altura \in Nat /\ nos[t].y + nos[t].altura + 32 <= Altura
    <2>1. Niveis \in Nat /\ nivel[t] + 1 <= Niveis /\ Niveis # 0
      BY <1>1, <1>2, NivelContado
    <2>2. Largura = 64 + (Niveis - 1) * 340 + 248
      BY <2>1 DEF Largura, MARGEM, LARGURA_DO_NO, ESPACO_ENTRE_NIVEIS, RAIO_DA_ALCA
    <2>3. Altura \in Nat /\ nos[t].y + nos[t].altura <= Altura - 32
      BY AlturaContada DEF MARGEM
    <2>. QED  BY <1>2, <2>1, <2>2, <2>3
  <1>5. \A t \in DOMAIN nos :
          Direita(nos[t]) <= Largura - MARGEM /\ nos[t].y + nos[t].altura <= Altura - MARGEM
    BY <1>2, <1>4 DEF Direita, LARGURA_DO_NO, MARGEM
  <1>6. ASSUME NEW r \in Relacoes, NEW q \in Pontos(r[1], r[2])
        PROVE  q[1] \in 0..Largura /\ q[2] \in 0..Altura
    <2>. DEFINE a == r[1]
                b == r[2]
                de == nos[a]
                para == nos[b]
                alto  == de.y + (de.altura * 3) \div 10
                baixo == de.y + (de.altura * 7) \div 10
    <2>1. a \in DOMAIN nos /\ b \in DOMAIN nos
      <3>1. a \in Desenhadas
        BY SaidaRelacao DEF DiagramaInv
      <3>2. r \in Visiveis \X Visiveis
        BY DEF Relacoes
      <3>3. b \in Desenhadas
        BY <3>2 DEF Desenhadas, ComRelacao
      <3>. QED  BY <1>1, <3>1, <3>3 DEF Desenhado
    <2>2. /\ de.x \in Nat /\ de.x >= 32 /\ de.x + 280 <= Largura
          /\ para.x \in Nat /\ para.x >= 32 /\ para.x + 280 <= Largura
          /\ de.y \in Nat /\ de.altura \in Nat /\ de.y >= 32 /\ de.y + de.altura + 32 <= Altura
          /\ para.y \in Nat /\ para.altura \in Nat /\ para.y >= 32
          /\ para.y + para.altura + 32 <= Altura
          /\ Largura \in Int /\ Altura \in Int
      BY <1>2, <1>4, <2>1
    <2>3. /\ MeiaAltura(de) \in 0..Altura /\ MeiaAltura(para) \in 0..Altura
          /\ Direita(de) \in 0..Largura /\ Direita(para) \in 0..Largura
          /\ Direita(de) + 52 \in 0..Largura /\ Direita(para) + 52 \in 0..Largura
          /\ Direita(de) + 40 \in 0..Largura
          /\ de.x \in 0..Largura /\ para.x \in 0..Largura
      <3>. HIDE DEF de, para
      <3>. QED  BY <2>2 DEF MeiaAltura, Direita, LARGURA_DO_NO
    <2>4. alto \in 0..Altura /\ baixo \in 0..Altura /\ alto - 20 \in 0..Altura /\ baixo + 20 \in 0..Altura
      <3>. HIDE DEF de, para
      <3>. QED  BY <2>2
    <2>5. \A m, n \in 0..Largura : (m + n) \div 2 \in 0..Largura
      BY <2>2
    <2>. DEFINE mde == MeiaAltura(de)
                mpara == MeiaAltura(para)
                saida == IF de.nivel > para.nivel THEN de.x ELSE Direita(de)
                chegada == IF de.nivel > para.nivel THEN Direita(para) ELSE para.x
                meio == (saida + chegada) \div 2
    <2>6. CASE a = b
      <3>1. q \in {<<Direita(de), alto>>, <<Direita(de) + 40, alto - 20>>,
                   <<Direita(de) + 40, baixo + 20>>, <<Direita(de), baixo>>}
        <4>1. RAIO_DA_ALCA = 40 /\ RAIO_DA_ALCA \div 2 = 20
          BY DEF RAIO_DA_ALCA
        <4>. HIDE DEF RAIO_DA_ALCA
        <4>. QED  BY <1>6, <2>6, <4>1 DEF Pontos
      <3>. HIDE DEF a, b, de, para, alto, baixo
      <3>. QED  BY <2>3, <2>4, <3>1
    <2>7. CASE a # b /\ de.nivel = para.nivel
      <3>1. q \in {<<Direita(de), mde>>, <<Direita(de) + 52, mde>>,
                   <<Direita(para) + 52, mpara>>, <<Direita(para), mpara>>}
        BY <1>6, <2>7 DEF Pontos, DESVIO_LATERAL
      <3>2. mde \in 0..Altura /\ mpara \in 0..Altura
        BY <2>3
      <3>. HIDE DEF a, b, de, para, mde, mpara
      <3>. QED  BY <2>3, <3>1, <3>2
    <2>8. CASE a # b /\ de.nivel # para.nivel
      <3>1. q \in {<<saida, mde>>, <<meio, mde>>, <<meio, mpara>>, <<chegada, mpara>>}
        BY <1>6, <2>8 DEF Pontos
      <3>2. mde \in 0..Altura /\ mpara \in 0..Altura /\ saida \in 0..Largura /\ chegada \in 0..Largura
        BY <2>3
      <3>3. meio \in 0..Largura
        <4>. HIDE DEF saida, chegada
        <4>. QED  BY <2>5, <3>2
      <3>. HIDE DEF a, b, de, para, mde, mpara, saida, chegada, meio
      <3>. QED  BY <3>1, <3>2, <3>3
    <2>. QED  BY <2>6, <2>7, <2>8
  <1>. QED  BY <1>3, <1>5, <1>6

-----------------------------------------------------------------------------
(* What is drawn around a root.                                             *)

\* the tables a jump from those at the border of o reaches
Pulo(o) ==
  LET proxima == {t \in presentes \ o.alcancados : \E f \in o.fronteira : Ligadas(f, t)}
  IN [alcancados |-> o.alcancados \cup proxima, fronteira |-> proxima]

\* The recursion has as many steps as there are jumps.
LEMMA OndaAbre ==
  /\ Onda[0] = [alcancados |-> {Raiz}, fronteira |-> {Raiz}]
  /\ Onda[1] = Pulo(Onda[0])
  /\ Onda[2] = Pulo(Onda[1])
  <1>. DEFINE o0 == [alcancados |-> {Raiz}, fronteira |-> {Raiz}]
              o1 == Pulo(o0)
              o2 == Pulo(o1)
              Passo(f, s) == IF s = 0 THEN o0 ELSE Pulo(f[s - 1])
              g == [s \in 0..2 |-> IF s = 0 THEN o0 ELSE IF s = 1 THEN o1 ELSE o2]
  <1>1. Onda = CHOOSE f : f = [s \in 0..2 |-> Passo(f, s)]
    BY DEF Onda, Pulo, SALTOS_MAXIMOS
  <1>2. g = [s \in 0..2 |-> Passo(g, s)]
    <2>1. ASSUME NEW s \in 0..2 PROVE g[s] = Passo(g, s)
      <3>. HIDE DEF o0, o1, o2
      <3>1. CASE s = 0
        BY <3>1
      <3>2. CASE s = 1
        <4>1. g[1] = o1 /\ g[0] = o0
          OBVIOUS
        <4>. QED  BY <3>2, <4>1 DEF o1
      <3>3. CASE s = 2
        <4>1. g[2] = o2 /\ g[1] = o1
          OBVIOUS
        <4>. QED  BY <3>3, <4>1 DEF o2
      <3>. QED  BY <3>1, <3>2, <3>3
    <2>. HIDE DEF Passo, o0, o1, o2
    <2>. QED  BY <2>1
  <1>. HIDE DEF g
  <1>3. Onda = [s \in 0..2 |-> Passo(Onda, s)]
    BY <1>1, <1>2
  <1>. HIDE DEF o0, o1, o2
  <1>4. \A s \in 0..2 : Onda[s] = Passo(Onda, s)
    <2>. HIDE DEF Passo
    <2>. QED  BY <1>3
  <1>. QED  BY <1>4 DEF o0

\* One jump and two, around a root.
LEMMA OndaSaltos ==
  ASSUME Raiz # NenhumaRaiz
  PROVE  /\ Onda[1].alcancados = {t \in presentes : t = Raiz \/ Ligadas(Raiz, t)}
         /\ Onda[2].alcancados =
              {t \in presentes : \/ t = Raiz \/ Ligadas(Raiz, t)
                                 \/ \E m \in presentes : Ligadas(Raiz, m) /\ Ligadas(m, t)}
  <1>1. Raiz \in presentes
    BY DEF Raiz
  <1>. DEFINE n1 == {t \in presentes \ {Raiz} : Ligadas(Raiz, t)}
  <1>2. /\ Onda[1].alcancados = {Raiz} \cup n1
        /\ Onda[1].fronteira = n1
    <2>1. Onda[0].alcancados = {Raiz} /\ Onda[0].fronteira = {Raiz}
      BY OndaAbre
    <2>2. n1 = {t \in presentes \ {Raiz} : \E f \in {Raiz} : Ligadas(f, t)}
      OBVIOUS
    <2>. HIDE DEF n1
    <2>. QED  BY <2>1, <2>2, OndaAbre DEF Pulo
  <1>3. Onda[2].alcancados =
          Onda[1].alcancados \cup
            {t \in presentes \ Onda[1].alcancados : \E f \in n1 : Ligadas(f, t)}
    <2>. HIDE DEF n1
    <2>. QED  BY <1>2, OndaAbre DEF Pulo
  <1>. QED  BY <1>1, <1>2, <1>3

\* the tables within the jumps asked for
Perto(t) == \/ t = Raiz \/ Ligadas(Raiz, t)
            \/ Saltos = 2 /\ \E m \in presentes : Ligadas(Raiz, m) /\ Ligadas(m, t)

\* Around a root, every table reached is drawn: a relation brought it.
LEMMA VizinhancaSempre ==
  ASSUME TypeOK
  PROVE  VizinhancaExata
  <1>1. SUFFICES ASSUME Raiz # NenhumaRaiz
                 PROVE  Desenhadas = {t \in presentes : Perto(t)}
    BY Zenon DEF VizinhancaExata, Perto
  <1>2. Saltos = 1 \/ Saltos = 2
    BY DEF TypeOK, Saltos, Menor, Maior, SALTOS_MINIMOS, SALTOS_MAXIMOS
  <1>3. \A t : t \in Visiveis <=> t \in presentes /\ Perto(t)
    <2>1. Visiveis = Onda[Saltos].alcancados
      BY <1>1 DEF Visiveis
    <2>2. CASE Saltos = 1
      <3>1. \A t : t \in Onda[1].alcancados <=> t \in presentes /\ (t = Raiz \/ Ligadas(Raiz, t))
        BY <1>1, OndaSaltos
      <3>. QED  BY <2>1, <2>2, <3>1 DEF Perto
    <2>3. CASE Saltos = 2
      <3>1. \A t : t \in Onda[2].alcancados <=>
              /\ t \in presentes
              /\ \/ t = Raiz \/ Ligadas(Raiz, t)
                 \/ \E m \in presentes : Ligadas(Raiz, m) /\ Ligadas(m, t)
        BY <1>1, OndaSaltos
      <3>. QED  BY <2>1, <2>3, <3>1 DEF Perto
    <2>. QED  BY <1>2, <2>2, <2>3
  <1>4. ASSUME NEW t \in Visiveis, NEW u \in Visiveis, Ligadas(u, t) PROVE ComRelacao(t)
    <2>1. <<u, t>> \in Relacoes \/ <<t, u>> \in Relacoes
      BY <1>4 DEF Ligadas, Relacoes
    <2>2. <<u, t>>[2] = t /\ <<t, u>>[1] = t
      OBVIOUS
    <2>. QED  BY <2>1, <2>2 DEF ComRelacao
  <1>5. ASSUME NEW t \in Visiveis, t # Raiz PROVE \E u \in Visiveis : Ligadas(u, t)
    <2>1. Raiz \in presentes
      BY <1>1 DEF Raiz
    <2>2. Raiz \in Visiveis
      BY <1>3, <2>1 DEF Perto
    <2>3. CASE Ligadas(Raiz, t)
      BY <2>2, <2>3
    <2>4. CASE \E m \in presentes : Ligadas(Raiz, m) /\ Ligadas(m, t)
      BY <1>3, <2>4 DEF Perto
    <2>. QED  BY <1>3, <1>5, <2>3, <2>4 DEF Perto
  <1>6. Desenhadas = Visiveis
    BY <1>4, <1>5 DEF Desenhadas
  <1>7. Visiveis \subseteq presentes
    BY <1>3
  <1>. QED  BY <1>3, <1>6, <1>7

-----------------------------------------------------------------------------
(* The drawing.                                                             *)

DesenhoInv == DesceInv /\ NosInv

\* No table was visited and no box placed.
LEMMA DesenhoInicia ==
  ASSUME ConstantesOk, Init
  PROVE  DesenhoInv
  <1>1. DOMAIN nos = {}
    BY DEF Init
  <1>. QED  BY <1>1, DesceInicia DEF DesenhoInv, NosInv

\* The walk and the placing, together.
LEMMA DesenhoMantem ==
  ASSUME ConstantesOk, DesenhoInv, [Next]_vars
  PROVE  DesenhoInv'
  BY DesceMantem, NosMantem DEF DesenhoInv, DesceInv

\* What is drawn of a walk that is done.
LEMMA DesenhoVale ==
  ASSUME ConstantesOk, DesenhoInv
  PROVE  TypeOK /\ NiveisContiguos /\ RelacaoDesce /\ CabeNoDesenho /\ VizinhancaExata
  <1>1. DiagramaInv /\ TypeOK /\ NiveisContiguos
    BY DEF DesenhoInv, DesceInv, DiagramaInv
  <1>. QED  BY <1>1, RelacaoDesceSempre, CabeSempre, VizinhancaSempre DEF DesenhoInv

-----------------------------------------------------------------------------
\* Whatever the tables, the relations and their cycles, no level of the drawing is left
\* empty under a table, no relation goes up unless there is a cycle, every box and every
\* line is inside the drawing with no box over another, and around a root what is drawn is
\* its neighbourhood (calcularLayout, nivelDosNos and vizinhancaDeTabelas, lib/erd.ts).
THEOREM DesenhoSempreCerto ==
  ASSUME ConstantesOk
  PROVE  Spec => [](TypeOK /\ NiveisContiguos /\ RelacaoDesce /\ CabeNoDesenho /\ VizinhancaExata)
  <1>1. Init => DesenhoInv
    BY DesenhoInicia
  <1>2. DesenhoInv /\ [Next]_vars => DesenhoInv'
    BY DesenhoMantem
  <1>3. DesenhoInv => TypeOK /\ NiveisContiguos /\ RelacaoDesce /\ CabeNoDesenho /\ VizinhancaExata
    BY DesenhoVale
  <1>. QED  BY <1>1, <1>2, <1>3, PTL DEF Spec
=============================================================================
