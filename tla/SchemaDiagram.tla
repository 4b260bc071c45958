----------------------------- MODULE SchemaDiagram -----------------------------
(***************************************************************************)
(* The layout of the schema diagram (frontend/src/lib/erd.ts): which       *)
(* tables are drawn, the level of each, by a depth-first walk with a stack *)
(* of its own, and where each box and each line goes.  The walk and the    *)
(* placing are steps, in the order calcularLayout takes them.              *)
(*                                                                         *)
(* A table is a number and comparar is the order of numbers.  A relation   *)
(* is a pair, its column named for the table it points at.  Types, sizes   *)
(* and labels are left out.                                                *)
(***************************************************************************)
EXTENDS FiniteSets, Integers, Sequences

CONSTANTS
  Tabelas,    \* the tables of the answer
  Primarias,  \* how many columns the primary key of each has
  MaxRelacoes \* bound: relations in the answer

NenhumaRaiz == 0
\* What the constants must be.
ConstantesOk ==
  /\ Tabelas \subseteq Nat \ {NenhumaRaiz} /\ IsFiniteSet(Tabelas)
  /\ Primarias \in [Tabelas -> Nat]
  /\ MaxRelacoes \in Nat

VARIABLES
  presentes,   \* the tables of the schema chosen
  relacoes,    \* the relations the answer declares
  pedida,      \* opcoes.raiz
  pedidos,     \* opcoes.saltos
  estado,      \* of each table in the walk
  nivel,
  pilha,       \* the stack of the walk: a table and the targets still to look at
  nos          \* the boxes placed so far

vars == <<presentes, relacoes, pedida, pedidos, estado, nivel, pilha, nos>>
entrada == <<presentes, relacoes, pedida, pedidos>>

-----------------------------------------------------------------------------
LARGURA_DO_NO == 208
ALTURA_DO_CABECALHO == 34
ALTURA_DA_COLUNA == 18
RESPIRO_DO_NO == 12
ESPACO_ENTRE_NIVEIS == 132
ESPACO_ENTRE_NOS == 28
MARGEM == 32
RAIO_DA_ALCA == 40
DESVIO_LATERAL == 52
MAXIMO_DE_COLUNAS_NO_NO == 8
SALTOS_MINIMOS == 1
SALTOS_MAXIMOS == 2

Menor(a, b) == IF a < b THEN a ELSE b
Maior(a, b) == IF a > b THEN a ELSE b

Saltos == Menor(SALTOS_MAXIMOS, Maior(SALTOS_MINIMOS, pedidos))
Raiz   == IF pedida \in presentes THEN pedida ELSE NenhumaRaiz

\* Relations with both ends in the schema.
DoEsquema == relacoes \cap (presentes \X presentes)

Ligadas(a, b) == <<a, b>> \in DoEsquema \/ <<b, a>> \in DoEsquema

\* vizinhancaDeTabelas: the tables reached and the border, after each jump.
Onda[salto \in 0..SALTOS_MAXIMOS] ==
  IF salto = 0 THEN [alcancados |-> {Raiz}, fronteira |-> {Raiz}]
  ELSE LET antes == Onda[salto - 1]
           proxima == {t \in presentes \ antes.alcancados : \E f \in antes.fronteira : Ligadas(f, t)}
       IN [alcancados |-> antes.alcancados \cup proxima, fronteira |-> proxima]

Visiveis == IF Raiz = NenhumaRaiz THEN presentes ELSE Onda[Saltos].alcancados

Relacoes == DoEsquema \cap (Visiveis \X Visiveis)

ComRelacao(t) == \E r \in Relacoes : t \in {r[1], r[2]}
Desenhadas == {t \in Visiveis : ComRelacao(t) \/ t = Raiz}
Orfas      == {t \in Visiveis : ~ComRelacao(t) /\ t # Raiz}

Saidas(t) == {r[2] : r \in {q \in Relacoes : q[1] = t}}

Primeiro(S) == CHOOSE t \in S : \A u \in S : t <= u

-----------------------------------------------------------------------------
Estados == {"novo", "visitando", "pronto"}

TypeOK ==
  /\ presentes \subseteq Tabelas /\ relacoes \subseteq Tabelas \X Tabelas
  /\ pedida \in Tabelas \cup {NenhumaRaiz} /\ pedidos \in Nat
  /\ estado \in [Tabelas -> Estados] /\ nivel \in [Tabelas -> Nat]
  /\ pilha \in Seq([id : Tabelas, resta : SUBSET Tabelas])
  /\ DOMAIN nos \subseteq Tabelas

Init ==
  /\ presentes \in SUBSET Tabelas
  /\ relacoes \in {r \in SUBSET (Tabelas \X Tabelas) : Cardinality(r) <= MaxRelacoes}
  /\ pedida \in Tabelas \cup {NenhumaRaiz} /\ pedidos \in 0..3
  /\ estado = [t \in Tabelas |-> "novo"] /\ nivel = [t \in Tabelas |-> 0]
  /\ pilha = <<>> /\ nos = <<>>

Topo == pilha[Len(pilha)]

Empilha(t) ==
  /\ estado' = [estado EXCEPT ![t] = "visitando"]
  /\ nivel' = [nivel EXCEPT ![t] = 0]

\* nivelDosNos: the next table nobody reached.
Comeca ==
  LET novas == {t \in Desenhadas : estado[t] = "novo"}
  IN /\ pilha = <<>> /\ novas # {}
     /\ Empilha(Primeiro(novas))
     /\ pilha' = <<[id |-> Primeiro(novas), resta |-> Saidas(Primeiro(novas))]>>
     /\ UNCHANGED <<entrada, nos>>

Acima(a, b) == [nivel EXCEPT ![a] = Maior(@, nivel[b] + 1)]

\* Mutant: a table that closes a cycle lifts the one on top.
Terminada_OuVisitando(t) == estado[t] # "novo"

Terminada(t) == estado[t] = "pronto"

\* The next target of the table on top: a finished one lifts it, a new one is walked
\* first, and itself or one being visited, which closes a cycle, is passed over.
Examina ==
  /\ pilha # <<>> /\ Topo.resta # {}
  /\ LET alvo == Primeiro(Topo.resta)
         seguinte == [pilha EXCEPT ![Len(pilha)].resta = @ \ {alvo}]
     IN \/ /\ estado[alvo] = "novo"
           /\ Empilha(alvo)
           /\ pilha' = Append(seguinte, [id |-> alvo, resta |-> Saidas(alvo)])
        \/ /\ Terminada(alvo)
           /\ nivel' = Acima(Topo.id, alvo)
           /\ pilha' = seguinte /\ UNCHANGED estado
        \/ /\ estado[alvo] = "visitando"
           /\ pilha' = seguinte /\ UNCHANGED <<estado, nivel>>
  /\ UNCHANGED <<entrada, nos>>

Desempilha ==
  /\ pilha # <<>> /\ Topo.resta = {}
  /\ estado' = [estado EXCEPT ![Topo.id] = "pronto"]
  /\ nivel' = IF Len(pilha) > 1 THEN Acima(pilha[Len(pilha) - 1].id, Topo.id) ELSE nivel
  /\ pilha' = SubSeq(pilha, 1, Len(pilha) - 1)
  /\ UNCHANGED <<entrada, nos>>

-----------------------------------------------------------------------------
\* colunasDoNo: the primary key and the columns of the relations, cut at the maximum.
Mostradas(t) == Menor(MAXIMO_DE_COLUNAS_NO_NO, Primarias[t] + Cardinality(Saidas(t)))

AlturaDoNo(colunas) == ALTURA_DO_CABECALHO + colunas * ALTURA_DA_COLUNA + RESPIRO_DO_NO

\* The lower edge of what is stacked in a level, and the space after it.
Empilhados(n) == {t \in DOMAIN nos : nos[t].nivel = n}
Fim(n) ==
  IF Empilhados(n) = {} THEN 0
  ELSE LET ultimo == CHOOSE t \in Empilhados(n) : \A u \in Empilhados(n) : u <= t
       IN nos[ultimo].y - MARGEM + nos[ultimo].altura + ESPACO_ENTRE_NOS

No(t) ==
  [nivel |-> nivel[t], x |-> MARGEM + nivel[t] * (LARGURA_DO_NO + ESPACO_ENTRE_NIVEIS),
   y |-> MARGEM + Fim(nivel[t]), altura |-> AlturaDoNo(Mostradas(t))]

Percorrida == pilha = <<>> /\ \A t \in Desenhadas : estado[t] = "pronto"

\* The boxes, in the order of the tables.
Coloca ==
  LET faltam == Desenhadas \ DOMAIN nos
  IN /\ Percorrida /\ faltam # {}
     /\ nos' = [t \in DOMAIN nos \cup {Primeiro(faltam)} |->
                  IF t \in DOMAIN nos THEN nos[t] ELSE No(t)]
     /\ UNCHANGED <<entrada, estado, nivel, pilha>>

Next == Comeca \/ Examina \/ Desempilha \/ Coloca

Spec == Init /\ [][Next]_vars

Desenhado == Percorrida /\ DOMAIN nos = Desenhadas

-----------------------------------------------------------------------------
Direita(n) == n.x + LARGURA_DO_NO
MeiaAltura(n) == n.y + n.altura \div 2

\* pontosDaAresta, rounded down to a pixel.
Pontos(a, b) ==
  LET de == nos[a]
      para == nos[b]
      alto  == de.y + (de.altura * 3) \div 10
      baixo == de.y + (de.altura * 7) \div 10
      saida   == IF de.nivel > para.nivel THEN de.x ELSE Direita(de)
      chegada == IF de.nivel > para.nivel THEN Direita(para) ELSE para.x
  IN IF a = b
     THEN {<<Direita(de), alto>>, <<Direita(de) + RAIO_DA_ALCA, alto - RAIO_DA_ALCA \div 2>>,
           <<Direita(de) + RAIO_DA_ALCA, baixo + RAIO_DA_ALCA \div 2>>, <<Direita(de), baixo>>}
     ELSE IF de.nivel = para.nivel
     THEN {<<Direita(de), MeiaAltura(de)>>, <<Direita(de) + DESVIO_LATERAL, MeiaAltura(de)>>,
           <<Direita(para) + DESVIO_LATERAL, MeiaAltura(para)>>, <<Direita(para), MeiaAltura(para)>>}
     ELSE {<<saida, MeiaAltura(de)>>, <<(saida + chegada) \div 2, MeiaAltura(de)>>,
           <<(saida + chegada) \div 2, MeiaAltura(para)>>, <<chegada, MeiaAltura(para)>>}

\* niveis, largura and altura of the drawing: as many columns as there are levels in use.
Niveis == Cardinality({nos[t].nivel : t \in DOMAIN nos})
Largura ==
  MARGEM * 2 + (IF Niveis = 0 THEN 0
                ELSE (Niveis - 1) * (LARGURA_DO_NO + ESPACO_ENTRE_NIVEIS) + LARGURA_DO_NO + RAIO_DA_ALCA)
Altura ==
  LET fins == {Fim(n) - ESPACO_ENTRE_NOS : n \in {nos[t].nivel : t \in DOMAIN nos}} \cup {0}
  IN MARGEM * 2 + (CHOOSE f \in fins : \A g \in fins : g <= f)

-----------------------------------------------------------------------------
\* Every level up to the highest is in use, cycle or not: a table above the ground has a
\* finished one right under it that it points at.  The width of the drawing counts the
\* levels in use and the place of a box its number, so a gap would leave boxes outside.
NiveisContiguos ==
  \A t \in Tabelas : nivel[t] > 0 =>
    \E u \in Saidas(t) : estado[u] = "pronto" /\ nivel[u] = nivel[t] - 1

Aciclico ==
  \E ordem \in [Tabelas -> 1..Cardinality(Tabelas)] :
    \A r \in DoEsquema : r[1] # r[2] => ordem[r[1]] > ordem[r[2]]

\* Without a cycle every relation goes down, so that with NiveisContiguos the level of a
\* table is the longest way down from it (erd.test.ts, 'põe no nível 0 quem não aponta
\* para ninguém e empilha quem depende').
RelacaoDesce ==
  Percorrida /\ Aciclico => \A r \in Relacoes : r[1] # r[2] => nivel[r[1]] > nivel[r[2]]

\* No two boxes overlap, and the drawing holds every box and every point of every line.
CabeNoDesenho ==
  Desenhado =>
    /\ \A t, u \in DOMAIN nos :
         t # u /\ nos[t].x = nos[u].x => nos[t].y + nos[t].altura < nos[u].y \/ nos[u].y + nos[u].altura < nos[t].y
    /\ \A t \in DOMAIN nos : Direita(nos[t]) <= Largura - MARGEM /\ nos[t].y + nos[t].altura <= Altura - MARGEM
    /\ \A r \in Relacoes : \A p \in Pontos(r[1], r[2]) : p[1] \in 0..Largura /\ p[2] \in 0..Altura

\* Around a root the drawing is the tables within that many relations of it, followed in
\* either direction, and no other.
VizinhancaExata ==
  Raiz # NenhumaRaiz =>
    Desenhadas = {t \in presentes : \/ t = Raiz \/ Ligadas(Raiz, t)
                                    \/ Saltos = 2 /\ \E m \in presentes : Ligadas(Raiz, m) /\ Ligadas(m, t)}
=============================================================================
