----------------------- MODULE BalancerElectionProofs -----------------------
(***************************************************************************)
(* Theorems of BalancerElection, for any servers, sites, cycles and margin.*)
(*                                                                         *)
(* UmPrincipal is not inductive: it needs that the groups still to decide  *)
(* are in memory as they are in the table (Leitura), and that a group being*)
(* written differs from what was decided only in the rows still to write   *)
(* (Escrita), both but for the groups touched meanwhile.  SemVaivem needs  *)
(* that a counter never runs ahead of the decisions since the last change  *)
(* (Contagem).                                                             *)
(***************************************************************************)
EXTENDS BalancerElection, TLAPS

Leitura ==
  \A g \in eleicao.restam \ mexidos : \A s \in Servidores :
    /\ eleicao.lido[s].grupo = g <=> servidor[s].grupo = g
    /\ servidor[s].grupo = g => eleicao.lido[s].papel = servidor[s].papel

Escrita ==
  eleicao.pc = "grava" =>
    /\ \A s \in eleicao.faltam : eleicao.lido[s].grupo = "fora"
    /\ \A s \in Servidores : eleicao.papeis[s] = "principal" => s = eleicao.principal
    /\ eleicao.grupo \notin mexidos =>
         \A s \in Servidores :
           servidor[s].grupo = eleicao.grupo =>
             s \in eleicao.faltam \/ servidor[s].papel = eleicao.papeis[s]

Contagem == \A g \in Grupos : desafios[g] <= desde[g]

PapeisInv == TypeOK /\ Leitura /\ Escrita /\ UmPrincipal

-----------------------------------------------------------------------------
(* What decidir returns.                                                    *)

\* An election at rest is a legal one.
LEMMA DormindoTipo == Dormindo \in Eleicao
  BY ConstantesOk DEF Dormindo, Eleicao, Servidor, Papeis

\* The decision of a group is a member, the incumbent or nobody, with a counter
\* below Ciclos; only a challenge that reached Ciclos brings another server.
LEMMA DecisaoTipo ==
  ASSUME TypeOK, NEW g \in Grupos, NEW inc \in Incumbentes(g)
  PROVE  LET d == Decisao(g, inc) IN
         /\ d.principal \in Servidores \cup {Ninguem}
         /\ d.desafios \in 0..(Ciclos - 1)
         /\ d.desafios # 0 => d.principal = inc /\ d.desafios = desafios[g] + 1
         /\ d.principal \notin {Ninguem, inc} => desafios[g] + 1 >= Ciclos
  <1>. DEFINE d == Decisao(g, inc)
              R == [principal : Servidores \cup {Ninguem}, desafios : 0..(Ciclos - 1)]
              Ok(r) == /\ r \in R
                       /\ r.desafios # 0 => r.principal = inc /\ r.desafios = desafios[g] + 1
                       /\ r.principal \notin {Ninguem, inc} => desafios[g] + 1 >= Ciclos
  <1>1. Ciclos \in Nat \ {0} /\ desafios[g] \in 0..(Ciclos - 1)
    BY ConstantesOk DEF TypeOK
  <1>2. inc \in Servidores \cup {Ninguem}
    BY DEF Incumbentes, Membros
  <1>3. \A x \in {inc, Ninguem} : Ok(Mantem(x))
    BY <1>1, <1>2 DEF Mantem
  <1>4. \A x \in Servidores \cup {Ninguem} : Ok(Desafio(g, inc, x))
    BY <1>1, <1>2 DEF Desafio
  <1>5. Valido(g, inc) \in {inc, Ninguem}
    BY DEF Valido
  <1>6. Lideres(g) # {} => (CHOOSE s \in Lideres(g) : TRUE) \in Servidores
    BY DEF Lideres, EmTrafego, Candidatos, Membros
  <1>7. Ok(d)
    <2>. HIDE DEF Ok
    <2>1. CASE Candidatos(g) = {}
      <3>1. d = Mantem(Ninguem)
        BY <2>1 DEF Decisao, EmTrafego
      <3>. QED BY <3>1, <1>3
    <2>2. CASE Candidatos(g) # {} /\ EmTrafego(g) = {}
      <3>1. d \in {Mantem(inc), Desafio(g, inc, Ninguem)}
           /\ (d = Mantem(inc) \/ d = Desafio(g, inc, Ninguem))
        BY <2>2 DEF Decisao
      <3>. QED BY <3>1, <1>3, <1>4
    <2>3. CASE EmTrafego(g) # {}
      <3>1. Candidatos(g) # {}
        BY <2>3 DEF EmTrafego
      <3>. DEFINE lider == CHOOSE s \in Lideres(g) : TRUE
      <3>2. \/ d = Mantem(Valido(g, inc)) \/ d = Mantem(inc)
            \/ Lideres(g) # {} /\ d = Desafio(g, inc, lider)
        <4>. HIDE DEF lider
        <4>. QED BY <2>3, <3>1 DEF Decisao, lider
      <3>. HIDE DEF lider, d
      <3>. QED BY <3>2, <1>3, <1>4, <1>5, <1>6 DEF lider
    <2>. QED BY <2>1, <2>2, <2>3
  <1>. HIDE DEF d
  <1>. QED BY <1>7 DEF d

\* The roles of a decision are roles, and name its principal alone.
LEMMA PapeisTipo ==
  ASSUME NEW g, NEW p
  PROVE  /\ PapeisDe(g, p) \in [Servidores -> Papeis]
         /\ \A s \in Servidores : PapeisDe(g, p)[s] = "principal" => s = p
  BY DEF PapeisDe, Papeis

-----------------------------------------------------------------------------
(* Type correctness.                                                        *)

\* The initial state has its types.
LEMMA TipoInicial == Init => TypeOK
  <1>. SUFFICES ASSUME Init PROVE TypeOK
    OBVIOUS
  <1>1. servidor \in [Servidores -> Servidor]
    BY DEF Init
  <1>2. Dormindo.pc = "dorme"
    BY DEF Dormindo
  <1>. QED BY <1>1, <1>2, DormindoTipo, ConstantesOk DEF Init, TypeOK

\* Every step keeps the types.
LEMMA TipoPasso == TypeOK /\ [Next]_vars => TypeOK'
  <1>. SUFFICES ASSUME TypeOK, [Next]_vars PROVE TypeOK'
    OBVIOUS
  <1>0. /\ servidor \in [Servidores -> Servidor] /\ unidades \subseteq Grupos
        /\ desafios \in [Grupos -> 0..(Ciclos - 1)] /\ desde \in [Grupos -> 0..Ciclos]
        /\ mexidos \subseteq Grupos /\ limpos \subseteq Grupos /\ Ciclos \in Nat \ {0}
        /\ MaxReq \in Nat
    BY ConstantesOk DEF TypeOK
  <1>e. eleicao \in Eleicao
    BY DEF TypeOK
  <1>1. CASE Listar
    <2>1. PICK req \in [Servidores -> 0..MaxReq] :
            eleicao' = [Dormindo EXCEPT
              !.pc = "decide", !.lido = servidor, !.req = req,
              !.restam = {g \in Grupos : \E s \in Servidores : servidor[s].grupo = g}]
      BY <1>1 DEF Listar
    <2>2. eleicao' \in Eleicao
      BY <1>0, <2>1, DormindoTipo DEF Eleicao
    <2>3. eleicao'.pc = "decide"
      BY <2>1, DormindoTipo DEF Eleicao
    <2>. QED BY <1>0, <1>1, <2>2, <2>3 DEF Listar, TypeOK
  <1>2. ASSUME NEW g \in Grupos, Decidir(g) PROVE TypeOK'
    <2>1. PICK inc \in Incumbentes(g) :
            LET d      == Decisao(g, inc)
                papeis == PapeisDe(g, d.principal)
            IN /\ eleicao' = [eleicao EXCEPT
                    !.pc = "grava", !.restam = @ \ {g}, !.grupo = g, !.papeis = papeis,
                    !.lido = Esquecido(g, @, Dormindo.lido),
                    !.req = Esquecido(g, @, Dormindo.req),
                    !.faltam = AGravar(g, papeis),
                    !.anterior = inc, !.principal = d.principal]
               /\ desafios' = [desafios EXCEPT ![g] = d.desafios]
               /\ desde' = [desde EXCEPT ![g] =
                    IF d.principal # inc THEN 0 ELSE IF @ < Ciclos THEN @ + 1 ELSE @]
      BY <1>2 DEF Decidir
    <2>. DEFINE d == Decisao(g, inc)
                papeis == PapeisDe(g, d.principal)
                lido == Esquecido(g, eleicao.lido, Dormindo.lido)
                req == Esquecido(g, eleicao.req, Dormindo.req)
                faltam == AGravar(g, papeis)
    <2>2. d.principal \in Servidores \cup {Ninguem} /\ d.desafios \in 0..(Ciclos - 1)
      BY DecisaoTipo
    <2>3. papeis \in [Servidores -> Papeis] /\ faltam \in SUBSET Servidores
      BY PapeisTipo DEF AGravar, Membros
    <2>4. lido \in [Servidores -> Servidor] /\ req \in [Servidores -> 0..MaxReq]
      BY <1>e, DormindoTipo DEF Esquecido, Eleicao
    <2>5. inc \in Servidores \cup {Ninguem}
      BY DEF Incumbentes, Membros
    <2>6. eleicao' \in Eleicao
      <3>. HIDE DEF d, papeis, lido, req, faltam
      <3>1. eleicao' = [eleicao EXCEPT
              !.pc = "grava", !.restam = @ \ {g}, !.grupo = g, !.papeis = papeis,
              !.lido = lido, !.req = req, !.faltam = faltam,
              !.anterior = inc, !.principal = d.principal]
        BY <2>1 DEF d, papeis, lido, req, faltam
      <3>. QED BY <1>e, <2>2, <2>3, <2>4, <2>5, <3>1 DEF Eleicao
    <2>8. eleicao'.grupo = g
      BY <1>e, <2>1 DEF Eleicao
    <2>7. desafios' \in [Grupos -> 0..(Ciclos - 1)] /\ desde' \in [Grupos -> 0..Ciclos]
      <3>. HIDE DEF d
      <3>. QED BY <1>0, <2>1, <2>2 DEF d
    <2>. QED BY <1>0, <1>2, <2>6, <2>7, <2>8 DEF Decidir, TypeOK
  <1>3. ASSUME NEW s \in Servidores, GravarPapel(s) PROVE TypeOK'
    <2>1. servidor' \in [Servidores -> Servidor]
      <3>1. eleicao.papeis[s] \in Papeis
        BY <1>e DEF Eleicao
      <3>. QED BY <1>0, <1>3, <3>1 DEF GravarPapel, Servidor
    <2>2. eleicao' \in Eleicao
      BY <1>e, <1>3 DEF GravarPapel, Eleicao
    <2>3. eleicao'.grupo = eleicao.grupo /\ eleicao.grupo \in Grupos
      BY <1>e, <1>3 DEF GravarPapel, Eleicao, TypeOK
    <2>4. mexidos' \subseteq Grupos /\ limpos' \subseteq Grupos
      BY <1>0, <1>3, <2>3 DEF GravarPapel
    <2>. QED BY <1>0, <1>3, <2>1, <2>2, <2>3, <2>4 DEF GravarPapel, TypeOK
  <1>4. CASE Anunciar
    <2>1. eleicao.grupo \in Grupos
      BY <1>4 DEF Anunciar, TypeOK
    <2>2. \/ eleicao' = Dormindo
          \/ eleicao' = [eleicao EXCEPT
                !.pc = "decide", !.grupo = "fora", !.anterior = Ninguem,
                !.principal = Ninguem, !.papeis = Dormindo.papeis]
      BY <1>4 DEF Anunciar
    <2>3. eleicao' \in Eleicao /\ eleicao'.pc # "grava"
      <3>1. Dormindo.pc = "dorme" /\ Dormindo.papeis \in [Servidores -> Papeis]
        BY DEF Dormindo, Papeis
      <3>. QED BY <1>e, <2>2, <3>1, DormindoTipo, ZenonT(60) DEF Eleicao
    <2>4. limpos' \subseteq Grupos
      BY <1>0, <1>4, <2>1 DEF Anunciar
    <2>. QED BY <1>0, <1>4, <2>3, <2>4 DEF Anunciar, TypeOK
  <1>5. CASE Encerrar
    <2>1. Dormindo.pc = "dorme"
      BY DEF Dormindo
    <2>. QED BY <1>0, <1>5, <2>1, DormindoTipo DEF Encerrar, TypeOK
  <1>6. ASSUME NEW s \in Servidores, Sondar(s) PROVE TypeOK'
    BY <1>0, <1>e, <1>6 DEF Sondar, Servidor, TypeOK
  <1>7. ASSUME NEW s \in Servidores, NEW g \in Grupos, Registrar(s, g) PROVE TypeOK'
    <2>1. servidor' \in [Servidores -> Servidor]
      BY <1>0, <1>7 DEF Registrar, Servidor, Papeis
    <2>. QED BY <1>0, <1>e, <1>7, <2>1 DEF Registrar, Tocar, TypeOK
  <1>8. ASSUME NEW s \in Servidores, Remover(s) PROVE TypeOK'
    <2>1. servidor' \in [Servidores -> Servidor] /\ servidor[s].grupo \in Grupos
      BY <1>0, <1>8 DEF Remover, Existe, Servidor, Papeis
    <2>. QED BY <1>0, <1>e, <1>8, <2>1 DEF Remover, Tocar, TypeOK
  <1>9. ASSUME NEW g \in Grupos, RemoverUnidade(g) PROVE TypeOK'
    <2>1. SemUnidade \in Grupos
      BY ConstantesOk
    <2>2. servidor' \in [Servidores -> Servidor]
      BY <1>0, <1>9, <2>1 DEF RemoverUnidade, Servidor
    <2>. QED BY <1>0, <1>e, <1>9, <2>1, <2>2 DEF RemoverUnidade, Tocar, TypeOK
  <1>10. CASE Queda
    <2>1. Dormindo.pc = "dorme"
      BY DEF Dormindo
    <2>. QED BY <1>0, <1>10, <2>1, DormindoTipo DEF Queda, TypeOK
  <1>11. CASE UNCHANGED vars
    BY <1>11 DEF vars, TypeOK
  <1>. QED BY <1>1, <1>2, <1>3, <1>4, <1>5, <1>6, <1>7, <1>8, <1>9, <1>10, <1>11
       DEF Next, Eleger

\* What decidir leaves in memory of the group g.
LEMMA AposDecidir ==
  ASSUME TypeOK, NEW g \in Grupos, Decidir(g)
  PROVE  /\ eleicao'.pc = "grava" /\ eleicao'.grupo = g
         /\ eleicao'.restam = eleicao.restam \ {g}
         /\ eleicao'.lido = Esquecido(g, eleicao.lido, Dormindo.lido)
         /\ eleicao'.papeis = PapeisDe(g, eleicao'.principal)
         /\ eleicao'.faltam = AGravar(g, eleicao'.papeis)
         /\ eleicao'.anterior \in Incumbentes(g)
         /\ eleicao'.principal = Decisao(g, eleicao'.anterior).principal
  <1>1. PICK inc \in Incumbentes(g) :
          LET d      == Decisao(g, inc)
              papeis == PapeisDe(g, d.principal)
          IN eleicao' = [eleicao EXCEPT
               !.pc = "grava", !.restam = @ \ {g}, !.grupo = g, !.papeis = papeis,
               !.lido = Esquecido(g, @, Dormindo.lido),
               !.req = Esquecido(g, @, Dormindo.req),
               !.faltam = AGravar(g, papeis),
               !.anterior = inc, !.principal = d.principal]
    BY DEF Decidir
  <1>2. eleicao \in Eleicao
    BY DEF TypeOK
  <1>. DEFINE q == Decisao(g, inc).principal
              lido == Esquecido(g, eleicao.lido, Dormindo.lido)
              req == Esquecido(g, eleicao.req, Dormindo.req)
              papeis == PapeisDe(g, q)
              faltam == AGravar(g, papeis)
  <1>3. /\ eleicao'.pc = "grava" /\ eleicao'.grupo = g
        /\ eleicao'.restam = eleicao.restam \ {g}
        /\ eleicao'.lido = lido /\ eleicao'.papeis = papeis /\ eleicao'.faltam = faltam
        /\ eleicao'.anterior = inc /\ eleicao'.principal = q
    <2>1. eleicao' = [eleicao EXCEPT
               !.pc = "grava", !.restam = @ \ {g}, !.grupo = g, !.papeis = papeis,
               !.lido = lido, !.req = req, !.faltam = faltam,
               !.anterior = inc, !.principal = q]
      BY <1>1
    <2>. HIDE DEF q, lido, req, papeis, faltam
    <2>. QED BY <1>2, <2>1 DEF Eleicao
  <1>. QED BY <1>3

-----------------------------------------------------------------------------
(* The theorems.                                                            *)

\* Every state of every election has its types; a counter never reaches Ciclos
\* (decidir, eleicao.go:93-174).
THEOREM TipoEleicao == Spec => []TypeOK
  <1>. QED BY TipoInicial, TipoPasso, PTL DEF Spec

\* A counter never runs ahead of the decisions since the last change.
LEMMA ContagemPasso == TypeOK /\ Contagem /\ [Next]_vars => Contagem'
  <1>. SUFFICES ASSUME TypeOK, Contagem, [Next]_vars PROVE Contagem'
    OBVIOUS
  <1>0. /\ desafios \in [Grupos -> 0..(Ciclos - 1)] /\ desde \in [Grupos -> 0..Ciclos]
        /\ Ciclos \in Nat \ {0}
    BY ConstantesOk DEF TypeOK
  <1>1. ASSUME NEW g \in Grupos, Decidir(g) PROVE Contagem'
    <2>1. PICK inc \in Incumbentes(g) :
            LET d == Decisao(g, inc)
            IN /\ desafios' = [desafios EXCEPT ![g] = d.desafios]
               /\ desde' = [desde EXCEPT ![g] =
                    IF d.principal # inc THEN 0 ELSE IF @ < Ciclos THEN @ + 1 ELSE @]
      BY <1>1 DEF Decidir
    <2>. DEFINE d == Decisao(g, inc)
    <2>2. /\ d.desafios \in 0..(Ciclos - 1)
          /\ d.desafios # 0 => d.principal = inc /\ d.desafios = desafios[g] + 1
      BY DecisaoTipo
    <2>3. desafios'[g] <= desde'[g]
      <3>. HIDE DEF d
      <3>. QED BY <1>0, <2>1, <2>2 DEF d, Contagem
    <2>4. \A h \in Grupos \ {g} : desafios'[h] <= desde'[h]
      BY <1>0, <2>1 DEF Contagem
    <2>. QED BY <2>3, <2>4 DEF Contagem
  <1>2. CASE Queda
    BY <1>2 DEF Queda, Contagem
  <1>3. ASSUME UNCHANGED <<desafios, desde>> PROVE Contagem'
    BY <1>3 DEF Contagem
  <1>4. CASE \/ Listar \/ Encerrar \/ Anunciar \/ UNCHANGED vars
             \/ \E s \in Servidores : GravarPapel(s) \/ Sondar(s) \/ Remover(s)
             \/ \E s \in Servidores, g \in Grupos : Registrar(s, g)
             \/ \E g \in Grupos : RemoverUnidade(g)
    BY <1>3, <1>4 DEF Listar, Encerrar, Anunciar, GravarPapel, Sondar, Registrar,
       Remover, RemoverUnidade, vars
  <1>. QED BY <1>1, <1>2, <1>4 DEF Next, Eleger

\* The role does not swing: nobody is promoted before Ciclos decisions since the last
\* change of the group, crashes, moves, errors and ties included (eleicao.go:133-166).
THEOREM SemVaivemSempre == Spec => SemVaivem
  <1>1. Init => Contagem
    BY DEF Init, Contagem
  <1>2. TypeOK /\ Contagem /\ [Next]_vars
          => [\A g \in Grupos : Promove(g) => desde[g] + 1 >= Ciclos]_vars
    <2>. SUFFICES ASSUME TypeOK, Contagem, Next, NEW g \in Grupos, Promove(g)
                  PROVE  desde[g] + 1 >= Ciclos
      OBVIOUS
    <2>1. eleicao.pc = "decide" /\ eleicao'.pc = "grava" /\ eleicao'.grupo = g
      BY DEF Promove, Decide
    <2>2. eleicao \in Eleicao
      BY DEF TypeOK
    <2>3. PICK h \in Grupos : Decidir(h)
      <3>1. ~Listar /\ ~Anunciar /\ \A s \in Servidores : ~GravarPapel(s)
        BY <2>1 DEF Listar, Anunciar, GravarPapel
      <3>2. ~Encerrar /\ ~Queda
        BY <2>1 DEF Encerrar, Queda, Dormindo
      <3>3. eleicao' # eleicao
        BY <2>1
      <3>4. \A s \in Servidores : ~Sondar(s) /\ ~Remover(s)
        BY <3>3 DEF Sondar, Remover
      <3>5. \A s \in Servidores, k \in Grupos : ~Registrar(s, k)
        BY <3>3 DEF Registrar
      <3>6. \A k \in Grupos : ~RemoverUnidade(k)
        BY <3>3 DEF RemoverUnidade
      <3>. QED BY <3>1, <3>2, <3>4, <3>5, <3>6 DEF Next, Eleger
    <2>4. PICK inc \in Incumbentes(h) :
            /\ eleicao'.grupo = h /\ eleicao'.anterior = inc
            /\ eleicao'.principal = Decisao(h, inc).principal
      BY <2>3, AposDecidir
    <2>5. Decisao(h, inc).principal \notin {Ninguem, inc} => desafios[h] + 1 >= Ciclos
      BY DecisaoTipo
    <2>6. desafios[g] + 1 >= Ciclos
      BY <2>1, <2>4, <2>5 DEF Promove
    <2>. QED BY <2>6, ConstantesOk DEF Contagem, TypeOK
  <1>. QED BY <1>1, <1>2, TipoInicial, TipoPasso, ContagemPasso, PTL DEF Spec, SemVaivem

-----------------------------------------------------------------------------
(* One principal per group.                                                 *)

\* The invariant holds when the process starts.
LEMMA PapeisInicial == Init => PapeisInv
  <1>. SUFFICES ASSUME Init PROVE PapeisInv
    OBVIOUS
  <1>1. eleicao.pc = "dorme" /\ eleicao.restam = {} /\ limpos = {}
    BY DEF Init, Dormindo
  <1>. QED BY <1>1, TipoInicial DEF PapeisInv, Leitura, Escrita, UmPrincipal

\* A decision keeps what is in memory of the other groups.
LEMMA DecidirPapeis ==
  ASSUME PapeisInv, TypeOK', NEW g \in Grupos, Decidir(g)
  PROVE  PapeisInv'
  <1>0. /\ servidor' = servidor /\ mexidos' = mexidos /\ limpos' = limpos \ {g}
        /\ g \in eleicao.restam
    BY DEF Decidir
  <1>1. /\ eleicao'.pc = "grava" /\ eleicao'.grupo = g
        /\ eleicao'.restam = eleicao.restam \ {g}
        /\ eleicao'.lido = Esquecido(g, eleicao.lido, Dormindo.lido)
        /\ eleicao'.papeis = PapeisDe(g, eleicao'.principal)
        /\ eleicao'.faltam = AGravar(g, eleicao'.papeis)
    BY AposDecidir DEF PapeisInv
  <1>2. \A s \in Servidores : Dormindo.lido[s].grupo = "fora"
    BY DEF Dormindo
  <1>3. \A s \in Servidores :
          eleicao'.lido[s] = IF eleicao.lido[s].grupo = g THEN Dormindo.lido[s]
                             ELSE eleicao.lido[s]
    BY <1>1 DEF Esquecido, Membros
  <1>4. Leitura'
    <2>1. "fora" \notin Grupos
      BY ConstantesOk
    <2>2. eleicao.restam \subseteq Grupos
      BY DEF PapeisInv, TypeOK, Eleicao
    <2>. QED BY <1>0, <1>1, <1>2, <1>3, <2>1, <2>2 DEF Leitura, PapeisInv
  <1>5. Escrita'
    <2>1. \A s \in eleicao'.faltam : eleicao'.lido[s].grupo = "fora"
      BY <1>1, <1>2, <1>3 DEF AGravar, Membros
    <2>2. \A s \in Servidores : eleicao'.papeis[s] = "principal" => s = eleicao'.principal
      BY <1>1, PapeisTipo
    <2>3. ASSUME g \notin mexidos, NEW s \in Servidores, servidor[s].grupo = g,
                 s \notin eleicao'.faltam
          PROVE  servidor[s].papel = eleicao'.papeis[s]
      <3>1. eleicao.lido[s].grupo = g /\ eleicao.lido[s].papel = servidor[s].papel
        BY <1>0, <2>3 DEF PapeisInv, Leitura
      <3>. QED BY <1>1, <2>3, <3>1 DEF AGravar, Membros
    <2>. QED BY <1>0, <1>1, <2>1, <2>2, <2>3 DEF Escrita
  <1>6. UmPrincipal'
    BY <1>0 DEF UmPrincipal, Principais, PapeisInv
  <1>. QED BY <1>4, <1>5, <1>6 DEF PapeisInv

\* Writing one role keeps the invariant, wherever the row is by then.
LEMMA GravarPapeis ==
  ASSUME PapeisInv, TypeOK', NEW s \in Servidores, GravarPapel(s)
  PROVE  PapeisInv'
  <1>0. /\ eleicao \in Eleicao /\ servidor \in [Servidores -> Servidor]
        /\ Leitura /\ Escrita /\ UmPrincipal
        /\ eleicao.pc = "grava" => eleicao.grupo \in Grupos
    BY DEF PapeisInv, TypeOK
  <1>1. /\ eleicao.pc = "grava" /\ s \in eleicao.faltam
        /\ eleicao' = [eleicao EXCEPT !.faltam = @ \ {s}]
    BY DEF GravarPapel
  <1>2. /\ eleicao'.pc = "grava" /\ eleicao'.faltam = eleicao.faltam \ {s}
        /\ eleicao'.lido = eleicao.lido /\ eleicao'.papeis = eleicao.papeis
        /\ eleicao'.principal = eleicao.principal /\ eleicao'.grupo = eleicao.grupo
        /\ eleicao'.restam = eleicao.restam
    BY <1>0, <1>1 DEF Eleicao
  <1>3. eleicao.lido[s].grupo = "fora"
    BY <1>0, <1>1 DEF Escrita
  <1>4. eleicao.restam \subseteq Grupos /\ "fora" \notin Grupos
    BY <1>0, ConstantesOk DEF Eleicao
  <1>5. PICK ok \in Resposta :
          /\ servidor' = IF ok /\ Existe(s)
                         THEN [servidor EXCEPT ![s].papel = eleicao.papeis[s]]
                         ELSE servidor
          /\ mexidos' = IF ~ok THEN mexidos \cup {eleicao.grupo} ELSE mexidos
          /\ limpos' = IF ok THEN limpos \ {servidor[s].grupo} ELSE limpos
    BY DEF GravarPapel
  <1>b. ok \in BOOLEAN
    BY DEF Resposta
  <1>6. /\ \A t \in Servidores : servidor'[t].grupo = servidor[t].grupo
        /\ \A t \in Servidores \ {s} : servidor'[t] = servidor[t]
        /\ ok /\ Existe(s) => servidor'[s].papel = eleicao.papeis[s]
        /\ ~(ok /\ Existe(s)) => servidor' = servidor
    BY <1>0, <1>5 DEF Servidor
  <1>7. /\ mexidos \subseteq mexidos' /\ limpos' \subseteq limpos
        /\ ok => servidor[s].grupo \notin limpos'
        /\ ~ok => eleicao.grupo \in mexidos'
    BY <1>5, <1>b
  <1>8. Leitura'
    <2>1. \A g \in Grupos : eleicao.lido[s].grupo # g
      BY <1>3, <1>4
    <2>2. ASSUME NEW g \in eleicao.restam \ mexidos', NEW t \in Servidores
          PROVE  /\ eleicao.lido[t].grupo = g <=> servidor'[t].grupo = g
                 /\ servidor'[t].grupo = g => eleicao.lido[t].papel = servidor'[t].papel
      BY <1>0, <1>4, <1>6, <1>7, <2>1, <2>2 DEF Leitura
    <2>. QED BY <1>2, <2>2 DEF Leitura
  <1>9. Escrita'
    <2>1. ASSUME eleicao.grupo \notin mexidos', NEW t \in Servidores,
                 servidor'[t].grupo = eleicao.grupo, t \notin eleicao'.faltam
          PROVE  servidor'[t].papel = eleicao.papeis[t]
      <3>1. ok /\ eleicao.grupo \notin mexidos
        BY <1>7, <2>1
      <3>2. CASE t = s
        <4>1. Existe(s)
          BY <1>0, <1>1, <1>6, <2>1, <3>2 DEF Existe
        <4>. QED BY <1>6, <3>1, <3>2, <4>1
      <3>3. CASE t # s
        BY <1>0, <1>1, <1>2, <1>6, <2>1, <3>1, <3>3 DEF Escrita
      <3>. QED BY <3>2, <3>3
    <2>. QED BY <1>0, <1>1, <1>2, <2>1 DEF Escrita
  <1>10. UmPrincipal'
    <2>1. ASSUME NEW g \in limpos' PROVE Principais(g)' \subseteq Principais(g)
      BY <1>5, <1>6, <1>7, <1>b, <2>1 DEF Principais
    <2>. QED BY <1>0, <1>7, <2>1 DEF UmPrincipal
  <1>. QED BY <1>8, <1>9, <1>10 DEF PapeisInv

\* What others do to the rows stays in the groups they touch.
LEMMA TocarPapeis ==
  ASSUME PapeisInv, TypeOK', NEW gs, eleicao' = eleicao, Tocar(gs),
         \A s \in Servidores :
           \/ servidor'[s].grupo = servidor[s].grupo /\ servidor'[s].papel = servidor[s].papel
           \/ /\ servidor[s].grupo \in gs \/ servidor[s].grupo \notin Grupos
              /\ servidor'[s].grupo \in gs \/ servidor'[s].grupo \notin Grupos
  PROVE  PapeisInv'
  <1>0. /\ Leitura /\ Escrita /\ UmPrincipal /\ eleicao.restam \subseteq Grupos
        /\ eleicao.pc = "grava" => eleicao.grupo \in Grupos
        /\ limpos \subseteq Grupos
    BY DEF PapeisInv, TypeOK, Eleicao
  <1>1. mexidos' = mexidos \cup gs /\ limpos' = limpos \ gs
    BY DEF Tocar
  <1>2. \A s \in Servidores, g \in Grupos \ gs :
          /\ servidor'[s].grupo = g <=> servidor[s].grupo = g
          /\ servidor[s].grupo = g => servidor'[s].papel = servidor[s].papel
    OBVIOUS
  <1>3. Leitura'
    BY <1>0, <1>1, <1>2 DEF Leitura
  <1>4. Escrita'
    BY <1>0, <1>1, <1>2 DEF Escrita
  <1>5. UmPrincipal'
    BY <1>0, <1>1, <1>2 DEF UmPrincipal, Principais
  <1>. QED BY <1>3, <1>4, <1>5 DEF PapeisInv

\* Every step keeps the invariant.
LEMMA PapeisPasso == PapeisInv /\ [Next]_vars => PapeisInv'
  <1>. SUFFICES ASSUME PapeisInv, [Next]_vars PROVE PapeisInv'
    OBVIOUS
  <1>t. TypeOK'
    BY TipoPasso DEF PapeisInv
  <1>0. /\ eleicao \in Eleicao /\ servidor \in [Servidores -> Servidor]
        /\ Leitura /\ Escrita /\ UmPrincipal
    BY DEF PapeisInv, TypeOK
  <1>d. Dormindo.pc = "dorme" /\ Dormindo.restam = {}
    BY DEF Dormindo
  <1>1. CASE Listar
    <2>1. eleicao'.pc = "decide" /\ eleicao'.lido = servidor
      BY <1>1, DormindoTipo DEF Listar, Eleicao
    <2>. QED BY <1>0, <1>1, <1>t, <2>1 DEF Listar, PapeisInv, Leitura, Escrita,
            UmPrincipal, Principais
  <1>2. ASSUME NEW g \in Grupos, Decidir(g) PROVE PapeisInv'
    BY <1>2, <1>t, DecidirPapeis
  <1>3. ASSUME NEW s \in Servidores, GravarPapel(s) PROVE PapeisInv'
    BY <1>3, <1>t, GravarPapeis
  <1>4. CASE Anunciar
    <2>1. /\ eleicao.pc = "grava" /\ eleicao.faltam = {}
          /\ servidor' = servidor /\ mexidos' = mexidos
          /\ limpos' = IF eleicao.grupo \in mexidos THEN limpos
                       ELSE limpos \cup {eleicao.grupo}
          /\ \/ eleicao' = Dormindo
             \/ eleicao' = [eleicao EXCEPT
                   !.pc = "decide", !.grupo = "fora", !.anterior = Ninguem,
                   !.principal = Ninguem, !.papeis = Dormindo.papeis]
      BY <1>4 DEF Anunciar
    <2>2. /\ eleicao'.pc # "grava"
          /\ \/ eleicao'.restam = {}
             \/ eleicao'.restam = eleicao.restam /\ eleicao'.lido = eleicao.lido
      BY <1>0, <1>d, <2>1 DEF Eleicao
    <2>3. eleicao.grupo \notin mexidos =>
            \A s, t \in Principais(eleicao.grupo) : s = t
      BY <1>0, <2>1 DEF Escrita, Principais
    <2>4. UmPrincipal'
      BY <1>0, <2>1, <2>3 DEF UmPrincipal, Principais
    <2>. QED BY <1>0, <1>t, <2>1, <2>2, <2>4 DEF PapeisInv, Leitura, Escrita
  <1>5. CASE Encerrar
    BY <1>0, <1>5, <1>t, <1>d DEF Encerrar, PapeisInv, Leitura, Escrita, UmPrincipal,
       Principais
  <1>6. ASSUME NEW s \in Servidores, Sondar(s) PROVE PapeisInv'
    <2>1. \A t \in Servidores : /\ servidor'[t].grupo = servidor[t].grupo
                                /\ servidor'[t].papel = servidor[t].papel
      BY <1>0, <1>6 DEF Sondar, Servidor
    <2>. QED BY <1>0, <1>6, <1>t, <2>1 DEF Sondar, PapeisInv, Leitura, Escrita,
            UmPrincipal, Principais
  <1>7. ASSUME NEW s \in Servidores, NEW g \in Grupos, Registrar(s, g) PROVE PapeisInv'
    <2>1. \A t \in Servidores : t # s => servidor'[t] = servidor[t]
      BY <1>0, <1>7 DEF Registrar
    <2>2. servidor[s].grupo \notin Grupos /\ servidor'[s].grupo = g
      BY <1>0, <1>7, ConstantesOk DEF Registrar
    <2>. QED BY <1>7, <1>t, <2>1, <2>2, TocarPapeis DEF Registrar
  <1>8. ASSUME NEW s \in Servidores, Remover(s) PROVE PapeisInv'
    <2>1. \A t \in Servidores : t # s => servidor'[t] = servidor[t]
      BY <1>0, <1>8 DEF Remover
    <2>2. servidor'[s].grupo \notin Grupos
      BY <1>0, <1>8, ConstantesOk DEF Remover, Servidor
    <2>. QED BY <1>8, <1>t, <2>1, <2>2, TocarPapeis DEF Remover
  <1>9. ASSUME NEW g \in Grupos, RemoverUnidade(g) PROVE PapeisInv'
    <2>1. \A s \in Servidores :
            servidor'[s] = IF servidor[s].grupo = g
                           THEN [servidor[s] EXCEPT !.grupo = SemUnidade] ELSE servidor[s]
      BY <1>9 DEF RemoverUnidade
    <2>2. \A s \in Servidores :
            \/ servidor'[s].grupo = servidor[s].grupo /\ servidor'[s].papel = servidor[s].papel
            \/ servidor[s].grupo = g /\ servidor'[s].grupo = SemUnidade
      BY <1>0, <2>1 DEF Servidor
    <2>. QED BY <1>9, <1>t, <2>2, TocarPapeis DEF RemoverUnidade
  <1>10. CASE Queda
    BY <1>0, <1>10, <1>t, <1>d DEF Queda, PapeisInv, Leitura, Escrita, UmPrincipal,
       Principais
  <1>11. CASE UNCHANGED vars
    BY <1>0, <1>11, <1>t DEF vars, PapeisInv, Leitura, Escrita, UmPrincipal, Principais
  <1>. QED BY <1>1, <1>2, <1>3, <1>4, <1>5, <1>6, <1>7, <1>8, <1>9, <1>10, <1>11
       DEF Next, Eleger

\* A group whose last election was written in full and not disturbed has at most one
\* principal, after any history of failed writes, moved servers and crashes
\* (aplicar, eleicao.go:262-275).
THEOREM UmPrincipalSempre == Spec => []UmPrincipal
  <1>1. PapeisInv => UmPrincipal
    BY DEF PapeisInv
  <1>. QED BY <1>1, PapeisInicial, PapeisPasso, PTL DEF Spec
=============================================================================
