-------------------------- MODULE BalancerElection --------------------------
(***************************************************************************)
(* The election of the main load balancer, internal/malha/eleicao.go: once *)
(* a minute one goroutine reads the servers and the traffic of the window, *)
(* decides group by group (a group is a site) who is principal, writes the *)
(* roles one server at a time, and announces a change.  The challenge      *)
(* counters live in memory; the roles live in the table servers, which     *)
(* the API and the Nginx probe change while an election is running.        *)
(*                                                                         *)
(* One step is one database statement, or the decision of one group under  *)
(* its mutex.  The margin is exact here; in float64 it is exact for the    *)
(* default of 25% and every other multiple of 25.                          *)
(***************************************************************************)
EXTENDS Integers

CONSTANTS
  Servidores,  \* rows of the table servers
  Grupos,      \* sites, and the servers without one
  SemUnidade,  \* the group of the servers without a site
  MaxReq,      \* bound: requests one server may have in the window
  Ciclos,      \* MALHA_CICLOS_TROCA, as ciclosParaTrocar returns it
  Margem,      \* MALHA_MARGEM_TROCA_PCT, as margemDeTroca returns it
  Muda,        \* whether servers and sites come and go
  BancoFalha,  \* whether a database statement may fail
  Cai          \* whether the process may crash

ASSUME ConstantesOk ==
  /\ "ninguem" \notin Servidores
  /\ SemUnidade \in Grupos /\ {"fora", "removido"} \cap Grupos = {}
  /\ MaxReq \in Nat /\ Margem \in Nat /\ Ciclos \in Nat \ {0}
  /\ {Muda, BancoFalha, Cai} \subseteq BOOLEAN

Ninguem == "ninguem"

VARIABLES
  servidor,  \* the table servers: group, candidacy and role
  unidades,  \* the sites there are
  desafios,  \* the challenge counters, by group
  eleicao,   \* the election in flight
  desde,     \* history: decisions of a group since the last change, up to Ciclos
  mexidos,   \* history: groups touched by others, or by a crash, since Listar
  limpos     \* history: groups whose last election was written and not disturbed

vars == <<servidor, unidades, desafios, eleicao, desde, mexidos, limpos>>

-----------------------------------------------------------------------------
Papeis == {"nenhum", "principal", "reserva"}

\* a row not inserted yet is "fora"; one soft deleted is "removido"
Servidor == [grupo : Grupos \cup {"fora", "removido"}, candidato : BOOLEAN, papel : Papeis]

Existe(s) == servidor[s].grupo \in Grupos

Resposta == IF BancoFalha THEN BOOLEAN ELSE {TRUE}

Eleicao ==
  [pc : {"dorme", "decide", "grava", "anuncia"},
   lido : [Servidores -> Servidor],      \* the servers as listed
   req : [Servidores -> 0..MaxReq],      \* trafegoPorServidor
   restam : SUBSET Grupos,               \* groups to decide
   grupo : Grupos \cup {"fora"},         \* the group being written
   papeis : [Servidores -> Papeis],      \* Decisao.Papeis
   faltam : SUBSET Servidores,           \* rows still to write
   anterior : Servidores \cup {Ninguem},
   principal : Servidores \cup {Ninguem}]

Dormindo ==
  [pc |-> "dorme", lido |-> [s \in Servidores |->
     [grupo |-> "fora", candidato |-> FALSE, papel |-> "nenhum"]],
   req |-> [s \in Servidores |-> 0], restam |-> {}, grupo |-> "fora",
   papeis |-> [s \in Servidores |-> "nenhum"], faltam |-> {},
   anterior |-> Ninguem, principal |-> Ninguem]

-----------------------------------------------------------------------------
(* decidir, over the members of a group as they were listed.                *)

Membros(g)    == {s \in Servidores : eleicao.lido[s].grupo = g}
Candidatos(g) == {s \in Membros(g) : eleicao.lido[s].candidato}
EmTrafego(g)  == {s \in Candidatos(g) : eleicao.req[s] > 0}

\* who was listed as principal; the last in the order of names, which any of
\* them may be
Incumbentes(g) ==
  LET p == {s \in Membros(g) : eleicao.lido[s].papel = "principal"}
  IN IF p = {} THEN {Ninguem} ELSE p

Lideres_ComSiMesmo(g) ==
  {s \in EmTrafego(g) : \A o \in Candidatos(g) : eleicao.req[o] < eleicao.req[s]}

\* liderUnico: the one candidate ahead of all the others, or nobody
Lideres(g) ==
  {s \in EmTrafego(g) : \A o \in Candidatos(g) \ {s} : eleicao.req[o] < eleicao.req[s]}

\* the incumbent stands against this leader: it is the leader, or the leader is
\* not ahead by the margin
Segura(g, inc, lider) ==
  /\ inc \in Candidatos(g)
  /\ lider = inc \/ 100 * eleicao.req[lider] <= eleicao.req[inc] * (100 + Margem)

Desafio_SemZerar(g, inc, desafiante) ==
  IF desafios[g] + 1 < Ciclos
  THEN [principal |-> inc, desafios |-> desafios[g] + 1]
  ELSE [principal |-> desafiante, desafios |-> desafios[g]]

Desafio_UmAMais(g, inc, desafiante) ==
  IF desafios[g] < Ciclos
  THEN [principal |-> inc, desafios |-> desafios[g] + 1]
  ELSE [principal |-> desafiante, desafios |-> 0]

\* the outcome of one more challenge to the incumbent
Desafio(g, inc, desafiante) ==
  IF desafios[g] + 1 < Ciclos
  THEN [principal |-> inc, desafios |-> desafios[g] + 1]
  ELSE [principal |-> desafiante, desafios |-> 0]

Mantem(quem) == [principal |-> quem, desafios |-> 0]

\* the incumbent, while it is still a candidate
Valido(g, inc) == IF inc \in Candidatos(g) THEN inc ELSE Ninguem

Decisao(g, inc) ==
  CASE Candidatos(g) = {} -> Mantem(Ninguem)
    [] Candidatos(g) # {} /\ EmTrafego(g) = {} ->
         IF inc \in Candidatos(g) \cup {Ninguem} THEN Mantem(inc)
         ELSE Desafio(g, inc, Ninguem)
    [] EmTrafego(g) # {} ->
         IF Lideres(g) = {} THEN Mantem(Valido(g, inc))
         ELSE LET lider == CHOOSE s \in Lideres(g) : TRUE
              IN IF Segura(g, inc, lider) THEN Mantem(inc)
                 ELSE Desafio(g, inc, lider)

\* Decisao.Papeis
PapeisDe(g, principal) ==
  [s \in Servidores |->
     IF s = principal THEN "principal"
     ELSE IF s \in Candidatos(g) THEN "reserva" ELSE "nenhum"]

AGravar_SoPromocao(g, papeis) == {s \in Membros(g) : papeis[s] = "principal"}

\* aplicar writes the roles that change
AGravar(g, papeis) == {s \in Membros(g) : papeis[s] # eleicao.lido[s].papel}

-----------------------------------------------------------------------------
(* Eleger.                                                                  *)

\* the servers are listed and the traffic summed, before anything is decided; an
\* error of either statement ends the election; the traffic of who is no candidate
\* decides nothing and is left out
Listar ==
  /\ eleicao.pc = "dorme"
  /\ \E req \in [Servidores -> 0..MaxReq] :
       /\ \A s \in Servidores : req[s] > 0 => Existe(s) /\ servidor[s].candidato
       /\ eleicao' = [Dormindo EXCEPT
            !.pc = "decide", !.lido = servidor, !.req = req,
            !.restam = {g \in Grupos : \E s \in Servidores : servidor[s].grupo = g}]
  /\ mexidos' = {}
  /\ UNCHANGED <<servidor, unidades, desafios, desde, limpos>>

\* what was read of a group is not read again once it is decided
Esquecido(g, lido, nada) ==
  [s \in Servidores |-> IF s \in Membros(g) THEN nada[s] ELSE lido[s]]

\* aplicar, under the mutex: decide, and keep the counter of the group
Decidir(g) ==
  /\ eleicao.pc = "decide" /\ g \in eleicao.restam
  /\ \E inc \in Incumbentes(g) :
       LET d      == Decisao(g, inc)
           papeis == PapeisDe(g, d.principal)
       IN /\ eleicao' = [eleicao EXCEPT
               !.pc = "grava", !.restam = @ \ {g}, !.grupo = g, !.papeis = papeis,
               !.lido = Esquecido(g, @, Dormindo.lido), !.req = Esquecido(g, @, Dormindo.req),
               !.faltam = AGravar(g, papeis),
               !.anterior = inc, !.principal = d.principal]
          /\ desafios' = [desafios EXCEPT ![g] = d.desafios]
          /\ desde' = [desde EXCEPT ![g] =
               IF d.principal # inc THEN 0 ELSE IF @ < Ciclos THEN @ + 1 ELSE @]
  /\ limpos' = limpos \ {g}
  /\ UNCHANGED <<servidor, unidades, mexidos>>

\* the UPDATE of one member; a row deleted meanwhile is not there to be written
GravarPapel(s) ==
  /\ eleicao.pc = "grava" /\ s \in eleicao.faltam
  /\ eleicao' = [eleicao EXCEPT !.faltam = @ \ {s}]
  /\ \E ok \in Resposta :
       /\ servidor' = IF ok /\ Existe(s)
                      THEN [servidor EXCEPT ![s].papel = eleicao.papeis[s]]
                      ELSE servidor
       \* the role is written in the group where the row is now
       /\ mexidos' = IF ~ok THEN mexidos \cup {eleicao.grupo} ELSE mexidos
       /\ limpos' = IF ok THEN limpos \ {servidor[s].grupo} ELSE limpos
  /\ UNCHANGED <<unidades, desafios, desde>>

\* the rows are written: a change is announced, and the next group follows
Anunciar ==
  /\ eleicao.pc = "grava" /\ eleicao.faltam = {}
  /\ eleicao' = IF eleicao.restam = {} THEN Dormindo
                ELSE [eleicao EXCEPT
                        !.pc = "decide", !.grupo = "fora", !.anterior = Ninguem,
                        !.principal = Ninguem, !.papeis = Dormindo.papeis]
  /\ limpos' = IF eleicao.grupo \in mexidos THEN limpos ELSE limpos \cup {eleicao.grupo}
  /\ UNCHANGED <<servidor, unidades, desafios, desde, mexidos>>

\* an election with no servers ends at once
Encerrar ==
  /\ eleicao.pc = "decide" /\ eleicao.restam = {}
  /\ eleicao' = Dormindo
  /\ UNCHANGED <<servidor, unidades, desafios, desde, mexidos, limpos>>

Eleger == Listar \/ Encerrar \/ Anunciar
          \/ (\E g \in Grupos : Decidir(g)) \/ (\E s \in Servidores : GravarPapel(s))

-----------------------------------------------------------------------------
(* What others do to the rows, and a crash.                                 *)

\* what an election in flight read of these groups is stale
Tocar(gs) == mexidos' = mexidos \cup gs /\ limpos' = limpos \ gs

\* the probe finds a candidate or loses it, or an operator sets collect_nginx
Sondar(s) ==
  /\ Existe(s)
  /\ servidor' = [servidor EXCEPT ![s].candidato = ~@]
  /\ UNCHANGED <<unidades, desafios, eleicao, desde, mexidos, limpos>>

\* POST /api/servers, or the first message of a new agent
Registrar(s, g) ==
  /\ Muda
  /\ servidor[s].grupo = "fora" /\ g \in unidades
  /\ \E c \in BOOLEAN :
       servidor' = [servidor EXCEPT ![s] = [grupo |-> g, candidato |-> c, papel |-> "nenhum"]]
  /\ Tocar({g})
  /\ UNCHANGED <<unidades, desafios, eleicao, desde>>

\* DELETE /api/servers: what a deleted row holds is not read again
Remover(s) ==
  /\ Muda
  /\ Existe(s)
  /\ servidor' = [servidor EXCEPT ![s] =
       [grupo |-> "removido", candidato |-> FALSE, papel |-> "nenhum"]]
  /\ Tocar({servidor[s].grupo})
  /\ UNCHANGED <<unidades, desafios, eleicao, desde>>

\* DELETE /api/sites: its servers are left without a site
RemoverUnidade(g) ==
  /\ Muda
  /\ g \in unidades \ {SemUnidade}
  /\ unidades' = unidades \ {g}
  /\ servidor' = [s \in Servidores |->
       IF servidor[s].grupo = g THEN [servidor[s] EXCEPT !.grupo = SemUnidade] ELSE servidor[s]]
  /\ Tocar({g, SemUnidade})
  /\ UNCHANGED <<desafios, eleicao, desde>>

\* the process crashes and restarts: the counters are lost
Queda ==
  /\ Cai
  /\ eleicao' = Dormindo
  /\ desafios' = [g \in Grupos |-> 0]
  /\ desde' = [g \in Grupos |-> 0]
  /\ mexidos' = Grupos
  /\ UNCHANGED <<servidor, unidades, limpos>>

-----------------------------------------------------------------------------
Init ==
  /\ servidor \in [Servidores -> {r \in Servidor :
       /\ r.papel = "nenhum" /\ r.grupo # "removido"
       /\ r.grupo = "fora" => Muda /\ ~r.candidato}]
  /\ unidades = Grupos
  /\ desafios = [g \in Grupos |-> 0]
  /\ eleicao = Dormindo
  /\ desde = [g \in Grupos |-> 0]
  /\ mexidos = {} /\ limpos = {}

Next ==
  \/ Eleger
  \/ \E s \in Servidores : Sondar(s)
  \/ \E s \in Servidores, g \in Grupos : Registrar(s, g)
  \/ \E s \in Servidores : Remover(s)
  \/ \E g \in Grupos : RemoverUnidade(g)
  \/ Queda

Spec == Init /\ [][Next]_vars

\* the ticker and the statements of an election always come
FairSpec == Spec /\ WF_vars(Eleger)

-----------------------------------------------------------------------------
(* Types and properties.                                                    *)

\* The state keeps its types, and a counter stays below the number of cycles that
\* a change takes (eleicao.go:157-162 zeroes it there).
TypeOK ==
  /\ servidor \in [Servidores -> Servidor]
  /\ unidades \subseteq Grupos
  /\ desafios \in [Grupos -> 0..(Ciclos - 1)]
  /\ eleicao \in Eleicao
  /\ eleicao.pc = "grava" => eleicao.grupo \in Grupos
  /\ desde \in [Grupos -> 0..Ciclos]
  /\ mexidos \subseteq Grupos /\ limpos \subseteq Grupos

Principais(g) == {s \in Servidores : servidor[s].grupo = g /\ servidor[s].papel = "principal"}

\* A group whose last election was written in full, with no server that came or
\* went since it was listed, has at most one principal, however many the moves and
\* the errors before it left (eleicao.go:93-174, 262-275).
UmPrincipal == \A g \in limpos : \A s, t \in Principais(g) : s = t

Decide(g)  == eleicao.pc = "decide" /\ eleicao'.pc = "grava" /\ eleicao'.grupo = g
Promove(g) == Decide(g) /\ eleicao'.principal \notin {Ninguem, eleicao'.anterior}

\* Nobody is promoted before Ciclos decisions since the last change of the group,
\* whatever the sequence of leaders, ties, demotions, moves and crashes between
\* them: the role does not swing (eleicao.go:133-166).
SemVaivem == [][\A g \in Grupos : Promove(g) => desde[g] + 1 >= Ciclos]_vars

\* s is ahead of the whole group by the margin in the traffic last summed
Domina(s, g) ==
  /\ s \in EmTrafego(g)
  /\ \A o \in Membros(g) \ {s} :
       100 * eleicao.req[s] > eleicao.req[o] * (100 + Margem)

\* A failover is recognised: the server that takes the traffic of a group for good
\* ends as its only principal, once the statements stop failing, the rows stop
\* moving and the process stays up (eleicao.go:140-167).
FailoverReconhecido ==
  \A s \in Servidores, g \in Grupos :
    /\ <>[](servidor[s].grupo = g /\ mexidos = {})
    /\ <>[][Decide(g) => Domina(s, g)]_vars
    => <>[](eleicao.pc = "dorme" => Principais(g) = {s})
=============================================================================
