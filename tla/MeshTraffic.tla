------------------------------ MODULE MeshTraffic ------------------------------
(***************************************************************************)
(* The routing mesh of the panel (frontend/src/lib/upstream.ts, drawn by   *)
(* Dashboard.tsx and NginxView.tsx): what the lines of traffic, the links  *)
(* the balancers declare and the register of machines make of nodes,       *)
(* edges, totals and colours.                                              *)
(*                                                                         *)
(* A machine is its position in the answer, and the smaller number comes   *)
(* first in its list and in its name.  A destination is a host and a port. *)
(* A line of traffic names the balancer that served it, or nobody (the     *)
(* server answers an empty server_id), and every destination nginx tried.  *)
(* The order of what is drawn is left out where only the look depends on   *)
(* it.                                                                     *)
(***************************************************************************)
EXTENDS FiniteSets, FiniteSetsExt, Functions, Integers, Sequences

CONSTANTS
  Cadastros,   \* the lists of machines the live reading may answer
  Enlaces,     \* the links the balancers may declare: server_id, bloco, destino
  Hosts,       \* the hosts of the destinations
  Portas,
  LbIp,        \* VITE_LB_IP, or a value that is no host
  MaxLinhas    \* bound: lines of traffic in the answer

PortaPadrao == 80
SemPorta    == 0
SEM_DONO    == 0

\* What the constants must be.
ConstantesOk ==
  /\ IsFiniteSet(Hosts) /\ IsFiniteSet(Portas) /\ IsFiniteSet(Enlaces) /\ MaxLinhas \in Nat
  /\ Portas \subseteq Nat \ {SemPorta} /\ PortaPadrao \in Portas
  /\ \A c \in Cadastros : IsFiniteSet(DOMAIN c) /\ DOMAIN c \subseteq Nat \ {SEM_DONO}
  /\ \A e \in Enlaces : e.destino \in Hosts \X (Portas \cup {SemPorta})

VARIABLES
  servers,    \* the machines of the answer
  topologia,  \* nginx_topologia
  stats       \* load_balancing

vars == <<servers, topologia, stats>>

Destinos == Hosts \X Portas
\* What a line may carry in upstream_addr: one try, a retry after it, or nothing: served locally.
Tentativas == {<<>>} \cup [1..1 -> Destinos] \cup [1..2 -> Destinos]
\* The HTTP status, by how the panel paints it.
Classes == {"sucesso", "aviso", "erro"}
Linhas == [dono : Nat, upstreams : Tentativas, status : Classes, reqs : {1}]

TypeOK ==
  /\ servers \in Cadastros /\ topologia \subseteq Enlaces
  /\ stats \in Seq(Linhas) /\ Len(stats) <= MaxLinhas

Init == servers \in Cadastros /\ topologia \in SUBSET Enlaces /\ stats = <<>>

\* One more line of the answer.
Chega(dono, upstreams, status) ==
  /\ Len(stats) < MaxLinhas
  /\ stats' = Append(stats, [dono |-> dono, upstreams |-> upstreams, status |-> status, reqs |-> 1])
  /\ UNCHANGED <<servers, topologia>>

-----------------------------------------------------------------------------
\* splitUpstreams, as the number of times a line names a destination.
Vezes(linha, d) == Cardinality({k \in DOMAIN linha.upstreams : linha.upstreams[k] = d})
Nomeia(linha, d) == Vezes(linha, d) > 0

\* Requests to a destination in the lines of a balancer, or in every line.
Conta(d, quais) ==
  SumFunction([i \in {j \in DOMAIN stats : quais[j]} |-> stats[i].reqs * Vezes(stats[i], d)])
Todas == [i \in DOMAIN stats |-> TRUE]
De(b) == [i \in DOMAIN stats |-> stats[i].dono = b]

\* deriveUpstreams: the declared destinations, at the default port when they name none,
\* and those of the traffic.
ComPorta(d) == IF d[2] = SemPorta THEN <<d[1], PortaPadrao>> ELSE d
Vistos == {d \in Destinos : \E i \in DOMAIN stats : Nomeia(stats[i], d)}
Upstreams == Vistos \cup {ComPorta(e.destino) : e \in topologia}

EnderecosDoServidor(i) == servers[i].addresses \cup {servers[i].host}
DonosDe(host) == {i \in DOMAIN servers : host \in EnderecosDoServidor(i)}
UpstreamsSemCadastro == {d \in Upstreams : DonosDe(d[1]) = {}}

\* A server that tells nothing of its nginx is a balancer by its address.
EhBalanceador(i) ==
  \/ servers[i].collect
  \/ servers[i].papel # "ausente" /\ (servers[i].papel # "nenhum" \/ servers[i].candidato)
  \/ servers[i].papel = "ausente" /\ servers[i].host = LbIp
EhReserva(i) == servers[i].papel = "reserva"

\* classificarMalha.
NaMalha == {i \in DOMAIN servers : servers[i].kind # "agent"}
Balanceadores == {i \in NaMalha : EhBalanceador(i)}
Atras == {i \in NaMalha : ~EhBalanceador(i) /\ servers[i].behind}
Fora  == {i \in NaMalha : ~EhBalanceador(i) /\ ~servers[i].behind}

-----------------------------------------------------------------------------
\* nosDaMalha: a node for each machine with traffic or links, for each address nobody
\* registered, and for each machine behind the balancer that has neither.
NoDe(d) == IF DonosDe(d[1]) = {} THEN <<"addr", d>> ELSE <<"srv", Min(DonosDe(d[1]))>>
ComTrafego == {NoDe(d) : d \in Upstreams}
Nos == ComTrafego \cup {<<"srv", i>> : i \in Atras}

EnderecosDoNo(no) ==
  IF no \in ComTrafego THEN {d \in Upstreams : NoDe(d) = no} ELSE {<<servers[no[2]].host, PortaPadrao>>}
\* Mutant: a node has the requests of one of its addresses.
ReqsDoNo_UmSo(no) ==
  IF no \in ComTrafego THEN Conta(CHOOSE d \in EnderecosDoNo(no) : TRUE, Todas) ELSE 0

ReqsDoNo(no) ==
  IF no \in ComTrafego THEN SumFunction([d \in EnderecosDoNo(no) |-> Conta(d, Todas)]) ELSE 0

\* indiceDeEnderecos: the last node of the list keeps an address two of them have, and
\* the list has the busier first, then by name.
Indice ==
  LET reqs == [no \in Nos |-> ReqsDoNo(no)]
      depois(a, b) == reqs[a] < reqs[b] \/ (reqs[a] = reqs[b] /\ a[2] > b[2])
      de == [d \in Destinos |-> {no \in DOMAIN reqs : d \in EnderecosDoNo(no)}]
  IN [d \in {e \in Destinos : de[e] # {}} |->
        CHOOSE no \in de[d] : \A outro \in de[d] \ {no} : depois(no, outro)]

-----------------------------------------------------------------------------
\* trafegoDaTopologia and reqsDe: what a balancer served, and for the principal without
\* lines of its own to that destination, what any served.
Principais == {i \in DOMAIN servers : servers[i].papel = "principal"}
TemProprio(b, d) == \E i \in DOMAIN stats : stats[i].dono = b /\ Nomeia(stats[i], d)
ReqsDe(b, d) ==
  IF b = SEM_DONO THEN Conta(d, Todas)
  ELSE IF TemProprio(b, d) THEN Conta(d, De(b))
  ELSE IF Principais # {} /\ b = Min(Principais) THEN Conta(d, Todas)
  ELSE 0

\* severidadePorDestino: the colour, line after line.
Severidade(d) ==
  LET depois[n \in 0..Len(stats)] ==
        IF n = 0 THEN "ok"
        ELSE IF ~Nomeia(stats[n], d) THEN depois[n - 1]
        ELSE IF stats[n].status = "erro" THEN "error"
        ELSE IF depois[n - 1] # "error" /\ stats[n].status = "aviso" THEN "warn"
        ELSE depois[n - 1]
  IN depois[Len(stats)]

\* The block of an edge that no link declares.
BLOCO_DO_TRAFEGO == "tráfego observado"

\* arestasDaMalha: the declared links, and what only the traffic showed.
Aresta(b, bloco, d) ==
  [balanceador |-> b, bloco |-> bloco, destino |-> d, reqs |-> ReqsDe(b, d),
   potencial |-> b \in DOMAIN servers /\ EhReserva(b), severidade |-> Severidade(d)]

JaDeclarado(b, d) ==
  \E e \in topologia : e.destino = d /\ (e.server_id = b \/ b = SEM_DONO)

Declaradas == {Aresta(e.server_id, e.bloco, e.destino) : e \in topologia}
DoTrafego ==
  {Aresta(p[1], BLOCO_DO_TRAFEGO, p[2]) :
     p \in {q \in (DOMAIN servers \cup {SEM_DONO}) \X Destinos :
              (\E i \in DOMAIN stats : stats[i].dono = q[1] /\ Nomeia(stats[i], q[2])) /\ ~JaDeclarado(q[1], q[2])}}
Arestas == Declaradas \cup DoTrafego

\* The lines from a balancer to the nodes of the drawing (Dashboard).
ReqsNoDesenho(b, no, indice, arestas) ==
  SumFunction([a \in {x \in arestas : /\ x.balanceador = b /\ x.destino \in DOMAIN indice
                                       /\ indice[x.destino] = no} |-> a.reqs])

-----------------------------------------------------------------------------
Next ==
  \E dono \in Balanceadores \cup {SEM_DONO}, upstreams \in Tentativas, status \in Classes :
    Chega(dono, upstreams, status)

Spec == Init /\ [][Next]_vars

-----------------------------------------------------------------------------
\* Folding addresses into machines loses no request and counts none twice, whatever the
\* register says of them (upstream.test.ts, 'soma os endereços da mesma máquina num nó só').
ReqsConservadas ==
  SumFunction([no \in Nos |-> ReqsDoNo(no)]) = SumFunction([d \in Vistos |-> Conta(d, Todas)])

\* The colour of a destination is the worst its lines tell, in whatever order they came.
SeveridadePior ==
  \A d \in Vistos :
    LET tem(classe) == \E i \in DOMAIN stats : Nomeia(stats[i], d) /\ stats[i].status = classe
    IN Severidade(d) = IF tem("erro") THEN "error" ELSE IF tem("aviso") THEN "warn" ELSE "ok"

\* What a balancer served reaches the drawing whole: an edge of that balancer carries it,
\* and its line to the machine that answers is at least as busy.
TrafegoDesenhado ==
  LET indice  == Indice
      arestas == Arestas
  IN \A b \in DOMAIN servers, d \in Vistos : TemProprio(b, d) =>
       /\ \E a \in arestas : a.balanceador = b /\ a.destino = d /\ a.reqs = Conta(d, De(b))
       /\ d \in DOMAIN indice /\ ReqsNoDesenho(b, indice[d], indice, arestas) >= Conta(d, De(b))
=============================================================================
