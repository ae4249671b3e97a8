-------------------------- MODULE ConnectionProofs --------------------------
(***************************************************************************)
(* The three connections of a session, each for any number of parties: the *)
(* egress proxy reaches only permitted addresses and records what it does, *)
(* a pairing code lets in one client, which can come back, and an Exec in  *)
(* the helper can be cancelled for as long as its process may run.         *)
(***************************************************************************)
EXTENDS Proxy, Pairing, HelperSession, SequenceTheorems, FiniteSetTheorems, TLAPS

-----------------------------------------------------------------------------
(* The egress proxy.                                                       *)

ConnPhases == {"new", "handshake", "minting", "first", "serving", "closed"} \cup InFlight

ConnStates ==
  [phase : ConnPhases, host : Hosts \cup {NoHost}, secure : BOOLEAN,
   sni : Hosts \cup {NoHost}, leaf : Nat, target : Hosts \cup {NoHost},
   candidates : SUBSET Addresses, abandoned : BOOLEAN]

\* The shape of the state; a connection has chosen its server name by the time
\* it waits for a leaf.
ProxyType ==
  /\ conn \in [Conns -> ConnStates]
  /\ leaves \in [Hosts -> SUBSET Nat]
  /\ minted \in Nat
  /\ begun \in [Conns -> Nat] /\ records \in [Conns -> Nat]
  /\ \A c \in Conns : conn[c].phase = "minting" => conn[c].sni \in Hosts

\* The candidates of a connection have passed the guard, and its record is due
\* exactly while a request is in flight, or for good once it was abandoned.
ConnOK(c) ==
  /\ conn[c].candidates \subseteq Permitted
  /\ conn[c].abandoned => conn[c].phase = "closed"
  /\ begun[c] = IF conn[c].phase \in InFlight \/ conn[c].abandoned
                THEN records[c] + 1
                ELSE records[c]

ProxyInv == ProxyType /\ reached \subseteq Permitted /\ \A c \in Conns : ConnOK(c)

\* A step of one connection that keeps what the invariant says of it.
ConnStep(c) ==
  /\ conn' = [conn EXCEPT ![c] = conn'[c]] /\ conn'[c] \in ConnStates
  /\ begun' = [begun EXCEPT ![c] = begun'[c]] /\ begun'[c] \in Nat
  /\ records' = [records EXCEPT ![c] = records'[c]] /\ records'[c] \in Nat
  /\ conn'[c].phase = "minting" => conn'[c].sni \in Hosts
  /\ leaves' \in [Hosts -> SUBSET Nat] /\ minted' \in Nat
  /\ reached' \subseteq Permitted
  /\ ConnOK(c)'

\* Such a step leaves the other connections alone.
LEMMA OneConnection ==
  ASSUME ProxyInv, NEW c \in Conns, ConnStep(c)
  PROVE  ProxyInv'
<1>1. /\ conn \in [Conns -> ConnStates]
      /\ begun \in [Conns -> Nat] /\ records \in [Conns -> Nat]
  BY Zenon DEF ProxyInv, ProxyType
<1>2. /\ conn' \in [Conns -> ConnStates]
      /\ begun' \in [Conns -> Nat] /\ records' \in [Conns -> Nat]
  BY <1>1, Zenon DEF ConnStep
<1>3. ASSUME NEW d \in Conns, d # c
      PROVE  conn'[d] = conn[d] /\ begun'[d] = begun[d] /\ records'[d] = records[d]
  BY <1>1, <1>3, Zenon DEF ConnStep
<1>4. ASSUME NEW d \in Conns PROVE ConnOK(d)'
  <2>1. CASE d = c
    BY <2>1, Zenon DEF ConnStep
  <2>2. CASE d # c
    BY <1>3, <2>2, Zenon DEF ProxyInv, ConnOK
  <2> QED
    BY <2>1, <2>2, Zenon
<1>5. ASSUME NEW d \in Conns, conn'[d].phase = "minting" PROVE conn'[d].sni \in Hosts
  <2>1. CASE d = c
    BY <1>5, <2>1, Zenon DEF ConnStep
  <2>2. CASE d # c
    BY <1>3, <1>5, <2>2, Zenon DEF ProxyInv, ProxyType
  <2> QED
    BY <2>1, <2>2, Zenon
<1> QED
  BY <1>2, <1>4, <1>5, Zenon DEF ConnStep, ProxyInv, ProxyType

\* What the invariant says of one connection.
LEMMA ConnFacts ==
  ASSUME ProxyInv, NEW c \in Conns
  PROVE  /\ conn \in [Conns -> ConnStates] /\ conn[c] \in ConnStates
         /\ begun \in [Conns -> Nat] /\ begun[c] \in Nat
         /\ records \in [Conns -> Nat] /\ records[c] \in Nat
         /\ leaves \in [Hosts -> SUBSET Nat] /\ minted \in Nat
         /\ conn[c].phase = "minting" => conn[c].sni \in Hosts
         /\ reached \subseteq Permitted
         /\ ConnOK(c)
BY Zenon DEF ProxyInv, ProxyType

\* A connection is accepted or refused: a refusal is recorded at once.
LEMMA AcceptStep ==
  ASSUME ProxyInv, NEW c \in Conns, AcceptConnect(c) \/ AcceptPlain(c) \/ AcceptBad(c)
  PROVE  ConnStep(c)
<1>1. /\ conn \in [Conns -> ConnStates] /\ conn[c] \in ConnStates
      /\ begun \in [Conns -> Nat] /\ begun[c] \in Nat
      /\ records \in [Conns -> Nat] /\ records[c] \in Nat
      /\ leaves \in [Hosts -> SUBSET Nat] /\ minted \in Nat
      /\ reached \subseteq Permitted /\ ConnOK(c)
  BY ConnFacts, Zenon
<1>2. UNCHANGED <<leaves, minted, reached>> /\ conn[c].phase = "new"
  BY Zenon DEF AcceptConnect, AcceptPlain, AcceptBad
<1>3. CASE Refuse(c)
  <2>1. conn'[c] = [conn[c] EXCEPT !.phase = "closed"]
        /\ begun'[c] = begun[c] + 1 /\ records'[c] = records[c] + 1
    BY <1>1, <1>3, Zenon DEF Refuse, Become, Plus
  <2>2. conn'[c] \in ConnStates
    BY <1>1, <2>1, Zenon DEF ConnStates, ConnPhases
  <2> QED
    BY <1>1, <1>2, <1>3, <2>1, <2>2 DEF Refuse, Become, Plus, ConnStep, ConnOK, ConnStates,
       InFlight
<1>4. CASE /\ \E h \in Hosts :
                \/ conn' = [conn EXCEPT ![c].phase = "handshake", ![c].host = h,
                                        ![c].secure = TRUE]
                \/ conn' = [conn EXCEPT ![c].phase = "first", ![c].host = h]
           /\ UNCHANGED <<begun, records>>
  <2>1. PICK h \in Hosts :
          \/ conn' = [conn EXCEPT ![c].phase = "handshake", ![c].host = h, ![c].secure = TRUE]
          \/ conn' = [conn EXCEPT ![c].phase = "first", ![c].host = h]
    BY <1>4, Zenon
  <2>2. /\ conn'[c] \in ConnStates /\ conn'[c].phase \in {"handshake", "first"}
        /\ conn'[c].candidates = conn[c].candidates
        /\ conn'[c].abandoned = conn[c].abandoned
        /\ conn' = [conn EXCEPT ![c] = conn'[c]]
    BY <1>1, <2>1 DEF ConnStates, ConnPhases
  <2> QED
    BY <1>1, <1>2, <1>4, <2>2, Zenon DEF ConnStep, ConnOK, InFlight
<1>5. CASE AcceptBad(c)
  <2>1. conn'[c] = [conn[c] EXCEPT !.phase = "closed"] /\ UNCHANGED <<begun, records>>
    BY <1>1, <1>5, Zenon DEF AcceptBad, Become
  <2>2. conn'[c] \in ConnStates
    BY <1>1, <2>1, Zenon DEF ConnStates, ConnPhases
  <2> QED
    BY <1>1, <1>2, <1>5, <2>1, <2>2, Zenon DEF AcceptBad, Become, ConnStep, ConnOK, ConnStates, InFlight
<1> QED
  BY <1>3, <1>4, <1>5, Zenon DEF AcceptConnect, AcceptPlain

\* The TLS handshake with the sandbox: a failed one is recorded at once.
LEMMA HandshakeStep ==
  ASSUME ProxyInv, NEW c \in Conns, LookupLeaf(c) \/ InsertLeaf(c) \/ HandshakeFails(c)
  PROVE  ConnStep(c)
<1>1. /\ conn \in [Conns -> ConnStates] /\ conn[c] \in ConnStates
      /\ begun \in [Conns -> Nat] /\ begun[c] \in Nat
      /\ records \in [Conns -> Nat] /\ records[c] \in Nat
      /\ leaves \in [Hosts -> SUBSET Nat] /\ minted \in Nat
      /\ reached \subseteq Permitted /\ ConnOK(c)
  BY ConnFacts, Zenon
<1>2. ASSUME NEW s \in Hosts, leaves[s] # {}
      PROVE  (CHOOSE l \in leaves[s] : TRUE) \in Nat
  <2>1. (CHOOSE l \in leaves[s] : TRUE) \in leaves[s]
    BY <1>2, Zenon
  <2> QED
    BY <1>1, <2>1, Zenon
<1>3. CASE LookupLeaf(c)
  <2>1. PICK s \in Hosts :
          conn' = [conn EXCEPT ![c].sni = s,
                   ![c].phase = IF leaves[s] = {} THEN "minting" ELSE "serving",
                   ![c].leaf = IF leaves[s] = {} THEN 0 ELSE CHOOSE l \in leaves[s] : TRUE]
    BY <1>3, Zenon DEF LookupLeaf
  <2> DEFINE leaf == IF leaves[s] = {} THEN 0 ELSE CHOOSE l \in leaves[s] : TRUE
             phase1 == IF leaves[s] = {} THEN "minting" ELSE "serving"
  <2>2. leaf \in Nat /\ phase1 \in {"minting", "serving"}
    BY <1>2, Zenon
  <2>3. conn' = [conn EXCEPT ![c].sni = s, ![c].phase = phase1, ![c].leaf = leaf]
    BY <2>1, Zenon
  <2> HIDE DEF leaf, phase1
  <2>4. /\ conn'[c] \in ConnStates /\ conn'[c].phase \in {"minting", "serving"}
        /\ conn'[c].sni = s
        /\ conn'[c].candidates = conn[c].candidates
        /\ conn'[c].abandoned = conn[c].abandoned
        /\ conn' = [conn EXCEPT ![c] = conn'[c]]
    BY <1>1, <2>2, <2>3, Zenon DEF ConnStates, ConnPhases
  <2>5. conn[c].phase = "handshake" /\ UNCHANGED <<leaves, minted, reached, begun, records>>
    BY <1>3, Zenon DEF LookupLeaf
  <2> QED
    BY <1>1, <2>4, <2>5, Zenon DEF ConnStep, ConnOK, InFlight
<1>4. CASE InsertLeaf(c)
  <2> DEFINE s == conn[c].sni
             leaf == Entry(s, minted + 1)
  <2>1. conn[c].phase = "minting" /\ s \in Hosts
    BY <1>4, ConnFacts, Zenon DEF InsertLeaf
  <2>2. leaf \in Nat
    BY <1>1, <1>2, <2>1 DEF Entry
  <2>3. /\ leaves' = [leaves EXCEPT ![s] = {leaf}] /\ minted' = minted + 1
        /\ conn' = [conn EXCEPT ![c].phase = "serving", ![c].leaf = leaf]
        /\ UNCHANGED <<reached, begun, records>>
    BY <1>4, Zenon DEF InsertLeaf
  <2> HIDE DEF leaf, s
  <2>4. /\ conn'[c] \in ConnStates /\ conn'[c].phase = "serving"
        /\ conn'[c].candidates = conn[c].candidates
        /\ conn'[c].abandoned = conn[c].abandoned
        /\ conn' = [conn EXCEPT ![c] = conn'[c]]
    BY <1>1, <2>2, <2>3, Zenon DEF ConnStates, ConnPhases
  <2>5. leaves' \in [Hosts -> SUBSET Nat] /\ minted' \in Nat
    BY <1>1, <2>1, <2>2, <2>3
  <2> QED
    BY <1>1, <2>1, <2>3, <2>4, <2>5, Zenon DEF ConnStep, ConnOK, InFlight
<1>5. CASE HandshakeFails(c)
  <2>1. conn'[c] = [conn[c] EXCEPT !.phase = "closed"]
        /\ begun'[c] = begun[c] + 1 /\ records'[c] = records[c] + 1
        /\ conn[c].phase \in {"handshake", "minting"} /\ UNCHANGED <<leaves, minted, reached>>
    BY <1>1, <1>5, Zenon DEF HandshakeFails, Become, Plus
  <2>2. conn'[c] \in ConnStates
    BY <1>1, <2>1, Zenon DEF ConnStates, ConnPhases
  <2> QED
    BY <1>1, <1>5, <2>1, <2>2
    DEF HandshakeFails, Become, Plus, ConnStep, ConnOK, ConnStates, InFlight
<1> QED
  BY <1>3, <1>4, <1>5, Zenon

\* An error of forward_request: the request in flight is recorded.
LEMMA FailStep ==
  ASSUME ProxyInv, NEW c \in Conns, conn[c].phase \in InFlight, Fail(c),
         UNCHANGED <<leaves, minted, reached, begun>>
  PROVE  ConnStep(c)
<1>1. /\ conn \in [Conns -> ConnStates] /\ conn[c] \in ConnStates
      /\ begun \in [Conns -> Nat] /\ begun[c] \in Nat
      /\ records \in [Conns -> Nat] /\ records[c] \in Nat
      /\ leaves \in [Hosts -> SUBSET Nat] /\ minted \in Nat
      /\ reached \subseteq Permitted /\ ConnOK(c)
  BY ConnFacts, Zenon
<1>2. /\ conn'[c] = [conn[c] EXCEPT !.phase = "serving", !.candidates = {}]
      /\ records'[c] = records[c] + 1 /\ records' = [records EXCEPT ![c] = records'[c]]
  BY <1>1, Zenon DEF Fail, Plus
<1>3. /\ conn'[c] \in ConnStates /\ conn'[c].phase = "serving" /\ conn'[c].candidates = {}
      /\ conn'[c].abandoned = conn[c].abandoned
      /\ conn' = [conn EXCEPT ![c] = conn'[c]]
  BY <1>1, <1>2, Zenon DEF Fail, ConnStates, ConnPhases
<1> QED
  BY <1>1, <1>2, <1>3, Zenon DEF ConnStep, ConnOK, InFlight

\* An inner request begins: an upgrade is recorded at once, another one is in
\* flight.
LEMMA InnerStep ==
  ASSUME ProxyInv, NEW c \in Conns, InnerRequest(c)
  PROVE  ConnStep(c)
<1>1. /\ conn \in [Conns -> ConnStates] /\ conn[c] \in ConnStates
      /\ begun \in [Conns -> Nat] /\ begun[c] \in Nat
      /\ records \in [Conns -> Nat] /\ records[c] \in Nat
      /\ leaves \in [Hosts -> SUBSET Nat] /\ minted \in Nat
      /\ reached \subseteq Permitted /\ ConnOK(c)
  BY ConnFacts, Zenon
<1>2. /\ conn[c].phase \in {"first", "serving"} /\ UNCHANGED <<leaves, minted, reached>>
      /\ begun'[c] = begun[c] + 1 /\ begun' = [begun EXCEPT ![c] = begun'[c]]
  BY <1>1, Zenon DEF InnerRequest, Plus
<1>3. CASE records' = RecordUpgrade(c) /\ Become(c, "serving")
  <2>1. /\ records'[c] = records[c] + 1 /\ records' = [records EXCEPT ![c] = records'[c]]
        /\ conn'[c] = [conn[c] EXCEPT !.phase = "serving"]
    BY <1>1, <1>3, Zenon DEF RecordUpgrade, Become, Plus
  <2>2. conn'[c] \in ConnStates /\ conn' = [conn EXCEPT ![c] = conn'[c]]
        /\ conn'[c].phase = "serving" /\ conn'[c].candidates = conn[c].candidates
        /\ conn'[c].abandoned = conn[c].abandoned
    BY <1>1, <1>3, <2>1, Zenon DEF Become, ConnStates, ConnPhases
  <2> QED
    BY <1>1, <1>2, <2>1, <2>2 DEF ConnStep, ConnOK, InFlight
<1>4. CASE /\ \E t \in Hosts \cup {NoHost} :
                conn' = [conn EXCEPT ![c].phase = "resolving", ![c].target = t]
           /\ UNCHANGED records
  <2>1. PICK t \in Hosts \cup {NoHost} :
          conn' = [conn EXCEPT ![c].phase = "resolving", ![c].target = t]
    BY <1>4, Zenon
  <2>2. conn'[c] \in ConnStates /\ conn' = [conn EXCEPT ![c] = conn'[c]]
        /\ conn'[c].phase = "resolving" /\ conn'[c].candidates = conn[c].candidates
        /\ conn'[c].abandoned = conn[c].abandoned
    BY <1>1, <2>1, Zenon DEF ConnStates, ConnPhases, InFlight
  <2> QED
    BY <1>1, <1>2, <1>4, <2>2 DEF ConnStep, ConnOK, InFlight
<1>5. conn[c].host \in Hosts \cup {NoHost}
  BY <1>1, Zenon DEF ConnStates
<1> QED
  BY <1>3, <1>4, <1>5, Zenon DEF InnerRequest

\* A request in flight goes on: it resolves, connects, secures the connection
\* or fails.  The addresses connected to are the ones the guard saw.
LEMMA ForwardStep ==
  ASSUME ProxyInv, NEW c \in Conns, Resolve(c) \/ Connect(c) \/ ConnectTls(c)
  PROVE  ConnStep(c)
<1>1. /\ conn \in [Conns -> ConnStates] /\ conn[c] \in ConnStates
      /\ begun \in [Conns -> Nat] /\ begun[c] \in Nat
      /\ records \in [Conns -> Nat] /\ records[c] \in Nat
      /\ leaves \in [Hosts -> SUBSET Nat] /\ minted \in Nat
      /\ reached \subseteq Permitted /\ ConnOK(c)
  BY ConnFacts, Zenon
<1>2. conn[c].phase \in InFlight /\ UNCHANGED <<leaves, minted, begun>>
  BY Zenon DEF Resolve, Connect, ConnectTls, InFlight
<1>3. CASE Fail(c) /\ UNCHANGED reached
  BY <1>2, <1>3, FailStep, Zenon
<1>4. CASE /\ UNCHANGED <<records, reached>>
           /\ \E found \in SUBSET Permitted :
                conn' = [conn EXCEPT ![c].phase = "connecting", ![c].candidates = found]
  <2>1. PICK found \in SUBSET Permitted :
          conn' = [conn EXCEPT ![c].phase = "connecting", ![c].candidates = found]
    BY <1>4, Zenon
  <2>2. found \in SUBSET Addresses
    BY ProxyAssumption, Zenon
  <2>3. conn'[c] \in ConnStates /\ conn' = [conn EXCEPT ![c] = conn'[c]]
        /\ conn'[c].phase = "connecting" /\ conn'[c].candidates = found
        /\ conn'[c].abandoned = conn[c].abandoned
    BY <1>1, <2>1, <2>2, Zenon DEF ConnStates, ConnPhases, InFlight
  <2> QED
    BY <1>1, <1>2, <1>4, <2>3, Zenon DEF ConnStep, ConnOK, InFlight
<1>5. CASE /\ UNCHANGED records
           /\ \E there \in {"securing", "exchanging"} : Become(c, there)
           /\ reached' \subseteq reached \cup conn[c].candidates
  <2>1. PICK there \in {"securing", "exchanging"} : Become(c, there)
    BY <1>5, Zenon
  <2>2. conn'[c] \in ConnStates /\ conn' = [conn EXCEPT ![c] = conn'[c]]
        /\ conn'[c].phase = there /\ conn'[c].candidates = conn[c].candidates
        /\ conn'[c].abandoned = conn[c].abandoned
    BY <1>1, <2>1, Zenon DEF Become, ConnStates, ConnPhases, InFlight
  <2> QED
    BY <1>1, <1>2, <1>5, <2>2, Zenon DEF ConnStep, ConnOK, InFlight
<1>6. CASE Resolve(c)
  BY <1>3, <1>4, <1>6, Zenon DEF Resolve
<1>7. CASE Connect(c)
  <2>1. CASE Fail(c) /\ UNCHANGED reached
    BY <1>3, <2>1, Zenon
  <2>2. CASE \E a \in Destinations(c) :
               /\ reached' = reached \cup {a}
               /\ Become(c, IF conn[c].secure THEN "securing" ELSE "exchanging")
               /\ UNCHANGED records
    <3>1. \E there \in {"securing", "exchanging"} : Become(c, there)
      BY <2>2, Zenon
    <3>2. reached' \subseteq reached \cup conn[c].candidates
      BY <2>2, Zenon DEF Destinations
    <3> QED
      BY <1>5, <2>2, <3>1, <3>2, Zenon
  <2> QED
    BY <1>7, <2>1, <2>2, Zenon DEF Connect
<1>8. CASE ConnectTls(c)
  BY <1>3, <1>5, <1>8, Zenon DEF ConnectTls
<1> QED
  BY <1>6, <1>7, <1>8, Zenon

\* The exchange ends, or the sandbox closes the connection, abandoning a
\* request in flight.
LEMMA EndStep ==
  ASSUME ProxyInv, NEW c \in Conns, Exchange(c) \/ Close(c)
  PROVE  ConnStep(c)
<1>1. /\ conn \in [Conns -> ConnStates] /\ conn[c] \in ConnStates
      /\ begun \in [Conns -> Nat] /\ begun[c] \in Nat
      /\ records \in [Conns -> Nat] /\ records[c] \in Nat
      /\ leaves \in [Hosts -> SUBSET Nat] /\ minted \in Nat
      /\ reached \subseteq Permitted /\ ConnOK(c)
  BY ConnFacts, Zenon
<1>2. CASE Exchange(c)
  <2>1. conn[c].phase \in InFlight /\ Fail(c) /\ UNCHANGED <<leaves, minted, reached, begun>>
    BY <1>2, Zenon DEF Exchange, Fail, InFlight
  <2> QED
    BY <2>1, FailStep, Zenon
<1>3. CASE Close(c)
  <2> DEFINE lost == conn[c].phase \in InFlight
  <2>1. /\ conn' = [conn EXCEPT ![c].phase = "closed", ![c].candidates = {},
                                ![c].abandoned = lost]
        /\ UNCHANGED <<leaves, minted, reached, begun, records>>
        /\ conn[c].phase \in InFlight \cup {"first", "serving"}
    BY <1>3, Zenon DEF Close
  <2>2. lost \in BOOLEAN
    OBVIOUS
  <2> HIDE DEF lost
  <2>3. conn'[c] \in ConnStates /\ conn' = [conn EXCEPT ![c] = conn'[c]]
        /\ conn'[c].phase = "closed" /\ conn'[c].candidates = {}
        /\ conn'[c].abandoned = lost
    BY <1>1, <2>1, <2>2, Zenon DEF ConnStates, ConnPhases
  <2> QED
    BY <1>1, <2>1, <2>3, Zenon DEF ConnStep, ConnOK, InFlight, lost
<1> QED
  BY <1>2, <1>3, Zenon

\* The DNS filter answers with permitted addresses only; shutdown changes
\* neither connections nor addresses.
LEMMA OutsideStep ==
  ASSUME ProxyInv, HandleQuery \/ ProxyShutdown \/ UNCHANGED proxyVars
  PROVE  ProxyInv'
<1>1. UNCHANGED <<conn, leaves, minted, begun, records>>
  BY Zenon DEF HandleQuery, ProxyShutdown, proxyVars, connVars
<1>2. reached' \subseteq Permitted
  BY Zenon DEF HandleQuery, ProxyShutdown, proxyVars, connVars, ProxyInv
<1> QED
  BY <1>1, <1>2, Zenon DEF ProxyInv, ProxyType, ConnOK

\* The proxy starts with no connection and no address reached.
LEMMA ProxyStart == ProxyInit => ProxyInv
<1> SUFFICES ASSUME ProxyInit PROVE ProxyInv
  BY Zenon
<1>1. NewConn \in ConnStates
  BY Zenon DEF NewConn, ConnStates, ConnPhases
<1>2. ProxyType
  BY <1>1, Zenon DEF ProxyInit, ProxyType, NewConn
<1>3. \A c \in Conns : ConnOK(c)
  BY Zenon DEF ProxyInit, ConnOK, NewConn, InFlight
<1> QED
  BY <1>2, <1>3, Zenon DEF ProxyInit, ProxyInv

\* Every step keeps the proxy's invariant.
LEMMA ProxyStep == ProxyInv /\ [ProxyNext]_proxyVars => ProxyInv'
<1> SUFFICES ASSUME ProxyInv, [ProxyNext]_proxyVars PROVE ProxyInv'
  BY Zenon
<1>1. ASSUME NEW c \in Conns,
             \/ AcceptConnect(c) \/ AcceptPlain(c) \/ AcceptBad(c)
             \/ LookupLeaf(c) \/ InsertLeaf(c) \/ HandshakeFails(c)
             \/ InnerRequest(c) \/ Resolve(c) \/ Connect(c) \/ ConnectTls(c)
             \/ Exchange(c) \/ Close(c)
      PROVE  ProxyInv'
  <2>1. ConnStep(c)
    BY <1>1, AcceptStep, HandshakeStep, InnerStep, ForwardStep, EndStep, Zenon
  <2> QED
    BY <2>1, OneConnection, Zenon
<1> QED
  BY <1>1, OutsideStep, Zenon DEF ProxyNext

\* For any connections, hosts, allowlist, addresses and guard: the proxy
\* connects only to addresses the guard permits and answers DNS queries only
\* with such, and every blocked attempt and every inner request that is over
\* has left one record (upstream.rs, proxy.rs, dns.rs).
THEOREM EgressStaysGuarded ==
  ProxyInit /\ [][ProxyNext]_proxyVars => []EgressGuarded
<1>1. ProxyInv => EgressGuarded
  BY Zenon DEF ProxyInv, ConnOK, EgressGuarded, InFlight
<1> QED
  BY <1>1, ProxyStart, ProxyStep, PTL

-----------------------------------------------------------------------------
(* Pairing.                                                                *)

\* The shape of the state.  Keys are numbered as they are generated.
PairingShape ==
  /\ codes \in [Codes -> {"unminted", "fresh", "expired", "gone"}]
  /\ keyRecords \in Seq(Nat)
  /\ proc \in [Procs -> {"off", "dialing", "auth", "saveId", "remember", "on", "fatal"}]
  /\ spec \in [Procs -> [kind : {"token", "pair", "key"}, key : 0..keys, id : Nat, code : Nat]]
  /\ request = [q \in Procs |-> request[q]] /\ reply = [q \in Procs |-> reply[q]]
  /\ keys \in Nat /\ keyFile \in 0..keys /\ paired \in 0..keys /\ idFile \in Nat
  /\ {known, faulty, overlap} \subseteq BOOLEAN
  /\ redeemed \in [Codes -> SUBSET Nat]

\* A code that has let somebody in is gone.
CodesOK ==
  /\ \A c \in Codes : redeemed[c] # {} => codes[c] = "gone"
  /\ \A c \in Codes : \A x, y \in redeemed[c] : x = y

\* The messages of a connection follow from the spec of its process, one at a
\* time; the id in the answer to a pairing names the key paired.
MessagesOK(p) ==
  /\ proc[p] = "off" => request[p].kind = "none" /\ reply[p].kind = "none"
  /\ spec[p].kind = "pair" => spec[p].code \in Codes
  /\ request[p].kind = "none" => request[p] = Quiet
  /\ reply[p].kind # "none" => request[p].kind = "none"
  /\ request[p].kind = "pair" => request[p] = spec[p]
  /\ request[p].kind \in {"challenge", "signature"} \/ reply[p].kind = "challenge"
       => spec[p].kind = "key"
  /\ request[p].kind \in {"challenge", "signature"} => request[p].id \in Nat
  /\ request[p].kind = "token" => spec[p].kind = "token"
  /\ reply[p].kind = "ok" => reply[p].id \in Nat
  /\ reply[p].kind = "ok" /\ spec[p].kind = "pair"
       => reply[p].id \in 1..Len(keyRecords) /\ keyRecords[reply[p].id] = spec[p].key
  /\ proc[p] \in {"saveId", "remember"} => reply[p].kind = "ok"
  /\ proc[p] = "saveId" => spec[p].kind = "pair"

\* A process that is pairing.
PairingUp(p) == proc[p] \notin {"off", "fatal"} /\ spec[p].kind = "pair"

\* One process at a time pairs, unless two overlapped.  Then, as long as every
\* write succeeded, its key is the stored one, not paired before; past
\* save_key_id, the stored id is the one it was given.  When nobody is
\* pairing that key, the stored files suffice.
DiskOK ==
  ~overlap =>
    /\ \A p, q \in Procs : PairingUp(p) /\ PairingUp(q) => p = q
    /\ ~faulty =>
         /\ \A p \in Procs : PairingUp(p) =>
              /\ keyFile = spec[p].key /\ paired # spec[p].key
              /\ proc[p] = "remember" => idFile = reply[p].id
         /\ paired # NoKey /\ keyFile = paired =>
              known /\ idFile \in 1..Len(keyRecords) /\ keyRecords[idFile] = keyFile

PairingInv ==
  PairingShape /\ CodesOK /\ (\A p \in Procs : MessagesOK(p)) /\ DiskOK

Specs(n) == [kind : {"token", "pair", "key"}, key : 0..n, id : Nat, code : Nat]

Places == {"off", "dialing", "auth", "saveId", "remember", "on", "fatal"}

\* No registered key is forgotten or changed.
KeysKept ==
  /\ keyRecords' \in Seq(Nat) /\ Len(keyRecords) <= Len(keyRecords')
  /\ \A i \in 1..Len(keyRecords) : keyRecords'[i] = keyRecords[i]

\* A step of one process, or on its connection.
ProcStep(p) ==
  /\ proc' = [proc EXCEPT ![p] = proc'[p]] /\ proc'[p] \in Places
  /\ spec' = [spec EXCEPT ![p] = spec'[p]] /\ spec'[p] \in Specs(keys')
  /\ request' = [request EXCEPT ![p] = request'[p]]
  /\ reply' = [reply EXCEPT ![p] = reply'[p]]
  /\ keys' \in Nat /\ keys <= keys'
  /\ KeysKept
  /\ MessagesOK(p)'

\* What the shape says of one process.
LEMMA ProcFacts ==
  ASSUME PairingInv, NEW p \in Procs
  PROVE  /\ proc \in [Procs -> Places] /\ proc[p] \in Places
         /\ spec \in [Procs -> Specs(keys)] /\ spec[p] \in Specs(keys)
         /\ request = [q \in Procs |-> request[q]] /\ reply = [q \in Procs |-> reply[q]]
         /\ keyRecords \in Seq(Nat) /\ Len(keyRecords) \in Nat /\ keys \in Nat
         /\ MessagesOK(p)
BY LenProperties, Zenon DEF PairingInv, PairingShape, Places, Specs

\* Such a step keeps the messages of every process in order.
LEMMA MessagesStep ==
  ASSUME PairingInv, NEW p \in Procs, ProcStep(p)
  PROVE  \A q \in Procs : MessagesOK(q)'
<1> SUFFICES ASSUME NEW q \in Procs, q # p PROVE MessagesOK(q)'
  BY Zenon DEF ProcStep
<1>1. /\ proc \in [Procs -> Places] /\ spec \in [Procs -> Specs(keys)]
      /\ request = [r \in Procs |-> request[r]] /\ reply = [r \in Procs |-> reply[r]]
      /\ Len(keyRecords) \in Nat /\ MessagesOK(q)
  BY ProcFacts, Zenon
<1>2. /\ proc'[q] = proc[q] /\ spec'[q] = spec[q]
      /\ request'[q] = request[q] /\ reply'[q] = reply[q]
  BY <1>1, Zenon DEF ProcStep
<1>3. \A i \in 1..Len(keyRecords) : i \in 1..Len(keyRecords') /\ keyRecords'[i] = keyRecords[i]
  <2>1. Len(keyRecords') \in Nat
    BY LenProperties, Zenon DEF ProcStep, KeysKept
  <2> QED
    BY <1>1, <2>1 DEF ProcStep, KeysKept
<1> QED
  BY <1>1, <1>2, <1>3, Zenon DEF MessagesOK

\* And the shape, when the rest of the state keeps it.
LEMMA ShapeStep ==
  ASSUME PairingInv, NEW p \in Procs, ProcStep(p),
         codes' \in [Codes -> {"unminted", "fresh", "expired", "gone"}],
         redeemed' \in [Codes -> SUBSET Nat],
         keyFile' \in 0..keys', paired' \in 0..keys', idFile' \in Nat,
         known' \in BOOLEAN, faulty' \in BOOLEAN, overlap' \in BOOLEAN
  PROVE  PairingShape'
<1>1. /\ proc \in [Procs -> Places] /\ spec \in [Procs -> Specs(keys)]
      /\ request = [q \in Procs |-> request[q]] /\ reply = [q \in Procs |-> reply[q]] /\
         keys \in Nat
  BY ProcFacts, Zenon
<1>2. Specs(keys) \subseteq Specs(keys')
  <2>1. 0..keys \subseteq 0..keys'
    BY <1>1 DEF ProcStep
  <2> QED
    BY <2>1, Zenon DEF Specs
<1>3. spec' \in [Procs -> Specs(keys')]
  BY <1>1, <1>2, Zenon DEF ProcStep
<1>4. proc' \in [Procs -> Places]
  BY <1>1, Zenon DEF ProcStep
<1>5. request' = [q \in Procs |-> request'[q]] /\ reply' = [q \in Procs |-> reply'[q]]
  BY <1>1, Zenon DEF ProcStep
<1> QED
  BY <1>3, <1>4, <1>5, Zenon DEF PairingShape, ProcStep, KeysKept, Specs, Places

\* A step that writes no file and starts no pairing keeps the disk in order.
LEMMA DiskStep ==
  ASSUME PairingInv, KeysKept, UNCHANGED <<disk, overlap>>, faulty => faulty',
         \A q \in Procs : PairingUp(q)' =>
           /\ PairingUp(q) /\ spec'[q].key = spec[q].key
           /\ proc'[q] = "remember" => proc[q] = "remember" /\ reply'[q].id = reply[q].id
  PROVE  DiskOK'
<1>1. UNCHANGED <<keyFile, idFile, known, paired, overlap>>
  BY Zenon DEF disk
<1>2. \A i \in 1..Len(keyRecords) : i \in 1..Len(keyRecords') /\ keyRecords'[i] = keyRecords[i]
  <2>1. Len(keyRecords') \in Nat /\ Len(keyRecords) \in Nat
    BY LenProperties, Zenon DEF KeysKept, PairingInv, PairingShape
  <2> QED
    BY <2>1 DEF KeysKept
<1> QED
  BY <1>1, <1>2 DEF DiskOK, PairingInv

\* A step of one process that writes no file and starts no pairing.
NoWrite(p) ==
  /\ ProcStep(p)
  /\ UNCHANGED <<disk, overlap>> /\ (faulty' = faulty \/ faulty' = TRUE)
  /\ PairingUp(p)' =>
       /\ PairingUp(p) /\ spec'[p].key = spec[p].key
       /\ proc'[p] = "remember" => proc[p] = "remember" /\ reply'[p].id = reply[p].id

\* The step keeps the invariant when it keeps the codes in order.
LEMMA NoWriteStep ==
  ASSUME PairingInv, NEW p \in Procs, NoWrite(p), CodesOK',
         codes' \in [Codes -> {"unminted", "fresh", "expired", "gone"}],
         redeemed' \in [Codes -> SUBSET Nat]
  PROVE  PairingInv'
<1>1. ProcStep(p) /\ KeysKept /\ keys \in Nat /\ keys' \in Nat /\ keys <= keys'
  BY ProcFacts, Zenon DEF NoWrite, ProcStep
<1>2. /\ UNCHANGED <<keyFile, idFile, known, paired, overlap>>
      /\ keyFile \in 0..keys /\ paired \in 0..keys /\ idFile \in Nat
      /\ known \in BOOLEAN /\ faulty \in BOOLEAN /\ overlap \in BOOLEAN
  BY Zenon DEF NoWrite, disk, PairingInv, PairingShape
<1>3. keyFile' \in 0..keys' /\ paired' \in 0..keys'
  BY <1>1, <1>2
<1>4. faulty' \in BOOLEAN /\ (faulty => faulty')
  BY <1>2, Zenon DEF NoWrite
<1>5. PairingShape'
  BY <1>1, <1>2, <1>3, <1>4, ShapeStep, Zenon
<1>6. \A q \in Procs : MessagesOK(q)'
  BY <1>1, MessagesStep, Zenon
<1>7. ASSUME NEW q \in Procs, PairingUp(q)'
      PROVE  /\ PairingUp(q) /\ spec'[q].key = spec[q].key
             /\ proc'[q] = "remember" => proc[q] = "remember" /\ reply'[q].id = reply[q].id
  <2>1. CASE q = p
    BY <1>7, <2>1, Zenon DEF NoWrite
  <2>2. CASE q # p
    <3>1. proc'[q] = proc[q] /\ spec'[q] = spec[q] /\ reply'[q] = reply[q]
      BY <1>1, <2>2, ProcFacts, Zenon DEF ProcStep
    <3> QED
      BY <1>7, <3>1, Zenon DEF PairingUp
  <2> QED
    BY <2>1, <2>2, Zenon
<1>8. DiskOK'
  BY <1>1, <1>7, <1>4, DiskStep, Zenon DEF NoWrite
<1> QED
  BY <1>5, <1>6, <1>8, Zenon DEF PairingInv

\* The codes stay in order when they stay as they are.
LEMMA SameCodes ==
  ASSUME PairingInv, UNCHANGED <<codes, redeemed>>
  PROVE  /\ CodesOK'
         /\ codes' \in [Codes -> {"unminted", "fresh", "expired", "gone"}]
         /\ redeemed' \in [Codes -> SUBSET Nat]
BY Zenon DEF PairingInv, PairingShape, CodesOK

\* What stays the same is kept.
LEMMA SameKeys ==
  ASSUME PairingInv, UNCHANGED keyRecords
  PROVE  KeysKept
BY LenProperties DEF PairingInv, PairingShape, KeysKept

\* A launch without --pair, and dialing.
LEMMA LaunchStep ==
  ASSUME PairingInv, NEW p \in Procs, LaunchLocal(p) \/ LaunchKey(p) \/ Dial(p)
  PROVE  PairingInv'
<1>1. /\ proc \in [Procs -> Places] /\ proc[p] \in Places
      /\ spec \in [Procs -> Specs(keys)] /\ spec[p] \in Specs(keys)
      /\ request = [q \in Procs |-> request[q]] /\ reply = [q \in Procs |-> reply[q]] /\
         keys \in Nat
      /\ keyFile \in 0..keys /\ idFile \in Nat
      /\ MessagesOK(p)
  BY ProcFacts, Zenon DEF PairingInv, PairingShape
<1>2. /\ UNCHANGED <<codes, keyRecords, redeemed, keys, overlap, faulty, disk>>
      /\ proc' = [proc EXCEPT ![p] = proc'[p]] /\ spec' = [spec EXCEPT ![p] = spec'[p]]
      /\ request' = [request EXCEPT ![p] = request'[p]]
      /\ reply' = [reply EXCEPT ![p] = reply'[p]]
  BY <1>1, Zenon DEF LaunchLocal, LaunchKey, Dial, Goto, server, budget
<1>3. KeysKept
  BY <1>2, SameKeys, Zenon
<1>4. CASE LaunchLocal(p)
  <2>1. /\ proc[p] = "off" /\ proc'[p] = "dialing" /\ spec'[p] = LocalToken
        /\ request' = request /\ reply' = reply
    BY <1>1, <1>4, Zenon DEF LaunchLocal, Goto
  <2>2. spec'[p] \in Specs(keys')
    BY <1>1, <1>2, <2>1 DEF LocalToken, Specs, NoKey
  <2>3. MessagesOK(p)'
    BY <1>1, <2>1 DEF MessagesOK, LocalToken
  <2>4. NoWrite(p)
    BY <1>1, <1>2, <1>3, <2>1, <2>2, <2>3
    DEF NoWrite, ProcStep, PairingUp, LocalToken, Places
  <2> QED
    BY <1>2, <2>4, SameCodes, NoWriteStep, Zenon
<1>5. CASE LaunchKey(p)
  <2>1. /\ proc[p] = "off" /\ proc'[p] = "dialing" /\ spec'[p] = KeySpec(keyFile, idFile)
        /\ request' = request /\ reply' = reply
    BY <1>1, <1>5, Zenon DEF LaunchKey, Goto
  <2>2. spec'[p] \in Specs(keys')
    BY <1>1, <1>2, <2>1 DEF KeySpec, Specs, NoKey
  <2>3. MessagesOK(p)'
    BY <1>1, <2>1 DEF MessagesOK, KeySpec
  <2>4. NoWrite(p)
    BY <1>1, <1>2, <1>3, <2>1, <2>2, <2>3 DEF NoWrite, ProcStep, PairingUp, KeySpec, Places
  <2> QED
    BY <1>2, <2>4, SameCodes, NoWriteStep, Zenon
<1>6. CASE Dial(p)
  <2>1. /\ proc[p] = "dialing" /\ proc'[p] = "auth" /\ spec' = spec
        /\ request'[p] = IF spec[p].kind = "key"
                         THEN [kind |-> "challenge", id |-> spec[p].id] ELSE spec[p]
        /\ reply'[p] = Quiet
    BY <1>1, <1>6, Zenon DEF Dial, Goto
  <2>2. MessagesOK(p)'
    <3>1. spec[p].kind \in {"token", "pair", "key"} /\ spec[p].id \in Nat
      BY <1>1, Zenon DEF Specs
    <3>2. CASE spec[p].kind = "key"
      BY <1>1, <2>1, <3>1, <3>2 DEF MessagesOK, Quiet
    <3>3. CASE spec[p].kind # "key"
      BY <1>1, <2>1, <3>1, <3>3 DEF MessagesOK, Quiet
    <3> QED
      BY <3>2, <3>3, Zenon
  <2>3. spec'[p] \in Specs(keys') /\ keys' \in Nat /\ keys <= keys' /\ proc'[p] \in Places
    BY <1>1, <1>2, <2>1 DEF Places
  <2>4. ProcStep(p)
    BY <1>2, <1>3, <2>2, <2>3, Zenon DEF ProcStep
  <2>5. NoWrite(p)
    BY <1>2, <2>1, <2>4, Zenon DEF NoWrite, PairingUp
  <2> QED
    BY <1>2, <2>5, SameCodes, NoWriteStep, Zenon
<1> QED
  BY <1>4, <1>5, <1>6, Zenon

\* The harness answers the message on a connection.
LEMMA AnswerStep ==
  ASSUME PairingInv, NEW p \in Procs, NEW m, Answer(p, m), request[p].kind # "none", KeysKept,
         UNCHANGED <<proc, spec, disk, keys, overlap>>, faulty' = faulty \/ faulty' = TRUE,
         \/ m.kind = "error"
         \/ m.kind = "challenge" /\ spec[p].kind = "key"
         \/ /\ m.kind = "ok" /\ m.id \in Nat
            /\ spec[p].kind = "pair" =>
                 m.id \in 1..Len(keyRecords') /\ keyRecords'[m.id] = spec[p].key
  PROVE  NoWrite(p)
<1>1. /\ proc \in [Procs -> Places] /\ proc[p] \in Places
      /\ spec \in [Procs -> Specs(keys)] /\ spec[p] \in Specs(keys)
      /\ request = [q \in Procs |-> request[q]] /\ reply = [q \in Procs |-> reply[q]]
      /\ keys \in Nat /\ MessagesOK(p)
  BY ProcFacts, Zenon
<1>2. /\ request'[p] = Quiet /\ reply'[p] = m /\ proc'[p] = proc[p] /\ spec'[p] = spec[p]
      /\ request' = [request EXCEPT ![p] = request'[p]]
      /\ reply' = [reply EXCEPT ![p] = reply'[p]]
      /\ proc' = [proc EXCEPT ![p] = proc'[p]] /\ spec' = [spec EXCEPT ![p] = spec'[p]]
  BY <1>1, Zenon DEF Answer
<1>3. proc[p] \notin {"off", "saveId", "remember"}
  BY <1>1, Zenon DEF MessagesOK
<1>4. MessagesOK(p)'
  BY <1>1, <1>2, <1>3 DEF MessagesOK, Quiet
<1>5. ProcStep(p)
  BY <1>1, <1>2, <1>4 DEF ProcStep
<1> QED
  BY <1>2, <1>3, <1>5, Zenon DEF NoWrite, PairingUp

\* A pairing request: the code is gone; if it was fresh, the key is registered,
\* and the answer names it.
LEMMA PairStep ==
  ASSUME PairingInv, NEW p \in Procs, HandlePair(p),
         UNCHANGED <<proc, spec, disk, keys, overlap>>
  PROVE  PairingInv'
<1> DEFINE c == request[p].code
           k == request[p].key
<1>1. /\ spec[p] \in Specs(keys) /\ keys \in Nat /\ MessagesOK(p)
      /\ keyRecords \in Seq(Nat) /\ Len(keyRecords) \in Nat
  BY ProcFacts, Zenon
<1>2. request[p].kind = "pair" /\ request[p] = spec[p] /\ c \in Codes /\ k = spec[p].key
      /\ k \in Nat
  <2>1. request[p].kind = "pair"
    BY Zenon DEF HandlePair
  <2>2. request[p] = spec[p]
    BY <1>1, <2>1, Zenon DEF MessagesOK
  <2>3. spec[p].code \in Codes
    BY <1>1, <2>1, <2>2, Zenon DEF MessagesOK
  <2>4. spec[p].key \in Nat
    BY <1>1 DEF Specs
  <2> QED
    BY <2>1, <2>2, <2>3, <2>4, Zenon
<1>3. /\ codes \in [Codes -> {"unminted", "fresh", "expired", "gone"}]
      /\ redeemed \in [Codes -> SUBSET Nat] /\ CodesOK
  BY Zenon DEF PairingInv, PairingShape
<1>4. /\ codes' = [codes EXCEPT ![c] = "gone"]
      /\ codes' \in [Codes -> {"unminted", "fresh", "expired", "gone"}]
  BY <1>2, <1>3, Zenon DEF HandlePair, Redeem
<1> HIDE DEF c, k
<1>5. CASE codes[c] # "fresh" /\ Deny(p) /\ UNCHANGED budget
  <2>1. UNCHANGED <<keyRecords, redeemed, faulty>> /\ Answer(p, AuthError)
    BY <1>5, Zenon DEF Deny, budget
  <2>2. KeysKept
    BY <2>1, SameKeys, Zenon
  <2>3. NoWrite(p)
    <3> DEFINE m == AuthError
    <3>1. Answer(p, m) /\ m.kind = "error" /\ request[p].kind # "none"
      BY <1>2, <2>1, Zenon DEF AuthError
    <3> HIDE DEF m
    <3> QED
      BY <2>1, <2>2, <3>1, AnswerStep, Zenon
  <2>4. CodesOK' /\ redeemed' \in [Codes -> SUBSET Nat]
    BY <1>2, <1>3, <1>4, <2>1, Zenon DEF CodesOK
  <2> QED
    BY <1>4, <2>3, <2>4, NoWriteStep, Zenon
<1>6. CASE codes[c] = "fresh"
  <2>1. keyRecords' = Append(keyRecords, k) /\ redeemed[c] = {}
    BY <1>2, <1>3, <1>6, Zenon DEF HandlePair, Deny, CodesOK, c, k
  <2>2. /\ keyRecords' \in Seq(Nat) /\ Len(keyRecords') = Len(keyRecords) + 1
        /\ \A i \in 1..Len(keyRecords) : keyRecords'[i] = keyRecords[i]
        /\ keyRecords'[Len(keyRecords) + 1] = k
    BY <1>1, <1>2, <2>1, AppendProperties
  <2>3. KeysKept
    BY <1>1, <2>2 DEF KeysKept
  <2>4. CASE /\ Answer(p, AuthOk(Len(keyRecords) + 1))
             /\ redeemed' = [redeemed EXCEPT ![c] = @ \cup {k}]
             /\ UNCHANGED budget
    <3> DEFINE m == AuthOk(Len(keyRecords) + 1)
    <3>1. /\ Answer(p, m) /\ m.kind = "ok" /\ m.id = Len(keyRecords) + 1
          /\ request[p].kind # "none" /\ UNCHANGED faulty
      BY <1>2, <2>4, Zenon DEF AuthOk, budget
    <3> HIDE DEF m
    <3>2. /\ m.id \in Nat /\ m.id \in 1..Len(keyRecords') /\ keyRecords'[m.id] = spec[p].key
      <4>1. m.id \in Nat /\ m.id >= 1 /\ m.id = Len(keyRecords')
        BY <1>1, <2>2, <3>1
      <4>2. m.id \in 1..Len(keyRecords')
        BY <4>1
      <4>3. keyRecords'[m.id] = k
        BY <2>2, <3>1, Zenon
      <4> QED
        BY <1>2, <4>1, <4>2, <4>3, Zenon
    <3>3. NoWrite(p)
      BY <2>3, <3>1, <3>2, AnswerStep, Zenon
    <3>4. redeemed' \in [Codes -> SUBSET Nat]
      BY <1>2, <1>3, <2>4, Zenon
    <3>5. CodesOK'
      <4> SUFFICES ASSUME NEW d \in Codes
                   PROVE  /\ redeemed'[d] # {} => codes'[d] = "gone"
                          /\ \A x, y \in redeemed'[d] : x = y
        BY Zenon DEF CodesOK
      <4>1. CASE d = c
        <5>1. redeemed'[d] = {k} /\ codes'[d] = "gone"
          BY <1>2, <1>3, <1>4, <2>1, <2>4, <4>1, Zenon
        <5> QED
          BY <5>1, Zenon
      <4>2. CASE d # c
        <5>1. redeemed'[d] = redeemed[d] /\ codes'[d] = codes[d]
          BY <1>3, <1>4, <2>4, <4>2, Zenon
        <5> QED
          BY <1>3, <5>1, Zenon DEF CodesOK
      <4> QED
        BY <4>1, <4>2, Zenon
    <3> QED
      BY <1>4, <3>3, <3>4, <3>5, NoWriteStep, Zenon
  <2>5. CASE WriteFails /\ Answer(p, AuthError) /\ UNCHANGED redeemed
    <3> DEFINE m == AuthError
    <3>1. Answer(p, m) /\ m.kind = "error" /\ request[p].kind # "none" /\ faulty' = TRUE
      BY <1>2, <2>5, Zenon DEF AuthError, WriteFails
    <3> HIDE DEF m
    <3>2. NoWrite(p)
      BY <2>3, <3>1, AnswerStep, Zenon
    <3>3. CodesOK' /\ redeemed' \in [Codes -> SUBSET Nat]
      BY <1>2, <1>3, <1>4, <2>5, Zenon DEF CodesOK
    <3> QED
      BY <1>4, <3>2, <3>3, NoWriteStep, Zenon
  <2> QED
    BY <1>6, <2>4, <2>5, Zenon DEF HandlePair, Deny, c, k
<1> QED
  BY <1>5, <1>6, Zenon DEF HandlePair, c

\* The other messages, and the authentication timeout, register nothing.
LEMMA LoginStep ==
  ASSUME PairingInv, NEW p \in Procs,
         HandleToken(p) \/ HandleChallenge(p) \/ HandleSignature(p) \/ AuthTimeout(p),
         UNCHANGED <<proc, spec, disk, keys, overlap>>
  PROVE  PairingInv'
<1>1. MessagesOK(p) /\ spec[p] \in Specs(keys)
  BY ProcFacts, Zenon
<1>2. UNCHANGED <<codes, redeemed, keyRecords, faulty>>
  BY Zenon DEF HandleToken, HandleChallenge, HandleSignature, AuthTimeout, Deny, server, budget
<1>3. KeysKept
  BY <1>2, SameKeys, Zenon
<1>4. ASSUME NEW m, Answer(p, m), request[p].kind # "none",
             \/ m.kind = "error"
             \/ m.kind = "challenge" /\ spec[p].kind = "key"
             \/ m.kind = "ok" /\ m.id \in Nat /\ spec[p].kind # "pair"
      PROVE  PairingInv'
  <2>1. NoWrite(p)
    BY <1>2, <1>3, <1>4, AnswerStep, Zenon
  <2> QED
    BY <1>2, <2>1, SameCodes, NoWriteStep, Zenon
<1>5. CASE Answer(p, AuthError) /\ request[p].kind # "none"
  BY <1>4, <1>5, Zenon DEF AuthError
<1>6. CASE HandleToken(p)
  <2>1. request[p].kind = "token" /\ Answer(p, AuthOk(NoKey)) /\ spec[p].kind = "token"
    BY <1>1, <1>6, Zenon DEF HandleToken, MessagesOK
  <2> QED
    BY <1>4, <2>1, Zenon DEF AuthOk, NoKey
<1>7. CASE HandleChallenge(p)
  <2>1. request[p].kind = "challenge" /\ spec[p].kind = "key"
    BY <1>1, <1>7, Zenon DEF HandleChallenge, MessagesOK
  <2>2. CASE Answer(p, AuthError)
    BY <1>5, <2>1, <2>2, Zenon
  <2>3. CASE Answer(p, [kind |-> "challenge"])
    BY <1>4, <2>1, <2>3, Zenon
  <2> QED
    BY <1>7, <2>2, <2>3, Zenon DEF HandleChallenge, Deny
<1>8. CASE HandleSignature(p)
  <2>1. request[p].kind = "signature" /\ spec[p].kind = "key" /\ request[p].id \in Nat
    BY <1>1, <1>8, Zenon DEF HandleSignature, MessagesOK
  <2>2. CASE Answer(p, AuthError)
    BY <1>5, <2>1, <2>2, Zenon
  <2>3. CASE Answer(p, AuthOk(request[p].id))
    BY <1>4, <2>1, <2>3, Zenon DEF AuthOk
  <2> QED
    BY <1>8, <2>2, <2>3, Zenon DEF HandleSignature
<1>9. CASE AuthTimeout(p)
  <2>1. Answer(p, AuthError) /\ request[p] # Quiet
    BY <1>9, Zenon DEF AuthTimeout, Deny
  <2>2. request[p].kind # "none"
    BY <1>1, <2>1, Zenon DEF MessagesOK
  <2> QED
    BY <1>5, <2>1, <2>2, Zenon
<1> QED
  BY <1>6, <1>7, <1>8, <1>9, Zenon

\* The client takes an answer, loses its connection, or ends.
LEMMA ClientStep ==
  ASSUME PairingInv, NEW p \in Procs,
         ReceiveChallenge(p) \/ ReceiveOk(p) \/ ReceiveError(p) \/ Drop(p) \/ Quit(p)
  PROVE  PairingInv'
<1>1. /\ proc \in [Procs -> Places] /\ proc[p] \in Places
      /\ spec \in [Procs -> Specs(keys)] /\ spec[p] \in Specs(keys)
      /\ request = [q \in Procs |-> request[q]] /\ reply = [q \in Procs |-> reply[q]]
      /\ keys \in Nat /\ MessagesOK(p)
  BY ProcFacts, Zenon
<1>2. /\ UNCHANGED <<codes, redeemed, keyRecords, faulty, keys, disk, overlap, spec>>
      /\ proc' = [proc EXCEPT ![p] = proc'[p]] /\ spec' = [spec EXCEPT ![p] = spec'[p]]
      /\ request' = [request EXCEPT ![p] = request'[p]]
      /\ reply' = [reply EXCEPT ![p] = reply'[p]]
      /\ spec'[p] = spec[p]
  BY <1>1, Zenon
  DEF ReceiveChallenge, ReceiveOk, ReceiveError, Drop, Quit, Goto, server, budget
<1>3. KeysKept
  BY <1>2, SameKeys, Zenon
<1>4. spec[p].kind \in {"token", "pair", "key"} /\ spec[p].id \in Nat
  BY <1>1, Zenon DEF Specs
<1>5. /\ MessagesOK(p)' /\ proc'[p] \in Places
      /\ PairingUp(p)' => PairingUp(p) /\ proc'[p] # "remember"
  <2>1. CASE ReceiveChallenge(p)
    <3>1. /\ request'[p] = [kind |-> "signature", id |-> spec[p].id, key |-> spec[p].key]
          /\ reply'[p] = Quiet /\ proc' = proc /\ proc[p] = "auth" /\ reply[p].kind = "challenge"
      BY <1>1, <2>1, Zenon DEF ReceiveChallenge
    <3> QED
      BY <1>1, <1>2, <1>4, <3>1 DEF MessagesOK, Quiet, PairingUp
  <2>2. CASE ReceiveOk(p)
    <3>1. /\ proc'[p] = CASE spec[p].kind = "token" -> "on"
                          [] spec[p].kind = "pair" -> "saveId"
                          [] spec[p].kind = "key" -> "remember"
          /\ request' = request /\ reply' = reply /\ proc[p] = "auth" /\ reply[p].kind = "ok"
      BY <1>1, <2>2, Zenon DEF ReceiveOk, Goto
    <3>2. /\ spec[p].kind = "token" => proc'[p] = "on"
          /\ spec[p].kind = "pair" => proc'[p] = "saveId"
          /\ spec[p].kind = "key" => proc'[p] = "remember"
      BY <3>1, Zenon
    <3> QED
      BY <1>1, <1>2, <1>4, <3>1, <3>2, Zenon DEF MessagesOK, PairingUp, Places
  <2>3. CASE ReceiveError(p)
    <3>1. /\ proc'[p] = "fatal" /\ request' = request /\ reply' = reply /\ proc[p] = "auth"
      BY <1>1, <2>3, Zenon DEF ReceiveError, Goto
    <3> QED
      BY <1>1, <1>2, <3>1, Zenon DEF MessagesOK, PairingUp, Places
  <2>4. CASE Drop(p)
    <3>1. /\ proc'[p] = "dialing" /\ request'[p] = Quiet /\ reply'[p] = Quiet
          /\ proc[p] \in {"auth", "on"}
      BY <1>1, <2>4, Zenon DEF Drop, Goto
    <3> QED
      BY <1>1, <1>2, <3>1 DEF MessagesOK, Quiet, PairingUp, Places
  <2>5. CASE Quit(p)
    <3>1. proc'[p] = "off" /\ request'[p] = Quiet /\ reply'[p] = Quiet
      BY <1>1, <2>5, Zenon DEF Quit, Goto
    <3> QED
      BY <1>1, <1>2, <3>1 DEF MessagesOK, Quiet, PairingUp, Places
  <2> QED
    BY <2>1, <2>2, <2>3, <2>4, <2>5, Zenon
<1>6. ProcStep(p)
  <2>1. keys' \in Nat /\ keys <= keys' /\ spec'[p] \in Specs(keys')
    BY <1>1, <1>2 DEF Specs
  <2> QED
    BY <1>2, <1>3, <1>5, <2>1, Zenon DEF ProcStep
<1>7. NoWrite(p)
  BY <1>2, <1>5, <1>6, Zenon DEF NoWrite
<1> QED
  BY <1>2, <1>7, SameCodes, NoWriteStep, Zenon

\* A code is minted or expires: it was not gone.
LEMMA CodeStep ==
  ASSUME PairingInv, NEW c \in Codes, Mint(c) \/ Expire(c)
  PROVE  PairingInv'
<1>1. UNCHANGED <<keyRecords, redeemed, keyFile, idFile, known, paired, faulty, proc, spec,
                  request, reply, keys, overlap>>
  BY Zenon DEF Mint, Expire, disk, budget
<1>2. PICK there \in {"fresh", "expired"} :
        codes' = [codes EXCEPT ![c] = there] /\ codes[c] # "gone"
  BY Zenon DEF Mint, Expire
<1>3. PairingShape'
  BY <1>1, <1>2, Zenon DEF PairingInv, PairingShape
<1>4. CodesOK'
  BY <1>1, <1>2, Zenon DEF PairingInv, PairingShape, CodesOK
<1>5. (\A p \in Procs : MessagesOK(p)') /\ DiskOK'
  BY <1>1, Zenon DEF PairingInv, MessagesOK, DiskOK, PairingUp
<1> QED
  BY <1>3, <1>4, <1>5, Zenon DEF PairingInv

\* A step of one process that writes files and leaves the codes alone.
FileStep(p) ==
  /\ ProcStep(p)
  /\ UNCHANGED <<codes, redeemed, keyRecords, request, reply>>
  /\ keyFile' \in 0..keys' /\ paired' \in 0..keys' /\ idFile' \in Nat
  /\ known' \in BOOLEAN /\ faulty' \in BOOLEAN /\ overlap' \in BOOLEAN

\* A file operation of one process, touching neither the codes nor the requests,
\* keeps the invariant.
LEMMA FileStepKeeps ==
  ASSUME PairingInv, NEW p \in Procs, FileStep(p), DiskOK'
  PROVE  PairingInv'
<1>1. ProcStep(p) /\ UNCHANGED <<codes, redeemed>>
  BY Zenon DEF FileStep
<1>2. /\ codes' \in [Codes -> {"unminted", "fresh", "expired", "gone"}]
      /\ redeemed' \in [Codes -> SUBSET Nat] /\ CodesOK'
  BY <1>1, SameCodes, Zenon
<1>3. PairingShape'
  BY <1>1, <1>2, ShapeStep, Zenon DEF FileStep
<1>4. \A q \in Procs : MessagesOK(q)'
  BY <1>1, MessagesStep, Zenon
<1> QED
  BY <1>2, <1>3, <1>4, Zenon DEF PairingInv

\* Once a write has failed only the pairings under way matter.
LEMMA FaultyDisk ==
  ASSUME PairingInv, NEW p \in Procs, ProcStep(p), overlap => overlap', faulty' = TRUE,
         PairingUp(p)' => PairingUp(p)
  PROVE  DiskOK'
<1>1. \A q \in Procs : PairingUp(q)' => PairingUp(q)
  <2> SUFFICES ASSUME NEW q \in Procs, q # p, PairingUp(q)' PROVE PairingUp(q)
    BY Zenon
  <2>1. proc'[q] = proc[q] /\ spec'[q] = spec[q]
    BY ProcFacts, Zenon DEF ProcStep
  <2> QED
    BY <2>1, Zenon DEF PairingUp
<1> QED
  BY <1>1, Zenon DEF DiskOK, PairingInv

\* What a step that writes files starts from.
LEMMA FileFacts ==
  ASSUME PairingInv
  PROVE  /\ keyFile \in 0..keys /\ paired \in 0..keys /\ idFile \in Nat /\ keys \in Nat
         /\ known \in BOOLEAN /\ faulty \in BOOLEAN /\ overlap \in BOOLEAN
BY Zenon DEF PairingInv, PairingShape

\* A step that only moves the process.
LEMMA MoveStep ==
  ASSUME PairingInv, NEW p \in Procs, NEW where \in Places, Goto(p, where),
         UNCHANGED <<spec, request, reply, keys, keyRecords>>, MessagesOK(p)'
  PROVE  ProcStep(p) /\ proc'[p] = where
<1>1. /\ proc \in [Procs -> Places] /\ spec \in [Procs -> Specs(keys)]
      /\ request = [q \in Procs |-> request[q]] /\ reply = [q \in Procs |-> reply[q]]
      /\ keys \in Nat
  BY ProcFacts, Zenon
<1>2. proc'[p] = where /\ proc' = [proc EXCEPT ![p] = proc'[p]]
  BY <1>1, Zenon DEF Goto
<1>3. spec' = [spec EXCEPT ![p] = spec'[p]]
  BY <1>1, Zenon
<1>4. request' = [request EXCEPT ![p] = request'[p]]
  BY <1>1, Zenon
<1>5. reply' = [reply EXCEPT ![p] = reply'[p]]
  BY <1>1, Zenon
<1>6. keys' \in Nat /\ keys <= keys'
  BY <1>1
<1>7. spec'[p] \in Specs(keys')
  BY <1>1, Zenon DEF Specs
<1>8. KeysKept
  BY SameKeys, Zenon
<1> QED
  BY <1>2, <1>3, <1>4, <1>5, <1>6, <1>7, <1>8, Zenon DEF ProcStep

\* save_key_id: the process is the one that pairs, so its key is not yet paired.
LEMMA SaveStep ==
  ASSUME PairingInv, NEW p \in Procs, SaveKeyId(p)
  PROVE  PairingInv'
<1>1. /\ proc \in [Procs -> Places] /\ spec \in [Procs -> Specs(keys)]
      /\ spec[p] \in Specs(keys) /\ MessagesOK(p)
      /\ request = [q \in Procs |-> request[q]] /\ reply = [q \in Procs |-> reply[q]]
  BY ProcFacts, Zenon
<1>2. /\ proc[p] = "saveId" /\ spec[p].kind = "pair" /\ reply[p].kind = "ok"
      /\ reply[p].id \in Nat /\ PairingUp(p)
      /\ UNCHANGED <<codes, redeemed, keyRecords, keyFile, known, paired, request, reply, spec,
                     keys, overlap>>
  BY <1>1, Zenon DEF SaveKeyId, MessagesOK, PairingUp, server
<1>3. CASE idFile' = StoredId(p) /\ Goto(p, "remember") /\ UNCHANGED budget
  <2>1. /\ proc'[p] = "remember" /\ proc' = [proc EXCEPT ![p] = proc'[p]]
        /\ idFile' = reply[p].id /\ faulty' = faulty
    BY <1>1, <1>3, Zenon DEF Goto, StoredId, budget
  <2>2. MessagesOK(p)'
    BY <1>1, <1>2, <2>1, Zenon DEF MessagesOK
  <2>3. ProcStep(p)
    BY <1>2, <1>3, <2>2, MoveStep, Zenon DEF Places
  <2>4. FileStep(p)
    BY <1>2, <2>1, <2>3, FileFacts, Zenon DEF FileStep
  <2>5. \A q \in Procs : q # p => (PairingUp(q)' <=> PairingUp(q))
    BY <1>1, <1>2, <2>1, Zenon DEF PairingUp
  <2>6. DiskOK'
    BY <1>1, <1>2, <2>1, <2>5, Zenon DEF DiskOK, PairingInv
  <2> QED
    BY <2>4, <2>6, FileStepKeeps, Zenon
<1>4. CASE /\ WriteFails
           /\ \E left \in {idFile, NoKey} : idFile' = left
           /\ Goto(p, "dialing")
  <2>1. /\ proc'[p] = "dialing" /\ proc' = [proc EXCEPT ![p] = proc'[p]]
        /\ idFile' \in Nat /\ faulty' = TRUE
    BY <1>1, <1>4, FileFacts DEF Goto, WriteFails, NoKey
  <2>2. MessagesOK(p)'
    BY <1>1, <1>2, <2>1, Zenon DEF MessagesOK
  <2>3. ProcStep(p)
    BY <1>2, <1>4, <2>2, MoveStep, Zenon DEF Places
  <2>4. FileStep(p)
    BY <1>2, <2>1, <2>3, FileFacts, Zenon DEF FileStep
  <2>5. DiskOK'
    BY <1>2, <2>1, <2>3, FaultyDisk, Zenon
  <2> QED
    BY <2>4, <2>5, FileStepKeeps, Zenon
<1> QED
  BY <1>3, <1>4, Zenon DEF SaveKeyId

\* remember_host completes the pairing of the one process that pairs, whose key
\* and id are the stored ones.
LEMMA RememberStep ==
  ASSUME PairingInv, NEW p \in Procs, RememberHost(p)
  PROVE  PairingInv'
<1>1. /\ proc \in [Procs -> Places] /\ spec \in [Procs -> Specs(keys)]
      /\ spec[p] \in Specs(keys) /\ MessagesOK(p)
      /\ request = [q \in Procs |-> request[q]] /\ reply = [q \in Procs |-> reply[q]]
  BY ProcFacts, Zenon
<1>2. /\ proc[p] = "remember" /\ reply[p].kind = "ok" /\ reply[p].id \in Nat
      /\ request[p].kind = "none" /\ request[p] = Quiet
      /\ UNCHANGED <<codes, redeemed, keyRecords, keyFile, idFile, request, reply, keys, overlap>>
  BY <1>1, Zenon DEF RememberHost, MessagesOK, server
<1>3. CASE /\ known' = TRUE
           /\ spec' = [spec EXCEPT ![p] = SpecAfter(p)]
           /\ paired' = IF spec[p].kind = "pair" THEN spec[p].key ELSE paired
           /\ Goto(p, "on")
           /\ UNCHANGED budget
  <2>1. /\ proc'[p] = "on" /\ proc' = [proc EXCEPT ![p] = proc'[p]] /\ faulty' = faulty
        /\ spec'[p] = SpecAfter(p) /\ spec' = [spec EXCEPT ![p] = spec'[p]]
    BY <1>1, <1>3, Zenon DEF Goto, budget
  <2>2. spec[p].key \in 0..keys /\ spec'[p] \in Specs(keys') /\ spec'[p].kind = "key"
    BY <1>1, <1>2, <2>1, FileFacts DEF Specs, SpecAfter, KeySpec, NoKey
  <2>3. MessagesOK(p)'
    BY <1>1, <1>2, <2>1, <2>2, Zenon DEF MessagesOK, Quiet
  <2>4. ProcStep(p)
    <3>1. keys \in Nat /\ keys' = keys
      BY <1>2, FileFacts, Zenon
    <3>2. keys' \in Nat /\ keys <= keys'
      BY <3>1
    <3>3. proc'[p] \in Places
      BY <2>1, Zenon DEF Places
    <3>4. request' = [request EXCEPT ![p] = request'[p]] /\
          reply' = [reply EXCEPT ![p] = reply'[p]]
      BY <1>1, <1>2, Zenon
    <3>5. KeysKept
      BY <1>2, SameKeys, Zenon
    <3> QED
      BY <2>1, <2>2, <2>3, <3>2, <3>3, <3>4, <3>5, Zenon DEF ProcStep
  <2>5. FileStep(p)
    BY <1>2, <1>3, <2>1, <2>2, <2>4, FileFacts, Zenon DEF FileStep
  <2>6. ~PairingUp(p)'
    BY <2>2, Zenon DEF PairingUp
  <2>7. \A q \in Procs : q # p =>
          /\ PairingUp(q)' <=> PairingUp(q)
          /\ proc'[q] = proc[q] /\ spec'[q] = spec[q]
    BY <1>1, <2>1, Zenon DEF PairingUp
  <2>8. CASE spec[p].kind = "pair"
    <3>1. PairingUp(p) /\ paired' = spec[p].key
      BY <1>2, <1>3, <2>8, Zenon DEF PairingUp
    <3>2. reply[p].id \in 1..Len(keyRecords) /\ keyRecords[reply[p].id] = spec[p].key
      BY <1>1, <1>2, <2>8, Zenon DEF MessagesOK
    <3>3. ~overlap => \A q \in Procs : ~PairingUp(q)'
      BY <2>6, <2>7, <3>1, Zenon DEF DiskOK, PairingInv
    <3>4. ~overlap /\ ~faulty => keyFile = spec[p].key /\ idFile = reply[p].id
      BY <1>2, <3>1, Zenon DEF DiskOK, PairingInv
    <3>5. DiskOK'
      BY <1>2, <1>3, <2>1, <3>1, <3>2, <3>3, <3>4, Zenon DEF DiskOK
    <3> QED
      BY <2>5, <3>5, FileStepKeeps, Zenon
  <2>9. CASE spec[p].kind # "pair"
    <3>1. paired' = paired
      BY <1>3, <2>9, Zenon
    <3>2. DiskOK'
      BY <1>2, <1>3, <2>1, <2>6, <2>7, <3>1, Zenon DEF DiskOK, PairingInv
    <3> QED
      BY <2>5, <3>2, FileStepKeeps, Zenon
  <2> QED
    BY <2>8, <2>9, Zenon
<1>4. CASE /\ WriteFails
           /\ \E left \in {known, FALSE} : known' = left
           /\ Goto(p, "dialing")
           /\ UNCHANGED <<spec, paired>>
  <2>1. /\ proc'[p] = "dialing" /\ known' \in BOOLEAN /\ faulty' = TRUE
        /\ spec' = spec /\ paired' = paired
    BY <1>1, <1>4, FileFacts, Zenon DEF Goto, WriteFails
  <2>2. MessagesOK(p)'
    BY <1>1, <1>2, <2>1, Zenon DEF MessagesOK
  <2>3. ProcStep(p)
    BY <1>2, <1>4, <2>2, MoveStep, Zenon DEF Places
  <2>4. FileStep(p)
    BY <1>2, <2>1, <2>3, FileFacts, Zenon DEF FileStep
  <2>5. PairingUp(p)' => PairingUp(p)
    BY <1>2, <2>1, Zenon DEF PairingUp
  <2>6. DiskOK'
    BY <1>2, <2>1, <2>3, <2>5, FaultyDisk, Zenon
  <2> QED
    BY <2>4, <2>6, FileStepKeeps, Zenon
<1> QED
  BY <1>3, <1>4, Zenon DEF RememberHost

\* A launch with --pair stores a key that was never paired; when no other
\* process is pairing, it is the one that pairs from now on.
LEMMA LaunchPairStep ==
  ASSUME PairingInv, NEW p \in Procs, LaunchPair(p)
  PROVE  PairingInv'
<1> DEFINE other == \E q \in Procs \ {p} : PairingUp(q)
<1>1. /\ proc \in [Procs -> Places] /\ spec \in [Procs -> Specs(keys)]
      /\ spec[p] \in Specs(keys) /\ MessagesOK(p)
      /\ request = [q \in Procs |-> request[q]] /\ reply = [q \in Procs |-> reply[q]]
  BY ProcFacts, Zenon
<1>2. /\ proc[p] = "off" /\ request[p] = Quiet /\ request[p].kind = "none"
      /\ reply[p].kind = "none" /\ keys' = keys + 1
      /\ UNCHANGED <<codes, redeemed, keyRecords, idFile, known, paired, request, reply>>
  BY <1>1, Zenon DEF LaunchPair, MessagesOK, server
<1>3. overlap' = (overlap \/ other)
  BY Zenon DEF LaunchPair, PairingUp
<1>4. overlap' \in BOOLEAN /\ (overlap => overlap') /\ (~overlap' => ~other)
  <2>1. overlap \in BOOLEAN /\ other \in BOOLEAN
    BY FileFacts, Zenon
  <2> HIDE DEF other
  <2> QED
    BY <1>3, <2>1, Zenon
<1>5. /\ keys \in Nat /\ keys' \in Nat /\ keys <= keys' /\ paired' \in 0..keys' /\ idFile' \in Nat
      /\ known' \in BOOLEAN /\ faulty \in BOOLEAN /\ 0..keys \subseteq 0..keys'
  <2>1. /\ keys \in Nat /\ paired \in 0..keys /\ idFile \in Nat
        /\ known \in BOOLEAN /\ faulty \in BOOLEAN
    BY FileFacts, Zenon
  <2>2. keys' = keys + 1 /\ paired' = paired /\ idFile' = idFile /\ known' = known
    BY <1>2, Zenon
  <2>3. keys' \in Nat /\ keys <= keys'
    BY <2>1, <2>2
  <2>4. 0..keys \subseteq 0..keys'
    BY <2>1, <2>3
  <2> QED
    BY <2>1, <2>2, <2>3, <2>4, Zenon
<1>6. /\ request' = [request EXCEPT ![p] = request'[p]]
      /\ reply' = [reply EXCEPT ![p] = reply'[p]] /\ KeysKept
  BY <1>1, <1>2, SameKeys, Zenon
<1>7. ASSUME NEW c \in Codes, keyFile' = keys + 1,
             spec' = [spec EXCEPT ![p] = PairSpec(c, keys + 1)], Goto(p, "dialing"),
             UNCHANGED budget
      PROVE  PairingInv'
  <2>1. /\ proc'[p] = "dialing" /\ proc' = [proc EXCEPT ![p] = proc'[p]] /\ faulty' = faulty
        /\ spec'[p] = PairSpec(c, keys + 1) /\ spec' = [spec EXCEPT ![p] = spec'[p]]
    BY <1>1, <1>7, Zenon DEF Goto, budget
  <2>2. /\ spec'[p] \in Specs(keys') /\ spec'[p].kind = "pair" /\ spec'[p].code = c
        /\ spec'[p].key = keys + 1
    BY <1>2, <1>5, <2>1, PairingAssumption DEF Specs, PairSpec, NoKey, Codes
  <2>3. MessagesOK(p)'
    <3>1. c \in Codes'
      BY Zenon DEF Codes
    <3> QED
      BY <1>2, <2>1, <2>2, <3>1, Zenon DEF MessagesOK, Quiet
  <2>4. ProcStep(p)
    BY <1>5, <1>6, <2>1, <2>2, <2>3, Zenon DEF ProcStep, Places
  <2>5. FileStep(p)
    BY <1>2, <1>4, <1>5, <1>7, <2>1, <2>4 DEF FileStep
  <2>6. \A q \in Procs : q # p => (PairingUp(q)' <=> PairingUp(q))
    BY <1>1, <2>1, Zenon DEF PairingUp
  <2>7. ~overlap' => \A q \in Procs : PairingUp(q)' => q = p
    BY <1>4, <2>6, Zenon
  <2>8. paired' # keys + 1 /\ keyFile' # paired' /\ proc'[p] # "remember"
    BY <1>2, <1>5, <1>7, <2>1, FileFacts
  <2>9. DiskOK'
    BY <1>7, <2>2, <2>7, <2>8, Zenon DEF DiskOK
  <2> QED
    BY <2>5, <2>9, FileStepKeeps, Zenon
<1>8. ASSUME faulty' = TRUE, keyFile' \in {keyFile, NoKey}, UNCHANGED <<spec, proc>>
      PROVE  PairingInv'
  <2>1. MessagesOK(p)'
    BY <1>1, <1>2, <1>8, Zenon DEF MessagesOK
  <2>2. ProcStep(p)
    <3>1. proc' = [proc EXCEPT ![p] = proc'[p]] /\ spec' = [spec EXCEPT ![p] = spec'[p]]
      BY <1>1, <1>8, Zenon
    <3>2. proc'[p] \in Places /\ spec'[p] \in Specs(keys')
      BY <1>1, <1>5, <1>8, Zenon DEF Specs
    <3> QED
      BY <1>5, <1>6, <2>1, <3>1, <3>2, Zenon DEF ProcStep
  <2>3. FileStep(p)
    BY <1>2, <1>4, <1>5, <1>8, <2>2, FileFacts DEF FileStep, NoKey
  <2>4. PairingUp(p)' => PairingUp(p)
    BY <1>8, Zenon DEF PairingUp
  <2>5. DiskOK'
    BY <1>4, <1>8, <2>2, <2>4, FaultyDisk, Zenon
  <2> QED
    BY <2>3, <2>5, FileStepKeeps, Zenon
<1> QED
  BY <1>7, <1>8, Zenon DEF LaunchPair, WriteFails

\* No process has connected and nothing is stored.
LEMMA PairingStart == PairingInit => PairingInv
<1> SUFFICES ASSUME PairingInit PROVE PairingInv
  BY Zenon
<1>1. keyRecords \in Seq(Nat)
  BY EmptySeq, Zenon DEF PairingInit
<1>2. PairingShape
  <2>1. /\ codes \in [Codes -> {"unminted", "fresh", "expired", "gone"}]
        /\ redeemed \in [Codes -> SUBSET Nat]
        /\ proc \in [Procs -> {"off", "dialing", "auth", "saveId", "remember", "on", "fatal"}]
    BY Zenon DEF PairingInit
  <2>2. keys \in Nat /\ keyFile \in 0..keys /\ paired \in 0..keys /\ idFile \in Nat
    BY DEF PairingInit, NoKey
  <2>3. spec \in [Procs -> [kind : {"token", "pair", "key"}, key : 0..keys, id : Nat, code : Nat]]
    BY <2>2, Zenon DEF PairingInit, LocalToken, NoKey
  <2>4. request = [q \in Procs |-> request[q]] /\ reply = [q \in Procs |-> reply[q]]
    BY Zenon DEF PairingInit
  <2>5. {known, faulty, overlap} \subseteq BOOLEAN
    BY Zenon DEF PairingInit
  <2> QED
    BY <1>1, <2>1, <2>2, <2>3, <2>4, <2>5, Zenon DEF PairingShape
<1>3. CodesOK
  BY Zenon DEF PairingInit, CodesOK
<1>4. \A p \in Procs : MessagesOK(p)
  BY Zenon DEF PairingInit, MessagesOK, Quiet, LocalToken
<1>5. DiskOK
  BY Zenon DEF PairingInit, DiskOK, PairingUp
<1> QED
  BY <1>2, <1>3, <1>4, <1>5, Zenon DEF PairingInv

\* Every step of a client, of the harness or of the clock keeps the invariant.
LEMMA PairingStep == PairingInv /\ [PairingNext]_pairingVars => PairingInv'
<1> SUFFICES ASSUME PairingInv, [PairingNext]_pairingVars PROVE PairingInv'
  BY Zenon
<1>1. ASSUME NEW p \in Procs, Authenticate(p) PROVE PairingInv'
  BY <1>1, PairStep, LoginStep, Zenon DEF Authenticate
<1>2. ASSUME NEW p \in Procs, AuthTimeout(p) PROVE PairingInv'
  <2>1. UNCHANGED <<proc, spec, disk, keys, overlap>>
    BY <1>2, Zenon DEF AuthTimeout
  <2> QED
    BY <1>2, <2>1, LoginStep, Zenon
<1>3. CASE UNCHANGED pairingVars
  <2>1. PairingShape'
    BY <1>3, Zenon DEF pairingVars, PairingInv, PairingShape
  <2>2. CodesOK'
    BY <1>3, Zenon DEF pairingVars, PairingInv, CodesOK
  <2>3. \A p \in Procs : MessagesOK(p)'
    BY <1>3, Zenon DEF pairingVars, PairingInv, MessagesOK
  <2>4. DiskOK'
    BY <1>3, Zenon DEF pairingVars, PairingInv, DiskOK, PairingUp
  <2> QED
    BY <2>1, <2>2, <2>3, <2>4, Zenon DEF PairingInv
<1> QED
  BY <1>1, <1>2, <1>3, LaunchStep, LaunchPairStep, ClientStep, SaveStep, RememberStep, CodeStep, Zenon
  DEF PairingNext

\* Each pairing code authenticates at most one client, however attempts,
\* expiries, timeouts and retries interleave, and what a completed pairing left
\* on disk is enough to log in again: the stored id names the stored key at the
\* harness (auth.rs, net.rs; the conditions are those of the invariant).
THEOREM PairedForGood ==
  PairingInit /\ [][PairingNext]_pairingVars => []PairedOnceAndForAll
<1>1. PairingInv => PairedOnceAndForAll
  <2> SUFFICES ASSUME PairingInv PROVE PairedOnceAndForAll
    BY Zenon
  <2>1. ASSUME NEW c \in Codes PROVE Cardinality(redeemed[c]) <= 1
    <3>1. CASE redeemed[c] = {}
      BY <3>1, FS_EmptySet
    <3>2. CASE redeemed[c] # {}
      <4>1. PICK k : k \in redeemed[c]
        BY <3>2, Zenon
      <4>2. redeemed[c] = {k}
        BY <4>1 DEF PairingInv, CodesOK
      <4>3. Cardinality({k}) = 1
        BY FS_Singleton, Zenon
      <4> QED
        BY <4>2, <4>3
    <3> QED
      BY <3>1, <3>2, Zenon
  <2>2. keyRecords \in Seq(Nat) /\ DiskOK
    BY Zenon DEF PairingInv, PairingShape
  <2>3. DOMAIN keyRecords = 1..Len(keyRecords)
    BY <2>2, LenProperties, Zenon
  <2> QED
    BY <2>1, <2>2, <2>3, Zenon DEF PairedOnceAndForAll, DiskOK
<1> QED
  BY <1>1, PairingStart, PairingStep, PTL

-----------------------------------------------------------------------------
(* The helper's registrations of Execs (serve_stream, ops.rs exec and        *)
(* cancel): a cancellation sender is kept only for an Exec that the helper   *)
(* has not answered.                                                         *)


\* The helper's tables, as far as the registrations depend on them.
ServedType ==
  /\ kind \in [Callers -> {"exec", "other"}]
  /\ task \in [Requests -> {"none", "spawned", "running", "ended", "killed"}]
  /\ execs \subseteq Callers
  /\ signalled \subseteq Callers

\* A cancellation sender, used or not, is one of an Exec whose task has not
\* answered yet: unregister_exec leaves none behind.
RegistrationsLive ==
  \A c \in execs \cup signalled : kind[c] = "exec" /\ task[Tool(c)] # "none"

\* What a request that is running or over has of its Exec: only an Exec has a
\* process.
OnlyExecsRun ==
  \A c \in Callers : task[Tool(c)] \in {"running", "ended", "killed"} => kind[c] = "exec"

ServedInv == ServedType /\ OnlyExecsRun /\ RegistrationsLive /\ RunningCancellable

(***************************************************************************)
(* The names of the requests differ: those of two tool calls, and that of  *)
(* a tool call from a Cancel and from the Shutdown (the ids of request).   *)
(***************************************************************************)
LEMMA RequestsDiffer ==
  ASSUME NEW c \in Callers
  PROVE  /\ Tool(c) \in Requests
         /\ Len(Tool(c)) = 1 /\ Tool(c)[1] = c
         /\ \A d \in Callers : Tool(c) = Tool(d) => c = d
         /\ \A d, e \in Callers : Tool(c) # Cancel(d, e)
         /\ Tool(c) # Stop
BY DEF Tool, Cancel, Stop, Requests

\* The name of a Cancel is a request with two parts.
LEMMA CancelIsRequest ==
  ASSUME NEW c \in Callers, NEW d \in Callers
  PROVE  Cancel(c, d) \in Requests /\ Len(Cancel(c, d)) = 2
<1>1. Cancel(c, d) \in Requests
  BY DEF Requests
<1>2. Len(Cancel(c, d)) = 2
  BY Zenon DEF Cancel
<1> QED
  BY <1>1, <1>2, Zenon

(***************************************************************************)
(* A step that leaves the helper's tables alone leaves what is said of     *)
(* them: the session's side (request, the writer and the reader task) and  *)
(* the callers never touch them.                                           *)
(***************************************************************************)
LEMMA ElsewhereStep ==
  ASSUME ServedInv, UNCHANGED <<kind, served>>
  PROVE  ServedInv'
BY Zenon DEF ServedInv, ServedType, OnlyExecsRun, RegistrationsLive, RunningCancellable, served

(***************************************************************************)
(* What one step of the helper may do to the entry of task c: other        *)
(* entries stay, and c keeps what the invariant says of it.  Every action  *)
(* of the helper's Exec machinery is such a step.                          *)
(***************************************************************************)
EntryStep(c) ==
  /\ kind' = kind
  /\ task' = [task EXCEPT ![Tool(c)] = task'[Tool(c)]]
  /\ task'[Tool(c)] \in {"none", "spawned", "running", "ended", "killed"}
  /\ execs' \subseteq Callers /\ signalled' \subseteq Callers
  /\ \A d \in Callers : d # c => (d \in execs' <=> d \in execs)
  /\ \A d \in Callers : d # c => (d \in signalled' <=> d \in signalled)
  /\ task'[Tool(c)] \in {"running", "ended", "killed"} => kind[c] = "exec"
  /\ c \in execs' \cup signalled' => kind[c] = "exec" /\ task'[Tool(c)] # "none"
  /\ kind[c] = "exec" /\ task'[Tool(c)] \in {"spawned", "running"} => c \in execs' \cup signalled'

\* A step that touches the task and the entries of one call only keeps the invariant.
LEMMA EntryStepKeeps ==
  ASSUME ServedInv, NEW c \in Callers, EntryStep(c)
  PROVE  ServedInv'
<1>1. Tool(c) \in Requests
  BY RequestsDiffer, Zenon
<1>2. ServedType'
  BY <1>1, Zenon DEF EntryStep, ServedInv, ServedType
<1>3. ASSUME NEW d \in Callers, d # c
      PROVE  task'[Tool(d)] = task[Tool(d)]
  BY <1>1, <1>3, RequestsDiffer, Zenon DEF EntryStep, ServedInv, ServedType
<1>4. ASSUME NEW d \in Callers
      PROVE  /\ task'[Tool(d)] \in {"running", "ended", "killed"} => kind'[d] = "exec"
             /\ d \in execs' \cup signalled' => kind'[d] = "exec" /\ task'[Tool(d)] # "none"
             /\ kind'[d] = "exec" /\ task'[Tool(d)] \in {"spawned", "running"}
                   => d \in execs' \cup signalled'
  <2>1. CASE d = c
    BY <2>1, Zenon DEF EntryStep
  <2>2. CASE d # c
    BY <2>2, <1>3, Zenon DEF EntryStep, ServedInv, OnlyExecsRun, RegistrationsLive, RunningCancellable
  <2> QED
    BY <2>1, <2>2, Zenon
<1>5. (OnlyExecsRun /\ RunningCancellable)'
  BY <1>4, Zenon DEF OnlyExecsRun, RunningCancellable
<1>6. RegistrationsLive'
  BY <1>2, <1>4, Zenon DEF RegistrationsLive, ServedType
<1> QED
  BY <1>2, <1>5, <1>6, Zenon DEF ServedInv

(***************************************************************************)
(* The helper's own steps.  serve_stream registers an Exec in the step     *)
(* that spawns its task, a Cancel moves the target's sender from the map   *)
(* to the running Exec, and exec unregisters in the step that answers.     *)
(***************************************************************************)
LEMMA ServeStep ==
  ASSUME ServedInv, channel \in Seq(Requests), Serve
  PROVE  ServedInv'
<1> DEFINE r == Head(channel)
<1>1. r \in Requests
  BY DEF Serve
<1>2. CASE r = Stop
  <2>1. UNCHANGED <<kind, served>>
    BY <1>2, Zenon DEF Serve, served, caller
  <2> QED
    BY <2>1, ElsewhereStep, Zenon
<1>3. CASE \E c \in Callers : r = Tool(c)
  <2>1. PICK c \in Callers : r = Tool(c)
    BY <1>3, Zenon
  <2>2. r # Stop /\ Len(r) = 1 /\ r[1] = c
    BY <2>1, RequestsDiffer, Zenon
  <2>3. /\ task' = [task EXCEPT ![r] = "spawned"]
        /\ execs' = IF kind[c] = "exec" THEN execs \cup {c} ELSE execs
        /\ UNCHANGED <<kind, signalled>>
    BY <2>2, Zenon DEF Serve, IsExec, caller
  <2>4. EntryStep(c)
    BY <1>1, <2>1, <2>3, Zenon DEF EntryStep, ServedInv, ServedType, RegistrationsLive
  <2> QED
    BY <2>4, EntryStepKeeps, Zenon
<1>4. CASE \E c, d \in Callers : r = Cancel(c, d)
  <2>1. PICK c, d \in Callers : r = Cancel(c, d)
    BY <1>4, Zenon
  <2> HIDE DEF r
  <2>2. Len(r) = 2 /\ Len(Stop) = 0
    BY <2>1, CancelIsRequest, Zenon DEF Stop
  <2>a. r # Stop /\ ~IsExec(r)
    BY <2>2 DEF IsExec
  <2>3. task' = [task EXCEPT ![r] = "spawned"] /\ UNCHANGED <<kind, execs, signalled>>
    BY <2>a, Zenon DEF Serve, caller, r
  <2>4. \A e \in Callers : task'[Tool(e)] = task[Tool(e)]
    BY <1>1, <2>1, <2>3, RequestsDiffer, Zenon DEF ServedInv, ServedType
  <2>5. task' \in [Requests -> {"none", "spawned", "running", "ended", "killed"}]
    BY <1>1, <2>3, Zenon DEF ServedInv, ServedType
  <2> QED
    BY <2>3, <2>4, <2>5, Zenon DEF ServedInv, ServedType, OnlyExecsRun, RegistrationsLive,
         RunningCancellable
<1> QED
  BY <1>1, <1>2, <1>3, <1>4 DEF Requests

\* A Cancel moves the registration it names from the running to the signalled ones.
LEMMA RunCancelStep ==
  ASSUME ServedInv, NEW c \in Callers, NEW d \in Callers, RunCancel(c, d)
  PROVE  ServedInv'
<1>1. task' = [task EXCEPT ![Cancel(c, d)] = "none"] /\ UNCHANGED kind
  BY Zenon DEF RunCancel, caller
<1>2. /\ \A e \in Callers : task'[Tool(e)] = task[Tool(e)]
      /\ task' \in [Requests -> {"none", "spawned", "running", "ended", "killed"}]
  BY <1>1, RequestsDiffer, CancelIsRequest DEF ServedInv, ServedType
<1>3. execs' \cup signalled' = execs \cup signalled
  BY Zenon DEF RunCancel
<1>4. execs' \subseteq Callers /\ signalled' \subseteq Callers
  BY Zenon DEF RunCancel, ServedInv, ServedType
<1> QED
  BY <1>1, <1>2, <1>3, <1>4, Zenon DEF ServedInv, ServedType, OnlyExecsRun, RegistrationsLive,
       RunningCancellable

\* The steps of a command's task (spawned, cancelled, exited, answered) keep the invariant.
LEMMA ExecStep ==
  ASSUME ServedInv, NEW c \in Callers, Exec(c) \/ ExecExits(c)
  PROVE  ServedInv'
<1> USE RequestsDiffer DEF EntryStep, ServedInv, ServedType
<1>1. CASE ExecSpawn(c)
  <2>1. EntryStep(c)
    BY <1>1, Zenon DEF ExecSpawn, caller, RunningCancellable, RegistrationsLive
  <2> QED
    BY <2>1, EntryStepKeeps, Zenon
<1>2. CASE ExecCancelled(c)
  <2>1. EntryStep(c)
    BY <1>2, Zenon DEF ExecCancelled, caller, OnlyExecsRun, RunningCancellable
  <2> QED
    BY <2>1, EntryStepKeeps, Zenon
<1>3. CASE ExecResponds(c)
  <2>1. EntryStep(c)
    BY <1>3, Zenon DEF ExecResponds, caller
  <2> QED
    BY <2>1, EntryStepKeeps, Zenon
<1>4. CASE ExecExits(c)
  <2>1. EntryStep(c)
    BY <1>4, Zenon DEF ExecExits, caller, OnlyExecsRun, RunningCancellable
  <2> QED
    BY <2>1, EntryStepKeeps, Zenon
<1> QED
  BY <1>1, <1>2, <1>3, <1>4, Zenon DEF Exec

\* A tool call that runs no command registers nothing.
LEMMA RunOtherStep ==
  ASSUME ServedInv, NEW r \in Requests, RunOther(r)
  PROVE  ServedInv'
<1>1. PICK c \in Callers : r = Tool(c)
  <2>1. Len(r) = 1
    BY Zenon DEF RunOther
  <2>2. Len(Stop) = 0
    BY Zenon DEF Stop
  <2>3. \A c, d \in Callers : Len(Cancel(c, d)) = 2
    BY CancelIsRequest, Zenon
  <2> QED
    BY <2>1, <2>2, <2>3 DEF Requests
<1>2. kind[c] # "exec"
  BY <1>1, RequestsDiffer, Zenon DEF RunOther, IsExec
<1>3. EntryStep(c)
  BY <1>1, <1>2, RequestsDiffer, Zenon DEF RunOther, EntryStep, caller, ServedInv, ServedType,
       RegistrationsLive
<1> QED
  BY <1>3, EntryStepKeeps, Zenon

\* The end of the helper, with every task of it, keeps the invariant.
LEMMA HelperGoneStep ==
  ASSUME ServedInv, HelperGone
  PROVE  ServedInv'
BY RequestsDiffer, Zenon DEF HelperGone, caller, ServedInv, ServedType, OnlyExecsRun, RegistrationsLive,
     RunningCancellable

-----------------------------------------------------------------------------
(***************************************************************************)
(* The channel holds requests only; a step appends one, takes the first    *)
(* off, or empties it.                                                     *)
(***************************************************************************)
LEMMA ChannelStep ==
  ASSUME channel \in Seq(Requests), [Next]_vars
  PROVE  channel' \in Seq(Requests)
<1> USE DEF session, requestVars
<1>1. ASSUME NEW r \in Requests, Call(r)
      PROVE  channel' \in Seq(Requests)
  BY <1>1 DEF Call, Send, Push, SendFails, Return
<1>2. ASSUME NEW c \in Callers, Interrupting(c) \/ Exec(c) \/ RunTool(c) \/ Interrupt(c)
                                  \/ Abort(c) \/ ExecExits(c)
      PROVE  UNCHANGED channel
  BY <1>2, Zenon DEF Interrupting, Register, CancelNext, Resume, Exec, ExecSpawn, ExecCancelled,
       ExecResponds, RunTool, Interrupt, Abort, ExecExits
<1>3. CASE Session
  <2>1. channel' = <<>> \/ channel' = channel
    BY <1>3, Zenon DEF Session, WriterEnds, ReaderReceives, ReaderEnds
  <2>2. <<>> \in Seq(Requests)
    OBVIOUS
  <2> QED
    BY <2>1, <2>2, Zenon
<1>4. CASE HelperStep
  <2>1. CASE Serve
    BY <2>1 DEF Serve
  <2>2. ASSUME HelperExits \/ \E r \in Requests : RunOther(r)
        PROVE  UNCHANGED channel
    BY <2>2, Zenon DEF HelperExits, HelperGone, RunOther
  <2>3. ASSUME NEW c \in Callers, NEW d \in Callers, RunCancel(c, d)
        PROVE  UNCHANGED channel
    BY <2>3, Zenon DEF RunCancel
  <2> QED
    BY <1>4, <2>1, <2>2, <2>3, Zenon DEF HelperStep
<1>5. CASE Shutdown \/ ShutdownTimesOut \/ KillHelper \/ HelperDies \/ Over \/ UNCHANGED vars
  BY <1>5, Zenon DEF Shutdown, ShutdownTimesOut, KillHelper, HelperDies, HelperGone, Over, vars
<1> QED
  BY <1>1, <1>2, <1>3, <1>4, <1>5, Zenon DEF Next, Runtime

(***************************************************************************)
(* Every step keeps the invariant of the helper's tables.                  *)
(***************************************************************************)
LEMMA ServedStep ==
  ASSUME ServedInv, channel \in Seq(Requests), [Next]_vars
  PROVE  ServedInv'
<1>1. ASSUME NEW r \in Requests, Call(r)
      PROVE  UNCHANGED <<kind, served>>
  BY <1>1, Zenon DEF Call, Send, Push, SendFails, Return, caller
<1>2. ASSUME NEW c \in Callers, Interrupting(c) \/ RunTool(c) \/ Interrupt(c) \/ Abort(c)
      PROVE  UNCHANGED <<kind, served>>
  BY <1>2, Zenon DEF Interrupting, Register, CancelNext, Resume, RunTool, Interrupt, Abort, caller
<1>3. ASSUME Session \/ Shutdown \/ ShutdownTimesOut \/ Over \/ UNCHANGED vars
      PROVE  UNCHANGED <<kind, served>>
  BY <1>3, Zenon
  DEF Session, WriterEnds, ReaderReceives, ReaderEnds, Shutdown, ShutdownTimesOut, Over,
       vars, caller
<1>4. CASE HelperExits \/ KillHelper \/ HelperDies
  BY <1>4, HelperGoneStep, Zenon DEF HelperExits, KillHelper, HelperDies
<1>5. CASE Serve
  BY <1>5, ServeStep, Zenon
<1>6. CASE \E r \in Requests : RunOther(r)
  BY <1>6, RunOtherStep, Zenon
<1>7. CASE \E c, d \in Callers : RunCancel(c, d)
  BY <1>7, RunCancelStep, Zenon
<1>8. CASE \E c \in Callers : Exec(c) \/ ExecExits(c)
  BY <1>8, ExecStep, Zenon
<1> QED
  BY <1>1, <1>2, <1>3, <1>4, <1>5, <1>6, <1>7, <1>8, ElsewhereStep, Zenon DEF Next, Runtime, HelperStep

(***************************************************************************)
(* The helper's tables agree in every state: a cancellation sender is      *)
(* there for every Exec that may run, and only for one that has not        *)
(* answered.  Code: serve_stream_with_config, ops.rs exec, cancel and      *)
(* unregister_exec.                                                        *)
(***************************************************************************)
THEOREM RegistrationsExact == Spec => [](RunningCancellable /\ RegistrationsLive)
<1> DEFINE Inv == ServedInv /\ channel \in Seq(Requests)
<1>1. Init => Inv
  BY RequestsDiffer DEF Init, ServedInv, ServedType, OnlyExecsRun, RegistrationsLive,
       RunningCancellable
<1>2. Inv /\ [Next]_vars => Inv'
  BY ServedStep, ChannelStep, Zenon
<1>3. Inv => RunningCancellable /\ RegistrationsLive
  BY Zenon DEF ServedInv
<1> QED
  BY <1>1, <1>2, <1>3, PTL DEF Spec

=============================================================================
