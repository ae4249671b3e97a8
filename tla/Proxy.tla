------------------------------- MODULE Proxy -------------------------------
(***************************************************************************)
(* The egress proxy (silo-proxy): connections from the sandbox, the        *)
(* allowlist and the address guard, TLS termination with cached leaf       *)
(* certificates, inner requests forwarded upstream, the DNS filter, and    *)
(* the network records all of them leave in the journal.                   *)
(*                                                                         *)
(* Hosts, addresses and certificates are model values.  Permitted is the   *)
(* set of addresses IpGuard lets through (NetPolicy models the guard).     *)
(* Name resolution may answer differently every time it is asked.          *)
(***************************************************************************)
EXTENDS Naturals, FiniteSets

CONSTANTS
    Conns,        \* connections accepted from the sandbox
    Hosts,        \* host names the sandbox asks for
    Allowed,      \* the hosts the allowlist allows
    Addresses,    \* IP addresses; a host that is one of them is an IP literal
    Permitted,    \* the addresses the guard permits
    MaxRequests   \* inner requests per connection

ASSUME ProxyAssumption ==
    /\ Allowed \subseteq Hosts
    /\ Permitted \subseteq Addresses
    /\ MaxRequests \in Nat

VARIABLES
    listening,  \* whether the accept loop and the DNS task run
    conn,       \* the state of each connection task
    leaves,     \* the leaf certificate cache: [host -> set of at most one leaf]
    minted,     \* leaf certificates minted so far
    reached,    \* addresses the proxy has connected to or answered with
    begun,      \* blocked attempts and inner requests per connection
    records,    \* network records per connection
    delivered,  \* <<host asked for, host contacted>> of forwarded requests
    dnsLog      \* kinds of network records the DNS filter has left

connVars == <<leaves, minted, reached, begun, records, delivered>>
proxyVars == <<listening, conn, dnsLog, connVars>>

NoHost == "none"
NewConn == [phase |-> "new", host |-> NoHost, secure |-> FALSE, sni |-> NoHost, leaf |-> 0,
         target |-> NoHost, candidates |-> {}, abandoned |-> FALSE]

ProxyInit ==
    /\ listening = TRUE
    /\ conn = [c \in Conns |-> NewConn]
    /\ leaves = [h \in Hosts |-> {}]
    /\ minted = 0
    /\ reached = {}
    /\ begun = [c \in Conns |-> 0]
    /\ records = [c \in Conns |-> 0]
    /\ delivered = {}
    /\ dnsLog = {}

Plus(counts, c) == [counts EXCEPT ![c] = @ + 1]
Become(c, phase) == conn' = [conn EXCEPT ![c].phase = phase]

----------------------------------------------------------------------------
(* Accepting a connection. *)

\* host_policy: the allowlist, and the guard for IP literals.
HostPolicy(h) ==
    /\ h \in Allowed
    /\ h \in Addresses => h \in Permitted

\* A refused host: one record (journal_block), 403, and the end.
Refuse(c) ==
    /\ Become(c, "closed")
    /\ begun' = Plus(begun, c) /\ records' = Plus(records, c)

\* serve_connect: the policy, then the TLS handshake with the sandbox.
AcceptConnect(c) ==
    /\ listening /\ conn[c].phase = "new"
    /\ \E h \in Hosts :
          \/ ~HostPolicy(h) /\ Refuse(c)
          \/ /\ HostPolicy(h)
             /\ conn' = [conn EXCEPT ![c].phase = "handshake", ![c].host = h,
                                     ![c].secure = TRUE]
             /\ UNCHANGED <<begun, records>>
    /\ UNCHANGED <<listening, dnsLog, leaves, minted, reached, delivered>>

\* serve_plain on an absolute-form request, which it replays to the HTTP server.
AcceptPlain(c) ==
    /\ listening /\ conn[c].phase = "new"
    /\ \E h \in Hosts :
          \/ ~HostPolicy(h) /\ Refuse(c)
          \/ /\ HostPolicy(h)
             /\ conn' = [conn EXCEPT ![c].phase = "first", ![c].host = h]
             /\ UNCHANGED <<begun, records>>
    /\ UNCHANGED <<listening, dnsLog, leaves, minted, reached, delivered>>

\* A head that does not parse, or a plain request that is not absolute-form.
AcceptBad(c) ==
    /\ listening /\ conn[c].phase = "new"
    /\ Become(c, "closed")
    /\ UNCHANGED <<listening, dnsLog, leaves, minted, reached, begun, records, delivered>>

----------------------------------------------------------------------------
(* The TLS handshake with the sandbox: SessionCa::leaf_for looks the cache  *)
(* up, mints without the lock, and takes the lock again to insert.          *)

LookupLeaf(c) ==
    /\ conn[c].phase = "handshake"
    /\ \E s \in Hosts :
          conn' = [conn EXCEPT ![c].sni = s,
                   ![c].phase = IF leaves[s] = {} THEN "minting" ELSE "serving",
                   ![c].leaf = IF leaves[s] = {} THEN 0 ELSE CHOOSE l \in leaves[s] : TRUE]
    /\ UNCHANGED <<listening, dnsLog, leaves, minted, reached, begun, records, delivered>>

\* cache.entry(key).or_insert(certified)
Entry(s, leaf) == IF leaves[s] = {} THEN leaf ELSE CHOOSE l \in leaves[s] : TRUE

InsertLeaf(c) ==
    LET s == conn[c].sni
        leaf == Entry(s, minted + 1)
    IN
    /\ conn[c].phase = "minting"
    /\ minted' = minted + 1
    /\ leaves' = [leaves EXCEPT ![s] = {leaf}]
    /\ conn' = [conn EXCEPT ![c].phase = "serving", ![c].leaf = leaf]
    /\ UNCHANGED <<listening, dnsLog, reached, begun, records, delivered>>

\* No server name, no leaf for it, or the sandbox rejects the certificate.
HandshakeFails(c) ==
    /\ conn[c].phase \in {"handshake", "minting"}
    /\ Become(c, "closed")
    /\ begun' = Plus(begun, c) /\ records' = Plus(records, c)
    /\ UNCHANGED <<listening, dnsLog, leaves, minted, reached, delivered>>

----------------------------------------------------------------------------
(* Inner requests, one at a time per connection. *)

\* handle_inner on an upgrade request.
RecordUpgrade(c) == Plus(records, c)

\* The request names the host of the connection, or (on a plain connection
\* that is kept alive) the absolute URI of another one.  handle_inner goes by
\* the host of the connection.
InnerRequest(c) ==
    /\ conn[c].phase \in {"first", "serving"} /\ begun[c] < MaxRequests
    /\ begun' = Plus(begun, c)
    /\ \/ /\ records' = RecordUpgrade(c)
          /\ Become(c, "serving")
       \/ /\ \E t \in IF conn[c].phase = "first" \/ conn[c].secure
                      THEN {conn[c].host} ELSE Hosts :
                conn' = [conn EXCEPT ![c].phase = "resolving", ![c].target = t]
          /\ UNCHANGED records
    /\ UNCHANGED <<listening, dnsLog, leaves, minted, reached, delivered>>

\* An error of forward_request: one record, and 502 to the sandbox.
Fail(c) ==
    /\ conn' = [conn EXCEPT ![c].phase = "serving", ![c].candidates = {}]
    /\ records' = Plus(records, c)

\* What a name resolves to right now; an IP literal resolves to itself.
Answers(h) ==
    IF h \in Addresses THEN {{h}} ELSE SUBSET Addresses

\* UpstreamConnector::resolve and the guard over every candidate: one blocked
\* address rejects the whole connection.
Resolve(c) ==
    /\ conn[c].phase = "resolving"
    /\ \E found \in Answers(conn[c].host) :
          \/ /\ found = {} \/ ~(found \subseteq Permitted)
             /\ Fail(c)
          \/ /\ found # {} /\ found \subseteq Permitted
             /\ conn' = [conn EXCEPT ![c].phase = "connecting", ![c].candidates = found]
             /\ UNCHANGED records
    /\ UNCHANGED <<listening, dnsLog, leaves, minted, reached, begun, delivered>>

\* Mutant: connecting by name asks the resolver again.
DestinationsAgain(c) == UNION Answers(conn[c].host)

\* The addresses connect_tcp tries: the ones it checked.
Destinations(c) == conn[c].candidates

Connect(c) ==
    /\ conn[c].phase = "connecting"
    /\ \/ \E a \in Destinations(c) :
             /\ reached' = reached \cup {a}
             /\ Become(c, IF conn[c].secure THEN "securing" ELSE "exchanging")
             /\ UNCHANGED records
       \/ Fail(c) /\ UNCHANGED reached
    /\ UNCHANGED <<listening, dnsLog, leaves, minted, begun, delivered>>

\* connect_tls: the upstream's certificate must verify for the host.
ConnectTls(c) ==
    /\ conn[c].phase = "securing"
    /\ \/ Become(c, "exchanging") /\ UNCHANGED records
       \/ Fail(c)
    /\ UNCHANGED <<listening, dnsLog, leaves, minted, reached, begun, delivered>>

\* forward_request from send_over on: the exchange with the upstream.
Exchange(c) ==
    /\ conn[c].phase = "exchanging"
    /\ \/ /\ conn' = [conn EXCEPT ![c].phase = "serving", ![c].candidates = {}]
          /\ records' = Plus(records, c)
          /\ delivered' = delivered \cup {<<conn[c].target, conn[c].host>>}
       \/ Fail(c) /\ UNCHANGED delivered
    /\ UNCHANGED <<listening, dnsLog, leaves, minted, reached, begun>>

InFlight == {"resolving", "connecting", "securing", "exchanging"}

\* The sandbox closes the connection.  The HTTP server then drops a request it
\* is still serving, with the record that request would have left.
Close(c) ==
    /\ conn[c].phase \in InFlight \cup {"first", "serving"}
    /\ conn' = [conn EXCEPT ![c].phase = "closed", ![c].candidates = {},
                            ![c].abandoned = conn[c].phase \in InFlight]
    /\ UNCHANGED <<listening, dnsLog, leaves, minted, reached, begun, records, delivered>>

----------------------------------------------------------------------------
(* The DNS filter and shutdown. *)

\* DnsFilter::handle_query.  A name outside the allowlist is refused; an A or
\* AAAA query for an allowed one is answered without the blocked addresses; a
\* query of another type gets an empty answer and leaves no record.
HandleQuery ==
    /\ listening
    /\ \E h \in Hosts :
          \/ /\ h \notin Allowed
             /\ dnsLog' = dnsLog \cup {"refused"}
             /\ UNCHANGED reached
          \/ /\ h \in Allowed
             /\ \E found \in SUBSET Addresses :
                   reached' = reached \cup {a \in found : a \in Permitted}
             /\ dnsLog' = dnsLog \cup {"answered"}
    /\ UNCHANGED <<listening, conn, leaves, minted, begun, records, delivered>>

\* HttpProxy::shutdown aborts the accept loop and the DNS task; connection
\* tasks run on.
ProxyShutdown ==
    /\ listening
    /\ listening' = FALSE
    /\ UNCHANGED <<conn, dnsLog, connVars>>

ProxyNext ==
    \/ \E c \in Conns :
          \/ AcceptConnect(c) \/ AcceptPlain(c) \/ AcceptBad(c)
          \/ LookupLeaf(c) \/ InsertLeaf(c) \/ HandshakeFails(c)
          \/ InnerRequest(c) \/ Resolve(c) \/ Connect(c) \/ ConnectTls(c)
          \/ Exchange(c) \/ Close(c)
    \/ HandleQuery \/ ProxyShutdown

----------------------------------------------------------------------------
(* Properties. *)

\* Whatever names resolve to, and however the answers change between the
\* admission of a connection, the check of a request's candidates and the
\* connection attempt, the proxy connects only to addresses the guard permits
\* and answers DNS queries only with such addresses (upstream.rs:109); and
\* "every inner request and every blocked attempt produces one NetworkRecord"
\* (proxy.rs:14), once it is over.  Condition of the latter: the sandbox did
\* not close the connection under a request being served.
EgressGuarded ==
    /\ reached \subseteq Permitted
    /\ \A c \in Conns :
          (conn[c].phase \in {"first", "serving", "closed"} /\ ~conn[c].abandoned)
          => records[c] = begun[c]

\* "Absolute-form plain HTTP (`GET http://host/path`): the proxy applies the
\* same policy and forwards the request upstream" (proxy.rs:11): to the host
\* the request names.
RequestsReachTheirHost == \A pair \in delivered : pair[1] = pair[2]
=============================================================================
