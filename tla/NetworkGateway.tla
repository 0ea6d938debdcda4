----------------------------- MODULE NetworkGateway -----------------------------
(* The two ways a sandboxed guest reaches the network: the CONNECT proxy with *)
(* its allow-list, behind the bridge that carries the guest's connections out *)
(* of its namespace, and the credentialed endpoint that forwards one HTTP     *)
(* request at a time to a provider and adds the secret.                       *)
EXTENDS Integers, Sequences, FiniteSets, SequencesExt

CONSTANTS
    Gateways,     \* the gateways to try, with what their guest asks for
    Clients,      \* connections of the guest
    MaxRelays,    \* maximum_concurrent_relays
    MaxInterim,   \* max_interim_responses
    MaxBytes,     \* bound: units each side of a tunnel sends; a peer's buffer
                  \* holds one
    MaxRefusals   \* bound: events the audit callback refuses

\* A host is a sequence of labels, in a rule and in a CONNECT; 0 is no client.
ASSUME GatewayAssumption ==
    /\ 0 \notin Clients
    /\ \A g \in Gateways : g.kind = "proxy" =>
         /\ g.rules \in Seq([host : Seq(STRING), suffix : BOOLEAN, port : Nat, private : BOOLEAN])
         /\ \A r \in g.requests \cup {g.other} : r.host.labels \in Seq(STRING)

VARIABLES
    gateway,      \* the options, fixed at the start
    gphase,       \* "up", "stopping" once the destructor began, "gone"
    client,       \* the connections, each with its thread's state
    endpointClient,  \* the client the endpoint's only thread serves, 0 if none
    relays,       \* bridge relays with a slot; finished ones are reaped later
    trail,        \* the events the callback recorded
    refusals

netVars == <<gateway, gphase, client, endpointClient, relays, trail, refusals>>

--------------------------------------------------------------------------------
(* The allow-list. A host is a sequence of labels with the way it is spelled. *)

NoHost == <<>>
\* Letter case and trailing dots are removed, a malformed host is refused.
normalise_host(h) == IF h.spelling = "malformed" THEN NoHost ELSE h.labels

\* A rule that starts with a dot names a domain and everything below it.
host_matches(rule, host) == IF rule.suffix THEN IsSuffix(rule.host, host) ELSE host = rule.host

\* The first rule that names the host and the port; 0 if there is none.
matching_rule(host, port) ==
    SelectInSeq(gateway.rules, LAMBDA r : r.port = port /\ host_matches(r, host))

\* Unknown families and every range that is not globally routable.
private_address(a) == a \notin {"public4", "public6", "mapped_public"}

\* The rules the proxy starts with: ports, and no rule twice.
rules_valid(g) ==
    /\ \A i \in DOMAIN g.rules : g.rules[i].host # NoHost /\ g.rules[i].port # 0
    /\ \A i, j \in DOMAIN g.rules :
         /\ g.rules[i].host = g.rules[j].host /\ g.rules[i].suffix = g.rules[j].suffix
         /\ g.rules[i].port = g.rules[j].port
         => i = j

--------------------------------------------------------------------------------
(* The endpoint's decision and the provider's answer. *)

\* parse_http_head and is_valid_request_target.
head_valid(r) == r.head = "valid" /\ r.credentials <= 1

\* Prefix, method, nonce, path and expectation, in this order.
decide(r) ==
    CASE r.prefix # gateway.prefix -> "unknown_endpoint_prefix"
      [] r.method \notin gateway.methods -> "method_not_allowed"
      [] r.credentials = 0 \/ r.nonce # gateway.nonce -> "invalid_session_nonce"
      [] gateway.paths # {} /\ r.path \notin gateway.paths -> "path_not_allowed"
      [] r.expect \notin {"", "100-continue"} -> "unsupported_expectation"
      [] OTHER -> "allowed"

\* Mutant: a body with no framing is taken to end where the connection does.
framed_byClose(a, method) == method = "HEAD" \/ a.status \in {204, 304} \/ a.te = "chunked" \/ a.te = "none"
\* decide_framing: exactly one of a length and plain chunked coding, unless the
\* answer has no body.
framed(a, method) ==
    \/ method = "HEAD" \/ a.status \in {204, 304}
    \/ a.te = "chunked" /\ ~a.length
    \/ a.te = "none" /\ a.length

\* What the guest may not pass on, and what the serializer writes itself.
request_header_denylist == {"host", "connection", "authorization", "x-api-key", "expect"}
serializer_owned_fields == {"host", "authorization", "x-api-key", "expect"}

no_body(a, method) == method = "HEAD" \/ a.status \in {204, 304}

\* parse_response_head: a status line and fields within bounds.
parse_response_head(a) == a.fields # "malformed"

\* A length or the chunks up to the last one arrived before the peer closed.
body_arrived(a) == (a.te = "chunked" \/ a.length) => a.whole

\* read_response: interim heads are skipped up to the bound, an upgrade is
\* refused, and a framed body must arrive whole before the peer closes.
read_response(a, method) ==
    /\ parse_response_head(a) /\ a.interim <= MaxInterim /\ ~a.upgrade /\ a.status \in 200..599
    /\ framed(a, method)
    /\ no_body(a, method) \/ body_arrived(a)

--------------------------------------------------------------------------------
(* State. *)

NewClient(r) ==
    [pc |-> "none", req |-> r, addr |-> "", gin |-> 0, gfin |-> FALSE, uin |-> 0, ufin |-> FALSE,
     gout |-> 0, uout |-> 0, usent |-> 0, hand |-> "", late |-> FALSE, sentBody |-> 0,
     cert |-> "",
     code |-> 0, answer |-> <<>>, guestReads |-> TRUE, upReads |-> TRUE]

NetInit ==
    /\ gateway \in { g \in Gateways : rules_valid(g) }
    /\ gphase = IF gateway.kind = "off" THEN "gone" ELSE "up"
    /\ endpointClient = 0 /\ relays = {} /\ trail = {} /\ refusals = 0
    /\ \E r \in gateway.requests :
         client = [c \in Clients |-> NewClient(IF c = 1 THEN r ELSE gateway.other)]

Is(c, pc) == client[c].pc = pc
Set(c, upd) == client' = [client EXCEPT ![c] = upd]
stopping == gphase # "up"

\* The audit callback records the event or refuses it.
emit(c, event, ok) ==
    \/ ok /\ trail' = trail \cup {<<c, event>>} /\ UNCHANGED refusals
    \/ ~ok /\ refusals < MaxRefusals /\ refusals' = refusals + 1 /\ UNCHANGED trail

--------------------------------------------------------------------------------
(* The bridge and the proxy's connection threads. *)

\* The guest connects; sandbox_forwarder passes the descriptor, or the
\* connection queues at the endpoint's listener.
Open(c) ==
    /\ Is(c, "none") /\ gphase = "up" /\ gateway.kind # "off"
    /\ Set(c, [client[c] EXCEPT !.pc = IF gateway.kind = "proxy" THEN "passed" ELSE "queued"])
    /\ UNCHANGED <<gateway, gphase, endpointClient, relays, trail, refusals>>

Closed(c) == client[c].pc = "closed"

\* reap_workers: slots of relays that ended are given back.
reap_workers == { c \in relays : ~Closed(c) }

\* receive_loop: past the limit the connection is closed, else a relay to the
\* proxy takes a slot and the proxy's accept_loop starts a thread.
Bridge(c) ==
    /\ Is(c, "passed") /\ gphase = "up"
    /\ LET full == Cardinality(reap_workers) >= MaxRelays IN
       /\ relays' = IF full THEN reap_workers ELSE reap_workers \cup {c}
       /\ Set(c, [client[c] EXCEPT !.pc = IF full THEN "closed" ELSE "read"])
    /\ UNCHANGED <<gateway, gphase, endpointClient, trail, refusals>>

\* read_request and parse_connect: no reply to what is not a CONNECT. A guest
\* that sends nothing is only left when the proxy stops.
ReadRequest(c) ==
    /\ Is(c, "read")
    /\ \/ /\ client[c].req.sends
          /\ Set(c, [client[c] EXCEPT !.pc =
                       IF client[c].req.verb = "CONNECT" /\ client[c].req.port # 0
                          /\ normalise_host(client[c].req.host) # NoHost
                       THEN "authorise" ELSE "closed"])
       \/ stopping /\ Set(c, [client[c] EXCEPT !.pc = "closed"])
    /\ UNCHANGED <<gateway, gphase, endpointClient, relays, trail, refusals>>

\* deny: the event is best effort, then a reply and the close.
Deny(c, event) ==
    /\ \E ok \in BOOLEAN : emit(c, event, ok)
    /\ Set(c, [client[c] EXCEPT !.pc = "closed"])

entitled(r) == r.auth = "good" /\ matching_rule(normalise_host(r.host), r.port) # 0

\* authenticated, matching_rule and dial: resolution gives one address, which
\* is skipped when it is private and the rule does not allow that.
Authorise(c) ==
    /\ Is(c, "authorise")
    /\ LET r == client[c].req IN
       IF ~entitled(r) THEN Deny(c, "denied")
       ELSE \E a \in gateway.addresses \cup {"none"} :
              LET k == matching_rule(normalise_host(r.host), r.port) IN
              IF a = "none" \/ (private_address(a) /\ ~gateway.rules[k].private)
              THEN Deny(c, "denied")
              ELSE /\ Set(c, [client[c] EXCEPT !.pc = "audit", !.addr = a])
                   /\ UNCHANGED <<trail, refusals>>
    /\ UNCHANGED <<gateway, gphase, endpointClient, relays>>

\* The connection that was made is only used once the event is recorded.
AuditTunnel(c) ==
    /\ Is(c, "audit") /\ gateway.kind = "proxy"
    /\ \E ok \in BOOLEAN :
         /\ emit(c, "allowed", ok)
         /\ Set(c, [client[c] EXCEPT !.pc = IF ok THEN "relay" ELSE "closed"])
    /\ UNCHANGED <<gateway, gphase, endpointClient, relays>>

\* Both sockets are closed, with what is still in them.
Torn(k) == [k EXCEPT !.pc = "closed", !.gin = 0, !.uin = 0, !.uout = 0, !.gfin = FALSE,
                     !.ufin = FALSE, !.guestReads = TRUE, !.upReads = TRUE]

\* relay: one read, then a blocking write of the whole chunk. The end of either
\* side, and the stop, are seen between chunks and end both directions.
RelayRead(c) ==
    /\ Is(c, "relay") /\ client[c].hand = "" /\ ~stopping
    /\ \/ client[c].gin > 0 /\ Set(c, [client[c] EXCEPT !.gin = @ - 1, !.hand = "up"])
       \/ client[c].uin > 0 /\ Set(c, [client[c] EXCEPT !.uin = @ - 1, !.hand = "down"])
       \/ client[c].gin = 0 /\ client[c].gfin /\ Set(c, Torn(client[c]))
       \/ client[c].uin = 0 /\ client[c].ufin /\ Set(c, Torn(client[c]))
    /\ UNCHANGED <<gateway, gphase, endpointClient, relays, trail, refusals>>

RelayWrite(c) ==
    /\ Is(c, "relay")
    /\ \/ /\ client[c].hand = "up" /\ client[c].uout = 0
          /\ Set(c, [client[c] EXCEPT !.hand = "", !.uout = 1, !.usent = @ + 1])
       \/ /\ client[c].hand = "down" /\ client[c].gout = 0
          /\ Set(c, [client[c] EXCEPT !.hand = "", !.gout = 1])
    /\ UNCHANGED <<gateway, gphase, endpointClient, relays, trail, refusals>>

\* write_all fails when the end it writes to is gone; one that only finished
\* writing may go on reading, so no such failure is owed.
RelayBreaks(c) ==
    /\ Is(c, "relay")
    /\ \/ client[c].hand = "up" /\ client[c].ufin
       \/ client[c].hand = "down" /\ client[c].gfin
    /\ Set(c, Torn(client[c]))
    /\ UNCHANGED <<gateway, gphase, endpointClient, relays, trail, refusals>>

RelayStop(c) ==
    /\ Is(c, "relay") /\ client[c].hand = "" /\ stopping
    /\ Set(c, Torn(client[c]))
    /\ UNCHANGED <<gateway, gphase, endpointClient, relays, trail, refusals>>

\* The two ends of the tunnel: they write, finish, read, and may stop reading.
Peer(c) ==
    /\ Is(c, "relay")
    /\ LET k == client[c] IN
       \/ ~k.gfin /\ k.gin + k.usent < MaxBytes /\ Set(c, [k EXCEPT !.gin = @ + 1])
       \/ ~k.gfin /\ Set(c, [k EXCEPT !.gfin = TRUE])
       \/ ~k.ufin /\ k.uin = 0 /\ k.gout = 0 /\ Set(c, [k EXCEPT !.uin = 1])
       \/ ~k.ufin /\ Set(c, [k EXCEPT !.ufin = TRUE])
       \/ k.guestReads /\ Set(c, [k EXCEPT !.guestReads = FALSE])
       \/ k.upReads /\ Set(c, [k EXCEPT !.upReads = FALSE])
    /\ UNCHANGED <<gateway, gphase, endpointClient, relays, trail, refusals>>

PeerReads(c) ==
    /\ Is(c, "relay")
    /\ LET k == client[c] IN
       \/ k.guestReads /\ k.gout = 1 /\ Set(c, [k EXCEPT !.gout = 0])
       \/ k.upReads /\ k.uout = 1 /\ Set(c, [k EXCEPT !.uout = 0])
    /\ UNCHANGED <<gateway, gphase, endpointClient, relays, trail, refusals>>

--------------------------------------------------------------------------------
(* The credentialed endpoint: one thread, one connection at a time. *)

AcceptClient(c) ==
    /\ Is(c, "queued") /\ endpointClient = 0 /\ gphase = "up"
    /\ endpointClient' = c /\ Set(c, [client[c] EXCEPT !.pc = "head"])
    /\ UNCHANGED <<gateway, gphase, relays, trail, refusals>>

\* write_status and close: the write waits for the guest or its deadline, and
\* the thread is free again.
Reply(c, code) == /\ endpointClient' = 0
                  /\ Set(c, [client[c] EXCEPT !.pc = "closed", !.code = code])

\* The deadline of the step the thread is in.
ExpireStep(c) ==
    /\ endpointClient = c /\ ~client[c].late
    /\ client[c].pc \in {"head", "body", "dial", "write", "answer"}
    /\ Set(c, [client[c] EXCEPT !.late = TRUE])
    /\ UNCHANGED <<gateway, gphase, endpointClient, relays, trail, refusals>>

cut(c) == stopping \/ client[c].late

\* The head, and the refusals that follow from it. A refusal is audited before
\* its reply, the expectation's is not; a refused event gives 503.
ReadHead(c) ==
    /\ endpointClient = c /\ Is(c, "head")
    /\ LET r == client[c].req IN
       \/ /\ cut(c) \/ (r.sends /\ ~head_valid(r))
          /\ Reply(c, 400) /\ UNCHANGED <<trail, refusals>>
       \/ /\ ~cut(c) /\ r.sends /\ head_valid(r)
          /\ CASE decide(r) = "unsupported_expectation" ->
                    Reply(c, 417) /\ UNCHANGED <<trail, refusals>>
               [] decide(r) = "allowed" ->
                    /\ Set(c, [client[c] EXCEPT !.pc = "audit"])
                    /\ UNCHANGED <<endpointClient, trail, refusals>>
               [] OTHER -> \E ok \in BOOLEAN :
                    emit(c, decide(r), ok) /\ Reply(c, IF ok THEN 403 ELSE 503)
    /\ UNCHANGED <<gateway, gphase, relays>>

\* The allow decision is recorded before anything goes up.
AuditRequest(c) ==
    /\ endpointClient = c /\ Is(c, "audit")
    /\ \E ok \in BOOLEAN :
         /\ emit(c, "allowed", ok)
         /\ IF ok THEN /\ Set(c, [client[c] EXCEPT !.pc = "body", !.late = FALSE])
                      /\ UNCHANGED endpointClient
            ELSE Reply(c, 503)
    /\ UNCHANGED <<gateway, gphase, relays>>

\* The declared body arrives whole, or the request ends with 400; without a
\* transport it is drained and answered 501.
ReadBody(c) ==
    /\ endpointClient = c /\ Is(c, "body")
    /\ LET r == client[c].req IN
       \/ /\ gateway.forward /\ (client[c].sentBody = r.length)
          /\ Set(c, [client[c] EXCEPT !.pc = "forward", !.late = FALSE]) /\ UNCHANGED endpointClient
       \/ gateway.forward /\ client[c].sentBody < r.length /\ cut(c) /\ Reply(c, 400)
       \/ ~gateway.forward /\ Reply(c, 501)
    /\ UNCHANGED <<gateway, gphase, relays, trail, refusals>>

GuestBody(c) ==
    /\ endpointClient = c /\ Is(c, "body") /\ client[c].sentBody < client[c].req.length
    /\ Set(c, [client[c] EXCEPT !.sentBody = @ + 1])
    /\ UNCHANGED <<gateway, gphase, endpointClient, relays, trail, refusals>>

\* Denied fields and those the Connection field names stay behind.
forwarded_fields(r) == r.fields \ (request_header_denylist \cup r.named)

\* make_tls_forwarder and serialize_request: the allow-list of upstreams and
\* the fields the transport owns are checked before any dial.
ForwardRequest(c) ==
    /\ endpointClient = c /\ Is(c, "forward")
    /\ Set(c, [client[c] EXCEPT !.pc =
                 IF /\ gateway.upstream \in gateway.allowed_upstreams
                    /\ forwarded_fields(client[c].req) \cap serializer_owned_fields = {}
                 THEN "dial" ELSE "failed"])
    /\ UNCHANGED <<gateway, gphase, endpointClient, relays, trail, refusals>>

\* SSL_VERIFY_PEER with the host's name.
verified(cert) == cert = "names host"

\* dial and the handshake, driven until done, cancelled or late.
ConnectTls(c) ==
    /\ endpointClient = c /\ Is(c, "dial")
    /\ \E cert \in {"names host", "other"} :
         Set(c, [client[c] EXCEPT !.pc = IF ~cut(c) /\ verified(cert) THEN "write" ELSE "failed",
                                  !.cert = cert])
    /\ UNCHANGED <<gateway, gphase, endpointClient, relays, trail, refusals>>

\* write_all: the request with its secret, never begun after a stop.
SendRequest(c) ==
    /\ endpointClient = c /\ Is(c, "write")
    /\ Set(c, IF cut(c) THEN [client[c] EXCEPT !.pc = "failed"]
              ELSE [client[c] EXCEPT !.pc = "answer", !.addr = gateway.upstream])
    /\ UNCHANGED <<gateway, gphase, endpointClient, relays, trail, refusals>>

Answer(c) ==
    /\ endpointClient = c /\ Is(c, "answer")
    /\ \/ \E a \in gateway.answers :
            Set(c, [client[c] EXCEPT !.answer = <<a>>,
                      !.pc = IF ~cut(c) /\ read_response(a, client[c].req.method)
                             THEN "respond" ELSE "failed"])
       \/ Set(c, [client[c] EXCEPT !.pc = "failed"])
    /\ UNCHANGED <<gateway, gphase, endpointClient, relays, trail, refusals>>

\* A failed forward is audited before its 502; a good answer is checked again
\* and written with the endpoint's own framing.
RespondToGuest(c) ==
    /\ endpointClient = c
    /\ \/ /\ Is(c, "failed")
          /\ \E ok \in BOOLEAN : emit(c, "upstream_error", ok) /\ Reply(c, IF ok THEN 502 ELSE 503)
       \/ /\ Is(c, "respond") /\ UNCHANGED <<trail, refusals>>
          /\ Reply(c, IF client[c].answer[1].fields = "valid" THEN 200 ELSE 502)
    /\ UNCHANGED <<gateway, gphase, relays>>

--------------------------------------------------------------------------------
(* Stop. *)

\* The destructor: no more connections are taken, queued ones are closed.
Stop ==
    /\ gphase = "up" /\ gphase' = "stopping"
    /\ client' = [c \in Clients |-> IF client[c].pc \in {"passed", "queued", "none"}
                                    THEN [client[c] EXCEPT !.pc = "closed"] ELSE client[c]]
    /\ UNCHANGED <<gateway, endpointClient, relays, trail, refusals>>

JoinThreads ==
    /\ gphase = "stopping" /\ \A c \in Clients : Closed(c)
    /\ gphase' = "gone"
    /\ UNCHANGED <<gateway, client, endpointClient, relays, trail, refusals>>

ThreadStep(c) ==
    \/ Bridge(c) \/ ReadRequest(c) \/ Authorise(c) \/ AuditTunnel(c)
    \/ RelayRead(c) \/ RelayWrite(c) \/ RelayStop(c)
    \/ AcceptClient(c) \/ ReadHead(c) \/ AuditRequest(c) \/ ReadBody(c) \/ ForwardRequest(c)
    \/ ConnectTls(c) \/ SendRequest(c) \/ Answer(c) \/ RespondToGuest(c)

NetNext ==
    \/ Stop \/ JoinThreads
    \/ \E c \in Clients : \/ Open(c) \/ Peer(c) \/ PeerReads(c) \/ GuestBody(c) \/ ExpireStep(c)
                          \/ ThreadStep(c) \/ RelayBreaks(c)

\* Threads run, deadlines pass, a peer that still reads does so, and the owner
\* drops the gateway in the end.
NetFairness ==
    /\ WF_netVars(Stop) /\ WF_netVars(JoinThreads)
    /\ \A c \in Clients : WF_netVars(ThreadStep(c)) /\ WF_netVars(ExpireStep(c))
                          /\ WF_netVars(PeerReads(c))

--------------------------------------------------------------------------------
(* Properties. *)

\* A tunnel is only connected for an authenticated guest to a host and port of
\* the allow-list, to a private address only when a rule that names the host
\* says so, and carries bytes only once its event is recorded; a request (and
\* with it the secret) goes to an allowed and verified provider only after its
\* decision was recorded as allowed, and never with a credential of the guest.
EgressIsEntitled ==
    \A c \in Clients : client[c].addr # "" =>
      LET r == client[c].req IN
      IF gateway.kind = "proxy"
      THEN /\ r.auth = "good"
           /\ \E k \in DOMAIN gateway.rules :
                /\ gateway.rules[k].port = r.port
                /\ LET h == gateway.rules[k].host IN
                   \/ r.host.labels = h
                   \/ /\ gateway.rules[k].suffix /\ Len(h) < Len(r.host.labels)
                      /\ \A i \in 1..Len(h) :
                           h[i] = r.host.labels[Len(r.host.labels) - Len(h) + i]
                /\ private_address(client[c].addr) => gateway.rules[k].private
           /\ client[c].usent > 0 \/ client[c].gout > 0 => <<c, "allowed">> \in trail
      ELSE /\ <<c, "allowed">> \in trail /\ r.nonce = gateway.nonce
           /\ client[c].addr \in gateway.allowed_upstreams /\ client[c].cert = "names host"
           /\ forwarded_fields(r) \cap ({"authorization", "x-api-key"} \cup r.named) = {}

\* A request that reaches the provider has its whole declared body, and an
\* answer the guest sees as complete came whole from the provider: no cut
\* connection, missing framing or interim head turns into a full answer.
ExchangesAreWhole ==
    \A c \in Clients :
      /\ gateway.kind = "endpoint" /\ client[c].addr # "" =>
           client[c].sentBody = client[c].req.length
      /\ client[c].code = 200 =>
           LET a == client[c].answer[1] IN
           (a.whole \/ no_body(a, client[c].req.method)) /\ ~a.upgrade /\ a.fields = "valid"

\* Once its owner drops it, the endpoint always ends: no guest or provider can
\* hold its only thread. The proxy ends unless a peer of a tunnel stopped
\* reading while the relay's blocking write waits for it.
Held(c) == client[c].pc = "relay" /\ \/ client[c].hand = "up" /\ ~client[c].upReads
                                     \/ client[c].hand = "down" /\ ~client[c].guestReads
GatewayStopped ==
    gphase = "gone" \/ \E c \in Clients : gateway.kind = "proxy" /\ Held(c)
GatewayStops == <>GatewayStopped
================================================================================
