---------------------------- MODULE MCGuestGateways ----------------------------
(* A guest's ways out of its session: its local services, the CONNECT proxy   *)
(* and the credentialed endpoint. They share no state, so one at a time is    *)
(* exercised.                                                                 *)
EXTENDS LocalServiceProxy, NetworkGateway

Service(alias) == [alias |-> alias, runtimes |-> {"pi"}, object |-> alias,
                   above |-> {10, 10 + alias}, private |-> TRUE]
Path == [adapter |-> <<>>, audited |-> TRUE, timeout |-> 1000, concurrency |-> 2, root |-> TRUE,
         endpoints |-> <<Service(1)>>, runtime |-> "pi", grants |-> {},
         frames |-> 1, conns |-> 1]
Stream == [Path EXCEPT !.frames = 3, !.endpoints = <<Service(1), Service(2)>>,
                       !.adapter = << [transport |-> "inherited", alias |-> 2, runtimes |-> {"pi"},
                                       channels |-> "admitted"] >>]
Unserved == [Path EXCEPT !.runtime = "codex"]

MCJobs ==
    { Path,
      [Path EXCEPT !.concurrency = 1, !.endpoints = <<Service(1), Service(2)>>],
      Stream, [Stream EXCEPT !.grants = {10}], [Path EXCEPT !.grants = {1}],
      Unserved, [Path EXCEPT !.timeout = 0] }

Rule(labels, suffix, private) == [host |-> labels, suffix |-> suffix, port |-> 443,
                                  private |-> private]
Ask(labels, port, auth) ==
    [sends |-> TRUE, verb |-> "CONNECT", host |-> [labels |-> labels, spelling |-> "plain"],
     port |-> port, auth |-> auth]
Api == <<"api", "example", "com">>
Off == [kind |-> "off", rules |-> <<>>, requests |-> {[sends |-> FALSE]},
        other |-> [sends |-> FALSE]]
Proxy == [kind |-> "proxy", addresses |-> {"public4", "mapped_private"},
          rules |-> << Rule(Api, FALSE, FALSE), Rule(<<"example", "com">>, TRUE, TRUE) >>,
          other |-> [Ask(Api, 443, "good") EXCEPT !.sends = FALSE],
          requests |-> { Ask(Api, 443, "good"), Ask(<<"example", "com">>, 443, "good"),
                         Ask(<<"example", "com", "net">>, 443, "good"), Ask(Api, 80, "good"),
                         Ask(Api, 443, "bad"), [Ask(Api, 443, "good") EXCEPT !.sends = FALSE],
                         [Ask(Api, 443, "good") EXCEPT !.host.spelling = "malformed"] }]

Get == [sends |-> TRUE, head |-> "valid", credentials |-> 1, prefix |-> "/provider",
        method |-> "GET", nonce |-> "n", path |-> "/v1/messages", expect |-> "", length |-> 0,
        fields |-> {"authorization", "connection", "x-hop", "accept"}, named |-> {"x-hop"}]
Whole == [interim |-> 0, upgrade |-> FALSE, status |-> 200, te |-> "none", length |-> TRUE,
          whole |-> TRUE, fields |-> "valid"]
Endpoint ==
    [kind |-> "endpoint", rules |-> <<>>, prefix |-> "/provider", methods |-> {"GET", "POST"},
     nonce |-> "n", paths |-> {"/v1/messages"}, forward |-> TRUE, upstream |-> "provider:443",
     allowed_upstreams |-> {"provider:443"},
     other |-> [Get EXCEPT !.nonce = "old"],
     requests |-> { Get, [Get EXCEPT !.method = "POST", !.length = 2, !.expect = "100-continue"],
                    [Get EXCEPT !.nonce = "old"], [Get EXCEPT !.prefix = "/other"],
                    [Get EXCEPT !.method = "PUT"], [Get EXCEPT !.path = "/v2"],
                    [Get EXCEPT !.expect = "x"], [Get EXCEPT !.credentials = 2],
                    [Get EXCEPT !.sends = FALSE] },
     answers |-> { Whole, [Whole EXCEPT !.whole = FALSE], [Whole EXCEPT !.interim = 3],
                   [Whole EXCEPT !.te = "chunked"], [Whole EXCEPT !.length = FALSE, !.whole = FALSE],
                   [Whole EXCEPT !.status = 204, !.whole = FALSE], [Whole EXCEPT !.upgrade = TRUE],
                   [Whole EXCEPT !.te = "chunked", !.length = FALSE],
                   [Whole EXCEPT !.fields = "forged"], [Whole EXCEPT !.fields = "malformed"] }]

MCGateways ==
    { Off, Proxy, [Proxy EXCEPT !.rules = <<Rule(Api, FALSE, TRUE), Rule(Api, FALSE, FALSE)>>],
      Endpoint, [Endpoint EXCEPT !.allowed_upstreams = {}], [Endpoint EXCEPT !.forward = FALSE] }

MCInit == Init /\ NetInit /\ (job = Unserved \/ gateway = Off)
MCNext == (Next /\ UNCHANGED netVars) \/ (NetNext /\ UNCHANGED vars)
MCSpec == /\ MCInit /\ [][MCNext]_<<vars, netVars>>
          /\ Fairness /\ NetFairness

\* Nothing reaches a service, a provider or the guest that it may not reach: a
\* request goes only to the peer that was pinned or allowed, and an answer or a
\* tunnelled byte passes only once its event is recorded.
NothingPassesUnchecked == OnlyPinnedPeers /\ ReleaseIsAudited /\ EgressIsEntitled

\* No answer is given that is not one whole answer to one request, whether the
\* guest writes ahead or a connection is cut.
ExchangesAreFramed == PipeliningPoisons /\ ExchangesAreWhole

\* Whatever guests, services and providers do, the session's proxies end, but
\* for a tunnel whose peer has stopped reading.
GatewaysEnd == []<>(phase = "gone" /\ GatewayStopped)
================================================================================
