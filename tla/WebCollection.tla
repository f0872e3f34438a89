---------------------------- MODULE WebCollection ----------------------------
(***************************************************************************)
(* Collection for the seeds of one analysis: the seed plan and the seed    *)
(* loop of app/service.go, HTTP collection with its redirects              *)
(* (internal/collect/http/collector.go, tls.go) and the redirect resolver  *)
(* (app/redirect.go).                                                      *)
(*                                                                         *)
(* Seeds are collected one after the other.  While the DNS run of a seed   *)
(* publishes addresses, HTTP already tries them; a redirect starts a       *)
(* resolver of its own, and HTTP goes on with what that one publishes.     *)
(* Streams hold these goroutines: the first is the DNS run of the seed,    *)
(* each further one the resolver of a redirect.  The DNS run is reduced to *)
(* its address lookups; the module DNSCollection has the rest.             *)
(***************************************************************************)
EXTENDS Integers, Sequences, FiniteSets, SequencesExt

CONSTANTS
    Requested,      \* seed hostnames of the request, the target first
    Roots, Below,   \* names that are scope roots, and names below one
    Index,          \* for each scope root, its names in the CT index, latest first
    Unverified,     \* names the index holds from unverified sources
    Discovery,      \* what request and configuration may make of CT discovery
    SeedLimit, CTMaximumSeed,
    Host, Address, None,
    Family,         \* A and AAAA
    Addr,           \* addresses of a host, by family
    Allowed,        \* addresses the destination policy approves
    Alias,          \* hosts that are aliases: their answers hold CNAME records
    Plain,          \* hosts whose URLs have the scheme http
    Location,       \* hosts a redirect may name, or "invalid"
    AddressLimit, HTTPRequests, MaxRedirects,
    Unlimited       \* a budget nobody set: no controller

ASSUME CollectionAssumption ==
    /\ Discovery \subseteq {"unrequested", "disabled", "unavailable", "failing", "indexed"}
    /\ Roots \cap Below = {} /\ Requested # << >> /\ Requested \in Seq(Host)
    /\ Index \in Seq(Seq(Host))
    /\ Addr \in [Host -> [Family -> SUBSET Address]]
    /\ Allowed \subseteq Address /\ Alias \subseteq Host /\ Plain \subseteq Host /\ Location \subseteq Host \cup {"invalid"}
    /\ None \notin Host \cup Address \cup {"invalid"}
    /\ {SeedLimit, CTMaximumSeed, AddressLimit, HTTPRequests} \subseteq Nat \ {0}
    /\ MaxRedirects \in Nat

VARIABLES
    mode,       \* "full" or "dns"
    seeds,      \* SeedHostnames as planned
    at,         \* index of the seed at work
    streams,    \* the goroutines that resolve: the seed's DNS run, the redirects'
    pc,         \* how far the HTTP run of the seed has come
    host, peer, \* the current URL's host and the address under trial
    last,       \* lastErr of the hop
    err,        \* what the HTTP run returns as its error
    cover,      \* Coverage.Status of the HTTP run
    responses,  \* the responses of the run, hop by hop
    retained,   \* redirectObservations
    tls,        \* outcomes of the handshakes observed
    tlsAttempted,
    free, requests,     \* addresses and requests that may still be used
    ended,      \* whether the context has ended
    observed, coverage, finals  \* what the report is made of

planVars == <<mode, seeds>>
httpVars == <<pc, host, peer, last, err, cover, responses, tls, tlsAttempted>>
resultVars == <<observed, coverage, finals>>
webVars == <<planVars, at, streams, httpVars, retained, free, requests, ended, resultVars>>

seed == seeds[at]
hop == Len(streams) - 1

-----------------------------------------------------------------------------
(* The seed plan.                                                          *)

\* boundedSeeds: the target stays, the others follow up to the limit.
BoundedSeeds ==
    SubSeq(<<Requested[1]>> \o SelectSeq(Tail(Requested), LAMBDA s : s # Requested[1]), 1, SeedLimit)

TooManySeeds == Len(Requested) > SeedLimit

FirstSeeds == IF TooManySeeds THEN BoundedSeeds ELSE Requested

Smaller(x, y) == IF x < y THEN x ELSE y

\* The latest names below a root within the limit; the answer is partial when
\* some name below the root comes from an unverified source.
Discover(names, limit) ==
    [candidates |-> SubSeq(names, 1, Smaller(limit, Len(names))),
     available |-> Len(names), partial |-> ToSet(names) \cap Unverified # {}]

\* A name of the index becomes a seed unless it is one already.
AddName(p, n) ==
    IF n \in ToSet(p.seeds) THEN p ELSE [p EXCEPT !.seeds = Append(@, n), !.limit = @ - 1]

\* One scope root of planCTDiscovery: what the index returns within the limit.
PlanRoot(p, names) ==
    LET result == Discover(names, p.limit)
    IN  IF p.limit <= 0 THEN [p EXCEPT !.partial = TRUE]
        ELSE [FoldLeft(AddName, p, result.candidates) EXCEPT
                !.attempted = @ + result.available,
                !.partial = @ \/ Len(result.candidates) < result.available \/ result.partial]

\* planCTDiscovery.  ct says what the request and the configuration allow; the
\* query of the index may fail after so many scope roots, if it comes to that.
Plan(ct, asked) ==
    LET limit == Smaller(CTMaximumSeed, SeedLimit - Len(FirstSeeds))
        start == [seeds |-> FirstSeeds, limit |-> limit, attempted |-> 0, partial |-> FALSE]
        all == FoldLeft(PlanRoot, start, IF ct = "failing" THEN SubSeq(Index, 1, asked) ELSE Index)
        status == IF limit <= 0 THEN "partial"
                  ELSE IF ct = "failing" /\ all.limit > 0 THEN "unavailable"
                  ELSE IF all.attempted = 0 THEN "complete"
                  ELSE IF all.partial \/ ct = "failing" THEN "partial" ELSE "complete"
    IN  CASE ct = "unrequested" -> [seeds |-> FirstSeeds, coverage |-> {}]
          [] ct = "disabled" -> [seeds |-> FirstSeeds, coverage |-> {<<"ct_discovery", "skipped">>}]
          [] ct = "unavailable" -> [seeds |-> FirstSeeds, coverage |-> {<<"ct_discovery", "unavailable">>}]
          [] OTHER -> [seeds |-> IF limit <= 0 THEN FirstSeeds ELSE all.seeds,
                       coverage |-> {<<"ct_discovery", status>>}]

SeedCoverage == IF TooManySeeds THEN {<<"seed_hostnames", "partial">>} ELSE {}

\* An observation is told from others by its seed and its hop or request; value
\* is an address or the name of a technology.
Observation(type, subject, s, n, scope, value, status) ==
    [type |-> type, subject |-> subject, seed |-> s, hop |-> n, scope |-> scope,
     value |-> value, status |-> status]

ScopeForSeed(s) == IF s \in Roots THEN "root" ELSE "subdomain"

\* The scope of a host that a redirect names: for its lookups by the scope roots,
\* for its pages by the seed.
RedirectDNSScope(h) ==
    IF h \in Roots THEN "root" ELSE IF h \in Below THEN "subdomain" ELSE "external_redirect"

PageScope(h) == IF h = seed THEN ScopeForSeed(h) ELSE "external_redirect"

Stream(h) ==
    [host |-> h, asked |-> Family, todo |-> {}, chan |-> << >>, got |-> {}, failed |-> FALSE, open |-> TRUE]

StartHTTP(m) == IF m = "dns" THEN "joined" ELSE "next"

Init ==
    /\ mode \in {"full", "dns"}
    /\ \E ct \in Discovery, asked \in 0..(Len(Index) - 1) :
         /\ seeds = Plan(ct, asked).seeds
         /\ coverage = SeedCoverage \cup Plan(ct, asked).coverage
         /\ observed = {Observation("ct_name", n, n, <<0, None>>, "subdomain", None, "historical_discovery") :
                           n \in ToSet(Plan(ct, asked).seeds) \ ToSet(FirstSeeds)}
    /\ at = 1
    /\ streams = <<Stream(seeds[1])>>
    /\ pc = StartHTTP(mode)
    /\ host = seeds[1] /\ peer = None /\ last = None /\ err = None /\ cover = "complete"
    /\ responses = << >> /\ retained = {} /\ finals = {}
    /\ tls = {} /\ tlsAttempted = (mode = "full" /\ host \notin Plain)
    /\ \/ free = AddressLimit /\ requests = HTTPRequests
       \/ free = Unlimited /\ requests = Unlimited
    /\ ended = FALSE

-----------------------------------------------------------------------------
(* Resolution: the DNS run of the seed (stream 1) and redirectResolver.    *)

\* The outcome of a lookup and, if it was answered, its CNAME record.
LookupObservations(i, f, status) ==
    LET h == streams[i].host
        scope == IF i = 1 THEN ScopeForSeed(seed) ELSE RedirectDNSScope(h)
    IN  {Observation("dns_query", h, seed, <<i - 1, f>>, scope, None, status)}
        \cup (IF status = "answered" /\ h \in Alias
              THEN {Observation("dns_record", h, seed, <<i - 1, f>>, scope, None, status)} ELSE {})

Keep(i, items) ==
    IF i = 1 THEN observed' = observed \cup items /\ UNCHANGED retained
    ELSE retained' = retained \cup items /\ UNCHANGED observed

\* A lookup comes back, perhaps truncated, or fails; answers are taken up one
\* at a time.
Answer(i, f) ==
    /\ streams[i].open /\ f \in streams[i].asked /\ streams[i].todo = {}
    /\ \E found \in SUBSET Addr[streams[i].host][f], answered \in BOOLEAN :
         /\ answered \/ found = {}
         /\ answered => found # {} \/ Addr[streams[i].host][f] = {}
         /\ streams' = [streams EXCEPT ![i].asked = @ \ {f}, ![i].todo = found,
                          ![i].failed = @ \/ ~answered \/ found # Addr[streams[i].host][f]]
         /\ Keep(i, LookupObservations(i, f,
                      IF ~answered THEN "failed"
                      ELSE IF found = {} /\ streams[i].host \notin Alias THEN "nodata" ELSE "answered"))
    /\ UNCHANGED <<planVars, at, httpVars, free, requests, ended, coverage, finals>>

\* An address is reserved and published without waiting for a reader.  The DNS
\* run keeps the ones the policy blocks to itself, the resolver does not.
Handed(i, a) == i > 1 \/ a \in Allowed

Publish(i, a) ==
    /\ a \in streams[i].todo
    /\ LET fits == mode = "dns" \/ Len(streams[i].chan) < AddressLimit
           send == free # 0 /\ Handed(i, a) /\ fits
       IN  /\ streams' = [streams EXCEPT ![i].todo = @ \ {a},
                            ![i].chan = IF send THEN Append(@, a) ELSE @,
                            ![i].got = IF send THEN @ \cup {a} ELSE @,
                            ![i].failed = @ \/ ~send]
           /\ free' = IF free \in {0, Unlimited} THEN free ELSE free - 1
           /\ observed' = observed \cup
                (IF i = 1 /\ free # 0
                 THEN {Observation("dns_address", seed, seed, <<0, a>>, ScopeForSeed(seed), a,
                                   IF a \in Allowed THEN "answered" ELSE "policy_blocked")}
                 ELSE {})
    /\ UNCHANGED <<planVars, at, httpVars, retained, requests, ended, coverage, finals>>

\* All lookups are in: the channel is closed and the outcome handed over.
Close(i) ==
    /\ streams[i].open /\ streams[i].asked = {} /\ streams[i].todo = {}
    /\ streams' = [streams EXCEPT ![i].open = FALSE, ![i].failed = @ \/ (i = 1 /\ ended)]
    /\ UNCHANGED <<planVars, at, httpVars, retained, free, requests, ended, resultVars>>

-----------------------------------------------------------------------------
(* HTTP collection.                                                        *)

source == streams[Len(streams)]

\* The hop ends the run: with the error, unless an earlier hop has responded.
EndRun(rs, e) ==
    /\ pc' = "join"
    /\ cover' = "partial"
    /\ err' = IF rs = << >> THEN e ELSE None

\* Mutant: an address the policy blocks goes back into the channel.
NextAddressAgain ==
    /\ pc = "next" /\ source.chan # << >>
    /\ IF Head(source.chan) \in Allowed
       THEN /\ pc' = "acquire" /\ peer' = Head(source.chan) /\ UNCHANGED cover
            /\ streams' = [streams EXCEPT ![Len(streams)].chan = Tail(@)]
       ELSE /\ cover' = "partial" /\ UNCHANGED <<pc, peer>>
            /\ streams' = [streams EXCEPT ![Len(streams)].chan = Append(Tail(@), Head(@))]
    /\ UNCHANGED <<planVars, at, host, last, err, responses, tls, tlsAttempted, retained, free, requests, ended, resultVars>>

\* collectHopCandidates: the next address, if there is one and the policy
\* approves it.
NextAddress ==
    /\ pc = "next" /\ source.chan # << >>
    /\ streams' = [streams EXCEPT ![Len(streams)].chan = Tail(@)]
    /\ IF Head(source.chan) \in Allowed
       THEN pc' = "acquire" /\ peer' = Head(source.chan) /\ UNCHANGED cover
       ELSE cover' = "partial" /\ UNCHANGED <<pc, peer>>
    /\ UNCHANGED <<planVars, at, host, last, err, responses, tls, tlsAttempted, retained, free, requests, ended, resultVars>>

NoAddress ==
    /\ pc = "next"
    /\ \/ source.chan = << >> /\ ~source.open /\ EndRun(responses, IF last # None THEN last ELSE "unavailable")
       \/ ended /\ EndRun(responses, "context")
    /\ UNCHANGED <<planVars, at, streams, host, peer, last, responses, tls, tlsAttempted, retained, free, requests, ended, resultVars>>

\* policy.AcquireHTTP.
Acquire ==
    /\ pc = "acquire"
    /\ IF ended \/ requests = 0
       THEN EndRun(responses, "budget") /\ UNCHANGED requests
       ELSE /\ pc' = "dial"
            /\ requests' = IF requests = Unlimited THEN requests ELSE requests - 1
            /\ UNCHANGED <<cover, err>>
    /\ UNCHANGED <<planVars, at, streams, host, peer, last, responses, tls, tlsAttempted, retained, free, ended, resultVars>>

\* handshakeCapture: what the exchange leaves of a TLS handshake.  It is flawed
\* when the certificate was not verified or some of its fields were cut off.
Handshake(outcomes) ==
    IF host \in Plain THEN UNCHANGED tls ELSE \E t \in outcomes : tls' = tls \cup t

\* The payload says whether the body was scanned for scripts to its end.
ResponseObservation(body) ==
    Observation("http_response", host, seed, <<hop, IF body = "whole" THEN "whole" ELSE "cut">>, PageScope(host), peer, "responded")

Respond(body, location) ==
    /\ responses' = Append(responses, [host |-> host, peer |-> peer, body |-> body, location |-> location])
    /\ observed' = observed \cup {ResponseObservation(body)}
    /\ coverage' = coverage \cup {<<"http_script_signals", IF body = "whole" THEN "complete" ELSE "partial">>}
    /\ Handshake({{"whole"}, {"flawed"}})

\* Mutant: the run goes on reading what the last resolver published.
FollowKeepingChannel(location) ==
    /\ streams' = Append(streams, [Stream(location) EXCEPT !.chan = source.chan])
    /\ host' = location /\ last' = None
    /\ tlsAttempted' = (tlsAttempted \/ location \notin Plain)
    /\ pc' = "next"

\* A redirect is followed with a resolver of its own.
Follow(location) ==
    /\ streams' = Append(streams, Stream(location))
    /\ host' = location /\ last' = None
    /\ tlsAttempted' = (tlsAttempted \/ location \notin Plain)
    /\ pc' = "next"

\* collectHop answers; "scripts" is a body with more scripts than are kept.
Page(body, location) ==
    /\ pc = "dial"
    /\ Respond(body, location)
    /\ cover' = IF body = "truncated" \/ (location # None /\ (hop >= MaxRedirects \/ location = "invalid"))
                THEN "partial" ELSE cover
    /\ IF location = None \/ hop >= MaxRedirects \/ location = "invalid"
       THEN pc' = "join" /\ UNCHANGED <<streams, host, last, tlsAttempted>>
       ELSE Follow(location)
    /\ UNCHANGED <<planVars, at, peer, err, retained, free, requests, ended, finals>>

\* The response stands although its body failed.
BodyFails ==
    /\ pc = "dial"
    /\ Respond("failed", None)
    /\ EndRun(responses', None)
    /\ UNCHANGED <<planVars, at, streams, host, peer, last, tlsAttempted, retained, free, requests, ended, finals>>

\* eligibleAddressFallback, for an error that another address may not have.
EligibleAddressFallback == ~ended

\* No response: the next address is tried, unless the context has ended, the
\* certificate was refused or the headers were too long.
NoResponse ==
    /\ pc = "dial"
    /\ \/ /\ Handshake({{}, {"whole"}, {"flawed"}})
          /\ IF EligibleAddressFallback THEN pc' = "next" /\ last' = "failed" /\ UNCHANGED <<cover, err>>
             ELSE EndRun(responses, "context") /\ UNCHANGED last
       \/ /\ Handshake({{"whole"}, {"flawed"}})
          /\ EndRun(responses, "failed") /\ UNCHANGED last
    /\ UNCHANGED <<planVars, at, streams, host, peer, responses, tlsAttempted, retained, free, requests, ended, resultVars>>

\* The deferred join: every resolver has returned; one that failed, or an
\* address nobody tried that the policy blocks, makes the run partial.
Resolvers == 2..Len(streams)

Incomplete(i) == streams[i].failed \/ ToSet(streams[i].chan) \ Allowed # {}

AllResolved == \A i \in Resolvers : ~streams[i].open

Join ==
    /\ pc = "join"
    /\ AllResolved
    /\ cover' = IF err = "unavailable" THEN "unavailable"
                ELSE IF \E i \in Resolvers : Incomplete(i) THEN "partial" ELSE cover
    /\ err' = IF err = "unavailable" THEN None ELSE err
    /\ pc' = "joined"
    /\ UNCHANGED <<planVars, at, streams, host, peer, last, responses, tls, tlsAttempted, retained, free, requests, ended, resultVars>>

\* The seed loop takes both results and turns to the next seed; behind the last
\* one nothing reads the budgets again.
SeedDone == pc = "joined" /\ ~streams[1].open

NextSeed ==
    /\ SeedDone
    /\ coverage' = coverage \cup {<<"dns", IF streams[1].failed THEN "partial" ELSE "complete">>}
                     \cup (IF mode = "full" THEN {<<"http", cover>>} ELSE {})
    /\ observed' = observed \cup retained
    /\ finals' = IF responses # << >> /\ err = None
                 THEN finals \cup {[seed |-> seed, host |-> Last(responses).host, hop |-> Len(responses) - 1]}
                 ELSE finals
    /\ IF at < Len(seeds)
       THEN /\ at' = at + 1
            /\ streams' = <<Stream(seeds[at + 1])>>
            /\ pc' = StartHTTP(mode)
            /\ host' = seeds[at + 1]
            /\ tlsAttempted' = (tlsAttempted \/ (mode = "full" /\ seeds[at + 1] \notin Plain))
       ELSE pc' = "collected" /\ streams' = << >> /\ host' = None /\ UNCHANGED <<at, tlsAttempted>>
    /\ responses' = << >> /\ cover' = "complete" /\ retained' = {}
    /\ peer' = None /\ last' = None /\ err' = None
    /\ free' = IF at < Len(seeds) THEN free ELSE Unlimited
    /\ requests' = IF at < Len(seeds) THEN requests ELSE Unlimited
    /\ UNCHANGED <<planVars, tls, ended>>

\* The caller cancels, or the target's time is over.
EndContext ==
    /\ ~ended /\ ended' = TRUE
    /\ UNCHANGED <<planVars, at, streams, httpVars, retained, free, requests, resultVars>>

ResolveStep ==
    \E i \in DOMAIN streams :
      \/ \E f \in Family : Answer(i, f)
      \/ \E a \in Address : Publish(i, a)
      \/ Close(i)

HTTPStep ==
    \/ NextAddress \/ NoAddress \/ Acquire
    \/ \E body \in {"whole", "truncated", "scripts"}, location \in Location \cup {None} : Page(body, location)
    \/ BodyFails \/ NoResponse \/ Join \/ NextSeed

CollectStep == ResolveStep \/ HTTPStep

=============================================================================
