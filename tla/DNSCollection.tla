---------------------------- MODULE DNSCollection ----------------------------
(***************************************************************************)
(* DNS collection for the seeds of one target: internal/collect/dns        *)
(* (collector.go, graph.go, job.go, and client.go as what a question may   *)
(* bring back), driven by the seed loop of app/service.go.                 *)
(*                                                                         *)
(* Seeds are collected one after the other.  A seed asks its questions     *)
(* concurrently while the graph goroutine follows the aliases their        *)
(* answers name; then the seed looks for its zone and for the hosts its    *)
(* records depend on.  Meanwhile the HTTP collection of the same seed may  *)
(* resolve the hosts of redirects.  All ask through one Job: a question in *)
(* flight is shared, an answer is reused until it expires, the number of   *)
(* questions is bounded.                                                   *)
(*                                                                         *)
(* What the names resolve to is fixed (Links, Addr, ...); any question may *)
(* fail, any answer may expire, and the context may end at any moment.     *)
(***************************************************************************)
EXTENDS Integers, Sequences, FiniteSets, SequencesExt

CONSTANTS
    SeedLists,       \* the targets: sequences of seeds
    Name, Address, None,
    Rank,            \* the order of names
    Links,           \* the alias of a name, or None
    Addr,            \* addresses of a name, by address type
    DependencyOf,    \* hosts named by a name's NS or MX records
    Apex,            \* names that own a zone
    Parent,          \* a name without its first label, or None
    Missing,         \* names that do not exist
    Allowed,         \* addresses the destination policy approves
    RedirectHost,    \* hosts an HTTP redirect of a seed may name
    SeedTypes,       \* questionTypes
    AddressTypes,    \* A and AAAA
    GraphBuffer,     \* capacity of graphTargets
    CNAMEChainDepth, DNSQuestions, ResolvedAddresses

DependencyTypes == {"NS", "MX"}
Type == SeedTypes \cup AddressTypes \cup {"CNAME", "SOA", "NS"}
Question == Name \X Type
Completed == {"answered", "nodata", "nxdomain"}

\* The goroutines that ask: one per seed question, the seed itself, its graph,
\* and one per address type of a redirect.
Main == <<"main", "any">>
Graph == <<"graph", "any">>
Asker == {Main, Graph} \cup ({"seed"} \X SeedTypes) \cup ({"redirect"} \X AddressTypes)

ASSUME WorldAssumption ==
    /\ SeedLists \subseteq Seq(Name) \ {<< >>}
    /\ None \notin Name /\ Allowed \subseteq Address /\ RedirectHost \subseteq Name
    /\ Links \in [Name -> Name \cup {None}] /\ Parent \in [Name -> Name \cup {None}]
    /\ Addr \in [Name -> [AddressTypes -> SUBSET Address]]
    /\ DependencyOf \in [Name -> [DependencyTypes -> SUBSET Name]]
    /\ Apex \subseteq Name /\ Missing \subseteq Name
    /\ \A m, n \in Name : Rank[m] = Rank[n] => m = n
    /\ {GraphBuffer, CNAMEChainDepth, DNSQuestions, ResolvedAddresses} \subseteq Nat \ {0}
    /\ IsFiniteSet(Name) /\ IsFiniteSet(Address) /\ IsFiniteSet(SeedTypes)
    /\ AddressTypes \subseteq SeedTypes /\ AddressTypes \subseteq {"A", "AAAA"} /\ AddressTypes # {}

\* What DNS says of names: one that does not exist has no records, and one that
\* owns a zone, whose SOA record it holds, is no alias.
ASSUME NamesAssumption ==
    /\ \A n \in Missing :
         /\ Links[n] = None /\ n \notin Apex
         /\ \A t \in AddressTypes : Addr[n][t] = {}
         /\ \A t \in DependencyTypes : DependencyOf[n][t] = {}
    /\ \A n \in Apex : Links[n] = None

VARIABLES
    seeds,      \* the seed at work and those to come
    cache,      \* Job.queries: nothing, a question in flight, or its answer
    used,       \* Job.used
    ask,        \* where an asker is in Job.query, and what it got
    free,       \* addresses that may still be reserved
    stage,      \* how far collectOccurrence has come
    links,      \* aliases the seed's loop has still to hand to the graph
    todo,       \* addresses of the answer the loop is at
    channel,    \* graphTargets
    queue, seen, item,  \* the graph's queue, visited names and current name
    graphDone,  \* the graph goroutine has returned
    zone,       \* the zone walk: candidate and depth
    hosts,      \* dependency questions to come
    found,      \* dependencies the seed's records name: <<host, record type>>
    nsNoData,   \* the seed's NS question came back empty
    status,     \* Coverage.Status
    addresses,  \* Result.Addresses
    published,  \* candidates handed to HTTP collection
    cancelled,  \* the context has ended
    uncounted   \* questions of the collection sent, less those in Coverage.Attempted

jobVars == <<cache, used, ask>>
seedVars == <<stage, links, zone, hosts, nsNoData>>
graphVars == <<queue, seen, item, graphDone>>
resultVars == <<status, addresses, published, found, free>>
dnsVars == <<seeds, jobVars, seedVars, graphVars, resultVars, todo, channel, cancelled, uncounted>>

seed == Head(seeds)

NoAsk == [st |-> "idle", q |-> None, kind |-> "none", cached |-> FALSE, attempt |-> 0]
Asking(q) == [NoAsk EXCEPT !.st = "start", !.q = q]
NoItem == [name |-> None, depth |-> 0, path |-> {}, types |-> {}]
NoZone == [name |-> None, depth |-> 0]

\* A seed begins with its questions out and the graph waiting for aliases.
SeedAsks(s) ==
    [k \in Asker |-> IF k[1] = "seed" THEN Asking(<<s, k[2]>>) ELSE NoAsk]

DNSInit ==
    /\ seeds \in SeedLists
    /\ cache = [q \in Question |-> "none"]
    /\ used = 0
    /\ ask = SeedAsks(seed)
    /\ free = ResolvedAddresses
    /\ stage = "collect"
    /\ links = {} /\ todo = {} /\ channel = << >>
    /\ queue = {} /\ seen = {} /\ item = NoItem /\ graphDone = FALSE
    /\ zone = NoZone /\ hosts = {} /\ found = {} /\ nsNoData = FALSE
    /\ status = "complete" /\ addresses = {} /\ published = {}
    /\ cancelled = FALSE
    /\ uncounted = 0

-----------------------------------------------------------------------------
(* What the resolver knows.                                                *)

\* k steps from n along f, as far as it leads.
Walk(f, n, k) ==
    LET w[i \in 0..k] == IF i = 0 THEN n ELSE IF w[i - 1] = None THEN None ELSE f[w[i - 1]]
    IN  w[k]

\* The k-th name on the alias chain of n.
Hop(n, k) == Walk(Links, n, k)

ChainTo(n, k) == {Hop(n, i) : i \in 1..k} \ {None}

Chain(n) == ChainTo(n, Cardinality(Name))

\* Where the chain of n ends; a chain that loops ends nowhere.
Ends(n) == {m \in {n} \cup Chain(n) : Links[m] = None}

\* Client.convert keeps so many aliases of one answer.
Omits(q) == q[2] # "CNAME" /\ Hop(q[1], CNAMEChainDepth + 1) # None

Aliases(q) ==
    IF q[2] = "CNAME" THEN ChainTo(q[1], 1) ELSE ChainTo(q[1], CNAMEChainDepth)

AddressesIn(q) ==
    IF q[2] \in AddressTypes THEN UNION {Addr[m][q[2]] : m \in Ends(q[1])} ELSE {}

DependenciesIn(q) ==
    IF q[2] \in DependencyTypes THEN UNION {DependencyOf[m][q[2]] : m \in Ends(q[1])} ELSE {}

HasZone(q) == q[2] = "SOA" /\ q[1] \in Apex

\* outcomeForResponse.
Truth(q) ==
    IF q[1] \in Missing \/ (q[2] # "CNAME" /\ Ends(q[1]) \cap Missing # {}) THEN "nxdomain"
    ELSE IF Aliases(q) \cup AddressesIn(q) \cup DependenciesIn(q) # {} \/ HasZone(q)
    THEN "answered" ELSE "nodata"

\* questionTypes holds CNAME; an instance may leave it out if no alias leads to
\* a name that does not exist, for every other type then names the alias.
ASSUME AliasAssumption ==
    "CNAME" \in SeedTypes \/ \A n \in Name : Ends(n) \cap Missing # {} => n \in Missing

-----------------------------------------------------------------------------
(* Job.query, for any asker.                                               *)

Got(k, kind, cached, n) ==
    [ask[k] EXCEPT !.st = "got", !.kind = kind, !.cached = cached, !.attempt = n]

\* The locked section: an answer at hand that has not expired, a question in
\* flight to wait for, no budget left, or a question of one's own.
Lookup(k) ==
    LET q == ask[k].q
        Answer(kind, cached) == ask' = [ask EXCEPT ![k] = Got(k, kind, cached, 0)]
    IN  /\ ask[k].st = "start"
        /\ \/ cancelled /\ Answer("failed", FALSE) /\ UNCHANGED <<cache, used>>
           \/ ~cancelled /\ cache[q] \in Completed /\ Answer(cache[q], TRUE) /\ UNCHANGED <<cache, used>>
           \/ /\ ~cancelled /\ cache[q] = "open"
              /\ ask' = [ask EXCEPT ![k].st = "wait"]
              /\ UNCHANGED <<cache, used>>
           \/ /\ ~cancelled /\ cache[q] # "open" /\ used >= DNSQuestions
              /\ Answer("failed", FALSE)
              /\ cache' = [cache EXCEPT ![q] = "none"]
              /\ UNCHANGED used
           \/ /\ ~cancelled /\ cache[q] # "open" /\ used < DNSQuestions
              /\ ask' = [ask EXCEPT ![k].st = "own"]
              /\ cache' = [cache EXCEPT ![q] = "open"]
              /\ used' = used + 1
    /\ UNCHANGED <<seeds, seedVars, graphVars, resultVars, todo, channel, cancelled, uncounted>>

\* Mutant of Shared: the waiter counts the attempt as its own.
SharedAsOwn(k, kind) == Got(k, kind, FALSE, 1)

\* The result a waiter reads from the entry it waited for.
Shared(k, kind) == Got(k, kind, TRUE, 1)

\* The question comes back; whoever waits for it gets the same result.  An
\* answer may be reused later, a failure may not.  All its tries are one attempt.
Resolve(k) ==
    LET q == ask[k].q
    IN  /\ ask[k].st = "own"
        /\ \E kind \in {Truth(q), "failed"} :
             /\ cache' = [cache EXCEPT ![q] = IF kind \in Completed THEN kind ELSE "none"]
             /\ uncounted' = IF k[1] = "redirect" THEN uncounted ELSE uncounted + 1
             /\ ask' = [j \in Asker |->
                          IF j = k THEN Got(k, kind, FALSE, 1)
                          ELSE IF ask[j].st = "wait" /\ ask[j].q = q THEN Shared(j, kind)
                          ELSE ask[j]]
    /\ UNCHANGED <<seeds, used, seedVars, graphVars, resultVars, todo, channel, cancelled>>

StopWaiting(k) ==
    /\ ask[k].st = "wait" /\ cancelled
    /\ ask' = [ask EXCEPT ![k] = Got(k, "failed", TRUE, 0)]
    /\ UNCHANGED <<seeds, cache, used, seedVars, graphVars, resultVars, todo, channel, cancelled, uncounted>>

-----------------------------------------------------------------------------
(* What every result adds to the coverage (appendGraphQuery and the loop   *)
(* of collectOccurrence).                                                  *)

Counted(k) == IF ask[k].cached THEN uncounted ELSE uncounted - ask[k].attempt

Unsound(k) ==
    ask[k].kind \notin Completed \/ (ask[k].kind = "answered" /\ Omits(ask[k].q))

Marked(bad) == IF bad THEN "partial" ELSE status

AddressesGot(k) == IF ask[k].kind = "answered" THEN AddressesIn(ask[k].q) ELSE {}

\* Records that name a host to look up later.
DependenciesGot(k) ==
    IF ask[k].kind = "answered"
    THEN {<<m, ask[k].q[2]>> : m \in DependenciesIn(ask[k].q)} ELSE {}

\* Addresses of one answer: each is reserved while some are free, and checked.
Reserve(as) == {kept \in SUBSET as : Cardinality(kept) = IF Cardinality(as) < free THEN Cardinality(as) ELSE free}

\* Mutant of TakeAddresses: an address that could not be reserved is dropped silently.
TakeAddressesSilently(as, candidates, bad) ==
    \E kept \in Reserve(as) :
       /\ free' = free - Cardinality(kept)
       /\ addresses' = addresses \cup kept
       /\ status' = Marked(bad \/ ~(kept \subseteq Allowed))
       /\ published' = IF candidates THEN published \cup (kept \cap Allowed) ELSE published

TakeAddresses(as, candidates, bad) ==
    \E kept \in Reserve(as) :
       /\ free' = free - Cardinality(kept)
       /\ addresses' = addresses \cup kept
       /\ status' = Marked(bad \/ kept # as \/ ~(kept \subseteq Allowed))
       /\ published' = IF candidates THEN published \cup (kept \cap Allowed) ELSE published

\* appendGraphQuery: coverage, attempts, records and addresses of a result.
AppendGraphQuery(k, candidates, bad) ==
    /\ uncounted' = Counted(k)
    /\ found' = found \cup DependenciesGot(k)
    /\ TakeAddresses(AddressesGot(k), candidates, bad \/ Unsound(k))

-----------------------------------------------------------------------------
(* The seed's own questions.                                               *)

Receive(t) ==
    LET k == <<"seed", t>>
    IN  /\ links = {} /\ todo = {} /\ ask[k].st = "got"
        /\ status' = Marked(Unsound(k))
        /\ uncounted' = Counted(k)
        /\ found' = found \cup DependenciesGot(k)
        /\ ask' = [ask EXCEPT ![k] = NoAsk]
        /\ links' = IF ask[k].kind = "answered" THEN Aliases(ask[k].q) ELSE {}
        /\ todo' = AddressesGot(k)
        /\ nsNoData' = (nsNoData \/ (t = "NS" /\ ask[k].kind = "nodata"))
    /\ UNCHANGED <<seeds, cache, used, stage, zone, hosts, graphVars, addresses, published, free, channel, cancelled>>

\* An alias goes to the graph when its channel has room; the graph may be
\* gone, and then only the end of the context frees the loop.
PushLink ==
    /\ \E n \in links :
         /\ links' = links \ {n}
         /\ \/ /\ Len(channel) < GraphBuffer
               /\ channel' = Append(channel, n)
               /\ UNCHANGED status
            \/ /\ cancelled
               /\ status' = "partial"
               /\ UNCHANGED channel
    /\ UNCHANGED <<seeds, jobVars, stage, zone, hosts, nsNoData, graphVars, addresses, published, found, free, todo, cancelled, uncounted>>

\* The addresses of the answer, once its aliases are handed over.
TakeAnswer ==
    /\ links = {} /\ todo # {}
    /\ todo' = {}
    /\ TakeAddresses(todo, TRUE, FALSE)
    /\ UNCHANGED <<seeds, jobVars, seedVars, graphVars, found, channel, cancelled, uncounted>>

\* All results are in: the graph hears that no more aliases come.
CloseTargets ==
    /\ stage = "collect" /\ links = {} /\ todo = {}
    /\ \A t \in SeedTypes : ask[<<"seed", t>>].st = "idle"
    /\ stage' = "join"
    /\ UNCHANGED <<seeds, jobVars, links, zone, hosts, nsNoData, graphVars, resultVars, todo, channel, cancelled, uncounted>>

-----------------------------------------------------------------------------
(* followCNAMEGraph.                                                       *)

GraphIdle == ~graphDone /\ item = NoItem

GraphItem(n, d, path) == [name |-> n, depth |-> d, path |-> path, types |-> AddressTypes]

TooFar(x) == x.name \in x.path \/ x.depth > CNAMEChainDepth

\* One round of the loop: wait for an alias if there is none, take one more
\* if it is there, and visit the first by name.
GraphPick ==
    LET some == IF queue = {} THEN 2 ELSE 1
        n == IF Len(channel) < some THEN Len(channel) ELSE some
        waiting == queue \cup {GraphItem(channel[i], 1, {seed}) : i \in 1..n}
    IN  /\ GraphIdle /\ ~cancelled /\ waiting # {}
        /\ channel' = SubSeq(channel, n + 1, Len(channel))
        /\ \E x \in waiting :
             /\ \A y \in waiting : Rank[x.name] <= Rank[y.name]
             /\ queue' = waiting \ {x}
             /\ status' = Marked(TooFar(x))
             /\ IF TooFar(x) \/ x.name \in seen
                THEN UNCHANGED <<seen, item, ask>>
                ELSE /\ seen' = seen \cup {x.name}
                     /\ item' = x
                     /\ ask' = [ask EXCEPT ![Graph] = Asking(<<x.name, "CNAME">>)]
    /\ UNCHANGED <<seeds, cache, used, seedVars, graphDone, addresses, published, found, free, todo, cancelled, uncounted>>

GraphStop ==
    /\ GraphIdle /\ cancelled
    /\ graphDone' = TRUE
    /\ status' = "partial"
    /\ UNCHANGED <<seeds, jobVars, seedVars, queue, seen, item, addresses, published, found, free, todo, channel, cancelled, uncounted>>

GraphEnd ==
    /\ GraphIdle /\ stage = "join" /\ queue = {} /\ channel = << >>
    /\ graphDone' = TRUE
    /\ UNCHANGED <<seeds, jobVars, seedVars, queue, seen, item, resultVars, todo, channel, cancelled, uncounted>>

\* The answer to the alias question: further aliases are queued; a name
\* without one is asked for its addresses.
GraphLinked ==
    LET next == IF ask[Graph].kind = "answered" THEN Aliases(ask[Graph].q) ELSE {}
    IN  /\ ask[Graph].st = "got" /\ ask[Graph].q[2] = "CNAME"
        /\ AppendGraphQuery(Graph, TRUE, FALSE)
        /\ ask' = [ask EXCEPT ![Graph] = NoAsk]
        /\ queue' = queue \cup {GraphItem(m, item.depth + 1, item.path \cup {item.name}) : m \in next}
        /\ item' = IF ask[Graph].kind \in {"answered", "nodata"} /\ next = {} THEN item ELSE NoItem
    /\ UNCHANGED <<seeds, cache, used, seedVars, seen, graphDone, todo, channel, cancelled>>

GraphAsk ==
    /\ item # NoItem /\ ask[Graph].st = "idle"
    /\ \E t \in item.types :
         /\ ask' = [ask EXCEPT ![Graph] = Asking(<<item.name, t>>)]
         /\ item' = [item EXCEPT !.types = @ \ {t}]
    /\ UNCHANGED <<seeds, cache, used, seedVars, queue, seen, graphDone, resultVars, todo, channel, cancelled, uncounted>>

GraphResolved ==
    /\ ask[Graph].st = "got" /\ ask[Graph].q[2] # "CNAME"
    /\ AppendGraphQuery(Graph, TRUE, FALSE)
    /\ ask' = [ask EXCEPT ![Graph] = NoAsk]
    /\ item' = IF item.types = {} THEN NoItem ELSE item
    /\ UNCHANGED <<seeds, cache, used, seedVars, queue, seen, graphDone, todo, channel, cancelled>>

-----------------------------------------------------------------------------
(* followInheritedZone and followDependencies.                             *)

\* Dependencies are looked up once per name, kind and address type.
ToHosts(dependencies) == stage' = "hosts" /\ hosts' = dependencies \X AddressTypes

\* The graph is joined; the zone is looked for if the seed has no name servers.
Join ==
    /\ stage = "join" /\ graphDone
    /\ IF nsNoData
       THEN stage' = "zone" /\ zone' = [name |-> seed, depth |-> 0] /\ UNCHANGED hosts
       ELSE ToHosts(found) /\ UNCHANGED zone
    /\ UNCHANGED <<seeds, jobVars, links, nsNoData, graphVars, resultVars, todo, channel, cancelled, uncounted>>

\* The walk may go no further: the depth, the top label or the context ends it.
ZoneStuck == zone.depth >= CNAMEChainDepth \/ Parent[zone.name] = None \/ cancelled

ZoneAsk ==
    /\ stage = "zone" /\ ask[Main].st = "idle"
    /\ IF ZoneStuck
       THEN ToHosts(found) /\ status' = "partial" /\ UNCHANGED ask
       ELSE /\ ask' = [ask EXCEPT ![Main] = Asking(<<zone.name, "SOA">>)]
            /\ UNCHANGED <<stage, hosts, status>>
    /\ UNCHANGED <<seeds, cache, used, links, zone, nsNoData, graphVars, addresses, published, found, free, todo, channel, cancelled, uncounted>>

\* Mutant of ZoneGot: a question that failed is asked again.
ZoneGotRetry ==
    /\ stage = "zone" /\ ask[Main].st = "got" /\ ask[Main].q[2] = "SOA"
    /\ AppendGraphQuery(Main, FALSE, FALSE)
    /\ IF ask[Main].kind = "answered" /\ HasZone(ask[Main].q)
       THEN ask' = [ask EXCEPT ![Main] = Asking(<<zone.name, "NS">>)] /\ UNCHANGED zone
       ELSE /\ ask' = [ask EXCEPT ![Main] = NoAsk]
            /\ zone' = IF ask[Main].kind = "failed" THEN zone
                       ELSE [name |-> Parent[zone.name], depth |-> zone.depth + 1]
    /\ UNCHANGED <<seeds, cache, used, stage, links, hosts, nsNoData, graphVars, todo, channel, cancelled>>

ZoneGot ==
    /\ stage = "zone" /\ ask[Main].st = "got" /\ ask[Main].q[2] = "SOA"
    /\ AppendGraphQuery(Main, FALSE, FALSE)
    /\ IF ask[Main].kind = "answered" /\ HasZone(ask[Main].q)
       THEN ask' = [ask EXCEPT ![Main] = Asking(<<zone.name, "NS">>)] /\ UNCHANGED zone
       ELSE /\ ask' = [ask EXCEPT ![Main] = NoAsk]
            /\ zone' = [name |-> Parent[zone.name], depth |-> zone.depth + 1]
    /\ UNCHANGED <<seeds, cache, used, stage, links, hosts, nsNoData, graphVars, todo, channel, cancelled>>

ZoneServers ==
    /\ stage = "zone" /\ ask[Main].st = "got" /\ ask[Main].q[2] = "NS"
    /\ AppendGraphQuery(Main, FALSE, DependenciesGot(Main) = {})
    /\ ToHosts(found \cup DependenciesGot(Main))
    /\ ask' = [ask EXCEPT ![Main] = NoAsk]
    /\ UNCHANGED <<seeds, cache, used, links, zone, nsNoData, graphVars, todo, channel, cancelled>>

HostAsk ==
    /\ stage = "hosts" /\ ask[Main].st = "idle" /\ ~cancelled
    /\ \E h \in hosts :
         /\ \A other \in hosts : Rank[h[1][1]] <= Rank[other[1][1]]
         /\ hosts' = hosts \ {h}
         /\ ask' = [ask EXCEPT ![Main] = Asking(<<h[1][1], h[2]>>)]
    /\ UNCHANGED <<seeds, cache, used, stage, links, zone, nsNoData, graphVars, resultVars, todo, channel, cancelled, uncounted>>

HostGot ==
    /\ stage = "hosts" /\ ask[Main].st = "got"
    /\ AppendGraphQuery(Main, FALSE, FALSE)
    /\ ask' = [ask EXCEPT ![Main] = NoAsk]
    /\ UNCHANGED <<seeds, cache, used, seedVars, graphVars, todo, channel, cancelled>>

FinishSeed ==
    /\ stage = "hosts" /\ ask[Main].st = "idle" /\ (hosts = {} \/ cancelled)
    /\ stage' = "done"
    /\ hosts' = {}
    /\ status' = Marked(cancelled)
    /\ UNCHANGED <<seeds, jobVars, links, zone, nsNoData, graphVars, addresses, published, found, free, todo, channel, cancelled, uncounted>>

-----------------------------------------------------------------------------
(* The seed loop and the redirects of the HTTP collection beside it.       *)

\* redirectResolver: both address types at once, through the same job.
AskRedirect(n) ==
    /\ published # {} /\ stage # "done"
    /\ \A t \in AddressTypes : ask[<<"redirect", t>>].st = "idle"
    /\ ask' = [k \in Asker |-> IF k[1] = "redirect" THEN Asking(<<n, k[2]>>) ELSE ask[k]]
    /\ UNCHANGED <<seeds, cache, used, seedVars, graphVars, resultVars, todo, channel, cancelled, uncounted>>

RedirectGot(t) ==
    LET k == <<"redirect", t>>
    IN  /\ ask[k].st = "got"
        /\ \E kept \in Reserve(AddressesGot(k)) : free' = free - Cardinality(kept)
        /\ ask' = [ask EXCEPT ![k] = NoAsk]
    /\ UNCHANGED <<seeds, cache, used, seedVars, graphVars, status, addresses, published, found, todo, channel, cancelled, uncounted>>

\* The next seed starts when the DNS and the HTTP run of this one have ended.
NextSeed ==
    /\ stage = "done" /\ Len(seeds) > 1
    /\ \A t \in AddressTypes : ask[<<"redirect", t>>].st = "idle"
    /\ seeds' = Tail(seeds)
    /\ ask' = SeedAsks(seeds[2])
    /\ stage' = "collect"
    /\ seen' = {} /\ graphDone' = FALSE
    /\ zone' = NoZone /\ found' = {} /\ nsNoData' = FALSE
    /\ status' = "complete" /\ addresses' = {} /\ published' = {} /\ channel' = << >> /\ queue' = {}
    /\ UNCHANGED <<cache, used, links, hosts, item, free, todo, cancelled, uncounted>>

EndContext ==
    /\ ~cancelled /\ cancelled' = TRUE
    /\ UNCHANGED <<seeds, jobVars, seedVars, graphVars, resultVars, todo, channel, uncounted>>

SeedStep ==
    \/ \E t \in SeedTypes : Receive(t)
    \/ PushLink \/ TakeAnswer \/ CloseTargets \/ Join
    \/ ZoneAsk \/ ZoneGot \/ ZoneServers \/ HostAsk \/ HostGot \/ FinishSeed \/ NextSeed

GraphStep ==
    GraphPick \/ GraphStop \/ GraphEnd \/ GraphLinked \/ GraphAsk \/ GraphResolved

QueryStep(k) == Lookup(k) \/ Resolve(k) \/ StopWaiting(k)

AllDone ==
    /\ stage = "done" /\ Len(seeds) = 1
    /\ \A t \in AddressTypes : ask[<<"redirect", t>>].st = "idle"

Resting == AllDone /\ UNCHANGED dnsVars

DNSNext ==
    \/ \E k \in Asker : QueryStep(k)
    \/ SeedStep \/ GraphStep
    \/ \E n \in RedirectHost : AskRedirect(n)
    \/ \E t \in AddressTypes : RedirectGot(t)
    \/ ~AllDone /\ EndContext
    \/ Resting

DNSSpec == DNSInit /\ [][DNSNext]_dnsVars

\* Some goroutine of the collection runs on, and of the redirect's; a question
\* comes back, for it has a timeout.
DNSFairness ==
    /\ WF_dnsVars(SeedStep \/ GraphStep \/ \E k \in Asker : k[1] # "redirect" /\ QueryStep(k))
    /\ WF_dnsVars(\E t \in AddressTypes : RedirectGot(t) \/ QueryStep(<<"redirect", t>>))

FairDNSSpec == DNSSpec /\ DNSFairness

-----------------------------------------------------------------------------
(* Properties.                                                             *)

\* The name k labels above n, and the zones at or above n, nearest first.
Above(n, k) == Walk(Parent, n, k)

NearestApex(n) ==
    {Above(n, k) : k \in {k \in 0..Cardinality(Name) :
        Above(n, k) \in Apex /\ \A j \in 0..(k - 1) : Above(n, j) \notin Apex}}

\* Hosts a complete report of the seed must have looked at: those its own
\* answers name, and its zone's servers if it has none of its own.
NamedHosts == UNION {DependenciesIn(<<seed, t>>) : t \in SeedTypes}

InheritedHosts ==
    IF "NS" \in SeedTypes /\ Truth(<<seed, "NS">>) = "nodata"
    THEN UNION {DependencyOf[z]["NS"] : z \in NearestApex(seed)} ELSE {}

NeededHosts == NamedHosts \cup InheritedHosts

\* Coverage that says "complete" hides nothing: every alias was followed,
\* every address of the seed was handed to HTTP collection, and every host
\* the seed's records depend on was resolved, whatever was asked, shared,
\* reused, expired or refused on the way, and in whatever order.
CompleteMeansAll ==
    stage = "done" /\ status = "complete" =>
      /\ Chain(seed) \subseteq seen
      /\ \A m \in Ends(seed), t \in AddressTypes : Addr[m][t] \subseteq published
      /\ \A h \in NeededHosts : \A m \in Ends(h), t \in AddressTypes : Addr[m][t] \subseteq addresses

\* Every question the collection sends is counted by exactly one result, though
\* its answer may be shared by several askers and reused by later ones.
AttemptsCountedOnce == uncounted >= 0 /\ (stage = "done" => uncounted = 0)

\* Collection ends, also when the context ends while the loop hands an alias
\* to a graph that has already gone.
CollectionEnds == <>AllDone

=============================================================================
