--------------------------- MODULE AnalysisProofs ---------------------------
(***************************************************************************)
(* Theorems about Analysis, collection included, for every set of hosts,   *)
(* addresses, rules and views, every redirect and every budget.            *)
(***************************************************************************)
EXTENDS Analysis, FiniteSetTheorems, TLAPS

-----------------------------------------------------------------------------
(* HTTP collection: the inductive invariant.                               *)

\* What a stream may resolve, and to what.
Hosts == {seeds[i] : i \in Nat} \cup Location

Resolved == UNION {Addr[h][f] : h \in Hosts, f \in Family}

StreamType ==
    [host : Hosts, asked : SUBSET Family, todo : SUBSET Resolved, chan : Seq(Resolved),
     got : SUBSET Resolved, failed : BOOLEAN, open : BOOLEAN]

Response ==
    [host : Hosts, peer : Resolved, body : {"whole", "truncated", "scripts", "failed"},
     location : Location \cup {None}]

CollectionTypes ==
    /\ mode \in {"full", "dns"}
    /\ at \in Nat
    /\ streams \in Seq(StreamType)
    /\ pc \in {"next", "acquire", "dial", "join", "joined", "collected"}
    /\ pc # "collected" => Len(streams) > 0
    /\ responses \in Seq(Response)

\* What stream n has asked for is among what the run keeps, and it has handed
\* over all it has found unless it says that it failed; what HTTP has taken out
\* of its channel and not tried is why the run is not complete.
StreamSound(s, n, kept, status) ==
    /\ s.todo \subseteq AllAddresses(s.host)
    /\ ToSet(s.chan) \subseteq s.got /\ s.got \subseteq AllAddresses(s.host)
    /\ ~s.open => s.asked = {} /\ s.todo = {}
    /\ n > 1 =>
         /\ ~s.failed => s.got \cup s.todo = UNION {Addr[s.host][f] : f \in Family \ s.asked}
         /\ \A f \in Family \ s.asked : \E o \in kept : o.type = "dns_query" /\ o.hop = <<n - 1, f>>
         /\ status = "complete" => s.got \subseteq Allowed \cup ToSet(s.chan)

StreamsSound == \A i \in DOMAIN streams : StreamSound(streams[i], i, retained, cover)

\* HTTP reads the stream that resolves its current host.
HostOfSource == pc \in {"next", "acquire", "dial"} => host = source.host

\* A run that is complete so far has read every page to its end, and one that
\* has come to its end has reached a page without a redirect.
RunSound ==
    cover = "complete" =>
      /\ \A n \in DOMAIN responses : responses[n].body \in {"whole", "scripts"}
      /\ pc \in {"join", "joined"} /\ mode = "full" =>
           responses # << >> /\ Last(responses).location = None

\* A run that was joined left nobody behind.
JoinSound ==
    pc = "joined" /\ mode = "full" =>
      \A i \in Resolvers : ~streams[i].open /\ (cover = "complete" => ~Incomplete(i))

CollectionInv ==
    /\ CollectionTypes
    /\ StreamsSound /\ HostOfSource
    /\ PeersOfHost
    /\ RunSound /\ JoinSound

-----------------------------------------------------------------------------
(* Streams.                                                                *)

\* Sequences and the sets of their elements.
LEMMA EmptySet == ToSet(<< >>) = {}
  BY DEF ToSet

LEMMA AppendSet ==
    ASSUME NEW S, NEW s \in Seq(S), NEW x \in S
    PROVE  ToSet(Append(s, x)) = ToSet(s) \cup {x} /\ Append(s, x) \in Seq(S)
  <1>a. Append(s, x) \in Seq(S)
    OBVIOUS
  <1>1. PICK t \in Seq(S) : t = Append(s, x)
    BY <1>a, Zenon
  <1>2. DOMAIN t = DOMAIN s \cup {Len(s) + 1}
    BY <1>1
  <1>3. t[Len(s) + 1] = x /\ \A k \in DOMAIN s : t[k] = s[k]
    BY <1>1
  <1> QED
    BY <1>1, <1>2, <1>3 DEF ToSet

LEMMA TailSet ==
    ASSUME NEW S, NEW s \in Seq(S), s # << >>
    PROVE  /\ ToSet(s) = {Head(s)} \cup ToSet(Tail(s))
           /\ Tail(s) \in Seq(S) /\ Head(s) \in ToSet(s)
  <1>1. ToSet(Tail(s)) \subseteq ToSet(s) /\ Head(s) \in ToSet(s) /\ Tail(s) \in Seq(S)
    BY DEF ToSet
  <1>2. ASSUME NEW k \in DOMAIN s PROVE s[k] \in {Head(s)} \cup ToSet(Tail(s))
    <2>1. CASE k = 1
      BY <2>1
    <2>2. CASE k # 1
      <3>1. k - 1 \in DOMAIN Tail(s) /\ Tail(s)[k - 1] = s[k]
        BY <2>2
      <3> QED
        BY <3>1 DEF ToSet
    <2> QED
      BY <2>1, <2>2
  <1> QED
    BY <1>1, <1>2 DEF ToSet

LEMMA AddressesResolved ==
    ASSUME NEW h \in Hosts
    PROVE  AllAddresses(h) \subseteq Resolved
  BY DEF AllAddresses, Resolved

\* A new stream is sound.
LEMMA NewStream ==
    ASSUME NEW h \in Hosts, NEW n \in Nat, NEW kept, NEW status
    PROVE  Stream(h) \in StreamType /\ StreamSound(Stream(h), n, kept, status) /\ Stream(h).host = h
                /\ Stream(h).open
  BY EmptySet DEF Stream, StreamType, StreamSound

\* Nothing is taken away by what others keep, nor by a run that is given up.
LEMMA StreamStays ==
    ASSUME NEW s, NEW n, NEW kept, NEW status, StreamSound(s, n, kept, status),
           NEW more, kept \subseteq more, NEW later, later = "complete" => status = "complete"
    PROVE  StreamSound(s, n, more, later)
  BY DEF StreamSound

Answered(s, f, found, bad) == [s EXCEPT !.asked = @ \ {f}, !.todo = found, !.failed = @ \/ bad]

\* What the resolver of a hop knows of an answer it takes up.
AnswerTaken(s, n, kept, status, f, found, bad) ==
    /\ s \in StreamType /\ n \in Nat /\ StreamSound(s, n, kept, status)
    /\ f \in Family /\ f \in s.asked /\ s.open /\ s.todo = {}
    /\ found \subseteq Addr[s.host][f]
    /\ bad \in BOOLEAN /\ (~bad => found = Addr[s.host][f])
    /\ n > 1 => \E o \in kept : o.type = "dns_query" /\ o.hop = <<n - 1, f>>

LEMMA AnswerSound ==
    ASSUME NEW s, NEW n, NEW kept, NEW status, NEW f, NEW found, NEW bad,
           AnswerTaken(s, n, kept, status, f, found, bad),
           NEW t, t = Answered(s, f, found, bad)
    PROVE  t \in StreamType /\ StreamSound(t, n, kept, status) /\ t.host = s.host
  <1> USE DEF Answered, AnswerTaken
  <1>1. /\ t.host = s.host /\ t.asked = s.asked \ {f} /\ t.todo = found
        /\ t.chan = s.chan /\ t.got = s.got
    BY DEF StreamType
  <1>2. t.open /\ (t.failed <=> s.failed \/ bad)
    BY DEF StreamType
  <1>3. found \subseteq AllAddresses(s.host) /\ found \subseteq Resolved
    BY DEF AllAddresses, Resolved, StreamType
  <1>4. t \in StreamType
    BY <1>3 DEF StreamType
  <1>5. n > 1 /\ ~t.failed => t.got \cup t.todo = UNION {Addr[t.host][g] : g \in Family \ t.asked}
    <2> SUFFICES ASSUME n > 1, ~t.failed
                 PROVE  t.got \cup t.todo = UNION {Addr[t.host][g] : g \in Family \ t.asked}
      OBVIOUS
    <2>1. s.got = UNION {Addr[s.host][g] : g \in Family \ s.asked}
      BY <1>2 DEF StreamSound
    <2>2. Family \ t.asked = (Family \ s.asked) \cup {f}
      BY <1>1
    <2>3. found = Addr[s.host][f]
      BY <1>2
    <2> QED
      BY <1>1, <2>1, <2>2, <2>3
  <1>6. n > 1 => \A g \in Family \ t.asked : \E o \in kept : o.type = "dns_query" /\ o.hop = <<n - 1, g>>
    BY <1>1 DEF StreamSound
  <1> QED
    BY <1>1, <1>2, <1>3, <1>4, <1>5, <1>6 DEF StreamSound

Published(s, a, send) ==
    [s EXCEPT !.todo = @ \ {a},
              !.chan = IF send THEN Append(@, a) ELSE @,
              !.got = IF send THEN @ \cup {a} ELSE @,
              !.failed = @ \/ ~send]

LEMMA PublishSound ==
    ASSUME NEW s \in StreamType, NEW n \in Nat, NEW kept, NEW status, StreamSound(s, n, kept, status),
           NEW a \in s.todo, NEW send \in BOOLEAN,
           NEW t, t = Published(s, a, send)
    PROVE  t \in StreamType /\ StreamSound(t, n, kept, status) /\ t.host = s.host
  <1> USE DEF Published
  <1>1. /\ t.host = s.host /\ t.asked = s.asked /\ t.todo = s.todo \ {a}
        /\ t.chan = IF send THEN Append(s.chan, a) ELSE s.chan
        /\ t.got = IF send THEN s.got \cup {a} ELSE s.got
    BY DEF StreamType
  <1>2. (t.open <=> s.open) /\ (t.failed <=> s.failed \/ ~send)
    BY DEF StreamType
  <1>3. a \in AllAddresses(s.host) /\ a \in Resolved
    BY DEF StreamSound, StreamType
  <1>4. ToSet(t.chan) = (IF send THEN ToSet(s.chan) \cup {a} ELSE ToSet(s.chan)) /\ t.chan \in Seq(Resolved)
    <2>1. s.chan \in Seq(Resolved)
      BY DEF StreamType
    <2>2. /\ ToSet(Append(s.chan, a)) = ToSet(s.chan) \cup {a}
          /\ Append(s.chan, a) \in Seq(Resolved)
      BY <1>3, <2>1, AppendSet
    <2>3. CASE send
      BY <1>1, <2>2, <2>3
    <2>4. CASE ~send
      BY <1>1, <2>1, <2>4
    <2> QED
      BY <2>3, <2>4
  <1>5. t \in StreamType
    BY <1>1, <1>3, <1>4 DEF StreamType
  <1>6. /\ t.todo \subseteq AllAddresses(t.host)
        /\ ToSet(t.chan) \subseteq t.got /\ t.got \subseteq AllAddresses(t.host)
    BY <1>1, <1>3, <1>4 DEF StreamSound
  <1>7. ~t.open => t.asked = {} /\ t.todo = {}
    BY <1>1, <1>2 DEF StreamSound
  <1>8. n > 1 /\ ~t.failed => t.got \cup t.todo = UNION {Addr[t.host][f] : f \in Family \ t.asked}
    <2> SUFFICES ASSUME n > 1, ~t.failed
                 PROVE  t.got \cup t.todo = UNION {Addr[t.host][f] : f \in Family \ t.asked}
      OBVIOUS
    <2>1. send /\ ~s.failed
      BY <1>2
    <2>2. t.got \cup t.todo = s.got \cup s.todo
      BY <1>1, <2>1
    <2> QED
      BY <1>1, <2>1, <2>2 DEF StreamSound
  <1>9. n > 1 => \A f \in Family \ t.asked : \E o \in kept : o.type = "dns_query" /\ o.hop = <<n - 1, f>>
    BY <1>1 DEF StreamSound
  <1>10. n > 1 /\ status = "complete" => t.got \subseteq Allowed \cup ToSet(t.chan)
    <2>1. n > 1 /\ status = "complete" => s.got \subseteq Allowed \cup ToSet(s.chan)
      BY DEF StreamSound
    <2>2. CASE send
      BY <1>1, <1>4, <2>1, <2>2
    <2>3. CASE ~send
      BY <1>1, <1>4, <2>1, <2>3
    <2> QED
      BY <2>2, <2>3
  <1> QED
    BY <1>1, <1>5, <1>6, <1>7, <1>8, <1>9, <1>10 DEF StreamSound

Closed(s, bad) == [s EXCEPT !.open = FALSE, !.failed = @ \/ bad]

LEMMA CloseSound ==
    ASSUME NEW s \in StreamType, NEW n \in Nat, NEW kept, NEW status, StreamSound(s, n, kept, status),
           s.asked = {}, s.todo = {}, NEW bad \in BOOLEAN,
           NEW t, t = Closed(s, bad)
    PROVE  t \in StreamType /\ StreamSound(t, n, kept, status) /\ t.host = s.host
  <1> USE DEF Closed
  <1>1. /\ t.host = s.host /\ t.asked = {} /\ t.todo = {} /\ t.chan = s.chan /\ t.got = s.got
    BY DEF StreamType
  <1>2. ~t.open /\ (t.failed <=> s.failed \/ bad)
    BY DEF StreamType
  <1>3. t \in StreamType
    BY DEF StreamType
  <1>4. n > 1 /\ ~t.failed => t.got \cup t.todo = UNION {Addr[t.host][f] : f \in Family \ t.asked}
    BY <1>1, <1>2 DEF StreamSound
  <1> QED
    BY <1>1, <1>2, <1>3, <1>4 DEF StreamSound

Taken(s) == [s EXCEPT !.chan = Tail(@)]

\* HTTP takes an address, and the run is not complete when it is blocked.
AddressTaken(s, n, kept, status, later) ==
    /\ s \in StreamType /\ n \in Nat /\ StreamSound(s, n, kept, status) /\ s.chan # << >>
    /\ later = "complete" => status = "complete" /\ Head(s.chan) \in Allowed

LEMMA TakeSound ==
    ASSUME NEW s, NEW n, NEW kept, NEW status, NEW later, AddressTaken(s, n, kept, status, later),
           NEW t, t = Taken(s)
    PROVE  /\ t \in StreamType /\ StreamSound(t, n, kept, later) /\ t.host = s.host
           /\ Head(s.chan) \in AllAddresses(s.host)
  <1> USE DEF Taken, AddressTaken
  <1>1. /\ t.host = s.host /\ t.asked = s.asked /\ t.todo = s.todo /\ t.chan = Tail(s.chan) /\ t.got = s.got
    BY DEF StreamType
  <1>2. (t.open <=> s.open) /\ (t.failed <=> s.failed)
    BY DEF StreamType
  <1>3. /\ ToSet(s.chan) = {Head(s.chan)} \cup ToSet(Tail(s.chan))
        /\ Tail(s.chan) \in Seq(Resolved) /\ Head(s.chan) \in ToSet(s.chan)
    BY TailSet DEF StreamType
  <1>4. t \in StreamType
    BY <1>3 DEF StreamType
  <1>5. /\ t.todo \subseteq AllAddresses(t.host)
        /\ ToSet(t.chan) \subseteq t.got /\ t.got \subseteq AllAddresses(t.host)
        /\ Head(s.chan) \in AllAddresses(s.host)
    BY <1>1, <1>3 DEF StreamSound
  <1>6. ~t.open => t.asked = {} /\ t.todo = {}
    BY <1>1, <1>2 DEF StreamSound
  <1>7. n > 1 /\ ~t.failed => t.got \cup t.todo = UNION {Addr[t.host][f] : f \in Family \ t.asked}
    BY <1>1, <1>2 DEF StreamSound
  <1>8. n > 1 => /\ \A f \in Family \ t.asked : \E o \in kept : o.type = "dns_query" /\ o.hop = <<n - 1, f>>
                 /\ later = "complete" => t.got \subseteq Allowed \cup ToSet(t.chan)
    BY <1>1, <1>3 DEF StreamSound
  <1> QED
    BY <1>1, <1>4, <1>5, <1>6, <1>7, <1>8 DEF StreamSound

-----------------------------------------------------------------------------
(* The steps of a collection.                                              *)

LEMMA TypesStay ==
    ASSUME seeds' = seeds
    PROVE  Hosts' = Hosts /\ Resolved' = Resolved /\ StreamType' = StreamType /\ Response' = Response
  BY DEF Hosts, Resolved, StreamType, Response

collectionVars == <<mode, seeds, at, streams, pc, host, peer, cover, responses, retained>>

LEMMA CollectionStays ==
    ASSUME CollectionInv, UNCHANGED collectionVars
    PROVE  CollectionInv'
  BY TypesStay
  DEF collectionVars, CollectionInv, CollectionTypes, StreamsSound, HostOfSource, PeersOfHost,
      RunSound, JoinSound, Resolvers, Incomplete, source

\* A stream that takes an answer, publishes an address or closes.
LEMMA StreamMoves ==
    ASSUME CollectionInv, NEW i \in DOMAIN streams, NEW t \in StreamType,
           streams' = [streams EXCEPT ![i] = t], t.host = streams[i].host,
           StreamSound(t, i, retained', cover), retained \subseteq retained',
           UNCHANGED <<planVars, at, httpVars>>,
           pc = "joined" /\ mode = "full" => i = 1
    PROVE  CollectionInv'
  <1> USE TypesStay DEF planVars, httpVars
  <1>1. /\ streams' \in Seq(StreamType) /\ Len(streams') = Len(streams)
        /\ DOMAIN streams' = DOMAIN streams
        /\ \A j \in DOMAIN streams : streams'[j] = IF j = i THEN t ELSE streams[j]
    BY DEF CollectionInv, CollectionTypes
  <1>2. CollectionTypes'
    BY <1>1 DEF CollectionInv, CollectionTypes
  <1>3. StreamsSound'
    BY <1>1, StreamStays DEF CollectionInv, StreamsSound
  <1>4. HostOfSource'
    <2> SUFFICES ASSUME pc \in {"next", "acquire", "dial"} PROVE host = source'.host
      BY DEF HostOfSource
    <2>1. Len(streams) \in DOMAIN streams
      BY DEF CollectionInv, CollectionTypes
    <2> QED
      BY <1>1, <2>1 DEF CollectionInv, HostOfSource, source
  <1>5. PeersOfHost' /\ RunSound'
    BY DEF CollectionInv, PeersOfHost, RunSound
  <1>6. JoinSound'
    <2> SUFFICES ASSUME pc = "joined", mode = "full", NEW j \in 2..Len(streams)
                 PROVE  ~streams'[j].open /\ (cover = "complete" => ~Incomplete(j)')
      BY <1>1 DEF JoinSound, Resolvers
    <2>1. streams'[j] = streams[j] /\ j \in Resolvers
      BY <1>1 DEF Resolvers, CollectionInv, CollectionTypes
    <2> QED
      BY <2>1 DEF CollectionInv, JoinSound, Incomplete
  <1> QED
    BY <1>2, <1>3, <1>4, <1>5, <1>6 DEF CollectionInv

\* A lookup leaves a dns_query observation of its hop and family.
LEMMA QueryKept ==
    ASSUME NEW i, NEW f, NEW status
    PROVE  \E o \in LookupObservations(i, f, status) : o.type = "dns_query" /\ o.hop = <<i - 1, f>>
  <1>1. \A type, subject, s, n, scope, value, told :
          LET o == Observation(type, subject, s, n, scope, value, told) IN o.type = type /\ o.hop = n
    BY DEF Observation
  <1>2. \E subject, s, scope, value :
          Observation("dns_query", subject, s, <<i - 1, f>>, scope, value, status) \in LookupObservations(i, f, status)
    BY Zenon DEF LookupObservations
  <1> QED
    BY <1>1, <1>2

LEMMA ResolveSteps ==
    ASSUME CollectionInv, ResolveStep
    PROVE  CollectionInv'
  <1>1. PICK i \in DOMAIN streams :
          (\E f \in Family : Answer(i, f)) \/ (\E a \in Address : Publish(i, a)) \/ Close(i)
    BY DEF ResolveStep
  <1>2. PICK s \in StreamType : s = streams[i]
    BY DEF CollectionInv, CollectionTypes
  <1>3. i \in Nat /\ StreamSound(s, i, retained, cover)
    BY <1>2 DEF CollectionInv, CollectionTypes, StreamsSound
  <1>4. pc = "joined" /\ mode = "full" /\ (s.open \/ s.todo # {}) => i = 1
    BY <1>2, <1>3 DEF CollectionInv, CollectionTypes, JoinSound, Resolvers, StreamSound
  <1>5. ASSUME NEW f \in Family, Answer(i, f) PROVE CollectionInv'
    <2>1. PICK found \in SUBSET Addr[s.host][f], answered \in BOOLEAN :
            /\ answered => found # {} \/ Addr[s.host][f] = {}
            /\ streams' = [streams EXCEPT ![i].asked = @ \ {f}, ![i].todo = found,
                             ![i].failed = @ \/ ~answered \/ found # Addr[s.host][f]]
            /\ Keep(i, LookupObservations(i, f,
                         IF ~answered THEN "failed"
                         ELSE IF found = {} /\ s.host \notin Alias THEN "nodata" ELSE "answered"))
      BY <1>2, <1>5 DEF Answer
    <2>2. PICK bad \in BOOLEAN : bad <=> ~answered \/ found # Addr[s.host][f]
      OBVIOUS
    <2>3. PICK t : t = Answered(s, f, found, bad)
      OBVIOUS
    <2>4. streams' = [streams EXCEPT ![i] = t]
      BY <1>2, <2>1, <2>2, <2>3 DEF CollectionInv, CollectionTypes, Answered
    <2>5. PICK status : Keep(i, LookupObservations(i, f, status))
      BY <2>1
    <2>6. retained \subseteq retained' /\ (i > 1 => LookupObservations(i, f, status) \subseteq retained')
      BY <1>3, <2>5 DEF Keep
    <2>7. \E o \in LookupObservations(i, f, status) : o.type = "dns_query" /\ o.hop = <<i - 1, f>>
      BY QueryKept
    <2>8. s.open /\ f \in s.asked /\ s.todo = {} /\ UNCHANGED <<planVars, at, httpVars>>
      BY <1>2, <1>5 DEF Answer
    <2>9. t \in StreamType /\ StreamSound(t, i, retained', cover) /\ t.host = s.host
      <3>1. i > 1 => \E o \in retained' : o.type = "dns_query" /\ o.hop = <<i - 1, f>>
        BY <2>6, <2>7
      <3>2. PICK kept : kept = retained'
        OBVIOUS
      <3>3. PICK outcome : outcome = cover
        OBVIOUS
      <3>4. StreamSound(s, i, kept, outcome)
        BY <1>3, <2>6, <3>2, <3>3, StreamStays
      <3>5. i > 1 => \E o \in kept : o.type = "dns_query" /\ o.hop = <<i - 1, f>>
        BY <3>1, <3>2
      <3>6. t \in StreamType /\ StreamSound(t, i, kept, outcome) /\ t.host = s.host
        <4>1. AnswerTaken(s, i, kept, outcome, f, found, bad)
          BY <1>3, <2>2, <2>8, <3>4, <3>5 DEF AnswerTaken
        <4> QED
          BY <2>3, <4>1, AnswerSound
      <3> QED
        BY <3>2, <3>3, <3>6
    <2> QED
      BY <1>2, <1>4, <2>4, <2>6, <2>8, <2>9, StreamMoves
  <1>6. ASSUME NEW a \in Address, Publish(i, a) PROVE CollectionInv'
    <2>1. PICK send \in BOOLEAN :
            streams' = [streams EXCEPT ![i].todo = @ \ {a},
                            ![i].chan = IF send THEN Append(@, a) ELSE @,
                            ![i].got = IF send THEN @ \cup {a} ELSE @,
                            ![i].failed = @ \/ ~send]
      BY <1>6 DEF Publish
    <2>2. PICK t : t = Published(s, a, send)
      OBVIOUS
    <2>3. streams' = [streams EXCEPT ![i] = t]
      BY <1>2, <2>1, <2>2 DEF CollectionInv, CollectionTypes, Published
    <2>4. a \in s.todo /\ retained' = retained /\ UNCHANGED <<planVars, at, httpVars>>
      BY <1>2, <1>6 DEF Publish
    <2>5. t \in StreamType /\ StreamSound(t, i, retained', cover) /\ t.host = s.host
      <3>1. PICK kept : kept = retained
        OBVIOUS
      <3>2. PICK outcome : outcome = cover
        OBVIOUS
      <3>3. t \in StreamType /\ StreamSound(t, i, kept, outcome) /\ t.host = s.host
        BY <1>3, <2>2, <2>4, <3>1, <3>2, PublishSound
      <3> QED
        BY <2>4, <3>1, <3>2, <3>3
    <2> QED
      BY <1>2, <1>4, <2>3, <2>4, <2>5, StreamMoves
  <1>7. CASE Close(i)
    <2>1. PICK bad \in BOOLEAN : bad <=> i = 1 /\ ended
      OBVIOUS
    <2>2. PICK t : t = Closed(s, bad)
      OBVIOUS
    <2>3. streams' = [streams EXCEPT ![i] = t]
      BY <1>2, <1>7, <2>1, <2>2 DEF Close, CollectionInv, CollectionTypes, Closed
    <2>4. s.open /\ s.asked = {} /\ s.todo = {} /\ retained' = retained /\ UNCHANGED <<planVars, at, httpVars>>
      BY <1>2, <1>7 DEF Close
    <2>5. t \in StreamType /\ StreamSound(t, i, retained', cover) /\ t.host = s.host
      <3>1. PICK kept : kept = retained
        OBVIOUS
      <3>2. PICK outcome : outcome = cover
        OBVIOUS
      <3>3. t \in StreamType /\ StreamSound(t, i, kept, outcome) /\ t.host = s.host
        BY <1>3, <2>2, <2>4, <3>1, <3>2, CloseSound
      <3> QED
        BY <2>4, <3>1, <3>2, <3>3
    <2> QED
      BY <1>2, <1>4, <2>3, <2>4, <2>5, StreamMoves
  <1> QED
    BY <1>1, <1>5, <1>6, <1>7

\* The streams of a run that keeps what it had and is no more complete.
LEMMA StreamsStay ==
    ASSUME CollectionInv, UNCHANGED <<seeds, streams>>, retained \subseteq retained',
           cover' = "complete" => cover = "complete"
    PROVE  StreamsSound'
  BY StreamStays DEF CollectionInv, StreamsSound

LEMMA NextAddresses ==
    ASSUME CollectionInv, NextAddress
    PROVE  CollectionInv'
  <1> USE TypesStay DEF NextAddress, planVars
  <1>1. PICK i \in DOMAIN streams : i = Len(streams)
    BY DEF CollectionInv, CollectionTypes
  <1>2. PICK s \in StreamType : s = streams[i]
    BY DEF CollectionInv, CollectionTypes
  <1>3. s = source /\ i \in Nat /\ s.chan # << >> /\ s.host = host /\ pc = "next"
    BY <1>1, <1>2 DEF source, CollectionInv, CollectionTypes, HostOfSource
  <1>4. PICK t : t = Taken(s)
    OBVIOUS
  <1>5. streams' = [streams EXCEPT ![i] = t]
    BY <1>1, <1>2, <1>4 DEF CollectionInv, CollectionTypes, Taken
  <1>6. /\ cover' = "complete" => cover = "complete" /\ Head(s.chan) \in Allowed
        /\ pc' \in {"next", "acquire"} /\ (pc' = "acquire" => peer' = Head(s.chan) /\ Head(s.chan) \in Allowed)
    BY <1>3
  <1>7. /\ t \in StreamType /\ StreamSound(t, i, retained', cover') /\ t.host = s.host
        /\ Head(s.chan) \in AllAddresses(s.host)
    <2>1. PICK kept : kept = retained
      OBVIOUS
    <2>2. PICK outcome : outcome = cover
      OBVIOUS
    <2>3. PICK later : later = cover'
      OBVIOUS
    <2>4. StreamSound(s, i, kept, outcome)
      BY <1>1, <1>2, <2>1, <2>2 DEF CollectionInv, StreamsSound
    <2>5. later = "complete" => outcome = "complete" /\ Head(s.chan) \in Allowed
      BY <1>6, <2>2, <2>3
    <2>6. /\ t \in StreamType /\ StreamSound(t, i, kept, later) /\ t.host = s.host
          /\ Head(s.chan) \in AllAddresses(s.host)
      <3>1. AddressTaken(s, i, kept, outcome, later)
        BY <1>3, <2>4, <2>5 DEF AddressTaken
      <3> QED
        BY <1>4, <3>1, TakeSound
    <2> QED
      BY <2>1, <2>3, <2>6
  <1>8. /\ streams' \in Seq(StreamType) /\ Len(streams') = Len(streams)
        /\ DOMAIN streams' = DOMAIN streams
        /\ \A j \in DOMAIN streams : streams'[j] = IF j = i THEN t ELSE streams[j]
    <2>1. t \in StreamType /\ StreamType' = StreamType
      BY <1>7
    <2> HIDE DEF NextAddress
    <2> QED
      BY <1>1, <1>5, <2>1 DEF CollectionInv, CollectionTypes
  <1>9. CollectionTypes'
    BY <1>6, <1>8 DEF CollectionInv, CollectionTypes
  <1>10. StreamsSound'
    BY <1>6, <1>7, <1>8, StreamStays DEF CollectionInv, StreamsSound
  <1>11. HostOfSource'
    BY <1>1, <1>3, <1>7, <1>8 DEF HostOfSource, source
  <1>12. PeersOfHost'
    BY <1>3, <1>6, <1>7 DEF CollectionInv, PeersOfHost, AllAddresses
  <1>13. RunSound' /\ JoinSound'
    BY <1>6 DEF CollectionInv, RunSound, JoinSound
  <1> QED
    BY <1>9, <1>10, <1>11, <1>12, <1>13 DEF CollectionInv

\* The end of a hop that leaves streams and responses as they are.
LEMMA HopEnds ==
    ASSUME CollectionInv, pc \in {"next", "acquire", "dial"},
           UNCHANGED <<planVars, at, streams, host, peer, responses, retained>>,
           \/ pc' = "join" /\ cover' = "partial"
           \/ pc' \in {"next", "dial"} /\ pc # "next" /\ cover' = cover /\ (pc' = "dial" => pc = "acquire")
    PROVE  CollectionInv'
  <1> USE TypesStay DEF planVars
  <1>1. CollectionTypes'
    BY DEF CollectionInv, CollectionTypes
  <1>2. StreamsSound'
    BY StreamsStay
  <1>3. HostOfSource' /\ PeersOfHost'
    BY DEF CollectionInv, HostOfSource, PeersOfHost, source, AllAddresses
  <1>4. RunSound' /\ JoinSound'
    BY DEF CollectionInv, RunSound, JoinSound
  <1> QED
    BY <1>1, <1>2, <1>3, <1>4 DEF CollectionInv

LEMMA HopSteps ==
    ASSUME CollectionInv, NoAddress \/ Acquire \/ NoResponse
    PROVE  CollectionInv'
  <1>1. CASE NoAddress
    BY <1>1, HopEnds DEF NoAddress, EndRun
  <1>2. CASE Acquire
    BY <1>2, HopEnds DEF Acquire, EndRun
  <1>3. CASE NoResponse
    BY <1>3, HopEnds DEF NoResponse, EndRun
  <1> QED
    BY <1>1, <1>2, <1>3

\* A response of the current address to the current host.
LEMMA Responded ==
    ASSUME CollectionInv, pc = "dial", seeds' = seeds,
           NEW body \in {"whole", "truncated", "scripts", "failed"}, NEW location \in Location \cup {None},
           responses' = Append(responses, [host |-> host, peer |-> peer, body |-> body, location |-> location])
    PROVE  /\ responses' \in Seq(Response) /\ Response' = Response
           /\ Len(responses') = Len(responses) + 1
           /\ \A n \in DOMAIN responses : responses'[n] = responses[n]
           /\ Last(responses').body = body /\ Last(responses').location = location
           /\ responses'[Len(responses')] = Last(responses') /\ responses' # << >>
           /\ \A n \in DOMAIN responses' : responses'[n].peer \in AllAddresses(responses'[n].host)
  <1>1. host \in Hosts
    <2>1. source \in StreamType /\ host = source.host
      BY DEF CollectionInv, CollectionTypes, HostOfSource, source
    <2> QED
      BY <2>1 DEF StreamType
  <1>2. peer \in AllAddresses(host) /\ peer \in Resolved
    BY <1>1, AddressesResolved DEF CollectionInv, PeersOfHost
  <1>3. PICK r : r = [host |-> host, peer |-> peer, body |-> body, location |-> location]
    OBVIOUS
  <1>4. r \in Response /\ r.host = host /\ r.peer = peer /\ r.body = body /\ r.location = location
    BY <1>1, <1>2, <1>3 DEF Response
  <1>5. responses \in Seq(Response) /\ responses' = Append(responses, r) /\ Response' = Response
    BY <1>3, TypesStay DEF CollectionInv, CollectionTypes
  <1>6. /\ responses' \in Seq(Response) /\ Len(responses') = Len(responses) + 1
        /\ DOMAIN responses' = DOMAIN responses \cup {Len(responses) + 1}
        /\ \A n \in DOMAIN responses : responses'[n] = responses[n]
        /\ responses'[Len(responses) + 1] = r /\ responses' # << >>
    BY <1>4, <1>5
  <1>7. Last(responses') = r
    BY <1>6 DEF Last
  <1>8. \A n \in DOMAIN responses' : responses'[n].peer \in AllAddresses(responses'[n].host)
    BY <1>2, <1>4, <1>6 DEF CollectionInv, PeersOfHost
  <1> QED
    BY <1>4, <1>5, <1>6, <1>7, <1>8

\* A run that takes a page and is still complete has read it to its end.
LEMMA PageTaken ==
    ASSUME CollectionInv, pc = "dial", seeds' = seeds,
           NEW body \in {"whole", "truncated", "scripts", "failed"}, NEW location \in Location \cup {None},
           responses' = Append(responses, [host |-> host, peer |-> peer, body |-> body, location |-> location]),
           pc' \in {"next", "join"},
           cover' = "complete" => /\ cover = "complete" /\ body \in {"whole", "scripts"}
                                  /\ pc' = "join" => location = None
    PROVE  responses' \in Seq(Response)' /\ PeersOfHost' /\ RunSound' /\ JoinSound'
  <1>1. PeersOfHost' /\ JoinSound' /\ responses' \in Seq(Response)'
    BY Responded DEF PeersOfHost, JoinSound, AllAddresses
  <1>2. RunSound'
    <2> SUFFICES ASSUME cover' = "complete"
                 PROVE  /\ \A n \in DOMAIN responses' : responses'[n].body \in {"whole", "scripts"}
                        /\ pc' = "join" => responses' # << >> /\ Last(responses').location = None
      BY DEF RunSound
    <2>1. \A n \in DOMAIN responses : responses[n].body \in {"whole", "scripts"}
      BY DEF CollectionInv, RunSound
    <2>2. responses \in Seq(Response) /\ responses' \in Seq(Response)
      BY Responded DEF CollectionInv, CollectionTypes
    <2>3. \A n \in DOMAIN responses' : n \in DOMAIN responses \/ n = Len(responses')
      BY <2>2, Responded
    <2> QED
      BY <2>1, <2>3, Responded
  <1> QED
    BY <1>1, <1>2

LEMMA PageSteps ==
    ASSUME CollectionInv,
           NEW body \in {"whole", "truncated", "scripts"}, NEW location \in Location \cup {None},
           Page(body, location)
    PROVE  CollectionInv'
  <1> USE TypesStay DEF planVars
  <1>1. /\ pc = "dial" /\ UNCHANGED <<mode, seeds, at, retained>>
        /\ responses' = Append(responses, [host |-> host, peer |-> peer, body |-> body, location |-> location])
        /\ cover' = "complete" => cover = "complete" /\ body # "truncated"
    BY DEF Page, Respond
  <1>2. CASE pc' = "join" /\ UNCHANGED <<streams, host>> /\ (cover' = "complete" => location = None)
    <2>1. responses' \in Seq(Response)' /\ PeersOfHost' /\ RunSound' /\ JoinSound'
      BY <1>1, <1>2, PageTaken
    <2>2. CollectionTypes' /\ HostOfSource'
      BY <1>1, <1>2, <2>1 DEF CollectionInv, CollectionTypes, HostOfSource
    <2>3. StreamsSound'
      BY <1>1, <1>2, StreamsStay
    <2> QED
      BY <2>1, <2>2, <2>3 DEF CollectionInv
  <1>3. CASE Follow(location) /\ location \in Location
    <2>1. pc' = "next" /\ host' = location /\ streams' = Append(streams, Stream(location))
      BY <1>3 DEF Follow
    <2>2. responses' \in Seq(Response)' /\ PeersOfHost' /\ RunSound' /\ JoinSound'
      BY <1>1, <2>1, PageTaken
    <2>3. location \in Hosts
      BY <1>3 DEF Hosts
    <2>4. PICK n \in Nat : n = Len(streams) + 1
      BY DEF CollectionInv, CollectionTypes
    <2>5. PICK t : t = Stream(location)
      OBVIOUS
    <2>6. t \in StreamType /\ StreamSound(t, n, retained', cover') /\ t.host = location
      <3>1. PICK kept : kept = retained'
        OBVIOUS
      <3>2. PICK outcome : outcome = cover'
        OBVIOUS
      <3> QED
        BY <2>3, <2>5, <3>1, <3>2, NewStream
    <2>7. /\ streams' \in Seq(StreamType) /\ Len(streams') = n
          /\ DOMAIN streams' = DOMAIN streams \cup {n} /\ streams'[n] = t
          /\ \A j \in DOMAIN streams : streams'[j] = streams[j]
      BY <2>1, <2>4, <2>5, <2>6 DEF CollectionInv, CollectionTypes
    <2>8. CollectionTypes'
      BY <1>1, <2>1, <2>2, <2>4, <2>7 DEF CollectionInv, CollectionTypes
    <2>9. StreamsSound'
      BY <1>1, <2>6, <2>7, StreamStays DEF CollectionInv, StreamsSound
    <2>10. HostOfSource'
      BY <2>1, <2>6, <2>7 DEF HostOfSource, source
    <2> QED
      BY <2>2, <2>8, <2>9, <2>10 DEF CollectionInv
  <1> QED
    BY <1>2, <1>3 DEF Page

LEMMA BodyFailsSteps ==
    ASSUME CollectionInv, BodyFails
    PROVE  CollectionInv'
  <1> USE TypesStay DEF planVars
  <1>1. /\ pc = "dial" /\ UNCHANGED <<mode, seeds, at, streams, host, retained>>
        /\ responses' = Append(responses, [host |-> host, peer |-> peer, body |-> "failed", location |-> None])
        /\ pc' = "join" /\ cover' = "partial"
    BY DEF BodyFails, Respond, EndRun
  <1>2. responses' \in Seq(Response)' /\ PeersOfHost' /\ RunSound' /\ JoinSound'
    BY <1>1, PageTaken
  <1>3. CollectionTypes' /\ HostOfSource'
    BY <1>1, <1>2 DEF CollectionInv, CollectionTypes, HostOfSource
  <1>4. StreamsSound'
    BY <1>1, StreamsStay
  <1> QED
    BY <1>2, <1>3, <1>4 DEF CollectionInv

LEMMA JoinSteps ==
    ASSUME CollectionInv, Join
    PROVE  CollectionInv'
  <1> USE TypesStay DEF Join, planVars
  <1>1. CollectionTypes' /\ HostOfSource' /\ PeersOfHost'
    BY DEF CollectionInv, CollectionTypes, HostOfSource, PeersOfHost
  <1>2. cover' = "complete" => cover = "complete" /\ \A i \in Resolvers : ~Incomplete(i)
    OBVIOUS
  <1>3. StreamsSound'
    BY <1>2, StreamsStay
  <1>4. RunSound' /\ JoinSound'
    BY <1>2 DEF CollectionInv, RunSound, JoinSound, AllResolved, Resolvers, Incomplete
  <1> QED
    BY <1>1, <1>3, <1>4 DEF CollectionInv

\* The first stream of a seed.
SeedStreamSound ==
    \A i \in Nat : streams = <<Stream(seeds[i])>> =>
      streams \in Seq(StreamType) /\ StreamsSound /\ Len(streams) = 1 /\ source.host = seeds[i]

LEMMA FirstStream == SeedStreamSound
  <1> SUFFICES ASSUME NEW i \in Nat, streams = <<Stream(seeds[i])>>
               PROVE  streams \in Seq(StreamType) /\ StreamsSound /\ Len(streams) = 1 /\ source.host = seeds[i]
    BY DEF SeedStreamSound
  <1>1. seeds[i] \in Hosts
    BY DEF Hosts
  <1>2. PICK h \in Hosts : h = seeds[i]
    BY <1>1, Zenon
  <1>3. PICK kept : kept = retained
    OBVIOUS
  <1>4. PICK outcome : outcome = cover
    OBVIOUS
  <1>5. Stream(h) \in StreamType /\ StreamSound(Stream(h), 1, kept, outcome) /\ Stream(h).host = h
    BY NewStream
  <1>6. streams = <<Stream(h)>>
    BY <1>2
  <1> QED
    BY <1>2, <1>3, <1>4, <1>5, <1>6 DEF StreamsSound, source

LEMMA NextSeeds ==
    ASSUME CollectionInv, NextSeed
    PROVE  CollectionInv'
  <1> USE TypesStay DEF planVars
  <1>1. /\ UNCHANGED <<mode, seeds>> /\ responses' = << >> /\ cover' = "complete"
    BY DEF NextSeed
  <1>2. CASE at < Len(seeds)
    <2>1. /\ at' = at + 1 /\ streams' = <<Stream(seeds[at + 1])>>
          /\ pc' = StartHTTP(mode) /\ host' = seeds[at + 1]
      BY <1>2 DEF NextSeed
    <2>2. PICK i \in Nat : i = at + 1
      BY DEF CollectionInv, CollectionTypes
    <2>3. streams' = <<Stream(seeds[i])>>'
      BY <1>1, <2>1, <2>2 DEF Stream
    <2>4. (streams \in Seq(StreamType) /\ StreamsSound /\ Len(streams) = 1 /\ source.host = seeds[i])'
      <3>1. SeedStreamSound'
        BY FirstStream, PTL
      <3> QED
        BY <2>3, <3>1 DEF SeedStreamSound
    <2>5. CollectionTypes'
      BY <1>1, <2>1, <2>2, <2>4 DEF CollectionInv, CollectionTypes, StartHTTP
    <2>6. HostOfSource'
      BY <1>1, <2>1, <2>2, <2>4 DEF HostOfSource
    <2>7. PeersOfHost' /\ RunSound' /\ JoinSound'
      BY <1>1, <2>1, <2>4 DEF CollectionInv, CollectionTypes, StartHTTP, PeersOfHost, RunSound, JoinSound
    <2> QED
      BY <2>4, <2>5, <2>6, <2>7 DEF CollectionInv
  <1>3. CASE ~(at < Len(seeds))
    <2>1. pc' = "collected" /\ streams' = << >> /\ at' = at
      BY <1>3 DEF NextSeed
    <2> QED
      BY <1>1, <2>1 DEF CollectionInv, CollectionTypes, StreamsSound, HostOfSource, PeersOfHost, RunSound, JoinSound
  <1> QED
    BY <1>2, <1>3

LEMMA CollectionAccounts == CollectionInv => HTTPAccounts
  <1> SUFFICES ASSUME CollectionInv, SeedDone, mode = "full"
               PROVE  /\ \A i \in Resolvers, f \in Family :
                           ~streams[i].open /\ \E o \in retained : o.type = "dns_query" /\ o.hop = <<i - 1, f>>
                      /\ cover = "complete" =>
                           /\ responses # << >> /\ Last(responses).location = None
                           /\ \A n \in DOMAIN responses : responses[n].body \in {"whole", "scripts"}
                           /\ \A i \in Resolvers : ResolvedInFull(i)
    BY DEF HTTPAccounts, CollectionInv
  <1>1. pc = "joined"
    BY DEF SeedDone
  <1>2. ASSUME NEW i \in Resolvers
        PROVE  /\ i \in DOMAIN streams /\ i > 1 /\ streams[i] \in StreamType
               /\ StreamSound(streams[i], i, retained, cover) /\ ~streams[i].open
               /\ cover = "complete" => ~Incomplete(i)
    BY <1>1 DEF CollectionInv, CollectionTypes, StreamsSound, JoinSound, Resolvers
  <1>3. ASSUME NEW i \in Resolvers, NEW f \in Family
        PROVE  ~streams[i].open /\ \E o \in retained : o.type = "dns_query" /\ o.hop = <<i - 1, f>>
    BY <1>2 DEF StreamSound
  <1>4. ASSUME cover = "complete", NEW i \in Resolvers PROVE ResolvedInFull(i)
    <2>1. /\ streams[i].asked = {} /\ streams[i].todo = {} /\ ~streams[i].failed
          /\ ToSet(streams[i].chan) \subseteq Allowed
      BY <1>2, <1>4 DEF StreamSound, Incomplete
    <2>2. streams[i].got = UNION {Addr[streams[i].host][f] : f \in Family}
      BY <1>2, <2>1 DEF StreamSound
    <2>3. streams[i].got \subseteq Allowed
      BY <1>2, <1>4, <2>1 DEF StreamSound
    <2> QED
      BY <2>2, <2>3 DEF ResolvedInFull, AllAddresses
  <1> QED
    BY <1>1, <1>3, <1>4 DEF CollectionInv, RunSound

-----------------------------------------------------------------------------

LEMMA CollectionInit == AnalysisInit => CollectionInv
  <1> SUFFICES ASSUME AnalysisInit PROVE CollectionInv
    OBVIOUS
  <1>1. /\ mode \in {"full", "dns"} /\ at = 1 /\ streams = <<Stream(seeds[1])>>
        /\ pc \in {"next", "joined"} /\ (mode = "full" => pc = "next")
        /\ host = seeds[1] /\ responses = << >>
    BY DEF AnalysisInit, Init, StartHTTP
  <1>2. streams \in Seq(StreamType) /\ StreamsSound /\ Len(streams) = 1 /\ source.host = seeds[1]
    BY <1>1, FirstStream DEF SeedStreamSound
  <1> QED
    BY <1>1, <1>2 DEF CollectionInv, CollectionTypes, HostOfSource, PeersOfHost, RunSound, JoinSound

LEMMA CollectionNext ==
    ASSUME CollectionInv, [Next]_vars
    PROVE  CollectionInv'
  <1>1. CASE CollectStep
    BY <1>1, ResolveSteps, NextAddresses, HopSteps, PageSteps, BodyFailsSteps, JoinSteps, NextSeeds
    DEF CollectStep, HTTPStep
  <1>2. CASE UNCHANGED collectionVars
    BY <1>2, CollectionStays
  <1>3. DetectRules \/ DetectSuffixes => UNCHANGED collectionVars
    BY DEF DetectRules, DetectSuffixes, Detect, webRest, collectionVars, planVars, httpVars
  <1>4. Webtech \/ EnrichPrefixes \/ EnrichASN => UNCHANGED collectionVars
    BY DEF Webtech, EnrichPrefixes, EnrichASN, webRest, collectionVars, planVars, httpVars
  <1>5. Report \/ ReplayReport \/ (\E v \in View : Reclassify(v)) => UNCHANGED collectionVars
    BY DEF Report, ReplayReport, Reclassify, webRest, collectionVars, planVars, httpVars
  <1>6. (\E a \in Address : LookupIP(a)) \/ EndContext \/ UNCHANGED vars => UNCHANGED collectionVars
    BY DEF LookupIP, EndContext, vars, webVars, collectionVars, planVars, httpVars
  <1> QED
    BY <1>1, <1>2, <1>3, <1>4, <1>5, <1>6 DEF Next, AnalyzeStep, Collect

\* Collector.Collect in internal/collect/http and its redirectResolver: an
\* address that one hop's resolver brings is never tried for another hop's
\* host; when a seed is taken, its resolvers have returned and every lookup of
\* theirs is kept; and HTTP coverage that says "complete" has lost, left out
\* and blocked nothing, however DNS answers, publications, redirects, budgets
\* and the end of the context interleave.
THEOREM HTTPCollectionAccounts == Spec => []HTTPAccounts
  <1>1. AnalysisInit => CollectionInv
    BY CollectionInit
  <1>2. CollectionInv /\ [Next]_vars => CollectionInv'
    BY CollectionNext
  <1>3. CollectionInv => HTTPAccounts
    BY CollectionAccounts
  <1> QED
    BY <1>1, <1>2, <1>3, PTL DEF Spec

-----------------------------------------------------------------------------
(* Classification: what is found when nothing cuts it off.                 *)

WithRules == UNION {RuleEvidence(o) : o \in observed}

WithSuffixes(v) ==
    WithRules \cup (IF SuffixState[v] = "none" THEN {} ELSE UNION {SuffixEvidence(v, o) : o \in observed})

WithPrefixes(v) ==
    WithSuffixes(v) \cup Unmapped(observed, WithSuffixes(v))
      \cup (IF Usable(PrefixSource[v])
            THEN UNION {PrefixEvidence(in, Kept(v, in.address)) : in \in AddressInputs(observed)} ELSE {})

ASNInputs(v) == {in \in AddressInputs(observed) : Usable(ASNSource[v][FamilyOf[in.address]])}

Uninterrupted(v) == WithPrefixes(v) \cup UNION {ASNEvidence(v, in) : in \in ASNInputs(v)}

Unspoilt == \A c \in coverage : ~Spoils(c[2])

-----------------------------------------------------------------------------
(* The inductive invariant of the classification.                          *)

\* The addresses that are looked up are addresses of the model.
Located(o) == o.type \in {"dns_address", "http_response"}

AddressesKnown ==
    /\ \A o \in observed : Located(o) => o.value \in Address
    /\ \A o \in retained : ~Located(o)

Stages == {"collect", "rules", "suffix", "prefix", "asn", "report", "stored", "replayed", "lookup", "looked"}

StagesSound ==
    /\ stage \in Stages
    /\ stage # "collect" => view \in View
    /\ stage \in {"collect", "lookup", "looked"} => evidence = {} /\ report = NoReport /\ replay = NoReport
    /\ stage = "rules" => evidence = {}
    /\ replay # NoReport => stage = "replayed" /\ report # NoReport
    /\ lookup # None => stage = "looked"

\* Evidence cites what was observed, and has one of the three strengths.
EvidenceSound ==
    \A e \in evidence : e.obs \subseteq observed /\ e.strength \in 1..3

\* Evidence is missing only if the context has ended and the coverage says so.
StageEvidence ==
    ~ended \/ Unspoilt =>
      /\ stage = "suffix" => evidence = WithRules
      /\ stage = "prefix" => evidence = WithSuffixes(view)
      /\ stage = "asn" => evidence = WithPrefixes(view)
      /\ stage = "report" => evidence = Uninterrupted(view)

\* Coverage that is not spoilt has all sources.
SourcesWhole ==
    Unspoilt =>
      /\ stage \in {"prefix", "asn", "report"} => SuffixState[view] # "none"
      /\ stage \in {"asn", "report"} =>
           \A in \in AddressInputs(observed) :
             /\ Usable(PrefixSource[view]) /\ Kept(view, in.address) = Associations[view][in.address]
             /\ Usable(ASNSource[view][FamilyOf[in.address]])

ReportSound(r) ==
    /\ r.status # "refused" /\ r.findings = Build(r.evidence)
    /\ \A e \in r.evidence : e.strength \in 1..3
    /\ ~r.interrupted => r.evidence = Uninterrupted(r.view)
    /\ r.status = "complete" => r.evidence = FullEvidence(r.view)

ReportsSound ==
    /\ report # NoReport => ReportSound(report)
    /\ replay # NoReport => ReportSound(replay)

LookupSound ==
    lookup # None /\ lookup.status = "complete" =>
      lookup.associations = Associations[view][lookup.address] /\ lookup.asn = ASNOf[view][lookup.address]

ClassificationInv ==
    /\ AddressesKnown
    /\ StagesSound /\ EvidenceSound
    /\ StageEvidence /\ SourcesWhole
    /\ ReportsSound /\ LookupSound

-----------------------------------------------------------------------------
(* Findings: aggregate.Build.                                              *)

Graded(items) == \A e \in items : e.strength \in 1..3

LEMMA StrongestIs ==
    ASSUME NEW items, items # {}, Graded(items)
    PROVE  Strongest(items) \in items /\ \A o \in items : o.strength <= Strongest(items).strength
  <1>1. \E e \in items : \A o \in items : o.strength <= e.strength
    <2>1. CASE \E e \in items : e.strength = 3
      BY <2>1 DEF Graded
    <2>2. CASE (\A e \in items : e.strength # 3) /\ \E e \in items : e.strength = 2
      BY <2>2 DEF Graded
    <2>3. CASE \A e \in items : e.strength # 3 /\ e.strength # 2
      BY <2>3 DEF Graded
    <2> QED
      BY <2>1, <2>2, <2>3
  <1> QED
    BY <1>1 DEF Strongest

\* Each provenance is left with one piece of evidence, the strongest.
LEMMA DeduplicateIs ==
    ASSUME NEW items, Graded(items)
    PROVE  /\ Deduplicate(items) \subseteq items
           /\ \A e \in items : \E c \in Deduplicate(items) :
                Provenance(c) = Provenance(e) /\ e.strength <= c.strength
           /\ \A c, d \in Deduplicate(items) : Provenance(c) = Provenance(d) => c = d
  <1> DEFINE Same(e) == {o \in items : Provenance(o) = Provenance(e)}
  <1>1. ASSUME NEW e \in items
        PROVE  /\ Strongest(Same(e)) \in items /\ Provenance(Strongest(Same(e))) = Provenance(e)
               /\ e.strength <= Strongest(Same(e)).strength
    <2>1. e \in Same(e) /\ Graded(Same(e))
      BY DEF Graded
    <2>2. PICK S : S = Same(e)
      OBVIOUS
    <2>3. Strongest(S) \in S /\ \A o \in S : o.strength <= Strongest(S).strength
      BY <2>1, <2>2, StrongestIs
    <2> QED
      BY <2>1, <2>2, <2>3
  <1>2. Deduplicate(items) = {Strongest(Same(e)) : e \in items}
    BY Zenon DEF Deduplicate
  <1>3. ASSUME NEW e \in items, NEW d \in items, Provenance(e) = Provenance(d)
        PROVE  Same(e) = Same(d)
    BY <1>3
  <1> HIDE DEF Same
  <1>4. ASSUME NEW c \in Deduplicate(items), NEW d \in Deduplicate(items), Provenance(c) = Provenance(d)
        PROVE  c = d
    <2>1. PICK e \in items : c = Strongest(Same(e))
      BY <1>2
    <2>2. PICK g \in items : d = Strongest(Same(g))
      BY <1>2
    <2>3. Provenance(e) = Provenance(g)
      BY <1>1, <1>4, <2>1, <2>2
    <2> QED
      BY <1>3, <2>1, <2>2, <2>3
  <1> QED
    BY <1>1, <1>2, <1>4

Grouped(items, k) == {e \in items : Key(e) = k}

KeysOf(items) == {Key(e) : e \in items}

FindingOf(items, k) ==
    [key |-> k, strength |-> Strongest(Deduplicate(Grouped(items, k))).strength,
     cites |-> Deduplicate(Grouped(items, k)), conflicts |-> {l \in KeysOf(items) : Conflicting(k, l)}]

LEMMA BuildIs ==
    ASSUME NEW items
    PROVE  Build(items) = {FindingOf(items, k) : k \in KeysOf(items)}
  BY Zenon DEF Build, FindingOf, KeysOf, Grouped

\* What FindingsSound says of a report.
Accounted(items, findings) ==
    /\ \A e \in items : Cardinality({f \in findings : f.key = Key(e)}) = 1
    /\ \A f \in findings :
         /\ \A e \in items : Key(e) = f.key =>
              /\ e.strength <= f.strength
              /\ Cardinality({c \in f.cites : Provenance(c) = Provenance(e) /\ c.strength >= e.strength}) = 1
         /\ \A k \in f.conflicts : \E g \in findings : g.key = k /\ f.key \in g.conflicts

LEMMA SingletonCounts ==
    ASSUME NEW S, NEW x \in S, \A y \in S : y = x
    PROVE  Cardinality(S) = 1
  <1>1. S = {x}
    OBVIOUS
  <1> QED
    BY <1>1, FS_Singleton

LEMMA BuildSound ==
    ASSUME NEW items, Graded(items)
    PROVE  /\ Accounted(items, Build(items))
           /\ \A f \in Build(items) : f.cites # {} /\ f.cites \subseteq items
  <1>1. ASSUME NEW k \in KeysOf(items)
        PROVE  /\ Grouped(items, k) # {} /\ Graded(Grouped(items, k))
               /\ Deduplicate(Grouped(items, k)) # {} /\ Graded(Deduplicate(Grouped(items, k)))
               /\ Deduplicate(Grouped(items, k)) \subseteq Grouped(items, k)
    <2>1. PICK G : G = Grouped(items, k)
      OBVIOUS
    <2>2. G # {} /\ Graded(G)
      BY <2>1 DEF KeysOf, Grouped, Graded
    <2>3. Deduplicate(G) \subseteq G /\ Deduplicate(G) # {}
      BY <2>2, DeduplicateIs
    <2>4. Graded(Deduplicate(G))
      BY <2>2, <2>3 DEF Graded
    <2> QED
      BY <2>1, <2>2, <2>3, <2>4
  <1>2. \A k : /\ FindingOf(items, k).key = k
               /\ FindingOf(items, k).strength = Strongest(Deduplicate(Grouped(items, k))).strength
               /\ FindingOf(items, k).cites = Deduplicate(Grouped(items, k))
               /\ FindingOf(items, k).conflicts = {l \in KeysOf(items) : Conflicting(k, l)}
    BY DEF FindingOf
  <1>3. \A f \in Build(items) : f.key \in KeysOf(items) /\ f = FindingOf(items, f.key)
    BY <1>2, BuildIs
  <1>4. \A k \in KeysOf(items) : FindingOf(items, k) \in Build(items)
    BY BuildIs
  <1> HIDE DEF FindingOf
  <1>5. ASSUME NEW e \in items
        PROVE  Cardinality({f \in Build(items) : f.key = Key(e)}) = 1
    <2>1. Key(e) \in KeysOf(items)
      BY DEF KeysOf
    <2>2. PICK g : g = FindingOf(items, Key(e))
      OBVIOUS
    <2>3. PICK S : S = {f \in Build(items) : f.key = Key(e)}
      OBVIOUS
    <2>4. g \in S /\ \A f \in S : f = g
      BY <1>2, <1>3, <1>4, <2>1, <2>2, <2>3
    <2> QED
      BY <2>3, <2>4, SingletonCounts
  <1>6. ASSUME NEW f \in Build(items), NEW e \in items, Key(e) = f.key
        PROVE  /\ e.strength <= f.strength
               /\ Cardinality({c \in f.cites : Provenance(c) = Provenance(e) /\ c.strength >= e.strength}) = 1
    <2>1. PICK G : G = Grouped(items, f.key)
      OBVIOUS
    <2>2. PICK D : D = Deduplicate(G)
      OBVIOUS
    <2>3. e \in G /\ Graded(G) /\ D \subseteq G /\ D # {} /\ Graded(D)
      BY <1>1, <1>3, <1>6, <2>1, <2>2 DEF Grouped
    <2>4. f.cites = D /\ f.strength = Strongest(D).strength
      BY <1>2, <1>3, <2>1, <2>2
    <2>5. PICK c \in D : Provenance(c) = Provenance(e) /\ e.strength <= c.strength
      BY <2>2, <2>3, DeduplicateIs
    <2>6. \A d \in D : Provenance(d) = Provenance(e) => d = c
      BY <2>2, <2>3, <2>5, DeduplicateIs
    <2>7. Strongest(D) \in D /\ c.strength <= Strongest(D).strength
      BY <2>3, StrongestIs
    <2>8. c.strength \in 1..3 /\ e.strength \in 1..3 /\ Strongest(D).strength \in 1..3
      BY <2>3, <2>7 DEF Graded
    <2>9. PICK S : S = {d \in f.cites : Provenance(d) = Provenance(e) /\ d.strength >= e.strength}
      OBVIOUS
    <2>10. c \in S /\ \A d \in S : d = c
      BY <2>4, <2>5, <2>6, <2>8, <2>9
    <2>11. Cardinality(S) = 1
      BY <2>10, SingletonCounts
    <2> QED
      BY <2>4, <2>5, <2>7, <2>8, <2>9, <2>11
  <1>7. ASSUME NEW f \in Build(items), NEW k \in f.conflicts
        PROVE  \E g \in Build(items) : g.key = k /\ f.key \in g.conflicts
    <2>1. k \in KeysOf(items) /\ Conflicting(f.key, k)
      BY <1>2, <1>3
    <2>2. Conflicting(k, f.key)
      BY <2>1 DEF Conflicting
    <2> QED
      BY <1>2, <1>3, <1>4, <2>1, <2>2
  <1>8. ASSUME NEW f \in Build(items)
        PROVE  f.cites # {} /\ f.cites \subseteq items
    <2>1. f.key \in KeysOf(items) /\ f.cites = Deduplicate(Grouped(items, f.key))
      BY <1>2, <1>3
    <2>2. Grouped(items, f.key) \subseteq items
      BY DEF Grouped
    <2> QED
      BY <1>1, <2>1, <2>2
  <1> QED
    BY <1>5, <1>6, <1>7, <1>8 DEF Accounted

-----------------------------------------------------------------------------
(* Evidence.                                                               *)

\* A set of evidence is sound for some observations when it cites nothing else.
Cites(items, observations) ==
    \A e \in items : e.obs \subseteq observations /\ e.strength \in 1..3

LEMMA EvidenceFields ==
    \A rule, obs, subject, entity, relation, strength, scope, records :
      LET e == Evidence(rule, obs, subject, entity, relation, strength, scope, records)
      IN  e.obs = obs /\ e.strength = strength
  BY DEF Evidence

LEMMA RulesCite ==
    ASSUME NEW observations, NEW o \in observations
    PROVE  Cites(RuleEvidence(o), observations)
  BY EvidenceFields, ViewAssumption DEF Cites, RuleEvidence

LEMMA SuffixesCite ==
    ASSUME NEW observations, NEW o \in observations, NEW v
    PROVE  Cites(SuffixEvidence(v, o), observations)
  BY EvidenceFields DEF Cites, SuffixEvidence

LEMMA UnmappedCite ==
    ASSUME NEW observations, NEW items
    PROVE  Cites(Unmapped(observations, items), observations)
  <1> SUFFICES ASSUME NEW e \in Unmapped(observations, items)
               PROVE  e.obs \subseteq observations /\ e.strength \in 1..3
    BY DEF Cites
  <1>1. PICK o \in observations :
          e = Evidence("taxonomy", {o}, o.subject, o.value, "web_integration", 2, o.scope, {})
    BY Zenon DEF Unmapped
  <1>2. e.obs = {o} /\ e.strength = 2
    BY <1>1, EvidenceFields
  <1> QED
    BY <1>2

LEMMA InputsCite ==
    ASSUME NEW observations, NEW in \in AddressInputs(observations)
    PROVE  in.obs \subseteq observations
  BY DEF AddressInputs

LEMMA PrefixesCite ==
    ASSUME NEW observations, NEW in \in AddressInputs(observations), NEW associations
    PROVE  Cites(PrefixEvidence(in, associations), observations)
  <1> SUFFICES ASSUME NEW e \in PrefixEvidence(in, associations)
               PROVE  e.obs \subseteq observations /\ e.strength \in 1..3
    BY DEF Cites
  <1>1. PICK x \in associations :
          e = Evidence(x.id, in.obs, in.subject, x.entity, "service_range", 2, in.scope, {<<"prefix", x.group>>})
    BY Zenon DEF PrefixEvidence
  <1>2. e.obs = in.obs /\ e.strength = 2
    BY <1>1, EvidenceFields
  <1> QED
    BY <1>2, InputsCite

LEMMA ASNCite ==
    ASSUME NEW observations, NEW in \in AddressInputs(observations), NEW v
    PROVE  Cites(ASNEvidence(v, in), observations)
  BY EvidenceFields, InputsCite DEF Cites, ASNEvidence

\* The addresses of the inputs are known.
LEMMA InputsKnown ==
    ASSUME NEW observations, \A o \in observations : Located(o) => o.value \in Address,
           NEW in \in AddressInputs(observations)
    PROVE  in.address \in Address
  BY DEF AddressInputs, Located

\* With nothing missing, what is found is all there is.
LEMMA FullIsUninterrupted ==
    ASSUME NEW v, SuffixState[v] # "none",
           \A in \in AddressInputs(observed) :
             /\ Usable(PrefixSource[v]) /\ Kept(v, in.address) = Associations[v][in.address]
             /\ Usable(ASNSource[v][FamilyOf[in.address]])
    PROVE  Uninterrupted(v) = FullEvidence(v)
  <1>1. WithSuffixes(v) = UNION {RuleEvidence(o) \cup SuffixEvidence(v, o) : o \in observed}
    <2> HIDE DEF RuleEvidence, SuffixEvidence
    <2> QED
      BY DEF WithSuffixes, WithRules
  <1>2. ASNInputs(v) = AddressInputs(observed)
    BY DEF ASNInputs
  <1>3. (IF Usable(PrefixSource[v])
         THEN UNION {PrefixEvidence(in, Kept(v, in.address)) : in \in AddressInputs(observed)} ELSE {})
          = UNION {PrefixEvidence(in, Associations[v][in.address]) : in \in AddressInputs(observed)}
    BY Zenon
  <1>4. FullEvidence(v) = WithSuffixes(v) \cup Unmapped(observed, WithSuffixes(v))
          \cup UNION {PrefixEvidence(in, Associations[v][in.address]) \cup ASNEvidence(v, in) : in \in AddressInputs(observed)}
    BY <1>1, Zenon DEF FullEvidence
  <1>6. PICK W : W = WithSuffixes(v) \cup Unmapped(observed, WithSuffixes(v))
    OBVIOUS
  <1>7. PICK PI : PI = UNION {PrefixEvidence(in, Associations[v][in.address]) : in \in AddressInputs(observed)}
    OBVIOUS
  <1>8. PICK AI : AI = UNION {ASNEvidence(v, in) : in \in AddressInputs(observed)}
    OBVIOUS
  <1>9. WithPrefixes(v) = W \cup PI
    BY <1>3, <1>6, <1>7, Zenon DEF WithPrefixes
  <1>10. Uninterrupted(v) = (W \cup PI) \cup AI
    BY <1>2, <1>8, <1>9, Zenon DEF Uninterrupted
  <1>11. FullEvidence(v) = W \cup (PI \cup AI)
    <2>1. PICK PA : PA = UNION {PrefixEvidence(in, Associations[v][in.address]) \cup ASNEvidence(v, in) :
                                  in \in AddressInputs(observed)}
      OBVIOUS
    <2>2. PA = PI \cup AI
      <3>1. \A e : e \in PA <=> \E in \in AddressInputs(observed) :
                     e \in PrefixEvidence(in, Associations[v][in.address]) \/ e \in ASNEvidence(v, in)
        BY <2>1
      <3>2. \A e : e \in PI <=> \E in \in AddressInputs(observed) : e \in PrefixEvidence(in, Associations[v][in.address])
        BY <1>7
      <3>3. \A e : e \in AI <=> \E in \in AddressInputs(observed) : e \in ASNEvidence(v, in)
        BY <1>8
      <3> QED
        BY <3>1, <3>2, <3>3
    <2>3. FullEvidence(v) = W \cup PA
      BY <1>4, <1>6, <2>1, Zenon
    <2> QED
      BY <2>2, <2>3, Zenon
  <1> QED
    BY <1>10, <1>11

-----------------------------------------------------------------------------
(* The addresses that are looked up.                                       *)

LEMMA ObservationFields ==
    \A type, subject, s, n, scope, value, status :
      LET o == Observation(type, subject, s, n, scope, value, status) IN o.type = type /\ o.value = value
  BY DEF Observation

LEMMA LookupsNotLocated ==
    ASSUME NEW i, NEW f, NEW status, NEW o \in LookupObservations(i, f, status)
    PROVE  ~Located(o)
  <1>1. \/ \E subject, s, n, scope, value : o = Observation("dns_query", subject, s, n, scope, value, status)
        \/ \E subject, s, n, scope, value : o = Observation("dns_record", subject, s, n, scope, value, status)
    <2>1. \/ o = Observation("dns_query", streams[i].host, seed, <<i - 1, f>>,
                             IF i = 1 THEN ScopeForSeed(seed) ELSE RedirectDNSScope(streams[i].host), None, status)
          \/ o = Observation("dns_record", streams[i].host, seed, <<i - 1, f>>,
                             IF i = 1 THEN ScopeForSeed(seed) ELSE RedirectDNSScope(streams[i].host), None, status)
      BY Zenon DEF LookupObservations
    <2> QED
      BY <2>1, Zenon
  <1> QED
    BY <1>1, ObservationFields DEF Located

LEMMA TechnologyNotLocated ==
    ASSUME NEW final, NEW o \in TechnologyOf(final)
    PROVE  ~Located(o)
  <1>1. \E subject, s, n, scope, value, status : o = Observation("technology", subject, s, n, scope, value, status)
    BY Zenon DEF TechnologyOf
  <1> QED
    BY <1>1, ObservationFields DEF Located

LEMMA AnswersKnown ==
    ASSUME AddressesKnown, NEW i \in DOMAIN streams, NEW f \in Family, Answer(i, f)
    PROVE  AddressesKnown'
  <1>1. PICK status : Keep(i, LookupObservations(i, f, status))
    BY DEF Answer
  <1>2. PICK items : items = LookupObservations(i, f, status)
    OBVIOUS
  <1>3. \A o \in items : ~Located(o)
    BY <1>2, LookupsNotLocated
  <1>4. CASE i = 1
    BY <1>1, <1>2, <1>3, <1>4 DEF Keep, AddressesKnown, Located
  <1>5. CASE i # 1
    BY <1>1, <1>2, <1>3, <1>5 DEF Keep, AddressesKnown, Located
  <1> QED
    BY <1>4, <1>5

LEMMA PublishedKnown ==
    ASSUME AddressesKnown, NEW i, NEW a \in Address, Publish(i, a)
    PROVE  AddressesKnown'
  <1>1. retained' = retained
    BY DEF Publish
  <1>2. PICK more : more = IF i = 1 /\ free # 0
                           THEN {Observation("dns_address", seed, seed, <<0, a>>, ScopeForSeed(seed), a,
                                             IF a \in Allowed THEN "answered" ELSE "policy_blocked")}
                           ELSE {}
    OBVIOUS
  <1>3. observed' = observed \cup more
    BY <1>2, Zenon DEF Publish
  <1>4. \A o \in more : o.value \in Address
    BY <1>2, ObservationFields
  <1> QED
    BY <1>1, <1>3, <1>4 DEF AddressesKnown, Located

LEMMA ResponsesKnown ==
    ASSUME CollectionInv, AddressesKnown, pc = "dial", retained' = retained,
           NEW body, NEW location, Respond(body, location)
    PROVE  AddressesKnown'
  <1>1. peer \in Address
    BY CollectionAssumption DEF CollectionInv, PeersOfHost
  <1>2. observed' = observed \cup {ResponseObservation(body)}
    BY DEF Respond
  <1>3. ResponseObservation(body).value = peer
    BY ObservationFields DEF ResponseObservation
  <1> QED
    BY <1>1, <1>2, <1>3 DEF AddressesKnown, Located

LEMMA AddressesNext ==
    ASSUME CollectionInv, AddressesKnown, [Next]_vars
    PROVE  AddressesKnown'
  <1>1. CASE UNCHANGED <<observed, retained>>
    BY <1>1 DEF AddressesKnown, Located
  <1>2. CASE ResolveStep
    <2>1. ASSUME NEW i \in DOMAIN streams, Close(i) PROVE UNCHANGED <<observed, retained>>
      BY <2>1 DEF Close, resultVars
    <2> QED
      BY <1>1, <1>2, <2>1, AnswersKnown, PublishedKnown DEF ResolveStep
  <1>3. ASSUME NEW body, NEW location, Page(body, location) PROVE AddressesKnown'
    BY <1>3, ResponsesKnown DEF Page
  <1>4. CASE BodyFails
    BY <1>4, ResponsesKnown DEF BodyFails
  <1>5. CASE NextSeed
    BY <1>5 DEF NextSeed, AddressesKnown, Located
  <1>6. NextAddress \/ NoAddress \/ Acquire \/ NoResponse \/ Join => UNCHANGED <<observed, retained>>
    BY DEF NextAddress, NoAddress, Acquire, NoResponse, Join, resultVars
  <1>7. CASE Webtech
    <2>1. PICK done : observed' = observed \cup UNION {TechnologyOf(x) : x \in done}
      BY <1>7 DEF Webtech
    <2>2. retained' = retained
      BY <1>7 DEF Webtech
    <2>3. \A o \in UNION {TechnologyOf(x) : x \in done} : ~Located(o)
      BY TechnologyNotLocated
    <2> QED
      BY <2>1, <2>2, <2>3 DEF AddressesKnown, Located
  <1>8. DetectRules \/ DetectSuffixes => UNCHANGED <<observed, retained>>
    BY DEF DetectRules, DetectSuffixes, Detect, webRest
  <1>9. EnrichPrefixes \/ EnrichASN => UNCHANGED <<observed, retained>>
    BY DEF EnrichPrefixes, EnrichASN, webRest
  <1>10. Report \/ ReplayReport \/ (\E v \in View : Reclassify(v)) => UNCHANGED <<observed, retained>>
    BY DEF Report, ReplayReport, Reclassify, webRest
  <1>11. (\E a \in Address : LookupIP(a)) \/ EndContext \/ UNCHANGED vars => UNCHANGED <<observed, retained>>
    BY DEF LookupIP, EndContext, vars, webVars, resultVars
  <1> QED
    BY <1>1, <1>2, <1>3, <1>4, <1>5, <1>6, <1>7, <1>8, <1>9, <1>10, <1>11
    DEF Next, AnalyzeStep, Collect, CollectStep, HTTPStep

-----------------------------------------------------------------------------
(* The steps of a classification.                                          *)

\* What is found depends on the observations alone.
LEMMA FoundStays ==
    ASSUME observed' = observed
    PROVE  /\ WithRules' = WithRules
           /\ \A v : /\ WithSuffixes(v)' = WithSuffixes(v) /\ WithPrefixes(v)' = WithPrefixes(v)
                     /\ Uninterrupted(v)' = Uninterrupted(v) /\ FullEvidence(v)' = FullEvidence(v)
  BY DEF WithRules, WithSuffixes, WithPrefixes, ASNInputs, Uninterrupted, FullEvidence

LEMMA ReportsStay ==
    ASSUME ReportsSound, UNCHANGED <<observed, report, replay>>
    PROVE  ReportsSound'
  BY FoundStays DEF ReportsSound, ReportSound

\* Coverage that grows and is not spoilt was not spoilt before.
LEMMA CoverageGrows ==
    ASSUME NEW more, coverage' = coverage \cup more, Unspoilt'
    PROVE  Unspoilt /\ \A c \in more : ~Spoils(c[2])
  BY DEF Unspoilt

LEMMA CoverageSpoilt ==
    ASSUME NEW detector, NEW status \in {"partial", "unavailable"}, <<detector, status>> \in coverage'
    PROVE  ~Unspoilt'
  BY DEF Unspoilt, Spoils

LEMMA SeenInputs ==
    ASSUME NEW inputs, NEW done \in Seen(inputs)
    PROVE  done \subseteq inputs /\ (ended => done = {})
  BY DEF Seen

LEMMA CitesUnion ==
    ASSUME NEW observations, NEW items, Cites(items, observations), NEW more, Cites(more, observations)
    PROVE  Cites(items \cup more, observations)
  BY DEF Cites

\* The steps that look for evidence: all but evidence, coverage and the end of
\* the context stays, and the stage moves on.
ClassifyFrame == UNCHANGED <<observed, retained, view, report, replay, lookup>>

LEMMA ClassifyKeeps ==
    ASSUME ClassificationInv, AddressesKnown', ClassifyFrame,
           stage \in {"rules", "suffix", "prefix", "asn"}, stage' \in {"suffix", "prefix", "asn", "report"},
           Cites(evidence', observed), StageEvidence', SourcesWhole'
    PROVE  ClassificationInv'
  <1> USE DEF ClassifyFrame
  <1>1. ReportsSound'
    BY ReportsStay DEF ClassificationInv
  <1>2. StagesSound' /\ LookupSound'
    BY DEF ClassificationInv, StagesSound, LookupSound, Stages
  <1>3. EvidenceSound'
    BY DEF EvidenceSound, Cites
  <1> QED
    BY <1>1, <1>2, <1>3 DEF ClassificationInv

LEMMA RulesNext ==
    ASSUME ClassificationInv, AddressesKnown', DetectRules
    PROVE  ClassificationInv'
  <1>1. PICK seen \in Seen({o \in observed : RuleEvidence(o) # {}}), cut \in BOOLEAN :
          /\ ended => cut
          /\ ~cut => \A o \in observed \ seen : RuleEvidence(o) = {}
          /\ ended' = (ended \/ cut)
          /\ evidence' = evidence \cup UNION {RuleEvidence(o) : o \in seen}
          /\ coverage' = coverage \cup {<<"rules", IF cut THEN "partial" ELSE "complete">>}
    BY Zenon DEF DetectRules, Detect
  <1>2. stage = "rules" /\ stage' = "suffix" /\ ClassifyFrame
    BY DEF DetectRules, Detect, webRest, ClassifyFrame
  <1>3. seen \subseteq observed
    BY SeenInputs
  <1>4. Cites(evidence', observed)
    <2>1. Cites(evidence, observed)
      BY DEF ClassificationInv, EvidenceSound, Cites
    <2>2. \A o \in seen : Cites(RuleEvidence(o), observed)
      BY <1>3, RulesCite
    <2> QED
      BY <1>1, <2>1, <2>2 DEF Cites
  <1>5. ~ended' \/ Unspoilt' => ~cut
    <2>1. ~ended' => ~cut
      BY <1>1
    <2>2. cut => <<"rules", "partial">> \in coverage'
      BY <1>1
    <2> QED
      BY <2>1, <2>2, CoverageSpoilt
  <1>6. ~cut => evidence' = WithRules
    BY <1>1, <1>2, <1>3 DEF WithRules, ClassificationInv, StagesSound
  <1>7. StageEvidence' /\ SourcesWhole'
    BY <1>2, <1>5, <1>6, FoundStays DEF StageEvidence, SourcesWhole, ClassifyFrame
  <1> QED
    BY <1>2, <1>4, <1>7, ClassifyKeeps

LEMMA SuffixesNext ==
    ASSUME ClassificationInv, AddressesKnown', DetectSuffixes
    PROVE  ClassificationInv'
  <1>1. stage = "suffix" /\ stage' = "prefix" /\ ClassifyFrame
    BY DEF DetectSuffixes, Detect, webRest, ClassifyFrame
  <1>2. CASE SuffixState[view] # "none"
    <2>1. PICK seen \in Seen({o \in observed : SuffixEvidence(view, o) # {}}), cut \in BOOLEAN :
            /\ ended => cut
            /\ ~cut => \A o \in observed \ seen : SuffixEvidence(view, o) = {}
            /\ ended' = (ended \/ cut)
            /\ evidence' = evidence \cup UNION {SuffixEvidence(view, o) : o \in seen}
            /\ coverage' = coverage \cup {<<"suffix", IF cut THEN "partial"
                                              ELSE IF SuffixState[view] = "some" THEN "partial" ELSE "complete">>}
      BY <1>2, Zenon DEF DetectSuffixes, Detect
    <2>2. seen \subseteq observed
      BY SeenInputs
    <2>3. Cites(evidence', observed)
      <3>1. Cites(evidence, observed)
        BY DEF ClassificationInv, EvidenceSound, Cites
      <3>2. \A o \in seen : Cites(SuffixEvidence(view, o), observed)
        BY <2>2, SuffixesCite
      <3> QED
        BY <2>1, <3>1, <3>2 DEF Cites
    <2>4. ~ended' \/ Unspoilt' => ~cut /\ (~ended \/ Unspoilt)
      <3>1. ~ended' => ~cut /\ ~ended
        BY <2>1
      <3>2. cut => <<"suffix", "partial">> \in coverage'
        BY <2>1
      <3>3. Unspoilt' => Unspoilt
        BY <2>1, CoverageGrows
      <3> QED
        BY <3>1, <3>2, <3>3, CoverageSpoilt
    <2>5. ~ended' \/ Unspoilt' => evidence' = WithSuffixes(view)
      <3> SUFFICES ASSUME ~ended' \/ Unspoilt' PROVE evidence' = WithSuffixes(view)
        OBVIOUS
      <3>1. evidence = WithRules
        BY <1>1, <2>4 DEF ClassificationInv, StageEvidence
      <3>2. UNION {SuffixEvidence(view, o) : o \in seen} = UNION {SuffixEvidence(view, o) : o \in observed}
        BY <2>1, <2>2, <2>4
      <3> QED
        BY <1>2, <2>1, <3>1, <3>2, Zenon DEF WithSuffixes
    <2>6. StageEvidence' /\ SourcesWhole'
      BY <1>1, <1>2, <2>5, FoundStays DEF StageEvidence, SourcesWhole, ClassifyFrame
    <2> QED
      BY <1>1, <2>3, <2>6, ClassifyKeeps
  <1>3. CASE SuffixState[view] = "none"
    <2>1. coverage' = coverage \cup {<<"suffix", "unavailable">>} /\ ended' = ended /\ evidence' = evidence
      BY <1>3 DEF DetectSuffixes, Detect
    <2>2. ~Unspoilt'
      <3>1. <<"suffix", "unavailable">> \in coverage'
        BY <2>1
      <3> QED
        BY <3>1, CoverageSpoilt
    <2>3. Cites(evidence', observed)
      BY <2>1 DEF ClassificationInv, EvidenceSound, Cites
    <2>4. WithSuffixes(view) = WithRules
      BY <1>3 DEF WithSuffixes
    <2>5. StageEvidence' /\ SourcesWhole'
      BY <1>1, <2>1, <2>2, <2>4, FoundStays DEF ClassificationInv, StageEvidence, SourcesWhole, ClassifyFrame
    <2> QED
      BY <1>1, <2>3, <2>5, ClassifyKeeps
  <1> QED
    BY <1>2, <1>3

\* The sources of a view have one of three statuses.
LEMMA SourceStatus ==
    ASSUME NEW v \in View, NEW a \in Address
    PROVE  /\ PrefixSource[v] \in {"complete", "partial", "unavailable"}
           /\ ASNSource[v][FamilyOf[a]] \in {"complete", "partial", "unavailable"}
  BY ViewAssumption

LEMMA PrefixesNext ==
    ASSUME ClassificationInv, AddressesKnown', EnrichPrefixes
    PROVE  ClassificationInv'
  <1>1. stage = "prefix" /\ stage' = "asn" /\ ClassifyFrame
    BY DEF EnrichPrefixes, webRest, ClassifyFrame
  <1>2. PICK inputs : inputs = AddressInputs(observed)
    OBVIOUS
  <1>3. PICK mapped : mapped = evidence \cup Unmapped(observed, evidence)
    OBVIOUS
  <1> DEFINE Status(in) == IF Kept(view, in.address) # Associations[view][in.address] THEN "partial" ELSE "complete"
  <1>4. PICK done \in (IF Usable(PrefixSource[view]) THEN Seen(inputs) ELSE {{}}) :
          /\ ended' = (ended \/ (Usable(PrefixSource[view]) /\ done # inputs))
          /\ evidence' = mapped \cup UNION {PrefixEvidence(in, Kept(view, in.address)) : in \in done}
          /\ coverage' = coverage \cup {<<"prefix", Status(in)>> : in \in done}
               \cup (IF inputs = {} THEN {} ELSE SourceCoverage(view, {in.address : in \in inputs}))
               \cup (IF done # inputs THEN {<<"prefix", "unavailable">>} ELSE {})
    BY <1>2, <1>3, Zenon DEF EnrichPrefixes
  <1>5. done \subseteq inputs /\ (~Usable(PrefixSource[view]) => done = {})
    BY <1>4, SeenInputs
  <1>6. \A c \in coverage : c \in coverage'
    BY <1>4
  <1>7. ~ended' \/ Unspoilt' => (~ended \/ Unspoilt) /\ (Usable(PrefixSource[view]) => done = inputs)
    <2>1. ~ended' => ~ended /\ (Usable(PrefixSource[view]) => done = inputs)
      BY <1>4
    <2>2. done # inputs => <<"prefix", "unavailable">> \in coverage'
      BY <1>4
    <2>3. Unspoilt' => Unspoilt
      BY <1>6 DEF Unspoilt
    <2> QED
      BY <2>1, <2>2, <2>3, CoverageSpoilt
  <1>8. Cites(evidence', observed)
    <2>1. Cites(mapped, observed)
      BY <1>3, UnmappedCite, CitesUnion DEF ClassificationInv, EvidenceSound, Cites
    <2>2. \A in \in done : Cites(PrefixEvidence(in, Kept(view, in.address)), observed)
      BY <1>2, <1>5, PrefixesCite
    <2> QED
      BY <1>4, <2>1, <2>2 DEF Cites
  <1>9. ~ended' \/ Unspoilt' => evidence' = WithPrefixes(view)
    <2> SUFFICES ASSUME ~ended' \/ Unspoilt' PROVE evidence' = WithPrefixes(view)
      OBVIOUS
    <2>1. evidence = WithSuffixes(view)
      BY <1>1, <1>7 DEF ClassificationInv, StageEvidence
    <2>2. mapped = WithSuffixes(view) \cup Unmapped(observed, WithSuffixes(view))
      BY <1>3, <2>1, Zenon
    <2>3. CASE Usable(PrefixSource[view])
      <3>1. done = AddressInputs(observed)
        BY <1>2, <1>7, <2>3
      <3> QED
        BY <1>4, <2>2, <2>3, <3>1, Zenon DEF WithPrefixes
    <2>4. CASE ~Usable(PrefixSource[view])
      <3>1. evidence' = mapped
        BY <1>4, <1>5, <2>4
      <3>2. WithPrefixes(view) = WithSuffixes(view) \cup Unmapped(observed, WithSuffixes(view)) \cup {}
        BY <2>4, Zenon DEF WithPrefixes
      <3> QED
        BY <2>2, <3>1, <3>2
    <2> QED
      BY <2>3, <2>4
  <1>10. ASSUME Unspoilt'
         PROVE  /\ SuffixState[view] # "none"
                /\ \A in \in AddressInputs(observed) :
                     /\ Usable(PrefixSource[view]) /\ Kept(view, in.address) = Associations[view][in.address]
                     /\ Usable(ASNSource[view][FamilyOf[in.address]])
    <2>1. SuffixState[view] # "none"
      BY <1>1, <1>6, <1>10 DEF ClassificationInv, SourcesWhole, Unspoilt
    <2>2. ASSUME NEW in \in AddressInputs(observed)
          PROVE  /\ Usable(PrefixSource[view]) /\ Kept(view, in.address) = Associations[view][in.address]
                 /\ Usable(ASNSource[view][FamilyOf[in.address]])
      <3>1. in.address \in Address /\ view \in View
        BY <1>1, InputsKnown DEF ClassificationInv, AddressesKnown, StagesSound
      <3>2. /\ <<"prefix_source", PrefixSource[view]>> \in coverage'
            /\ <<"asn_source", ASNSource[view][FamilyOf[in.address]]>> \in coverage'
        BY <1>2, <1>4 DEF SourceCoverage
      <3>3. Usable(PrefixSource[view]) /\ Usable(ASNSource[view][FamilyOf[in.address]])
        BY <1>10, <3>1, <3>2, SourceStatus, CoverageSpoilt DEF Usable
      <3>4. <<"prefix", Status(in)>> \in coverage'
        BY <1>2, <1>4, <1>7, <1>10, <3>3
      <3>5. Status(in) # "partial"
        BY <1>10, <3>4, CoverageSpoilt
      <3> QED
        BY <3>3, <3>5
    <2> QED
      BY <2>1, <2>2
  <1>11. StageEvidence' /\ SourcesWhole'
    BY <1>1, <1>9, <1>10, FoundStays DEF StageEvidence, SourcesWhole, ClassifyFrame
  <1> QED
    BY <1>1, <1>8, <1>11, ClassifyKeeps

LEMMA ASNNext ==
    ASSUME ClassificationInv, AddressesKnown', EnrichASN
    PROVE  ClassificationInv'
  <1>1. stage = "asn" /\ stage' = "report" /\ ClassifyFrame
    BY DEF EnrichASN, webRest, ClassifyFrame
  <1>2. PICK inputs : inputs = ASNInputs(view)
    OBVIOUS
  <1>3. PICK done \in Seen(inputs) :
          /\ ended' = (ended \/ done # inputs)
          /\ evidence' = evidence \cup UNION {ASNEvidence(view, in) : in \in done}
          /\ coverage' = coverage \cup {<<"asn", IF in \in done THEN "complete" ELSE "unavailable">> : in \in inputs}
    BY <1>2, Zenon DEF EnrichASN, ASNInputs
  <1>4. done \subseteq inputs /\ inputs \subseteq AddressInputs(observed)
    BY <1>2, SeenInputs DEF ASNInputs
  <1>5. Unspoilt' => Unspoilt
    BY <1>3 DEF Unspoilt
  <1>6. ~ended' \/ Unspoilt' => (~ended \/ Unspoilt) /\ done = inputs
    <2>1. ASSUME NEW in \in inputs \ done PROVE <<"asn", "unavailable">> \in coverage'
      BY <1>3
    <2>2. Unspoilt' => done = inputs
      BY <1>4, <2>1, CoverageSpoilt
    <2> QED
      BY <1>3, <1>5, <2>2
  <1>7. Cites(evidence', observed)
    <2>1. Cites(evidence, observed)
      BY DEF ClassificationInv, EvidenceSound, Cites
    <2>2. \A in \in done : Cites(ASNEvidence(view, in), observed)
      BY <1>4, ASNCite
    <2> QED
      BY <1>3, <2>1, <2>2 DEF Cites
  <1>8. ~ended' \/ Unspoilt' => evidence' = Uninterrupted(view)
    <2> SUFFICES ASSUME ~ended' \/ Unspoilt' PROVE evidence' = Uninterrupted(view)
      OBVIOUS
    <2>1. evidence = WithPrefixes(view)
      BY <1>1, <1>6 DEF ClassificationInv, StageEvidence
    <2>2. done = ASNInputs(view)
      BY <1>2, <1>6
    <2> QED
      BY <1>3, <2>1, <2>2, Zenon DEF Uninterrupted
  <1>9. StageEvidence' /\ SourcesWhole'
    BY <1>1, <1>5, <1>8, FoundStays DEF ClassificationInv, StageEvidence, SourcesWhole, ClassifyFrame
  <1> QED
    BY <1>1, <1>7, <1>9, ClassifyKeeps

\* A report that is made of all that was found.
LEMMA NewReportSound ==
    ASSUME ClassificationInv, stage = "report", NEW status, status # "refused", status = "complete" => Unspoilt
    PROVE  ReportSound(NewReport(status))
  <1>1. Graded(evidence)
    BY DEF ClassificationInv, EvidenceSound, Graded
  <1>2. PICK items : items = evidence
    OBVIOUS
  <1>3. Graded(items) /\ \A f \in Build(items) : f.cites # {} /\ f.cites \subseteq items
    BY <1>1, <1>2, BuildSound
  <1>4. ValidReferences(observed, evidence, Build(evidence))
    BY <1>2, <1>3 DEF ValidReferences, ClassificationInv, EvidenceSound
  <1>5. PICK r : r = NewReport(status)
    OBVIOUS
  <1>6. /\ r.status = status /\ r.evidence = evidence /\ r.findings = Build(evidence)
        /\ r.view = view /\ r.interrupted = ended
    BY <1>4, <1>5 DEF NewReport
  <1>7. ~ended => evidence = Uninterrupted(view)
    BY DEF ClassificationInv, StageEvidence
  <1>8. Unspoilt => evidence = FullEvidence(view)
    BY FullIsUninterrupted DEF ClassificationInv, StageEvidence, SourcesWhole
  <1> QED
    BY <1>1, <1>5, <1>6, <1>7, <1>8 DEF ReportSound, Graded

\* A report is made with what has been found, and stays as it is.
LEMMA ReportNext ==
    ASSUME ClassificationInv, AddressesKnown', Report
    PROVE  ClassificationInv'
  <1>1. stage = "report" /\ stage' = "stored" /\ UNCHANGED <<observed, evidence, view, replay, lookup>>
    BY DEF Report, webRest
  <1>2. PICK status \in ReportStatus : report' = NewReport(status)
    BY DEF Report
  <1>3. status # "refused" /\ (status = "complete" => Unspoilt)
    BY <1>2 DEF ReportStatus, Unspoilt
  <1>4. PICK r : r = NewReport(status)
    OBVIOUS
  <1>5. ReportSound(r)
    BY <1>1, <1>3, <1>4, NewReportSound
  <1>6. ReportSound(r)'
    BY <1>1, <1>5, FoundStays DEF ReportSound
  <1>7. report' = r /\ replay = NoReport
    BY <1>1, <1>2, <1>4 DEF ClassificationInv, StagesSound
  <1> QED
    BY <1>1, <1>6, <1>7
    DEF ClassificationInv, StagesSound, Stages, EvidenceSound, StageEvidence, SourcesWhole, ReportsSound, LookupSound

LEMMA ReplayReportNext ==
    ASSUME ClassificationInv, AddressesKnown', ReplayReport
    PROVE  ClassificationInv'
  <1>1. /\ stage = "report" /\ stage' = "replayed" /\ report # NoReport
        /\ UNCHANGED <<observed, evidence, view, report, lookup>>
    BY DEF ReplayReport, Live, webRest
  <1>2. PICK status : status = IF \E c \in coverage : Spoils(c[2]) THEN "partial" ELSE "complete"
    OBVIOUS
  <1>3. replay' = NewReport(status) /\ status # "refused" /\ (status = "complete" => Unspoilt)
    BY <1>2 DEF ReplayReport, Unspoilt
  <1>4. PICK r : r = NewReport(status)
    OBVIOUS
  <1>5. ReportSound(r)
    BY <1>1, <1>3, <1>4, NewReportSound
  <1>6. ReportSound(r)'
    BY <1>1, <1>5, FoundStays DEF ReportSound
  <1>7. replay' = r
    BY <1>3, <1>4
  <1>8. report # NoReport => ReportSound(report)'
    BY <1>1, FoundStays DEF ClassificationInv, ReportsSound, ReportSound
  <1> QED
    BY <1>1, <1>6, <1>7, <1>8
    DEF ClassificationInv, StagesSound, Stages, EvidenceSound, StageEvidence, SourcesWhole, ReportsSound, LookupSound

LEMMA LookupNext ==
    ASSUME ClassificationInv, AddressesKnown', NEW a \in Address, LookupIP(a)
    PROVE  ClassificationInv'
  <1>1. /\ stage = "lookup" /\ stage' = "looked" /\ lookup' = LookupResult(a)
        /\ UNCHANGED <<observed, evidence, view, report, replay>>
    BY DEF LookupIP, webVars, resultVars
  <1>2. view \in View
    BY <1>1 DEF ClassificationInv, StagesSound
  <1>3. PICK r : r = LookupResult(a)
    OBVIOUS
  <1>4. r.status = "complete" =>
          r.associations = Associations[view][r.address] /\ r.asn = ASNOf[view][r.address]
    <2> SUFFICES ASSUME r.status = "complete"
                 PROVE  r.associations = Associations[view][r.address] /\ r.asn = ASNOf[view][r.address]
      OBVIOUS
    <2> DEFINE prefix == Usable(PrefixSource[view])
               asn == Usable(ASNSource[view][FamilyOf[a]])
               entries == SourceCoverage(view, {a})
                     \cup {<<"prefix", IF ~prefix THEN "unavailable"
                                       ELSE IF Kept(view, a) # Associations[view][a] THEN "partial" ELSE "complete">>}
                     \cup {<<"asn", IF asn THEN "complete" ELSE "unavailable">>}
    <2>1. r = IF ended \/ ~(prefix \/ asn)
              THEN [status |-> "error", address |-> a, associations |-> {}, asn |-> None]
              ELSE [status |-> IF \A c \in entries : c[2] = "complete" THEN "complete" ELSE "partial", address |-> a,
                    associations |-> IF prefix THEN Kept(view, a) ELSE {},
                    asn |-> IF asn THEN ASNOf[view][a] ELSE None]
      BY <1>3, Zenon DEF LookupResult
    <2>2. \A c \in entries : c[2] = "complete"
      <3> HIDE DEF entries
      <3> QED
        BY <2>1
    <2>3. prefix /\ Kept(view, a) = Associations[view][a] /\ asn
      <3>1. /\ <<"prefix", IF ~prefix THEN "unavailable"
                           ELSE IF Kept(view, a) # Associations[view][a] THEN "partial" ELSE "complete">> \in entries
            /\ <<"asn", IF asn THEN "complete" ELSE "unavailable">> \in entries
        OBVIOUS
      <3> HIDE DEF entries, prefix, asn
      <3> QED
        BY <2>2, <3>1
    <2>4. r.address = a /\ r.associations = Kept(view, a) /\ r.asn = ASNOf[view][a]
      <3> HIDE DEF entries, prefix, asn
      <3> QED
        BY <2>1, <2>3
    <2> QED
      BY <2>3, <2>4
  <1>5. LookupSound'
    BY <1>1, <1>3, <1>4 DEF LookupSound
  <1> QED
    BY <1>1, <1>5
    DEF ClassificationInv, StagesSound, Stages, EvidenceSound, StageEvidence, SourcesWhole, ReportsSound

\* A collection has not classified anything yet.
LEMMA CollectNext ==
    ASSUME ClassificationInv, AddressesKnown', Collect \/ Webtech
    PROVE  ClassificationInv'
  <1>1. /\ stage = "collect" /\ stage' \in {"collect", "rules"} /\ (stage' # "collect" => view' \in View)
        /\ UNCHANGED <<evidence, report, replay, lookup>>
    BY DEF Collect, Webtech, reportVars
  <1>2. evidence = {} /\ report = NoReport /\ replay = NoReport /\ lookup = None
    BY <1>1 DEF ClassificationInv, StagesSound
  <1> QED
    BY <1>1, <1>2
    DEF ClassificationInv, StagesSound, Stages, EvidenceSound, StageEvidence, SourcesWhole, ReportsSound, LookupSound

LEMMA ReclassifyNext ==
    ASSUME ClassificationInv, AddressesKnown', NEW v \in View, Reclassify(v)
    PROVE  ClassificationInv'
  <1>1. /\ stage = "stored" /\ stage' = "rules" /\ view' = v /\ evidence' = {}
        /\ UNCHANGED <<observed, report, replay, lookup>>
    BY DEF Reclassify
  <1>2. ReportsSound'
    BY <1>1, ReportsStay DEF ClassificationInv
  <1>3. lookup = None /\ replay = NoReport
    BY <1>1 DEF ClassificationInv, StagesSound
  <1> QED
    BY <1>1, <1>2, <1>3
    DEF ClassificationInv, StagesSound, Stages, EvidenceSound, StageEvidence, SourcesWhole, LookupSound

LEMMA ContextNext ==
    ASSUME ClassificationInv, AddressesKnown', UNCHANGED <<observed, coverage, reportVars>>, ended => ended'
    PROVE  ClassificationInv'
  <1> USE DEF reportVars
  <1>1. ReportsSound'
    BY ReportsStay DEF ClassificationInv
  <1>2. StagesSound' /\ EvidenceSound' /\ LookupSound'
    BY DEF ClassificationInv, StagesSound, EvidenceSound, LookupSound
  <1>3. (Unspoilt' <=> Unspoilt) /\ (~ended' => ~ended)
    BY DEF Unspoilt
  <1>4. StageEvidence' /\ SourcesWhole'
    BY <1>3, FoundStays DEF ClassificationInv, StageEvidence, SourcesWhole
  <1> QED
    BY <1>1, <1>2, <1>4 DEF ClassificationInv

-----------------------------------------------------------------------------

LEMMA ClassificationInit == AnalysisInit => ClassificationInv
  <1> SUFFICES ASSUME AnalysisInit PROVE ClassificationInv
    OBVIOUS
  <1>1. /\ stage \in {"collect", "lookup"} /\ (stage = "lookup" => view \in View)
        /\ evidence = {} /\ report = NoReport /\ replay = NoReport /\ lookup = None /\ retained = {}
    BY DEF AnalysisInit, Init
  <1>2. \A o \in observed : \E subject, s, n, scope, value, status :
          o = Observation("ct_name", subject, s, n, scope, value, status)
    BY DEF AnalysisInit, Init
  <1>3. AddressesKnown
    BY <1>1, <1>2, ObservationFields DEF AddressesKnown, Located
  <1> QED
    BY <1>1, <1>3
    DEF ClassificationInv, StagesSound, Stages, EvidenceSound, StageEvidence, SourcesWhole, ReportsSound, LookupSound

LEMMA ClassificationNext ==
    ASSUME CollectionInv, ClassificationInv, [Next]_vars
    PROVE  ClassificationInv'
  <1>1. AddressesKnown'
    BY AddressesNext DEF ClassificationInv
  <1>2. CASE AnalyzeStep
    BY <1>1, <1>2, CollectNext, RulesNext, SuffixesNext, PrefixesNext, ASNNext, ReportNext, ReplayReportNext, LookupNext
    DEF AnalyzeStep
  <1>3. ASSUME NEW v \in View, Reclassify(v) PROVE ClassificationInv'
    BY <1>1, <1>3, ReclassifyNext
  <1>4. CASE EndContext /\ UNCHANGED reportVars
    BY <1>1, <1>4, ContextNext DEF EndContext, resultVars
  <1>5. CASE UNCHANGED vars
    BY <1>1, <1>5, ContextNext DEF vars, webVars, resultVars
  <1> QED
    BY <1>2, <1>3, <1>4, <1>5 DEF Next

\* Analyze, Reclassify and LookupIP of app/service.go: at every stage of a
\* classification the evidence is what the observations give with the view,
\* unless the context has ended and the coverage says that something was cut
\* off; reports and lookups hold what was found then.
THEOREM ClassificationInvariant == Spec => [](CollectionInv /\ ClassificationInv)
  <1>1. AnalysisInit => CollectionInv /\ ClassificationInv
    BY CollectionInit, ClassificationInit
  <1>2. CollectionInv /\ ClassificationInv /\ [Next]_vars => (CollectionInv /\ ClassificationInv)'
    BY CollectionNext, ClassificationNext
  <1> QED
    BY <1>1, <1>2, PTL DEF Spec

\* aggregate.Build and ValidateReferences: no report is refused by its own
\* check, and each piece of evidence counts once, whatever the rules, sources
\* and observations are.
THEOREM FindingsCorrect == Spec => []FindingsSound
  <1>1. ClassificationInv => FindingsSound
    <2> SUFFICES ASSUME NEW r, ReportSound(r)
                 PROVE  r.status # "refused" /\ Accounted(r.evidence, r.findings)
      BY DEF ClassificationInv, ReportsSound, FindingsSound, Accounted
    <2>1. Graded(r.evidence)
      BY DEF ReportSound, Graded
    <2>2. PICK items : items = r.evidence
      OBVIOUS
    <2>3. Accounted(items, Build(items))
      BY <2>1, <2>2, BuildSound
    <2> QED
      BY <2>2, <2>3 DEF ReportSound
  <1> QED
    BY <1>1, ClassificationInvariant, PTL

\* Service.Reclassify: a report that is classified again with its own view has
\* the same findings, unless a context ended on the way.
THEOREM ReplaysAgree == Spec => []ReplayAgrees
  <1>1. ClassificationInv => ReplayAgrees
    <2> SUFFICES ASSUME ClassificationInv, replay # NoReport, replay.view = report.view,
                        ~report.interrupted, ~replay.interrupted
                 PROVE  replay.findings = report.findings
      BY DEF ReplayAgrees
    <2>1. report # NoReport
      BY DEF ClassificationInv, StagesSound
    <2>2. ReportSound(report) /\ ReportSound(replay)
      BY <2>1 DEF ClassificationInv, ReportsSound
    <2> QED
      BY <2>2 DEF ReportSound
  <1> QED
    BY <1>1, ClassificationInvariant, PTL

\* What "complete" says of the evidence of a report, of a reclassification and
\* of an IP lookup: nothing was cut off and no source was missing.
THEOREM EvidenceComplete == Spec => []EvidenceAccounted
  <1>1. ClassificationInv => EvidenceAccounted
    BY DEF ClassificationInv, ReportsSound, ReportSound, LookupSound, EvidenceAccounted
  <1> QED
    BY <1>1, ClassificationInvariant, PTL

-----------------------------------------------------------------------------
(* The seed plan.  Folds over sequences are recursive functions; what they *)
(* compute is found by a least counterexample.                             *)

LEMMA LeastNat ==
    ASSUME NEW B, B \subseteq Nat, B # {}
    PROVE  \E n \in B : \A m \in B : n <= m
  <1>1. PICK R : R = OpToRel(<, Nat)
    BY Zenon
  <1>2. IsWellFoundedOn(R, Nat)
    BY <1>1, NatLessThanWellFounded, Zenon
  <1>3. PICK n \in B : \A m \in B : <<m, n>> \notin R
    BY <1>2, WFMin
  <1>4. R = {r \in Nat \X Nat : r[1] < r[2]}
    BY <1>1, Zenon DEF OpToRel
  <1>5. ASSUME NEW m \in B PROVE n <= m
    <2>1. <<m, n>> \in Nat \X Nat /\ <<m, n>>[1] = m /\ <<m, n>>[2] = n
      OBVIOUS
    <2>2. ~(m < n)
      BY <1>3, <1>4, <2>1, Zenon
    <2> QED
      BY <2>2
  <1> QED
    BY <1>5

LEMMA MaxIs ==
    ASSUME NEW n \in Nat, NEW s \in SUBSET (1..n), n \in s
    PROVE  Max(s) = n
  <1>1. n \in s /\ \A y \in s : n >= y
    OBVIOUS
  <1>2. Max(s) \in s /\ \A y \in s : Max(s) >= y
    BY <1>1, Zenon DEF Max
  <1>3. PICK m : m = Max(s)
    OBVIOUS
  <1>4. m \in 1..n /\ m >= n
    BY <1>2, <1>3
  <1> QED
    BY <1>3, <1>4

\* The two folds of the plan: over the names of a root, and over the roots.
FoldStep(what, p, x) == IF what = "name" THEN AddName(p, x) ELSE PlanRoot(p, x)

\* g holds what the fold yields for the positions s of the first n elements.
IsFold(g, what, p, elements, n) ==
    g = [s \in SUBSET (1..n) |->
           IF s = {} THEN p ELSE LET x == Max(s) IN FoldStep(what, g[s \ {x}], elements[x])]

LEMMA FoldExtends ==
    ASSUME NEW what, NEW p, NEW elements, NEW n \in Nat, NEW g, IsFold(g, what, p, elements, n)
    PROVE  \E h : IsFold(h, what, p, elements, n + 1)
  <1> DEFINE h == [s \in SUBSET (1..(n + 1)) |->
                     IF n + 1 \in s THEN FoldStep(what, g[s \ {n + 1}], elements[n + 1]) ELSE g[s]]
             k == [s \in SUBSET (1..(n + 1)) |->
                     IF s = {} THEN p ELSE LET x == Max(s) IN FoldStep(what, h[s \ {x}], elements[x])]
  <1>1. \A s \in SUBSET (1..n) : h[s] = g[s] /\ s \in SUBSET (1..(n + 1))
    OBVIOUS
  <1>2. ASSUME NEW s \in SUBSET (1..(n + 1)) PROVE k[s] = h[s]
    <2>1. CASE n + 1 \in s
      <3>1. Max(s) = n + 1 /\ s # {} /\ s \ {n + 1} \in SUBSET (1..n)
        BY <2>1, MaxIs
      <3>2. k[s] = FoldStep(what, h[s \ {n + 1}], elements[n + 1])
        <4> HIDE DEF h
        <4> QED
          BY <3>1
      <3>3. h[s] = FoldStep(what, g[s \ {n + 1}], elements[n + 1])
        BY <2>1
      <3> HIDE DEF h, k
      <3> QED
        BY <1>1, <3>1, <3>2, <3>3
    <2>2. CASE n + 1 \notin s
      <3>1. s \in SUBSET (1..n)
        BY <2>2
      <3>2. g[s] = IF s = {} THEN p ELSE LET x == Max(s) IN FoldStep(what, g[s \ {x}], elements[x])
        BY <3>1 DEF IsFold
      <3>3. k[s] = IF s = {} THEN p ELSE LET x == Max(s) IN FoldStep(what, h[s \ {x}], elements[x])
        <4> HIDE DEF h
        <4> QED
          OBVIOUS
      <3>4. \A x : s \ {x} \in SUBSET (1..n)
        BY <3>1
      <3> HIDE DEF h, k
      <3> QED
        BY <1>1, <3>1, <3>2, <3>3, <3>4
    <2> QED
      BY <2>1, <2>2
  <1>3. k = h
    <2>1. DOMAIN k = DOMAIN h
      OBVIOUS
    <2> QED
      BY <1>2
  <1> HIDE DEF h
  <1>4. h = [s \in SUBSET (1..(n + 1)) |->
               IF s = {} THEN p ELSE LET x == Max(s) IN FoldStep(what, h[s \ {x}], elements[x])]
    BY <1>3
  <1> QED
    BY <1>4 DEF IsFold

LEMMA FoldExists ==
    ASSUME NEW what, NEW p, NEW elements, NEW n \in Nat
    PROVE  \E g : IsFold(g, what, p, elements, n)
  <1> DEFINE B == {m \in Nat : ~ \E g : IsFold(g, what, p, elements, m)}
  <1> SUFFICES ASSUME B # {} PROVE FALSE
    OBVIOUS
  <1>1. PICK m \in B : \A l \in B : m <= l
    <2>1. B \subseteq Nat
      OBVIOUS
    <2> HIDE DEF B
    <2> QED
      BY <2>1, LeastNat
  <1>2. m # 0
    <2>1. PICK g : g = [s \in SUBSET (1..0) |-> p]
      OBVIOUS
    <2>2. IsFold(g, what, p, elements, 0)
      <3>1. \A s \in SUBSET (1..0) : s = {}
        OBVIOUS
      <3> QED
        BY <2>1, <3>1 DEF IsFold
    <2> QED
      BY <2>2
  <1>3. m - 1 \in Nat /\ m - 1 \notin B
    BY <1>1, <1>2
  <1>4. PICK g : IsFold(g, what, p, elements, m - 1)
    BY <1>3
  <1>5. \E h : IsFold(h, what, p, elements, (m - 1) + 1)
    BY <1>3, <1>4, FoldExtends
  <1> QED
    BY <1>5

\* One after the other: the states behind the first elements of a sequence.
IsRun(g, what, p, elements) ==
    g[0] = p /\ \A k \in 1..Len(elements) : g[k] = FoldStep(what, g[k - 1], elements[k])

LEMMA FoldRuns ==
    ASSUME NEW S, NEW what, NEW p, NEW elements \in Seq(S), NEW f, IsFold(f, what, p, elements, Len(elements))
    PROVE  \E g : IsRun(g, what, p, elements) /\ g[Len(elements)] = f[1..Len(elements)]
  <1>1. PICK g : g = [k \in 0..Len(elements) |-> f[1..k]]
    OBVIOUS
  <1>2. g[0] = p
    <2>1. 1..0 = {} /\ {} \in SUBSET (1..Len(elements))
      OBVIOUS
    <2>2. f[{}] = p
      BY <2>1 DEF IsFold
    <2> QED
      BY <1>1, <2>1, <2>2
  <1>3. ASSUME NEW k \in 1..Len(elements) PROVE g[k] = FoldStep(what, g[k - 1], elements[k])
    <2>1. k \in Nat /\ Len(elements) \in Nat /\ 1 <= k /\ k <= Len(elements)
      OBVIOUS
    <2>2. 1..k \in SUBSET (1..Len(elements)) /\ k \in 1..k /\ (1..k) \ {k} = 1..(k - 1)
      BY <2>1
    <2>3. Max(1..k) = k
      <3>1. 1..k \in SUBSET (1..k)
        OBVIOUS
      <3> QED
        BY <2>1, <2>2, <3>1, MaxIs
    <2>4. PICK s : s = 1..k
      OBVIOUS
    <2>5. f[s] = FoldStep(what, f[s \ {k}], elements[k])
      BY <2>2, <2>3, <2>4 DEF IsFold
    <2>6. g[k] = f[1..k] /\ g[k - 1] = f[1..(k - 1)]
      <3>1. k \in 0..Len(elements) /\ k - 1 \in 0..Len(elements)
        BY <2>1
      <3> QED
        BY <1>1, <3>1
    <2>7. s \ {k} = 1..(k - 1)
      BY <2>2, <2>4
    <2> QED
      BY <2>4, <2>5, <2>6, <2>7, Zenon
  <1>4. g[Len(elements)] = f[1..Len(elements)]
    <2>1. Len(elements) \in 0..Len(elements)
      OBVIOUS
    <2> QED
      BY <1>1, <2>1
  <1> QED
    BY <1>2, <1>3, <1>4 DEF IsRun

LEMMA NamesRun ==
    ASSUME NEW S, NEW p, NEW names \in Seq(S)
    PROVE  \E g : IsRun(g, "name", p, names) /\ FoldLeft(AddName, p, names) = g[Len(names)]
  <1> DEFINE Is(f) == f = [s \in SUBSET (DOMAIN names) |->
                             IF s = {} THEN p ELSE LET x == Max(s) IN AddName(f[s \ {x}], names[x])]
             fold == CHOOSE f : Is(f)
  <1>1. Len(names) \in Nat /\ DOMAIN names = 1..Len(names)
    OBVIOUS
  <1>2. \A f : Is(f) <=> IsFold(f, "name", p, names, Len(names))
    BY <1>1 DEF IsFold, FoldStep
  <1>3. FoldLeft(AddName, p, names) = fold[DOMAIN names]
    BY Zenon DEF FoldLeft, MapThenFoldSet
  <1> HIDE DEF Is
  <1>4. Is(fold)
    BY <1>1, <1>2, FoldExists
  <1> HIDE DEF fold
  <1> QED
    BY <1>1, <1>2, <1>3, <1>4, FoldRuns

LEMMA RootsRun ==
    ASSUME NEW S, NEW p, NEW roots \in Seq(S)
    PROVE  \E g : IsRun(g, "root", p, roots) /\ FoldLeft(PlanRoot, p, roots) = g[Len(roots)]
  <1> DEFINE Is(f) == f = [s \in SUBSET (DOMAIN roots) |->
                             IF s = {} THEN p ELSE LET x == Max(s) IN PlanRoot(f[s \ {x}], roots[x])]
             fold == CHOOSE f : Is(f)
  <1>1. Len(roots) \in Nat /\ DOMAIN roots = 1..Len(roots)
    OBVIOUS
  <1>2. \A f : Is(f) <=> IsFold(f, "root", p, roots, Len(roots))
    BY <1>1 DEF IsFold, FoldStep
  <1>3. FoldLeft(PlanRoot, p, roots) = fold[DOMAIN roots]
    BY Zenon DEF FoldLeft, MapThenFoldSet
  <1> HIDE DEF Is
  <1>4. Is(fold)
    BY <1>1, <1>2, FoldExists
  <1> HIDE DEF fold
  <1> QED
    BY <1>1, <1>2, <1>3, <1>4, FoldRuns

PlanState == [seeds : Seq(Host), limit : Int, attempted : Nat, partial : BOOLEAN]

\* What n candidates add to a plan that was p before.
NamesTaken(q, p, names, n) ==
    /\ q \in PlanState /\ q.attempted = p.attempted /\ q.partial = p.partial
    /\ ToSet(p.seeds) \subseteq ToSet(q.seeds)
    /\ \A i \in 1..n : names[i] \in ToSet(q.seeds)
    /\ p.limit - n <= q.limit /\ q.limit <= p.limit

LEMMA NameTaken ==
    ASSUME NEW p \in PlanState, NEW names \in Seq(Host), NEW k \in 1..Len(names),
           NEW q, NamesTaken(q, p, names, k - 1)
    PROVE  NamesTaken(AddName(q, names[k]), p, names, k)
  <1>1. PICK name \in Host : name = names[k]
    OBVIOUS
  <1>2. q \in PlanState
    BY DEF NamesTaken
  <1>3. PICK seen \in Seq(Host) : seen = q.seeds
    BY <1>2 DEF PlanState
  <1>4. PICK r : r = AddName(q, name)
    OBVIOUS
  <1>5. /\ r \in PlanState /\ r.attempted = q.attempted /\ r.partial = q.partial
        /\ q.limit - 1 <= r.limit /\ r.limit <= q.limit
        /\ r.seeds = IF name \in ToSet(seen) THEN seen ELSE Append(seen, name)
    <2>1. CASE name \in ToSet(seen)
      BY <1>2, <1>3, <1>4, <2>1 DEF AddName, PlanState
    <2>2. CASE name \notin ToSet(seen)
      <3>1. PICK longer \in Seq(Host) : longer = Append(seen, name)
        BY AppendSet
      <3>2. PICK less \in Int : less = q.limit - 1
        BY <1>2 DEF PlanState
      <3>3. r = [q EXCEPT !.seeds = longer, !.limit = less]
        BY <1>3, <1>4, <2>2, <3>1, <3>2 DEF AddName
      <3>4. /\ r \in PlanState /\ r.seeds = longer /\ r.limit = less
            /\ r.attempted = q.attempted /\ r.partial = q.partial
        BY <1>2, <3>3 DEF PlanState
      <3>5. q.limit \in Int
        BY <1>2 DEF PlanState
      <3> QED
        BY <2>2, <3>1, <3>2, <3>4, <3>5
    <2> QED
      BY <2>1, <2>2
  <1>6. ToSet(r.seeds) = ToSet(seen) \cup {name}
    BY <1>5, AppendSet
  <1>7. r.limit \in Int /\ q.limit \in Int /\ p.limit \in Int /\ k \in Int
    BY <1>2, <1>5 DEF PlanState
  <1>8. p.limit - k <= r.limit /\ r.limit <= p.limit
    BY <1>5, <1>7 DEF NamesTaken
  <1>9. \A i \in 1..k : names[i] \in ToSet(r.seeds)
    <2>1. \A i \in 1..k : i \in 1..(k - 1) \/ i = k
      OBVIOUS
    <2> QED
      BY <1>1, <1>3, <1>6, <2>1 DEF NamesTaken
  <1> QED
    BY <1>1, <1>3, <1>4, <1>5, <1>6, <1>8, <1>9 DEF NamesTaken

\* The loop of planCTDiscovery over the candidates of a root.
LEMMA NamesTakenAll ==
    ASSUME NEW p \in PlanState, NEW names \in Seq(Host)
    PROVE  NamesTaken(FoldLeft(AddName, p, names), p, names, Len(names))
  <1>1. PICK g : IsRun(g, "name", p, names) /\ FoldLeft(AddName, p, names) = g[Len(names)]
    BY NamesRun
  <1> DEFINE B == {k \in 0..Len(names) : ~NamesTaken(g[k], p, names, k)}
  <1>2. B = {}
    <2> SUFFICES ASSUME B # {} PROVE FALSE
      OBVIOUS
    <2>1. PICK k \in B : \A m \in B : k <= m
      <3>1. B \subseteq Nat
        OBVIOUS
      <3> HIDE DEF B
      <3> QED
        BY <3>1, LeastNat
    <2>2. CASE k = 0
      <3>1. g[0] = p
        BY <1>1 DEF IsRun
      <3>2. NamesTaken(p, p, names, 0)
        BY DEF NamesTaken, PlanState
      <3> QED
        BY <2>1, <2>2, <3>1, <3>2
    <2>3. CASE k # 0
      <3>1. k \in 1..Len(names) /\ k - 1 \in 0..Len(names) /\ k - 1 \notin B
        BY <2>1, <2>3
      <3>2. NamesTaken(g[k - 1], p, names, k - 1)
        BY <3>1
      <3>3. g[k] = AddName(g[k - 1], names[k])
        BY <1>1, <3>1 DEF IsRun, FoldStep
      <3>4. NamesTaken(g[k], p, names, k)
        BY <3>1, <3>2, <3>3, NameTaken
      <3> QED
        BY <2>1, <3>4
    <2> QED
      BY <2>2, <2>3
  <1>3. Len(names) \in 0..Len(names)
    OBVIOUS
  <1> QED
    BY <1>1, <1>2, <1>3

\* What a root adds to a plan.
RootTaken(r, p, names) ==
    /\ r \in PlanState /\ ToSet(p.seeds) \subseteq ToSet(r.seeds) /\ p.attempted <= r.attempted
    /\ ~r.partial => ~p.partial /\ ToSet(names) \subseteq ToSet(r.seeds)
    /\ p.limit > 0 /\ r.attempted = 0 => r.limit > 0 /\ names = << >>

LEMMA RootStep ==
    ASSUME NEW p \in PlanState, NEW names \in Seq(Host)
    PROVE  RootTaken(PlanRoot(p, names), p, names)
  <1>1. CASE p.limit <= 0
    <2>1. PICK r : r = PlanRoot(p, names)
      OBVIOUS
    <2>2. r = [p EXCEPT !.partial = TRUE]
      BY <1>1, <2>1 DEF PlanRoot
    <2>3. r \in PlanState /\ r.seeds = p.seeds /\ r.limit = p.limit /\ r.attempted = p.attempted /\ r.partial
      BY <2>2 DEF PlanState
    <2>4. p.attempted \in Nat /\ p.limit \in Int
      BY DEF PlanState
    <2> QED
      BY <1>1, <2>1, <2>3, <2>4 DEF RootTaken
  <1>2. CASE ~(p.limit <= 0)
    <2>1. PICK n \in Nat : n = Smaller(p.limit, Len(names))
      BY <1>2 DEF Smaller, PlanState
    <2>2. n <= Len(names) /\ n <= p.limit /\ (n = p.limit \/ n = Len(names))
      BY <1>2, <2>1 DEF Smaller, PlanState
    <2>3. PICK found : found = SubSeq(names, 1, n)
      OBVIOUS
    <2>4. found \in Seq(Host) /\ Len(found) = n /\ \A i \in 1..n : found[i] = names[i]
      BY <2>2, <2>3
    <2>5. PICK q : q = FoldLeft(AddName, p, found)
      OBVIOUS
    <2>6. NamesTaken(q, p, found, n)
      BY <2>4, <2>5, NamesTakenAll
    <2>7. PICK cut \in BOOLEAN : cut <=> n < Len(names) \/ ToSet(names) \cap Unverified # {}
      OBVIOUS
    <2>8. PlanRoot(p, names) = [q EXCEPT !.attempted = @ + Len(names), !.partial = @ \/ cut]
      <3>1. PICK result : result = Discover(names, p.limit)
        OBVIOUS
      <3>2. /\ result.candidates = found /\ result.available = Len(names)
            /\ result.partial <=> ToSet(names) \cap Unverified # {}
        BY <2>1, <2>3, <3>1 DEF Discover
      <3>3. PlanRoot(p, names) = [q EXCEPT !.attempted = @ + result.available,
                 !.partial = @ \/ Len(result.candidates) < result.available \/ result.partial]
        BY <1>2, <2>5, <3>1, <3>2 DEF PlanRoot
      <3>4. q \in PlanState
        BY <2>6 DEF NamesTaken
      <3>5. (q.partial \/ Len(result.candidates) < result.available \/ result.partial) = (q.partial \/ cut)
        BY <2>4, <2>7, <3>2
      <3> QED
        BY <3>2, <3>3, <3>4, <3>5 DEF PlanState
    <2>9. PICK r : r = PlanRoot(p, names)
      OBVIOUS
    <2>10. q \in PlanState
      BY <2>6 DEF NamesTaken
    <2>11. /\ r \in PlanState /\ r.seeds = q.seeds /\ r.limit = q.limit
           /\ r.attempted = q.attempted + Len(names) /\ (r.partial <=> q.partial \/ cut)
      <3>1. PICK total \in Nat : total = q.attempted + Len(names)
        BY <2>10 DEF PlanState
      <3>2. PICK bad \in BOOLEAN : bad <=> q.partial \/ cut
        OBVIOUS
      <3>3. q.partial \in BOOLEAN
        BY <2>10 DEF PlanState
      <3>4. (q.partial \/ cut) = bad
        BY <3>2, <3>3
      <3>5. r = [q EXCEPT !.attempted = total, !.partial = bad]
        BY <2>8, <2>9, <2>10, <3>1, <3>4 DEF PlanState
      <3> QED
        BY <2>10, <3>1, <3>2, <3>5 DEF PlanState
    <2>12. ToSet(p.seeds) \subseteq ToSet(r.seeds) /\ p.attempted <= r.attempted
      BY <2>6, <2>11 DEF NamesTaken, PlanState
    <2>13. ~r.partial => ~p.partial /\ ToSet(names) \subseteq ToSet(r.seeds)
      <3> SUFFICES ASSUME ~r.partial PROVE ~p.partial /\ ToSet(names) \subseteq ToSet(r.seeds)
        OBVIOUS
      <3>1. ~q.partial /\ ~(n < Len(names))
        BY <2>7, <2>11
      <3>2. n = Len(names)
        BY <2>2, <3>1
      <3>3. \A i \in DOMAIN names : names[i] \in ToSet(q.seeds)
        BY <2>4, <2>6, <3>2 DEF NamesTaken
      <3> QED
        BY <2>6, <2>11, <3>1, <3>3 DEF NamesTaken, ToSet
    <2>14. r.attempted = 0 => r.limit > 0 /\ names = << >>
      <3> SUFFICES ASSUME r.attempted = 0 PROVE r.limit > 0 /\ names = << >>
        OBVIOUS
      <3>1. Len(names) = 0
        BY <2>10, <2>11 DEF PlanState
      <3>2. names = << >> /\ n = 0
        BY <2>2, <3>1
      <3>3. p.limit <= q.limit
        BY <2>6, <3>2 DEF NamesTaken, PlanState
      <3> QED
        BY <1>2, <2>11, <3>2, <3>3 DEF PlanState
    <2> QED
      BY <2>9, <2>11, <2>12, <2>13, <2>14 DEF RootTaken
  <1> QED
    BY <1>1, <1>2

\* What n roots have added to a plan that began with p and room for more.
RootsTaken(q, p, roots, n) ==
    /\ q \in PlanState /\ ToSet(p.seeds) \subseteq ToSet(q.seeds)
    /\ ~q.partial => \A i \in 1..n : ToSet(roots[i]) \subseteq ToSet(q.seeds)
    /\ q.attempted = 0 => q.limit > 0 /\ \A i \in 1..n : roots[i] = << >>

LEMMA RootsTakenStep ==
    ASSUME NEW p, NEW roots \in Seq(Seq(Host)), NEW k \in 1..Len(roots),
           NEW q, RootsTaken(q, p, roots, k - 1)
    PROVE  RootsTaken(PlanRoot(q, roots[k]), p, roots, k)
  <1>1. PICK r : r = PlanRoot(q, roots[k])
    OBVIOUS
  <1>2. q \in PlanState /\ RootTaken(r, q, roots[k])
    <2>1. q \in PlanState /\ roots[k] \in Seq(Host)
      BY DEF RootsTaken
    <2> QED
      BY <1>1, <2>1, RootStep
  <1>3. \A i \in 1..k : i \in 1..(k - 1) \/ i = k
    OBVIOUS
  <1>4. r \in PlanState /\ ToSet(p.seeds) \subseteq ToSet(r.seeds)
    BY <1>2 DEF RootTaken, RootsTaken
  <1>5. ~r.partial => \A i \in 1..k : ToSet(roots[i]) \subseteq ToSet(r.seeds)
    <2> SUFFICES ASSUME ~r.partial, NEW i \in 1..k PROVE ToSet(roots[i]) \subseteq ToSet(r.seeds)
      OBVIOUS
    <2>1. CASE i = k
      BY <1>2, <2>1 DEF RootTaken
    <2>2. CASE i \in 1..(k - 1)
      BY <1>2, <2>2 DEF RootTaken, RootsTaken
    <2> QED
      BY <1>3, <2>1, <2>2
  <1>6. r.attempted = 0 => r.limit > 0 /\ \A i \in 1..k : roots[i] = << >>
    <2> SUFFICES ASSUME r.attempted = 0 PROVE r.limit > 0 /\ \A i \in 1..k : roots[i] = << >>
      OBVIOUS
    <2>1. q.attempted = 0
      BY <1>2 DEF RootTaken, PlanState
    <2> QED
      BY <1>2, <1>3, <2>1 DEF RootTaken, RootsTaken
  <1> QED
    BY <1>1, <1>4, <1>5, <1>6 DEF RootsTaken

\* The loop over the scope roots.
LEMMA RootsTakenAll ==
    ASSUME NEW p \in PlanState, p.limit > 0, p.attempted = 0, NEW roots \in Seq(Seq(Host))
    PROVE  RootsTaken(FoldLeft(PlanRoot, p, roots), p, roots, Len(roots))
  <1>1. PICK g : IsRun(g, "root", p, roots) /\ FoldLeft(PlanRoot, p, roots) = g[Len(roots)]
    BY RootsRun
  <1> DEFINE B == {k \in 0..Len(roots) : ~RootsTaken(g[k], p, roots, k)}
  <1>2. B = {}
    <2> SUFFICES ASSUME B # {} PROVE FALSE
      OBVIOUS
    <2>1. PICK k \in B : \A m \in B : k <= m
      <3>1. B \subseteq Nat
        OBVIOUS
      <3> HIDE DEF B
      <3> QED
        BY <3>1, LeastNat
    <2>2. CASE k = 0
      <3>1. g[0] = p
        BY <1>1 DEF IsRun
      <3>2. RootsTaken(p, p, roots, 0)
        BY DEF RootsTaken
      <3> QED
        BY <2>1, <2>2, <3>1, <3>2
    <2>3. CASE k # 0
      <3>1. k \in 1..Len(roots) /\ k - 1 \in 0..Len(roots) /\ k - 1 \notin B
        BY <2>1, <2>3
      <3>2. RootsTaken(g[k - 1], p, roots, k - 1)
        BY <3>1
      <3>3. g[k] = PlanRoot(g[k - 1], roots[k])
        BY <1>1, <3>1 DEF IsRun, FoldStep
      <3>4. RootsTaken(g[k], p, roots, k)
        BY <3>1, <3>2, <3>3, RootsTakenStep
      <3> QED
        BY <2>1, <3>4
    <2> QED
      BY <2>2, <2>3
  <1>3. Len(roots) \in 0..Len(roots)
    OBVIOUS
  <1> QED
    BY <1>1, <1>2, <1>3

\* planCTDiscovery: unless the request names too many, its seeds are all
\* planned; and if the index was asked to the end, so are all names in it.
PlanWhole(planned, told) ==
    /\ planned \in Seq(Host) /\ ToSet(Requested) \subseteq ToSet(planned)
    /\ <<"ct_discovery", "complete">> \in told =>
         \A i \in DOMAIN Index : ToSet(Index[i]) \subseteq ToSet(planned)

LEMMA PlansWhole ==
    ASSUME ~TooManySeeds, NEW ct \in Discovery, NEW asked \in 0..(Len(Index) - 1)
    PROVE  PlanWhole(Plan(ct, asked).seeds, Plan(ct, asked).coverage)
  <1>1. FirstSeeds = Requested /\ Requested \in Seq(Host) /\ Index \in Seq(Seq(Host))
    BY CollectionAssumption DEF FirstSeeds
  <1>2. PICK limit \in Int : limit = Smaller(CTMaximumSeed, SeedLimit - Len(FirstSeeds))
    BY <1>1, CollectionAssumption DEF Smaller
  <1>3. PICK start : start = [seeds |-> FirstSeeds, limit |-> limit, attempted |-> 0, partial |-> FALSE]
    OBVIOUS
  <1>4. start \in PlanState /\ start.limit = limit /\ start.attempted = 0 /\ start.seeds = Requested
    BY <1>1, <1>3 DEF PlanState
  <1>5. PICK roots : roots = IF ct = "failing" THEN SubSeq(Index, 1, asked) ELSE Index
    OBVIOUS
  <1>6. roots \in Seq(Seq(Host)) /\ (ct # "failing" => roots = Index)
    BY <1>1, <1>5
  <1>7. PICK all : all = FoldLeft(PlanRoot, start, roots)
    OBVIOUS
  <1>8. PICK status : status = IF limit <= 0 THEN "partial"
                  ELSE IF ct = "failing" /\ all.limit > 0 THEN "unavailable"
                  ELSE IF all.attempted = 0 THEN "complete"
                  ELSE IF all.partial \/ ct = "failing" THEN "partial" ELSE "complete"
    OBVIOUS
  <1>9. PICK plan : plan = Plan(ct, asked)
    OBVIOUS
  <1>10. CASE ct \in {"unrequested", "disabled", "unavailable"}
    <2>1. plan.seeds = Requested /\ <<"ct_discovery", "complete">> \notin plan.coverage
      BY <1>1, <1>9, <1>10 DEF Plan
    <2> QED
      BY <1>1, <1>9, <2>1 DEF PlanWhole
  <1>11. CASE ct \notin {"unrequested", "disabled", "unavailable"}
    <2>1. plan = [seeds |-> IF limit <= 0 THEN FirstSeeds ELSE all.seeds,
                  coverage |-> {<<"ct_discovery", status>>}]
      BY <1>2, <1>3, <1>5, <1>7, <1>8, <1>9, <1>11 DEF Plan
    <2>2. CASE limit <= 0
      <3>1. plan.seeds = Requested /\ <<"ct_discovery", "complete">> \notin plan.coverage
        BY <1>1, <1>8, <2>1, <2>2
      <3> QED
        BY <1>1, <1>9, <3>1 DEF PlanWhole
    <2>3. CASE ~(limit <= 0)
      <3>1. RootsTaken(all, start, roots, Len(roots))
        BY <1>4, <1>6, <1>7, <2>3, RootsTakenAll
      <3>2. plan.seeds = all.seeds /\ plan.seeds \in Seq(Host) /\ ToSet(Requested) \subseteq ToSet(plan.seeds)
        BY <1>4, <2>1, <2>3, <3>1 DEF RootsTaken, PlanState
      <3>3. ASSUME <<"ct_discovery", "complete">> \in plan.coverage, NEW i \in DOMAIN Index
            PROVE  ToSet(Index[i]) \subseteq ToSet(plan.seeds)
        <4>1. status = "complete"
          BY <2>1, <3>3
        <4>2. CASE all.attempted = 0
          <5>1. all.limit > 0 /\ \A j \in 1..Len(roots) : roots[j] = << >>
            BY <3>1, <4>2 DEF RootsTaken
          <5>2. ct # "failing"
            BY <1>8, <2>3, <4>1, <5>1
          <5>3. Index[i] = << >>
            BY <1>1, <1>6, <5>1, <5>2
          <5> QED
            BY <5>3, EmptySet
        <4>3. CASE all.attempted # 0
          <5>1. ct # "failing" /\ ~all.partial
            BY <1>8, <2>3, <4>1, <4>3
          <5>2. i \in 1..Len(roots) /\ roots = Index
            BY <1>1, <1>6, <5>1
          <5> QED
            BY <3>1, <3>2, <5>1, <5>2 DEF RootsTaken
        <4> QED
          BY <4>2, <4>3
      <3> QED
        BY <1>9, <3>2, <3>3 DEF PlanWhole
    <2> QED
      BY <2>2, <2>3
  <1> QED
    BY <1>10, <1>11

-----------------------------------------------------------------------------
(* A report that is complete: the inductive invariant of its seeds.        *)

\* What the DNS run of a seed has found is observed, and unless it says that it
\* failed it has found all that it asked for.
SeedStream(s, name, seen) ==
    /\ s.host = name
    /\ \A a \in s.got : \E o \in seen : o.type = "dns_address" /\ o.seed = name /\ o.value = a
    /\ ~s.failed =>
         /\ s.got \cup s.todo = UNION {Addr[name][f] : f \in Family \ s.asked}
         /\ \A f \in Family \ s.asked : \E o \in seen :
              o.type = "dns_query" /\ o.seed = name /\ o.hop = <<0, f>> /\ o.status \in {"answered", "nodata"}

SeedInHand == pc # "collected" => SeedStream(streams[1], seed, observed)

\* Coverage that is not spoilt has a whole plan, and each seed behind the one
\* in hand has been collected.
PlanKept == Unspoilt => PlanWhole(seeds, coverage) /\ at \in 1..Len(seeds)

SeedsDone ==
    Unspoilt => \A i \in 1..Len(seeds), s \in Host :
      seeds[i] = s /\ (i < at \/ pc = "collected") => Collected(s)

Collecting == {"collect", "lookup", "looked"}

PastCollection == stage \notin Collecting => pc = "collected"

\* A run that is complete so far has no error.
CoverSound ==
    /\ cover \in {"complete", "partial", "unavailable"}
    /\ cover = "complete" => err = None

SeedsInv ==
    /\ report = NoReport => SeedInHand /\ PlanKept /\ SeedsDone /\ PastCollection
    /\ CoverSound
    /\ SeedsAccounted

-----------------------------------------------------------------------------
(* The steps of a plan, of a collection and of a report.                   *)

\* What is collected of a seed stays collected.
LEMMA CollectedStays ==
    ASSUME NEW s, Collected(s), mode' = mode, observed \subseteq observed', finals \subseteq finals'
    PROVE  Collected(s)'
  BY DEF Collected, AllAddresses

LEMMA SeedStreamStays ==
    ASSUME NEW s, NEW name, NEW seen, SeedStream(s, name, seen), NEW more, seen \subseteq more
    PROVE  SeedStream(s, name, more)
  <1>1. \A a \in s.got : \E o \in more : o.type = "dns_address" /\ o.seed = name /\ o.value = a
    BY DEF SeedStream
  <1>2. ~s.failed => \A f \in Family \ s.asked : \E o \in more :
          o.type = "dns_query" /\ o.seed = name /\ o.hop = <<0, f>> /\ o.status \in {"answered", "nodata"}
    BY DEF SeedStream
  <1> QED
    BY <1>1, <1>2 DEF SeedStream

\* Coverage that says no more of the index.
Quiet(more) == <<"ct_discovery", "complete">> \notin more

LEMMA PlanStays ==
    ASSUME PlanKept, UNCHANGED <<seeds, at>>, NEW more, coverage' = coverage \cup more, Quiet(more)
    PROVE  PlanKept'
  BY CoverageGrows DEF PlanKept, PlanWhole, Quiet

LEMMA DoneStays ==
    ASSUME SeedsDone, UNCHANGED <<mode, seeds, at>>, pc' = "collected" => pc = "collected", observed \subseteq observed', finals \subseteq finals',
           NEW more, coverage' = coverage \cup more
    PROVE  SeedsDone'
  <1> SUFFICES ASSUME Unspoilt', NEW i \in 1..Len(seeds), NEW s \in Host, seeds[i] = s, i < at \/ pc' = "collected"
               PROVE  Collected(s)'
    BY DEF SeedsDone
  <1>1. Collected(s)
    BY CoverageGrows DEF SeedsDone
  <1> QED
    BY <1>1, CollectedStays

LEMMA AccountStays ==
    ASSUME SeedsAccounted, UNCHANGED <<mode, report>>, observed \subseteq observed', finals \subseteq finals'
    PROVE  SeedsAccounted'
  <1> SUFFICES ASSUME report # NoReport, report.status = "complete"
               PROVE  /\ \A s \in ToSet(Requested) : Collected(s)'
                      /\ <<"ct_discovery", "complete">> \in report.coverage =>
                           \A i \in DOMAIN Index : \A s \in ToSet(Index[i]) : Collected(s)'
    BY DEF SeedsAccounted
  <1>1. \A s : Collected(s) => Collected(s)'
    BY CollectedStays
  <1> QED
    BY <1>1 DEF SeedsAccounted

\* A step behind the collection, and one of the context.
SeedsFrame == UNCHANGED <<mode, seeds, at, streams, pc, cover, err, report, finals>>

LEMMA SeedsKeep ==
    ASSUME SeedsInv, SeedsFrame, observed \subseteq observed',
           \/ report # NoReport
           \/ \E more : coverage' = coverage \cup more /\ Quiet(more),
           stage' \in Collecting \/ stage \notin Collecting \/ pc = "collected"
    PROVE  SeedsInv'
  <1> USE DEF SeedsFrame
  <1>1. CoverSound' /\ SeedsAccounted'
    BY AccountStays DEF SeedsInv, CoverSound
  <1>2. CASE report # NoReport
    BY <1>1, <1>2 DEF SeedsInv
  <1>3. CASE report = NoReport
    <2>1. PICK more : coverage' = coverage \cup more /\ Quiet(more)
      BY <1>3
    <2>2. PlanKept' /\ SeedsDone' /\ PastCollection'
      BY <1>3, <2>1, PlanStays, DoneStays DEF SeedsInv, PastCollection
    <2>3. SeedInHand'
      <3> SUFFICES ASSUME pc # "collected" PROVE SeedStream(streams[1], seed, observed)'
        BY DEF SeedInHand
      <3>1. PICK s, name, seen, next : s = streams[1] /\ name = seed /\ seen = observed /\ next = observed'
        OBVIOUS
      <3>2. SeedStream(s, name, seen)
        BY <1>3, <3>1 DEF SeedsInv, SeedInHand
      <3>3. SeedStream(s, name, next)
        BY <3>1, <3>2, SeedStreamStays
      <3> QED
        BY <3>1, <3>3 DEF SeedStream, seed
    <2> QED
      BY <1>1, <2>2, <2>3 DEF SeedsInv
  <1> QED
    BY <1>2, <1>3

\* The DNS run of a seed takes an answer, publishes an address or closes.
LEMMA SeedAnswers ==
    ASSUME NEW s \in StreamType, NEW name, NEW seen, SeedStream(s, name, seen), NEW more, seen \subseteq more,
           NEW f \in Family, s.todo = {}, NEW found \in SUBSET Resolved, NEW bad \in BOOLEAN,
           ~bad => /\ found = Addr[name][f]
                   /\ \E o \in more : /\ o.type = "dns_query" /\ o.seed = name /\ o.hop = <<0, f>>
                                      /\ o.status \in {"answered", "nodata"},
           NEW t, t = Answered(s, f, found, bad)
    PROVE  SeedStream(t, name, more)
  <1>1. /\ t.host = s.host /\ t.asked = s.asked \ {f} /\ t.todo = found /\ t.got = s.got
        /\ t.failed <=> s.failed \/ bad
    BY DEF Answered, StreamType
  <1>2. SeedStream(s, name, more)
    BY SeedStreamStays
  <1>3. ASSUME ~t.failed
        PROVE  /\ t.got \cup t.todo = UNION {Addr[name][g] : g \in Family \ t.asked}
               /\ \A g \in Family \ t.asked : \E o \in more :
                    o.type = "dns_query" /\ o.seed = name /\ o.hop = <<0, g>> /\ o.status \in {"answered", "nodata"}
    <2>1. s.got = UNION {Addr[name][g] : g \in Family \ s.asked} /\ found = Addr[name][f]
      BY <1>1, <1>3 DEF SeedStream
    <2>2. Family \ t.asked = (Family \ s.asked) \cup {f}
      BY <1>1
    <2>3. t.got \cup t.todo = UNION {Addr[name][g] : g \in Family \ t.asked}
      BY <1>1, <2>1, <2>2
    <2>4. \A g \in Family \ s.asked : \E o \in more :
            o.type = "dns_query" /\ o.seed = name /\ o.hop = <<0, g>> /\ o.status \in {"answered", "nodata"}
      BY <1>1, <1>2, <1>3 DEF SeedStream
    <2> QED
      BY <1>1, <1>3, <2>2, <2>3, <2>4
  <1> QED
    BY <1>1, <1>2, <1>3 DEF SeedStream

LEMMA SeedPublishes ==
    ASSUME NEW s \in StreamType, NEW name, NEW seen, SeedStream(s, name, seen), NEW more, seen \subseteq more,
           NEW a \in s.todo, NEW send \in BOOLEAN,
           send => \E o \in more : o.type = "dns_address" /\ o.seed = name /\ o.value = a,
           NEW t, t = Published(s, a, send)
    PROVE  SeedStream(t, name, more)
  <1>1. /\ t.host = s.host /\ t.asked = s.asked /\ t.todo = s.todo \ {a}
        /\ t.got = IF send THEN s.got \cup {a} ELSE s.got
        /\ t.failed <=> s.failed \/ ~send
    BY DEF Published, StreamType
  <1>2. SeedStream(s, name, more)
    BY SeedStreamStays
  <1>3. \A b \in t.got : \E o \in more : o.type = "dns_address" /\ o.seed = name /\ o.value = b
    BY <1>1, <1>2 DEF SeedStream
  <1>4. ASSUME ~t.failed
        PROVE  /\ t.got \cup t.todo = UNION {Addr[name][f] : f \in Family \ t.asked}
               /\ \A f \in Family \ t.asked : \E o \in more :
                    o.type = "dns_query" /\ o.seed = name /\ o.hop = <<0, f>> /\ o.status \in {"answered", "nodata"}
    <2>1. t.got \cup t.todo = s.got \cup s.todo /\ ~s.failed
      BY <1>1, <1>4
    <2>2. s.got \cup s.todo = UNION {Addr[name][f] : f \in Family \ s.asked} /\ s.asked = t.asked
      BY <1>1, <1>2, <2>1 DEF SeedStream
    <2>3. \A f \in Family \ s.asked : \E o \in more :
            o.type = "dns_query" /\ o.seed = name /\ o.hop = <<0, f>> /\ o.status \in {"answered", "nodata"}
      BY <1>2, <2>1 DEF SeedStream
    <2> QED
      BY <2>1, <2>2, <2>3
  <1>5. t.host = name
    BY <1>1, <1>2 DEF SeedStream
  <1> QED
    BY <1>3, <1>4, <1>5 DEF SeedStream

LEMMA SeedCloses ==
    ASSUME NEW s \in StreamType, NEW name, NEW seen, SeedStream(s, name, seen), NEW bad \in BOOLEAN,
           NEW t, t = Closed(s, bad)
    PROVE  SeedStream(t, name, seen)
  <1>1. /\ t.host = s.host /\ t.asked = s.asked /\ t.todo = s.todo /\ t.got = s.got
        /\ t.failed <=> s.failed \/ bad
    BY DEF Closed, StreamType
  <1> QED
    BY <1>1 DEF SeedStream

LEMMA SeedTaken ==
    ASSUME NEW s \in StreamType, NEW name, NEW seen, SeedStream(s, name, seen),
           NEW t, t = Taken(s)
    PROVE  SeedStream(t, name, seen)
  <1>1. /\ t.host = s.host /\ t.asked = s.asked /\ t.todo = s.todo /\ t.got = s.got
        /\ t.failed <=> s.failed
    BY DEF Taken, StreamType
  <1> QED
    BY <1>1 DEF SeedStream

\* A step of a collection that leaves the seed in hand.
SeedStays ==
    /\ UNCHANGED <<mode, seeds, at, finals, report, stage>>
    /\ pc' = "collected" <=> pc = "collected"
    /\ observed \subseteq observed'

LEMMA SeedsMove ==
    ASSUME SeedsInv, report = NoReport, SeedStays, NEW more, coverage' = coverage \cup more, Quiet(more),
           CoverSound', SeedInHand'
    PROVE  SeedsInv'
  <1> USE DEF SeedStays
  <1>1. PlanKept' /\ SeedsDone' /\ PastCollection'
    BY PlanStays, DoneStays DEF SeedsInv, PastCollection
  <1> QED
    BY <1>1 DEF SeedsInv, SeedsAccounted

\* The observations of a lookup and of an address.
LEMMA SeedQuery ==
    ASSUME NEW f, NEW status
    PROVE  \E o \in LookupObservations(1, f, status) :
             o.type = "dns_query" /\ o.seed = seed /\ o.hop = <<0, f>> /\ o.status = status
  <1>1. \A type, subject, s, n, scope, value, told :
          LET o == Observation(type, subject, s, n, scope, value, told)
          IN  o.type = type /\ o.seed = s /\ o.hop = n /\ o.status = told
    BY DEF Observation
  <1>2. \E subject, scope, value :
          Observation("dns_query", subject, seed, <<1 - 1, f>>, scope, value, status) \in LookupObservations(1, f, status)
    BY Zenon DEF LookupObservations
  <1>3. 1 - 1 = 0
    OBVIOUS
  <1> QED
    BY <1>1, <1>2, <1>3

\* The stream of the seed afterwards.
LEMMA SeedStreamNow ==
    ASSUME NEW t, NEW name, NEW more, SeedStream(t, name, more),
           streams'[1] = t, seed' = name, observed' = more
    PROVE  SeedInHand'
  <1>1. SeedStream(streams[1], seed, observed)'
    <2>1. streams'[1].host = seed'
      BY DEF SeedStream
    <2>2. \A a \in streams'[1].got : \E o \in observed' : o.type = "dns_address" /\ o.seed = seed' /\ o.value = a
      BY DEF SeedStream
    <2>3. ~streams'[1].failed =>
            streams'[1].got \cup streams'[1].todo = UNION {Addr[seed'][f] : f \in Family \ streams'[1].asked}
      BY DEF SeedStream
    <2>4. ~streams'[1].failed =>
            \A f \in Family \ streams'[1].asked : \E o \in observed' :
              o.type = "dns_query" /\ o.seed = seed' /\ o.hop = <<0, f>> /\ o.status \in {"answered", "nodata"}
      BY DEF SeedStream
    <2> QED
      BY <2>1, <2>2, <2>3, <2>4, Zenon DEF SeedStream
  <1> QED
    BY <1>1 DEF SeedInHand

LEMMA SeedResolves ==
    ASSUME SeedsInv, CollectionInv, report = NoReport, UNCHANGED <<report, stage>>, ResolveStep
    PROVE  SeedsInv'
  <1>1. PICK i \in DOMAIN streams :
          (\E f \in Family : Answer(i, f)) \/ (\E a \in Address : Publish(i, a)) \/ Close(i)
    BY DEF ResolveStep
  <1>2. /\ UNCHANGED <<mode, seeds, at, pc, cover, err, finals, coverage>> /\ observed \subseteq observed'
    <2>1. \A f \in Family : Answer(i, f) =>
            UNCHANGED <<mode, seeds, at, pc, cover, err, finals, coverage>> /\ observed \subseteq observed'
      BY DEF Answer, Keep, planVars, httpVars
    <2>2. \A a \in Address : Publish(i, a) =>
            UNCHANGED <<mode, seeds, at, pc, cover, err, finals, coverage>> /\ observed \subseteq observed'
      BY DEF Publish, planVars, httpVars
    <2>3. Close(i) => UNCHANGED <<mode, seeds, at, pc, cover, err, finals, coverage>> /\ observed \subseteq observed'
      BY DEF Close, planVars, httpVars, resultVars
    <2> QED
      BY <1>1, <2>1, <2>2, <2>3
  <1>3. SeedStays /\ CoverSound' /\ coverage' = coverage \cup {} /\ Quiet({})
    BY <1>2 DEF SeedStays, CoverSound, Quiet, SeedsInv
  <1>4. ASSUME pc # "collected" PROVE SeedInHand'
    <2>1. 1 \in DOMAIN streams /\ i \in Nat
      BY <1>4 DEF CollectionInv, CollectionTypes
    <2>2. PICK s \in StreamType : s = streams[1]
      BY <2>1 DEF CollectionInv, CollectionTypes
    <2>3. PICK name, seen, more : name = seed /\ seen = observed /\ more = observed'
      OBVIOUS
    <2>4. SeedStream(s, name, seen) /\ seen \subseteq more /\ SeedStream(s, name, more)
      <3>1. SeedStream(s, name, seen) /\ seen \subseteq more
        BY <1>2, <1>4, <2>2, <2>3 DEF SeedsInv, SeedInHand
      <3> QED
        BY <3>1, SeedStreamStays
    <2>5. seed' = name /\ observed' = more
      BY <1>2, <2>3 DEF seed
    <2>6. CASE i # 1
      <3>1. streams'[1] = s
        <4>1. \A f \in Family : Answer(i, f) => streams'[1] = streams[1]
          BY <2>1, <2>6 DEF Answer, CollectionInv, CollectionTypes
        <4>2. \A a \in Address : Publish(i, a) => streams'[1] = streams[1]
          BY <2>1, <2>6 DEF Publish, CollectionInv, CollectionTypes
        <4>3. Close(i) => streams'[1] = streams[1]
          BY <2>1, <2>6 DEF Close, CollectionInv, CollectionTypes
        <4> QED
          BY <1>1, <2>2, <4>1, <4>2, <4>3
      <3> QED
        BY <2>4, <2>5, <3>1, SeedStreamNow
    <2>7. ASSUME i = 1, NEW f \in Family, Answer(i, f) PROVE SeedInHand'
      <3>1. PICK found \in SUBSET Addr[s.host][f], answered \in BOOLEAN :
              /\ streams' = [streams EXCEPT ![1].asked = @ \ {f}, ![1].todo = found,
                               ![1].failed = @ \/ ~answered \/ found # Addr[s.host][f]]
              /\ Keep(1, LookupObservations(1, f,
                           IF ~answered THEN "failed"
                           ELSE IF found = {} /\ s.host \notin Alias THEN "nodata" ELSE "answered"))
        <4>1. Answer(1, f)
          BY <2>7
        <4> QED
          BY <2>2, <4>1 DEF Answer
      <3>2. PICK bad \in BOOLEAN : bad <=> ~answered \/ found # Addr[s.host][f]
        OBVIOUS
      <3>3. PICK t : t = Answered(s, f, found, bad)
        OBVIOUS
      <3>4. streams'[1] = t
        BY <2>1, <2>2, <3>1, <3>2, <3>3 DEF CollectionInv, CollectionTypes, Answered
      <3>5. PICK status : /\ Keep(1, LookupObservations(1, f, status))
                          /\ answered => status \in {"answered", "nodata"}
        BY <3>1
      <3>6. \E o \in more : o.type = "dns_query" /\ o.seed = name /\ o.hop = <<0, f>> /\ o.status = status
        <4>1. LookupObservations(1, f, status) \subseteq more
          BY <2>3, <3>5 DEF Keep
        <4> QED
          BY <2>3, <4>1, SeedQuery
      <3>7. s.host = name /\ s.todo = {} /\ found \in SUBSET Resolved
        <4>1. s.host = name /\ s.todo = {}
          BY <2>2, <2>4, <2>7 DEF Answer, SeedStream
        <4>2. s.host \in Hosts
          BY DEF StreamType
        <4> QED
          BY <4>1, <4>2 DEF Resolved
      <3>8. SeedStream(t, name, more)
        BY <2>4, <3>2, <3>3, <3>5, <3>6, <3>7, SeedAnswers
      <3> QED
        BY <2>5, <3>4, <3>8, SeedStreamNow
    <2>8. ASSUME i = 1, NEW a \in Address, Publish(i, a) PROVE SeedInHand'
      <3>1. PICK send \in BOOLEAN :
              /\ streams' = [streams EXCEPT ![1].todo = @ \ {a},
                               ![1].chan = IF send THEN Append(@, a) ELSE @,
                               ![1].got = IF send THEN @ \cup {a} ELSE @,
                               ![1].failed = @ \/ ~send]
              /\ send => free # 0
        BY <2>8 DEF Publish
      <3>2. PICK t : t = Published(s, a, send)
        OBVIOUS
      <3>3. streams'[1] = t
        BY <2>1, <2>2, <3>1, <3>2 DEF CollectionInv, CollectionTypes, Published
      <3>4. ASSUME send PROVE \E o \in more : o.type = "dns_address" /\ o.seed = name /\ o.value = a
        <4>1. PICK o : o = Observation("dns_address", seed, seed, <<0, a>>, ScopeForSeed(seed), a,
                                       IF a \in Allowed THEN "answered" ELSE "policy_blocked")
          OBVIOUS
        <4>2. o \in more
          BY <2>3, <2>8, <3>1, <3>4, <4>1 DEF Publish
        <4>3. o.type = "dns_address" /\ o.seed = name /\ o.value = a
          BY <2>3, <4>1 DEF Observation
        <4> QED
          BY <4>2, <4>3
      <3>5. a \in s.todo
        BY <2>2, <2>8 DEF Publish
      <3>6. SeedStream(t, name, more)
        BY <2>4, <3>2, <3>4, <3>5, SeedPublishes
      <3> QED
        BY <2>5, <3>3, <3>6, SeedStreamNow
    <2>9. ASSUME i = 1, Close(i) PROVE SeedInHand'
      <3>1. PICK bad \in BOOLEAN : bad <=> ended
        OBVIOUS
      <3>2. PICK t : t = Closed(s, bad)
        OBVIOUS
      <3>3. streams'[1] = t
        BY <2>1, <2>2, <2>9, <3>1, <3>2 DEF Close, CollectionInv, CollectionTypes, Closed
      <3>4. SeedStream(t, name, more)
        BY <2>4, <3>2, SeedCloses
      <3> QED
        BY <2>5, <3>3, <3>4, SeedStreamNow
    <2> QED
      BY <1>1, <2>6, <2>7, <2>8, <2>9
  <1>5. SeedInHand'
    BY <1>2, <1>4 DEF SeedInHand
  <1> QED
    BY <1>3, <1>5, SeedsMove

\* HTTP takes at most an address from the stream of the seed.
LEMMA SeedWaits ==
    ASSUME SeedsInv, CollectionInv, report = NoReport, pc # "collected", UNCHANGED <<seeds, at>>,
           streams'[1] = streams[1] \/ streams'[1] = Taken(streams[1]), observed \subseteq observed'
    PROVE  SeedInHand'
  <1>1. PICK s \in StreamType : s = streams[1]
    BY DEF CollectionInv, CollectionTypes
  <1>2. PICK name, seen, more : name = seed /\ seen = observed /\ more = observed'
    OBVIOUS
  <1>3. SeedStream(s, name, seen) /\ seen \subseteq more /\ seed' = name
    BY <1>1, <1>2 DEF SeedsInv, SeedInHand, seed
  <1>4. PICK t : t = streams'[1]
    OBVIOUS
  <1>5. SeedStream(s, name, more)
    BY <1>3, SeedStreamStays
  <1>6. SeedStream(t, name, more)
    <2>1. t = s \/ t = Taken(s)
      BY <1>1, <1>4
    <2> QED
      BY <1>5, <2>1, SeedTaken
  <1> QED
    BY <1>2, <1>3, <1>4, <1>6, SeedStreamNow

LEMMA SeedsHTTP ==
    ASSUME SeedsInv, CollectionInv, report = NoReport, UNCHANGED <<report, stage>>, HTTPStep, ~NextSeed
    PROVE  SeedsInv'
  <1> USE DEF SeedsInv, CoverSound, SeedStays, Quiet, planVars, resultVars
  <1>1. CASE NextAddress
    <2>1. pc = "next" /\ pc' \in {"next", "acquire"} /\ UNCHANGED <<mode, seeds, at, observed, coverage, finals>>
      BY <1>1 DEF NextAddress
    <2>2. streams'[1] = streams[1] \/ streams'[1] = Taken(streams[1])
      <3>1. streams' = [streams EXCEPT ![Len(streams)].chan = Tail(@)] /\ streams \in Seq(StreamType)
        BY <1>1 DEF NextAddress, CollectionInv, CollectionTypes
      <3>2. 1 \in DOMAIN streams
        BY <2>1 DEF CollectionInv, CollectionTypes
      <3>3. CASE Len(streams) = 1
        BY <3>1, <3>2, <3>3 DEF Taken
      <3>4. CASE Len(streams) # 1
        BY <3>1, <3>2, <3>4
      <3> QED
        BY <3>3, <3>4
    <2>3. CoverSound'
      BY <1>1 DEF NextAddress
    <2>4. coverage' = coverage \cup {}
      BY <2>1
    <2> QED
      BY <2>1, <2>2, <2>3, <2>4, SeedWaits, SeedsMove
  <1>2. CASE NoAddress \/ Acquire \/ NoResponse \/ Join
    <2>1. /\ pc # "collected" /\ pc' # "collected" /\ CoverSound'
          /\ UNCHANGED <<mode, seeds, at, streams, observed, coverage, finals>>
      <3>1. CASE NoAddress
        BY <3>1 DEF NoAddress, EndRun
      <3>2. CASE Acquire
        BY <3>2 DEF Acquire, EndRun
      <3>3. CASE NoResponse
        BY <3>3 DEF NoResponse, EndRun
      <3>4. CASE Join
        BY <3>4 DEF Join
      <3> QED
        BY <1>2, <3>1, <3>2, <3>3, <3>4
    <2>2. coverage' = coverage \cup {}
      BY <2>1
    <2> QED
      BY <2>1, <2>2, SeedWaits, SeedsMove
  <1>3. ASSUME NEW body \in {"whole", "truncated", "scripts"}, NEW location \in Location \cup {None}, Page(body, location)
        PROVE  SeedsInv'
    <2>1. /\ pc = "dial" /\ pc' \in {"next", "join"} /\ CoverSound'
          /\ UNCHANGED <<mode, seeds, at, finals>> /\ observed \subseteq observed'
      BY <1>3 DEF Page, Respond, Follow
    <2>2. streams'[1] = streams[1]
      BY <1>3, <2>1 DEF Page, Follow, CollectionInv, CollectionTypes
    <2>3. PICK more : more = {<<"http_script_signals", IF body = "whole" THEN "complete" ELSE "partial">>}
      OBVIOUS
    <2>4. coverage' = coverage \cup more /\ Quiet(more)
      BY <1>3, <2>3 DEF Page, Respond
    <2> QED
      BY <2>1, <2>2, <2>4, SeedWaits, SeedsMove
  <1>4. CASE BodyFails
    <2>1. /\ pc = "dial" /\ pc' = "join" /\ CoverSound'
          /\ UNCHANGED <<mode, seeds, at, finals, streams>> /\ observed \subseteq observed'
      BY <1>4 DEF BodyFails, Respond, EndRun
    <2>2. PICK more : more = {<<"http_script_signals", "partial">>}
      OBVIOUS
    <2>3. coverage' = coverage \cup more /\ Quiet(more)
      BY <1>4, <2>2 DEF BodyFails, Respond
    <2> QED
      BY <2>1, <2>3, SeedWaits, SeedsMove
  <1> QED
    BY <1>1, <1>2, <1>3, <1>4 DEF HTTPStep

\* A seed that leaves coverage unspoilt has been collected.
LEMMA SeedTakenUp ==
    ASSUME SeedsInv, CollectionInv, report = NoReport, NextSeed, Unspoilt',
           NEW name, seed = name
    PROVE  Collected(name)'
  <1>1. /\ pc = "joined" /\ ~streams[1].open
        /\ coverage' = coverage \cup {<<"dns", IF streams[1].failed THEN "partial" ELSE "complete">>}
                         \cup (IF mode = "full" THEN {<<"http", cover>>} ELSE {})
        /\ observed \subseteq observed' /\ mode' = mode
    BY DEF NextSeed, SeedDone, planVars
  <1>2. 1 \in DOMAIN streams /\ streams[1] \in StreamType /\ streams[1].asked = {} /\ streams[1].todo = {}
    BY <1>1 DEF CollectionInv, CollectionTypes, StreamsSound, StreamSound
  <1>3. ~streams[1].failed
    <2>1. streams[1].failed => <<"dns", "partial">> \in coverage'
      BY <1>1
    <2> QED
      BY <2>1, CoverageSpoilt
  <1>4. SeedStream(streams[1], name, observed)
    BY <1>1 DEF SeedsInv, SeedInHand
  <1>5. \A f \in Family : \E o \in observed :
          o.type = "dns_query" /\ o.seed = name /\ o.hop = <<0, f>> /\ o.status \in {"answered", "nodata"}
    BY <1>2, <1>3, <1>4 DEF SeedStream
  <1>6. \A a \in AllAddresses(name) : \E o \in observed : o.type = "dns_address" /\ o.seed = name /\ o.value = a
    BY <1>2, <1>3, <1>4 DEF SeedStream, AllAddresses
  <1>7. ASSUME mode = "full" PROVE \E x \in finals' : x.seed = name
    <2>1. cover = "complete"
      <3>1. <<"http", cover>> \in coverage'
        BY <1>1, <1>7
      <3>2. cover = "complete" \/ cover = "partial" \/ cover = "unavailable"
        BY DEF SeedsInv, CoverSound
      <3> QED
        BY <3>1, <3>2, CoverageSpoilt
    <2>2. responses # << >> /\ err = None
      BY <1>1, <1>7, <2>1 DEF CollectionInv, RunSound, SeedsInv, CoverSound
    <2>3. finals' = finals \cup {[seed |-> seed, host |-> Last(responses).host, hop |-> Len(responses) - 1]}
      BY <2>2 DEF NextSeed
    <2>4. PICK x : x = [seed |-> seed, host |-> Last(responses).host, hop |-> Len(responses) - 1]
      OBVIOUS
    <2>5. x.seed = name
      BY <2>4
    <2> QED
      BY <2>3, <2>4, <2>5
  <1> QED
    BY <1>1, <1>5, <1>6, <1>7 DEF Collected, AllAddresses

LEMMA SeedsNext ==
    ASSUME SeedsInv, CollectionInv, report = NoReport, UNCHANGED <<report, stage>>, NextSeed
    PROVE  SeedsInv'
  <1>1. /\ pc = "joined" /\ UNCHANGED <<mode, seeds>> /\ observed \subseteq observed' /\ finals \subseteq finals'
        /\ cover' = "complete" /\ err' = None
    BY DEF NextSeed, SeedDone, planVars
  <1>2. PICK more : more = {<<"dns", IF streams[1].failed THEN "partial" ELSE "complete">>}
                             \cup (IF mode = "full" THEN {<<"http", cover>>} ELSE {})
    OBVIOUS
  <1>3. coverage' = coverage \cup more /\ Quiet(more)
    BY <1>2 DEF NextSeed, Quiet
  <1>4. Unspoilt' => Unspoilt
    BY <1>3, CoverageGrows
  <1>5. \/ at < Len(seeds) /\ at' = at + 1 /\ streams' = <<Stream(seeds[at + 1])>> /\ pc' # "collected"
        \/ ~(at < Len(seeds)) /\ at' = at /\ pc' = "collected"
    BY DEF NextSeed, StartHTTP
  <1>6. PlanKept'
    <2>1. Unspoilt' => PlanWhole(seeds, coverage) /\ at \in 1..Len(seeds)
      BY <1>4 DEF SeedsInv, PlanKept
    <2>2. Unspoilt' => at' \in 1..Len(seeds)
      BY <1>5, <2>1 DEF PlanWhole
    <2> QED
      BY <1>1, <1>3, <2>1, <2>2 DEF PlanKept, PlanWhole, Quiet
  <1>7. SeedsDone'
    <2> SUFFICES ASSUME Unspoilt', NEW i \in 1..Len(seeds), NEW s \in Host, seeds[i] = s, i < at' \/ pc' = "collected"
                 PROVE  Collected(s)'
      BY <1>1 DEF SeedsDone
    <2>1. PlanWhole(seeds, coverage) /\ at \in 1..Len(seeds)
      BY <1>4 DEF SeedsInv, PlanKept
    <2>2. i < at \/ i = at
      BY <1>5, <2>1 DEF PlanWhole
    <2>3. CASE i < at
      <3>1. Collected(s)
        BY <1>4, <2>3 DEF SeedsInv, SeedsDone
      <3> QED
        BY <1>1, <3>1, CollectedStays
    <2>4. CASE i = at
      <3>1. seed = s
        BY <2>4 DEF seed
      <3> QED
        BY <3>1, SeedTakenUp
    <2> QED
      BY <2>2, <2>3, <2>4
  <1>8. SeedInHand'
    <2> SUFFICES ASSUME pc' # "collected" PROVE SeedInHand'
      BY DEF SeedInHand
    <2>1. PICK name, seen : name = seeds[at + 1] /\ seen = observed'
      OBVIOUS
    <2>2. PICK t : t = Stream(name)
      OBVIOUS
    <2>3. streams'[1] = t /\ seed' = name
      BY <1>1, <1>5, <2>1, <2>2 DEF seed
    <2>4. SeedStream(t, name, seen)
      BY <2>2 DEF Stream, SeedStream
    <2> QED
      BY <2>1, <2>3, <2>4, SeedStreamNow
  <1>9. PastCollection'
    BY <1>1 DEF SeedsInv, PastCollection
  <1> QED
    BY <1>1, <1>6, <1>7, <1>8, <1>9 DEF SeedsInv, CoverSound, SeedsAccounted

\* The steps behind the collection leave its results as they are.
LEMMA SeedsClassify ==
    ASSUME SeedsInv, Webtech \/ DetectRules \/ DetectSuffixes \/ EnrichPrefixes \/ EnrichASN
    PROVE  SeedsInv'
  <1> USE DEF SeedsFrame, webRest, planVars, httpVars, resultVars
  <1>1. CASE Webtech
    <2>1. SeedsFrame /\ observed \subseteq observed' /\ pc = "collected"
      BY <1>1 DEF Webtech
    <2>2. PICK more, done : /\ coverage' = coverage \cup more
                      /\ more = (IF mode = "dns" THEN {<<"http", "skipped">>} ELSE {})
                                  \cup {<<"tls_certificate", TLSCoverage>>}
                                  \cup {<<"webtech", IF x \in done THEN "complete" ELSE "partial">> : x \in finals}
      <3>1. PICK done \in Seen(finals) :
              coverage' = coverage
                \cup (IF mode = "dns" THEN {<<"http", "skipped">>} ELSE {})
                \cup {<<"tls_certificate", TLSCoverage>>}
                \cup {<<"webtech", IF x \in done THEN "complete" ELSE "partial">> : x \in finals}
        BY <1>1, Zenon DEF Webtech
      <3>2. PICK more : more = (IF mode = "dns" THEN {<<"http", "skipped">>} ELSE {})
                                  \cup {<<"tls_certificate", TLSCoverage>>}
                                  \cup {<<"webtech", IF x \in done THEN "complete" ELSE "partial">> : x \in finals}
        OBVIOUS
      <3> QED
        BY <3>1, <3>2
    <2>3. Quiet(more)
      BY <2>2 DEF Quiet
    <2> QED
      BY <2>1, <2>2, <2>3, SeedsKeep
  <1>2. ASSUME NEW detector \in {"rules", "suffix"}, NEW whole, stage = detector, stage' \in {"suffix", "prefix"},
               UNCHANGED <<webRest, report>>, coverage' = coverage \cup {<<detector, whole>>}
        PROVE  SeedsInv'
    <2>1. SeedsFrame /\ observed' = observed
      BY <1>2
    <2>2. PICK more : more = {<<detector, whole>>}
      OBVIOUS
    <2>3. coverage' = coverage \cup more /\ Quiet(more)
      BY <1>2, <2>2 DEF Quiet
    <2> QED
      BY <1>2, <2>1, <2>3, SeedsKeep DEF Collecting
  <1>3. CASE DetectRules
    <2>1. PICK cut \in BOOLEAN : coverage' = coverage \cup {<<"rules", IF cut THEN "partial" ELSE "complete">>}
      BY <1>3, Zenon DEF DetectRules, Detect
    <2>2. stage = "rules" /\ stage' = "suffix" /\ UNCHANGED <<webRest, report>>
      BY <1>3 DEF DetectRules, Detect
    <2>3. PICK whole : whole = IF cut THEN "partial" ELSE "complete"
      OBVIOUS
    <2> QED
      BY <1>2, <2>1, <2>2, <2>3
  <1>4. CASE DetectSuffixes
    <2>1. stage = "suffix" /\ stage' = "prefix" /\ UNCHANGED <<webRest, report>>
      BY <1>4 DEF DetectSuffixes, Detect
    <2>2. \E whole : coverage' = coverage \cup {<<"suffix", whole>>}
      BY <1>4, Zenon DEF DetectSuffixes, Detect
    <2> QED
      BY <1>2, <2>1, <2>2
  <1>5. CASE EnrichPrefixes
    <2>1. SeedsFrame /\ observed' = observed /\ stage = "prefix"
      BY <1>5 DEF EnrichPrefixes
    <2>2. PICK inputs : inputs = AddressInputs(observed)
      OBVIOUS
    <2>3. PICK done :
            coverage' = coverage
              \cup {<<"prefix", IF Kept(view, in.address) # Associations[view][in.address]
                                THEN "partial" ELSE "complete">> : in \in done}
              \cup (IF inputs = {} THEN {} ELSE SourceCoverage(view, {in.address : in \in inputs}))
              \cup (IF done # inputs THEN {<<"prefix", "unavailable">>} ELSE {})
      BY <1>5, <2>2, Zenon DEF EnrichPrefixes
    <2>4. PICK found : found = {<<"prefix", IF Kept(view, in.address) # Associations[view][in.address]
                                            THEN "partial" ELSE "complete">> : in \in done}
      OBVIOUS
    <2>5. PICK sources : sources = IF inputs = {} THEN {} ELSE SourceCoverage(view, {in.address : in \in inputs})
      OBVIOUS
    <2>6. PICK missing : missing = IF done # inputs THEN {<<"prefix", "unavailable">>} ELSE {}
      OBVIOUS
    <2>7. Quiet(found) /\ Quiet(missing) /\ Quiet(sources)
      <3>1. Quiet(found) /\ Quiet(missing)
        BY <2>4, <2>6 DEF Quiet
      <3>2. Quiet(sources)
        BY <2>5 DEF Quiet, SourceCoverage
      <3> QED
        BY <3>1, <3>2
    <2>8. PICK more : more = found \cup sources \cup missing
      OBVIOUS
    <2>9. coverage' = coverage \cup more
      BY <2>3, <2>4, <2>5, <2>6, <2>8, Zenon
    <2>10. Quiet(more)
      BY <2>7, <2>8 DEF Quiet
    <2> QED
      BY <2>1, <2>9, <2>10, SeedsKeep DEF Collecting
  <1>6. CASE EnrichASN
    <2>1. SeedsFrame /\ observed' = observed /\ stage = "asn"
      BY <1>6 DEF EnrichASN
    <2>2. PICK inputs : inputs = {in \in AddressInputs(observed) : Usable(ASNSource[view][FamilyOf[in.address]])}
      OBVIOUS
    <2>3. PICK done :
            coverage' = coverage \cup {<<"asn", IF in \in done THEN "complete" ELSE "unavailable">> : in \in inputs}
      BY <1>6, <2>2, Zenon DEF EnrichASN
    <2>4. PICK more : more = {<<"asn", IF in \in done THEN "complete" ELSE "unavailable">> : in \in inputs}
      OBVIOUS
    <2>5. coverage' = coverage \cup more /\ Quiet(more)
      BY <2>3, <2>4 DEF Quiet
    <2> QED
      BY <2>1, <2>5, SeedsKeep DEF Collecting
  <1> QED
    BY <1>1, <1>3, <1>4, <1>5, <1>6

\* What is stored is a report.
ReportStored == stage = "stored" => report # NoReport

LEMMA NewReportIs ==
    ASSUME NEW status \in ReportStatus, NewReport(status) = NoReport
    PROVE  FALSE
  <1>1. status # "none"
    BY DEF ReportStatus
  <1>2. PICK r : r = NewReport(status)
    OBVIOUS
  <1>3. r.status = status \/ r.status = "refused"
    BY <1>2 DEF NewReport
  <1>4. r.status = "none"
    BY <1>2 DEF NoReport
  <1> QED
    BY <1>1, <1>3, <1>4

LEMMA StoredNext ==
    ASSUME ReportStored, [Next]_vars
    PROVE  ReportStored'
  <1> USE DEF ReportStored
  <1>1. CASE Report
    BY <1>1, NewReportIs DEF Report
  <1>2. Collect => UNCHANGED <<stage, report>>
    BY DEF Collect, reportVars
  <1>3. Webtech \/ DetectRules \/ DetectSuffixes => stage' # "stored"
    BY DEF Webtech, DetectRules, DetectSuffixes, Detect
  <1>4. EnrichPrefixes \/ EnrichASN \/ ReplayReport => stage' # "stored"
    BY DEF EnrichPrefixes, EnrichASN, ReplayReport
  <1>5. (\E a \in Address : LookupIP(a)) \/ (\E v \in View : Reclassify(v)) => stage' # "stored"
    BY DEF LookupIP, Reclassify
  <1>6. UNCHANGED reportVars \/ UNCHANGED vars => UNCHANGED <<stage, report>>
    BY DEF reportVars, vars
  <1> QED
    BY <1>1, <1>2, <1>3, <1>4, <1>5, <1>6 DEF Next, AnalyzeStep

\* A report that is complete has coverage that is not spoilt.
LEMMA SeedsReport ==
    ASSUME SeedsInv, Report
    PROVE  SeedsInv'
  <1>1. /\ stage = "report" /\ report = NoReport
        /\ UNCHANGED <<mode, seeds, pc, cover, err, finals, observed>>
    BY DEF Report, Live, webRest, planVars, httpVars
  <1>2. PICK status \in ReportStatus : report' = NewReport(status)
    BY DEF Report
  <1>3. PICK r : r = NewReport(status)
    OBVIOUS
  <1>4. r.coverage = coverage /\ (r.status = "complete" => status = "complete")
    BY <1>3 DEF NewReport
  <1>5. status = "complete" => Unspoilt
    BY <1>2 DEF ReportStatus, Unspoilt
  <1>6. ASSUME r.status = "complete"
        PROVE  /\ \A s \in ToSet(Requested) : Collected(s)
               /\ <<"ct_discovery", "complete">> \in r.coverage =>
                    \A i \in DOMAIN Index : \A s \in ToSet(Index[i]) : Collected(s)
    <2>1. Unspoilt /\ pc = "collected"
      BY <1>1, <1>4, <1>5, <1>6 DEF SeedsInv, PastCollection, Collecting
    <2>2. PlanWhole(seeds, coverage)
      BY <1>1, <2>1 DEF SeedsInv, PlanKept
    <2>3. \A s \in ToSet(seeds) : Collected(s)
      BY <1>1, <2>1, <2>2 DEF SeedsInv, SeedsDone, PlanWhole, ToSet
    <2> QED
      BY <1>4, <2>2, <2>3 DEF PlanWhole
  <1>7. SeedsAccounted'
    <2>1. \A s : Collected(s) => Collected(s)'
      BY <1>1, CollectedStays
    <2>2. report' = r
      BY <1>2, <1>3
    <2> QED
      BY <1>6, <2>1, <2>2 DEF SeedsAccounted
  <1>8. CoverSound'
    BY <1>1 DEF SeedsInv, CoverSound
  <1>9. report' # NoReport
    BY <1>2, NewReportIs
  <1> QED
    BY <1>7, <1>8, <1>9 DEF SeedsInv

LEMMA SeedsWait ==
    ASSUME SeedsInv, SeedsFrame, UNCHANGED <<observed, coverage>>, stage' = stage \/ stage' \in Collecting
    PROVE  SeedsInv'
  <1>1. PICK more : more = {}
    OBVIOUS
  <1>2. coverage' = coverage \cup more /\ Quiet(more)
    BY <1>1 DEF Quiet
  <1> QED
    BY <1>2, SeedsKeep

LEMMA SeedsStep ==
    ASSUME CollectionInv, ClassificationInv, ReportStored, SeedsInv, [Next]_vars
    PROVE  SeedsInv'
  <1> USE DEF SeedsFrame, webRest, planVars, httpVars, resultVars, Collecting, Quiet
  <1>1. CASE Collect
    <2>1. report = NoReport /\ UNCHANGED <<report, stage>> /\ CollectStep
      BY <1>1 DEF Collect, reportVars, ClassificationInv, StagesSound
    <2> QED
      BY <2>1, SeedsNext, SeedsHTTP, SeedResolves DEF CollectStep
  <1>2. CASE Webtech \/ DetectRules \/ DetectSuffixes \/ EnrichPrefixes \/ EnrichASN
    BY <1>2, SeedsClassify
  <1>3. CASE Report
    BY <1>3, SeedsReport
  <1>4. CASE ReplayReport
    BY <1>4, SeedsKeep DEF ReplayReport, Live
  <1>5. ASSUME NEW a \in Address, LookupIP(a) PROVE SeedsInv'
    <2>1. SeedsFrame /\ observed' = observed /\ coverage' = coverage /\ stage' = "looked"
      BY <1>5 DEF LookupIP, webVars
    <2> QED
      BY <2>1, SeedsWait
  <1>6. ASSUME NEW v \in View, Reclassify(v) PROVE SeedsInv'
    <2>1. SeedsFrame /\ observed' = observed /\ stage = "stored"
      BY <1>6 DEF Reclassify
    <2>2. report # NoReport
      BY <2>1 DEF ReportStored
    <2> QED
      BY <2>1, <2>2, SeedsKeep
  <1>7. CASE EndContext /\ UNCHANGED reportVars
    <2>1. SeedsFrame /\ observed' = observed /\ coverage' = coverage /\ stage' = stage
      BY <1>7 DEF EndContext, reportVars
    <2> QED
      BY <2>1, SeedsWait
  <1>8. CASE UNCHANGED vars
    <2>1. SeedsFrame /\ observed' = observed /\ coverage' = coverage /\ stage' = stage
      BY <1>8 DEF vars, webVars, reportVars
    <2> QED
      BY <2>1, SeedsWait
  <1> QED
    BY <1>1, <1>2, <1>3, <1>4, <1>5, <1>6, <1>7, <1>8 DEF Next, AnalyzeStep

LEMMA SeedsInit == AnalysisInit => SeedsInv
  <1> SUFFICES ASSUME AnalysisInit PROVE SeedsInv
    OBVIOUS
  <1>1. /\ mode \in {"full", "dns"} /\ at = 1 /\ streams = <<Stream(seeds[1])>> /\ pc = StartHTTP(mode)
        /\ cover = "complete" /\ err = None /\ report = NoReport /\ stage \in {"collect", "lookup"}
    BY DEF AnalysisInit, Init
  <1>2. PICK ct \in Discovery, asked \in 0..(Len(Index) - 1) :
          seeds = Plan(ct, asked).seeds /\ coverage = SeedCoverage \cup Plan(ct, asked).coverage
    BY DEF AnalysisInit, Init
  <1>3. ASSUME Unspoilt PROVE PlanWhole(seeds, coverage) /\ at \in 1..Len(seeds)
    <2>1. ~TooManySeeds
      <3>1. TooManySeeds => <<"seed_hostnames", "partial">> \in coverage
        BY <1>2 DEF SeedCoverage
      <3>2. Spoils(<<"seed_hostnames", "partial">>[2])
        BY DEF Spoils
      <3> QED
        BY <1>3, <3>1, <3>2 DEF Unspoilt
    <2>2. PlanWhole(Plan(ct, asked).seeds, Plan(ct, asked).coverage)
      BY <2>1, PlansWhole
    <2>3. coverage = Plan(ct, asked).coverage
      BY <1>2, <2>1 DEF SeedCoverage
    <2>4. PlanWhole(seeds, coverage)
      BY <1>2, <2>2, <2>3
    <2>5. Requested[1] \in ToSet(seeds) /\ seeds \in Seq(Host)
      <3>1. 1 \in DOMAIN Requested
        BY CollectionAssumption
      <3> QED
        BY <2>4, <3>1 DEF PlanWhole, ToSet
    <2> QED
      BY <1>1, <2>4, <2>5 DEF ToSet
  <1>4. SeedInHand
    <2>1. PICK name : name = seeds[1]
      OBVIOUS
    <2>2. PICK t : t = Stream(name)
      OBVIOUS
    <2>3. streams[1] = t /\ seed = name
      BY <1>1, <2>1, <2>2 DEF seed
    <2>4. SeedStream(t, name, observed)
      BY <2>2 DEF Stream, SeedStream
    <2> QED
      BY <2>3, <2>4 DEF SeedInHand
  <1>5. SeedsDone /\ PastCollection /\ CoverSound
    BY <1>1 DEF SeedsDone, PastCollection, CoverSound, Collecting, StartHTTP
  <1> QED
    BY <1>1, <1>3, <1>4, <1>5 DEF SeedsInv, PlanKept, SeedsAccounted

\* app/service.go, Analyze: a report that says "complete" has collected every
\* seed the request names and, where the index of certificates was asked and
\* says the same, every name in it, whatever the limits, the answers and the end
\* of the context; and, with EvidenceComplete, it leaves out no evidence.
THEOREM ReportsAccount == Spec => []ReportAccounts
  <1>1. AnalysisInit => ReportStored /\ SeedsInv
    BY SeedsInit DEF AnalysisInit, ReportStored
  <1>2. CollectionInv /\ ClassificationInv /\ ReportStored /\ SeedsInv /\ [Next]_vars => (ReportStored /\ SeedsInv)'
    BY SeedsStep, StoredNext
  <1>3. SeedsInv /\ EvidenceAccounted => ReportAccounts
    BY DEF SeedsInv, ReportAccounts
  <1> QED
    BY <1>1, <1>2, <1>3, ClassificationInvariant, EvidenceComplete, PTL DEF Spec

=============================================================================
