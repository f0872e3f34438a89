------------------------------ MODULE Analysis ------------------------------
(***************************************************************************)
(* From observations to a report, and from a stored report to a new one:   *)
(* Analyze behind the collection, Reclassify and LookupIP of               *)
(* app/service.go, with the detectors (rules/engine.go, detect/cdnsuffix,  *)
(* detect/webtech), the lookups of enrich/prefix and enrich/asn, and       *)
(* aggregate/aggregate.go.                                                 *)
(*                                                                         *)
(* Which observation a rule, a suffix or an address range matches is a     *)
(* constant of the model.  The context may end between any two steps, or   *)
(* while a step goes through its inputs, which then sees no more of them; a *)
(* reclassification has a context of its own.                              *)
(***************************************************************************)
EXTENDS WebCollection

CONSTANTS
    Technology,     \* technologies the fingerprints find on a host's page
    Rules,          \* [id, type, on, entity, relation, strength]
    View,           \* bundles a report may be classified with
    SuffixState,    \* of a view: "none", "all", or "some" of its suffixes usable
    SuffixMatch,    \* of a view: hosts whose alias has a listed suffix
    PrefixSource, ASNSource,    \* of a view: the status of its sources
    Associations,   \* of a view: [id, entity, group] of the prefixes of an address;
                    \* a group is a source's records of one provenance
    ASNOf,          \* of a view: the network of an address, or None
    FamilyOf,       \* the family of an address
    PrefixLimit     \* PrefixAssociations

ASSUME ViewAssumption ==
    /\ \A r \in Rules : r.strength \in 1..3
    /\ SuffixState \in [View -> {"none", "all", "some"}] /\ SuffixMatch \in [View -> SUBSET Host]
    /\ PrefixSource \in [View -> {"complete", "partial", "unavailable"}]
    /\ ASNSource \in [View -> [Family -> {"complete", "partial", "unavailable"}]]
    /\ FamilyOf \in [Address -> Family] /\ PrefixLimit \in Nat \ {0}
    /\ \A h \in Host, f \in Family : \A a \in Addr[h][f] : FamilyOf[a] = f

VARIABLES
    stage,      \* how far Analyze, Reclassify or LookupIP has come
    view,       \* the AttributionView; a collection does not read it
    evidence,
    report,     \* the report of the analysis, once it is stored
    replay,     \* the report of its reclassification
    lookup      \* the result of LookupIP

reportVars == <<stage, view, evidence, report, replay, lookup>>
vars == <<webVars, reportVars>>

NoReport == [status |-> "none"]

Usable(status) == status \in {"complete", "partial"}

\* Mutant: only what is missing altogether spoils a report.
SpoilsMissing(status) == status = "unavailable"

\* The statuses of the report's coverage entries that spoil it.
Spoils(status) == status \in {"partial", "unavailable"}

-----------------------------------------------------------------------------
(* Detectors.                                                              *)

\* rule is what tells the evidence of the same observations apart: the rule or
\* the record that matched.
Evidence(rule, obs, subject, entity, relation, strength, scope, records) ==
    [rule |-> rule, obs |-> obs, subject |-> subject, entity |-> entity, relation |-> relation,
     strength |-> strength, scope |-> scope, records |-> records]

\* scopeAllows.
ScopeAllows(relation, scope) ==
    /\ ~(scope = "external_redirect" /\ relation = "web_integration")
    /\ ~(scope = "mail_dependency" /\ relation = "web_delivery")

\* Rule.matches: technologies by name, the others by what their host answers.
Matches(r, o) ==
    /\ r.type = o.type
    /\ (IF o.type = "technology" THEN o.value ELSE o.subject) \in r.on

RuleEvidence(o) ==
    {Evidence(r.id, {o}, o.subject, r.entity, r.relation, r.strength, o.scope, {}) :
        r \in {r \in Rules : Matches(r, o) /\ ScopeAllows(r.relation, o.scope)}}

\* cdnsuffix.Detector.Detect for one observation.
SuffixEvidence(v, o) ==
    IF /\ o.type = "dns_record" /\ o.status = "answered" /\ o.scope # "mail_dependency"
       /\ o.subject \in SuffixMatch[v]
    THEN {Evidence("suffix", {o}, o.subject, "cdn", "web_delivery", 2, o.scope, {<<"suffix", o.subject>>})}
    ELSE {}

\* Mutant: a reclassification leaves out the unmapped technologies.
UnmappedLive(observations, items) ==
    {Evidence("taxonomy", {o}, o.subject, o.value, "web_integration", 2, o.scope, {}) :
        o \in {o \in observations : report = NoReport /\ o.type = "technology" /\ \A e \in items : o \notin e.obs}}

\* classifyUnmappedTechnology: what no detector took up speaks for itself.
Unmapped(observations, items) ==
    {Evidence("taxonomy", {o}, o.subject, o.value, "web_integration", 2, o.scope, {}) :
        o \in {o \in observations : o.type = "technology" /\ \A e \in items : o \notin e.obs}}

\* addressInputs: observations of one address by subject and scope.
AddressInputs(observations) ==
    LET located == {o \in observations : o.type \in {"dns_address", "http_response"}}
        Same(o) == {p \in located : p.subject = o.subject /\ p.scope = o.scope /\ p.value = o.value}
    IN  {[subject |-> o.subject, scope |-> o.scope, address |-> o.value, obs |-> Same(o)] : o \in located}

\* The associations that are kept; which ones is the order of the index.
Kept(v, a) ==
    IF Cardinality(Associations[v][a]) <= PrefixLimit THEN Associations[v][a]
    ELSE CHOOSE kept \in SUBSET Associations[v][a] : Cardinality(kept) = PrefixLimit

\* prefixEvidence, for the associations given.
PrefixEvidence(in, associations) ==
    {Evidence(x.id, in.obs, in.subject, x.entity, "service_range", 2, in.scope, {<<"prefix", x.group>>}) :
        x \in associations}

\* asnEvidence.
ASNEvidence(v, in) ==
    IF ASNOf[v][in.address] = None THEN {}
    ELSE {Evidence("asn", in.obs, in.subject, ASNOf[v][in.address], "network_provider", 1, in.scope,
                   {<<"asn", in.address>>})}

\* sourceCoverage: the prefix sources, and the ASN source of every family asked for.
SourceCoverage(v, addresses) ==
    {<<"prefix_source", PrefixSource[v]>>}
    \cup {<<"asn_source", ASNSource[v][FamilyOf[a]]>> : a \in addresses}

-----------------------------------------------------------------------------
(* aggregate.Build.                                                        *)

Key(e) == [subject |-> e.subject, entity |-> e.entity, relation |-> e.relation, scope |-> e.scope]

\* provenanceKey: the rule and its observations, or the source records.
Provenance(e) == <<IF e.records = {} THEN e.rule ELSE None, e.obs, e.records>>

\* deduplicate keeps the strongest of each provenance.
Strongest(items) == CHOOSE e \in items : \A o \in items : o.strength <= e.strength

\* Mutant: only evidence that is the same counts once.
DeduplicateEqual(items) == items

Deduplicate(items) ==
    {Strongest({o \in items : Provenance(o) = Provenance(e)}) : e \in items}

Conflicting(k, l) ==
    /\ k.relation \in {"network_provider", "network_origin", "service_range"}
    /\ k # l /\ k.subject = l.subject /\ k.relation = l.relation /\ k.scope = l.scope

Build(items) ==
    LET keys == {Key(e) : e \in items}
        Group(k) == {e \in items : Key(e) = k}
    IN  {[key |-> k, strength |-> Strongest(Deduplicate(Group(k))).strength,
          cites |-> Deduplicate(Group(k)), conflicts |-> {l \in keys : Conflicting(k, l)}] : k \in keys}

\* ValidateReferences.
ValidReferences(observations, items, findings) ==
    /\ \A e \in items : e.obs \subseteq observations
    /\ \A f \in findings : f.cites # {} /\ f.cites \subseteq items

-----------------------------------------------------------------------------
(* Analyze, behind the collection, and Reclassify.                         *)

AnalysisInit ==
    /\ Init
    /\ stage \in {"collect", "lookup"}
    /\ IF stage = "lookup" THEN view \in View ELSE view = None
    /\ evidence = {} /\ report = NoReport /\ replay = NoReport /\ lookup = None

Live == report = NoReport

Collect ==
    /\ stage = "collect"
    /\ CollectStep
    /\ UNCHANGED reportVars

\* tlsObservationCoverage.
TLSStatus ==
    IF tls = {} THEN "unavailable" ELSE IF tls = {"whole"} THEN "complete" ELSE "partial"

\* tlsCertificateCoverage; a seed's URL is https unless the seed is Plain.
TLSCoverage ==
    IF mode = "dns" \/ (~tlsAttempted /\ ToSet(seeds) \subseteq Plain) THEN "skipped" ELSE TLSStatus

TechnologyOf(final) ==
    {Observation("technology", final.host, final.seed, <<final.hop, t>>,
                 IF final.host # final.seed THEN "external_redirect" ELSE ScopeForSeed(final.seed), t, "detected") :
        t \in Technology[final.host]}

\* What a step gets to see of its inputs: nothing if the context has ended, and
\* not all of them if it ends meanwhile.
Seen(inputs) == IF ended THEN {{}} ELSE SUBSET inputs

\* The collection's coverage is complete, and webtech reads the final pages.
Webtech ==
    /\ stage = "collect" /\ pc = "collected"
    /\ view' \in View
    /\ \E done \in Seen(finals) :
         /\ observed' = observed \cup UNION {TechnologyOf(x) : x \in done}
         /\ coverage' = coverage
              \cup (IF mode = "dns" THEN {<<"http", "skipped">>} ELSE {})
              \cup {<<"tls_certificate", TLSCoverage>>}
              \cup {<<"webtech", IF x \in done THEN "complete" ELSE "partial">> : x \in finals}
         /\ ended' = (ended \/ done # finals)
    /\ stage' = "rules"
    /\ UNCHANGED <<planVars, at, streams, httpVars, retained, free, requests, finals, evidence, report, replay, lookup>>

webRest == <<planVars, at, streams, httpVars, retained, free, requests, observed, finals>>

\* A detector looks at one observation after the other; when the context ends
\* it is cut off and has seen some of those that match.
Detect(detector, Found(_), whole, next) ==
    /\ stage = detector
    /\ \E seen \in Seen({o \in observed : Found(o) # {}}), cut \in BOOLEAN :
         /\ ended => cut
         /\ ~cut => \A o \in observed \ seen : Found(o) = {}
         /\ ended' = (ended \/ cut)
         /\ evidence' = evidence \cup UNION {Found(o) : o \in seen}
         /\ coverage' = coverage \cup {<<detector, IF cut THEN "partial" ELSE whole>>}
    /\ stage' = next
    /\ UNCHANGED <<webRest, view, report, replay, lookup>>

DetectRules == Detect("rules", RuleEvidence, "complete", "suffix")

\* The suffix detector stays out of it when the view has no suffixes.
DetectSuffixes ==
    \/ /\ stage = "suffix" /\ SuffixState[view] # "none"
       /\ Detect("suffix", LAMBDA o : SuffixEvidence(view, o),
                 IF SuffixState[view] = "some" THEN "partial" ELSE "complete", "prefix")
    \/ /\ stage = "suffix" /\ SuffixState[view] = "none"
       /\ coverage' = coverage \cup {<<"suffix", "unavailable">>}
       /\ stage' = "prefix"
       /\ UNCHANGED <<webRest, ended, view, evidence, report, replay, lookup>>

\* Technologies no rule took, then the prefixes of every address.
EnrichPrefixes ==
    /\ stage = "prefix"
    /\ LET inputs == AddressInputs(observed)
           mapped == evidence \cup Unmapped(observed, evidence)
           Status(in) == IF Kept(view, in.address) # Associations[view][in.address] THEN "partial" ELSE "complete"
       IN  \E done \in (IF Usable(PrefixSource[view]) THEN Seen(inputs) ELSE {{}}) :
             /\ ended' = (ended \/ (Usable(PrefixSource[view]) /\ done # inputs))
             /\ evidence' = mapped \cup UNION {PrefixEvidence(in, Kept(view, in.address)) : in \in done}
             /\ coverage' = coverage \cup {<<"prefix", Status(in)>> : in \in done}
                  \cup (IF inputs = {} THEN {} ELSE SourceCoverage(view, {in.address : in \in inputs}))
                  \cup (IF done # inputs THEN {<<"prefix", "unavailable">>} ELSE {})
    /\ stage' = "asn"
    /\ UNCHANGED <<webRest, view, report, replay, lookup>>

\* The network of every address whose family has a source.
EnrichASN ==
    /\ stage = "asn"
    /\ LET inputs == {in \in AddressInputs(observed) : Usable(ASNSource[view][FamilyOf[in.address]])}
       IN  \E done \in Seen(inputs) :
             /\ ended' = (ended \/ done # inputs)
             /\ evidence' = evidence \cup UNION {ASNEvidence(view, in) : in \in done}
             /\ coverage' = coverage \cup {<<"asn", IF in \in done THEN "complete" ELSE "unavailable">> : in \in inputs}
    /\ stage' = "report"
    /\ UNCHANGED <<webRest, view, report, replay, lookup>>

\* reportStatus; a context that has ended was cancelled, or its time was over.
Useful ==
    \E o \in observed : o.status \in {"answered", "nodata", "nxdomain", "responded", "policy_blocked"}

ReportStatus ==
    LET spoilt == \E c \in coverage : Spoils(c[2])
        told == IF ~spoilt THEN "complete" ELSE IF Useful THEN "partial" ELSE "failed"
    IN  IF ended THEN {"cancelled", told} ELSE {told}

NewReport(status) ==
    IF ValidReferences(observed, evidence, Build(evidence))
    THEN [status |-> status, evidence |-> evidence, findings |-> Build(evidence),
          coverage |-> coverage, view |-> view, interrupted |-> ended]
    ELSE [status |-> "refused", evidence |-> {}, findings |-> {},
          coverage |-> coverage, view |-> view, interrupted |-> ended]

Report ==
    /\ stage = "report" /\ Live
    /\ \E status \in ReportStatus : report' = NewReport(status)
    /\ stage' = "stored"
    /\ UNCHANGED <<webRest, ended, coverage, view, evidence, replay, lookup>>

\* What a reclassification says of the retained inputs before it begins.
ReplayCoverage ==
    {<<"replay_script_signals", IF o.hop[2] = "whole" THEN "complete" ELSE "partial">> :
        o \in {o \in observed : o.type = "http_response"}}
    \cup {<<"replay_tls_certificate",
            IF <<"tls_certificate", "skipped">> \in report.coverage THEN "skipped" ELSE TLSStatus>>}
    \cup (IF /\ \E o \in observed : o.type = "http_response"
             /\ \A o \in observed : o.type # "technology"
          THEN {<<"replay_webtech", "unavailable">>} ELSE {})

\* ValidateReclassify refuses a report without observations.  As a bound, only
\* reports whose context lived are reclassified: only the observations are read.
Replayable == report.status # "refused" /\ observed # {} /\ ~report.interrupted

\* Reclassify: the retained observations, another view, a context of its own.
Reclassify(v) ==
    /\ stage = "stored" /\ Replayable
    /\ view' = v
    /\ ended' = FALSE
    /\ evidence' = {}
    /\ coverage' = ReplayCoverage
    /\ stage' = "rules"
    /\ UNCHANGED <<planVars, at, streams, httpVars, retained, free, requests, observed, finals, report, replay, lookup>>

ReplayReport ==
    /\ stage = "report" /\ ~Live
    /\ replay' = NewReport(IF \E c \in coverage : Spoils(c[2]) THEN "partial" ELSE "complete")
    /\ stage' = "replayed"
    /\ UNCHANGED <<webRest, ended, coverage, view, evidence, report, lookup>>

-----------------------------------------------------------------------------
(* LookupIP.                                                               *)

LookupResult(a) ==
    LET prefix == Usable(PrefixSource[view])
        asn == Usable(ASNSource[view][FamilyOf[a]])
        entries == SourceCoverage(view, {a})
                     \cup {<<"prefix", IF ~prefix THEN "unavailable"
                                       ELSE IF Kept(view, a) # Associations[view][a] THEN "partial" ELSE "complete">>}
                     \cup {<<"asn", IF asn THEN "complete" ELSE "unavailable">>}
    IN  IF ended \/ ~(prefix \/ asn) THEN [status |-> "error", address |-> a, associations |-> {}, asn |-> None]
        ELSE [status |-> IF \A c \in entries : c[2] = "complete" THEN "complete" ELSE "partial", address |-> a,
              associations |-> IF prefix THEN Kept(view, a) ELSE {},
              asn |-> IF asn THEN ASNOf[view][a] ELSE None]

LookupIP(a) ==
    /\ stage = "lookup"
    /\ lookup' = LookupResult(a)
    /\ stage' = "looked"
    /\ UNCHANGED <<webVars, view, evidence, report, replay>>

-----------------------------------------------------------------------------

Over ==
    \/ stage \in {"replayed", "looked"}
    \/ stage = "stored" /\ ~Replayable

AnalyzeStep ==
    \/ Collect \/ Webtech \/ DetectRules \/ DetectSuffixes \/ EnrichPrefixes \/ EnrichASN \/ Report \/ ReplayReport
    \/ \E a \in Address : LookupIP(a)

Next ==
    \/ AnalyzeStep
    \/ \E v \in View : Reclassify(v)
    \/ ~Over /\ stage # "stored" /\ EndContext /\ UNCHANGED reportVars
    \/ Over /\ UNCHANGED vars

Spec == AnalysisInit /\ [][Next]_vars

\* The goroutines of the collection run on, lookups and requests come back by
\* their timeouts, and classification never waits.
FairSpec == Spec /\ WF_vars(AnalyzeStep)

-----------------------------------------------------------------------------
(* Properties.                                                             *)

AllAddresses(h) == UNION {Addr[h][f] : f \in Family}

\* What the resolver of stream i should have brought.
ResolvedInFull(i) == streams[i].got = AllAddresses(streams[i].host) /\ streams[i].got \subseteq Allowed

\* A request only goes to an approved address of the host its URL names.
PeersOfHost ==
    /\ pc \in {"acquire", "dial"} => peer \in AllAddresses(host) \cap Allowed
    /\ \A n \in DOMAIN responses : responses[n].peer \in AllAddresses(responses[n].host)

\* What the resolver of one hop publishes late is never tried for another hop's
\* host.  When a seed's HTTP run has been taken, no resolver it started runs on
\* and each of their lookups is among the observations; and coverage that says
\* "complete" means that the last page was read to its end and that no address
\* of any host on the way was lost, left out or blocked.
HTTPAccounts ==
    /\ PeersOfHost
    /\ SeedDone /\ mode = "full" =>
         /\ \A i \in Resolvers, f \in Family :
              ~streams[i].open /\ \E o \in retained : o.type = "dns_query" /\ o.hop = <<i - 1, f>>
         /\ cover = "complete" =>
              /\ responses # << >> /\ Last(responses).location = None
              /\ \A n \in DOMAIN responses : responses[n].body \in {"whole", "scripts"}
              /\ \A i \in Resolvers : ResolvedInFull(i)

\* All evidence there is for these observations: the reference classification.
FullEvidence(v) ==
    LET direct == UNION {RuleEvidence(o) \cup SuffixEvidence(v, o) : o \in observed}
    IN  direct \cup Unmapped(observed, direct)
        \cup UNION {PrefixEvidence(in, Associations[v][in.address]) \cup ASNEvidence(v, in) : in \in AddressInputs(observed)}

Collected(s) ==
    /\ \A f \in Family : \E o \in observed :
         o.type = "dns_query" /\ o.seed = s /\ o.hop = <<0, f>> /\ o.status \in {"answered", "nodata"}
    /\ \A a \in AllAddresses(s) : \E o \in observed : o.type = "dns_address" /\ o.seed = s /\ o.value = a
    /\ mode = "full" => \E x \in finals : x.seed = s

\* A report that says "complete" holds all the evidence its observations give
\* with its view; so does a reclassification, and an IP lookup has all that the
\* sources say of the address.
EvidenceAccounted ==
    /\ report # NoReport /\ report.status = "complete" /\ stage = "stored" =>
         report.evidence = FullEvidence(report.view)
    /\ replay # NoReport /\ replay.status = "complete" => replay.evidence = FullEvidence(replay.view)
    /\ lookup # None /\ lookup.status = "complete" =>
         lookup.associations = Associations[view][lookup.address] /\ lookup.asn = ASNOf[view][lookup.address]

\* Such a report has collected every requested seed and, if it asked the index,
\* every name in it.
SeedsAccounted ==
    report # NoReport /\ report.status = "complete" =>
      /\ \A s \in ToSet(Requested) : Collected(s)
      /\ <<"ct_discovery", "complete">> \in report.coverage =>
           \A i \in DOMAIN Index : \A s \in ToSet(Index[i]) : Collected(s)

\* What "complete" says in a report, a reclassification and an IP lookup: that
\* nothing was left out on the way, whatever was cut off or missing.
ReportAccounts == SeedsAccounted /\ EvidenceAccounted

\* A report is never refused by its own reference check.  Each piece of
\* evidence is counted once, in the one finding of its key, by itself or by
\* evidence of the same provenance that is as strong; conflicts are mutual.
FindingsSound ==
    \A r \in {report, replay} \ {NoReport} :
      /\ r.status # "refused"
      /\ \A e \in r.evidence : Cardinality({f \in r.findings : f.key = Key(e)}) = 1
      /\ \A f \in r.findings :
           /\ \A e \in r.evidence : Key(e) = f.key =>
                /\ e.strength <= f.strength
                /\ Cardinality({c \in f.cites : Provenance(c) = Provenance(e) /\ c.strength >= e.strength}) = 1
           /\ \A k \in f.conflicts : \E g \in r.findings : g.key = k /\ f.key \in g.conflicts

\* Reclassified with the view it was made with, a report has the same findings,
\* unless a context ended on the way.
ReplayAgrees ==
    replay # NoReport /\ replay.view = report.view /\ ~report.interrupted /\ ~replay.interrupted =>
      replay.findings = report.findings

\* An analysis comes to its report, though DNS and resolvers go on publishing
\* to an HTTP run that no longer reads.
AnalysisEnds == <>(stage \in {"stored", "looked"})

=============================================================================
