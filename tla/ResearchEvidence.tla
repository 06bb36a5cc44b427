-------------------------- MODULE ResearchEvidence --------------------------
(***************************************************************************)
(* What becomes of a provider's answer: the rules of domain/research.py,    *)
(* research_models.py and _build_completion, from the parsed output to the  *)
(* artifact that is stored, or the refusal that fails the attempt.          *)
(*                                                                         *)
(* An answer is a record: its claims, its assessments of sources, and the   *)
(* pages the web search returned.  A URL is <<page, variant>>: the variants *)
(* of a page are the spellings canonical_source_url makes one.  Times are   *)
(* small numbers, 0 when the page tells none.                               *)
(***************************************************************************)
EXTENDS Naturals, FiniteSets

\* canonical_source_url: the case of scheme and host, a default port and the
\* fragment do not tell two pages apart.
Canonical(url) == url[1]

Pages(urls) == {Canonical(u) : u \in urls}

Substantive(c) == c.class # "insufficient_evidence"

-----------------------------------------------------------------------------
(* The output as the adapter parses it.                                     *)

TaxonomyHolds(claims) ==
    \A c \in claims : /\ c.section = "verified_facts" => c.class = "verified_fact"
                      /\ c.section = "likely_drivers" => c.class = "interpretation"

ClaimsUnique(claims) ==
    /\ \A c, d \in claims : c.id = d.id => c = d
    /\ \A c \in claims : Cardinality(Pages(c.urls)) = Cardinality(c.urls)

TimestampMatches(a) ==
    /\ a.status = "verified" => a.published # 0
    /\ a.status = "unavailable" => a.published = 0

OutputValid(answer) ==
    /\ TaxonomyHolds(answer.claims)
    /\ ClaimsUnique(answer.claims)
    /\ \A a \in answer.assessments : TimestampMatches(a)
    /\ \A a, b \in answer.assessments : Canonical(a.url) = Canonical(b.url) => a = b
    /\ \A a \in answer.assessments : a.related \subseteq {c.id : c \in answer.claims}

\* The search may report a page several times, in several spellings.
ExtractedSources(answer) == Pages(answer.found)

-----------------------------------------------------------------------------
(* The sources, against the boundary asOf and the time of retrieval.        *)

Availability(published, status, asOf) ==
    IF status # "verified" \/ published = 0 THEN "uncertain"
    ELSE IF published <= asOf THEN "available" ELSE "published_after"

Citing(claims, page) == {c.id : c \in {d \in claims : page \in Pages(d.urls)}}

Assessed(answer, page) == {a \in answer.assessments : Canonical(a.url) = page}

Published(answer, page) ==
    IF Assessed(answer, page) = {} THEN 0
    ELSE (CHOOSE a \in Assessed(answer, page) : TRUE).published

TimestampStatus(answer, page) ==
    IF Assessed(answer, page) = {} THEN "unavailable"
    ELSE (CHOOSE a \in Assessed(answer, page) : TRUE).status

SourcesKnown(answer) ==
    /\ \A a \in answer.assessments : Canonical(a.url) \in ExtractedSources(answer)
    /\ \A c \in answer.claims : Pages(c.urls) \subseteq ExtractedSources(answer)

\* What _build_sources and the source's own validator refuse.
SourcesCoherent(answer, retrieved) ==
    \A p \in ExtractedSources(answer) :
        /\ \A a \in Assessed(answer, p) : a.related = Citing(answer.claims, p)
        /\ Published(answer, p) <= retrieved

BuildSources(answer, asOf) ==
    {[page |-> p,
      published |-> Published(answer, p),
      status |-> TimestampStatus(answer, p),
      availability |-> Availability(Published(answer, p), TimestampStatus(answer, p), asOf),
      related |-> Citing(answer.claims, p)] : p \in ExtractedSources(answer)}

-----------------------------------------------------------------------------
(* The content and the artifact.                                            *)

Supports(sources, c) == {s \in sources : s.page \in Pages(c.urls)}

\* Mutation: only verified facts are asked for their sources' times.
ContentSupportedFacts(answer, sources) ==
    \A c \in answer.claims :
        LET support == Supports(sources, c) IN
        /\ Substantive(c) => support # {}
        /\ c.class = "verified_fact" =>
              \E s \in support : s.availability = "available" /\ s.status = "verified"

\* What _build_content refuses.
ContentSupported(answer, sources) ==
    \A c \in answer.claims :
        LET support == Supports(sources, c) IN
        /\ Substantive(c) =>
              support # {} /\ \A s \in support : s.availability # "published_after"
        /\ c.class = "verified_fact" =>
              \E s \in support : s.availability = "available" /\ s.status = "verified"

Useful(claims) == \E c \in claims : Substantive(c) /\ c.urls # {}

\* Nothing useful: the content is replaced, the sources are kept.
Content(answer) == IF Useful(answer.claims) THEN answer.claims ELSE {}

\* Mutation: the relations are checked from the claims to the sources only.
ProvenanceOneWay(claims, sources) ==
    \A c \in claims : Pages(c.urls) \subseteq {s.page : s \in sources}

\* validate_payload_provenance: claims and sources name each other.
ProvenanceHolds(claims, sources) ==
    /\ \A c \in claims : Pages(c.urls) \subseteq {s.page : s \in sources}
    /\ \A s \in sources : s.related = Citing(claims, s.page)

Refusal(code) == [status |-> "failed", code |-> code, claims |-> {}, sources |-> {}]

\* research() and _build_completion: the artifact, or the refusal.
Outcome(answer, asOf, retrieved, finished) ==
    LET sources == BuildSources(answer, asOf)
        content == Content(answer)
    IN IF ~OutputValid(answer) THEN Refusal("output")
       ELSE IF ~answer.sameProvider \/ retrieved > finished THEN Refusal("identity")
       ELSE IF ~SourcesKnown(answer) THEN Refusal("unknown_source")
       ELSE IF ~SourcesCoherent(answer, retrieved) THEN Refusal("source")
       ELSE IF ~ContentSupported(answer, sources) THEN Refusal("content")
       ELSE IF ~ProvenanceHolds(content, sources) THEN Refusal("provenance")
       ELSE [status  |-> IF Useful(answer.claims) THEN "succeeded" ELSE "no_evidence",
             code    |-> "none",
             claims  |-> content,
             sources |-> sources]

=============================================================================
