---------------------------- MODULE ModelCatalog ----------------------------
(***************************************************************************)
(* Model listing: what each provider's listing yields, the curation of it  *)
(* against the static catalog, the ranking of the open catalogs from their *)
(* own metadata, and the search over everything usable.                    *)
(***************************************************************************)
EXTENDS Integers, Sequences, SequencesExt, Selection

CONSTANTS
    Lower,          \* the lower-cased form of each id, in whose terms ids are compared
    Order,          \* the order of the ids as strings
    Facts,          \* what the catalogs publish of each id
    Static,         \* the static catalog of each provider
    Usable,         \* the ids each provider's name filter admits
    Rank,           \* the rank a name heuristic gives each id
    Score,          \* Score[query][id]: how well an id answers a query, 0 not at all
    Managed, RegionGated,   \* Kilo's own tiers; the ids OpenCode Go gates
    MaxListed, MaxPerGroup, MaxPages,
    MaxAge, MinContext, MinExpiry,
    None

Fact ==
    [text : BOOLEAN, tools : BOOLEAN, trains : BOOLEAN, price : Int, speed : Nat, latency : Nat,
     live : BOOLEAN, priority : Nat, listed : BOOLEAN, covered : BOOLEAN,
     reasoning : BOOLEAN \cup {None}, cost : Nat \cup {None}, age : Nat \cup {None},
     context : Nat, status : {"", "alpha", "deprecated"}, expiry : Nat \cup {None},
     unstable : BOOLEAN, bench : Nat \cup {None}, preferred : Nat \cup {None},
     small : BOOLEAN, group : STRING]

Ids == DOMAIN Lower

ASSUME CatalogAssumption ==
    /\ MaxListed \in Nat \ {0} /\ MaxPerGroup \in Nat \ {0} /\ MaxPages \in Nat \ {0}
    /\ None \notin Ids
    /\ Facts \in [Ids -> Fact] /\ Order \in [Ids -> Int] /\ Rank \in [Ids -> Int]
    /\ \A provider \in DOMAIN Static :
          /\ Static[provider] \in Seq(Ids)
          /\ \A i, j \in DOMAIN Static[provider] : Static[provider][i] = Static[provider][j] => i = j
    /\ \A query \in DOMAIN Score : Score[query] \in [Ids -> Nat]

(* What a listing may answer: ids, or a sequence of pages of them where the *)
(* provider lists in pages.                                                 *)
Page == [ok : BOOLEAN, ids : Seq(Ids), more : BOOLEAN, cursor : BOOLEAN]
Listing == [ok : BOOLEAN, ids : Seq(Ids)]
Answer(provider) == IF provider \in {"gemini", "claude"} THEN Seq(Page) ELSE Listing

(* uniqueIDs, and uniqueModelMatches by the lower-cased id: the first of each. *)
UniqueIDs(ids) == Unique(ids)

UniqueKeys(ids) ==
    Pick(ids, {i \in DOMAIN ids : \A j \in 1..(i - 1) : Lower[ids[j]] # Lower[ids[i]]})

-----------------------------------------------------------------------------
(* Fetching: a failure, or the ids the listing's filters admit, in order.   *)
NoListing == [failed |-> TRUE, ids |-> <<>>]
Yield(ids) == [failed |-> FALSE, ids |-> ids]

FilterIDs(provider, ids) == Where(ids, LAMBDA m : m \in Usable[provider])

(* fetchDataIDs and the filter. *)
FetchData(provider, answer) ==
    IF answer.ok THEN Yield(FilterIDs(provider, answer.ids)) ELSE NoListing

(* Gemini and Claude list in pages: every page up to the one that says there *)
(* is no more, or nothing.                                                   *)
Joined(provider, read) ==
    FoldLeft(LAMBDA ids, page : ids \o FilterIDs(provider, page.ids), <<>>, read)

FetchPages(provider, pages) ==
    LET last == {n \in 1..MaxPages : n <= Len(pages) /\ ~pages[n].more}
        n == CHOOSE k \in last : \A j \in last : k <= j
        read == SubSeq(pages, 1, n)
    IN  IF last = {} \/ \E k \in 1..n : ~pages[k].ok \/ (pages[k].more /\ ~pages[k].cursor)
        THEN NoListing
        ELSE Yield(Joined(provider, read))

(* A model takes and gives text and one offering of it is live; the fastest *)
(* come first, then the quickest to start.                                  *)
FetchHuggingFace(answer) ==
    LET usable == Where(answer.ids, LAMBDA m :
                      Facts[m].text /\ Facts[m].live /\ m \in Usable["huggingface"])
    IN  IF answer.ok
        THEN Yield(Sorted(usable, LAMBDA a, b :
                 \/ Facts[a].speed > Facts[b].speed
                 \/ Facts[a].speed = Facts[b].speed /\ Facts[a].latency < Facts[b].latency))
        ELSE NoListing

(* kiloPriceRank: a negative price is a variable one and sorts last. *)
CheaperKilo(a, b) ==
    Facts[a].price >= 0 /\ (Facts[b].price < 0 \/ Facts[a].price < Facts[b].price)

FetchKilo(answer) ==
    LET usable == Where(answer.ids, LAMBDA m :
                      /\ Facts[m].text /\ ~Facts[m].trains /\ Facts[m].tools
                      /\ m \in Usable["kilo"])
    IN  IF answer.ok THEN Yield(Sorted(usable, CheaperKilo)) ELSE NoListing

-----------------------------------------------------------------------------
(* sortByRankDesc exchanges what is out of order: each place with those    *)
(* after it, in turn.                                                       *)
SortByRankDesc(ids) ==
    LET n == Len(ids)
        pairs == [k \in 1..(n * n) |-> <<((k - 1) \div n) + 1, ((k - 1) % n) + 1>>]
    IN  FoldLeft(LAMBDA s, p : IF p[1] < p[2] /\ Rank[s[p[2]]] > Rank[s[p[1]]]
                               THEN [s EXCEPT ![p[1]] = s[p[2]], ![p[2]] = s[p[1]]]
                               ELSE s, ids, pairs)

(* curateFromCatalog: the catalog's ids that are listed, as the listing     *)
(* spells them, then the rest of the listing.                               *)
Curate(provider, available, ranked) ==
    LET ok == FilterIDs(provider, available)
        keys == {Lower[m] : m \in ToSet(ok)}
        canon == [key \in keys |-> ok[CHOOSE i \in DOMAIN ok :
                     Lower[ok[i]] = key /\ \A j \in DOMAIN ok : Lower[ok[j]] = key => j <= i]]
        listed == Where(Static[provider], LAMBDA c : Lower[c] \in keys)
        hits == UniqueKeys([i \in DOMAIN listed |-> canon[Lower[listed[i]]]])
        rest == Where(ok, LAMBDA m : \A i \in DOMAIN hits : Lower[hits[i]] # Lower[m])
    IN  Take(UniqueKeys(hits \o (IF ranked THEN SortByRankDesc(rest) ELSE rest)), MaxListed)

-----------------------------------------------------------------------------
(* kiloCandidate, metadataCandidate: what a catalog says of an id; for one  *)
(* the document does not cover only what the id itself tells.               *)
Candidate(provider, m) ==
    LET f == Facts[m]
        Told(value, unknown) == IF provider = "kilo" \/ f.covered THEN value ELSE unknown
        Kilo(value, other) == IF provider = "kilo" THEN value ELSE other
    IN  [id |-> m, small |-> f.small, unstable |-> f.unstable, context |-> Told(f.context, 0),
         group |-> Told(f.group, ToString(m)), cost |-> Told(f.cost, None),
         reasoning |-> Kilo(f.reasoning = TRUE, Told(f.reasoning, None)),
         age |-> Told(f.age, None), status |-> Kilo("", Told(f.status, "")),
         expiry |-> Kilo(f.expiry, None), bench |-> Kilo(f.bench, None),
         preferred |-> Kilo(f.preferred, None)]

(* eligible: what is known to rule a model out; what is unknown never does. *)
Eligible(provider, c) ==
    /\ c.reasoning # FALSE /\ c.cost # 0
    /\ c.age # None => c.age <= MaxAge
    /\ (c.context = 0 \/ c.context >= MinContext)
    /\ c.status = ""
    /\ c.expiry # None => c.expiry > MinExpiry
    /\ ~c.unstable
    /\ ~(provider = "opencode-go" /\ c.id \in RegionGated)

UtilityExcluded(profile, provider, m) ==
    profile # "capable" /\ provider = "kilo" /\ m \in Managed

(* newRankNorm: the largest known cost and age; an unknown one counts as it. *)
Largest(cands, field) == Max({1} \cup ({c[field] : c \in ToSet(cands)} \ {None}))

Or(value, default) == IF value = None THEN default ELSE value
Num(b) == IF b THEN 1 ELSE 0
Signal(c) == c.bench # None \/ c.preferred # None

(* utilityOrder and capableOrder, each a list of keys compared in turn. *)
UtilityOrder(cands, c) ==
    LET cost == Largest(cands, "cost")
        age == Largest(cands, "age")
    IN  <<Num(~Signal(c)), Num(~c.small),
          8 * Or(c.cost, cost) * age + 2 * Or(c.age, age) * cost, Order[c.id]>>

Far == 1000000

CapableOrder(cands, c) ==
    <<Num(~Signal(c)), -Or(c.bench, 0), Or(c.preferred, Far), Num(c.small),
      Or(c.age, Largest(cands, "age")), -Or(c.cost, 0), Order[c.id]>>

Precedes(s, t) == \E i \in DOMAIN s : s[i] < t[i] /\ \A j \in 1..(i - 1) : s[j] = t[j]

(* Mutant: what fills the places up is not held against the profile. *)
FillAny(profile, provider, cands, fill) ==
    LET eligible == Where(cands, LAMBDA c :
                        Eligible(provider, c) /\ ~UtilityExcluded(profile, provider, c.id))
        OrderOf(c) == IF profile = "capable" THEN CapableOrder(eligible, c)
                                             ELSE UtilityOrder(eligible, c)
        ranked == Sorted(eligible, LAMBDA a, b : Precedes(OrderOf(a), OrderOf(b)))
    IN  Take(UniqueIDs([i \in DOMAIN ranked |-> ranked[i].id] \o fill), MaxListed)

(* rankRecommended: the eligible in the order of the profile, a few of each *)
(* group, then the fill.                                                    *)
RankRecommended(profile, provider, cands, fill) ==
    LET eligible == Where(cands, LAMBDA c :
                        Eligible(provider, c) /\ ~UtilityExcluded(profile, provider, c.id))
        OrderOf(c) == IF profile = "capable" THEN CapableOrder(eligible, c)
                                             ELSE UtilityOrder(eligible, c)
        ranked == Sorted(eligible, LAMBDA a, b : Precedes(OrderOf(a), OrderOf(b)))
        Better(i) == {ranked[j] : j \in {j \in 1..(i - 1) : ranked[j].group = ranked[i].group}}
        spread == Pick(ranked, {i \in DOMAIN ranked : /\ ranked[i] \notin Better(i)
                                                      /\ Cardinality(Better(i)) < MaxPerGroup})
        rest == Where(fill, LAMBDA m : ~UtilityExcluded(profile, provider, m))
    IN  Take(UniqueIDs([i \in DOMAIN spread |-> spread[i].id] \o rest), MaxListed)

Candidates(provider, usable) == [i \in DOMAIN usable |-> Candidate(provider, usable[i])]

(* metadataCurate: without the document, or without a section for the       *)
(* provider in it, the curation alone.                                      *)
MetadataCurate(profile, provider, section, usable, ranked) ==
    LET curated == Curate(provider, usable, ranked)
    IN  IF section
        THEN RankRecommended(profile, provider, Candidates(provider, usable), curated \o usable)
        ELSE curated

-----------------------------------------------------------------------------
Catalog(recommended, usable, live, err) ==
    [recommended |-> recommended, usable |-> usable, live |-> live, err |-> err]

StaticCatalog(provider, err) == Catalog(Static[provider], Static[provider], FALSE, err)

(* catalogFrom: a failed listing, one without a usable id and one nothing   *)
(* is recommended of give way to the static catalog.                        *)
CatalogFrom(provider, fetched, recommended) ==
    IF fetched.failed \/ fetched.ids = <<>> THEN StaticCatalog(provider, fetched.failed)
    ELSE IF recommended = <<>> THEN StaticCatalog(provider, FALSE)
    ELSE Catalog(recommended, UniqueIDs(fetched.ids), TRUE, FALSE)

(* The listings without a static catalog return their errors. *)
NoCatalog == [failed |-> TRUE]

OllamaCatalog(answer) ==
    IF answer.ok THEN Catalog(Take(answer.ids, MaxListed), answer.ids, TRUE, FALSE) ELSE NoCatalog

(* listChatGPTModels: what the account may use, by priority, uncapped. *)
ListChatGPT(answer) ==
    LET listed == Where(answer.ids, LAMBDA m : Facts[m].listed)
        models == UniqueIDs(Sorted(listed, LAMBDA a, b : Facts[a].priority < Facts[b].priority))
    IN  IF ~answer.ok \/ models = <<>> THEN NoCatalog ELSE Catalog(models, models, TRUE, FALSE)

FetchUsable(provider, answer) ==
    CASE provider \in {"gemini", "claude"} -> FetchPages(provider, answer)
      [] provider = "huggingface" -> FetchHuggingFace(answer)
      [] provider = "kilo" -> FetchKilo(answer)
      [] OTHER -> FetchData(provider, answer)

(* The curation of each provider's ids that modelCatalogFor names. *)
Recommended(profile, provider, section, ids) ==
    CASE provider \in {"opencode", "opencode-go"} ->
             MetadataCurate(profile, provider, section, ids, TRUE)
      [] provider = "huggingface" -> MetadataCurate(profile, provider, section, ids, FALSE)
      [] provider = "kilo" -> RankRecommended(profile, provider, Candidates(provider, ids),
                                              Curate(provider, ids, FALSE) \o ids)
      [] OTHER -> Curate(provider, ids, TRUE)

ModelCatalogFor(profile, provider, answer, section) ==
    LET fetched == FetchUsable(provider, answer)
        ids == UniqueIDs(fetched.ids)
    IN  IF provider = "ollama" THEN OllamaCatalog(answer)
        ELSE CatalogFrom(provider, fetched, Recommended(profile, provider, section, ids))

(* ListModelCatalogWithSource: a ChatGPT session lists from its own backend, *)
(* and a source that has no token lists nothing.                             *)
ListModelCatalog(profile, provider, chatGPT, token, answer, section) ==
    CASE ~token -> NoCatalog
      [] token /\ chatGPT -> ListChatGPT(answer)
      [] token /\ ~chatGPT -> ModelCatalogFor(profile, provider, answer, section)

(* SearchModels: once each, the best first; equal ones as listed. *)
SearchModels(ids, query) ==
    Sorted(Where(UniqueKeys(ids), LAMBDA m : Score[query][m] > 0),
           LAMBDA a, b : Score[query][a] > Score[query][b])

-----------------------------------------------------------------------------
(* What the profile does not leave out, and of that what nothing known      *)
(* speaks against; these come first in a ranked list, a few of each group,  *)
(* before anything else fills a place.                                      *)
Admitted(profile, provider, ids) == {m \in ids : ~UtilityExcluded(profile, provider, m)}

Favoured(profile, provider, ids) ==
    {m \in Admitted(profile, provider, ids) : Eligible(provider, Candidate(provider, m))}

Leads(profile, provider, rec, usable) ==
    LET good == Favoured(profile, provider, usable)
        Group(m) == {n \in good : Candidate(provider, n).group = Candidate(provider, m).group}
        Full(m, before) == Cardinality(Group(m) \cap before) >= MaxPerGroup
    IN  \A i \in DOMAIN rec :
            LET before == {rec[j] : j \in 1..(i - 1)}
            IN  \/ rec[i] \in good /\ ~Full(rec[i], before)
                \/ \A m \in good : m \in before \/ Full(m, before)
=============================================================================
