----------------------------- MODULE ModelCatalog -----------------------------
(* The catalog of OpenRouter's models (providers/openrouter/catalog.ts): one *)
(* download at a time, kept for a while, and the grouping of what it brought.*)
(* Names of models are members of a small ordered list, times are 0 or more; *)
(* labels and the order of the groups are left out.                          *)
EXTENDS Integers, Sequences, FiniteSets, SequencesExt

CONSTANTS Askers, Names,  \* the names, in the order of compareText
          Ids, Slugs,     \* names a model may have as id or canonical slug
          Latest,         \* the ids that are a `~...-latest` alias
          Variants,       \* the names with a colon
          None, Times, MaxModels, MaxFetches,
          MaxChunks       \* chunks within MAX_RESPONSE_BYTES

ASSUME CatalogAssumption ==
    /\ Ids \cup Slugs \subseteq ToSet(Names) /\ None \notin ToSet(Names)
    /\ Latest \subseteq Ids /\ Times \subseteq Nat /\ 0 \in Times
    /\ MaxModels \in Nat \ {0} /\ MaxFetches \in Nat /\ MaxChunks \in Nat \ {0}

VARIABLES
    cached,    \* cachedResult: what it holds, and whether it still counts
    lastGood,  \* lastGoodGroups
    inflight, waiting,  \* where the request is, and who waits for it
    received,  \* chunks of the response read so far
    answer,    \* what an asker was told
    remote,    \* External: the models OpenRouter has
    fetches

catalogVars == <<cached, lastGood, inflight, waiting, received, answer, remote,
                fetches>>

Models ==
    [id : Ids \ Variants, slug : Slugs \cup {None}, created : Times, tools : BOOLEAN]
    \cup [id : Variants, slug : {None}, created : {0}, tools : {FALSE}]

-----------------------------------------------------------------------------
Place(name) == CHOOSE n \in DOMAIN Names : Names[n] = name
Rank(name)  == IF name = None THEN 0 ELSE Place(name)

(* compareRemoteModels: the newest first, then by id and by canonical slug;  *)
(* what is equal in all three keeps its place in the list.                   *)
BeforeById(m, n) ==
    \/ m.created > n.created
    \/ m.created = n.created /\ Rank(m.id) < Rank(n.id)
Before(m, n) ==
    \/ m.created > n.created
    \/ m.created = n.created /\ Rank(m.id) < Rank(n.id)
    \/ m.created = n.created /\ m.id = n.id /\ Rank(m.slug) < Rank(n.slug)
Sorted(list) ==
    LET order == SetToSortSeq(DOMAIN list, LAMBDA i, j :
                     Before(list[i], list[j]) \/ (~Before(list[j], list[i]) /\ i < j))
    IN  [n \in DOMAIN list |-> list[order[n]]]

(* requestVersion, the pinned version beside it, and mergeVersion: a version *)
(* keeps the kind it came with first, what it can do and its age grow.       *)
RequestKind(m) ==
    IF m.id \in Latest THEN "latest" ELSE IF m.slug = m.id THEN "pinned" ELSE "current"
Version(kind, m) == [kind |-> kind, tools |-> m.tools, created |-> m.created]
Merge(versions, id, candidate) ==
    IF id \notin DOMAIN versions THEN versions @@ (id :> candidate)
    ELSE [versions EXCEPT ![id].tools = @ \/ candidate.tools,
                          ![id].created = IF candidate.created > @ THEN candidate.created ELSE @]
WithModel(versions, m) ==
    LET asked == Merge(versions, m.id, Version(RequestKind(m), m))
    IN  IF m.slug \in {None, m.id} \cup Variants THEN asked ELSE Merge(asked, m.slug, Version("pinned", m))

(* buildGroups: one model after another joins the group of its slug, unless  *)
(* its id already stands in another group.                                   *)
GroupOf(m) == IF m.slug = None THEN m.id ELSE m.slug
JoinedGroup(state, m) ==
    LET g == GroupOf(m)
        empty == [x \in {} |-> None]
    IN  IF m.id \in DOMAIN state.assigned /\ state.assigned[m.id] # g THEN state
        ELSE [assigned |-> (m.id :> g) @@ state.assigned,
              groups |-> (g :> WithModel(IF g \in DOMAIN state.groups
                                         THEN state.groups[g] ELSE empty, m))
                         @@ state.groups]
NoGroups == [x \in {} |-> None]
BuildGroups(list) ==
    FoldLeft(JoinedGroup, [assigned |-> NoGroups, groups |-> NoGroups], Sorted(list)).groups

(* compareVersions: what a group offers first.                               *)
KindRank == [latest |-> 0, current |-> 1, pinned |-> 2]
DefaultVersion(versions) ==
    CHOOSE v \in DOMAIN versions : \A w \in DOMAIN versions \ {v} :
        \/ KindRank[versions[v].kind] < KindRank[versions[w].kind]
        \/ /\ versions[v].kind = versions[w].kind
           /\ \/ versions[v].created > versions[w].created
              \/ versions[v].created = versions[w].created /\ Rank(v) < Rank(w)
Offered(groups) ==
    [g \in DOMAIN groups |-> [versions |-> groups[g], first |-> DefaultVersion(groups[g])]]

(* The variants of a model are not offered.                                  *)
Usable(list) == SelectSeq(list, LAMBDA m : m.id \notin Variants)

-----------------------------------------------------------------------------
Sources == {"none", "live", "stale", "fallback"}
CatalogTypeOK ==
    /\ cached.source \in Sources /\ cached.fresh \in BOOLEAN
    /\ inflight \in {"no", "asked", "reading"} /\ waiting \subseteq Askers
    /\ received \in 0..MaxChunks
    /\ \A a \in Askers : answer[a] \in Sources
    /\ remote \subseteq Models /\ fetches \in 0..MaxFetches

CatalogInit ==
    /\ cached = [source |-> "none", fresh |-> FALSE] /\ lastGood = NoGroups
    /\ inflight = "no" /\ waiting = {} /\ received = 0
    /\ answer = [a \in Askers |-> "none"]
    /\ remote \in {ToSet(list) : list \in [1..MaxModels -> Models]} /\ fetches = 0

(* loadOpenRouterModelCatalog: what is cached, the request under way, or a   *)
(* new one.                                                                  *)
Load(a) ==
    /\ a \notin waiting
    /\ \/ /\ cached.fresh /\ answer' = [answer EXCEPT ![a] = cached.source]
          /\ UNCHANGED <<waiting, inflight, fetches>>
       \/ /\ ~cached.fresh /\ inflight # "no"
          /\ waiting' = waiting \cup {a} /\ UNCHANGED <<answer, inflight, fetches>>
       \/ /\ ~cached.fresh /\ inflight = "no" /\ fetches < MaxFetches
          /\ inflight' = "asked" /\ fetches' = fetches + 1
          /\ waiting' = waiting \cup {a} /\ UNCHANGED answer
    /\ UNCHANGED <<cached, lastGood, received, remote>>

SettleLoad(source) ==
    /\ cached' = [source |-> source, fresh |-> TRUE]
    /\ answer' = [a \in Askers |-> IF a \in waiting THEN source ELSE answer[a]]
    /\ waiting' = {} /\ inflight' = "no" /\ received' = 0

(* A failure: the last good groups, or the bundled ones.                     *)
Fails ==
    /\ SettleLoad(IF lastGood = NoGroups THEN "fallback" ELSE "stale")
    /\ UNCHANGED <<lastGood, remote, fetches>>

(* fetchLiveCatalog: the response is refused for its status or for a length  *)
(* it advertises (readBoundedJson), or it is read.                           *)
Respond ==
    /\ inflight = "asked"
    /\ \/ Fails
       \/ /\ inflight' = "reading"
          /\ UNCHANGED <<cached, lastGood, waiting, received, answer, remote, fetches>>

(* A chunk more than the limit ends the reading.                             *)
ReadChunk ==
    /\ inflight = "reading"
    /\ IF received = MaxChunks THEN Fails
       ELSE /\ received' = received + 1
            /\ UNCHANGED <<cached, lastGood, inflight, waiting, answer, remote, fetches>>

(* The models are complete, in whatever order OpenRouter lists them; a list  *)
(* without a usable one is a failure, as is a response that is no such list. *)
Fetched ==
    /\ inflight = "reading" /\ received > 0
    /\ \/ Fails
       \/ /\ \E list \in SetToSeqs(remote) :
               Usable(list) # <<>> /\ lastGood' = Offered(BuildGroups(Usable(list)))
          /\ SettleLoad("live") /\ UNCHANGED <<remote, fetches>>

(* The time is over: the request is aborted, wherever it is.                 *)
Timeout == inflight # "no" /\ Fails

CacheExpires ==
    /\ cached.fresh /\ cached' = [cached EXCEPT !.fresh = FALSE]
    /\ UNCHANGED <<lastGood, inflight, waiting, received, answer, remote, fetches>>

CatalogNext ==
    \/ \E a \in Askers : Load(a)
    \/ Respond \/ ReadChunk \/ Fetched \/ Timeout \/ CacheExpires
CatalogSpec == CatalogInit /\ [][CatalogNext]_catalogVars

-----------------------------------------------------------------------------
(* Two downloads of the same models offer the same groups, with the same     *)
(* versions and the same first choice, in whatever order the models were     *)
(* listed, also when two of them share an id (buildGroups,                   *)
(* compareRemoteModels, mergeVersion).                                       *)
OrderIrrelevant ==
    lastGood = NoGroups \/ lastGood = Offered(BuildGroups(Usable(SetToSeq(remote))))
=============================================================================
