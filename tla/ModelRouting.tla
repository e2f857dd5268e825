---------------------------- MODULE ModelRouting ----------------------------
(***************************************************************************)
(* How a model name reaches a backend: the alias registry and its          *)
(* resolution (internal/router), the picker rows and their routes          *)
(* (internal/discovery), and the loader that republishes the registry from *)
(* each catalog read (cmd/utraque, newAliasLoader).                        *)
(*                                                                         *)
(* A name is the sequence of its hyphen-separated tokens, in lower case:   *)
(* <<"gpt", "6", "sol">> is a slug, <<"sol", "6">> its pinned alias and    *)
(* <<"sol">> its bare one.  An id is a name with or without the            *)
(* "anthropic-compat." prefix.  The three alias tiers are functions of the *)
(* entries loaded last, because LoadCatalog derives all of them afresh; so *)
(* the registry's state is that set of entries and the picker tier.        *)
(* The catalog client behind the reads is CodexCatalog; here it is what    *)
(* that module promises: `mem` is the list it holds, and never an older    *)
(* one than before.                                                        *)
(***************************************************************************)
EXTENDS Effort, FiniteSets

CONSTANTS
    Lists,          \* the successive catalogs: a sequence of sets of models
    StaticSlugs,    \* staticSlugs, the compiled-in seed
    Overrides,      \* slug -> [version, codename, modifier], from the configuration
    VersionRank,    \* version token -> number, in the order of versionCmp
    SlugRank,       \* slug -> number, in the order of the strings
    Modifiers,      \* tail tokens that are modifiers ("mini")
    Bodies,         \* effort tokens a request body may carry, "" for none
    AnthropicNames, \* names of the rows of the Anthropic half
    DeepSeekNames,  \* names models.Canonical knows
    Strategies,     \* alias strategies to explore
    Opens,          \* goroutines serving a picker open
    Readers,        \* goroutines of the Codex leg, and the startup warm
    MaxRestarts     \* bound: restarts of the daemon

VARIABLES
    now,        \* index of the list the backend serves
    mem,        \* index of the list the catalog client holds, 0 if none
    loaded,     \* the entries the registry's tiers are derived from
    picker,     \* the picker tier: id -> route
    last,       \* newAliasLoader's fingerprint of the last list published
    strategy,   \* h.alias.strategy()
    pr,         \* per goroutine: its place, the list it read, its rows
    hand,       \* rows that clients were served, with the route meant for each
    restarts

vars == <<now, mem, loaded, picker, last, strategy, pr, hand, restarts>>

Procs == Opens \cup Readers
Slugs(entries) == {e.slug : e \in entries}

\* ListedEntries: what the registry is loaded from.
ListedEntries(list) ==
    {[slug |-> m.slug, priority |-> m.priority] : m \in {x \in list : x.listed}}

StaticEntries == {[slug |-> s, priority |-> 0] : s \in StaticSlugs}

-----------------------------------------------------------------------------
(* Aliases *)

\* The grammar: gpt-<version>, or gpt-<version>-<tail>; a longer slug has no
\* aliases unless an override gives it some.
Parses(slug) == slug \in DOMAIN Overrides \/ Len(slug) \in {2, 3}

parseSlug(slug) ==
    IF slug \in DOMAIN Overrides THEN Overrides[slug]
    ELSE [version  |-> slug[2],
          codename |-> IF Len(slug) = 3 /\ slug[3] \notin Modifiers
                       THEN slug[3] ELSE Unset,
          modifier |-> IF Len(slug) = 3 /\ slug[3] \in Modifiers
                       THEN slug[3] ELSE Unset]

bareAlias(slug) ==
    LET p == parseSlug(slug) IN
    CASE p.codename # Unset -> <<p.codename>>
      [] p.codename = Unset /\ p.modifier # Unset -> <<p.version, p.modifier>>
      [] OTHER -> <<p.version>>

hasPinned(slug) == parseSlug(slug).codename # Unset
pinnedAlias(slug) == <<parseSlug(slug).codename, parseSlug(slug).version>>

\* The newer version wins the bare name; priority only breaks a tie.
bareOutranks(e, f) ==
    LET v(x) == VersionRank[parseSlug(x.slug).version] IN
    v(e) > v(f) \/ (v(e) = v(f) /\ e.priority > f.priority)

WithPinned(entries, name) ==
    {e \in entries : /\ Parses(e.slug) /\ hasPinned(e.slug)
                     /\ pinnedAlias(e.slug) = name}
WithBare(entries, name) ==
    {e \in entries : Parses(e.slug) /\ bareAlias(e.slug) = name}
BareHolder(entries, name) ==
    LET claimants == WithBare(entries, name) IN
    CHOOSE e \in claimants : \A f \in claimants : ~bareOutranks(f, e)

NoSlug == <<>>

\* Registry.Resolve: raw, then pinned, then bare.
RegistryResolve(name) ==
    IF name \in Slugs(loaded) THEN name
    ELSE IF WithPinned(loaded, name) # {}
         THEN (CHOOSE e \in WithPinned(loaded, name) : TRUE).slug
    ELSE IF WithBare(loaded, name) # {} THEN BareHolder(loaded, name).slug
    ELSE NoSlug

\* Registry.AliasList, the pinned and bare names of one slug.
DerivedNames(entries, slug) ==
    {n \in {pinnedAlias(slug)} :
            hasPinned(slug) /\ slug \in Slugs(WithPinned(entries, n))}
    \cup {n \in {bareAlias(slug)} :
            WithBare(entries, n) # {} /\ BareHolder(entries, n).slug = slug}

-----------------------------------------------------------------------------
(* Resolution *)

Front(name) == SubSeq(name, 1, Len(name) - 1)
HasEffort(name) == Len(name) > 1 /\ Known(name[Len(name)])

NotFound == [backend |-> "none", slug |-> NoSlug, effort |-> Unset]
Anthropic == [backend |-> "anthropic", slug |-> NoSlug, effort |-> Unset]
DeepSeek(name) == [backend |-> "deepseek", slug |-> name, effort |-> Unset]
Codex(slug, level) == [backend |-> "codex", slug |-> slug, effort |-> level]

resolveCodexSuffixFirst(name) ==
    IF HasEffort(name)
    THEN IF RegistryResolve(Front(name)) # NoSlug
         THEN Codex(RegistryResolve(Front(name)), name[Len(name)]) ELSE NotFound
    ELSE IF RegistryResolve(name) # NoSlug
         THEN Codex(RegistryResolve(name), Unset) ELSE NotFound

\* The whole name first: a slug may end in a word that is also an effort.
resolveCodex(name) ==
    IF RegistryResolve(name) # NoSlug THEN Codex(RegistryResolve(name), Unset)
    ELSE IF HasEffort(name) /\ RegistryResolve(Front(name)) # NoSlug
         THEN Codex(RegistryResolve(Front(name)), name[Len(name)])
    ELSE NotFound

resolveGPTSlug(name) ==
    IF name[1] # "gpt" THEN NotFound
    ELSE IF HasEffort(name) THEN Codex(Front(name), name[Len(name)])
    ELSE Codex(name, Unset)

\* The code compares prefixes; a decorated word ("opusplan") is the word here.
isAnthropicName(name) ==
    name[1] \in {"claude", "anthropic", "opus", "sonnet", "haiku", "fable"}

resolveDeepSeek(name) ==
    IF name \in DeepSeekNames
    THEN DeepSeek(name) ELSE NotFound

\* The first of these that places the name.
FirstFound(a, b, c) ==
    IF a # NotFound THEN a ELSE IF b # NotFound THEN b ELSE c

ResolveWith(id) ==
    IF id \in DOMAIN picker THEN picker[id]
    ELSE IF ~id.compat /\ isAnthropicName(id.name)
         THEN Anthropic
    ELSE FirstFound(resolveDeepSeek(id.name), resolveCodex(id.name),
                    resolveGPTSlug(id.name))

\* catalogModel: the entry for the routed slug in the list the client holds or
\* fetches, and none when that fails or lists no such model.
catalogModel(slug) ==
    {UnknownModel} \cup {m \in Lists[IF mem = 0 THEN now ELSE mem] : m.slug = slug}

-----------------------------------------------------------------------------
(* Picker rows *)

Compat(name) == [compat |-> TRUE, name |-> name]
Plain(name) == [compat |-> FALSE, name |-> name]

AnthropicRows ==
    {[id |-> Plain(n), route |-> Anthropic] : n \in AnthropicNames}
DeepSeekRows ==
    {[id |-> Compat(n), route |-> DeepSeek(n)] : n \in DeepSeekNames}

\* The names a model is offered under: its derived aliases, its slug if the
\* registry has none or the strategy says so.
RowNames(slug) ==
    IF strategy = "raw" \/ ~Parses(slug) \/ DerivedNames(loaded, slug) = {}
    THEN {slug} ELSE DerivedNames(loaded, slug)

RowsOf(m) ==
    UNION {{[id |-> Compat(n), route |-> Codex(m.slug, Unset)]} \cup
           {[id |-> Compat(Append(n, t)), route |-> Codex(m.slug, t)] :
                t \in {x \in m.efforts : strategy = "effort_variants" /\ Known(x)}}
           : n \in RowNames(m.slug)}

\* Models are offered in this order, and an id that is taken is not offered again.
Precedes(m, k) ==
    m.priority > k.priority
    \/ (m.priority = k.priority /\ SlugRank[m.slug] < SlugRank[k.slug])

codexRows(list) ==
    LET rows == [m \in {x \in list : x.listed} |-> RowsOf(m)]
        Taken(row, m) == \E k \in DOMAIN rows :
            Precedes(k, m) /\ \E s \in rows[k] : s.id = row.id
    IN  UNION {{row \in rows[m] : ~Taken(row, m)} : m \in DOMAIN rows}

\* SetPickerRoutes is given a route for every row but the Anthropic ones.
RoutesOf(rows) ==
    LET routed == rows \ AnthropicRows IN
    [i \in {r.id : r \in routed} |-> (CHOOSE r \in routed : r.id = i).route]

-----------------------------------------------------------------------------
(* What the catalogs and the configuration are taken to be *)

\* The models that some catalog lists, and every slug the registry may hold.
Offered == UNION {{m \in Lists[k] : m.listed} : k \in DOMAIN Lists}
Routable == StaticSlugs \cup Slugs(Offered)

\* All that a slug may be called, without an effort.
NamesOf(slug) ==
    {slug} \cup {n \in {bareAlias(slug)} : Parses(slug)}
           \cup {n \in {pinnedAlias(slug)} : Parses(slug) /\ hasPinned(slug)}

\* Names with an effort behind them, as the effort_variants strategy offers them.
Variants == UNION {{Append(n, t) : n \in NamesOf(m.slug), t \in {x \in m.efforts : Known(x)}}
                   : m \in Offered}

ASSUME CatalogAssumption ==
    /\ Lists # <<>>
    /\ Lists \in Seq(SUBSET [slug : Seq(STRING), priority : Int, listed : BOOLEAN,
                             efforts : SUBSET STRING, default : STRING])
    /\ StaticSlugs \subseteq Seq(STRING) /\ IsFiniteSet(StaticSlugs)
    /\ \A k \in DOMAIN Lists : IsFiniteSet(Lists[k])
    /\ NoSlug \notin Routable

ASSUME AliasAssumption ==
    /\ Overrides \in [DOMAIN Overrides -> [version : STRING, codename : STRING, modifier : STRING]]
    /\ \A s \in Routable : Parses(s) => VersionRank[parseSlug(s).version] \in Int

\* A name stands for one model, or is the rolling name of several; no name is
\* another one with an effort behind it, as gpt-7-max would be next to a gpt-7
\* that has the level max; and the three providers' names are apart.
ASSUME NamesApart ==
    /\ \A s, t \in Routable : \A n \in NamesOf(s) \cap NamesOf(t) :
          s = t \/ (Parses(s) /\ Parses(t) /\ bareAlias(s) = n /\ bareAlias(t) = n)
    /\ \A t \in Routable : NamesOf(t) \cap (Variants \cup DeepSeekNames) = {}
    /\ Variants \cap DeepSeekNames = {}
    /\ \A n \in AnthropicNames : isAnthropicName(n)

-----------------------------------------------------------------------------

Resting == [pc |-> "idle", list |-> 0, rows |-> {}]
NoRoutes == [i \in {} |-> NotFound]

Init ==
    /\ now = 1 /\ mem = 0
    /\ loaded = StaticEntries /\ picker = NoRoutes /\ last = {}
    /\ strategy \in Strategies
    /\ pr = [q \in Procs |-> Resting]
    /\ hand = {} /\ restarts = 0

\* A catalog read: what the client holds or, when it holds nothing, a fetch.
ReadCatalog(q) ==
    /\ pr[q].pc = "idle"
    /\ mem' = IF mem = 0 THEN now ELSE mem
    /\ pr' = [pr EXCEPT ![q].pc = "load", ![q].list = mem']
    /\ UNCHANGED <<now, loaded, picker, last, strategy, hand, restarts>>

\* The read fails: a picker open goes on without Codex rows.
ReadFails(q) ==
    /\ pr[q].pc = "idle" /\ q \in Opens
    /\ pr' = [pr EXCEPT ![q].pc = "merge", ![q].list = 0]
    /\ UNCHANGED <<now, mem, loaded, picker, last, strategy, hand, restarts>>

UnchangedOnce(entries) == last # {}

\* newAliasLoader compares catalogFingerprint, the listed slugs with priorities.
Unchanged(entries) == entries = last

\* The tiers are replaced, never added to.
LoadCatalog(entries) == loaded' = entries

\* newAliasLoader: an empty list and an unchanged one publish nothing.
loadAliases(q) ==
    /\ pr[q].pc = "load"
    /\ LET entries == ListedEntries(Lists[pr[q].list]) IN
       IF Lists[pr[q].list] = {} \/ Unchanged(entries)
       THEN UNCHANGED <<loaded, last>>
       ELSE LoadCatalog(entries) /\ last' = entries
    /\ pr' = [pr EXCEPT ![q] = IF q \in Opens THEN [@ EXCEPT !.pc = "merge"]
                               ELSE Resting]
    /\ UNCHANGED <<now, mem, picker, strategy, hand, restarts>>

\* Models, once both halves are in: the rows, named by the registry of now.
MergeRows(q) ==
    /\ pr[q].pc = "merge"
    /\ pr' = [pr EXCEPT ![q].pc = "publish",
                ![q].rows = AnthropicRows \cup DeepSeekRows \cup
                    (IF pr[q].list = 0 THEN {} ELSE codexRows(Lists[pr[q].list]))]
    /\ UNCHANGED <<now, mem, loaded, picker, last, strategy, hand, restarts>>

\* SetPickerRoutes replaces the tier; then the response is written.
SetPickerRoutes(q) ==
    /\ pr[q].pc = "publish"
    /\ picker' = RoutesOf(pr[q].rows)
    /\ hand' = hand \cup pr[q].rows
    /\ pr' = [pr EXCEPT ![q] = Resting]
    /\ UNCHANGED <<now, mem, loaded, last, strategy, restarts>>

\* The backend serves another list.
Publish ==
    /\ now < Len(Lists) /\ now' = now + 1
    /\ UNCHANGED <<mem, loaded, picker, last, strategy, pr, hand, restarts>>

\* The catalog client's background revalidation.
Revalidate ==
    /\ mem # 0 /\ mem' = now /\ mem # now
    /\ UNCHANGED <<now, loaded, picker, last, strategy, pr, hand, restarts>>

\* The idle exit, or any other: the seed again, no picker tier, requests gone;
\* the catalog's file may survive.  Clients keep the ids they were given.
Restart ==
    /\ restarts < MaxRestarts /\ restarts' = restarts + 1
    /\ loaded' = StaticEntries /\ picker' = NoRoutes /\ last' = {}
    /\ mem' \in {0, mem} /\ pr' = [q \in Procs |-> Resting]
    /\ UNCHANGED <<now, strategy, hand>>

Serve(q) == ReadCatalog(q) \/ loadAliases(q) \/ MergeRows(q) \/ SetPickerRoutes(q)

Next ==
    \/ \E q \in Procs : Serve(q) \/ ReadFails(q)
    \/ Publish \/ Revalidate \/ Restart

\* Requests go on reading the catalog, and the client revalidates it.
Fairness == WF_vars(Revalidate) /\ \A q \in Readers : WF_vars(Serve(q))

Spec == Init /\ [][Next]_vars /\ Fairness

-----------------------------------------------------------------------------
(* Properties *)

SameFamily(s, t) ==
    s = t \/ (Parses(s) /\ Parses(t) /\ bareAlias(s) = bareAlias(t))

Pinned(row) ==
    row.id.name \notin {bareAlias(row.route.slug),
                        Append(bareAlias(row.route.slug), row.route.effort)}

\* A row that a client was served goes on working, after later picker opens that
\* failed or saw another catalog, after reloads of the registry and after a
\* restart, as long as the registry holds the model: it routes to the same
\* backend with the same effort, a pinned or raw one to the same model, a rolling
\* one to the same family.  It does not need the picker tier it came with.
RowsKeepRouting ==
    \A row \in hand :
        LET d == ResolveWith(row.id) IN
        IF row.route.backend # "codex" THEN d = row.route
        ELSE row.route.slug \in Slugs(loaded) =>
               /\ d.backend = "codex" /\ d.effort = row.route.effort
               /\ SameFamily(d.slug, row.route.slug)
               /\ Pinned(row) => d.slug = row.route.slug

\* Whatever catalog a row was made from and whatever the backend lists now, a
\* request for it asks for what its name says, else what its body says: that is
\* sent if the model has it; else the nearest level below, and only for want of
\* one a higher level, the model's lowest.  A token that is no level never buys
\* more than that, and on DeepSeek a higher level never buys less.
EffortHonoured ==
    \A row \in hand :
        LET d == ResolveWith(row.id) IN
        /\ row.route.backend = "codex" /\ row.route.slug \in Slugs(loaded) =>
             \A model \in catalogModel(d.slug), body \in Bodies :
                LET sent == AppliedEffort(d, body, model)
                    asked == CASE row.route.effort # Unset -> row.route.effort
                               [] row.route.effort = Unset /\ Known(body) -> body
                               [] OTHER -> model.default
                    has == {e \in model.efforts : Known(e)}
                IN IF asked \in model.efforts \cup {Unset} \/ has = {} THEN sent = asked
                   ELSE /\ sent \in has
                        /\ \A e \in has : /\ Rank(e) <= Rank(asked) => Rank(e) <= Rank(sent)
                                         /\ Rank(sent) > Rank(asked) => Rank(sent) <= Rank(e)
        /\ row.route.backend = "deepseek" =>
             \A less, more \in Bodies : Rank(less) <= Rank(more) =>
                Rank(AppliedEffort(d, less, UnknownModel))
                    <= Rank(AppliedEffort(d, more, UnknownModel))

\* The aliases end up those of the catalog the backend serves, although loads of
\* older reads may overtake newer ones and an unchanged list is not published.
RegistryCatchesUp == <>[](loaded = ListedEntries(Lists[now]))
=============================================================================
