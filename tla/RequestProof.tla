---------------------------- MODULE RequestProof ----------------------------
(***************************************************************************)
(* What is done with a request before it is sent anywhere: where it is     *)
(* routed, and how its text is counted.                                    *)
(*                                                                         *)
(* A row that a client was once served goes on working, and buys the       *)
(* effort it names: RowsKeepRouting and EffortHonoured of ModelRouting for *)
(* any models, lists, aliases and numbers of picker opens.  Neither is     *)
(* inductive.  RoutingInv adds that the registry was built from the seed   *)
(* or from a list some catalog serves, and that every row in a hand, in a  *)
(* picker open or behind the picker tier is one that discovery makes of an *)
(* offered model.  What is left is pure: ResolveRow says where ResolveWith *)
(* takes such a row under any such registry.  The hypothesis that matters  *)
(* is NamesApart.  Next to a gpt-7 that offers the level max, a model      *)
(* called gpt-7-max would take over that row, since a name is tried whole  *)
(* before its last token is read as an effort.                             *)
(*                                                                         *)
(* The token count of Tokens neither adds nor loses a cut, and gives the   *)
(* codec short pieces only: CutsExact for any text and any limit.          *)
(* TokensInv adds that count stands between two runs and that a span ends  *)
(* at a cut outside any spaces.  The rest is about the split regex and the *)
(* runs: which offsets no piece crosses, what a piece may look like, and   *)
(* that a slice of a text is cut as it is in place.                        *)
(***************************************************************************)
EXTENDS ModelRouting, Tokens, FiniteSetTheorems, SequenceTheorems, WellFoundedInduction, TLAPS

-----------------------------------------------------------------------------
(* Numbers *)

\* A set of naturals that is not empty has a least member.
LEMMA LeastNat ==
    ASSUME NEW T, T \subseteq Nat, T # {}
    PROVE  \E m \in T : \A k \in T : m <= k
  <1>1. PICK x \in T : \A y \in T : ~ (<<y, x>> \in OpToRel(<, Nat))
    BY WFMin, NatLessThanWellFounded
  <1>2. \A y \in T : ~ (y < x)
    BY <1>1 DEF OpToRel
  <1> QED
    BY <1>2

\* A set that holds 0 and, with a number, the next one holds them all.
LEMMA NatSetInduction ==
    ASSUME NEW T, 0 \in T, \A k \in Nat : k \in T => k + 1 \in T
    PROVE  \A k \in Nat : k \in T
  <1> SUFFICES ASSUME NEW n \in Nat, n \notin T PROVE FALSE
    OBVIOUS
  <1>1. PICK m \in {k \in Nat : k \notin T} : \A k \in {j \in Nat : j \notin T} : m <= k
    BY LeastNat
  <1>2. m # 0 /\ m - 1 \in Nat
    BY <1>1
  <1>3. m - 1 \in T
    BY <1>1, <1>2
  <1>4. (m - 1) + 1 \in T
    BY <1>2, <1>3
  <1> QED
    BY <1>1, <1>2, <1>4

\* The same up to a bound.
LEMMA UpToInduction ==
    ASSUME NEW N \in Nat, NEW T, 0 \in T, \A k \in 0..(N - 1) : k \in T => k + 1 \in T
    PROVE  \A k \in 0..N : k \in T
  <1> DEFINE U == {k \in Nat : k <= N => k \in T}
  <1>1. 0 \in U
    OBVIOUS
  <1>2. \A k \in Nat : k \in U => k + 1 \in U
    OBVIOUS
  <1> HIDE DEF U
  <1>3. \A k \in Nat : k \in U
    BY <1>1, <1>2, NatSetInduction
  <1> QED
    BY <1>3 DEF U

-----------------------------------------------------------------------------
(* Effort *)

\* The levels are six, and their ranks their places.
LEMMA LevelRanks ==
    /\ Levels = {"low", "medium", "high", "xhigh", "max", "ultra"}
    /\ Rank("low") = 1 /\ Rank("medium") = 2 /\ Rank("high") = 3
    /\ Rank("xhigh") = 4 /\ Rank("max") = 5 /\ Rank("ultra") = 6
    /\ Rank(Unset) = 0
    /\ \A l : ~Known(l) => Rank(l) = 0
  <1>1. /\ DOMAIN levels = 1..6
        /\ levels[1] = "low" /\ levels[2] = "medium" /\ levels[3] = "high"
        /\ levels[4] = "xhigh" /\ levels[5] = "max" /\ levels[6] = "ultra"
    BY DEF levels
  <1>2. Levels = {"low", "medium", "high", "xhigh", "max", "ultra"}
    BY <1>1 DEF Levels
  <1>3. \A i \in 1..6 : Rank(levels[i]) = i
    <2> SUFFICES ASSUME NEW i \in 1..6 PROVE Rank(levels[i]) = i
      OBVIOUS
    <2>1. Known(levels[i])
      BY <1>1 DEF Known, Levels
    <2>2. \A j \in DOMAIN levels : levels[j] = levels[i] => j = i
      BY <1>1
    <2> QED
      BY <1>1, <2>1, <2>2 DEF Rank
  <1>4. /\ Rank(levels[1]) = 1 /\ Rank(levels[2]) = 2 /\ Rank(levels[3]) = 3
        /\ Rank(levels[4]) = 4 /\ Rank(levels[5]) = 5 /\ Rank(levels[6]) = 6
    BY <1>3
  <1>5. \A l : ~Known(l) => Rank(l) = 0
    BY DEF Rank
  <1>6. ~Known(Unset)
    BY <1>2, Zenon DEF Known, Unset
  <1> QED
    BY <1>1, <1>2, <1>4, <1>5, <1>6

\* A known level ranks in 1..6, any other token 0.
LEMMA RankFacts ==
    /\ \A l : Rank(l) \in 0..6
    /\ \A l : Known(l) => Rank(l) \in 1..6 /\ l # Unset
  <1>1. \A l \in Levels : Rank(l) \in 1..6
    BY LevelRanks
  <1>2. \A l : Known(l) => l # Unset
    BY LevelRanks DEF Known
  <1> QED
    BY <1>1, <1>2, LevelRanks DEF Known

\* A set of levels that is not empty has a highest and a lowest member.
LEMMA Extremes ==
    ASSUME NEW S \in SUBSET Levels, S # {}
    PROVE  /\ Highest(S) \in S /\ \A k \in S : Rank(k) <= Rank(Highest(S))
           /\ Lowest(S) \in S /\ \A k \in S : Rank(Lowest(S)) <= Rank(k)
  <1> DEFINE ranks == {Rank(l) : l \in S}
  <1>0. ranks \subseteq 1..6 /\ ranks # {}
    BY RankFacts DEF Known
  <1>1. \E l \in S : \A k \in S : Rank(k) <= Rank(l)
    <2>1. \E r \in ranks : \A p \in ranks : p <= r
      BY <1>0
    <2> QED
      BY <2>1
  <1>2. \E l \in S : \A k \in S : Rank(l) <= Rank(k)
    <2>1. \E r \in ranks : \A p \in ranks : r <= p
      BY <1>0
    <2> QED
      BY <2>1
  <1>3. Highest(S) \in S /\ \A k \in S : Rank(k) <= Rank(Highest(S))
    BY <1>1 DEF Highest
  <1>4. Lowest(S) \in S /\ \A k \in S : Rank(Lowest(S)) <= Rank(k)
    BY <1>2 DEF Lowest
  <1> QED
    BY <1>3, <1>4

\* effort.Clamp: what fits is kept; else the nearest level below and, only for
\* want of one, the lowest the model has.
LEMMA ClampNearest ==
    ASSUME NEW asked, NEW efforts
    PROVE  LET has == {e \in efforts : Known(e)}
               sent == Clamp(asked, efforts)
           IN IF asked \in efforts \cup {Unset} \/ has = {} THEN sent = asked
              ELSE /\ sent \in has
                   /\ \A e \in has : /\ Rank(e) <= Rank(asked) => Rank(e) <= Rank(sent)
                                     /\ Rank(sent) > Rank(asked) => Rank(sent) <= Rank(e)
  <1> DEFINE has == {e \in efforts : Known(e)}
             below == {e \in has : Rank(e) <= Rank(asked)}
             sent == Clamp(asked, efforts)
  <1>1. CASE asked \in efforts \cup {Unset} \/ has = {}
    BY <1>1 DEF Clamp
  <1>2. CASE ~(asked \in efforts \cup {Unset} \/ has = {})
    <2>1. has \in SUBSET Levels /\ below \in SUBSET Levels /\ has # {}
      BY <1>2 DEF Known
    <2>2. sent = IF below # {} THEN Highest(below) ELSE Lowest(has)
      BY <1>2 DEF Clamp
    <2>3. \A e \in has : Rank(e) \in Int
      BY RankFacts
    <2>4. Rank(asked) \in Int
      BY RankFacts
    <2>5. CASE below # {}
      <3>1. sent \in below /\ \A k \in below : Rank(k) <= Rank(sent)
        BY <2>1, <2>2, <2>5, Extremes
      <3> QED
        BY <1>2, <2>3, <2>4, <3>1
    <2>6. CASE below = {}
      <3>1. sent \in has /\ \A k \in has : Rank(sent) <= Rank(k)
        BY <2>1, <2>2, <2>6, Extremes
      <3> QED
        BY <1>2, <2>3, <2>4, <2>6, <3>1
    <2> QED
      BY <2>5, <2>6
  <1> QED
    BY <1>1, <1>2

\* The Codex leg's precedence: the decision's effort, else the catalog's default.
LEMMA ChosenEffort ==
    ASSUME NEW d, NEW default
    PROVE  chooseEffort(d, Unset, Unset, default) = IF d.effort # Unset THEN d.effort ELSE default
  <1> DEFINE sources == <<d.effort, Unset, Unset, default>>
             named == {i \in DOMAIN sources : sources[i] # Unset}
  <1>1. /\ DOMAIN sources = 1..4 /\ sources[1] = d.effort /\ sources[2] = Unset
        /\ sources[3] = Unset /\ sources[4] = default
    OBVIOUS
  <1>2. chooseEffort(d, Unset, Unset, default) =
          IF named = {} THEN Unset ELSE sources[CHOOSE i \in named : \A j \in named : i <= j]
    BY DEF chooseEffort
  <1>3. CASE d.effort # Unset
    <2>1. 1 \in named /\ \A j \in named : 1 <= j /\ j \in Int
      BY <1>1, <1>3
    <2>2. \A i \in named : (\A j \in named : i <= j) => i = 1
      BY <2>1
    <2>3. (CHOOSE i \in named : \A j \in named : i <= j) = 1
      BY <2>1, <2>2
    <2> QED
      BY <1>1, <1>2, <1>3, <2>1, <2>3
  <1>4. CASE d.effort = Unset /\ default # Unset
    <2>1. named = {4}
      BY <1>1, <1>4
    <2>2. (CHOOSE i \in named : \A j \in named : i <= j) = 4
      BY <2>1
    <2> QED
      BY <1>1, <1>2, <1>4, <2>1, <2>2
  <1>5. CASE d.effort = Unset /\ default = Unset
    <2>1. named = {}
      BY <1>1, <1>5
    <2> QED
      BY <1>2, <1>5, <2>1
  <1> QED
    BY <1>3, <1>4, <1>5

\* DeepSeek's three levels keep the order.
LEMMA DeepSeekMonotone ==
    ASSUME NEW less, NEW more, Rank(less) <= Rank(more)
    PROVE  Rank(deepseekEffort(less)) <= Rank(deepseekEffort(more))
  <1>1. \A l : ~Known(l) => Rank(deepseekEffort(l)) = 0
    BY LevelRanks DEF deepseekEffort, Known
  <1>2. /\ Rank(deepseekEffort("low")) = 1 /\ Rank(deepseekEffort("medium")) = 3
        /\ Rank(deepseekEffort("high")) = 3 /\ Rank(deepseekEffort("xhigh")) = 3
        /\ Rank(deepseekEffort("max")) = 5 /\ Rank(deepseekEffort("ultra")) = 5
    BY LevelRanks DEF deepseekEffort
  <1>3. CASE ~Known(less)
    BY <1>1, <1>2, <1>3, LevelRanks, RankFacts DEF Known
  <1>4. CASE Known(less)
    <2>1. Known(more)
      BY <1>4, LevelRanks, RankFacts
    <2> QED
      BY <1>2, <1>4, <2>1, LevelRanks DEF Known
  <1> QED
    BY <1>3, <1>4

-----------------------------------------------------------------------------
(* The registry *)

\* Among finitely many entries some is outranked by none.
LEMMA BestOfFinite ==
    ASSUME NEW T, IsFiniteSet(T), T # {}, NEW v \in [T -> Int], NEW p \in [T -> Int]
    PROVE  \E e \in T : \A f \in T : ~(v[f] > v[e] \/ (v[f] = v[e] /\ p[f] > p[e]))
  <1> DEFINE Best(U) == \E e \in U : \A f \in U : ~(v[f] > v[e] \/ (v[f] = v[e] /\ p[f] > p[e]))
             Bad == {n \in Nat : \E U \in SUBSET T : U # {} /\ Cardinality(U) = n /\ ~Best(U)}
  <1> SUFFICES ASSUME ~Best(T) PROVE FALSE
    OBVIOUS
  <1>1. Cardinality(T) \in Bad
    BY FS_CardinalityType
  <1> HIDE DEF Best
  <1>2. PICK n \in Bad : \A k \in Bad : n <= k
    BY <1>1, LeastNat
  <1>3. PICK U \in SUBSET T : U # {} /\ Cardinality(U) = n /\ ~Best(U)
    BY <1>2
  <1>4. PICK x \in U : TRUE
    BY <1>3
  <1>5. IsFiniteSet(U) /\ n \in Nat
    BY <1>2, <1>3, FS_Subset
  <1> DEFINE V == U \ {x}
  <1>6. /\ IsFiniteSet(V) /\ Cardinality(V) = n - 1 /\ Cardinality(V) \in Nat
        /\ V \in SUBSET T
    BY <1>3, <1>4, <1>5, FS_RemoveElement, FS_CardinalityType
  <1>7. CASE V = {}
    <2>1. U = {x}
      BY <1>4, <1>7
    <2> QED
      BY <1>3, <1>4, <2>1 DEF Best
  <1>8. CASE V # {}
    <2>1. n - 1 \notin Bad
      BY <1>2, <1>5
    <2>2. Best(V)
      BY <1>6, <1>8, <2>1
    <2>3. PICK e \in V : \A f \in V : ~(v[f] > v[e] \/ (v[f] = v[e] /\ p[f] > p[e]))
      BY <2>2 DEF Best
    <2>4. \A f \in U : v[f] \in Int /\ p[f] \in Int
      BY <1>3
    <2>5. U = V \cup {x} /\ e \in U /\ x \in U
      BY <1>4, <2>3
    <2>6. CASE v[x] > v[e] \/ (v[x] = v[e] /\ p[x] > p[e])
      <3>1. \A f \in U : ~(v[f] > v[x] \/ (v[f] = v[x] /\ p[f] > p[x]))
        BY <2>3, <2>4, <2>5, <2>6
      <3> QED
        BY <1>3, <1>4, <3>1 DEF Best
    <2>7. CASE ~(v[x] > v[e] \/ (v[x] = v[e] /\ p[x] > p[e]))
      <3>1. \A f \in U : ~(v[f] > v[e] \/ (v[f] = v[e] /\ p[f] > p[e]))
        BY <2>3, <2>5, <2>7
      <3> QED
        BY <1>3, <2>5, <3>1 DEF Best
    <2> QED
      BY <2>6, <2>7
  <1> QED
    BY <1>7, <1>8

\* The sets of entries the registry is ever loaded from.
Registries == {StaticEntries} \cup {ListedEntries(Lists[k]) : k \in DOMAIN Lists}

\* A registry is finite, and its entries are of slugs that the assumptions speak of.
LEMMA RegistryFacts ==
    ASSUME NEW entries \in Registries
    PROVE  /\ IsFiniteSet(entries)
           /\ \A e \in entries : e.slug \in Routable /\ e.priority \in Int
           /\ Slugs(entries) \subseteq Routable
  <1>1. CASE entries = StaticEntries
    <2> DEFINE f == [s \in StaticSlugs |-> [slug |-> s, priority |-> 0]]
    <2>1. f \in Surjection(StaticSlugs, entries)
      BY <1>1 DEF Surjection, StaticEntries
    <2>2. IsFiniteSet(entries)
      BY <2>1, FS_Surjection, CatalogAssumption
    <2> QED
      BY <1>1, <2>2 DEF StaticEntries, Slugs, Routable
  <1>2. CASE entries # StaticEntries
    <2>1. PICK k \in DOMAIN Lists : entries = ListedEntries(Lists[k])
      BY <1>2 DEF Registries
    <2> DEFINE listed == {m \in Lists[k] : m.listed}
               f == [m \in listed |-> [slug |-> m.slug, priority |-> m.priority]]
    <2>2. IsFiniteSet(listed)
      BY CatalogAssumption, FS_Subset
    <2>3. f \in Surjection(listed, entries)
      BY <2>1 DEF Surjection, ListedEntries
    <2>4. IsFiniteSet(entries)
      BY <2>2, <2>3, FS_Surjection
    <2>5. \A m \in Lists[k] : m.priority \in Int
      BY CatalogAssumption
    <2>6. listed \subseteq Offered
      BY DEF Offered
    <2>7. \A e \in entries : \E m \in listed : e = [slug |-> m.slug, priority |-> m.priority]
      BY <2>1 DEF ListedEntries
    <2>8. \A m \in listed : m.slug \in Routable
      BY <2>6 DEF Routable, Slugs
    <2>9. \A e \in entries : e.slug \in Routable /\ e.priority \in Int
      BY <2>5, <2>7, <2>8
    <2> QED
      BY <2>4, <2>9 DEF Slugs
  <1> QED
    BY <1>1, <1>2

\* The most recent claimant of a rolling name is one of its claimants.
LEMMA BareHolderFacts ==
    ASSUME NEW entries \in Registries, NEW name, WithBare(entries, name) # {}
    PROVE  BareHolder(entries, name) \in WithBare(entries, name)
  <1> DEFINE claimants == WithBare(entries, name)
             v == [e \in claimants |-> VersionRank[parseSlug(e.slug).version]]
             p == [e \in claimants |-> e.priority]
  <1>1. claimants \in SUBSET entries /\ \A e \in claimants : Parses(e.slug)
    BY DEF WithBare
  <1>2. IsFiniteSet(claimants) /\ \A e \in claimants : e.slug \in Routable /\ e.priority \in Int
    BY <1>1, RegistryFacts, FS_Subset
  <1>3. v \in [claimants -> Int] /\ p \in [claimants -> Int]
    BY <1>1, <1>2, AliasAssumption
  <1>4. \E e \in claimants : \A f \in claimants : ~(v[f] > v[e] \/ (v[f] = v[e] /\ p[f] > p[e]))
    <2> HIDE DEF claimants, v, p
    <2> QED
      BY <1>2, <1>3, BestOfFinite DEF claimants
  <1>5. \E e \in claimants : \A f \in claimants : ~bareOutranks(f, e)
    BY <1>4 DEF bareOutranks
  <1> QED
    BY <1>5 DEF BareHolder

\* Registry.Resolve: a name of a model that is loaded finds it or, where it is
\* the rolling name of several, one of the same family.
LEMMA ResolveHit ==
    ASSUME loaded \in Registries, NEW s \in Slugs(loaded), NEW name \in NamesOf(s)
    PROVE  LET r == RegistryResolve(name) IN
             /\ r \in Routable /\ r # NoSlug
             /\ \/ r = s
                \/ Parses(s) /\ Parses(r) /\ bareAlias(s) = name /\ bareAlias(r) = name
  <1> DEFINE r == RegistryResolve(name)
  <1>1. s \in Routable /\ Slugs(loaded) \subseteq Routable
    BY RegistryFacts
  <1>2. PICK own \in loaded : own.slug = s
    BY DEF Slugs
  <1>3. \A e \in loaded : e.slug \in Routable
    BY RegistryFacts
  <1>4. SUFFICES r \in Routable /\ name \in NamesOf(r)
    BY <1>1, NamesApart, CatalogAssumption
  <1>5. CASE name \in Slugs(loaded)
    BY <1>1, <1>5 DEF RegistryResolve, NamesOf
  <1>6. CASE name \notin Slugs(loaded) /\ WithPinned(loaded, name) # {}
    <2> DEFINE e == CHOOSE e \in WithPinned(loaded, name) : TRUE
    <2>1. e \in WithPinned(loaded, name)
      BY <1>6
    <2>2. r = e.slug
      BY <1>6 DEF RegistryResolve
    <2> HIDE DEF e, r
    <2>3. r \in Routable
      BY <1>3, <2>1, <2>2 DEF WithPinned
    <2>4. Parses(r) /\ hasPinned(r) /\ pinnedAlias(r) = name
      BY <2>1, <2>2 DEF WithPinned
    <2> QED
      BY <2>3, <2>4 DEF NamesOf
  <1>7. CASE name \notin Slugs(loaded) /\ WithPinned(loaded, name) = {}
    <2>1. name # s /\ ~(Parses(s) /\ hasPinned(s) /\ pinnedAlias(s) = name)
      BY <1>2, <1>7 DEF WithPinned
    <2>2. Parses(s) /\ bareAlias(s) = name
      BY <2>1 DEF NamesOf
    <2>3. own \in WithBare(loaded, name)
      BY <1>2, <2>2 DEF WithBare
    <2>4. r = BareHolder(loaded, name).slug
      BY <1>7, <2>3 DEF RegistryResolve
    <2>5. BareHolder(loaded, name) \in WithBare(loaded, name)
      BY <2>3, BareHolderFacts
    <2> HIDE DEF r
    <2>6. r \in Routable
      BY <1>3, <2>4, <2>5 DEF WithBare
    <2>7. Parses(r) /\ bareAlias(r) = name
      BY <2>4, <2>5 DEF WithBare
    <2> QED
      BY <2>6, <2>7 DEF NamesOf
  <1> QED
    BY <1>5, <1>6, <1>7

\* A name that no routable model goes by is not found.
LEMMA ResolveMiss ==
    ASSUME loaded \in Registries, NEW name, \A s \in Routable : name \notin NamesOf(s)
    PROVE  RegistryResolve(name) = NoSlug
  <1>1. \A e \in loaded : e.slug \in Routable
    BY RegistryFacts
  <1>2. name \notin Slugs(loaded)
    BY <1>1 DEF Slugs, NamesOf
  <1>3. WithPinned(loaded, name) = {}
    BY <1>1 DEF WithPinned, NamesOf
  <1>4. WithBare(loaded, name) = {}
    BY <1>1 DEF WithBare, NamesOf
  <1> QED
    BY <1>2, <1>3, <1>4 DEF RegistryResolve

\* One token, and two.
LEMMA ShortNames ==
    ASSUME NEW S, NEW a \in S, NEW b \in S
    PROVE  <<a>> \in Seq(S) /\ Len(<<a>>) > 0 /\ <<a, b>> \in Seq(S) /\ Len(<<a, b>>) > 0
  OBVIOUS

\* The names of a routable model are sequences of tokens and not empty.
LEMMA NamesTyped ==
    ASSUME NEW s \in Routable, NEW n \in NamesOf(s)
    PROVE  n \in Seq(STRING) /\ Len(n) > 0
  <1>1. s \in Seq(STRING) /\ s # <<>>
    <2>1. \A k \in DOMAIN Lists : \A m \in Lists[k] : m.slug \in Seq(STRING)
      BY CatalogAssumption
    <2>2. \A m \in Offered : m.slug \in Seq(STRING)
      BY <2>1 DEF Offered
    <2> QED
      BY <2>2, CatalogAssumption DEF Routable, Slugs, NoSlug
  <1>2. ASSUME Parses(s)
        PROVE  /\ parseSlug(s).version \in STRING
               /\ parseSlug(s).codename # Unset => parseSlug(s).codename \in STRING
               /\ parseSlug(s).modifier # Unset => parseSlug(s).modifier \in STRING
    <2>1. CASE s \in DOMAIN Overrides
      BY <2>1, AliasAssumption DEF parseSlug
    <2>2. CASE s \notin DOMAIN Overrides
      <3>1. Len(s) \in {2, 3} /\ s[2] \in STRING /\ (Len(s) = 3 => s[3] \in STRING)
        BY <1>1, <1>2, <2>2 DEF Parses
      <3> QED
        BY <2>2, <3>1 DEF parseSlug
    <2> QED
      BY <2>1, <2>2
  <1>3. CASE n = s
    BY <1>1, <1>3, EmptySeq
  <1>4. CASE Parses(s) /\ n = bareAlias(s)
    <2> DEFINE c == parseSlug(s).codename
               w == parseSlug(s).version
               d == parseSlug(s).modifier
    <2>1. n = IF c # Unset THEN <<c>> ELSE IF d # Unset THEN <<w, d>> ELSE <<w>>
      BY <1>4 DEF bareAlias
    <2>2. w \in STRING /\ (c # Unset => c \in STRING) /\ (d # Unset => d \in STRING)
      BY <1>2, <1>4
    <2> HIDE DEF c, w, d
    <2>3. CASE c # Unset
      BY <2>1, <2>2, <2>3
    <2>4. CASE c = Unset /\ d # Unset
      <3>1. n = <<w, d>> /\ d \in STRING
        BY <2>1, <2>2, <2>4
      <3> QED
        BY <2>2, <3>1, ShortNames
    <2>5. CASE c = Unset /\ d = Unset
      <3>1. n = <<w>>
        BY <2>1, <2>5
      <3> QED
        BY <2>2, <3>1, ShortNames
    <2> QED
      BY <2>3, <2>4, <2>5
  <1>5. CASE Parses(s) /\ hasPinned(s) /\ n = pinnedAlias(s)
    BY <1>2, <1>5 DEF hasPinned, pinnedAlias
  <1> QED
    BY <1>3, <1>4, <1>5 DEF NamesOf

\* An effort behind a name is taken off again.
LEMMA SuffixFacts ==
    ASSUME NEW S, NEW n \in Seq(S), Len(n) > 0, NEW t \in S, Known(t)
    PROVE  LET name == Append(n, t) IN
             /\ HasEffort(name) /\ Front(name) = n /\ name[Len(name)] = t
  <1> DEFINE name == Append(n, t)
  <1>1. /\ name \in Seq(S) /\ Len(name) = Len(n) + 1 /\ name[Len(n) + 1] = t
        /\ \A i \in 1..Len(n) : name[i] = n[i]
    BY AppendProperties
  <1> HIDE DEF name
  <1>2. HasEffort(name) /\ name[Len(name)] = t
    BY <1>1 DEF HasEffort
  <1>3. Front(name) = n
    BY <1>1 DEF Front
  <1> QED
    BY <1>2, <1>3 DEF name

-----------------------------------------------------------------------------
(* Rows *)

PlainRow(m, n) == [id |-> Compat(n), route |-> Codex(m.slug, Unset)]
VariantRow(m, n, t) == [id |-> Compat(Append(n, t)), route |-> Codex(m.slug, t)]
KnownEfforts(m) == {x \in m.efforts : Known(x)}

\* Every row that any catalog, registry and strategy could make of a model.
CodexRows(m) ==
    UNION {{PlainRow(m, n)} \cup {VariantRow(m, n, t) : t \in KnownEfforts(m)}
           : n \in NamesOf(m.slug)}

Rows == AnthropicRows \cup DeepSeekRows \cup UNION {CodexRows(m) : m \in Offered}

\* Decision d is what the row promised: the backend, the effort, the family and,
\* unless its name is a rolling one, the model.
Keeps(d, row) ==
    /\ d = Codex(d.slug, row.route.effort)
    /\ SameFamily(d.slug, row.route.slug)
    /\ Pinned(row) => d.slug = row.route.slug

\* Models that are offered, their names and their efforts.
LEMMA OfferedFacts ==
    ASSUME NEW m \in Offered, NEW n \in NamesOf(m.slug)
    PROVE  /\ m.slug \in Routable /\ n \in Seq(STRING) /\ Len(n) > 0
           /\ \A t \in KnownEfforts(m) : t \in STRING /\ Known(t) /\ t # Unset
           /\ \A t \in KnownEfforts(m) : Append(n, t) \in Variants
  <1>1. m.slug \in Routable
    BY DEF Routable, Slugs
  <1>2. n \in Seq(STRING) /\ Len(n) > 0
    BY <1>1, NamesTyped
  <1>3. m.efforts \subseteq STRING
    <2>1. \A k \in DOMAIN Lists : \A x \in Lists[k] : x.efforts \subseteq STRING
      BY CatalogAssumption
    <2> QED
      BY <2>1 DEF Offered
  <1>4. \A t \in KnownEfforts(m) : t \in STRING /\ Known(t) /\ t # Unset
    BY <1>3, RankFacts DEF KnownEfforts
  <1>5. \A t \in KnownEfforts(m) : Append(n, t) \in Variants
    BY DEF Variants, KnownEfforts
  <1> QED
    BY <1>1, <1>2, <1>4, <1>5

\* A row of a Codex model is a name of it, alone or with an effort.
LEMMA CodexRowForms ==
    ASSUME NEW m \in Offered, NEW row \in CodexRows(m)
    PROVE  \E n \in NamesOf(m.slug) :
              \/ row = PlainRow(m, n)
              \/ \E t \in KnownEfforts(m) : row = VariantRow(m, n, t)
  BY DEF CodexRows

\* Which kind of row it is shows in its route.
LEMMA RowKinds ==
    ASSUME NEW row \in Rows
    PROVE  /\ row.route.backend = "codex" => \E m \in Offered : row \in CodexRows(m)
           /\ row.route.backend = "deepseek" => row \in DeepSeekRows
           /\ row.route.backend = "anthropic" => row \in AnthropicRows
           /\ row.route.backend \in {"codex", "deepseek", "anthropic"}
           /\ row = [id |-> row.id, route |-> row.route]
  <1>1. CASE row \in AnthropicRows
    BY <1>1 DEF AnthropicRows, Anthropic
  <1>2. CASE row \in DeepSeekRows
    BY <1>2 DEF DeepSeekRows, DeepSeek
  <1>3. ASSUME NEW m \in Offered, row \in CodexRows(m)
        PROVE  row.route.backend = "codex" /\ row = [id |-> row.id, route |-> row.route]
    <2>1. PICK n \in NamesOf(m.slug) :
              \/ row = PlainRow(m, n)
              \/ \E t \in KnownEfforts(m) : row = VariantRow(m, n, t)
      BY <1>3, CodexRowForms
    <2>2. CASE row = PlainRow(m, n)
      BY <2>2 DEF PlainRow, Codex
    <2>3. ASSUME NEW t \in KnownEfforts(m), row = VariantRow(m, n, t)
          PROVE  row.route.backend = "codex" /\ row = [id |-> row.id, route |-> row.route]
      BY <2>3 DEF VariantRow, Codex
    <2> QED
      BY <2>1, <2>2, <2>3
  <1>4. CASE \E m \in Offered : row \in CodexRows(m)
    BY <1>3, <1>4
  <1> QED
    BY <1>1, <1>2, <1>4 DEF Rows

\* A decision for a model that goes by the row's name keeps the row's promise.
LEMMA NameKept ==
    ASSUME NEW row, NEW n, NEW r,
           row.id.name = n \/ row.id.name = Append(n, row.route.effort),
           \/ r = row.route.slug
           \/ /\ Parses(row.route.slug) /\ Parses(r)
              /\ bareAlias(row.route.slug) = n /\ bareAlias(r) = n
    PROVE  Keeps(Codex(r, row.route.effort), row)
  <1>1. SameFamily(r, row.route.slug) /\ (Pinned(row) => r = row.route.slug)
    BY DEF SameFamily, Pinned
  <1> QED
    BY <1>1 DEF Keeps, Codex

\* Two rows with one id mean the same, whatever catalogs they were made from.
LEMMA SameId ==
    ASSUME NEW m \in Offered, NEW row \in CodexRows(m), NEW k \in Offered, NEW other \in CodexRows(k),
           row.id = other.id
    PROVE  Keeps(other.route, row)
  <1>1. PICK n \in NamesOf(m.slug) :
              \/ row = PlainRow(m, n)
              \/ \E t \in KnownEfforts(m) : row = VariantRow(m, n, t)
    BY CodexRowForms
  <1>2. PICK x \in NamesOf(k.slug) :
              \/ other = PlainRow(k, x)
              \/ \E t \in KnownEfforts(k) : other = VariantRow(k, x, t)
    BY CodexRowForms
  <1>3. m.slug \in Routable /\ k.slug \in Routable
    BY OfferedFacts
  <1>4. ASSUME n = x
        PROVE  \/ k.slug = m.slug
               \/ /\ Parses(m.slug) /\ Parses(k.slug)
                  /\ bareAlias(m.slug) = n /\ bareAlias(k.slug) = n
    BY <1>3, <1>4, NamesApart
  <1>5. ASSUME row = PlainRow(m, n), other = PlainRow(k, x)
        PROVE  Keeps(other.route, row)
    <2>1. row.id.name = n /\ other.id.name = x /\ row.route = Codex(m.slug, Unset)
          /\ other.route = Codex(k.slug, Unset)
      BY <1>5 DEF PlainRow, Compat
    <2>2. n = x
      BY <2>1
    <2>3. row.route.effort = Unset /\ row.route.slug = m.slug
      BY <2>1 DEF Codex
    <2>4. Keeps(Codex(k.slug, row.route.effort), row)
      BY <1>4, <2>1, <2>2, <2>3, NameKept
    <2> QED
      BY <2>1, <2>3, <2>4
  <1>6. ASSUME row = PlainRow(m, n), NEW t \in KnownEfforts(k), other = VariantRow(k, x, t)
        PROVE  FALSE
    <2>1. row.id.name = n /\ other.id.name = Append(x, t)
      BY <1>6 DEF PlainRow, VariantRow, Compat
    <2>2. Append(x, t) \in Variants
      BY OfferedFacts
    <2> QED
      BY <1>3, <2>1, <2>2, NamesApart
  <1>7. ASSUME NEW t \in KnownEfforts(m), row = VariantRow(m, n, t), other = PlainRow(k, x)
        PROVE  FALSE
    <2>1. row.id.name = Append(n, t) /\ other.id.name = x
      BY <1>7 DEF PlainRow, VariantRow, Compat
    <2>2. Append(n, t) \in Variants
      BY OfferedFacts
    <2> QED
      BY <1>3, <2>1, <2>2, NamesApart
  <1>8. ASSUME NEW t \in KnownEfforts(m), row = VariantRow(m, n, t),
               NEW u \in KnownEfforts(k), other = VariantRow(k, x, u)
        PROVE  Keeps(other.route, row)
    <2>1. row.id.name = Append(n, t) /\ other.id.name = Append(x, u)
          /\ row.route = Codex(m.slug, t) /\ other.route = Codex(k.slug, u)
      BY <1>8 DEF VariantRow, Compat
    <2>2. n = x /\ t = u
      <3>1. Append(n, t) = Append(x, u)
        BY <2>1
      <3>2. Front(Append(n, t)) = n /\ Append(n, t)[Len(Append(n, t))] = t
        BY OfferedFacts, SuffixFacts
      <3>3. Front(Append(x, u)) = x /\ Append(x, u)[Len(Append(x, u))] = u
        BY OfferedFacts, SuffixFacts
      <3> QED
        BY <3>1, <3>2, <3>3, Zenon
    <2>3. row.route.effort = t /\ row.route.slug = m.slug
      BY <2>1 DEF Codex
    <2>4. Keeps(Codex(k.slug, row.route.effort), row)
      BY <1>4, <2>1, <2>2, <2>3, NameKept
    <2> QED
      BY <2>1, <2>2, <2>3, <2>4
  <1> QED
    BY <1>1, <1>2, <1>5, <1>6, <1>7, <1>8

\* resolveCodex finds a row's model without the picker tier, as long as the
\* registry has it.
LEMMA ResolveRow ==
    ASSUME loaded \in Registries, NEW m \in Offered, NEW row \in CodexRows(m),
           m.slug \in Slugs(loaded), row.id \notin DOMAIN picker
    PROVE  Keeps(ResolveWith(row.id), row)
  <1>1. PICK n \in NamesOf(m.slug) :
              \/ row = PlainRow(m, n)
              \/ \E t \in KnownEfforts(m) : row = VariantRow(m, n, t)
    BY CodexRowForms
  <1> DEFINE r == RegistryResolve(n)
  <1>2. /\ r \in Routable /\ r # NoSlug
        /\ \/ r = m.slug
           \/ Parses(m.slug) /\ Parses(r) /\ bareAlias(m.slug) = n /\ bareAlias(r) = n
    BY ResolveHit
  <1>3. m.slug \in Routable
    BY OfferedFacts
  <1>4. \A s, l : Codex(s, l) # NotFound
    BY DEF Codex, NotFound
  <1>5. row.id.compat /\ ResolveWith(row.id) =
          FirstFound(resolveDeepSeek(row.id.name), resolveCodex(row.id.name), resolveGPTSlug(row.id.name))
    BY <1>1 DEF ResolveWith, PlainRow, VariantRow, Compat
  <1> HIDE DEF r
  <1>6. CASE row = PlainRow(m, n)
    <2>1. row.id.name = n /\ row.route = Codex(m.slug, Unset)
      BY <1>6 DEF PlainRow, Compat
    <2>2. n \notin DeepSeekNames
      BY <1>3, NamesApart
    <2>3. resolveCodex(n) = Codex(r, Unset)
      BY <1>2 DEF resolveCodex, r
    <2>4. ResolveWith(row.id) = Codex(r, Unset)
      BY <1>4, <1>5, <2>1, <2>2, <2>3 DEF FirstFound, resolveDeepSeek
    <2>5. row.route.slug = m.slug /\ row.route.effort = Unset
      BY <2>1 DEF Codex
    <2>6. Keeps(Codex(r, row.route.effort), row)
      BY <1>2, <2>1, <2>5, NameKept
    <2> QED
      BY <2>4, <2>5, <2>6
  <1>7. ASSUME NEW t \in KnownEfforts(m), row = VariantRow(m, n, t)
        PROVE  Keeps(ResolveWith(row.id), row)
    <2> DEFINE name == Append(n, t)
    <2>1. row.id.name = name /\ row.route = Codex(m.slug, t)
      BY <1>7 DEF VariantRow, Compat
    <2>2. name \in Variants
      BY OfferedFacts
    <2>3. HasEffort(name) /\ Front(name) = n /\ name[Len(name)] = t
      BY OfferedFacts, SuffixFacts
    <2> HIDE DEF name
    <2>4. name \notin DeepSeekNames /\ \A s \in Routable : name \notin NamesOf(s)
      BY <2>2, NamesApart
    <2>5. RegistryResolve(name) = NoSlug
      BY <2>4, ResolveMiss
    <2>6. resolveCodex(name) = Codex(r, t)
      BY <1>2, <2>3, <2>5 DEF resolveCodex, r
    <2>7. ResolveWith(row.id) = Codex(r, t)
      BY <1>4, <1>5, <2>1, <2>4, <2>6 DEF FirstFound, resolveDeepSeek
    <2>8. row.route.slug = m.slug /\ row.route.effort = t
      BY <2>1 DEF Codex
    <2>9. Keeps(Codex(r, row.route.effort), row)
      BY <1>2, <2>1, <2>8, NameKept DEF name
    <2> QED
      BY <2>7, <2>8, <2>9
  <1> QED
    BY <1>1, <1>6, <1>7

-----------------------------------------------------------------------------
(* The inductive invariant *)

Places == {"idle", "load", "merge", "publish"}
Reads == 0..Len(Lists)
RowSets == SUBSET Rows

\* The registry only ever holds the seed or what some catalog lists; rows, in
\* hand, on their way or behind the picker tier, are rows that the assumptions
\* on names speak of.
RoutingInv ==
    /\ now \in 1..Len(Lists) /\ mem \in 0..Len(Lists)
    /\ loaded \in Registries
    /\ hand \subseteq Rows
    /\ pr \in [Procs -> [pc : Places, list : Reads, rows : RowSets]]
    /\ \A q \in Procs : pr[q].pc = "load" => pr[q].list # 0
    /\ \A i \in DOMAIN picker : [id |-> i, route |-> picker[i]] \in Rows \ AnthropicRows

\* codexRows makes no other row, whatever the registry and the strategy are.
LEMMA MadeRows ==
    ASSUME NEW k \in DOMAIN Lists
    PROVE  codexRows(Lists[k]) \subseteq Rows
  <1>1. \A slug : RowNames(slug) \subseteq NamesOf(slug)
    BY DEF RowNames, DerivedNames, NamesOf
  <1>2. \A m : RowsOf(m) \subseteq CodexRows(m)
    <2> SUFFICES ASSUME NEW m, NEW row \in RowsOf(m) PROVE row \in CodexRows(m)
      OBVIOUS
    <2>1. PICK n \in RowNames(m.slug) :
             \/ row = PlainRow(m, n)
             \/ \E t \in KnownEfforts(m) : row = VariantRow(m, n, t)
      BY DEF RowsOf, PlainRow, VariantRow, KnownEfforts
    <2> QED
      BY <1>1, <2>1 DEF CodexRows
  <1>3. \A row \in codexRows(Lists[k]) : \E m \in Lists[k] : m.listed /\ row \in RowsOf(m)
    BY DEF codexRows
  <1>4. \A m \in Lists[k] : m.listed => m \in Offered
    BY DEF Offered
  <1> QED
    BY <1>2, <1>3, <1>4 DEF Rows

\* Lists is a sequence that is not empty.
LEMMA ListsFacts == Len(Lists) \in Nat /\ Len(Lists) >= 1 /\ DOMAIN Lists = 1..Len(Lists)
  BY CatalogAssumption

\* SetPickerRoutes stores routes of rows only.
LEMMA RoutesFacts ==
    ASSUME NEW rows \in SUBSET Rows
    PROVE  \A i \in DOMAIN RoutesOf(rows) :
             [id |-> i, route |-> RoutesOf(rows)[i]] \in Rows \ AnthropicRows
  <1> DEFINE routed == rows \ AnthropicRows
  <1> SUFFICES ASSUME NEW i \in DOMAIN RoutesOf(rows)
               PROVE  [id |-> i, route |-> RoutesOf(rows)[i]] \in Rows \ AnthropicRows
    OBVIOUS
  <1>1. i \in {r.id : r \in routed}
    BY DEF RoutesOf
  <1> DEFINE r == CHOOSE r \in routed : r.id = i
  <1>2. r \in routed /\ r.id = i
    BY <1>1
  <1>3. RoutesOf(rows)[i] = r.route
    BY <1>1 DEF RoutesOf
  <1> HIDE DEF r
  <1>4. r = [id |-> r.id, route |-> r.route]
    BY <1>2, RowKinds
  <1>5. [id |-> i, route |-> RoutesOf(rows)[i]] = r
    BY <1>2, <1>3, <1>4
  <1> QED
    BY <1>2, <1>5

\* The invariant holds when the daemon starts.
LEMMA InitRouting == Init => RoutingInv
  <1> SUFFICES ASSUME Init PROVE RoutingInv
    OBVIOUS
  <1>1. now \in 1..Len(Lists) /\ mem \in 0..Len(Lists)
    BY ListsFacts DEF Init
  <1>2. loaded \in Registries /\ hand \subseteq Rows
    BY DEF Init, Registries
  <1>3. pr \in [Procs -> [pc : Places, list : Reads, rows : RowSets]]
    BY ListsFacts DEF Init, Resting, Places, Reads, RowSets
  <1>4. \A q \in Procs : pr[q].pc = "load" => pr[q].list # 0
    BY DEF Init, Resting
  <1>5. DOMAIN picker = {}
    BY DEF Init, NoRoutes
  <1> QED
    BY <1>1, <1>2, <1>3, <1>4, <1>5 DEF RoutingInv

\* Every step keeps it.
LEMMA NextRouting == RoutingInv /\ [Next]_vars => RoutingInv'
  <1> SUFFICES ASSUME RoutingInv, [Next]_vars PROVE RoutingInv'
    OBVIOUS
  <1> USE DEF RoutingInv
  <1> DEFINE Proc == [pc : Places, list : Reads, rows : RowSets]
  <1>r. Resting \in Proc /\ Resting.pc # "load"
    BY ListsFacts DEF Resting, Places, Reads, RowSets
  <1>1. ASSUME NEW q \in Procs, ReadCatalog(q) PROVE RoutingInv'
    <2> USE <1>1 DEF ReadCatalog
    <2>1. mem' \in 1..Len(Lists)
      BY ListsFacts
    <2>2. "load" \in Places /\ mem' \in Reads /\ pr' = [pr EXCEPT ![q].pc = "load", ![q].list = mem']
      BY <2>1, ListsFacts DEF Places, Reads
    <2>3. pr' \in [Procs -> Proc]
      BY <2>2
    <2>4. \A x \in Procs : pr'[x].list = IF x = q THEN mem' ELSE pr[x].list
      BY <2>2
    <2>5. \A x \in Procs : x # q => pr'[x] = pr[x]
      BY <2>2
    <2>6. \A x \in Procs : pr'[x].pc = "load" => pr'[x].list # 0
      BY <2>1, <2>4, <2>5
    <2> QED
      BY <2>1, <2>3, <2>6
  <1>2. ASSUME NEW q \in Procs, ReadFails(q) PROVE RoutingInv'
    <2> USE <1>2 DEF ReadFails
    <2>1. "merge" \in Places /\ 0 \in Reads
      BY ListsFacts DEF Places, Reads
    <2>2. pr' \in [Procs -> Proc]
      BY <2>1
    <2>3. \A x \in Procs : pr'[x].pc = IF x = q THEN "merge" ELSE pr[x].pc
      OBVIOUS
    <2>4. \A x \in Procs : x # q => pr'[x] = pr[x]
      OBVIOUS
    <2>5. \A x \in Procs : pr'[x].pc = "load" => pr'[x].list # 0
      BY <2>3, <2>4
    <2> QED
      BY <2>2, <2>5
  <1>3. ASSUME NEW q \in Procs, loadAliases(q) PROVE RoutingInv'
    <2> USE <1>3 DEF loadAliases
    <2>1. pr[q].list \in DOMAIN Lists
      BY ListsFacts DEF Reads
    <2>2. loaded' \in Registries
      BY <2>1 DEF Registries, LoadCatalog
    <2> DEFINE new == IF q \in Opens THEN [pr[q] EXCEPT !.pc = "merge"] ELSE Resting
    <2>3. pr' = [pr EXCEPT ![q] = new]
      OBVIOUS
    <2>4. new \in Proc /\ new.pc # "load"
      BY <1>r DEF Places
    <2> HIDE DEF new
    <2>5. pr' \in [Procs -> Proc] /\ \A x \in Procs : pr'[x].pc = "load" => pr'[x].list # 0
      BY <2>3, <2>4
    <2> QED
      BY <2>2, <2>5
  <1>4. ASSUME NEW q \in Procs, MergeRows(q) PROVE RoutingInv'
    <2> USE <1>4 DEF MergeRows
    <2> DEFINE made == AnthropicRows \cup DeepSeekRows \cup
                         (IF pr[q].list = 0 THEN {} ELSE codexRows(Lists[pr[q].list]))
    <2>1. made \subseteq Rows
      <3>1. CASE pr[q].list = 0
        BY <3>1 DEF Rows
      <3>2. CASE pr[q].list # 0
        <4>1. pr[q].list \in DOMAIN Lists
          BY <3>2, ListsFacts DEF Reads
        <4> QED
          BY <3>2, <4>1, MadeRows DEF Rows
      <3> QED
        BY <3>1, <3>2
    <2>2. "publish" \in Places /\ pr' = [pr EXCEPT ![q].pc = "publish", ![q].rows = made]
      BY DEF Places
    <2> HIDE DEF made
    <2>3. pr' \in [Procs -> Proc]
      <3>1. made \in RowSets
        BY <2>1 DEF RowSets
      <3> QED
        BY <2>2, <3>1
    <2>4. \A x \in Procs : pr'[x].pc = IF x = q THEN "publish" ELSE pr[x].pc
      BY <2>2
    <2>5. \A x \in Procs : x # q => pr'[x] = pr[x]
      BY <2>2
    <2>6. \A x \in Procs : pr'[x].pc = "load" => pr'[x].list # 0
      BY <2>4, <2>5
    <2> QED
      BY <2>3, <2>6
  <1>5. ASSUME NEW q \in Procs, SetPickerRoutes(q) PROVE RoutingInv'
    <2> USE <1>5 DEF SetPickerRoutes
    <2>1. pr[q].rows \in SUBSET Rows
      BY DEF RowSets
    <2>2. hand' \subseteq Rows
      BY <2>1
    <2>3. \A i \in DOMAIN picker' : [id |-> i, route |-> picker'[i]] \in Rows \ AnthropicRows
      BY <2>1, RoutesFacts
    <2>4. pr' \in [Procs -> Proc] /\ \A x \in Procs : pr'[x].pc = "load" => pr'[x].list # 0
      BY <1>r
    <2> QED
      BY <2>2, <2>3, <2>4
  <1>6. CASE Publish
    BY <1>6, ListsFacts DEF Publish
  <1>7. CASE Revalidate
    BY <1>7, ListsFacts DEF Revalidate
  <1>8. CASE Restart
    <2> USE <1>8 DEF Restart
    <2>1. pr' \in [Procs -> Proc] /\ \A x \in Procs : pr'[x].pc = "load" => pr'[x].list # 0
      BY <1>r
    <2>2. loaded' \in Registries /\ mem' \in 0..Len(Lists)
      BY ListsFacts DEF Registries
    <2>3. DOMAIN picker' = {}
      BY DEF NoRoutes
    <2> QED
      BY <2>1, <2>2, <2>3
  <1>9. CASE UNCHANGED vars
    BY <1>9 DEF vars
  <1> QED
    BY <1>1, <1>2, <1>3, <1>4, <1>5, <1>6, <1>7, <1>8, <1>9 DEF Next, Serve

-----------------------------------------------------------------------------
(* What the invariant implies *)

\* The picker tier, where it has a route for a row's id, has one that keeps the
\* row's promise.
LEMMA PickerKeeps ==
    ASSUME RoutingInv, NEW m \in Offered, NEW row \in CodexRows(m), row.id \in DOMAIN picker
    PROVE  Keeps(picker[row.id], row)
  <1> DEFINE other == [id |-> row.id, route |-> picker[row.id]]
  <1>1. other \in Rows \ AnthropicRows
    BY DEF RoutingInv
  <1>2. PICK n \in NamesOf(m.slug) :
              \/ row = PlainRow(m, n)
              \/ \E t \in KnownEfforts(m) : row = VariantRow(m, n, t)
    BY CodexRowForms
  <1>3. row.id.name \notin DeepSeekNames
    <2>1. CASE row = PlainRow(m, n)
      BY <2>1, OfferedFacts, NamesApart DEF PlainRow, Compat
    <2>2. ASSUME NEW t \in KnownEfforts(m), row = VariantRow(m, n, t)
          PROVE  row.id.name \notin DeepSeekNames
      BY <2>2, OfferedFacts, NamesApart DEF VariantRow, Compat
    <2> QED
      BY <1>2, <2>1, <2>2
  <1>4. other.id = row.id /\ other.route = picker[row.id]
    OBVIOUS
  <1> HIDE DEF other
  <1>5. other \notin DeepSeekRows
    BY <1>3, <1>4 DEF DeepSeekRows, Compat
  <1>6. PICK k \in Offered : other \in CodexRows(k)
    BY <1>1, <1>5 DEF Rows
  <1>7. Keeps(other.route, row)
    BY <1>4, <1>6, SameId
  <1> QED
    BY <1>4, <1>7

\* A row of a Codex model that the registry holds is resolved as it promised,
\* through the picker tier or without it.
LEMMA CodexRowKept ==
    ASSUME RoutingInv, NEW row \in hand, row.route.backend = "codex",
           row.route.slug \in Slugs(loaded)
    PROVE  Keeps(ResolveWith(row.id), row)
  <1>1. PICK m \in Offered : row \in CodexRows(m)
    BY RowKinds DEF RoutingInv
  <1>2. row.route.slug = m.slug
    <2>1. PICK n \in NamesOf(m.slug) :
              \/ row = PlainRow(m, n)
              \/ \E t \in KnownEfforts(m) : row = VariantRow(m, n, t)
      BY <1>1, CodexRowForms
    <2> QED
      BY <2>1 DEF PlainRow, VariantRow, Codex
  <1>3. CASE row.id \in DOMAIN picker
    <2>1. ResolveWith(row.id) = picker[row.id]
      BY <1>3 DEF ResolveWith
    <2> QED
      BY <1>1, <1>3, <2>1, PickerKeeps
  <1>4. CASE row.id \notin DOMAIN picker
    BY <1>1, <1>2, <1>4, ResolveRow DEF RoutingInv
  <1> QED
    BY <1>3, <1>4

\* A row of another provider is resolved to exactly its route.
LEMMA OtherRowKept ==
    ASSUME RoutingInv, NEW row \in hand, row.route.backend # "codex"
    PROVE  ResolveWith(row.id) = row.route
  <1>1. row \in Rows
    BY DEF RoutingInv
  <1>2. \A i \in DOMAIN picker :
           \/ \E x \in DeepSeekRows : i = x.id /\ picker[i] = x.route
           \/ \E m \in Offered : \E x \in CodexRows(m) : i = x.id
    <2> SUFFICES ASSUME NEW i \in DOMAIN picker
                 PROVE  \/ \E x \in DeepSeekRows : i = x.id /\ picker[i] = x.route
                        \/ \E m \in Offered : \E x \in CodexRows(m) : i = x.id
      OBVIOUS
    <2> DEFINE x == [id |-> i, route |-> picker[i]]
    <2>1. x \in Rows \ AnthropicRows /\ i = x.id /\ picker[i] = x.route
      BY DEF RoutingInv
    <2> HIDE DEF x
    <2> QED
      BY <2>1 DEF Rows
  <1>3. \A m \in Offered : \A x \in CodexRows(m) : x.id.compat /\ x.id.name \notin DeepSeekNames
    <2> SUFFICES ASSUME NEW m \in Offered, NEW x \in CodexRows(m)
                 PROVE  x.id.compat /\ x.id.name \notin DeepSeekNames
      OBVIOUS
    <2>1. PICK n \in NamesOf(m.slug) :
              \/ x = PlainRow(m, n)
              \/ \E t \in KnownEfforts(m) : x = VariantRow(m, n, t)
      BY CodexRowForms
    <2>2. CASE x = PlainRow(m, n)
      BY <2>2, OfferedFacts, NamesApart DEF PlainRow, Compat
    <2>3. ASSUME NEW t \in KnownEfforts(m), x = VariantRow(m, n, t)
          PROVE  x.id.compat /\ x.id.name \notin DeepSeekNames
      BY <2>3, OfferedFacts, NamesApart DEF VariantRow, Compat
    <2> QED
      BY <2>1, <2>2, <2>3
  <1>4. CASE row \in AnthropicRows
    <2>1. PICK n \in AnthropicNames : row = [id |-> Plain(n), route |-> Anthropic]
      BY <1>4 DEF AnthropicRows
    <2>2. row.id.compat = FALSE /\ row.id.name = n /\ row.route = Anthropic
      BY <2>1 DEF Plain
    <2>3. row.id \notin DOMAIN picker
      BY <1>2, <1>3, <2>2 DEF DeepSeekRows, Compat
    <2>4. isAnthropicName(row.id.name)
      BY <2>2, NamesApart
    <2> QED
      BY <2>2, <2>3, <2>4 DEF ResolveWith
  <1>5. CASE row \in DeepSeekRows
    <2>1. PICK n \in DeepSeekNames : row = [id |-> Compat(n), route |-> DeepSeek(n)]
      BY <1>5 DEF DeepSeekRows
    <2>2. row.id.compat = TRUE /\ row.id.name = n /\ row.route = DeepSeek(n)
      BY <2>1 DEF Compat
    <2>3. CASE row.id \in DOMAIN picker
      <3>1. PICK x \in DeepSeekRows : row.id = x.id /\ picker[row.id] = x.route
        BY <1>2, <1>3, <2>2, <2>3
      <3>2. x.route = DeepSeek(x.id.name)
        BY DEF DeepSeekRows, Compat
      <3> QED
        BY <2>2, <2>3, <3>1, <3>2 DEF ResolveWith
    <2>4. CASE row.id \notin DOMAIN picker
      <3>1. DeepSeek(n) # NotFound
        BY DEF DeepSeek, NotFound
      <3> QED
        BY <2>2, <2>4, <3>1 DEF ResolveWith, FirstFound, resolveDeepSeek
    <2> QED
      BY <2>3, <2>4
  <1> QED
    BY <1>1, <1>4, <1>5, RowKinds

\* The inductive invariant of registry, rows and picker tier.
THEOREM RoutingInvariant == Spec => []RoutingInv
  BY InitRouting, NextRouting, PTL DEF Spec

\* For any catalogs, overrides, strategies, goroutines and restarts whose names
\* are apart: a row goes on meaning what it meant when it was served, as long as
\* the registry holds its model.
THEOREM RoutingRowsKept == Spec => []RowsKeepRouting
  <1>1. RoutingInv => RowsKeepRouting
    <2> SUFFICES ASSUME RoutingInv, NEW row \in hand
                 PROVE  LET d == ResolveWith(row.id) IN
                          IF row.route.backend # "codex" THEN d = row.route
                          ELSE row.route.slug \in Slugs(loaded) =>
                                 /\ d.backend = "codex" /\ d.effort = row.route.effort
                                 /\ SameFamily(d.slug, row.route.slug)
                                 /\ Pinned(row) => d.slug = row.route.slug
      BY DEF RowsKeepRouting
    <2>1. CASE row.route.backend # "codex"
      BY <2>1, OtherRowKept
    <2>2. CASE row.route.backend = "codex"
      <3> SUFFICES ASSUME row.route.slug \in Slugs(loaded)
                   PROVE  LET d == ResolveWith(row.id) IN
                            /\ d.backend = "codex" /\ d.effort = row.route.effort
                            /\ SameFamily(d.slug, row.route.slug)
                            /\ Pinned(row) => d.slug = row.route.slug
        BY <2>2
      <3> DEFINE d == ResolveWith(row.id)
      <3>1. Keeps(d, row)
        BY <2>2, CodexRowKept
      <3> HIDE DEF d
      <3>2. \E s : d = Codex(s, row.route.effort)
        BY <3>1 DEF Keeps
      <3>3. d.backend = "codex" /\ d.effort = row.route.effort
        BY <3>2 DEF Codex
      <3> QED
        BY <3>1, <3>3 DEF Keeps, d
    <2> QED
      BY <2>1, <2>2
  <1> QED
    BY <1>1, RoutingInvariant, PTL

\* What the Codex leg sends: the name's effort, else the body's level, else the
\* catalog's default, clamped to what the model has.
LEMMA AppliedCodex ==
    ASSUME NEW slug, NEW e, NEW body, NEW model
    PROVE  AppliedEffort(Codex(slug, e), body, model) =
             Clamp(CASE e # Unset -> e
                     [] e = Unset /\ Known(body) -> body
                     [] OTHER -> model.default, model.efforts)
  <1> DEFINE d == Codex(slug, e)
             w == WithBodyEffort(d, body)
             asked == CASE e # Unset -> e
                        [] e = Unset /\ Known(body) -> body
                        [] OTHER -> model.default
  <1>1. d.backend = "codex" /\ d.effort = e
    BY DEF Codex
  <1>2. w.backend = "codex" /\ w.effort = IF e = Unset /\ Known(body) THEN body ELSE e
    BY DEF WithBodyEffort, Codex
  <1>3. AppliedEffort(d, body, model) = Clamp(chooseEffort(w, Unset, Unset, model.default), model.efforts)
    BY <1>2 DEF AppliedEffort, translateReasoning
  <1> HIDE DEF d, w
  <1>4. chooseEffort(w, Unset, Unset, model.default) = asked
    <2>1. chooseEffort(w, Unset, Unset, model.default) =
            IF w.effort # Unset THEN w.effort ELSE model.default
      BY ChosenEffort
    <2>2. Known(body) => body # Unset
      BY RankFacts
    <2> QED
      BY <1>2, <2>1, <2>2
  <1> QED
    BY <1>3, <1>4 DEF d

\* What the DeepSeek leg sends for a body.
LEMMA AppliedDeepSeek ==
    ASSUME NEW n, NEW body
    PROVE  AppliedEffort(DeepSeek(n), body, UnknownModel) =
             deepseekEffort(IF Known(body) THEN body ELSE Unset)
  <1> DEFINE d == DeepSeek(n)
             w == WithBodyEffort(d, body)
  <1>1. w.backend = "deepseek" /\ w.effort = IF Known(body) THEN body ELSE Unset
    BY DEF WithBodyEffort, DeepSeek
  <1>2. AppliedEffort(d, body, UnknownModel) = deepseekEffort(w.effort)
    BY <1>1 DEF AppliedEffort
  <1> QED
    BY <1>1, <1>2

\* The part of EffortHonoured about Codex rows.
LEMMA CodexEffortHonoured ==
    ASSUME RoutingInv, NEW row \in hand, row.route.backend = "codex",
           row.route.slug \in Slugs(loaded), NEW body, NEW model
    PROVE  LET sent == AppliedEffort(ResolveWith(row.id), body, model)
               asked == CASE row.route.effort # Unset -> row.route.effort
                          [] row.route.effort = Unset /\ Known(body) -> body
                          [] OTHER -> model.default
               has == {e \in model.efforts : Known(e)}
           IN IF asked \in model.efforts \cup {Unset} \/ has = {} THEN sent = asked
              ELSE /\ sent \in has
                   /\ \A e \in has : /\ Rank(e) <= Rank(asked) => Rank(e) <= Rank(sent)
                                    /\ Rank(sent) > Rank(asked) => Rank(sent) <= Rank(e)
  <1> DEFINE d == ResolveWith(row.id)
             asked == CASE row.route.effort # Unset -> row.route.effort
                        [] row.route.effort = Unset /\ Known(body) -> body
                        [] OTHER -> model.default
  <1>1. d = Codex(d.slug, row.route.effort)
    BY CodexRowKept DEF Keeps
  <1> HIDE DEF d
  <1>2. AppliedEffort(Codex(d.slug, row.route.effort), body, model) = Clamp(asked, model.efforts)
    BY AppliedCodex
  <1>3. AppliedEffort(d, body, model) = Clamp(asked, model.efforts)
    BY <1>1, <1>2
  <1> HIDE DEF asked
  <1> QED
    BY <1>3, ClampNearest DEF d, asked

\* For any catalogs and bodies: what a request for a row is sent with is what was
\* asked for or the nearest level the model has.
THEOREM RoutingEffortHonoured == Spec => []EffortHonoured
  <1>1. RoutingInv => EffortHonoured
    <2> SUFFICES ASSUME RoutingInv, NEW row \in hand
                 PROVE  LET d == ResolveWith(row.id) IN
        /\ row.route.backend = "codex" /\ row.route.slug \in Slugs(loaded) =>
             \A model \in catalogModel(d.slug), body \in Bodies :
                LET sent == AppliedEffort(d, body, model)
                    asked == CASE row.route.effort # Unset -> row.route.effort
                               [] row.route.effort = Unset /\ Known(body) -> body
                               [] OTHER -> model.default
                    has == {e \in model.efforts : Known(e)}
                IN IF asked \in model.efforts \cup {Unset} \/ has = {} THEN sent = asked
                   ELSE /\ sent \in has
                        /\ \A e \in has : /\ Rank(e) <= Rank(asked) => Rank(e) <= Rank(sent)
                                         /\ Rank(sent) > Rank(asked) => Rank(sent) <= Rank(e)
        /\ row.route.backend = "deepseek" =>
             \A less, more \in Bodies : Rank(less) <= Rank(more) =>
                Rank(AppliedEffort(d, less, UnknownModel))
                    <= Rank(AppliedEffort(d, more, UnknownModel))
      BY DEF EffortHonoured
    <2>1. ASSUME row.route.backend = "codex", row.route.slug \in Slugs(loaded),
                 NEW model \in catalogModel(ResolveWith(row.id).slug), NEW body \in Bodies
          PROVE  LET sent == AppliedEffort(ResolveWith(row.id), body, model)
                     asked == CASE row.route.effort # Unset -> row.route.effort
                                [] row.route.effort = Unset /\ Known(body) -> body
                                [] OTHER -> model.default
                     has == {e \in model.efforts : Known(e)}
                 IN IF asked \in model.efforts \cup {Unset} \/ has = {} THEN sent = asked
                    ELSE /\ sent \in has
                         /\ \A e \in has : /\ Rank(e) <= Rank(asked) => Rank(e) <= Rank(sent)
                                          /\ Rank(sent) > Rank(asked) => Rank(sent) <= Rank(e)
      BY <2>1, CodexEffortHonoured
    <2>2. ASSUME row.route.backend = "deepseek", NEW less \in Bodies, NEW more \in Bodies,
                 Rank(less) <= Rank(more)
          PROVE  Rank(AppliedEffort(ResolveWith(row.id), less, UnknownModel))
                    <= Rank(AppliedEffort(ResolveWith(row.id), more, UnknownModel))
      <3>1. row \in Rows
        BY DEF RoutingInv
      <3>2. row \in DeepSeekRows
        BY <2>2, <3>1, RowKinds
      <3>3. PICK n \in DeepSeekNames : row.route = DeepSeek(n)
        BY <3>2 DEF DeepSeekRows
      <3>4. ResolveWith(row.id) = DeepSeek(n)
        BY <2>2, <3>3, OtherRowKept
      <3> DEFINE level(b) == IF Known(b) THEN b ELSE Unset
      <3>5. \A b : Rank(level(b)) = Rank(b)
        BY LevelRanks
      <3>6. Rank(level(less)) <= Rank(level(more))
        BY <2>2, <3>5
      <3>7. Rank(deepseekEffort(level(less))) <= Rank(deepseekEffort(level(more)))
        <4> HIDE DEF level
        <4> QED
          BY <3>6, DeepSeekMonotone
      <3> QED
        BY <3>4, <3>7, AppliedDeepSeek
    <2> QED
      BY <2>1, <2>2
  <1> QED
    BY <1>1, RoutingInvariant, PTL

-----------------------------------------------------------------------------
(* Least and greatest.                                                     *)

\* The greatest of a bounded set is in it and bounds it.
LEMMA MaxIs ==
    ASSUME NEW n \in Nat, NEW S \in SUBSET (0..n), S # {}
    PROVE  Max(S) \in S /\ \A y \in S : y <= Max(S)
  <1> DEFINE T == {k \in Nat : n - k \in S}
  <1>0. \A y \in S : y \in Int /\ 0 <= y /\ y <= n
    OBVIOUS
  <1>1. T \subseteq Nat /\ T # {}
    <2>1. PICK y \in S : TRUE
      OBVIOUS
    <2>2. n - y \in Nat /\ n - (n - y) = y
      BY <1>0
    <2> QED
      BY <2>2
  <1>2. PICK m \in T : \A k \in T : m <= k
    BY <1>1, LeastNat
  <1>3. \A y \in S : n - m >= y
    <2> TAKE y \in S
    <2>1. y \in Int /\ n - y \in Nat /\ n - (n - y) = y
      BY <1>0
    <2>2. m <= n - y
      BY <1>2, <2>1
    <2> QED
      BY <2>1, <2>2, <1>2
  <1>4. n - m \in S
    BY <1>2
  <1>5. Max(S) \in S /\ \A y \in S : Max(S) >= y
    BY <1>3, <1>4 DEF Max
  <1> HIDE DEF T
  <1>6. Max(S) \in Int
    BY <1>0, <1>5
  <1> QED
    BY <1>0, <1>5, <1>6

\* The least of a set of numbers is in it and bounds it.
LEMMA MinIs ==
    ASSUME NEW S \in SUBSET Nat, S # {}
    PROVE  Min(S) \in S /\ \A y \in S : Min(S) <= y
  <1>1. PICK m \in S : \A k \in S : m <= k
    BY LeastNat
  <1> QED
    BY <1>1 DEF Min

\* How far runes of a kind go on from i.
LEMMA RunOfIs ==
    ASSUME NEW t \in Seq(Runes), NEW i \in 0..Len(t), NEW runes
    PROVE  /\ RunOf(t, i, runes) \in i..Len(t)
           /\ \A k \in i + 1..RunOf(t, i, runes) : t[k] \in runes
           /\ RunOf(t, i, runes) < Len(t) => t[RunOf(t, i, runes) + 1] \notin runes
  <1> DEFINE S == {j \in i..Len(t) : \A k \in i + 1..j : t[k] \in runes}
             e == Max(S)
  <1>1. Len(t) \in Nat /\ i \in S /\ S \in SUBSET (0..Len(t))
    OBVIOUS
  <1>2. e \in S /\ \A y \in S : y <= e
    <2> HIDE DEF S
    <2> QED
      BY <1>1, MaxIs
  <1>3. ASSUME e < Len(t), t[e + 1] \in runes PROVE FALSE
    <2>1. e \in Int /\ i <= e /\ e + 1 \in i..Len(t)
      BY <1>1, <1>2, <1>3
    <2>2. \A k \in i + 1..e + 1 : t[k] \in runes
      <3> TAKE k \in i + 1..e + 1
      <3>1. CASE k = e + 1
        BY <1>3, <3>1
      <3>2. CASE k # e + 1
        <4>1. k \in i + 1..e
          BY <2>1, <3>2
        <4> QED
          BY <1>2, <4>1
      <3> QED
        BY <3>1, <3>2
    <2>3. e + 1 \in S
      BY <2>1, <2>2
    <2> QED
      BY <1>2, <2>1, <2>3
  <1>4. RunOf(t, i, runes) = e
    BY DEF RunOf
  <1> QED
    BY <1>2, <1>3, <1>4

\* It is the only such end.
LEMMA RunOfUnique ==
    ASSUME NEW t \in Seq(Runes), NEW i \in 0..Len(t), NEW runes, NEW e \in i..Len(t),
           \A k \in i + 1..e : t[k] \in runes, e < Len(t) => t[e + 1] \notin runes
    PROVE  RunOf(t, i, runes) = e
  <1> DEFINE r == RunOf(t, i, runes)
  <1>1. /\ r \in i..Len(t)
        /\ \A k \in i + 1..r : t[k] \in runes
        /\ r < Len(t) => t[r + 1] \notin runes
    BY RunOfIs
  <1> HIDE DEF r
  <1>2. Len(t) \in Nat /\ r \in Int /\ e \in Int
    BY <1>1
  <1>3. ASSUME r < e PROVE FALSE
    <2>1. r + 1 \in i + 1..e /\ r < Len(t)
      BY <1>1, <1>2, <1>3
    <2> QED
      BY <1>1, <2>1
  <1>4. ASSUME e < r PROVE FALSE
    <2>1. e + 1 \in i + 1..r /\ e < Len(t)
      BY <1>1, <1>2, <1>4
    <2> QED
      BY <1>1, <2>1
  <1>5. r = e
    BY <1>2, <1>3, <1>4
  <1> QED
    BY <1>5 DEF r

-----------------------------------------------------------------------------
(* Runs.  Every rune belongs to a run of one class: a mark to that of the   *)
(* rune before it, or, at the start and after a digit, of the one after it. *)

RunClass(k) ==
    LET p == marksBefore(k) IN
    IF p > 0 /\ (p = k \/ classOf(text[p]) # "digit") THEN classOf(text[p])
    ELSE IF \E q \in k + 1..Len(text) :
               /\ classOf(text[q]) = "letter"
               /\ \A j \in k + 1..q - 1 : classOf(text[j]) = "mark"
         THEN "letter" ELSE "other"

\* Which runes have which class.
LEMMA ClassIs ==
    ASSUME NEW r \in Runes
    PROVE  /\ classOf(r) \in {"letter", "digit", "mark", "other"}
           /\ classOf(r) = "letter" <=> r \in Letters
           /\ classOf(r) = "digit" <=> r = "1"
           /\ classOf(r) = "mark" <=> r = "m"
           /\ classOf(r) = "other" <=> r \in {"'", "-", "sp", "n"}
  BY DEF Runes, classOf, Letters, Space

\* What marksBefore says: from there to k there are marks only, and before it none.
LEMMA MarksIs ==
    ASSUME text \in Seq(Runes), NEW k \in 0..Len(text)
    PROVE  /\ marksBefore(k) \in 0..k
           /\ \A j \in marksBefore(k) + 1..k : classOf(text[j]) = "mark"
           /\ marksBefore(k) > 0 => classOf(text[marksBefore(k)]) # "mark"
  <1> DEFINE S == {j \in 0..k : \A i \in j + 1..k : classOf(text[i]) = "mark"}
             p == Min(S)
  <1>1. k \in S /\ S \in SUBSET Nat
    OBVIOUS
  <1>2. p \in S /\ \A y \in S : p <= y
    <2> HIDE DEF S
    <2> QED
      BY <1>1, MinIs
  <1>3. ASSUME p > 0, classOf(text[p]) = "mark" PROVE FALSE
    <2>1. p \in Int /\ p - 1 \in 0..k
      BY <1>1, <1>2, <1>3
    <2>2. \A i \in (p - 1) + 1..k : classOf(text[i]) = "mark"
      <3> TAKE i \in (p - 1) + 1..k
      <3>1. i = p \/ i \in p + 1..k
        BY <2>1
      <3> QED
        BY <1>2, <1>3, <3>1
    <2>3. p - 1 \in S
      BY <2>1, <2>2
    <2> QED
      BY <1>2, <2>1, <2>3
  <1>4. marksBefore(k) = p
    BY DEF marksBefore
  <1> QED
    BY <1>2, <1>3, <1>4

\* It is the only such offset.
LEMMA MarksUnique ==
    ASSUME text \in Seq(Runes), NEW k \in 0..Len(text), NEW p \in 0..k,
           \A j \in p + 1..k : classOf(text[j]) = "mark",
           p > 0 => classOf(text[p]) # "mark"
    PROVE  marksBefore(k) = p
  <1> DEFINE q == marksBefore(k)
  <1>1. /\ q \in 0..k /\ \A j \in q + 1..k : classOf(text[j]) = "mark"
        /\ q > 0 => classOf(text[q]) # "mark"
    BY MarksIs
  <1> HIDE DEF q
  <1>2. ASSUME q < p PROVE FALSE
    <2>1. p \in q + 1..k /\ p > 0
      BY <1>1, <1>2
    <2> QED
      BY <1>1, <2>1
  <1>3. ASSUME p < q PROVE FALSE
    <2>1. q \in p + 1..k /\ q > 0
      BY <1>1, <1>3
    <2> QED
      BY <1>1, <2>1
  <1>4. q = p
    BY <1>1, <1>2, <1>3
  <1> QED
    BY <1>4 DEF q

\* A rune that is no mark decides for itself.
LEMMA RunClassPlain ==
    ASSUME text \in Seq(Runes), NEW k \in 1..Len(text), classOf(text[k]) # "mark"
    PROVE  RunClass(k) = classOf(text[k])
  <1>1. marksBefore(k) = k
    BY MarksUnique
  <1> QED
    BY <1>1 DEF RunClass

\* A rune that is no mark has the class of its run.
LEMMA RunClassIs ==
    ASSUME text \in Seq(Runes), NEW k \in 1..Len(text)
    PROVE  /\ RunClass(k) \in {"letter", "digit", "other"}
           /\ RunClass(k) = "digit" <=> classOf(text[k]) = "digit"
           /\ classOf(text[k]) \in {RunClass(k), "mark"}
  <1> DEFINE p == marksBefore(k)
  <1>1. /\ p \in 0..k
        /\ p > 0 => classOf(text[p]) # "mark"
        /\ \A j \in p + 1..k : classOf(text[j]) = "mark"
    BY MarksIs
  <1>2. p > 0 => classOf(text[p]) \in {"letter", "digit", "other"}
    <2>1. p > 0 => text[p] \in Runes
      BY <1>1
    <2> QED
      BY <1>1, <2>1, ClassIs
  <1>3. p = k \/ k \in p + 1..k
    BY <1>1
  <1>4. p \in Int /\ k \in Int /\ k > 0
    BY <1>1
  <1> HIDE DEF p
  <1>5. CASE p = k
    BY <1>5, <1>2, <1>4 DEF RunClass, p
  <1>6. CASE p # k
    <2>1. classOf(text[k]) = "mark"
      BY <1>1, <1>3, <1>6
    <2> QED
      BY <2>1, <1>2, <1>6 DEF RunClass, p
  <1> QED
    BY <1>5, <1>6

\* A mark goes with the rune before it.
LEMMA RunClassMark ==
    ASSUME text \in Seq(Runes), NEW k \in 2..Len(text), classOf(text[k]) = "mark",
           classOf(text[k - 1]) # "digit"
    PROVE  RunClass(k) = RunClass(k - 1)
  <1> DEFINE p == marksBefore(k - 1)
  <1>1. /\ p \in 0..k - 1
        /\ p > 0 => classOf(text[p]) # "mark"
        /\ \A j \in p + 1..k - 1 : classOf(text[j]) = "mark"
    <2>1. k - 1 \in 0..Len(text)
      OBVIOUS
    <2> HIDE DEF p
    <2> QED
      BY <2>1, MarksIs DEF p
  <1>2. marksBefore(k) = p
    <2>1. \A j \in p + 1..k : classOf(text[j]) = "mark"
      <3> TAKE j \in p + 1..k
      <3>1. j = k \/ j \in p + 1..k - 1
        BY <1>1
      <3> QED
        BY <1>1, <3>1
    <2>2. p \in 0..k /\ k \in 0..Len(text)
      BY <1>1
    <2> HIDE DEF p
    <2> QED
      BY <1>1, <2>1, <2>2, MarksUnique
  <1> DEFINE After(i) == \E q \in i + 1..Len(text) :
                            /\ classOf(text[q]) = "letter"
                            /\ \A j \in i + 1..q - 1 : classOf(text[j]) = "mark"
  <1>3. After(k) => After(k - 1)
    <2> SUFFICES ASSUME After(k) PROVE After(k - 1)
      OBVIOUS
    <2>1. PICK q \in k + 1..Len(text) : /\ classOf(text[q]) = "letter"
                                        /\ \A j \in k + 1..q - 1 : classOf(text[j]) = "mark"
      OBVIOUS
    <2>2. q \in (k - 1) + 1..Len(text) /\ \A j \in (k - 1) + 1..q - 1 : j = k \/ j \in k + 1..q - 1
      OBVIOUS
    <2> QED
      BY <2>1, <2>2
  <1>4. After(k - 1) => After(k)
    <2> SUFFICES ASSUME After(k - 1) PROVE After(k)
      OBVIOUS
    <2>1. PICK q \in (k - 1) + 1..Len(text) :
             /\ classOf(text[q]) = "letter"
             /\ \A j \in (k - 1) + 1..q - 1 : classOf(text[j]) = "mark"
      OBVIOUS
    <2>2. q # k
      BY <2>1
    <2>3. q \in k + 1..Len(text) /\ \A j \in k + 1..q - 1 : j \in (k - 1) + 1..q - 1
      BY <2>2
    <2> QED
      BY <2>1, <2>3
  <1>5. RunClass(k) = IF p > 0 /\ (p = k \/ classOf(text[p]) # "digit") THEN classOf(text[p])
                      ELSE IF After(k) THEN "letter" ELSE "other"
    BY <1>2 DEF RunClass
  <1>6. RunClass(k - 1) = IF p > 0 /\ (p = k - 1 \/ classOf(text[p]) # "digit") THEN classOf(text[p])
                          ELSE IF After(k - 1) THEN "letter" ELSE "other"
    BY DEF RunClass
  <1>7. p # k /\ (p = k - 1 => classOf(text[p]) # "digit")
    BY <1>1
  <1> HIDE DEF After, p
  <1> QED
    BY <1>3, <1>4, <1>5, <1>6, <1>7

\* Marks at the start or after a digit go with the letters after them, if letters follow.
LEMMA RunClassOpens ==
    ASSUME text \in Seq(Runes), NEW i \in 0..Len(text) - 1,
           i > 0 => classOf(text[i]) = "digit",
           NEW k \in i + 2..Len(text) + 1, \A j \in i + 1..k - 1 : classOf(text[j]) = "mark",
           k <= Len(text) => classOf(text[k]) # "mark"
    PROVE  RunClass(i + 1) = IF k <= Len(text) /\ classOf(text[k]) = "letter"
                             THEN "letter" ELSE "other"
  <1> DEFINE After == \E q \in (i + 1) + 1..Len(text) :
                            /\ classOf(text[q]) = "letter"
                            /\ \A j \in (i + 1) + 1..q - 1 : classOf(text[j]) = "mark"
  <1>1. marksBefore(i + 1) = i
    <2>1. i + 1 \in 0..Len(text) /\ i \in 0..i + 1 /\ \A j \in i + 1..i + 1 : j \in i + 1..k - 1
      OBVIOUS
    <2>2. i > 0 => classOf(text[i]) # "mark"
      OBVIOUS
    <2> QED
      BY <2>1, <2>2, MarksUnique
  <1>2. RunClass(i + 1) = IF After THEN "letter" ELSE "other"
    BY <1>1 DEF RunClass
  <1>3. CASE k <= Len(text) /\ classOf(text[k]) = "letter"
    <2>1. k \in (i + 1) + 1..Len(text) /\ \A j \in (i + 1) + 1..k - 1 : j \in i + 1..k - 1
      BY <1>3
    <2>2. After
      BY <1>3, <2>1
    <2> QED
      BY <1>2, <1>3, <2>2
  <1>4. CASE ~(k <= Len(text) /\ classOf(text[k]) = "letter")
    <2>1. ASSUME After PROVE FALSE
      <3>1. PICK q \in (i + 1) + 1..Len(text) :
               /\ classOf(text[q]) = "letter"
               /\ \A j \in (i + 1) + 1..q - 1 : classOf(text[j]) = "mark"
        BY <2>1
      <3>2. q \notin i + 1..k - 1
        BY <3>1
      <3>3. q > k
        BY <1>4, <3>1, <3>2
      <3>4. k \in (i + 1) + 1..q - 1 /\ k <= Len(text)
        BY <3>3
      <3> QED
        BY <3>1, <3>4
    <2> QED
      BY <1>2, <1>4, <2>1
  <1> QED
    BY <1>3, <1>4

\* Offsets at which no run goes on.
AtRun(i) == i = 0 \/ i = Len(text) \/ RunClass(i) # RunClass(i + 1)

OneRun(i, e) == \A k \in i + 1..e : RunClass(k) = RunClass(i + 1)

\* A run that opens with a mark follows a digit or nothing.
LEMMA OpensAfterDigit ==
    ASSUME text \in Seq(Runes), NEW i \in 0..Len(text) - 1, AtRun(i),
           classOf(text[i + 1]) = "mark", i > 0
    PROVE  classOf(text[i]) = "digit"
  <1> SUFFICES ASSUME classOf(text[i]) # "digit" PROVE FALSE
    OBVIOUS
  <1>1. i + 1 \in 2..Len(text) /\ (i + 1) - 1 = i
    OBVIOUS
  <1> DEFINE k == i + 1
  <1>2. k \in 2..Len(text) /\ classOf(text[k]) = "mark" /\ classOf(text[k - 1]) # "digit"
    BY <1>1
  <1> HIDE DEF k
  <1>3. RunClass(k) = RunClass(k - 1)
    BY <1>2, RunClassMark
  <1> QED
    BY <1>1, <1>3 DEF AtRun, k

\* Reading forwards, runEnd goes on with a rune just when it is of the same run.
LEMMA JoinsIs ==
    ASSUME text \in Seq(Runes), NEW i \in 0..Len(text) - 1, AtRun(i),
           NEW k \in i + 2..Len(text), OneRun(i, k - 1)
    PROVE  Joins(i, k) <=> RunClass(k) = RunClass(i + 1)
  <1> DEFINE c == classOf(text[k])
             d == RunClass(i + 1)
  <1>1. \A x : x \in classes(i, k) <=> x # "mark" /\ \E j \in i + 1..k - 1 : x = classOf(text[j])
    BY DEF classes
  <1>2. \A j \in i + 1..k - 1 : j \in 1..Len(text) /\ RunClass(j) = d /\ classOf(text[j]) \in {d, "mark"}
                               /\ (d = "digit" <=> classOf(text[j]) = "digit")
    <2> TAKE j \in i + 1..k - 1
    <2>1. j \in 1..Len(text) /\ RunClass(j) = d
      BY DEF OneRun
    <2> QED
      BY <2>1, RunClassIs
  <1>3. \A x \in classes(i, k) : x = d
    BY <1>1, <1>2
  <1>4. /\ i + 1 \in 1..Len(text) /\ k \in 1..Len(text) /\ i + 1 \in i + 1..k - 1 /\ k - 1 \in i + 1..k - 1
        /\ k \in 2..Len(text)
    OBVIOUS
  <1>5. /\ d \in {"letter", "digit", "other"}
        /\ RunClass(k) \in {"letter", "digit", "other"}
        /\ RunClass(k) = "digit" <=> c = "digit"
        /\ c \in {RunClass(k), "mark"}
    BY <1>4, RunClassIs
  <1>6. Joins(i, k) <=> IF c = "mark" THEN "digit" \notin classes(i, k)
                        ELSE /\ \A x \in classes(i, k) : x = c
                             /\ c = "digit" => \A j \in i + 1..k - 1 : classOf(text[j]) # "mark"
    BY DEF Joins
  <1>7. CASE c = "mark"
    <2>1. "digit" \in classes(i, k) <=> d = "digit"
      BY <1>1, <1>2, <1>4
    <2>2. CASE d = "digit"
      BY <1>5, <1>6, <1>7, <2>1, <2>2
    <2>3. CASE d # "digit"
      <3>1. classOf(text[k - 1]) # "digit" /\ RunClass(k - 1) = d
        BY <1>2, <1>4, <2>3
      <3>2. RunClass(k) = d
        BY <1>4, <1>7, <3>1, RunClassMark
      <3> QED
        BY <1>6, <1>7, <2>1, <2>3, <3>2
    <2> QED
      BY <2>2, <2>3
  <1>8. CASE c # "mark" /\ c = d
    <2>1. c = "digit" => \A j \in i + 1..k - 1 : classOf(text[j]) # "mark"
      BY <1>2, <1>8
    <2> QED
      BY <1>3, <1>5, <1>6, <1>8, <2>1
  <1>9. CASE c # "mark" /\ c # d
    <2>1. ASSUME Joins(i, k) PROVE FALSE
      <3>1. classes(i, k) = {}
        BY <1>3, <1>6, <1>9, <2>1
      <3>2. \A j \in i + 1..k - 1 : classOf(text[j]) = "mark"
        BY <1>1, <3>1
      <3>3. c # "digit"
        BY <1>4, <1>6, <1>9, <2>1, <3>2
      <3>4. i > 0 => classOf(text[i]) = "digit"
        BY <1>4, <3>2, OpensAfterDigit
      <3>5. d = IF k <= Len(text) /\ c = "letter" THEN "letter" ELSE "other"
        <4>1. k \in i + 2..Len(text) + 1
          OBVIOUS
        <4> QED
          BY <1>9, <3>2, <3>4, <4>1, RunClassOpens
      <3> QED
        BY <1>5, <1>9, <3>3, <3>5
    <2> QED
      BY <1>5, <1>9, <2>1
  <1> QED
    BY <1>7, <1>8, <1>9

\* Forward from an offset between two runs, runEnd finds the end and the class
\* of the run there.
LEMMA RunEndIs ==
    ASSUME text \in Seq(Runes), NEW i \in 0..Len(text) - 1, AtRun(i)
    PROVE  /\ runEnd(i).end \in i + 1..Len(text)
           /\ runEnd(i).class = RunClass(i + 1)
           /\ OneRun(i, runEnd(i).end)
           /\ AtRun(runEnd(i).end)
  <1> DEFINE S == {e \in i..Len(text) : \A k \in i + 1..e : Joins(i, k)}
             e == Max(S)
             d == RunClass(i + 1)
  <1>1. Len(text) \in Nat /\ i + 1 \in 1..Len(text)
    OBVIOUS
  <1>2. i + 1 \in S
    <2>1. classes(i, i + 1) = {}
      BY DEF classes
    <2>2. \A j \in i + 1..(i + 1) - 1 : FALSE
      OBVIOUS
    <2>3. Joins(i, i + 1)
      BY <2>1, <2>2 DEF Joins
    <2>4. \A k \in i + 1..i + 1 : k = i + 1
      OBVIOUS
    <2> QED
      BY <1>1, <2>3, <2>4
  <1>3. e \in S /\ \A y \in S : y <= e
    <2>1. S \in SUBSET (0..Len(text)) /\ S # {}
      BY <1>2
    <2> HIDE DEF S
    <2> QED
      BY <1>1, <2>1, MaxIs
  <1>4. e \in i + 1..Len(text) /\ \A k \in i + 1..e : Joins(i, k)
    BY <1>2, <1>3
  <1>5. \A y \in i + 1..Len(text) : (\A k \in i + 1..y : Joins(i, k)) => y <= e
    BY <1>3
  <1>6. runEnd(i) = [class |-> IF classes(i, e + 1) = {} THEN "other"
                               ELSE CHOOSE x \in classes(i, e + 1) : TRUE, end |-> e]
    BY DEF runEnd
  <1> HIDE DEF S, e
  <1>7. OneRun(i, e)
    <2> SUFFICES ASSUME NEW x \in i + 1..e, RunClass(x) # d PROVE FALSE
      BY DEF OneRun
    <2> DEFINE W == {k \in Nat : k \in i + 1..e /\ RunClass(k) # d}
    <2>1. W \subseteq Nat /\ W # {}
      BY <1>4
    <2>2. PICK k \in W : \A y \in W : k <= y
      BY <2>1, LeastNat
    <2>3. k \in i + 2..Len(text) /\ k \in i + 1..e
      BY <1>4, <2>2
    <2>4. OneRun(i, k - 1)
      <3> SUFFICES ASSUME NEW y \in i + 1..k - 1 PROVE RunClass(y) = d
        BY DEF OneRun
      <3>1. y \in Nat /\ y \in i + 1..e /\ ~(k <= y)
        BY <1>4, <2>3
      <3> QED
        BY <2>2, <3>1
    <2> QED
      BY <1>4, <2>2, <2>3, <2>4, JoinsIs
  <1>8. AtRun(e)
    <2> SUFFICES ASSUME e < Len(text), RunClass(e) = RunClass(e + 1) PROVE FALSE
      BY <1>4 DEF AtRun
    <2> DEFINE k == e + 1
    <2>1. k \in i + 2..Len(text) /\ k - 1 = e /\ e \in i + 1..e /\ k \in i + 1..Len(text) /\ ~(k <= e)
      BY <1>4
    <2>2. RunClass(k) = d
      BY <1>7, <2>1 DEF OneRun
    <2>3. OneRun(i, k - 1)
      BY <1>7, <2>1
    <2>4. \A y \in i + 1..k : y \in i + 1..e \/ y = k
      BY <1>4
    <2> HIDE DEF k
    <2>5. Joins(i, k)
      BY <2>1, <2>2, <2>3, JoinsIs
    <2>6. \A y \in i + 1..k : Joins(i, y)
      BY <1>4, <2>4, <2>5
    <2> QED
      BY <1>5, <2>1, <2>6
  <1>9. runEnd(i).class = d
    <2>1. \A x : x \in classes(i, e + 1)
                   <=> x # "mark" /\ \E j \in i + 1..e : x = classOf(text[j])
      <3>1. (e + 1) - 1 = e
        BY <1>4
      <3> QED
        BY <3>1 DEF classes
    <2>2. \A j \in i + 1..e : classOf(text[j]) \in {d, "mark"}
      <3> TAKE j \in i + 1..e
      <3>1. j \in 1..Len(text) /\ RunClass(j) = d
        BY <1>4, <1>7 DEF OneRun
      <3> QED
        BY <3>1, RunClassIs
    <2>3. CASE classes(i, e + 1) # {}
      <3>1. (CHOOSE x \in classes(i, e + 1) : TRUE) \in classes(i, e + 1)
        BY <2>3
      <3> QED
        BY <1>6, <2>1, <2>2, <2>3, <3>1
    <2>4. CASE classes(i, e + 1) = {}
      <3>1. \A j \in i + 1..e : classOf(text[j]) = "mark"
        BY <2>1, <2>4
      <3>2. i + 1 \in i + 1..e /\ e \in i + 1..e /\ e \in 1..Len(text)
        BY <1>4
      <3>3. i > 0 => classOf(text[i]) = "digit"
        BY <3>1, <3>2, OpensAfterDigit
      <3>4. ASSUME e < Len(text) PROVE /\ classOf(text[e + 1]) # "mark"
                                       /\ classOf(text[e + 1]) # "letter"
        <4>1. RunClass(e) # RunClass(e + 1)
          BY <1>4, <1>8, <3>4 DEF AtRun
        <4> DEFINE k == e + 1
        <4>2. k \in 2..Len(text) /\ k - 1 = e /\ k \in 1..Len(text)
          BY <1>4, <3>4
        <4>3. RunClass(e) = d
          BY <1>7, <3>2 DEF OneRun
        <4>a. \A j \in i + 1..k - 1 : classOf(text[j]) = "mark"
          BY <3>1, <4>2
        <4>b. k \in i + 2..Len(text) + 1 /\ k <= Len(text)
          BY <1>4, <4>2
        <4>c. RunClass(e) # RunClass(k)
          BY <4>1
        <4> HIDE DEF k
        <4>4. classOf(text[k]) # "mark"
          BY <3>1, <3>2, <4>2, <4>c, RunClassMark
        <4>5. ASSUME classOf(text[k]) = "letter" PROVE FALSE
          <5>1. d = "letter"
            BY <3>3, <4>a, <4>b, <4>4, <4>5, RunClassOpens
          <5>2. RunClass(k) = "letter"
            BY <4>2, <4>4, <4>5, RunClassPlain
          <5> QED
            BY <4>3, <4>c, <5>1, <5>2
        <4> QED
          BY <4>4, <4>5 DEF k
      <3>5. d = "other"
        <4> DEFINE k == e + 1
        <4>1. k \in i + 2..Len(text) + 1 /\ (k <= Len(text) <=> e < Len(text))
          BY <1>4
        <4>2. \A j \in i + 1..k - 1 : classOf(text[j]) = "mark"
          BY <1>4, <3>1
        <4>3. k <= Len(text) => classOf(text[k]) # "mark" /\ classOf(text[k]) # "letter"
          BY <3>4, <4>1
        <4> HIDE DEF k
        <4> QED
          BY <3>3, <4>1, <4>2, <4>3, RunClassOpens
      <3> QED
        BY <1>6, <2>4, <3>5
    <2> QED
      BY <2>3, <2>4
  <1> QED
    BY <1>4, <1>6, <1>7, <1>8, <1>9

\* Reading backwards, prevRun goes on with a rune just when it is of the same run.
LEMMA OursIs ==
    ASSUME text \in Seq(Runes), NEW p \in 1..Len(text), NEW c, c = classOf(text[p]), c # "mark",
           NEW k \in 1..p - 1, \A j \in k + 1..p : RunClass(j) = c
    PROVE  Ours(c, k) <=> RunClass(k) = c
  <1> DEFINE d == classOf(text[k])
             q == marksBefore(k)
             After == \E x \in k + 1..Len(text) :
                         /\ classOf(text[x]) = "letter"
                         /\ \A j \in k + 1..x - 1 : classOf(text[j]) = "mark"
  <1>1. k \in 1..Len(text) /\ k \in 0..Len(text)
    OBVIOUS
  <1>2. /\ q \in 0..k
        /\ \A j \in q + 1..k : classOf(text[j]) = "mark"
        /\ q > 0 => classOf(text[q]) # "mark"
    BY <1>1, MarksIs
  <1>3. Ours(c, k) <=> d = c \/ (d = "mark" /\ c # "digit"
                                   /\ (q = 0 \/ classOf(text[q]) \in {c, "digit"}))
    BY DEF Ours
  <1>4. RunClass(k) = IF q > 0 /\ (q = k \/ classOf(text[q]) # "digit") THEN classOf(text[q])
                      ELSE IF After THEN "letter" ELSE "other"
    BY DEF RunClass
  <1>5. /\ RunClass(k) \in {"letter", "digit", "other"}
        /\ RunClass(k) = "digit" <=> d = "digit"
    BY <1>1, RunClassIs
  <1>6. c \in {"letter", "digit", "other"}
    <2>1. p \in 1..Len(text) /\ text[p] \in Runes
      OBVIOUS
    <2> QED
      BY <2>1, ClassIs
  <1>7. CASE d # "mark"
    BY <1>1, <1>3, <1>7, RunClassPlain
  <1>8. CASE d = "mark"
    <2>1. q # k
      BY <1>2, <1>8
    <2>2. CASE q > 0 /\ classOf(text[q]) # "digit"
      <3> HIDE DEF d, q, After
      <3> QED
        BY <1>3, <1>4, <1>8, <2>1, <2>2, <1>6
    <2>3. CASE ~(q > 0 /\ classOf(text[q]) # "digit")
      <3>1. Ours(c, k) <=> c # "digit"
        <4>1. q = 0 \/ classOf(text[q]) = "digit"
          BY <1>2, <2>3
        <4> HIDE DEF d, q
        <4> QED
          BY <1>3, <1>6, <1>8, <4>1
      <3>2. RunClass(k) = IF After THEN "letter" ELSE "other"
        <4> HIDE DEF q, After
        <4> QED
          BY <1>4, <2>1, <2>3
      <3> DEFINE W == {x \in Nat : x \in k + 1..p /\ classOf(text[x]) # "mark"}
      <3>3. W \subseteq Nat /\ p \in W
        OBVIOUS
      <3>4. PICK m \in W : \A y \in W : m <= y
        <4> HIDE DEF W
        <4> QED
          BY <3>3, LeastNat
      <3>5. /\ m \in k + 1..p /\ m \in 1..Len(text)
            /\ classOf(text[m]) # "mark"
        BY <3>4
      <3>6. \A j \in k + 1..m - 1 : classOf(text[j]) = "mark"
        <4> TAKE j \in k + 1..m - 1
        <4>1. j \in Nat /\ j \in k + 1..p /\ ~(m <= j)
          BY <3>5
        <4>2. j \notin W
          BY <3>4, <4>1
        <4> QED
          BY <4>1, <4>2
      <3>7. classOf(text[m]) = c
        BY <3>5, RunClassPlain
      <3>8. CASE c = "letter"
        <4>1. After
          BY <3>5, <3>6, <3>7, <3>8
        <4> QED
          BY <3>1, <3>2, <3>8, <4>1
      <3>9. CASE c = "other"
        <4>1. ASSUME After PROVE FALSE
          <5>1. PICK x \in k + 1..Len(text) :
                         /\ classOf(text[x]) = "letter"
                         /\ \A j \in k + 1..x - 1 : classOf(text[j]) = "mark"
            BY <4>1
          <5>2. x # m /\ x \notin k + 1..m - 1 /\ m \notin k + 1..x - 1
            BY <3>5, <3>6, <3>7, <3>9, <5>1
          <5> QED
            BY <3>5, <5>2
        <4> HIDE DEF After
        <4> QED
          BY <3>1, <3>2, <3>9, <4>1
      <3> HIDE DEF After
      <3> QED
        BY <1>5, <1>6, <1>8, <3>1, <3>8, <3>9
    <2> QED
      BY <2>2, <2>3
  <1> QED
    BY <1>7, <1>8

\* Back from an offset between two runs, prevRun finds the run that ends there.
LEMMA PrevRunIs ==
    ASSUME text \in Seq(Runes), NEW e \in 1..Len(text), AtRun(e)
    PROVE  /\ prevRun(e).start \in 0..e - 1
           /\ prevRun(e).class = RunClass(e)
           /\ \A k \in prevRun(e).start + 1..e : RunClass(k) = RunClass(e)
           /\ AtRun(prevRun(e).start)
  <1> DEFINE p == marksBefore(e)
             c == classOf(text[p])
  <1>1. /\ p \in 0..e
        /\ \A j \in p + 1..e : classOf(text[j]) = "mark"
        /\ p > 0 => c # "mark"
    <2>1. e \in 0..Len(text)
      OBVIOUS
    <2> QED
      BY <2>1, MarksIs
  <1>2. \A k \in p + 1..e : marksBefore(k) = p
    <2> TAKE k \in p + 1..e
    <2>1. k \in 0..Len(text) /\ p \in 0..k /\ \A j \in p + 1..k : j \in p + 1..e
      BY <1>1
    <2> HIDE DEF p
    <2> QED
      BY <1>1, <2>1, MarksUnique
  <1>3. CASE p = 0 \/ (p > 0 /\ p < e /\ c = "digit")
    <2>1. prevRun(e) = [class |-> "other", start |-> p]
      <3>1. p # 0 => p > 0
        BY <1>1
      <3> QED
        BY <1>3, <3>1 DEF prevRun
    <2>2. p < e
      BY <1>1, <1>3
    <2> DEFINE After(k) == \E q \in k + 1..Len(text) :
                              /\ classOf(text[q]) = "letter"
                              /\ \A j \in k + 1..q - 1 : classOf(text[j]) = "mark"
    <2>3. \A k \in p + 1..e : RunClass(k) = IF After(k) THEN "letter" ELSE "other"
      <3> TAKE k \in p + 1..e
      <3>1. marksBefore(k) = p /\ p # k
        BY <1>1, <1>2
      <3>2. RunClass(k) = IF p > 0 /\ (p = k \/ c # "digit") THEN c
                          ELSE IF After(k) THEN "letter" ELSE "other"
        BY <3>1 DEF RunClass
      <3>3. ~(p > 0 /\ (p = k \/ c # "digit"))
        BY <1>1, <1>3, <3>1
      <3> HIDE DEF p, After
      <3> QED
        BY <3>2, <3>3
    <2> HIDE DEF p
    <2>4. e \in p + 1..e
      BY <1>1, <2>2
    <2>5. ASSUME e < Len(text) PROVE classOf(text[e + 1]) \notin {"mark", "letter"}
      <3> DEFINE k == e + 1
      <3>1. k \in 2..Len(text) /\ k - 1 = e /\ k \in 1..Len(text)
        BY <2>5
      <3>2. RunClass(e) # RunClass(k)
        BY <2>5 DEF AtRun
      <3> HIDE DEF k
      <3>3. classOf(text[k]) # "mark"
        <4>1. classOf(text[e]) = "mark"
          BY <1>1, <2>4
        <4> QED
          BY <3>1, <3>2, <4>1, RunClassMark
      <3>4. ASSUME classOf(text[k]) = "letter" PROVE FALSE
        <4>1. RunClass(k) = "letter"
          BY <3>1, <3>4, RunClassPlain
        <4>2. k \in e + 1..Len(text) /\ \A j \in e + 1..k - 1 : FALSE
          BY <3>1
        <4>3. After(e)
          BY <3>4, <4>2
        <4> QED
          BY <2>3, <2>4, <3>2, <4>1, <4>3
      <3> QED
        BY <3>3, <3>4 DEF k
    <2>6. \A k \in p + 1..e : ~After(k)
      <3> SUFFICES ASSUME NEW k \in p + 1..e, NEW q \in k + 1..Len(text),
                          classOf(text[q]) = "letter",
                          \A j \in k + 1..q - 1 : classOf(text[j]) = "mark"
                   PROVE FALSE
        OBVIOUS
      <3>1. q \notin p + 1..e
        BY <1>1
      <3>2. q > e /\ e < Len(text)
        BY <1>1, <3>1
      <3>3. q = e + 1 \/ e + 1 \in k + 1..q - 1
        BY <1>1, <3>2
      <3> QED
        BY <2>5, <3>2, <3>3
    <2> HIDE DEF After
    <2>7. \A k \in p + 1..e : RunClass(k) = "other"
      BY <2>3, <2>6
    <2>8. AtRun(p)
      <3>1. CASE p = 0
        BY <3>1 DEF AtRun
      <3>2. CASE p # 0
        <4>1. p \in 1..Len(text) /\ classOf(text[p]) = "digit" /\ p + 1 \in p + 1..e
          BY <1>1, <1>3, <2>2, <3>2
        <4>2. RunClass(p) = "digit"
          BY <4>1, RunClassPlain
        <4>3. RunClass(p + 1) = "other"
          BY <2>7, <4>1
        <4> QED
          BY <4>2, <4>3 DEF AtRun
      <3> QED
        BY <3>1, <3>2
    <2>9. p \in 0..e - 1
      BY <1>1, <2>2
    <2> QED
      BY <2>1, <2>4, <2>7, <2>8, <2>9
  <1>4. CASE ~(p = 0 \/ (p > 0 /\ p < e /\ c = "digit"))
    <2> DEFINE S == {j \in 0..p - 1 : \A k \in j + 1..p - 1 : Ours(c, k)}
               m == Min(S)
    <2>1. p \in 1..e /\ p \in 1..Len(text) /\ (p = e \/ c # "digit") /\ c # "mark"
      BY <1>1, <1>4
    <2>2. prevRun(e) = [class |-> c, start |-> m]
      <3>1. Reach(c, p - 1) = m
        BY DEF Reach
      <3> QED
        BY <1>4, <3>1 DEF prevRun
    <2>3. \A k \in p..e : RunClass(k) = c
      <3> TAKE k \in p..e
      <3>1. CASE k = p
        <4> HIDE DEF p
        <4> QED
          BY <2>1, <3>1, RunClassPlain
      <3>2. CASE k # p
        <4>1. k \in p + 1..e
          BY <2>1, <3>2
        <4>2. marksBefore(k) = p /\ p # e /\ p > 0
          BY <1>1, <1>2, <2>1, <4>1
        <4>3. c # "digit"
          BY <2>1, <4>2
        <4> QED
          BY <4>2, <4>3 DEF RunClass
      <3> QED
        BY <3>1, <3>2
    <2>4. m \in S /\ \A y \in S : m <= y
      <3>1. p - 1 \in S /\ S \in SUBSET Nat
        BY <2>1
      <3> HIDE DEF S
      <3> QED
        BY <3>1, MinIs
    <2>5. m \in 0..p - 1 /\ \A k \in m + 1..p - 1 : Ours(c, k)
      BY <2>4
    <2>6. \A y \in 0..p - 1 : (\A k \in y + 1..p - 1 : Ours(c, k)) => m <= y
      BY <2>4
    <2> HIDE DEF S, m
    <2>7. \A k \in m + 1..p - 1 : RunClass(k) = c
      <3> SUFFICES ASSUME NEW x \in m + 1..p - 1, RunClass(x) # c PROVE FALSE
        OBVIOUS
      <3> DEFINE W == {k \in 0..Len(text) : k \in m + 1..p - 1 /\ RunClass(k) # c}
                 k == Max(W)
      <3>1. W \in SUBSET (0..Len(text)) /\ x \in W /\ Len(text) \in Nat
        BY <2>1, <2>5
      <3>2. k \in W /\ \A y \in W : y <= k
        <4> HIDE DEF W
        <4> QED
          BY <3>1, MaxIs
      <3>3. k \in m + 1..p - 1 /\ k \in 1..p - 1 /\ RunClass(k) # c
        BY <2>5, <3>2
      <3>4. \A y \in m + 1..p - 1 : y > k => RunClass(y) = c
        <4> SUFFICES ASSUME NEW y \in m + 1..p - 1, y > k, RunClass(y) # c PROVE FALSE
          OBVIOUS
        <4>1. y \in 0..Len(text)
          BY <2>1, <2>5
        <4>2. y \in W
          BY <4>1
        <4>3. y <= k /\ k \in Int /\ y \in Int
          BY <3>2, <3>3, <4>2
        <4> QED
          BY <4>3
      <3> HIDE DEF W, k
      <3>5. \A j \in k + 1..p : RunClass(j) = c
        <4> TAKE j \in k + 1..p
        <4>1. CASE j = p
          <5>1. p \in p..e
            BY <2>1
          <5> QED
            BY <2>3, <4>1, <5>1
        <4>2. CASE j # p
          <5>1. j \in m + 1..p - 1 /\ j > k
            BY <2>1, <2>5, <3>3, <4>2
          <5> QED
            BY <3>4, <5>1
        <4> QED
          BY <4>1, <4>2
      <3>6. Ours(c, k)
        BY <2>5, <3>3
      <3> HIDE DEF p
      <3> QED
        BY <2>1, <3>3, <3>5, <3>6, OursIs
    <2>8. \A k \in m + 1..e : RunClass(k) = c
      <3> TAKE k \in m + 1..e
      <3>1. k \in m + 1..p - 1 \/ k \in p..e
        BY <2>1, <2>5
      <3> QED
        BY <2>3, <2>7, <3>1
    <2>9. AtRun(m)
      <3> SUFFICES ASSUME m # 0, RunClass(m) = RunClass(m + 1) PROVE FALSE
        BY DEF AtRun
      <3>1. m \in 1..p - 1 /\ m + 1 \in m + 1..e /\ m - 1 \in 0..p - 1 /\ ~(m <= m - 1)
        BY <2>1, <2>5
      <3>2. RunClass(m) = c
        BY <2>8, <3>1
      <3>3. \A j \in m + 1..p : j \in m + 1..e
        BY <2>1
      <3>4. \A j \in m + 1..p : RunClass(j) = c
        BY <2>8, <3>3
      <3>5. \A j \in (m - 1) + 1..p - 1 : j = m \/ j \in m + 1..p - 1
        BY <3>1
      <3> HIDE DEF p
      <3>6. Ours(c, m)
        BY <2>1, <3>1, <3>2, <3>4, OursIs
      <3> QED
        BY <2>5, <2>6, <3>1, <3>5, <3>6
    <2>10. m \in 0..e - 1 /\ e \in m + 1..e
      BY <2>1, <2>5
    <2> HIDE DEF p
    <2> QED
      BY <2>2, <2>8, <2>9, <2>10
  <1> QED
    BY <1>3, <1>4

-----------------------------------------------------------------------------
(* Pieces.  What a piece of the split regex may look like, whatever it is a *)
(* match of: a word, at most one rune before it and a contraction after it; *)
(* digits; or runes that are neither letters nor digits, a mark not first.  *)

Word(t, b, c) == \A k \in b + 1..c : t[k] \in Upper \cup Lower

Contracted(t, c, e) ==
    \/ e = c
    \/ e = c + 2 /\ t[c + 1] = "'" /\ t[c + 2] = "s"
    \/ e = c + 3 /\ t[c + 1] = "'" /\ t[c + 2] = "l" /\ t[c + 3] = "l"

WordPiece(t, i, e) ==
    \E b \in i..i + 1, c \in i + 1..Len(t) :
        /\ b < c /\ c <= e
        /\ b = i + 1 => t[i + 1] \in Lead
        /\ Word(t, b, c)
        /\ Contracted(t, c, e)

DigitPiece(t, i, e) == e <= i + 3 /\ \A k \in i + 1..e : t[k] = "1"

OtherPiece(t, i, e) ==
    /\ \A k \in i + 1..e : t[k] \in Symbol \cup Space
    /\ t[i + 1] # "m"

\* Contraction adds nothing, an apostrophe and one letter, or one and two.
LEMMA ContractionIs ==
    ASSUME NEW t \in Seq(Runes), NEW c \in 0..Len(t)
    PROVE  /\ Contraction(t, c) \in c..Len(t)
           /\ Contracted(t, c, Contraction(t, c))
  BY DEF Contraction, Contracted

\* LowerWord goes back to the last rune before which Lower+ may begin.
LEMMA LowerWordIs ==
    ASSUME NEW t \in Seq(Runes), NEW i \in 0..Len(t)
    PROVE  /\ LowerWord(t, i) # 0 =>
                \E j \in i..Len(t) - 1 :
                   /\ j <= RunOf(t, i, Upper) /\ t[j + 1] \in Lower
                   /\ \A x \in i..Len(t) - 1 :
                         (x <= RunOf(t, i, Upper) /\ t[x + 1] \in Lower) => x <= j
                   /\ LowerWord(t, i) = Contraction(t, RunOf(t, j, Lower))
           /\ LowerWord(t, i) = 0 =>
                \A x \in i..Len(t) - 1 : ~(x <= RunOf(t, i, Upper) /\ t[x + 1] \in Lower)
  <1> DEFINE S == {j \in i..RunOf(t, i, Upper) : j < Len(t) /\ t[j + 1] \in Lower}
             r == RunOf(t, i, Upper)
             m == Max(S)
  <1>1. LowerWord(t, i) = IF S = {} THEN 0 ELSE Contraction(t, RunOf(t, m, Lower))
    BY DEF LowerWord
  <1>2. r \in i..Len(t)
    BY RunOfIs
  <1>3. \A x \in i..Len(t) - 1 : (x <= r /\ t[x + 1] \in Lower) => x \in S
    BY <1>2
  <1>4. CASE S = {}
    <2> HIDE DEF S, r
    <2> QED
      BY <1>1, <1>3, <1>4 DEF r
  <1>5. CASE S # {}
    <2>1. m \in S /\ \A y \in S : y <= m
      <3>1. S \in SUBSET (0..Len(t)) /\ Len(t) \in Nat
        BY <1>2
      <3> HIDE DEF S
      <3> QED
        BY <1>5, <3>1, MaxIs
    <2>2. m \in i..Len(t) - 1 /\ m <= r /\ t[m + 1] \in Lower
      BY <1>2, <2>1
    <2>3. Contraction(t, RunOf(t, m, Lower)) # 0
      <3> HIDE DEF m
      <3>1. m \in 0..Len(t)
        BY <2>2
      <3>2. RunOf(t, m, Lower) \in m..Len(t) /\ (RunOf(t, m, Lower) < Len(t) => t[RunOf(t, m, Lower) + 1] \notin Lower)
        BY <3>1, RunOfIs
      <3>3. RunOf(t, m, Lower) # m
        BY <2>2, <3>2
      <3>4. RunOf(t, m, Lower) \in 0..Len(t) /\ RunOf(t, m, Lower) > 0
        BY <2>2, <3>2, <3>3
      <3>5. Contraction(t, RunOf(t, m, Lower)) \in RunOf(t, m, Lower)..Len(t)
        BY <3>4, ContractionIs
      <3> QED
        BY <3>4, <3>5
    <2> HIDE DEF S, m
    <2> QED
      BY <1>1, <1>3, <1>5, <2>1, <2>2, <2>3
  <1> QED
    BY <1>4, <1>5

\* A word begins where it is looked for.
Worded(t, i, w) == \E c \in i + 1..Len(t) : Word(t, i, c) /\ w = Contraction(t, c)

\* What LowerWord matches is a word.
LEMMA LowerWorded ==
    ASSUME NEW t \in Seq(Runes), NEW i \in 0..Len(t), LowerWord(t, i) # 0
    PROVE  Worded(t, i, LowerWord(t, i))
  <1> DEFINE r == RunOf(t, i, Upper)
  <1>1. PICK j \in i..Len(t) - 1 :
            /\ j <= r /\ t[j + 1] \in Lower
            /\ LowerWord(t, i) = Contraction(t, RunOf(t, j, Lower))
    BY LowerWordIs
  <1> DEFINE c == RunOf(t, j, Lower)
  <1>2. r \in i..Len(t) /\ \A k \in i + 1..r : t[k] \in Upper
    BY RunOfIs
  <1>3. c \in j..Len(t) /\ (\A k \in j + 1..c : t[k] \in Lower) /\ (c < Len(t) => t[c + 1] \notin Lower)
    <2>1. j \in 0..Len(t)
      OBVIOUS
    <2> QED
      BY <2>1, RunOfIs
  <1>4. LowerWord(t, i) = Contraction(t, c)
    BY <1>1
  <1>5. t[j + 1] \in Lower /\ j <= r
    BY <1>1
  <1> HIDE DEF r, c
  <1>6. c # j
    BY <1>3, <1>5
  <1>7. c \in i + 1..Len(t)
    BY <1>3, <1>6
  <1>8. Word(t, i, c)
    <2> SUFFICES ASSUME NEW k \in i + 1..c PROVE t[k] \in Upper \cup Lower
      BY DEF Word
    <2>1. k \in i + 1..r \/ k \in j + 1..c
      BY <1>2, <1>3, <1>5
    <2> QED
      BY <1>2, <1>3, <2>1
  <1> QED
    BY <1>4, <1>7, <1>8 DEF Worded

\* So is what UpperWord matches.
LEMMA UpperWorded ==
    ASSUME NEW t \in Seq(Runes), NEW i \in 0..Len(t), UpperWord(t, i) # 0
    PROVE  Worded(t, i, UpperWord(t, i))
  <1> DEFINE j == RunOf(t, i, Upper)
             c == RunOf(t, j, Lower)
  <1>1. UpperWord(t, i) = IF j = i THEN 0 ELSE Contraction(t, c)
    BY DEF UpperWord
  <1>2. j \in i..Len(t) /\ \A k \in i + 1..j : t[k] \in Upper
    BY RunOfIs
  <1>3. c \in j..Len(t) /\ \A k \in j + 1..c : t[k] \in Lower
    <2>1. j \in 0..Len(t)
      BY <1>2
    <2> HIDE DEF j
    <2> QED
      BY <2>1, RunOfIs
  <1> HIDE DEF j, c
  <1>4. c \in i + 1..Len(t)
    BY <1>1, <1>2, <1>3
  <1>5. Word(t, i, c)
    <2> SUFFICES ASSUME NEW k \in i + 1..c PROVE t[k] \in Upper \cup Lower
      BY DEF Word
    <2>1. k \in i + 1..j \/ k \in j + 1..c
      BY <1>2, <1>3
    <2> QED
      BY <1>2, <1>3, <2>1
  <1> QED
    BY <1>1, <1>4, <1>5 DEF Worded

\* The alternatives in turn.
LedLower(t, i) ==
    Else(IF t[i + 1] \in Lead THEN LowerWord(t, i + 1) ELSE 0, LowerWord(t, i))
LedUpper(t, i) ==
    Else(IF t[i + 1] \in Lead THEN UpperWord(t, i + 1) ELSE 0, UpperWord(t, i))

\* The alternatives spelled out.
LEMMA PieceEndIs ==
    ASSUME NEW t, NEW i
    PROVE  PieceEnd(t, i) = Else(LedLower(t, i), Else(LedUpper(t, i),
                              Else(Digits(t, i), Else(Symbols(t, i), Spaces(t, i)))))
  BY DEF PieceEnd, LedLower, LedUpper

\* A word with at most one rune before it is a word piece.
LEMMA WordedPiece ==
    ASSUME NEW t \in Seq(Runes), NEW i \in 0..Len(t) - 1, NEW b \in i..i + 1, NEW w,
           b = i + 1 => t[i + 1] \in Lead, Worded(t, b, w)
    PROVE  w \in i + 1..Len(t) /\ WordPiece(t, i, w)
  <1>1. PICK c \in b + 1..Len(t) : Word(t, b, c) /\ w = Contraction(t, c)
    BY DEF Worded
  <1>2. c \in 0..Len(t)
    OBVIOUS
  <1>3. w \in c..Len(t) /\ Contracted(t, c, w)
    BY <1>1, <1>2, ContractionIs
  <1>4. c \in i + 1..Len(t) /\ b < c /\ c <= w /\ w \in i + 1..Len(t)
    BY <1>3
  <1> QED
    BY <1>1, <1>3, <1>4 DEF WordPiece

\* Where a word may start, one of the two word alternatives matches.
LEMMA WordsFirst ==
    ASSUME NEW t \in Seq(Runes), NEW i \in 0..Len(t) - 1
    PROVE  /\ t[i + 1] \in Lower => LowerWord(t, i) # 0
           /\ t[i + 1] \in Upper => UpperWord(t, i) # 0
  <1>1. i \in 0..Len(t) /\ i \in i..Len(t) - 1
    OBVIOUS
  <1> DEFINE r == RunOf(t, i, Upper)
  <1>2. r \in i..Len(t) /\ (r < Len(t) => t[r + 1] \notin Upper)
    BY <1>1, RunOfIs
  <1>3. t[i + 1] \in Lower => LowerWord(t, i) # 0
    <2>1. i <= RunOf(t, i, Upper)
      BY <1>2
    <2> QED
      BY <1>1, <2>1, LowerWordIs
  <1>4. ASSUME t[i + 1] \in Upper PROVE UpperWord(t, i) # 0
    <2> DEFINE c == RunOf(t, r, Lower)
    <2>1. UpperWord(t, i) = IF r = i THEN 0 ELSE Contraction(t, c)
      BY DEF UpperWord
    <2>2. r # i
      BY <1>2, <1>4
    <2>3. c \in r..Len(t)
      <3>1. r \in 0..Len(t)
        BY <1>2
      <3> HIDE DEF r
      <3> QED
        BY <3>1, RunOfIs
    <2>4. c \in 0..Len(t) /\ c > 0
      BY <1>2, <2>2, <2>3
    <2> HIDE DEF c, r
    <2>5. Contraction(t, c) \in c..Len(t)
      BY <2>4, ContractionIs
    <2>6. Contraction(t, c) # 0
      BY <2>4, <2>5
    <2> QED
      BY <2>1, <2>2, <2>6
  <1> QED
    BY <1>3, <1>4

\* What Symbols and Spaces take.
LEMMA SymbolsIs ==
    ASSUME NEW t \in Seq(Runes), NEW i \in 0..Len(t) - 1
    PROVE  /\ Symbols(t, i) # 0 =>
                 /\ Symbols(t, i) \in i + 1..Len(t)
                 /\ \A k \in i + 1..Symbols(t, i) : t[k] \in Symbol \cup Space
           /\ t[i + 1] \in Symbol => Symbols(t, i) # 0
  <1> DEFINE from == IF t[i + 1] = "sp" THEN i + 1 ELSE i
             end == RunOf(t, from, Symbol)
             e == RunOf(t, end, {"n"})
  <1>1. Symbols(t, i) = IF end = from THEN 0 ELSE e
    BY DEF Symbols
  <1>2. from \in 0..Len(t) /\ from \in i..i + 1 /\ (from = i + 1 => t[i + 1] = "sp")
    OBVIOUS
  <1>3. t[i + 1] \in Symbol => from = i
    BY DEF Symbol
  <1> HIDE DEF from
  <1>4. /\ end \in from..Len(t)
        /\ \A k \in from + 1..end : t[k] \in Symbol
        /\ end < Len(t) => t[end + 1] \notin Symbol
    BY <1>2, RunOfIs
  <1> HIDE DEF end
  <1>5. end \in 0..Len(t)
    BY <1>2, <1>4
  <1>6. e \in end..Len(t) /\ \A k \in end + 1..e : t[k] \in {"n"}
    BY <1>5, RunOfIs
  <1> HIDE DEF e
  <1>7. \A k \in i + 1..e : t[k] \in Symbol \cup Space
    <2> TAKE k \in i + 1..e
    <2>1. (k = i + 1 /\ from = i + 1) \/ k \in from + 1..end \/ k \in end + 1..e
      BY <1>2, <1>4, <1>6
    <2> QED
      BY <1>2, <1>4, <1>6, <2>1 DEF Space
  <1>8. ASSUME end # from PROVE e # 0 /\ e \in i + 1..Len(t)
    BY <1>2, <1>4, <1>6, <1>8
  <1>9. ASSUME t[i + 1] \in Symbol PROVE end # from
    BY <1>2, <1>3, <1>4, <1>9
  <1> QED
    BY <1>1, <1>7, <1>8, <1>9

\* Spaces takes at least one rune, and runes of no word or number.
LEMMA SpacesIs ==
    ASSUME NEW t \in Seq(Runes), NEW i \in 0..Len(t) - 1, t[i + 1] \in Space
    PROVE  /\ Spaces(t, i) \in i + 1..Len(t)
           /\ \A k \in i + 1..Spaces(t, i) : t[k] \in Symbol \cup Space
  <1> DEFINE end == RunOf(t, i, Space)
             newlines == {j \in i + 1..end : t[j] = "n"}
             e == Spaces(t, i)
  <1>1. e = CASE newlines # {} -> Max(newlines)
              [] newlines = {} /\ end < Len(t) /\ end > i + 1 -> end - 1
              [] OTHER -> end
    BY DEF Spaces
  <1>2. /\ end \in i..Len(t)
        /\ \A k \in i + 1..end : t[k] \in Space
        /\ end < Len(t) => t[end + 1] \notin Space
    <2>1. i \in 0..Len(t)
      OBVIOUS
    <2> QED
      BY <2>1, RunOfIs
  <1>3. newlines # {} => Max(newlines) \in newlines
    <2>1. newlines \in SUBSET (0..Len(t)) /\ Len(t) \in Nat
      BY <1>2
    <2> HIDE DEF newlines
    <2> QED
      BY <2>1, MaxIs
  <1>4. newlines # {} => Max(newlines) \in i + 1..end
    BY <1>3
  <1> HIDE DEF e, newlines, end
  <1>5. end # i
    BY <1>2
  <1>6. e \in i + 1..end
    <2>1. CASE newlines # {}
      BY <1>1, <1>4, <2>1
    <2>2. CASE newlines = {} /\ end < Len(t) /\ end > i + 1
      BY <1>1, <1>2, <2>2
    <2>3. CASE newlines = {} /\ ~(end < Len(t) /\ end > i + 1)
      BY <1>1, <1>2, <1>5, <2>3
    <2> QED
      BY <2>1, <2>2, <2>3
  <1>7. \A k \in i + 1..e : k \in i + 1..end
    BY <1>2, <1>6
  <1>8. e \in i + 1..Len(t)
    BY <1>2, <1>6
  <1> QED
    BY <1>2, <1>7, <1>8 DEF e

\* The split regex matches everywhere, and a piece is of one of the three kinds.
LEMMA PieceIs ==
    ASSUME NEW t \in Seq(Runes), NEW i \in 0..Len(t) - 1
    PROVE  /\ PieceEnd(t, i) \in i + 1..Len(t)
           /\ \/ WordPiece(t, i, PieceEnd(t, i))
              \/ DigitPiece(t, i, PieceEnd(t, i))
              \/ OtherPiece(t, i, PieceEnd(t, i))
  <1> DEFINE e == PieceEnd(t, i)
             r == t[i + 1]
  <1>0. i \in 0..Len(t) /\ i + 1 \in 0..Len(t) /\ i \in i..i + 1 /\ i + 1 \in i..i + 1 /\ i # i + 1
        /\ r \in Runes
    OBVIOUS
  <1>1. CASE LedLower(t, i) # 0
    <2>1. e = LedLower(t, i)
      BY <1>1, PieceEndIs DEF Else
    <2>2. CASE r \in Lead /\ LowerWord(t, i + 1) # 0
      <3>1. e = LowerWord(t, i + 1)
        BY <2>1, <2>2 DEF LedLower, Else
      <3>2. Worded(t, i + 1, e)
        BY <1>0, <2>2, <3>1, LowerWorded
      <3> QED
        BY <1>0, <2>2, <3>2, WordedPiece
    <2>3. CASE ~(r \in Lead /\ LowerWord(t, i + 1) # 0)
      <3>1. e = LowerWord(t, i)
        BY <2>1, <2>3 DEF LedLower, Else
      <3>2. Worded(t, i, e)
        BY <1>0, <1>1, <2>1, <3>1, LowerWorded
      <3> QED
        BY <1>0, <3>2, WordedPiece
    <2> QED
      BY <2>2, <2>3
  <1>2. CASE LedLower(t, i) = 0 /\ LedUpper(t, i) # 0
    <2>1. e = LedUpper(t, i)
      BY <1>2, PieceEndIs DEF Else
    <2>2. CASE r \in Lead /\ UpperWord(t, i + 1) # 0
      <3>1. e = UpperWord(t, i + 1)
        BY <2>1, <2>2 DEF LedUpper, Else
      <3>2. Worded(t, i + 1, e)
        BY <1>0, <2>2, <3>1, UpperWorded
      <3> QED
        BY <1>0, <2>2, <3>2, WordedPiece
    <2>3. CASE ~(r \in Lead /\ UpperWord(t, i + 1) # 0)
      <3>1. e = UpperWord(t, i)
        BY <2>1, <2>3 DEF LedUpper, Else
      <3>2. Worded(t, i, e)
        BY <1>0, <1>2, <2>1, <3>1, UpperWorded
      <3> QED
        BY <1>0, <3>2, WordedPiece
    <2> QED
      BY <2>2, <2>3
  <1>3. CASE LedLower(t, i) = 0 /\ LedUpper(t, i) = 0
    <2>1. e = Else(Digits(t, i), Else(Symbols(t, i), Spaces(t, i)))
      BY <1>3, PieceEndIs DEF Else
    <2>2. LowerWord(t, i) = 0 /\ UpperWord(t, i) = 0
      BY <1>3 DEF LedLower, LedUpper, Else
    <2>3. r \notin Lower /\ r \notin Upper
      BY <2>2, WordsFirst
    <2>4. CASE r = "1"
      <3> DEFINE j == RunOf(t, i, {"1"})
      <3>1. Digits(t, i) = Min({j, i + 3})
        BY <2>4 DEF Digits
      <3>2. /\ j \in i..Len(t)
            /\ \A k \in i + 1..j : t[k] \in {"1"}
            /\ j < Len(t) => t[j + 1] \notin {"1"}
        BY <1>0, RunOfIs
      <3> HIDE DEF j
      <3>3. j # i
        BY <2>4, <3>2
      <3>4. Min({j, i + 3}) \in {j, i + 3} /\ \A y \in {j, i + 3} : Min({j, i + 3}) <= y
        <4>1. {j, i + 3} \in SUBSET Nat
          BY <3>2
        <4> QED
          BY <4>1, MinIs
      <3>5. Digits(t, i) \in i + 1..j /\ Digits(t, i) <= i + 3
        BY <3>1, <3>2, <3>3, <3>4
      <3>6. e = Digits(t, i)
        BY <2>1, <3>5 DEF Else
      <3> HIDE DEF e
      <3>7. e \in i + 1..Len(t) /\ \A k \in i + 1..e : k \in i + 1..j
        BY <3>2, <3>5, <3>6
      <3>8. DigitPiece(t, i, e)
        BY <3>2, <3>5, <3>6, <3>7 DEF DigitPiece
      <3> QED
        BY <3>7, <3>8 DEF e
    <2>5. CASE r # "1"
      <3>1. e = Else(Symbols(t, i), Spaces(t, i))
        BY <2>1, <2>5 DEF Else, Digits
      <3>2. CASE Symbols(t, i) # 0
        <4>1. e = Symbols(t, i)
          BY <3>1, <3>2 DEF Else
        <4>2. OtherPiece(t, i, e)
          BY <2>3, <3>2, <4>1, SymbolsIs DEF OtherPiece, Lower
        <4> QED
          BY <3>2, <4>1, <4>2, SymbolsIs
      <3>3. CASE Symbols(t, i) = 0
        <4>1. e = Spaces(t, i) /\ r \notin Symbol
          BY <3>1, <3>3, SymbolsIs DEF Else
        <4>2. r \in Space
          BY <1>0, <2>3, <2>5, <4>1 DEF Runes, Letters, Space, Upper, Lower, Symbol
        <4>3. OtherPiece(t, i, e)
          BY <4>1, <4>2, <2>3, SpacesIs DEF OtherPiece, Lower
        <4> QED
          BY <4>1, <4>2, <4>3, SpacesIs
      <3> QED
        BY <3>2, <3>3
    <2> QED
      BY <2>4, <2>5
  <1> QED
    BY <1>1, <1>2, <1>3

-----------------------------------------------------------------------------
(* Offsets that no piece crosses.                                          *)

NoCross(p) == \A i \in 0..p - 1 : PieceEnd(text, i) <= p

\* The third kind lies in one run of symbols and spaces.
LEMMA OtherRun ==
    ASSUME text \in Seq(Runes), NEW i \in 0..Len(text) - 1, NEW e \in i + 1..Len(text),
           OtherPiece(text, i, e)
    PROVE  \A k \in i + 1..e : RunClass(k) = "other"
  <1> DEFINE T == {k \in Nat : i + 1 + k <= e => RunClass(i + 1 + k) = "other"}
  <1>1. \A k \in i + 1..e : k \in 1..Len(text) /\ text[k] \in Runes
                            /\ classOf(text[k]) \in {"mark", "other"}
    <2> TAKE k \in i + 1..e
    <2>1. text[k] \in Runes /\ text[k] \in Symbol \cup Space /\ k \in 1..Len(text)
      BY DEF OtherPiece
    <2> QED
      BY <2>1, ClassIs DEF Symbol, Space
  <1>2. 0 \in T
    <2>1. i + 1 \in i + 1..e /\ text[i + 1] # "m"
      BY DEF OtherPiece
    <2>2. classOf(text[i + 1]) = "other"
      BY <1>1, <2>1, ClassIs
    <2> QED
      BY <1>1, <2>1, <2>2, RunClassPlain
  <1>3. ASSUME NEW k \in Nat, k \in T PROVE k + 1 \in T
    <2> DEFINE x == i + 1 + (k + 1)
    <2> SUFFICES ASSUME x <= e PROVE RunClass(x) = "other"
      OBVIOUS
    <2>1. x \in i + 1..e /\ x \in 2..Len(text) /\ x - 1 \in i + 1..e /\ x - 1 = i + 1 + k
      OBVIOUS
    <2>2. RunClass(x - 1) = "other"
      BY <1>3, <2>1
    <2> HIDE DEF x
    <2>3. CASE classOf(text[x]) = "mark"
      <3>1. classOf(text[x - 1]) # "digit"
        BY <1>1, <2>1
      <3> QED
        BY <2>1, <2>2, <2>3, <3>1, RunClassMark
    <2>4. CASE classOf(text[x]) # "mark"
      BY <1>1, <2>1, <2>4, RunClassPlain
    <2> QED
      BY <2>3, <2>4
  <1> HIDE DEF T
  <1>4. \A k \in Nat : k \in T
    BY <1>2, <1>3, NatSetInduction
  <1> SUFFICES ASSUME NEW k \in i + 1..e PROVE RunClass(k) = "other"
    OBVIOUS
  <1>5. k - (i + 1) \in Nat /\ i + 1 + (k - (i + 1)) = k /\ k <= e
    OBVIOUS
  <1>6. k - (i + 1) \in T
    BY <1>4, <1>5
  <1> QED
    BY <1>5, <1>6 DEF T

\* What a word piece is made of.
LEMMA WordPieceRunes ==
    ASSUME NEW t \in Seq(Runes), NEW i \in 0..Len(t) - 1, NEW e \in i + 1..Len(t),
           WordPiece(t, i, e), NEW k \in i + 1..e
    PROVE  /\ t[k] # "1"
           /\ k > i + 1 => \/ t[k] \in Letters \cup {"m"}
                           \/ t[k] = "'" /\ k + 1 <= e /\ t[k + 1] \in Letters
  <1>1. PICK b \in i..i + 1, c \in i + 1..Len(t) :
        /\ b < c /\ c <= e
        /\ b = i + 1 => t[i + 1] \in Lead
        /\ Word(t, b, c)
        /\ Contracted(t, c, e)
    BY DEF WordPiece
  <1>2. CASE k \in b + 1..c
    BY <1>1, <1>2 DEF Word, Upper, Lower, Letters
  <1>3. CASE k = i + 1 /\ b = i + 1
    BY <1>1, <1>3 DEF Lead, Symbol
  <1>4. CASE k \in c + 1..e
    <2>1. CASE e = c + 2 /\ t[c + 1] = "'" /\ t[c + 2] = "s"
      <3>1. k = c + 1 \/ k = c + 2
        BY <1>4, <2>1
      <3> QED
        BY <1>1, <2>1, <3>1 DEF Letters
    <2>2. CASE e = c + 3 /\ t[c + 1] = "'" /\ t[c + 2] = "l" /\ t[c + 3] = "l"
      <3>1. k = c + 1 \/ k = c + 2 \/ k = c + 3
        BY <1>4, <2>2
      <3>2. c + 1 + 1 = c + 2 /\ c + 1 + 1 <= e
        BY <2>2
      <3> QED
        BY <1>1, <2>2, <3>1, <3>2 DEF Letters
    <2>3. e # c
      BY <1>1, <1>4
    <2> QED
      BY <1>1, <2>1, <2>2, <2>3 DEF Contracted
  <1>5. k \in b + 1..c \/ (k = i + 1 /\ b = i + 1) \/ k \in c + 1..e
    BY <1>1
  <1> QED
    BY <1>2, <1>3, <1>4, <1>5

\* No piece goes on from digits into anything else, or back.
LEMMA DigitEdge ==
    ASSUME text \in Seq(Runes), NEW p \in 1..Len(text) - 1, AtRun(p),
           RunClass(p) = "digit" \/ RunClass(p + 1) = "digit"
    PROVE  NoCross(p)
  <1> SUFFICES ASSUME NEW i \in 0..p - 1, ~(PieceEnd(text, i) <= p) PROVE FALSE
    BY DEF NoCross
  <1> DEFINE e == PieceEnd(text, i)
  <1>0. i \in 0..Len(text) - 1 /\ p \in 1..Len(text) /\ p + 1 \in 1..Len(text)
    OBVIOUS
  <1>1. e \in i + 1..Len(text) /\ (WordPiece(text, i, e) \/ DigitPiece(text, i, e) \/ OtherPiece(text, i, e))
    BY <1>0, PieceIs
  <1>2. p \in i + 1..e /\ p + 1 \in i + 1..e
    BY <1>1
  <1> HIDE DEF e
  <1>3. PICK k \in {p, p + 1} : RunClass(k) = "digit"
    OBVIOUS
  <1>4. k \in i + 1..e /\ k \in 1..Len(text)
    BY <1>0, <1>2
  <1>5. classOf(text[k]) = "digit" /\ text[k] \in Runes
    BY <1>3, <1>4, RunClassIs
  <1>6. text[k] = "1"
    BY <1>5, ClassIs
  <1>7. ~WordPiece(text, i, e)
    BY <1>0, <1>1, <1>4, <1>6, WordPieceRunes
  <1>8. ASSUME OtherPiece(text, i, e) PROVE FALSE
    BY <1>0, <1>1, <1>3, <1>4, <1>8, OtherRun
  <1>9. ASSUME DigitPiece(text, i, e) PROVE FALSE
    <2>1. text[p] = "1" /\ text[p + 1] = "1"
      BY <1>2, <1>9 DEF DigitPiece
    <2>2. classOf("1") = "digit"
      BY <1>5, <1>6
    <2>3. RunClass(p) = "digit" /\ RunClass(p + 1) = "digit"
      BY <1>0, <2>1, <2>2, RunClassIs
    <2> QED
      BY <1>0, <2>3 DEF AtRun
  <1> QED
    BY <1>1, <1>7, <1>8, <1>9

\* None goes on from letters into what is no contraction of them.
LEMMA LetterEdge ==
    ASSUME text \in Seq(Runes), NEW p \in 1..Len(text) - 1,
           RunClass(p) = "letter", RunClass(p + 1) = "other",
           ~(text[p + 1] = "'" /\ p + 2 <= Len(text) /\ text[p + 2] \in Letters)
    PROVE  NoCross(p)
  <1> SUFFICES ASSUME NEW i \in 0..p - 1, ~(PieceEnd(text, i) <= p) PROVE FALSE
    BY DEF NoCross
  <1> DEFINE e == PieceEnd(text, i)
             q == p + 1
  <1>0. /\ i \in 0..Len(text) - 1 /\ p \in 1..Len(text) /\ q \in 1..Len(text) /\ q \in 2..Len(text)
        /\ q - 1 = p /\ q + 1 = p + 2
    OBVIOUS
  <1>1. e \in i + 1..Len(text) /\ (WordPiece(text, i, e) \/ DigitPiece(text, i, e) \/ OtherPiece(text, i, e))
    BY <1>0, PieceIs
  <1>2. p \in i + 1..e /\ q \in i + 1..e /\ q > i + 1
    BY <1>1
  <1> HIDE DEF e, q
  <1>3. RunClass(q) = "other" /\ ~(text[q] = "'" /\ q + 1 <= Len(text) /\ text[q + 1] \in Letters)
    BY DEF q
  <1>4. text[q] \in Runes /\ text[p] \in Runes
    BY <1>0
  <1>5. ASSUME WordPiece(text, i, e) PROVE FALSE
    <2>1. text[q] \in Letters \/ text[q] = "m"
      BY <1>0, <1>1, <1>2, <1>3, <1>5, WordPieceRunes
    <2>2. ASSUME text[q] = "m" PROVE FALSE
      <3>1. classOf(text[q]) = "mark" /\ classOf(text[p]) # "digit"
        BY <1>0, <1>4, <2>2, ClassIs, RunClassIs
      <3> QED
        BY <1>0, <1>3, <3>1, RunClassMark
    <2>3. ASSUME text[q] \in Letters PROVE FALSE
      <3>1. classOf(text[q]) = "letter"
        BY <1>4, <2>3, ClassIs
      <3> QED
        BY <1>0, <1>3, <3>1, RunClassPlain
    <2> QED
      BY <2>1, <2>2, <2>3
  <1>6. ASSUME OtherPiece(text, i, e) PROVE FALSE
    BY <1>0, <1>1, <1>2, <1>6, OtherRun
  <1>7. ASSUME DigitPiece(text, i, e) PROVE FALSE
    <2>1. text[p] = "1"
      BY <1>2, <1>7 DEF DigitPiece
    <2>2. classOf(text[p]) = "digit"
      BY <1>4, <2>1, ClassIs
    <2> QED
      BY <1>0, <2>2, RunClassIs
  <1> QED
    BY <1>1, <1>5, <1>6, <1>7

\* Nor past the end.
LEMMA EndEdge ==
    ASSUME text \in Seq(Runes)
    PROVE  NoCross(Len(text))
  BY PieceIs DEF NoCross

-----------------------------------------------------------------------------
(* The widening of a long run.                                             *)

Looped(f, n, stop, v, g) == f = [i \in 0..n |-> IF i \in stop THEN v[i] ELSE f[g[i]]]

\* A recursive function whose steps bring a measure down exists.
LEMMA LoopExists ==
    ASSUME NEW n \in Nat, NEW m \in [0..n -> Nat], NEW stop, NEW v, NEW g,
           \A i \in 0..n : i \notin stop => g[i] \in 0..n /\ m[g[i]] < m[i]
    PROVE  \E f : Looped(f, n, stop, v, g)
  <1> DEFINE Eq(f, i) == f[i] = IF i \in stop THEN v[i] ELSE f[g[i]]
             T == {k \in Nat : \E f : /\ f = [i \in 0..n |-> f[i]]
                                      /\ \A i \in 0..n : m[i] < k => Eq(f, i)}
  <1>1. 0 \in T
    <2> DEFINE f == [i \in 0..n |-> 0]
    <2>1. f = [i \in 0..n |-> f[i]] /\ \A i \in 0..n : m[i] < 0 => Eq(f, i)
      OBVIOUS
    <2> QED
      BY <2>1
  <1>2. ASSUME NEW k \in Nat, k \in T PROVE k + 1 \in T
    <2>1. PICK f : f = [i \in 0..n |-> f[i]] /\ \A i \in 0..n : m[i] < k => Eq(f, i)
      BY <1>2
    <2> DEFINE h == [i \in 0..n |-> IF m[i] < k THEN f[i]
                                    ELSE IF i \in stop THEN v[i] ELSE f[g[i]]]
    <2>2. ASSUME NEW i \in 0..n, m[i] < k + 1 PROVE Eq(h, i)
      <3>1. i \notin stop => h[g[i]] = f[g[i]]
        <4> SUFFICES ASSUME i \notin stop PROVE h[g[i]] = f[g[i]]
          OBVIOUS
        <4>1. g[i] \in 0..n /\ m[g[i]] < m[i] /\ m[i] \in Nat /\ m[g[i]] \in Nat
          OBVIOUS
        <4>2. m[g[i]] < k
          BY <2>2, <4>1
        <4> QED
          BY <4>1, <4>2
      <3>2. CASE m[i] < k
        <4>1. Eq(f, i) /\ h[i] = f[i]
          BY <2>1, <3>2
        <4> HIDE DEF h
        <4> QED
          BY <3>1, <4>1
      <3>3. CASE ~(m[i] < k)
        <4>1. h[i] = IF i \in stop THEN v[i] ELSE f[g[i]]
          BY <3>3
        <4> HIDE DEF h
        <4> QED
          BY <3>1, <4>1
      <3> QED
        BY <3>2, <3>3
    <2>3. h = [i \in 0..n |-> h[i]]
      OBVIOUS
    <2> HIDE DEF h, Eq
    <2> QED
      BY <2>2, <2>3
  <1> HIDE DEF T
  <1>3. \A k \in Nat : k \in T
    BY <1>1, <1>2, NatSetInduction
  <1> DEFINE M == {m[i] : i \in 0..n}
  <1>4. \E k \in Nat : \A i \in 0..n : m[i] < k
    <2> DEFINE U == {j \in Nat : j <= n => \E k \in Nat : \A i \in 0..j : m[i] < k}
    <2>1. 0 \in U
      <3>1. m[0] \in Nat /\ m[0] + 1 \in Nat /\ \A i \in 0..0 : m[i] < m[0] + 1
        OBVIOUS
      <3> QED
        BY <3>1
    <2>2. ASSUME NEW j \in Nat, j \in U PROVE j + 1 \in U
      <3> SUFFICES ASSUME j + 1 <= n PROVE \E k \in Nat : \A i \in 0..j + 1 : m[i] < k
        OBVIOUS
      <3>1. PICK k \in Nat : \A i \in 0..j : m[i] < k
        BY <2>2
      <3>2. m[j + 1] \in Nat
        OBVIOUS
      <3>3. \A i \in 0..j + 1 : i = j + 1 \/ i \in 0..j
        OBVIOUS
      <3>4. \A i \in 0..j : m[i] \in Nat
        OBVIOUS
      <3>5. \A i \in 0..j + 1 : m[i] < k + m[j + 1] + 1
        BY <3>1, <3>2, <3>3, <3>4
      <3>6. k + m[j + 1] + 1 \in Nat
        BY <3>2
      <3> QED
        BY <3>5, <3>6
    <2> HIDE DEF U
    <2>3. n \in U
      BY <2>1, <2>2, NatSetInduction
    <2> QED
      BY <2>3 DEF U
  <1>5. PICK k \in Nat : \A i \in 0..n : m[i] < k
    BY <1>4
  <1>6. k \in T
    BY <1>3
  <1>7. PICK f : f = [i \in 0..n |-> f[i]] /\ \A i \in 0..n : m[i] < k => Eq(f, i)
    BY <1>6 DEF T
  <1>8. \A i \in 0..n : f[i] = IF i \in stop THEN v[i] ELSE f[g[i]]
    BY <1>5, <1>7
  <1>9. f = [i \in 0..n |-> IF i \in stop THEN v[i] ELSE f[g[i]]]
    BY <1>7, <1>8
  <1> QED
    BY <1>9 DEF Looped

\* Offsets to which a region may be widened: the end of a run of letters or
\* digits that no piece crosses, or the start.
Clean(r) ==
    \/ r = 0
    \/ /\ AtRun(r) /\ NoCross(r)
       /\ RunClass(r) \in {"letter", "digit"}

\* An offset between two runs and before symbols is clean unless they are one apostrophe.
LEMMA CleanBefore ==
    ASSUME text \in Seq(Runes), NEW r \in 0..Len(text) - 1, AtRun(r), RunClass(r + 1) = "other",
           NEW l \in r + 1..Len(text), OneRun(r, l), ~(r > 0 /\ l = r + 1 /\ text[l] = "'")
    PROVE  Clean(r)
  <1> SUFFICES ASSUME r # 0 PROVE Clean(r)
    BY DEF Clean
  <1>1. r \in 1..Len(text) - 1 /\ r \in 1..Len(text) /\ r # Len(text) /\ r > 0
    OBVIOUS
  <1>2. RunClass(r) \in {"letter", "digit", "other"} /\ RunClass(r) # RunClass(r + 1)
    BY <1>1, RunClassIs DEF AtRun
  <1>3. CASE RunClass(r) = "digit"
    BY <1>1, <1>3, DigitEdge DEF Clean
  <1>4. CASE RunClass(r) = "letter"
    <2>1. ASSUME text[r + 1] = "'", r + 2 <= Len(text), text[r + 2] \in Letters PROVE FALSE
      <3>1. r + 2 \in r + 1..l
        BY <1>1, <2>1
      <3>2. RunClass(r + 2) = "other"
        BY <3>1 DEF OneRun
      <3> DEFINE q == r + 2
      <3>3. q \in 1..Len(text) /\ text[q] \in Runes
        BY <2>1
      <3>4. text[q] \in Letters /\ RunClass(q) = "other"
        BY <2>1, <3>2
      <3> HIDE DEF q
      <3>5. classOf(text[q]) = "letter"
        BY <3>3, <3>4, ClassIs
      <3> QED
        BY <3>3, <3>4, <3>5, RunClassPlain
    <2>2. NoCross(r)
      BY <1>1, <1>4, <2>1, LetterEdge
    <2> QED
      BY <1>4, <2>2 DEF Clean
  <1> QED
    BY <1>2, <1>3, <1>4

\* prevRun goes back, and over one rune at least where it finds letters.
LEMMA PrevRunBefore ==
    ASSUME text \in Seq(Runes), NEW e \in 0..Len(text)
    PROVE  /\ prevRun(e).start \in 0..e
           /\ prevRun(e).class = "letter" => prevRun(e).start < e
  <1> DEFINE p == marksBefore(e)
             c == classOf(text[p])
             S == {j \in 0..p - 1 : \A k \in j + 1..p - 1 : Ours(c, k)}
  <1>1. p \in 0..e
    BY MarksIs
  <1>2. CASE p = 0 \/ (p > 0 /\ p < e /\ c = "digit")
    <2>1. prevRun(e) = [class |-> "other", start |-> p]
      <3>1. p # 0 => p > 0
        BY <1>1
      <3> QED
        BY <1>2, <3>1 DEF prevRun
    <2> HIDE DEF p
    <2> QED
      BY <1>1, <2>1
  <1>3. CASE ~(p = 0 \/ (p > 0 /\ p < e /\ c = "digit"))
    <2>1. prevRun(e) = [class |-> c, start |-> Min(S)]
      <3>1. Reach(c, p - 1) = Min(S)
        BY DEF Reach
      <3> QED
        BY <1>3, <3>1 DEF prevRun
    <2>2. p - 1 \in S /\ S \in SUBSET Nat
      BY <1>1, <1>3
    <2>3. Min(S) \in S
      <3> HIDE DEF S
      <3> QED
        BY <2>2, MinIs
    <2>4. Min(S) \in 0..p - 1
      BY <2>3
    <2> HIDE DEF p, S
    <2> QED
      BY <1>1, <2>1, <2>4
  <1> QED
    BY <1>2, <1>3

Lone(r, l) == r > 0 /\ l = r + 1 /\ text[l] = "'"

\* How contractionStart goes back.
Back(f, r) ==
    LET word == prevRun(r)
        before == prevRun(word.start)
    IN  IF word.class # "letter" THEN r
        ELSE IF word.start = 0 THEN 0
        ELSE IF before.class # "other" THEN word.start
        ELSE IF Lone(before.start, word.start) THEN f[before.start]
        ELSE before.start

\* The recursion of contractionStart is well founded.
LEMMA BackExists ==
    ASSUME text \in Seq(Runes)
    PROVE  \E f : f = [r \in 0..Len(text) |-> Back(f, r)]
  <1> DEFINE word(r) == prevRun(r)
             before(r) == prevRun(word(r).start)
             n == Len(text)
             stop == {r \in 0..n : ~(/\ word(r).class = "letter" /\ word(r).start # 0
                                     /\ before(r).class = "other"
                                     /\ Lone(before(r).start, word(r).start))}
             v == [r \in 0..n |-> IF word(r).class # "letter" THEN r
                                  ELSE IF word(r).start = 0 THEN 0
                                  ELSE IF before(r).class # "other" THEN word(r).start
                                  ELSE before(r).start]
             g == [r \in 0..n |-> before(r).start]
             m == [r \in 0..n |-> r]
  <1>1. n \in Nat /\ m \in [0..n -> Nat]
    OBVIOUS
  <1>2. ASSUME NEW r \in 0..n, r \notin stop PROVE g[r] \in 0..n /\ m[g[r]] < m[r]
    <2>1. word(r).class = "letter"
      BY <1>2
    <2>2. word(r).start \in 0..r /\ word(r).start < r
      BY <2>1, PrevRunBefore
    <2>3. word(r).start \in 0..n
      BY <2>2
    <2>4. before(r).start \in 0..word(r).start
      BY <2>3, PrevRunBefore
    <2> HIDE DEF word, before
    <2>5. before(r).start \in 0..n /\ before(r).start < r
      BY <2>2, <2>4
    <2> QED
      BY <2>5
  <1>3. ASSUME NEW f, NEW r \in 0..n
        PROVE  (IF r \in stop THEN v[r] ELSE f[g[r]]) = Back(f, r)
    <2>1. v[r] = IF word(r).class # "letter" THEN r
                                  ELSE IF word(r).start = 0 THEN 0
                                  ELSE IF before(r).class # "other" THEN word(r).start
                                  ELSE before(r).start
      BY Zenon
    <2>2. g[r] = before(r).start
      BY Zenon
    <2>3. r \in stop <=> ~(/\ word(r).class = "letter" /\ word(r).start # 0
                                     /\ before(r).class = "other"
                                     /\ Lone(before(r).start, word(r).start))
      OBVIOUS
    <2>4. Back(f, r) = IF word(r).class # "letter" THEN r
        ELSE IF word(r).start = 0 THEN 0
        ELSE IF before(r).class # "other" THEN word(r).start
        ELSE IF Lone(before(r).start, word(r).start) THEN f[before(r).start]
        ELSE before(r).start
      BY DEF Back
    <2> HIDE DEF v, g, stop, word, before
    <2> QED
      BY <2>1, <2>2, <2>3, <2>4
  <1>i. \A r \in 0..n : r \notin stop => g[r] \in 0..n /\ m[g[r]] < m[r]
    BY <1>2
  <1> HIDE DEF stop, v, g, m, n
  <1>4. PICK f : Looped(f, n, stop, v, g)
    BY <1>1, <1>i, LoopExists
  <1>5. f = [r \in 0..n |-> Back(f, r)]
    BY <1>3, <1>4 DEF Looped
  <1> QED
    BY <1>5 DEF n

\* Going back from a run of symbols, contractionStart stops at a clean offset.
LEMMA BackClean ==
    ASSUME text \in Seq(Runes), NEW f, f = [r \in 0..Len(text) |-> Back(f, r)],
           NEW r \in 1..Len(text) - 1, AtRun(r), RunClass(r + 1) = "other"
    PROVE  f[r] \in 0..r /\ Clean(f[r])
  <1> DEFINE Bad == {x \in Nat : /\ x \in 1..Len(text) - 1 /\ AtRun(x) /\ RunClass(x + 1) = "other"
                                 /\ ~(f[x] \in 0..x /\ Clean(f[x]))}
  <1> SUFFICES ASSUME r \in Bad PROVE FALSE
    OBVIOUS
  <1>1. PICK x \in Bad : \A y \in Bad : x <= y
    <2>1. Bad # {} /\ Bad \subseteq Nat
      OBVIOUS
    <2> HIDE DEF Bad
    <2> QED
      BY <2>1, LeastNat
  <1>2. /\ x \in 1..Len(text) - 1 /\ AtRun(x) /\ RunClass(x + 1) = "other"
        /\ x \in 0..Len(text) /\ x \in 1..Len(text)
    BY <1>1
  <1>3. ~(f[x] \in 0..x /\ Clean(f[x]))
    BY <1>1
  <1>4. \A y \in 1..x - 1 : AtRun(y) /\ RunClass(y + 1) = "other" => f[y] \in 0..y /\ Clean(f[y])
    <2> SUFFICES ASSUME NEW y \in 1..x - 1, AtRun(y), RunClass(y + 1) = "other",
                        ~(f[y] \in 0..y /\ Clean(f[y]))
                 PROVE  FALSE
      OBVIOUS
    <2>1. y \in 1..Len(text) - 1 /\ y \in Nat /\ ~(x <= y)
      BY <1>2
    <2>2. y \in Bad
      BY <2>1
    <2> HIDE DEF Bad
    <2> QED
      BY <1>1, <2>1, <2>2
  <1> HIDE DEF Bad
  <1> DEFINE word == prevRun(x)
             w == word.start
             before == prevRun(w)
             b == before.start
  <1>5. f[x] = IF word.class # "letter" THEN x
        ELSE IF w = 0 THEN 0
        ELSE IF before.class # "other" THEN w
        ELSE IF Lone(b, w) THEN f[b]
        ELSE b
    <2>1. f[x] = Back(f, x)
      BY <1>2
    <2> QED
      BY <2>1 DEF Back
  <1>6. /\ w \in 0..x - 1
        /\ word.class = RunClass(x)
        /\ \A k \in w + 1..x : RunClass(k) = RunClass(x)
        /\ AtRun(w)
    BY <1>2, PrevRunIs
  <1>7. ASSUME w # 0
        PROVE  /\ b \in 0..w - 1
               /\ before.class = RunClass(w)
               /\ \A k \in b + 1..w : RunClass(k) = RunClass(w)
               /\ AtRun(b)
    <2>1. w \in 1..Len(text)
      BY <1>2, <1>6, <1>7
    <2> HIDE DEF w
    <2> QED
      BY <1>6, <2>1, PrevRunIs
  <1> HIDE DEF word, w, before, b
  <1>8. RunClass(x) \in {"letter", "digit", "other"} /\ RunClass(x) # RunClass(x + 1)
    <2>1. x # 0 /\ x # Len(text)
      BY <1>2
    <2> QED
      BY <1>2, <2>1, RunClassIs DEF AtRun
  <1>9. CASE RunClass(x) # "letter"
    <2>1. f[x] = x /\ RunClass(x) = "digit"
      BY <1>2, <1>5, <1>6, <1>8, <1>9
    <2>2. Clean(x)
      BY <1>2, <2>1, DigitEdge DEF Clean
    <2>3. x \in 0..x
      BY <1>2
    <2> QED
      BY <1>3, <2>1, <2>2, <2>3
  <1>10. CASE RunClass(x) = "letter" /\ w = 0
    <2>1. f[x] = 0
      BY <1>5, <1>6, <1>10
    <2>2. 0 \in 0..x
      BY <1>2
    <2> QED
      BY <1>3, <2>1, <2>2 DEF Clean
  <1>11. CASE RunClass(x) = "letter" /\ w # 0
    <2>1. w \in 1..Len(text) - 1 /\ w + 1 \in w + 1..x /\ w \in 0..x /\ w \in 1..Len(text)
          /\ w # 0 /\ w # Len(text)
      BY <1>2, <1>6, <1>11
    <2>2. RunClass(w + 1) = "letter" /\ RunClass(w) \in {"letter", "digit", "other"}
          /\ RunClass(w) # RunClass(w + 1)
      BY <1>6, <1>11, <2>1, RunClassIs DEF AtRun
    <2>3. CASE RunClass(w) # "other"
      <3>1. f[x] = w /\ RunClass(w) = "digit"
        BY <1>5, <1>6, <1>7, <1>11, <2>2, <2>3
      <3>2. Clean(w)
        BY <1>6, <2>1, <3>1, DigitEdge DEF Clean
      <3> QED
        BY <1>3, <2>1, <3>1, <3>2
    <2>4. CASE RunClass(w) = "other"
      <3>1. b \in 0..Len(text) - 1 /\ w \in b + 1..Len(text) /\ b + 1 \in b + 1..w /\ b \in 0..x
            /\ (b > 0 => b \in 1..x - 1 /\ \A z \in 0..b : z \in 0..x)
        BY <1>2, <1>6, <1>7, <1>11
      <3>2. RunClass(b + 1) = "other" /\ AtRun(b)
        BY <1>7, <1>11, <2>4, <3>1
      <3>3. OneRun(b, w)
        BY <1>7, <1>11, <2>4, <3>2 DEF OneRun
      <3>4. CASE Lone(b, w)
        <4>1. f[x] = f[b]
          BY <1>5, <1>6, <1>7, <1>11, <2>4, <3>4
        <4>2. b > 0
          BY <3>4 DEF Lone
        <4>3. f[b] \in 0..b /\ Clean(f[b])
          BY <1>4, <3>1, <3>2, <4>2
        <4> QED
          BY <1>3, <3>1, <4>1, <4>2, <4>3
      <3>5. CASE ~Lone(b, w)
        <4>1. f[x] = b
          BY <1>5, <1>6, <1>7, <1>11, <2>4, <3>5
        <4>2. Clean(b)
          BY <3>1, <3>2, <3>3, <3>5, CleanBefore DEF Lone
        <4> QED
          BY <1>3, <3>1, <4>1, <4>2
      <3> QED
        BY <3>4, <3>5
    <2> QED
      BY <2>3, <2>4
  <1> QED
    BY <1>9, <1>10, <1>11

\* The start of a region before a contraction.
LEMMA ContractionStartClean ==
    ASSUME text \in Seq(Runes), NEW r \in 0..Len(text) - 1, AtRun(r), RunClass(r + 1) = "other",
           NEW l \in r + 1..Len(text), OneRun(r, l)
    PROVE  contractionStart(r, l) \in 0..r /\ Clean(contractionStart(r, l))
  <1> DEFINE F == CHOOSE f : f = [x \in 0..Len(text) |-> Back(f, x)]
  <1>1. F = [x \in 0..Len(text) |-> Back(F, x)]
    BY BackExists, Zenon
  <1>2. contractionStart(r, l) = IF Lone(r, l) THEN F[r] ELSE r
    BY DEF contractionStart, Lone, Back
  <1> HIDE DEF F
  <1>3. CASE Lone(r, l)
    <2>1. r \in 1..Len(text) - 1
      BY <1>3 DEF Lone
    <2> QED
      BY <1>1, <1>2, <1>3, <2>1, BackClean
  <1>4. CASE ~Lone(r, l)
    <2>1. Clean(r)
      BY <1>4, CleanBefore DEF Lone
    <2> QED
      BY <1>2, <1>4, <2>1
  <1> QED
    BY <1>3, <1>4

\* Where a run ends that is looked for from any offset, an apostrophe before it, say.
LEMMA LettersAfter ==
    ASSUME text \in Seq(Runes), NEW p \in 0..Len(text) - 1
    PROVE  /\ runEnd(p).end \in p + 1..Len(text)
           /\ runEnd(p).class = "letter" =>
                 AtRun(runEnd(p).end) /\ RunClass(runEnd(p).end) = "letter"
           /\ runEnd(p).class # "letter" => text[p + 1] \notin Letters
  <1> DEFINE S == {e \in p..Len(text) : \A k \in p + 1..e : Joins(p, k)}
             e == Max(S)
             X == classes(p, e + 1)
  <1>1. Len(text) \in Nat /\ p + 1 \in 1..Len(text)
    OBVIOUS
  <1>2. p + 1 \in S
    <2>1. classes(p, p + 1) = {}
      BY DEF classes
    <2>2. \A j \in p + 1..(p + 1) - 1 : FALSE
      OBVIOUS
    <2>3. Joins(p, p + 1)
      BY <2>1, <2>2 DEF Joins
    <2>4. \A k \in p + 1..p + 1 : k = p + 1
      OBVIOUS
    <2> QED
      BY <1>1, <2>3, <2>4
  <1>3. e \in S /\ \A y \in S : y <= e
    <2>1. S \in SUBSET (0..Len(text)) /\ S # {}
      BY <1>2
    <2> HIDE DEF S
    <2> QED
      BY <1>1, <2>1, MaxIs
  <1>4. e \in p + 1..Len(text) /\ \A k \in p + 1..e : Joins(p, k)
    BY <1>2, <1>3
  <1>5. \A y \in p + 1..Len(text) : (\A k \in p + 1..y : Joins(p, k)) => y <= e
    BY <1>3
  <1>6. runEnd(p) = [class |-> IF X = {} THEN "other" ELSE CHOOSE x \in X : TRUE, end |-> e]
    BY DEF runEnd
  <1>7. \A x : x \in X <=> x # "mark" /\ \E j \in p + 1..e : x = classOf(text[j])
    <2>1. (e + 1) - 1 = e
      BY <1>4
    <2> HIDE DEF e
    <2> QED
      BY <2>1 DEF classes
  <1> HIDE DEF S, e
  <1>8. ASSUME "letter" \in X
        PROVE  \A k \in p + 1..e : classOf(text[k]) \in {"letter", "mark"}
    <2>1. PICK j \in p + 1..e : classOf(text[j]) = "letter"
      BY <1>7, <1>8
    <2> TAKE k \in p + 1..e
    <2>2. \A x, y : x \in classes(p, y) <=> x # "mark" /\ \E z \in p + 1..y - 1 : x = classOf(text[z])
      BY DEF classes
    <2>3. CASE k > j
      <3>1. j \in p + 1..k - 1
        BY <1>4, <2>3
      <3>2. "letter" \in classes(p, k)
        BY <2>1, <2>2, <3>1
      <3>3. Joins(p, k)
        BY <1>4
      <3> QED
        BY <3>2, <3>3 DEF Joins
    <2>4. CASE k < j
      <3>1. k \in p + 1..j - 1
        BY <1>4, <2>4
      <3>2. Joins(p, j)
        BY <1>4
      <3>3. classes(p, j) \subseteq {"letter"}
        BY <2>1, <3>2 DEF Joins
      <3>4. classOf(text[k]) # "mark" => classOf(text[k]) \in classes(p, j)
        BY <2>2, <3>1
      <3> QED
        BY <3>3, <3>4
    <2>5. CASE k = j
      BY <2>1, <2>5
    <2>6. k < j \/ k = j \/ k > j
      BY <1>4
    <2> QED
      BY <2>3, <2>4, <2>5, <2>6
  <1>9. runEnd(p).class = "letter" <=> "letter" \in X
    <2>1. ASSUME "letter" \in X PROVE \A x \in X : x = "letter"
      BY <1>7, <1>8, <2>1
    <2>2. X # {} => (CHOOSE x \in X : TRUE) \in X
      OBVIOUS
    <2> HIDE DEF X
    <2> QED
      BY <1>6, <2>1, <2>2
  <1>10. runEnd(p).class # "letter" => text[p + 1] \notin Letters
    <2> SUFFICES ASSUME text[p + 1] \in Letters PROVE "letter" \in X
      BY <1>9
    <2>1. p + 1 \in p + 1..e /\ text[p + 1] \in Runes
      BY <1>1, <1>4
    <2>2. classOf(text[p + 1]) = "letter"
      BY <2>1, ClassIs
    <2> QED
      BY <1>7, <2>1, <2>2
  <1>11. ASSUME "letter" \in X PROVE AtRun(e) /\ RunClass(e) = "letter"
    <2> DEFINE q == marksBefore(e)
    <2>1. e \in 0..Len(text)
      BY <1>4
    <2>2. /\ q \in 0..e
          /\ \A j \in q + 1..e : classOf(text[j]) = "mark"
          /\ q > 0 => classOf(text[q]) # "mark"
      BY <2>1, MarksIs
    <2>3. PICK j \in p + 1..e : classOf(text[j]) = "letter"
      BY <1>7, <1>11
    <2>4. q > 0 /\ q \in p + 1..e
      <3>1. j \notin q + 1..e
        BY <2>2, <2>3
      <3> QED
        BY <1>4, <2>2, <3>1
    <2>5. classOf(text[q]) = "letter"
      BY <1>8, <1>11, <2>2, <2>4
    <2>6. RunClass(e) = "letter"
      BY <2>4, <2>5 DEF RunClass
    <2>7. ASSUME e < Len(text) PROVE RunClass(e + 1) # "letter"
      <3> DEFINE k == e + 1
      <3>1. /\ k \in p + 1..Len(text) /\ k \in 1..Len(text) /\ ~(k <= e)
            /\ \A y \in p + 1..k : y \in p + 1..e \/ y = k
        BY <1>4, <2>7
      <3>2. X \subseteq {"letter"}
        BY <1>7, <1>8, <1>11
      <3>3. X = classes(p, k)
        OBVIOUS
      <3> HIDE DEF k, X
      <3>4. classOf(text[k]) = "mark" \/ classOf(text[k]) = "letter" => Joins(p, k)
        BY <3>2, <3>3 DEF Joins
      <3>5. ~Joins(p, k)
        <4> SUFFICES ASSUME Joins(p, k) PROVE FALSE
          OBVIOUS
        <4>1. \A y \in p + 1..k : Joins(p, y)
          BY <1>4, <3>1
        <4> QED
          BY <1>5, <3>1, <4>1
      <3>6. RunClass(k) # "letter"
        BY <3>1, <3>4, <3>5, RunClassPlain
      <3> QED
        BY <3>6 DEF k
    <2>8. AtRun(e)
      BY <1>4, <2>6, <2>7 DEF AtRun
    <2> QED
      BY <2>6, <2>8
  <1> QED
    BY <1>4, <1>6, <1>9, <1>10, <1>11

\* How Contractions goes on.
On(f, e) ==
    IF e + 1 < Len(text) /\ text[e + 1] = "'" /\ runEnd(e + 1).class = "letter"
    THEN f[runEnd(e + 1).end] ELSE e

\* The recursion of Contractions is well founded.
LEMMA OnExists ==
    ASSUME text \in Seq(Runes)
    PROVE  \E f : f = [e \in 0..Len(text) |-> On(f, e)]
  <1> DEFINE n == Len(text)
             stop == {e \in 0..n : ~(/\ e + 1 < n /\ text[e + 1] = "'"
                                     /\ runEnd(e + 1).class = "letter")}
             v == [e \in 0..n |-> e]
             g == [e \in 0..n |-> runEnd(e + 1).end]
             m == [e \in 0..n |-> n - e]
  <1>1. n \in Nat /\ m \in [0..n -> Nat]
    OBVIOUS
  <1>2. \A e \in 0..n : e \notin stop => g[e] \in 0..n /\ m[g[e]] < m[e]
    <2> SUFFICES ASSUME NEW e \in 0..n, e \notin stop PROVE g[e] \in 0..n /\ m[g[e]] < m[e]
      OBVIOUS
    <2> DEFINE p == e + 1
    <2>1. p \in 0..Len(text) - 1
      OBVIOUS
    <2>2. g[e] = runEnd(p).end
      OBVIOUS
    <2> HIDE DEF p, g
    <2>3. runEnd(p).end \in p + 1..Len(text)
      BY <2>1, LettersAfter
    <2> QED
      BY <2>2, <2>3 DEF p
  <1>3. ASSUME NEW f, NEW e \in 0..n
        PROVE  (IF e \in stop THEN v[e] ELSE f[g[e]]) = On(f, e)
    BY DEF On
  <1> HIDE DEF stop, v, g, m, n
  <1>4. PICK f : Looped(f, n, stop, v, g)
    BY <1>1, <1>2, LoopExists
  <1>5. f = [e \in 0..n |-> On(f, e)]
    BY <1>3, <1>4 DEF Looped
  <1> QED
    BY <1>5 DEF n

\* Ends of runs, those of symbols before letters apart.
Ends(e) ==
    /\ e \in 1..Len(text) /\ AtRun(e)
    /\ \/ e = Len(text)
       \/ RunClass(e) \in {"letter", "digit"}
       \/ RunClass(e + 1) = "digit"

\* Going on from the end of a run, Contractions stops where no piece crosses.
LEMMA OnEdge ==
    ASSUME text \in Seq(Runes), NEW f, f = [e \in 0..Len(text) |-> On(f, e)],
           NEW e, Ends(e)
    PROVE  f[e] \in e..Len(text) /\ AtRun(f[e]) /\ NoCross(f[e])
  <1> DEFINE Bad == {x \in 0..Len(text) :
                       Ends(x) /\ ~(f[x] \in x..Len(text) /\ AtRun(f[x]) /\ NoCross(f[x]))}
  <1> SUFFICES ASSUME Bad # {} PROVE FALSE
    BY DEF Ends
  <1>1. Len(text) \in Nat /\ Bad \in SUBSET (0..Len(text))
    OBVIOUS
  <1> DEFINE x == Max(Bad)
  <1>2. x \in Bad /\ \A y \in Bad : y <= x
    <2> HIDE DEF Bad
    <2> QED
      BY <1>1, MaxIs
  <1>3. /\ x \in 1..Len(text) /\ x \in 0..Len(text) /\ Ends(x)
        /\ ~(f[x] \in x..Len(text) /\ AtRun(f[x]) /\ NoCross(f[x]))
    BY <1>2 DEF Ends
  <1>4. ASSUME NEW y \in 0..Len(text), y > x, Ends(y)
        PROVE  f[y] \in y..Len(text) /\ AtRun(f[y]) /\ NoCross(f[y])
    <2> SUFFICES ASSUME y \in Bad PROVE FALSE
      BY <1>4
    <2> HIDE DEF Bad, x
    <2>1. y <= x /\ x \in Int
      BY <1>2, <1>3
    <2> QED
      BY <1>4, <2>1
  <1> HIDE DEF Bad, x
  <1>5. f[x] = IF x + 1 < Len(text) /\ text[x + 1] = "'" /\ runEnd(x + 1).class = "letter"
               THEN f[runEnd(x + 1).end] ELSE x
    <2>1. f[x] = On(f, x)
      BY <1>3
    <2> QED
      BY <2>1 DEF On
  <1>6. CASE x + 1 < Len(text) /\ text[x + 1] = "'" /\ runEnd(x + 1).class = "letter"
    <2> DEFINE p == x + 1
               y == runEnd(p).end
    <2>1. p \in 0..Len(text) - 1
      BY <1>3, <1>6
    <2>2. f[x] = f[y] /\ runEnd(p).class = "letter"
      BY <1>5, <1>6
    <2>a. p > x
      BY <1>3
    <2> HIDE DEF p
    <2>3. y \in p + 1..Len(text) /\ AtRun(y) /\ RunClass(y) = "letter"
      BY <2>1, <2>2, LettersAfter
    <2> HIDE DEF y
    <2>4. y \in 1..Len(text) /\ y \in 0..Len(text) /\ y > x
      BY <1>3, <2>1, <2>3, <2>a
    <2>5. Ends(y)
      BY <2>3, <2>4 DEF Ends
    <2>6. f[y] \in y..Len(text) /\ AtRun(f[y]) /\ NoCross(f[y])
      BY <1>4, <2>4, <2>5
    <2>7. f[y] \in x..Len(text)
      BY <1>3, <2>4, <2>6
    <2> QED
      BY <1>3, <2>2, <2>6, <2>7
  <1>7. CASE ~(x + 1 < Len(text) /\ text[x + 1] = "'" /\ runEnd(x + 1).class = "letter")
    <2>1. f[x] = x
      BY <1>5, <1>7
    <2>2. NoCross(x)
      <3>1. CASE x = Len(text)
        BY <3>1, EndEdge
      <3>2. CASE x # Len(text) /\ (RunClass(x) = "digit" \/ RunClass(x + 1) = "digit")
        <4>1. x \in 1..Len(text) - 1
          BY <1>3, <3>2
        <4> QED
          BY <1>3, <3>2, <4>1, DigitEdge DEF Ends
      <3>3. CASE x # Len(text) /\ RunClass(x) = "letter" /\ RunClass(x + 1) # "digit"
        <4> DEFINE p == x + 1
        <4>1. x \in 1..Len(text) - 1 /\ p \in 1..Len(text) /\ x # 0
          BY <1>3, <3>3
        <4>2. RunClass(p) = "other"
          <5>1. RunClass(x) # RunClass(p)
            BY <1>3, <3>3, <4>1 DEF Ends, AtRun
          <5>2. RunClass(p) \in {"letter", "digit", "other"}
            BY <4>1, RunClassIs
          <5> QED
            BY <3>3, <5>1, <5>2
        <4>3. ASSUME text[p] = "'", p + 1 <= Len(text), text[p + 1] \in Letters PROVE FALSE
          <5>1. p \in 0..Len(text) - 1
            BY <4>1, <4>3
          <5>2. runEnd(p).class # "letter"
            BY <1>3, <1>7, <4>3
          <5> HIDE DEF p
          <5> QED
            BY <4>3, <5>1, <5>2, LettersAfter
        <4>4. p + 1 = x + 2
          BY <1>3
        <4>5. ~(text[x + 1] = "'" /\ x + 2 <= Len(text) /\ text[x + 2] \in Letters)
          BY <4>3, <4>4
        <4> QED
          BY <3>3, <4>1, <4>2, <4>5, LetterEdge
      <3> QED
        BY <1>3, <3>1, <3>2, <3>3 DEF Ends
    <2>3. AtRun(x) /\ x \in x..Len(text)
      BY <1>3 DEF Ends
    <2> QED
      BY <1>3, <2>1, <2>2, <2>3
  <1> QED
    BY <1>6, <1>7

\* The end of a region.
LEMMA RegionEnd ==
    ASSUME text \in Seq(Runes), NEW b \in 1..Len(text), AtRun(b), RunClass(b) # "digit"
    PROVE  /\ Contractions(LeadRune(RunClass(b), b)) \in b..Len(text)
           /\ AtRun(Contractions(LeadRune(RunClass(b), b)))
           /\ NoCross(Contractions(LeadRune(RunClass(b), b)))
  <1> DEFINE F == CHOOSE f : f = [x \in 0..Len(text) |-> On(f, x)]
             e == LeadRune(RunClass(b), b)
  <1>1. F = [x \in 0..Len(text) |-> On(F, x)]
    BY OnExists, Zenon
  <1>2. Contractions(e) = F[e]
    BY DEF Contractions, On
  <1> HIDE DEF F
  <1>3. Ends(e) /\ e \in b..Len(text)
    <2>1. RunClass(b) \in {"letter", "digit", "other"}
      BY RunClassIs
    <2>2. CASE RunClass(b) # "letter" /\ b < Len(text) /\ runEnd(b).class = "letter"
      <3>1. e = runEnd(b).end
        BY <2>2 DEF LeadRune
      <3>2. b \in 0..Len(text) - 1
        BY <2>2
      <3>3. e \in b + 1..Len(text) /\ AtRun(e) /\ RunClass(e) = "letter"
        BY <2>2, <3>1, <3>2, LettersAfter
      <3> HIDE DEF e
      <3> QED
        BY <3>3 DEF Ends
    <2>3. CASE ~(RunClass(b) # "letter" /\ b < Len(text) /\ runEnd(b).class = "letter")
      <3>1. e = b
        BY <2>3 DEF LeadRune
      <3>2. CASE RunClass(b) = "letter" \/ b = Len(text)
        BY <3>1, <3>2 DEF Ends
      <3>3. CASE RunClass(b) # "letter" /\ b # Len(text)
        <4>1. b \in 0..Len(text) - 1 /\ b < Len(text) /\ b + 1 \in 1..Len(text) /\ b # 0
          BY <3>3
        <4>2. RunClass(b + 1) # "letter"
          BY <2>3, <3>3, <4>1, RunEndIs
        <4>3. RunClass(b + 1) \in {"letter", "digit", "other"}
          BY <4>1, RunClassIs
        <4>4. RunClass(b + 1) = "digit"
          BY <2>1, <3>3, <4>1, <4>2, <4>3 DEF AtRun
        <4> QED
          BY <3>1, <4>4 DEF Ends
      <3> QED
        BY <3>2, <3>3
    <2> QED
      BY <2>2, <2>3
  <1> HIDE DEF e
  <1>4. F[e] \in e..Len(text) /\ AtRun(F[e]) /\ NoCross(F[e])
    BY <1>1, <1>3, OnEdge
  <1>5. F[e] \in b..Len(text)
    BY <1>3, <1>4
  <1> QED
    BY <1>2, <1>4, <1>5 DEF e

-----------------------------------------------------------------------------
(* The offsets between pieces.                                             *)

\* All of the text is in the set, with every piece's end, and nothing else.
Cut(t, S) ==
    /\ 0 \in S /\ S \subseteq 0..Len(t)
    /\ \A j \in S : j < Len(t) => PieceEnd(t, j) \in S
    /\ \A j \in S : j # 0 => \E k \in S : k < j /\ PieceEnd(t, k) = j

Split(f, t, i) == IF i = Len(t) THEN {i} ELSE {i} \cup f[PieceEnd(t, i)]

\* The recursion of Boundaries is well founded.
LEMMA SplitExists ==
    ASSUME NEW t \in Seq(Runes)
    PROVE  \E f : f = [i \in 0..Len(t) |-> Split(f, t, i)]
  <1> DEFINE n == Len(t)
             Closed(C) == \A k \in C : k < n => PieceEnd(t, k) \in C
             R(i) == {j \in 0..n : \A C \in SUBSET (0..n) : i \in C /\ Closed(C) => j \in C}
             f == [i \in 0..n |-> R(i)]
  <1>1. \A i \in 0..n - 1 : PieceEnd(t, i) \in i + 1..n
    BY PieceIs
  <1>2. ASSUME NEW i \in 0..n - 1 PROVE R(i) = {i} \cup R(PieceEnd(t, i))
    <2> DEFINE e == PieceEnd(t, i)
    <2>1. i \in 0..n /\ i < n /\ e \in 0..n
      BY <1>1
    <2> HIDE DEF e
    <2>2. \A C : i \in C /\ Closed(C) => e \in C
      BY <2>1 DEF e
    <2>3. ASSUME NEW j \in 0..n, j \in R(e) PROVE j \in R(i)
      BY <2>2, <2>3
    <2>4. i \in R(i)
      BY <2>1
    <2>5. ASSUME NEW j \in R(i), j # i, j \notin R(e) PROVE FALSE
      <3>1. j \in 0..n
        OBVIOUS
      <3>2. PICK C \in SUBSET (0..n) : e \in C /\ Closed(C) /\ j \notin C
        BY <2>5, <3>1
      <3> DEFINE D == C \cup {i}
      <3>3. D \in SUBSET (0..n) /\ i \in D /\ j \notin D
        BY <2>1, <2>5, <3>2
      <3>4. Closed(D)
        BY <3>2 DEF e
      <3> HIDE DEF D
      <3> QED
        BY <3>3, <3>4
    <2>6. \A j : j \in R(i) <=> j = i \/ j \in R(e)
      BY <2>3, <2>4, <2>5
    <2> HIDE DEF R
    <2> QED
      BY <2>6 DEF e
  <1>3. R(n) = {n}
    <2>1. n \in R(n)
      OBVIOUS
    <2>2. ASSUME NEW j \in R(n) PROVE j = n
      <3>1. {n} \in SUBSET (0..n) /\ n \in {n} /\ Closed({n})
        OBVIOUS
      <3> QED
        BY <3>1
    <2> HIDE DEF R
    <2> QED
      BY <2>1, <2>2
  <1>4. ASSUME NEW i \in 0..n PROVE f[i] = Split(f, t, i)
    <2>1. CASE i = n
      BY <1>3, <2>1 DEF Split
    <2>2. CASE i # n
      <3>1. i \in 0..n - 1
        BY <2>2
      <3>2. PieceEnd(t, i) \in 0..n
        BY <1>1, <3>1
      <3> HIDE DEF R
      <3>3. f[i] = R(i) /\ f[PieceEnd(t, i)] = R(PieceEnd(t, i))
        BY <3>2
      <3> QED
        BY <1>2, <2>2, <3>1, <3>3 DEF Split
    <2> QED
      BY <2>1, <2>2
  <1> HIDE DEF R
  <1>5. f = [i \in 0..n |-> f[i]]
    OBVIOUS
  <1> HIDE DEF f
  <1>6. f = [i \in 0..n |-> Split(f, t, i)]
    BY <1>4, <1>5
  <1> QED
    BY <1>6

\* The same from i on.
CutFrom(t, S, i) ==
    /\ i \in S /\ S \subseteq i..Len(t)
    /\ \A j \in S : j < Len(t) => PieceEnd(t, j) \in S
    /\ \A j \in S : j # i => \E k \in S : k < j /\ PieceEnd(t, k) = j

\* What it collects from i on are the cuts from i on.
LEMMA SplitCuts ==
    ASSUME NEW t \in Seq(Runes), NEW f, f = [i \in 0..Len(t) |-> Split(f, t, i)]
    PROVE  \A i \in 0..Len(t) : CutFrom(t, f[i], i)
  <1> DEFINE Bad == {i \in 0..Len(t) : ~CutFrom(t, f[i], i)}
             x == Max(Bad)
  <1> SUFFICES ASSUME Bad # {} PROVE FALSE
    OBVIOUS
  <1>1. Len(t) \in Nat /\ Bad \in SUBSET (0..Len(t))
    OBVIOUS
  <1>2. x \in Bad /\ \A y \in Bad : y <= x
    <2> HIDE DEF Bad
    <2> QED
      BY <1>1, MaxIs
  <1>3. x \in 0..Len(t) /\ ~CutFrom(t, f[x], x)
    BY <1>2
  <1>4. ASSUME NEW y \in 0..Len(t), y > x PROVE CutFrom(t, f[y], y)
    <2> SUFFICES ASSUME y \in Bad PROVE FALSE
      OBVIOUS
    <2> HIDE DEF Bad, x
    <2>1. y <= x /\ x \in Int
      BY <1>2, <1>3
    <2> QED
      BY <1>4, <2>1
  <1> HIDE DEF Bad, x
  <1>5. f[x] = IF x = Len(t) THEN {x} ELSE {x} \cup f[PieceEnd(t, x)]
    <2>1. f[x] = Split(f, t, x)
      BY <1>3
    <2> QED
      BY <2>1 DEF Split
  <1>6. CASE x = Len(t)
    BY <1>3, <1>5, <1>6 DEF CutFrom
  <1>7. CASE x # Len(t)
    <2> DEFINE e == PieceEnd(t, x)
    <2>1. x \in 0..Len(t) - 1 /\ x < Len(t)
      BY <1>3, <1>7
    <2>2. e \in x + 1..Len(t)
      BY <2>1, PieceIs
    <2>3. f[x] = {x} \cup f[e]
      BY <1>5, <1>7
    <2>a. e = PieceEnd(t, x)
      OBVIOUS
    <2> HIDE DEF e
    <2>4. e \in 0..Len(t) /\ e > x
      BY <1>3, <2>2
    <2>5. CutFrom(t, f[e], e)
      BY <1>4, <2>4
    <2>6. x \in f[x] /\ f[x] \subseteq x..Len(t)
      <3>1. \A j \in f[e] : j \in e..Len(t)
        BY <2>5 DEF CutFrom
      <3>2. \A j \in e..Len(t) : j \in x..Len(t)
        BY <2>1, <2>4
      <3> QED
        BY <2>1, <2>3, <3>1, <3>2
    <2>7. \A j \in f[x] : j < Len(t) => PieceEnd(t, j) \in f[x]
      BY <2>3, <2>5, <2>a DEF CutFrom
    <2>8. \A j \in f[x] : j # x => \E k \in f[x] : k < j /\ PieceEnd(t, k) = j
      <3> SUFFICES ASSUME NEW j \in f[e] PROVE \E k \in f[x] : k < j /\ PieceEnd(t, k) = j
        BY <2>3
      <3>1. CASE j = e
        BY <2>4, <2>6, <2>a, <3>1
      <3>2. CASE j # e
        BY <2>3, <2>5, <3>2 DEF CutFrom
      <3> QED
        BY <3>1, <3>2
    <2> QED
      BY <1>3, <2>6, <2>7, <2>8 DEF CutFrom
  <1> QED
    BY <1>6, <1>7

\* Boundaries is what Cut describes.
LEMMA BoundariesCut ==
    ASSUME NEW t \in Seq(Runes)
    PROVE  Cut(t, Boundaries(t))
  <1> DEFINE F == CHOOSE f : f = [i \in 0..Len(t) |-> Split(f, t, i)]
  <1>1. F = [i \in 0..Len(t) |-> Split(F, t, i)]
    BY SplitExists, Zenon
  <1>2. Boundaries(t) = F[0]
    BY DEF Boundaries, Split
  <1> HIDE DEF F
  <1>3. 0 \in 0..Len(t)
    OBVIOUS
  <1>4. CutFrom(t, F[0], 0)
    BY <1>1, <1>3, SplitCuts
  <1> QED
    BY <1>2, <1>4 DEF Cut, CutFrom

\* What no piece crosses is a cut.
LEMMA NoCrossCut ==
    ASSUME text \in Seq(Runes), NEW p \in 0..Len(text), NoCross(p)
    PROVE  p \in Boundaries(text)
  <1> DEFINE B == Boundaries(text)
             S == {k \in B : k <= p}
             m == Max(S)
  <1>1. Cut(text, B)
    BY BoundariesCut
  <1> HIDE DEF B
  <1>c. 0 \in B /\ \A k \in B : k \in 0..Len(text)
    BY <1>1 DEF Cut
  <1>2. S \in SUBSET (0..Len(text)) /\ 0 \in S /\ Len(text) \in Nat
    <2>1. \A k \in S : k \in 0..Len(text)
      BY <1>c
    <2>2. 0 <= p
      OBVIOUS
    <2> QED
      BY <1>c, <2>1, <2>2
  <1>3. m \in S /\ \A y \in S : y <= m
    <2> HIDE DEF S
    <2> QED
      BY <1>2, MaxIs
  <1>4. m \in B /\ m <= p /\ m \in 0..Len(text)
    BY <1>1, <1>3 DEF Cut
  <1>5. \A y \in B : y <= p => y <= m
    BY <1>3
  <1> HIDE DEF S, m
  <1>6. ASSUME m # p PROVE FALSE
    <2>1. m \in 0..p - 1 /\ m \in 0..Len(text) - 1 /\ m < Len(text)
      BY <1>4, <1>6
    <2>2. PieceEnd(text, m) \in m + 1..Len(text) /\ PieceEnd(text, m) <= p
      BY <2>1, PieceIs DEF NoCross
    <2>3. PieceEnd(text, m) \in B
      BY <1>1, <1>4, <2>1 DEF Cut
    <2>4. PieceEnd(text, m) <= m
      BY <1>5, <2>2, <2>3
    <2> QED
      BY <2>1, <2>2, <2>4
  <1> QED
    BY <1>4, <1>6 DEF B

\* No piece that starts at a cut crosses another.
LEMMA CutsApart ==
    ASSUME NEW t \in Seq(Runes), NEW S, Cut(t, S), NEW j \in S, NEW c \in S, j < c
    PROVE  PieceEnd(t, j) <= c
  <1> DEFINE Bad == {x \in Nat : x \in S /\ \E y \in S : y < x /\ ~(PieceEnd(t, y) <= x)}
  <1> SUFFICES ASSUME Bad # {} PROVE FALSE
    BY DEF Cut
  <1>1. PICK x \in Bad : \A y \in Bad : x <= y
    BY LeastNat
  <1>2. PICK y \in S : y < x /\ ~(PieceEnd(t, y) <= x)
    BY <1>1
  <1>3. x \in S /\ x \in 0..Len(t) /\ y \in 0..Len(t)
    BY <1>1 DEF Cut
  <1>4. \A z \in S : z < x => \A w \in S : w < z => PieceEnd(t, w) <= z
    <2> SUFFICES ASSUME NEW z \in S, z < x, NEW w \in S, w < z, ~(PieceEnd(t, w) <= z) PROVE FALSE
      OBVIOUS
    <2>1. z \in 0..Len(t)
      BY DEF Cut
    <2>2. z \in Bad
      BY <2>1
    <2>3. x <= z
      BY <1>1, <2>2
    <2> QED
      BY <1>3, <2>1, <2>3
  <1> HIDE DEF Bad
  <1>5. x # 0
    BY <1>2, <1>3
  <1>6. PICK k \in S : k < x /\ PieceEnd(t, k) = x
    BY <1>3, <1>5 DEF Cut
  <1>7. k \in 0..Len(t) - 1 /\ y \in 0..Len(t) - 1
    <2>1. k \in 0..Len(t)
      BY DEF Cut
    <2> QED
      BY <1>2, <1>3, <1>6, <2>1
  <1>8. PieceEnd(t, y) \in Int
    BY <1>7, PieceIs
  <1>9. CASE k = y
    BY <1>2, <1>3, <1>6, <1>9
  <1>10. CASE y < k
    <2>1. PieceEnd(t, y) <= k
      BY <1>4, <1>6, <1>10
    <2> QED
      BY <1>2, <1>3, <1>6, <1>7, <1>8, <2>1
  <1>11. CASE k < y
    <2>1. PieceEnd(t, k) <= y
      BY <1>2, <1>4, <1>11
    <2> QED
      BY <1>2, <1>3, <1>6, <1>7, <2>1
  <1> QED
    BY <1>7, <1>9, <1>10, <1>11

-----------------------------------------------------------------------------
(* A part of the text on its own.                                          *)

Slice(t, u, a, b) ==
    /\ a \in 0..Len(t) /\ b \in a..Len(t)
    /\ u \in Seq(Runes) /\ Len(u) = b - a
    /\ \A k \in a + 1..b : u[k - a] = t[k]

\* SubSeq gives a part on its own.
LEMMA SubSeqSlice ==
    ASSUME NEW t \in Seq(Runes), NEW a \in 0..Len(t), NEW b \in a..Len(t)
    PROVE  Slice(t, SubSeq(t, a + 1, b), a, b)
  <1>1. \A k \in a + 1..b : k \in 1..Len(t)
    OBVIOUS
  <1>2. a + 1 \in 1..Len(t) + 1 /\ b \in (a + 1) - 1..Len(t)
    OBVIOUS
  <1> DEFINE u == SubSeq(t, a + 1, b)
  <1>3. u \in Seq(Runes) /\ Len(u) = b - a /\ \A k \in 1..b - a : u[k] = t[a + k]
    OBVIOUS
  <1> HIDE DEF u
  <1>4. ASSUME NEW k \in a + 1..b PROVE u[k - a] = t[k]
    <2>1. k - a \in 1..b - a /\ a + (k - a) = k
      OBVIOUS
    <2>2. u[k - a] = t[a + (k - a)]
      BY <1>3, <2>1
    <2> QED
      BY <2>1, <2>2
  <1>5. Slice(t, u, a, b)
    BY <1>3, <1>4 DEF Slice
  <1> QED
    BY <1>5 DEF u

\* A run in the part ends where it does in place, or with the part.
LEMMA RunOfSlice ==
    ASSUME NEW t \in Seq(Runes), NEW u, NEW a, NEW b, Slice(t, u, a, b),
           NEW i \in a..b, NEW runes
    PROVE  RunOf(u, i - a, runes)
             = IF RunOf(t, i, runes) <= b THEN RunOf(t, i, runes) - a ELSE b - a
  <1> DEFINE r == RunOf(t, i, runes)
             e == IF r <= b THEN r ELSE b
  <1>1. /\ a \in 0..Len(t) /\ b \in a..Len(t) /\ Len(t) \in Nat
        /\ u \in Seq(Runes) /\ Len(u) = b - a
        /\ \A k \in a + 1..b : u[k - a] = t[k]
    BY DEF Slice
  <1>2. i \in 0..Len(t)
    BY <1>1
  <1>3. r \in i..Len(t) /\ (\A k \in i + 1..r : t[k] \in runes) /\ (r < Len(t) => t[r + 1] \notin runes)
    BY <1>2, RunOfIs
  <1> HIDE DEF r
  <1>4. i - a \in 0..Len(u) /\ e - a \in i - a..Len(u) /\ e \in i..b
    BY <1>1, <1>3
  <1>5. \A k \in (i - a) + 1..e - a : u[k] \in runes
    <2> TAKE k \in (i - a) + 1..e - a
    <2> DEFINE x == k + a
    <2>1. x \in i + 1..r /\ x \in a + 1..b /\ x - a = k
      BY <1>1, <1>3, <1>4
    <2> HIDE DEF x
    <2> QED
      BY <1>1, <1>3, <2>1
  <1>6. e - a < Len(u) => u[(e - a) + 1] \notin runes
    <2> SUFFICES ASSUME e - a < Len(u) PROVE u[(e - a) + 1] \notin runes
      OBVIOUS
    <2>1. e = r /\ r < b /\ r < Len(t)
      BY <1>1, <1>3, <1>4
    <2> DEFINE x == r + 1
    <2>2. x \in a + 1..b /\ x - a = (e - a) + 1
      BY <1>1, <1>3, <2>1
    <2>3. t[x] \notin runes
      BY <1>3, <2>1
    <2> HIDE DEF x, e
    <2> QED
      BY <1>1, <2>2, <2>3
  <1>7. RunOf(u, i - a, runes) = e - a
    <2> DEFINE d == e - a
               j == i - a
    <2>1. j \in 0..Len(u) /\ d \in j..Len(u) /\ (\A k \in j + 1..d : u[k] \in runes)
          /\ (d < Len(u) => u[d + 1] \notin runes)
      BY <1>4, <1>5, <1>6
    <2> HIDE DEF d, j, e
    <2>2. RunOf(u, j, runes) = d
      BY <1>1, <2>1, RunOfUnique
    <2> QED
      BY <2>2 DEF d, j
  <1> QED
    BY <1>7 DEF r

\* A contraction that ends in the part is one there.
LEMMA ContractionSlice ==
    ASSUME NEW t \in Seq(Runes), NEW u, NEW a, NEW b, Slice(t, u, a, b),
           NEW c \in a..b, Contraction(t, c) <= b
    PROVE  Contraction(u, c - a) = Contraction(t, c) - a
  <1> DEFINE j == c - a
  <1>1. /\ a \in 0..Len(t) /\ b \in a..Len(t) /\ Len(t) \in Nat /\ Len(u) = b - a
        /\ \A k \in a + 1..b : u[k - a] = t[k]
    BY DEF Slice
  <1>2. /\ c + 1 <= b => u[j + 1] = t[c + 1]
        /\ c + 2 <= b => u[j + 2] = t[c + 2]
        /\ c + 3 <= b => u[j + 3] = t[c + 3]
    <2>1. c + 1 <= b => c + 1 \in a + 1..b /\ (c + 1) - a = j + 1
      BY <1>1
    <2>2. c + 2 <= b => c + 2 \in a + 1..b /\ (c + 2) - a = j + 2
      BY <1>1
    <2>3. c + 3 <= b => c + 3 \in a + 1..b /\ (c + 3) - a = j + 3
      BY <1>1
    <2> QED
      BY <1>1, <2>1, <2>2, <2>3
  <1>3. /\ j + 1 < Len(u) <=> c + 2 <= b
        /\ j + 2 < Len(u) <=> c + 3 <= b
        /\ c + 2 <= b => c + 1 <= b /\ c + 1 < Len(t)
        /\ c + 3 <= b => c + 1 <= b /\ c + 2 <= b /\ c + 2 < Len(t)
        /\ j + 2 = (c + 2) - a /\ j + 3 = (c + 3) - a
    BY <1>1
  <1> DEFINE S1 == c + 1 < Len(t) /\ t[c + 1] = "'" /\ t[c + 2] = "s"
             L1 == c + 2 < Len(t) /\ t[c + 1] = "'" /\ t[c + 2] = "l" /\ t[c + 3] = "l"
             S2 == j + 1 < Len(u) /\ u[j + 1] = "'" /\ u[j + 2] = "s"
             L2 == j + 2 < Len(u) /\ u[j + 1] = "'" /\ u[j + 2] = "l" /\ u[j + 3] = "l"
  <1>4. Contraction(t, c) = IF S1 THEN c + 2 ELSE IF L1 THEN c + 3 ELSE c
    BY DEF Contraction
  <1>5. Contraction(u, j) = IF S2 THEN j + 2 ELSE IF L2 THEN j + 3 ELSE j
    BY DEF Contraction
  <1>6. /\ S2 => S1
        /\ L2 => L1
        /\ S1 /\ c + 2 <= b => S2
        /\ L1 /\ c + 3 <= b => L2
        /\ ~(S1 /\ L1)
    BY <1>2, <1>3
  <1>7. S1 \/ (~S1 /\ L1) \/ (~S1 /\ ~L1)
    OBVIOUS
  <1> HIDE DEF S1, L1, S2, L2, j
  <1>8. CASE S1
    BY <1>3, <1>4, <1>5, <1>6, <1>8 DEF j
  <1>9. CASE ~S1 /\ L1
    <2>1. c + 3 <= b /\ Contraction(t, c) = c + 3
      BY <1>4, <1>9
    <2>2. L2 /\ ~S2
      BY <1>3, <1>6, <1>9, <2>1
    <2> QED
      BY <1>3, <1>5, <2>1, <2>2 DEF j
  <1>10. CASE ~S1 /\ ~L1
    BY <1>4, <1>5, <1>6, <1>10 DEF j
  <1> QED
    BY <1>7, <1>8, <1>9, <1>10

\* So is a match of LowerWord, and where it fails it fails in the part.
LEMMA LowerWordSlice ==
    ASSUME NEW t \in Seq(Runes), NEW u, NEW a, NEW b, Slice(t, u, a, b), NEW i \in a..b
    PROVE  /\ LowerWord(t, i) = 0 => LowerWord(u, i - a) = 0
           /\ LowerWord(t, i) # 0 /\ LowerWord(t, i) <= b =>
                 LowerWord(u, i - a) = LowerWord(t, i) - a /\ LowerWord(t, i) - a # 0
  <1> DEFINE d == i - a
             r == RunOf(t, i, Upper)
             q == RunOf(u, d, Upper)
  <1>1. /\ a \in 0..Len(t) /\ b \in a..Len(t) /\ Len(t) \in Nat
        /\ u \in Seq(Runes) /\ Len(u) = b - a
        /\ \A k \in a + 1..b : u[k - a] = t[k]
    BY DEF Slice
  <1>2. i \in 0..Len(t) /\ d \in 0..Len(u) /\ d + a = i
    BY <1>1
  <1>3. r \in i..Len(t)
    BY <1>2, RunOfIs
  <1>4. q = IF r <= b THEN r - a ELSE b - a
    BY RunOfSlice
  <1>5. /\ LowerWord(t, i) # 0 =>
             \E j \in i..Len(t) - 1 :
                   /\ j <= r /\ t[j + 1] \in Lower
                   /\ \A x \in i..Len(t) - 1 : (x <= r /\ t[x + 1] \in Lower) => x <= j
                   /\ LowerWord(t, i) = Contraction(t, RunOf(t, j, Lower))
        /\ LowerWord(t, i) = 0 =>
                \A x \in i..Len(t) - 1 : ~(x <= r /\ t[x + 1] \in Lower)
    BY <1>2, LowerWordIs
  <1>6. /\ LowerWord(u, d) # 0 =>
             \E j \in d..Len(u) - 1 :
                   /\ j <= q /\ u[j + 1] \in Lower
                   /\ \A x \in d..Len(u) - 1 : (x <= q /\ u[x + 1] \in Lower) => x <= j
                   /\ LowerWord(u, d) = Contraction(u, RunOf(u, j, Lower))
        /\ LowerWord(u, d) = 0 =>
                \A x \in d..Len(u) - 1 : ~(x <= q /\ u[x + 1] \in Lower)
    BY <1>1, <1>2, LowerWordIs
  <1> HIDE DEF r, q, d
  <1>7. ASSUME NEW x \in d..Len(u) - 1
        PROVE  /\ x + a \in i..b - 1 /\ x + a \in i..Len(t) - 1 /\ u[x + 1] = t[(x + a) + 1]
               /\ x <= q => x + a <= r
    <2>1. x + a \in i..b - 1 /\ x + a \in i..Len(t) - 1 /\ (x <= q => x + a <= r)
      BY <1>1, <1>2, <1>3, <1>4
    <2> DEFINE k == (x + a) + 1
    <2>2. k \in a + 1..b /\ k - a = x + 1
      BY <1>1, <1>2
    <2> HIDE DEF k
    <2>3. u[x + 1] = t[k]
      BY <1>1, <2>2
    <2> QED
      BY <2>1, <2>3 DEF k
  <1>8. ASSUME NEW j \in i..b - 1, j <= r
        PROVE  j - a \in d..Len(u) - 1 /\ j - a <= q /\ u[(j - a) + 1] = t[j + 1]
    <2>1. j - a \in d..Len(u) - 1 /\ j - a <= q
      BY <1>1, <1>2, <1>3, <1>4, <1>8
    <2> DEFINE k == j + 1
    <2>2. k \in a + 1..b /\ k - a = (j - a) + 1
      BY <1>1, <1>2
    <2>3. u[k - a] = t[k]
      BY <1>1, <2>2
    <2> QED
      BY <2>1, <2>2, <2>3
  <1>9. ASSUME LowerWord(t, i) = 0, LowerWord(u, d) # 0 PROVE FALSE
    <2>1. PICK x \in d..Len(u) - 1 : x <= q /\ u[x + 1] \in Lower
      BY <1>6, <1>9
    <2>2. x + a \in i..Len(t) - 1 /\ x + a <= r /\ t[(x + a) + 1] \in Lower
      BY <1>7, <2>1
    <2> QED
      BY <1>5, <1>9, <2>2
  <1>10. ASSUME LowerWord(t, i) # 0, LowerWord(t, i) <= b
         PROVE  LowerWord(u, d) = LowerWord(t, i) - a /\ LowerWord(t, i) - a # 0
    <2>1. PICK j \in i..Len(t) - 1 :
                   /\ j <= r /\ t[j + 1] \in Lower
                   /\ \A x \in i..Len(t) - 1 : (x <= r /\ t[x + 1] \in Lower) => x <= j
                   /\ LowerWord(t, i) = Contraction(t, RunOf(t, j, Lower))
      BY <1>5, <1>10
    <2> DEFINE c == RunOf(t, j, Lower)
    <2>2. c \in j..Len(t) /\ (c < Len(t) => t[c + 1] \notin Lower)
      <3>1. j \in 0..Len(t)
        BY <1>2
      <3> QED
        BY <3>1, RunOfIs
    <2>a. LowerWord(t, i) = Contraction(t, c)
      BY <2>1
    <2> HIDE DEF c
    <2>3. c # j
      BY <2>1, <2>2
    <2>4. c \in 0..Len(t) /\ c > j
      BY <1>2, <2>2, <2>3
    <2>5. Contraction(t, c) \in c..Len(t)
      BY <2>4, ContractionIs
    <2>6. c <= b /\ j \in i..b - 1 /\ LowerWord(t, i) - a # 0
      BY <1>1, <1>2, <1>10, <2>4, <2>5, <2>a
    <2>7. j - a \in d..Len(u) - 1 /\ j - a <= q /\ u[(j - a) + 1] \in Lower
      BY <1>8, <2>1, <2>6
    <2>8. LowerWord(u, d) # 0
      BY <1>6, <2>7
    <2>9. PICK y \in d..Len(u) - 1 :
                   /\ y <= q /\ u[y + 1] \in Lower
                   /\ \A x \in d..Len(u) - 1 : (x <= q /\ u[x + 1] \in Lower) => x <= y
                   /\ LowerWord(u, d) = Contraction(u, RunOf(u, y, Lower))
      BY <1>6, <2>8
    <2>10. y = j - a
      <3>1. j - a <= y
        BY <2>7, <2>9
      <3>2. y + a \in i..Len(t) - 1 /\ y + a <= r /\ t[(y + a) + 1] \in Lower
        BY <1>7, <2>9
      <3>3. y + a <= j
        BY <2>1, <3>2
      <3>4. y \in Int /\ j \in Int /\ a \in Int
        BY <1>1, <1>2
      <3> QED
        BY <3>1, <3>3, <3>4
    <2>11. RunOf(u, j - a, Lower) = c - a
      <3>1. j \in a..b
        BY <1>1, <2>6
      <3> QED
        BY <2>6, <3>1, RunOfSlice DEF c
    <2>12. Contraction(u, c - a) = Contraction(t, c) - a
      <3>1. c \in a..b /\ Contraction(t, c) <= b
        BY <1>1, <1>10, <2>4, <2>6, <2>a
      <3> QED
        BY <3>1, ContractionSlice
    <2> QED
      BY <2>6, <2>9, <2>10, <2>11, <2>12, <2>a
  <1> QED
    BY <1>9, <1>10 DEF d

\* The same of UpperWord.
LEMMA UpperWordSlice ==
    ASSUME NEW t \in Seq(Runes), NEW u, NEW a, NEW b, Slice(t, u, a, b), NEW i \in a..b
    PROVE  /\ UpperWord(t, i) = 0 => UpperWord(u, i - a) = 0
           /\ UpperWord(t, i) # 0 /\ UpperWord(t, i) <= b =>
                 UpperWord(u, i - a) = UpperWord(t, i) - a /\ UpperWord(t, i) - a # 0
  <1> DEFINE j == RunOf(t, i, Upper)
             c == RunOf(t, j, Lower)
             y == RunOf(u, i - a, Upper)
  <1>1. /\ a \in 0..Len(t) /\ b \in a..Len(t) /\ Len(t) \in Nat
        /\ u \in Seq(Runes) /\ Len(u) = b - a
    BY DEF Slice
  <1>2. i \in 0..Len(t)
    BY <1>1
  <1>3. j \in i..Len(t)
    BY <1>2, RunOfIs
  <1>4. y = IF j <= b THEN j - a ELSE b - a
    BY RunOfSlice
  <1>5. UpperWord(t, i) = IF j = i THEN 0 ELSE Contraction(t, c)
    BY DEF UpperWord
  <1>6. UpperWord(u, i - a) = IF y = i - a THEN 0 ELSE Contraction(u, RunOf(u, y, Lower))
    BY DEF UpperWord
  <1>7. j \in 0..Len(t)
    BY <1>2, <1>3
  <1> HIDE DEF j, y
  <1>8. c \in j..Len(t)
    BY <1>7, RunOfIs
  <1>c. c = RunOf(t, j, Lower)
    OBVIOUS
  <1> HIDE DEF c
  <1>9. c \in 0..Len(t)
    BY <1>7, <1>8
  <1>10. Contraction(t, c) \in c..Len(t)
    BY <1>9, ContractionIs
  <1>11. ASSUME UpperWord(t, i) = 0 PROVE UpperWord(u, i - a) = 0
    <2>1. j = i
      <3>1. j # i => Contraction(t, c) # 0
        BY <1>2, <1>3, <1>8, <1>10
      <3> QED
        BY <1>5, <1>11, <3>1
    <2>2. y = i - a
      BY <1>1, <1>4, <2>1
    <2> QED
      BY <1>6, <2>2
  <1>12. ASSUME UpperWord(t, i) # 0, UpperWord(t, i) <= b
         PROVE  UpperWord(u, i - a) = UpperWord(t, i) - a /\ UpperWord(t, i) - a # 0
    <2>1. j # i /\ UpperWord(t, i) = Contraction(t, c)
      BY <1>5, <1>12
    <2>2. c <= b /\ j <= b /\ Contraction(t, c) <= b /\ c > a
      BY <1>1, <1>2, <1>3, <1>8, <1>10, <1>12, <2>1
    <2>3. y = j - a /\ y # i - a
      BY <1>1, <1>3, <1>4, <2>1, <2>2
    <2>4. j \in a..b /\ c \in a..b
      BY <1>1, <1>3, <1>8, <2>2
    <2>5. RunOf(u, y, Lower) = c - a
      BY <1>c, <2>2, <2>3, <2>4, RunOfSlice
    <2>6. Contraction(u, c - a) = Contraction(t, c) - a
      BY <2>2, <2>4, ContractionSlice
    <2>7. UpperWord(u, i - a) = UpperWord(t, i) - a
      BY <1>6, <2>1, <2>3, <2>5, <2>6
    <2>8. Contraction(t, c) - a # 0
      BY <1>1, <1>8, <1>10, <1>7, <2>2
    <2> QED
      BY <2>1, <2>7, <2>8
  <1> QED
    BY <1>11, <1>12

\* The least of two numbers.
LEMMA MinPair ==
    ASSUME NEW x \in Nat, NEW y \in Nat
    PROVE  Min({x, y}) = IF x <= y THEN x ELSE y
  <1>1. {x, y} \in SUBSET Nat /\ {x, y} # {}
    OBVIOUS
  <1>2. Min({x, y}) \in {x, y} /\ \A z \in {x, y} : Min({x, y}) <= z
    BY <1>1, MinIs
  <1> QED
    BY <1>2

\* The same of Digits.
LEMMA DigitsSlice ==
    ASSUME NEW t \in Seq(Runes), NEW u, NEW a, NEW b, Slice(t, u, a, b), NEW i \in a..b - 1
    PROVE  /\ Digits(t, i) = 0 => Digits(u, i - a) = 0
           /\ Digits(t, i) # 0 /\ Digits(t, i) <= b =>
                 Digits(u, i - a) = Digits(t, i) - a /\ Digits(t, i) - a # 0
  <1> DEFINE r == RunOf(t, i, {"1"})
             q == RunOf(u, i - a, {"1"})
             j == i - a
  <1>1. /\ a \in 0..Len(t) /\ b \in a..Len(t) /\ Len(t) \in Nat
        /\ u \in Seq(Runes) /\ Len(u) = b - a
        /\ \A k \in a + 1..b : u[k - a] = t[k]
    BY DEF Slice
  <1>2. i \in 0..Len(t) - 1 /\ i + 1 \in a + 1..b /\ (i + 1) - a = j + 1 /\ j \in Nat
        /\ i \in 0..Len(t) /\ i \in a..b
    BY <1>1
  <1>3. u[j + 1] = t[i + 1]
    <2> DEFINE k == i + 1
    <2>1. k \in a + 1..b /\ k - a = j + 1
      BY <1>2
    <2> HIDE DEF k
    <2>2. u[k - a] = t[k]
      BY <1>1, <2>1
    <2> QED
      BY <2>1, <2>2 DEF k
  <1>4. r \in i..Len(t) /\ (r < Len(t) => t[r + 1] \notin {"1"})
    BY <1>2, RunOfIs
  <1>5. q = IF r <= b THEN r - a ELSE b - a
    BY <1>2, RunOfSlice
  <1>6. Digits(t, i) = IF t[i + 1] = "1" THEN Min({r, i + 3}) ELSE 0
    BY DEF Digits
  <1>7. Digits(u, j) = IF u[j + 1] = "1" THEN Min({q, j + 3}) ELSE 0
    BY DEF Digits
  <1> HIDE DEF r, q
  <1>8. Min({r, i + 3}) = IF r <= i + 3 THEN r ELSE i + 3
    BY <1>2, <1>4, MinPair
  <1>9. Min({q, j + 3}) = IF q <= j + 3 THEN q ELSE j + 3
    <2>1. q \in Nat /\ j + 3 \in Nat
      BY <1>1, <1>2, <1>4, <1>5
    <2> HIDE DEF j
    <2> QED
      BY <2>1, MinPair
  <1>10. CASE t[i + 1] # "1"
    BY <1>3, <1>6, <1>7, <1>10
  <1>11. CASE t[i + 1] = "1"
    <2>1. r # i
      BY <1>2, <1>4, <1>11
    <2>2. Digits(t, i) - a # 0 /\ Digits(t, i) # 0
      BY <1>1, <1>2, <1>4, <1>6, <1>8, <1>11, <2>1
    <2>3. Digits(t, i) <= b => Digits(u, j) = Digits(t, i) - a
      BY <1>1, <1>2, <1>3, <1>4, <1>5, <1>6, <1>7, <1>8, <1>9, <1>11
    <2> QED
      BY <1>1, <2>2, <2>3
  <1> QED
    BY <1>10, <1>11

\* The same of Symbols.
LEMMA SymbolsSlice ==
    ASSUME NEW t \in Seq(Runes), NEW u, NEW a, NEW b, Slice(t, u, a, b), NEW i \in a..b - 1
    PROVE  /\ Symbols(t, i) = 0 => Symbols(u, i - a) = 0
           /\ Symbols(t, i) # 0 /\ Symbols(t, i) <= b =>
                 Symbols(u, i - a) = Symbols(t, i) - a /\ Symbols(t, i) - a # 0
  <1> DEFINE j == i - a
             from == IF t[i + 1] = "sp" THEN i + 1 ELSE i
             end == RunOf(t, from, Symbol)
             e == RunOf(t, end, {"n"})
             from2 == IF u[j + 1] = "sp" THEN j + 1 ELSE j
             end2 == RunOf(u, from2, Symbol)
             e2 == RunOf(u, end2, {"n"})
  <1>1. /\ a \in 0..Len(t) /\ b \in a..Len(t) /\ Len(t) \in Nat
        /\ u \in Seq(Runes) /\ Len(u) = b - a
        /\ \A k \in a + 1..b : u[k - a] = t[k]
    BY DEF Slice
  <1>2. u[j + 1] = t[i + 1]
    <2> DEFINE k == i + 1
    <2>1. k \in a + 1..b /\ k - a = j + 1
      BY <1>1
    <2> HIDE DEF k
    <2>2. u[k - a] = t[k]
      BY <1>1, <2>1
    <2> QED
      BY <2>1, <2>2 DEF k
  <1>3. Symbols(t, i) = IF end = from THEN 0 ELSE e
    BY DEF Symbols
  <1>4. Symbols(u, j) = IF end2 = from2 THEN 0 ELSE e2
    BY DEF Symbols
  <1>5. from \in a..b /\ from2 = from - a /\ from \in 0..Len(t)
    BY <1>1, <1>2
  <1>6. end2 = RunOf(u, from - a, Symbol)
    BY <1>5
  <1> HIDE DEF from, from2
  <1>7. end \in from..Len(t)
    BY <1>5, RunOfIs
  <1>8. end2 = IF end <= b THEN end - a ELSE b - a
    BY <1>5, <1>6, RunOfSlice
  <1>9. e2 = RunOf(u, end2, {"n"}) /\ e = RunOf(t, end, {"n"})
    OBVIOUS
  <1> HIDE DEF end, end2, e, e2, j
  <1>10. end \in 0..Len(t)
    BY <1>5, <1>7
  <1>11. e \in end..Len(t)
    BY <1>9, <1>10, RunOfIs
  <1>12. CASE end = from
    <2>1. end2 = from2
      BY <1>1, <1>5, <1>8, <1>12
    <2> QED
      BY <1>3, <1>4, <1>12, <2>1 DEF j
  <1>13. CASE end # from
    <2>1. Symbols(t, i) = e /\ e - a # 0 /\ e # 0
      BY <1>1, <1>3, <1>5, <1>7, <1>11, <1>13
    <2>2. ASSUME e <= b PROVE Symbols(u, j) = e - a
      <3>1. end \in a..b /\ end2 = end - a
        BY <1>1, <1>5, <1>7, <1>8, <1>11, <2>2
      <3>2. e2 = e - a
        BY <1>9, <2>2, <3>1, RunOfSlice
      <3>3. end2 # from2
        BY <1>1, <1>5, <1>7, <1>13, <3>1
      <3> QED
        BY <1>4, <3>2, <3>3
    <2> QED
      BY <1>1, <2>1, <2>2 DEF j
  <1> QED
    BY <1>12, <1>13

\* The part ends where the text does, or not inside a run of spaces that has
\* more than spaces after it.
SliceEnd(t, b) == b = Len(t) \/ ~(t[b] = "sp" /\ t[b + 1] \notin Space)

\* The same of Spaces, provided the part does not end between spaces and what they lead.
LEMMA SpacesSlice ==
    ASSUME NEW t \in Seq(Runes), NEW u, NEW a, NEW b, Slice(t, u, a, b), NEW i \in a..b - 1,
           t[i + 1] \in Space, SliceEnd(t, b), Spaces(t, i) <= b
    PROVE  Spaces(u, i - a) = Spaces(t, i) - a
  <1> DEFINE j == i - a
             end == RunOf(t, i, Space)
             newlines == {x \in i + 1..end : t[x] = "n"}
             end2 == RunOf(u, j, Space)
             newlines2 == {x \in j + 1..end2 : u[x] = "n"}
             m == Max(newlines)
             m2 == Max(newlines2)
  <1>1. /\ a \in 0..Len(t) /\ b \in a..Len(t) /\ Len(t) \in Nat
        /\ u \in Seq(Runes) /\ Len(u) = b - a
        /\ \A k \in a + 1..b : u[k - a] = t[k]
    BY DEF Slice
  <1>2. Spaces(t, i) = IF newlines # {} THEN m
                       ELSE IF end < Len(t) /\ end > i + 1 THEN end - 1 ELSE end
    BY DEF Spaces
  <1>3. Spaces(u, j) = IF newlines2 # {} THEN m2
                       ELSE IF end2 < Len(u) /\ end2 > j + 1 THEN end2 - 1 ELSE end2
    BY DEF Spaces
  <1>4. i \in 0..Len(t) /\ i \in a..b /\ i < Len(t) /\ i < b
    BY <1>1
  <1>5. /\ end \in i..Len(t)
        /\ \A k \in i + 1..end : t[k] \in Space
        /\ end < Len(t) => t[end + 1] \notin Space
    BY <1>4, RunOfIs
  <1>6. end2 = IF end <= b THEN end - a ELSE b - a
    BY <1>4, RunOfSlice
  <1>7. /\ newlines # {} => m \in newlines /\ \A x \in newlines : x <= m
        /\ newlines2 # {} => m2 \in newlines2 /\ \A x \in newlines2 : x <= m2
    <2>1. newlines \in SUBSET (0..Len(t)) /\ newlines2 \in SUBSET (0..Len(t))
      BY <1>1, <1>4, <1>5, <1>6
    <2> HIDE DEF newlines, newlines2
    <2> QED
      BY <1>1, <2>1, MaxIs
  <1>8. \A x : x \in newlines <=> x \in i + 1..end /\ t[x] = "n"
    OBVIOUS
  <1>9. \A x : x \in newlines2 <=> x \in j + 1..end2 /\ u[x] = "n"
    OBVIOUS
  <1> HIDE DEF newlines, newlines2, m, m2, end, end2
  <1>10. \A x \in j + 1..end2 : x + a \in i + 1..end /\ x + a <= b /\ x + a \in a + 1..b /\ (x + a) - a = x
    BY <1>1, <1>4, <1>5, <1>6
  <1>11. \A x \in i + 1..end : x <= b => x - a \in j + 1..end2 /\ x \in a + 1..b
    BY <1>1, <1>4, <1>5, <1>6
  <1>12. \A x \in newlines2 : x + a \in newlines /\ x + a <= b
    <2> TAKE x \in newlines2
    <2>1. x \in j + 1..end2 /\ u[x] = "n"
      BY <1>9
    <2> DEFINE y == x + a
    <2>2. y \in i + 1..end /\ y <= b /\ y \in a + 1..b /\ y - a = x
      BY <1>10, <2>1
    <2> HIDE DEF y
    <2>3. y \in newlines /\ y <= b
      BY <1>1, <1>8, <2>1, <2>2
    <2> QED
      BY <2>3 DEF y
  <1>13. \A x \in newlines : x <= b => x - a \in newlines2
    <2> SUFFICES ASSUME NEW x \in newlines, x <= b PROVE x - a \in newlines2
      OBVIOUS
    <2>1. x \in i + 1..end /\ t[x] = "n"
      BY <1>8
    <2>2. x - a \in j + 1..end2 /\ x \in a + 1..b
      BY <1>11, <2>1
    <2>3. u[x - a] = "n"
      BY <1>1, <2>1, <2>2
    <2> QED
      BY <1>9, <2>2, <2>3
  <1>14. end # i /\ end > i
    BY <1>4, <1>5
  <1>15. CASE newlines # {}
    <2>1. Spaces(t, i) = m /\ m <= b /\ m \in newlines /\ \A x \in newlines : x <= m
      BY <1>2, <1>7, <1>15
    <2>2. m - a \in newlines2
      BY <1>13, <2>1
    <2>3. newlines2 # {} /\ m2 \in newlines2 /\ \A x \in newlines2 : x <= m2
      BY <1>7, <2>2
    <2>4. m2 + a <= m /\ m - a <= m2
      BY <1>12, <2>1, <2>2, <2>3
    <2>5. m \in Int /\ m2 \in Int
      BY <1>1, <1>4, <1>5, <1>6, <1>8, <1>9, <2>1, <2>3
    <2>a. a \in Int
      BY <1>1
    <2>6. m2 = m - a
      BY <2>a, <2>4, <2>5
    <2> QED
      BY <1>3, <2>1, <2>3, <2>6
  <1>16. CASE newlines = {}
    <2>1. newlines2 = {}
      BY <1>12, <1>16
    <2>2. Spaces(t, i) = IF end < Len(t) /\ end > i + 1 THEN end - 1 ELSE end
      BY <1>2, <1>16
    <2>3. Spaces(u, j) = IF end2 < Len(u) /\ end2 > j + 1 THEN end2 - 1 ELSE end2
      BY <1>3, <2>1
    <2>4. CASE end = b
      <3>1. b \in i + 1..end
        BY <1>4, <1>5, <1>14, <2>4
      <3>2. t[b] = "sp"
        BY <1>5, <1>8, <1>16, <3>1 DEF Space
      <3>3. b = Len(t)
        <4> SUFFICES ASSUME b # Len(t) PROVE FALSE
          OBVIOUS
        <4>1. end < Len(t)
          BY <1>1, <1>5, <2>4
        <4>2. t[b + 1] \notin Space
          BY <1>5, <2>4, <4>1
        <4> QED
          BY <3>2, <4>2 DEF SliceEnd
      <3> QED
        BY <1>1, <1>5, <1>6, <2>2, <2>3, <2>4, <3>3
    <2>5. CASE end < b
      BY <1>1, <1>5, <1>6, <2>2, <2>3, <2>5
    <2>6. CASE end > b
      <3>1. Spaces(t, i) = b
        BY <1>1, <1>4, <1>5, <2>2, <2>6
      <3>2. end2 = b - a
        BY <1>1, <1>5, <1>6, <2>6
      <3> QED
        BY <1>1, <2>3, <3>1, <3>2
    <2> QED
      BY <1>1, <1>5, <2>4, <2>5, <2>6
  <1> QED
    BY <1>15, <1>16

\* A piece that ends inside the part is a piece of the part.
LEMMA PieceSlice ==
    ASSUME NEW t \in Seq(Runes), NEW u, NEW a, NEW b, Slice(t, u, a, b), NEW i \in a..b - 1,
           SliceEnd(t, b), PieceEnd(t, i) <= b
    PROVE  PieceEnd(u, i - a) = PieceEnd(t, i) - a
  <1> DEFINE j == i - a
             e == PieceEnd(t, i)
  <1>1. /\ a \in 0..Len(t) /\ b \in a..Len(t) /\ Len(t) \in Nat
        /\ u \in Seq(Runes) /\ Len(u) = b - a
        /\ \A k \in a + 1..b : u[k - a] = t[k]
    BY DEF Slice
  <1>2. u[j + 1] = t[i + 1]
    <2> DEFINE k == i + 1
    <2>1. k \in a + 1..b /\ k - a = j + 1
      BY <1>1
    <2> HIDE DEF k
    <2>2. u[k - a] = t[k]
      BY <1>1, <2>1
    <2> QED
      BY <2>1, <2>2 DEF k
  <1>3. i \in 0..Len(t) - 1 /\ i \in a..b /\ (i + 1) - a = j + 1 /\ i + 1 \in a..b
    BY <1>1
  <1>4. e = Else(LedLower(t, i), Else(LedUpper(t, i), Else(Digits(t, i), Else(Symbols(t, i), Spaces(t, i)))))
    BY PieceEndIs
  <1>5. PieceEnd(u, j)
          = Else(LedLower(u, j), Else(LedUpper(u, j), Else(Digits(u, j), Else(Symbols(u, j), Spaces(u, j)))))
    BY PieceEndIs
  <1> DEFINE Same(x, y) == (x = 0 => y = 0) /\ (x # 0 /\ x <= b => y = x - a /\ y # 0)
  <1>6. Same(LowerWord(t, i), LowerWord(u, j)) /\ Same(UpperWord(t, i), UpperWord(u, j))
    BY <1>3, LowerWordSlice, UpperWordSlice
  <1>7. Same(LowerWord(t, i + 1), LowerWord(u, j + 1)) /\ Same(UpperWord(t, i + 1), UpperWord(u, j + 1))
    <2> DEFINE x == i + 1
    <2>1. x \in a..b
      BY <1>3
    <2>2. /\ LowerWord(t, x) = 0 => LowerWord(u, x - a) = 0
          /\ LowerWord(t, x) # 0 /\ LowerWord(t, x) <= b =>
                 LowerWord(u, x - a) = LowerWord(t, x) - a /\ LowerWord(t, x) - a # 0
      <3> HIDE DEF x
      <3> QED
        BY <2>1, LowerWordSlice
    <2>3. /\ UpperWord(t, x) = 0 => UpperWord(u, x - a) = 0
          /\ UpperWord(t, x) # 0 /\ UpperWord(t, x) <= b =>
                 UpperWord(u, x - a) = UpperWord(t, x) - a /\ UpperWord(t, x) - a # 0
      <3> HIDE DEF x
      <3> QED
        BY <2>1, UpperWordSlice
    <2>4. x - a = j + 1
      BY <1>3
    <2> QED
      BY <2>2, <2>3, <2>4
  <1>8. Same(Digits(t, i), Digits(u, j)) /\ Same(Symbols(t, i), Symbols(u, j))
    BY DigitsSlice, SymbolsSlice
  <1>9. \A x, y, z, w : Same(x, y) /\ Same(z, w) => Same(Else(x, z), Else(y, w))
    <2> SUFFICES ASSUME NEW x, NEW y, NEW z, NEW w, Same(x, y), Same(z, w)
                 PROVE  Same(Else(x, z), Else(y, w))
      OBVIOUS
    <2>1. CASE x = 0
      BY <2>1 DEF Else
    <2>2. CASE x # 0 /\ x <= b
      <3>1. y # 0
        BY <1>1, <2>2
      <3> QED
        BY <2>2, <3>1 DEF Else
    <2>3. CASE x # 0 /\ ~(x <= b)
      BY <2>3 DEF Else
    <2> QED
      BY <2>1, <2>2, <2>3
  <1> DEFINE P(x) == IF t[i + 1] \in Lead THEN x ELSE 0
  <1>10. Same(LedLower(t, i), LedLower(u, j)) /\ Same(LedUpper(t, i), LedUpper(u, j))
    <2>1. /\ LedLower(t, i) = Else(P(LowerWord(t, i + 1)), LowerWord(t, i))
          /\ LedUpper(t, i) = Else(P(UpperWord(t, i + 1)), UpperWord(t, i))
      BY DEF LedLower, LedUpper
    <2>2. /\ LedLower(u, j) = Else(P(LowerWord(u, j + 1)), LowerWord(u, j))
          /\ LedUpper(u, j) = Else(P(UpperWord(u, j + 1)), UpperWord(u, j))
      BY <1>2 DEF LedLower, LedUpper
    <2>3. \A x, y : Same(x, y) => Same(P(x), P(y))
      OBVIOUS
    <2> HIDE DEF Same, P, j
    <2> QED
      BY <1>6, <1>7, <1>9, <2>1, <2>2, <2>3
  <1>11. CASE Symbols(t, i) = 0 /\ Digits(t, i) = 0 /\ LedUpper(t, i) = 0 /\ LedLower(t, i) = 0
    <2>1. e = Spaces(t, i) /\ PieceEnd(u, j) = Spaces(u, j)
      BY <1>4, <1>5, <1>8, <1>10, <1>11 DEF Else
    <2>2. t[i + 1] \in Space
      <3>1. t[i + 1] \in Runes
        BY <1>3
      <3>2. LowerWord(t, i) = 0 /\ UpperWord(t, i) = 0
        BY <1>11 DEF LedLower, LedUpper, Else
      <3>3. t[i + 1] \notin Lower /\ t[i + 1] \notin Upper /\ t[i + 1] \notin Symbol
        BY <1>3, <1>11, <3>2, WordsFirst, SymbolsIs
      <3>4. t[i + 1] # "1"
        <4> SUFFICES ASSUME t[i + 1] = "1" PROVE FALSE
          OBVIOUS
        <4>1. RunOf(t, i, {"1"}) \in i..Len(t) /\ i \in Nat
              /\ (RunOf(t, i, {"1"}) < Len(t) => t[RunOf(t, i, {"1"}) + 1] \notin {"1"})
          BY <1>3, RunOfIs
        <4> DEFINE r == RunOf(t, i, {"1"})
        <4> HIDE DEF r
        <4>2. r # i /\ r \in Nat /\ i + 3 \in Nat
          BY <1>3, <4>1 DEF r
        <4>3. Digits(t, i) = Min({r, i + 3})
          BY DEF Digits, r
        <4>4. Min({r, i + 3}) # 0
          BY <4>1, <4>2, MinPair DEF r
        <4> QED
          BY <1>11, <4>3, <4>4
      <3> QED
        BY <3>1, <3>3, <3>4 DEF Runes, Letters, Space, Upper, Lower, Symbol
    <2>3. Spaces(u, j) = Spaces(t, i) - a
      BY <2>1, <2>2, SpacesSlice
    <2> QED
      BY <2>1, <2>3
  <1>12. CASE ~(Symbols(t, i) = 0 /\ Digits(t, i) = 0 /\ LedUpper(t, i) = 0 /\ LedLower(t, i) = 0)
    <2> DEFINE T(s) == Else(LedLower(t, i), Else(LedUpper(t, i), Else(Digits(t, i), Else(Symbols(t, i), s))))
               U(s) == Else(LedLower(u, j), Else(LedUpper(u, j), Else(Digits(u, j), Else(Symbols(u, j), s))))
    <2>1. e = T(0) /\ e # 0
      BY <1>4, <1>12 DEF Else
    <2>2. Same(0, 0)
      OBVIOUS
    <2>3. Same(T(0), U(0))
      <3> HIDE DEF Same, j
      <3> QED
        BY <1>8, <1>9, <1>10, <2>2
    <2>4. U(0) = e - a /\ U(0) # 0
      BY <2>1, <2>3
    <2>6. PieceEnd(u, j) = U(0)
      <3> HIDE DEF j
      <3> QED
        BY <1>5, <2>4 DEF Else
    <2> QED
      BY <2>4, <2>6
  <1> QED
    BY <1>11, <1>12

\* A part between two cuts is cut where the whole text is.
LEMMA CutsSlice ==
    ASSUME NEW t \in Seq(Runes), NEW u, NEW a, NEW b, Slice(t, u, a, b),
           NEW S, Cut(t, S), a \in S, b \in S, SliceEnd(t, b),
           NEW B, Cut(u, B)
    PROVE  \A j \in a..b : j - a \in B <=> j \in S
  <1>1. /\ a \in 0..Len(t) /\ b \in a..Len(t) /\ Len(t) \in Nat /\ a \in Nat /\ b \in Nat
        /\ u \in Seq(Runes) /\ Len(u) = b - a
    BY DEF Slice
  <1>2. ASSUME NEW i \in a..b - 1, i \in S
        PROVE  /\ PieceEnd(t, i) \in i + 1..b /\ PieceEnd(t, i) \in S
               /\ PieceEnd(u, i - a) = PieceEnd(t, i) - a
    <2>1. i < b /\ i \in 0..Len(t) - 1 /\ i < Len(t)
      BY <1>1
    <2>2. PieceEnd(t, i) <= b
      BY <1>2, <2>1, CutsApart
    <2>3. PieceEnd(t, i) \in i + 1..Len(t)
      BY <2>1, PieceIs
    <2>4. PieceEnd(t, i) \in S
      BY <1>2, <2>1 DEF Cut
    <2>5. PieceEnd(u, i - a) = PieceEnd(t, i) - a
      BY <2>2, PieceSlice
    <2> QED
      BY <1>1, <2>2, <2>3, <2>4, <2>5
  <1> DEFINE Bad == {j \in Nat : j \in a..b /\ ~(j - a \in B <=> j \in S)}
  <1> SUFFICES ASSUME Bad # {} PROVE FALSE
    BY <1>1
  <1>3. PICK x \in Bad : \A y \in Bad : x <= y
    BY LeastNat
  <1>4. x \in a..b /\ ~(x - a \in B <=> x \in S)
    BY <1>3
  <1>5. \A y \in a..x - 1 : y - a \in B <=> y \in S
    <2> SUFFICES ASSUME NEW y \in a..x - 1, ~(y - a \in B <=> y \in S) PROVE FALSE
      OBVIOUS
    <2>1. y \in Nat /\ y \in a..b /\ ~(x <= y)
      BY <1>1, <1>4
    <2>2. y \in Bad
      BY <2>1
    <2> HIDE DEF Bad
    <2> QED
      BY <1>3, <2>1, <2>2
  <1> HIDE DEF Bad
  <1>6. x # a
    <2>1. a - a = 0 /\ 0 \in B
      BY <1>1 DEF Cut
    <2> QED
      BY <1>4, <2>1
  <1>7. ASSUME x - a \in B PROVE x \in S
    <2>1. x - a # 0
      BY <1>1, <1>4, <1>6
    <2>2. PICK k \in B : k < x - a /\ PieceEnd(u, k) = x - a
      BY <1>7, <2>1 DEF Cut
    <2>3. k \in 0..Len(u)
      BY DEF Cut
    <2> DEFINE i == k + a
    <2>4. i \in a..x - 1 /\ i - a = k /\ i \in a..b - 1
      BY <1>1, <1>4, <2>2, <2>3
    <2> HIDE DEF i
    <2>5. i \in S
      BY <1>5, <2>4
    <2>6. PieceEnd(t, i) \in S /\ PieceEnd(t, i) \in i + 1..b /\ x - a = PieceEnd(t, i) - a
      BY <1>2, <2>2, <2>4, <2>5
    <2>7. x = PieceEnd(t, i)
      BY <1>1, <1>4, <2>4, <2>6
    <2> QED
      BY <2>6, <2>7
  <1>8. ASSUME x \in S PROVE x - a \in B
    <2>1. x # 0
      BY <1>1, <1>4, <1>6
    <2>2. PICK k \in S : k < x /\ PieceEnd(t, k) = x
      BY <1>8, <2>1 DEF Cut
    <2>3. k \in 0..Len(t)
      BY DEF Cut
    <2>4. k >= a
      <3> SUFFICES ASSUME k < a PROVE FALSE
        BY <1>1, <2>3
      <3>1. PieceEnd(t, k) <= a
        BY CutsApart
      <3> QED
        BY <1>1, <1>4, <1>6, <2>2, <3>1
    <2>5. k \in a..x - 1 /\ k \in a..b - 1 /\ k - a \in 0..Len(u) /\ k - a < Len(u)
      BY <1>1, <1>4, <2>2, <2>3, <2>4
    <2>6. k - a \in B
      BY <1>5, <2>5
    <2>7. PieceEnd(u, k - a) = x - a
      BY <1>2, <2>2, <2>5
    <2>8. PieceEnd(u, k - a) \in B
      BY <2>5, <2>6 DEF Cut
    <2> QED
      BY <2>7, <2>8
  <1> QED
    BY <1>4, <1>7, <1>8

-----------------------------------------------------------------------------
(* How long a piece can be.                                                *)

\* Runs between two offsets that the codec can take.
Short(a, b) ==
    \A x, y \in a..b : x < y /\ OneRun(x, y) /\ RunClass(x + 1) # "digit" => y - x < limit

\* Marks go on with the run of the rune before them.
LEMMA MarksFollow ==
    ASSUME text \in Seq(Runes), NEW x \in 0..Len(text) - 1, NEW y \in x + 1..Len(text),
           classOf(text[x + 1]) # "digit", \A k \in x + 2..y : classOf(text[k]) = "mark"
    PROVE  OneRun(x, y)
  <1> DEFINE Bad == {k \in Nat : k \in x + 1..y /\ RunClass(k) # RunClass(x + 1)}
  <1> SUFFICES ASSUME Bad # {} PROVE FALSE
    BY DEF OneRun
  <1>1. PICK k \in Bad : \A j \in Bad : k <= j
    BY LeastNat
  <1>2. k \in x + 2..y /\ RunClass(k) # RunClass(x + 1) /\ k - 1 \in x + 1..y /\ k - 1 \in Nat
        /\ k \in 2..Len(text) /\ ~(k <= k - 1)
    BY <1>1
  <1>3. RunClass(k - 1) = RunClass(x + 1)
    BY <1>1, <1>2
  <1>4. classOf(text[k]) = "mark" /\ classOf(text[k - 1]) # "digit"
    <2>1. k - 1 = x + 1 \/ k - 1 \in x + 2..y
      BY <1>2
    <2> QED
      BY <1>2, <2>1
  <1> QED
    BY <1>2, <1>3, <1>4, RunClassMark

\* Letters, and the marks among them, are of one run.
LEMMA LettersFollow ==
    ASSUME text \in Seq(Runes), NEW x \in 0..Len(text) - 1, NEW y \in x + 1..Len(text),
           classOf(text[x + 1]) = "letter", \A k \in x + 1..y : classOf(text[k]) \in {"letter", "mark"}
    PROVE  OneRun(x, y) /\ RunClass(x + 1) = "letter"
  <1> DEFINE Bad == {k \in Nat : k \in x + 1..y /\ RunClass(k) # "letter"}
  <1>1. RunClass(x + 1) = "letter"
    <2> DEFINE k == x + 1
    <2>1. k \in 1..Len(text) /\ classOf(text[k]) = "letter"
      OBVIOUS
    <2> HIDE DEF k
    <2>2. RunClass(k) = "letter"
      BY <2>1, RunClassPlain
    <2> QED
      BY <2>2 DEF k
  <1> SUFFICES ASSUME Bad # {} PROVE FALSE
    BY <1>1 DEF OneRun
  <1>2. PICK k \in Bad : \A j \in Bad : k <= j
    BY LeastNat
  <1>3. k \in x + 2..y /\ RunClass(k) # "letter" /\ k - 1 \in x + 1..y /\ k - 1 \in Nat
        /\ k \in 2..Len(text) /\ ~(k <= k - 1) /\ k \in x + 1..y /\ k \in 1..Len(text)
        /\ k - 1 \in 1..Len(text)
    BY <1>1, <1>2
  <1>4. RunClass(k - 1) = "letter"
    BY <1>2, <1>3
  <1> HIDE DEF Bad
  <1>5. CASE classOf(text[k]) = "letter"
    BY <1>3, <1>5, RunClassPlain
  <1>6. CASE classOf(text[k]) = "mark"
    <2> DEFINE j == k - 1
    <2>1. j \in 1..Len(text) /\ RunClass(j) = "letter"
      BY <1>3, <1>4
    <2> HIDE DEF j
    <2>2. classOf(text[j]) # "digit"
      BY <2>1, RunClassIs
    <2> QED
      BY <1>3, <1>4, <1>6, <2>2, RunClassMark DEF j
  <1> QED
    BY <1>3, <1>5, <1>6

\* A piece of short runs is at most two of them, the first of marks and what
\* leads them, and a contraction.
LEMMA PieceLength ==
    ASSUME text \in Seq(Runes), limit \in Nat \ {0}, NEW a \in 0..Len(text), NEW b \in a..Len(text),
           Short(a, b), NEW x \in a..b - 1, PieceEnd(text, x) <= b
    PROVE  PieceEnd(text, x) <= x + (2 * limit + 1)
  <1> DEFINE e == PieceEnd(text, x)
  <1>1. x \in 0..Len(text) - 1 /\ x + 1 \in 1..Len(text) /\ x \in a..b /\ x \in Nat
    OBVIOUS
  <1>2. /\ e \in x + 1..Len(text)
        /\ WordPiece(text, x, e) \/ DigitPiece(text, x, e) \/ OtherPiece(text, x, e)
    BY <1>1, PieceIs
  <1>3. e \in a..b /\ x < e /\ e \in x + 1..Len(text)
    BY <1>1, <1>2
  <1> HIDE DEF e
  <1>4. CASE DigitPiece(text, x, e)
    <2>1. e <= x + 3
      BY <1>4 DEF DigitPiece
    <2> QED
      BY <1>1, <1>3, <2>1 DEF e
  <1>5. CASE OtherPiece(text, x, e)
    <2>1. \A k \in x + 1..e : RunClass(k) = "other"
      BY <1>1, <1>3, <1>5, OtherRun
    <2>2. x + 1 \in x + 1..e
      BY <1>1, <1>3
    <2>3. OneRun(x, e) /\ RunClass(x + 1) # "digit"
      BY <2>1, <2>2 DEF OneRun
    <2>4. e - x < limit
      BY <1>1, <1>3, <2>3 DEF Short
    <2> QED
      BY <1>1, <1>3, <2>4 DEF e
  <1>6. CASE WordPiece(text, x, e)
    <2>1. PICK w \in x..x + 1, c \in x + 1..Len(text) :
            /\ w < c /\ c <= e
            /\ Word(text, w, c)
            /\ Contracted(text, c, e)
      BY <1>6 DEF WordPiece
    <2> DEFINE Q == {k \in Nat : k \in w + 1..c + 1 /\ (k = c + 1 \/ text[k] \in Letters)}
    <2>2. c + 1 \in Q
      BY <2>1
    <2>3. PICK q \in Q : \A k \in Q : q <= k
      <3>1. Q \subseteq Nat /\ Q # {}
        BY <2>2
      <3> HIDE DEF Q
      <3> QED
        BY <3>1, LeastNat
    <2>4. q \in w + 1..c + 1 /\ (q = c + 1 \/ text[q] \in Letters) /\ q \in Nat /\ c \in Nat /\ w \in Nat
      BY <2>1, <2>3
    <2>5. \A k \in w + 1..q - 1 : text[k] = "m"
      <3> TAKE k \in w + 1..q - 1
      <3>1. k \in Nat /\ k \in w + 1..c + 1 /\ ~(q <= k) /\ k \in w + 1..c
        BY <2>1, <2>4
      <3>2. k \notin Q
        BY <2>3, <3>1
      <3>3. text[k] \notin Letters
        BY <3>1, <3>2
      <3> QED
        BY <2>1, <3>1, <3>3 DEF Word, Upper, Lower, Letters
    <2> HIDE DEF Q
    <2>6. \A k \in x + 1..e : k \in 1..Len(text) /\ text[k] \in Runes /\ classOf(text[k]) # "digit"
      <3> TAKE k \in x + 1..e
      <3>1. k \in 1..Len(text) /\ text[k] \in Runes
        BY <1>1, <1>3
      <3>2. text[k] # "1"
        BY <1>1, <1>3, <1>6, WordPieceRunes
      <3> QED
        BY <3>1, <3>2, ClassIs
    <2>7. (q - 1) - x < limit
      <3>1. CASE q - 1 > x
        <4> DEFINE y == q - 1
        <4>1. y \in x + 1..Len(text) /\ y \in a..b /\ x < y /\ y <= e
          BY <1>1, <1>3, <2>1, <2>4, <3>1
        <4>2. \A k \in x + 2..y : k \in w + 1..q - 1 /\ k \in x + 1..e
          BY <1>1, <1>3, <2>4, <4>1
        <4> HIDE DEF y
        <4>3. \A k \in x + 2..y : classOf(text[k]) = "mark"
          BY <2>5, <2>6, <4>2, ClassIs
        <4>4. x + 1 \in x + 1..e
          BY <1>1, <1>3
        <4>5. OneRun(x, y)
          BY <1>1, <2>6, <4>1, <4>3, <4>4, MarksFollow
        <4>6. RunClass(x + 1) # "digit"
          BY <1>1, <2>6, <4>4, RunClassIs
        <4> QED
          BY <1>1, <4>1, <4>5, <4>6 DEF Short, y
      <3>2. CASE ~(q - 1 > x)
        BY <1>1, <2>1, <2>4, <3>2
      <3> QED
        BY <3>1, <3>2
    <2>8. c - (q - 1) < limit
      <3>1. CASE q = c + 1
        BY <2>4, <3>1
      <3>2. CASE q # c + 1
        <4> DEFINE y == q - 1
        <4>1. /\ y \in 0..Len(text) - 1 /\ c \in y + 1..Len(text) /\ y + 1 = q
              /\ y \in a..b /\ c \in a..b /\ y < c
          BY <1>1, <1>3, <2>1, <2>4, <3>2
        <4>2. \A k \in y + 1..c : k \in w + 1..c /\ k \in x + 1..e
          BY <1>1, <1>3, <2>1, <2>4
        <4> HIDE DEF y
        <4>3. \A k \in y + 1..c : classOf(text[k]) \in {"letter", "mark"}
          <5> TAKE k \in y + 1..c
          <5>1. text[k] \in Upper \cup Lower /\ text[k] \in Runes
            BY <2>1, <2>6, <4>2 DEF Word
          <5> QED
            BY <5>1, ClassIs DEF Upper, Lower, Letters
        <4>4. classOf(text[y + 1]) = "letter"
          <5>1. y + 1 \in y + 1..c
            BY <4>1
          <5>2. text[y + 1] \in Runes
            BY <2>6, <4>2, <5>1
          <5> QED
            BY <2>4, <3>2, <4>1, <5>2, ClassIs
        <4>5. OneRun(y, c) /\ RunClass(y + 1) = "letter"
          BY <4>1, <4>3, <4>4, LettersFollow
        <4>6. c - y < limit
          BY <4>1, <4>5 DEF Short
        <4> QED
          BY <4>6 DEF y
      <3> QED
        BY <3>1, <3>2
    <2>9. e <= c + 3
      BY <2>1 DEF Contracted
    <2>10. limit \in Nat /\ e \in Nat
      BY <1>3
    <2> QED
      BY <1>1, <2>4, <2>7, <2>8, <2>9, <2>10 DEF e
  <1> QED
    BY <1>2, <1>4, <1>5, <1>6

-----------------------------------------------------------------------------
(* The scan.                                                               *)

Cuts == Boundaries(text)

\* What the codec is given: text between two cuts, of runs that it can take.
SpanOK(a, b) ==
    /\ a \in Cuts /\ b \in Cuts /\ a <= b
    /\ a = b \/ SliceEnd(text, b)
    /\ Short(a, b)

\* While the scan goes on: it stands between two runs, and knows the one before.
Scanning ==
    /\ scan.spanStart \in 0..scan.i /\ scan.spanStart \in Cuts
    /\ AtRun(scan.i)
    /\ Short(scan.spanStart, scan.i)
    /\ scan.prev.class = "none" => scan.i = scan.spanStart
    /\ scan.prev.class # "none" =>
         /\ scan.prev.start \in scan.spanStart..scan.i - 1
         /\ AtRun(scan.prev.start)
         /\ \A k \in scan.prev.start + 1..scan.i : RunClass(k) = scan.prev.class

Offsets == Nat \X Nat
ScanRecords ==
    [i : Nat, spanStart : Nat,
     prev : [class : {"none", "letter", "digit", "other"}, start : Nat],
     regions : SUBSET Offsets, spans : SUBSET Offsets]

TokensInv ==
    /\ text \in Seq(Runes) /\ limit \in Nat \ {0}
    /\ scan \in ScanRecords /\ scan.i <= Len(text) + 1
    /\ scan.i <= Len(text) => Scanning
    /\ \A r \in scan.regions : r[1] \in Cuts /\ r[2] \in Cuts
    /\ \A s \in scan.spans : SpanOK(s[1], s[2])

\* A clean offset is a cut.
LEMMA CleanCut ==
    ASSUME text \in Seq(Runes), NEW r \in 0..Len(text), Clean(r)
    PROVE  r \in Cuts
  <1>1. CASE r = 0
    BY <1>1, BoundariesCut DEF Cut, Cuts
  <1>2. CASE r # 0
    BY <1>2, NoCrossCut DEF Clean, Cuts
  <1> QED
    BY <1>1, <1>2

\* And a span may end there.
LEMMA CleanEnd ==
    ASSUME text \in Seq(Runes), NEW r \in 1..Len(text), Clean(r)
    PROVE  SliceEnd(text, r)
  <1>1. RunClass(r) \in {"letter", "digit"} /\ text[r] \in Runes
    BY DEF Clean
  <1>2. classOf(text[r]) # "other"
    BY <1>1, RunClassIs
  <1>3. text[r] # "sp"
    BY <1>1, <1>2, ClassIs
  <1> QED
    BY <1>3 DEF SliceEnd

\* The greatest of two numbers.
LEMMA MaxPair ==
    ASSUME NEW x \in Nat, NEW y \in Nat
    PROVE  Max({x, y}) = IF x <= y THEN y ELSE x
  <1>1. {x, y} \in SUBSET (0..x + y) /\ {x, y} # {} /\ x + y \in Nat
    OBVIOUS
  <1>2. Max({x, y}) \in {x, y} /\ \A z \in {x, y} : z <= Max({x, y})
    BY <1>1, MaxIs
  <1> QED
    BY <1>2

\* A long run's region starts where a span may end.
LEMMA RegionStart ==
    ASSUME text \in Seq(Runes), Scanning, scan.i \in 0..Len(text) - 1, scan \in ScanRecords,
           NEW b, b = runEnd(scan.i).end, NEW c, c = runEnd(scan.i).class, c # "digit"
    PROVE  /\ region(c, scan.i, b, scan.prev).ra \in 0..scan.i
           /\ \/ Clean(region(c, scan.i, b, scan.prev).ra)
              \/ region(c, scan.i, b, scan.prev).ra = scan.spanStart
  <1> DEFINE i == scan.i
             prev == scan.prev
             ra == region(c, i, b, prev).ra
             First == c = "letter" /\ prev.class = "other"
             Second == c = "other" /\ b = i + 1 /\ text[i + 1] = "'" /\ prev.class = "letter"
  <1>1. ra = IF First THEN contractionStart(prev.start, i)
             ELSE IF Second THEN contractionStart(i, b) ELSE i
    BY DEF region
  <1>2. /\ scan.spanStart \in 0..i /\ AtRun(i)
        /\ prev.class = "none" => i = scan.spanStart
        /\ prev.class # "none" =>
             /\ prev.start \in 0..i - 1
             /\ AtRun(prev.start)
             /\ \A k \in prev.start + 1..i : RunClass(k) = prev.class
    BY DEF Scanning
  <1>3. i \in 0..Len(text) - 1 /\ i \in 0..Len(text) /\ i \in Nat /\ i + 1 \in 1..Len(text) /\ i # Len(text)
        /\ i \in 0..i
    OBVIOUS
  <1>4. b \in i + 1..Len(text) /\ c = RunClass(i + 1) /\ OneRun(i, b)
    BY <1>2, <1>3, RunEndIs
  <1>a. ra = region(c, scan.i, b, scan.prev).ra
    OBVIOUS
  <1>b. prev.class \in {"none", "letter", "digit", "other"}
    BY DEF ScanRecords
  <1> HIDE DEF i, prev, ra
  <1>5. c \in {"letter", "other"}
    BY <1>3, <1>4, RunClassIs
  <1>6. CASE First
    <2> DEFINE r == prev.start
    <2>1. r \in 0..i - 1 /\ AtRun(r) /\ \A k \in r + 1..i : RunClass(k) = "other"
      BY <1>2, <1>6
    <2> HIDE DEF r
    <2>2. r \in 0..Len(text) - 1 /\ i \in r + 1..Len(text) /\ r + 1 \in r + 1..i
      BY <1>3, <2>1
    <2>3. RunClass(r + 1) = "other" /\ OneRun(r, i)
      BY <2>1, <2>2 DEF OneRun
    <2>4. contractionStart(r, i) \in 0..r /\ Clean(contractionStart(r, i))
      BY <2>1, <2>2, <2>3, ContractionStartClean
    <2>5. ra = contractionStart(r, i)
      BY <1>1, <1>6 DEF r
    <2>6. ra \in 0..i
      BY <1>3, <2>1, <2>4, <2>5
    <2> QED
      BY <1>a, <2>4, <2>5, <2>6 DEF i
  <1>7. CASE Second
    <2>1. contractionStart(i, b) \in 0..i /\ Clean(contractionStart(i, b))
      BY <1>2, <1>3, <1>4, <1>7, ContractionStartClean
    <2>2. ra = contractionStart(i, b)
      BY <1>1, <1>7
    <2> QED
      BY <1>a, <2>1, <2>2 DEF i
  <1>8. CASE ~First /\ ~Second
    <2>1. ra = i
      BY <1>1, <1>8
    <2>2. CASE prev.class = "none"
      BY <1>2, <1>3, <1>a, <2>1, <2>2 DEF i
    <2>3. CASE prev.class # "none"
      <3>1. prev.start \in 0..i - 1 /\ i \in prev.start + 1..i
        BY <1>2, <1>3, <2>3
      <3>2. i \in 1..Len(text) - 1 /\ i \in 1..Len(text) /\ i # 0
        BY <1>3, <3>1
      <3>3. RunClass(i) = prev.class
        BY <1>2, <2>3, <3>1
      <3>4. RunClass(i) # c
        BY <1>2, <1>3, <1>4, <3>2 DEF AtRun
      <3>5. CASE prev.class = "digit"
        <4>1. Clean(i)
          BY <1>2, <3>2, <3>3, <3>5, DigitEdge DEF Clean
        <4> QED
          BY <1>3, <1>a, <2>1, <4>1 DEF i
      <3>6. CASE prev.class = "letter"
        <4>1. c = "other"
          BY <1>5, <3>3, <3>4, <3>6
        <4>2. ~(b = i + 1 /\ text[b] = "'")
          BY <1>8, <3>6, <4>1
        <4>3. Clean(i)
          BY <1>2, <1>3, <1>4, <4>1, <4>2, CleanBefore
        <4> QED
          BY <1>3, <1>a, <2>1, <4>3 DEF i
      <3>7. prev.class # "other"
        BY <1>5, <1>8, <3>3, <3>4
      <3> QED
        BY <1>b, <2>3, <3>5, <3>6, <3>7
    <2> QED
      BY <2>2, <2>3
  <1> QED
    BY <1>6, <1>7, <1>8

\* The scan begins at a cut, with an empty span.
LEMMA TokensInvInit == TokensInit => TokensInv
  <1> SUFFICES ASSUME TokensInit PROVE TokensInv
    OBVIOUS
  <1>1. text \in Seq(Runes) /\ limit \in Nat \ {0}
    BY TokensAssumption DEF TokensInit
  <1>2. scan = [i |-> 0, spanStart |-> 0, prev |-> [class |-> "none", start |-> 0],
                regions |-> {}, spans |-> {}]
    BY DEF TokensInit, Unscanned, NoRun
  <1>3. scan \in ScanRecords
    BY <1>2 DEF ScanRecords
  <1>4. /\ scan.i = 0 /\ scan.spanStart = 0 /\ scan.prev.class = "none"
        /\ scan.regions = {} /\ scan.spans = {}
    BY <1>2
  <1>5. 0 \in Cuts
    BY <1>1, BoundariesCut DEF Cut, Cuts
  <1>6. Scanning
    <2>1. Short(0, 0)
      BY DEF Short
    <2>2. AtRun(0)
      BY DEF AtRun
    <2>3. 0 \in 0..0
      OBVIOUS
    <2> QED
      BY <1>4, <1>5, <2>1, <2>2, <2>3 DEF Scanning
  <1>7. Len(text) \in Nat
    BY <1>1
  <1> QED
    BY <1>1, <1>3, <1>4, <1>6, <1>7 DEF TokensInv

\* Nothing of this depends on the scan.
LEMMA SameText ==
    ASSUME text' = text, limit' = limit
    PROVE  /\ Cuts' = Cuts
           /\ \A x : AtRun(x)' <=> AtRun(x)
           /\ \A x : RunClass(x)' = RunClass(x)
           /\ \A x, y : Short(x, y)' <=> Short(x, y)
           /\ \A x, y : SpanOK(x, y)' <=> SpanOK(x, y)
  <1>1. Cuts' = Cuts
    BY DEF Cuts
  <1>2. \A x : RunClass(x)' = RunClass(x)
    BY DEF RunClass, marksBefore
  <1>3. \A x : AtRun(x)' <=> AtRun(x)
    BY <1>2 DEF AtRun
  <1>4. \A x, y : Short(x, y)' <=> Short(x, y)
    BY <1>2 DEF Short, OneRun
  <1>5. \A x, y : SpanOK(x, y)' <=> SpanOK(x, y)
    BY <1>1, <1>4 DEF SpanOK
  <1> QED
    BY <1>1, <1>2, <1>3, <1>4, <1>5

\* An empty span is one the codec can take.
LEMMA SpanOpens ==
    ASSUME NEW a \in Nat, a \in Cuts
    PROVE  SpanOK(a, a) /\ Short(a, a)
  BY DEF SpanOK, Short

\* Going over a short run, or digits, keeps the span short.
LEMMA ShortStep ==
    ASSUME TokensInv, ShortRun
    PROVE  TokensInv'
  <1> DEFINE i == scan.i
             run == runEnd(i)
             e == run.end
  <1>1. /\ text \in Seq(Runes) /\ limit \in Nat \ {0} /\ scan \in ScanRecords
        /\ i \in 0..Len(text) - 1 /\ Len(text) \in Nat
    BY DEF TokensInv, ShortRun, ScanRecords
  <1>2. Scanning
    BY <1>1 DEF TokensInv
  <1>3. /\ scan.spanStart \in 0..i /\ scan.spanStart \in Cuts /\ AtRun(i)
        /\ Short(scan.spanStart, i)
    BY <1>2 DEF Scanning
  <1>4. /\ e \in i + 1..Len(text) /\ run.class = RunClass(i + 1) /\ OneRun(i, e) /\ AtRun(e)
    BY <1>1, <1>3, RunEndIs
  <1>5. /\ e - i < limit \/ run.class = "digit"
        /\ scan' = [scan EXCEPT !.i = e, !.prev = [class |-> run.class, start |-> i]]
        /\ text' = text /\ limit' = limit
    BY DEF ShortRun
  <1>6. run.class \in {"letter", "digit", "other"}
    <2> DEFINE k == i + 1
    <2>1. k \in 1..Len(text)
      BY <1>1
    <2> HIDE DEF k, i
    <2>2. RunClass(k) \in {"letter", "digit", "other"}
      BY <1>1, <2>1, RunClassIs
    <2> QED
      BY <1>4, <2>2 DEF k
  <1> DEFINE c == run.class
  <1>c. c = run.class
    OBVIOUS
  <1>n. scan' = [scan EXCEPT !.i = e, !.prev = [class |-> c, start |-> i]]
    BY <1>5
  <1>e. /\ e = runEnd(i).end
        /\ e - i < limit \/ c = "digit"
    BY <1>5
  <1> HIDE DEF run, e, c
  <1>7. /\ scan'.i = e /\ scan'.spanStart = scan.spanStart
        /\ scan'.prev.class = c /\ scan'.prev.start = i
        /\ scan'.regions = scan.regions /\ scan'.spans = scan.spans
    BY <1>1, <1>n DEF ScanRecords
  <1>8. scan' \in ScanRecords
    <2>1. e \in Nat /\ i \in Nat /\ c \in {"none", "letter", "digit", "other"}
      BY <1>1, <1>4, <1>6, <1>c
    <2> HIDE DEF i
    <2> QED
      BY <1>1, <1>n, <2>1 DEF ScanRecords
  <1> HIDE DEF i
  <1>9. Short(scan.spanStart, e)
    <2> SUFFICES ASSUME NEW x \in scan.spanStart..e, NEW y \in scan.spanStart..e,
                        x < y, OneRun(x, y), RunClass(x + 1) # "digit"
                 PROVE  y - x < limit
      BY DEF Short
    <2>1. CASE y <= i
      <3>1. x \in scan.spanStart..i /\ y \in scan.spanStart..i
        BY <1>1, <1>3, <1>4, <2>1
      <3> QED
        BY <1>3, <3>1 DEF Short
    <2>2. CASE x >= i
      <3>1. x + 1 \in i + 1..e /\ y - x <= e - i
        BY <1>1, <1>3, <1>4, <2>2
      <3>2. RunClass(x + 1) = c
        BY <1>4, <1>c, <3>1 DEF OneRun
      <3>3. e - i < limit
        BY <1>e, <3>2
      <3> QED
        BY <1>1, <1>3, <1>4, <3>1, <3>3
    <2>3. CASE x < i /\ i < y
      <3>1. i \in x + 1..y /\ i + 1 \in x + 1..y /\ i # 0 /\ i # Len(text)
        BY <1>1, <1>3, <1>4, <2>3
      <3>2. RunClass(i) = RunClass(i + 1)
        BY <3>1 DEF OneRun
      <3> QED
        BY <1>3, <3>1, <3>2 DEF AtRun
    <2> QED
      BY <1>1, <1>3, <1>4, <2>1, <2>2, <2>3
  <1>10. \A k \in i + 1..e : RunClass(k) = c
    BY <1>4, <1>c DEF OneRun
  <1>11. /\ scan.spanStart \in 0..e /\ i \in scan.spanStart..e - 1 /\ e <= Len(text) + 1
    BY <1>1, <1>3, <1>4
  <1>12. c # "none"
    BY <1>6, <1>c
  <1>13. Scanning'
    BY <1>3, <1>4, <1>5, <1>7, <1>9, <1>10, <1>11, <1>12, SameText DEF Scanning
  <1> QED
    BY <1>1, <1>5, <1>7, <1>8, <1>11, <1>13, SameText DEF TokensInv

\* A region's ends are cuts, and the span before it is one the codec can take.
LEMMA LongStep ==
    ASSUME TokensInv, LongRun
    PROVE  TokensInv'
  <1> DEFINE i == scan.i
             run == runEnd(i)
             wide == region(run.class, i, run.end, scan.prev)
             a == scan.spanStart
             ra == Max({wide.ra, a})
             re == wide.re
  <1>1. /\ text \in Seq(Runes) /\ limit \in Nat \ {0} /\ scan \in ScanRecords
        /\ i \in 0..Len(text) - 1 /\ Len(text) \in Nat
    BY DEF TokensInv, LongRun, ScanRecords
  <1>2. Scanning
    BY <1>1 DEF TokensInv
  <1>3. a \in 0..i /\ a \in Cuts /\ AtRun(i) /\ Short(a, i)
    BY <1>2 DEF Scanning
  <1>4. /\ run.end \in i + 1..Len(text) /\ run.class = RunClass(i + 1)
        /\ OneRun(i, run.end) /\ AtRun(run.end)
    BY <1>1, <1>3, RunEndIs
  <1>5. /\ run.class # "digit"
        /\ scan' = [i |-> re, spanStart |-> re, prev |-> NoRun,
                    regions |-> scan.regions \cup {<<ra, re>>},
                    spans |-> scan.spans \cup {<<a, ra>>}]
        /\ text' = text /\ limit' = limit
    BY DEF LongRun
  <1>6. wide.ra \in 0..i /\ (Clean(wide.ra) \/ wide.ra = a)
    BY <1>1, <1>2, <1>5, RegionStart
  <1>7. re \in run.end..Len(text) /\ AtRun(re) /\ NoCross(re)
    <2> DEFINE b == run.end
    <2>1. re = Contractions(LeadRune(run.class, b))
      BY DEF region
    <2>2. b \in 1..Len(text) /\ b \in i + 1..b
      BY <1>1, <1>4
    <2>3. RunClass(b) = run.class
      BY <1>4, <2>2 DEF OneRun
    <2>4. AtRun(b)
      BY <1>4
    <2>b. b = run.end
      OBVIOUS
    <2> HIDE DEF b, re, run
    <2>5. /\ Contractions(LeadRune(RunClass(b), b)) \in b..Len(text)
          /\ AtRun(Contractions(LeadRune(RunClass(b), b)))
          /\ NoCross(Contractions(LeadRune(RunClass(b), b)))
      BY <1>1, <1>5, <2>2, <2>3, <2>4, RegionEnd
    <2> QED
      BY <2>1, <2>3, <2>5, <2>b
  <1>8. re \in 0..Len(text) /\ re \in Cuts
    <2>1. re \in 0..Len(text)
      BY <1>1, <1>4, <1>7
    <2> HIDE DEF re
    <2> QED
      BY <1>1, <1>7, <2>1, NoCrossCut DEF Cuts
  <1>9. ra = IF wide.ra <= a THEN a ELSE wide.ra
    <2> DEFINE x == wide.ra
    <2>1. x \in Nat /\ a \in Nat
      BY <1>1, <1>3, <1>6
    <2> HIDE DEF x, a
    <2>2. Max({x, a}) = IF x <= a THEN a ELSE x
      BY <2>1, MaxPair
    <2> QED
      BY <2>2 DEF x
  <1> HIDE DEF ra, re, run, wide
  <1>10. SpanOK(a, ra) /\ ra \in Nat
    <2>1. CASE ra = a
      BY <1>1, <1>3, <2>1, SpanOpens
    <2>2. CASE ra # a
      <3>1. ra = wide.ra /\ ra \in 0..i /\ Clean(ra) /\ a <= ra /\ ra > 0
        BY <1>1, <1>3, <1>6, <1>9, <2>2
      <3>2. ra \in 0..Len(text) /\ ra \in 1..Len(text)
        BY <1>1, <3>1
      <3>3. ra \in Cuts
        BY <1>1, <3>1, <3>2, CleanCut
      <3>4. SliceEnd(text, ra)
        BY <1>1, <3>1, <3>2, CleanEnd
      <3>5. \A x \in a..ra : x \in a..i
        BY <1>1, <1>3, <3>1
      <3>6. Short(a, ra)
        BY <1>3, <3>5 DEF Short
      <3> QED
        BY <1>3, <3>1, <3>2, <3>3, <3>4, <3>6 DEF SpanOK
    <2> QED
      BY <2>1, <2>2
  <1> HIDE DEF i, a
  <1>11. /\ scan'.i = re /\ scan'.spanStart = re /\ scan'.prev.class = "none"
         /\ scan'.regions = scan.regions \cup {<<ra, re>>}
         /\ scan'.spans = scan.spans \cup {<<a, ra>>}
    BY <1>5 DEF NoRun
  <1>12. scan' \in ScanRecords
    <2>1. re \in Nat /\ a \in Nat /\ ra \in Nat
      BY <1>1, <1>3, <1>8, <1>10
    <2>2. scan.regions \subseteq Offsets /\ scan.spans \subseteq Offsets
      BY <1>1 DEF ScanRecords
    <2>3. scan'.regions \subseteq Offsets /\ scan'.spans \subseteq Offsets
      BY <1>11, <2>1, <2>2 DEF Offsets
    <2>4. NoRun \in [class : {"none", "letter", "digit", "other"}, start : Nat]
      BY DEF NoRun
    <2> QED
      BY <1>5, <1>11, <2>1, <2>3, <2>4 DEF ScanRecords
  <1>13. /\ re \in 0..re /\ re <= Len(text) /\ re <= Len(text) + 1 /\ re \in Nat
    BY <1>1, <1>8
  <1>14. Short(re, re)
    BY <1>8, <1>13, SpanOpens
  <1>15. Scanning'
    BY <1>5, <1>7, <1>8, <1>11, <1>13, <1>14, SameText DEF Scanning
  <1>16. \A r \in scan'.regions : r[1] \in Cuts /\ r[2] \in Cuts
    <2>1. ra \in Cuts
      BY <1>10 DEF SpanOK
    <2>2. \A r \in scan.regions : r[1] \in Cuts /\ r[2] \in Cuts
      BY DEF TokensInv
    <2> QED
      BY <1>8, <1>11, <2>1, <2>2
  <1>17. \A s \in scan'.spans : SpanOK(s[1], s[2])
    <2>1. \A s \in scan.spans : SpanOK(s[1], s[2])
      BY DEF TokensInv
    <2>2. <<a, ra>>[1] = a /\ <<a, ra>>[2] = ra
      OBVIOUS
    <2> SUFFICES ASSUME NEW s \in scan'.spans PROVE SpanOK(s[1], s[2])
      OBVIOUS
    <2>3. s \in scan.spans \/ s = <<a, ra>>
      BY <1>11
    <2> QED
      BY <1>10, <2>1, <2>2, <2>3
  <1> QED
    BY <1>1, <1>5, <1>11, <1>12, <1>13, <1>15, <1>16, <1>17, SameText DEF TokensInv

\* So is the span that the text ends with.
LEMMA LastStep ==
    ASSUME TokensInv, LastSpan
    PROVE  TokensInv'
  <1> DEFINE n == Len(text)
             a == scan.spanStart
  <1>1. /\ text \in Seq(Runes) /\ limit \in Nat \ {0} /\ scan \in ScanRecords
        /\ scan.i = n /\ n \in Nat
    BY DEF TokensInv, LastSpan
  <1>2. Scanning
    BY <1>1 DEF TokensInv
  <1>3. a \in 0..n /\ a \in Cuts /\ Short(a, n)
    BY <1>1, <1>2 DEF Scanning
  <1>4. /\ scan' = [scan EXCEPT !.i = scan.i + 1, !.spans = scan.spans \cup {<<a, n>>}]
        /\ text' = text /\ limit' = limit
    BY DEF LastSpan
  <1>5. SpanOK(a, n)
    <2>1. n \in Cuts
      <3>1. n \in 0..Len(text) /\ NoCross(n)
        BY <1>1, EndEdge
      <3> QED
        BY <1>1, <3>1, NoCrossCut DEF Cuts
    <2>2. SliceEnd(text, n)
      BY DEF SliceEnd
    <2>3. a <= n
      BY <1>1, <1>3
    <2> QED
      BY <1>3, <2>1, <2>2, <2>3 DEF SpanOK
  <1>n. n = Len(text)
    OBVIOUS
  <1> HIDE DEF n, a
  <1>6. /\ scan'.i = n + 1
        /\ scan'.regions = scan.regions
        /\ scan'.spans = scan.spans \cup {<<a, n>>}
    BY <1>1, <1>4 DEF ScanRecords
  <1>7. scan' \in ScanRecords
    <2>1. scan.spans \cup {<<a, n>>} \subseteq Offsets /\ n + 1 \in Nat
      <3>1. scan.spans \subseteq Offsets
        BY <1>1 DEF ScanRecords
      <3>2. a \in Nat /\ n \in Nat /\ n + 1 \in Nat
        BY <1>1, <1>3
      <3> QED
        BY <3>1, <3>2 DEF Offsets
    <2> DEFINE S == scan.spans \cup {<<a, n>>}
    <2>2. scan' = [scan EXCEPT !.i = n + 1, !.spans = S]
      BY <1>1, <1>4
    <2>3. S \subseteq Offsets
      BY <2>1
    <2> HIDE DEF S
    <2> QED
      BY <1>1, <2>1, <2>2, <2>3 DEF ScanRecords
  <1>8. \A s \in scan'.spans : SpanOK(s[1], s[2])
    <2>1. \A s \in scan.spans : SpanOK(s[1], s[2])
      BY DEF TokensInv
    <2>2. <<a, n>>[1] = a /\ <<a, n>>[2] = n
      OBVIOUS
    <2> SUFFICES ASSUME NEW s \in scan'.spans PROVE SpanOK(s[1], s[2])
      OBVIOUS
    <2>3. s \in scan.spans \/ s = <<a, n>>
      BY <1>6
    <2> QED
      BY <1>5, <2>1, <2>2, <2>3
  <1>9. \A r \in scan'.regions : r[1] \in Cuts /\ r[2] \in Cuts
    BY <1>6 DEF TokensInv
  <1>10. scan'.i <= Len(text) + 1 /\ ~(scan'.i <= Len(text))
    BY <1>1, <1>6, <1>n
  <1> QED
    BY <1>1, <1>4, <1>7, <1>8, <1>9, <1>10, SameText DEF TokensInv

\* Each step of count keeps the invariant.
LEMMA TokensInvStep == TokensInv /\ [TokensNext]_tokenVars => TokensInv'
  <1> SUFFICES ASSUME TokensInv, [TokensNext]_tokenVars PROVE TokensInv'
    OBVIOUS
  <1>1. CASE ShortRun
    BY <1>1, ShortStep
  <1>2. CASE LongRun
    BY <1>2, LongStep
  <1>3. CASE LastSpan
    BY <1>3, LastStep
  <1>4. CASE UNCHANGED tokenVars
    <2>1. text' = text /\ limit' = limit /\ scan' = scan
      BY <1>4 DEF tokenVars
    <2>2. Scanning => Scanning'
      BY <2>1, SameText DEF Scanning
    <2> QED
      BY <2>1, <2>2, SameText DEF TokensInv
  <1> QED
    BY <1>1, <1>2, <1>3, <1>4 DEF TokensNext

\* A span on its own splits where it did in place, into pieces that are no
\* longer than two short runs and a contraction.
LEMMA SpanSplits ==
    ASSUME text \in Seq(Runes), limit \in Nat \ {0}, NEW a, NEW b, SpanOK(a, b)
    PROVE  LET B == Boundaries(SubSeq(text, a + 1, b)) IN
           /\ {a + j : j \in B} = {j \in Cuts : a <= j /\ j <= b}
           /\ \A j \in B \ {Max(B)} : \E k \in B : j < k /\ k <= j + (2 * limit + 1)
  <1> DEFINE u == SubSeq(text, a + 1, b)
             B == Boundaries(u)
  <1>1. Cut(text, Cuts)
    BY BoundariesCut DEF Cuts
  <1>2. /\ a \in Cuts /\ b \in Cuts /\ a <= b /\ (a = b \/ SliceEnd(text, b)) /\ Short(a, b)
        /\ a \in 0..Len(text) /\ b \in a..Len(text) /\ Len(text) \in Nat
    BY <1>1 DEF SpanOK, Cut
  <1>3. Slice(text, u, a, b)
    BY <1>2, SubSeqSlice
  <1>4. u \in Seq(Runes) /\ Len(u) = b - a
    BY <1>3 DEF Slice
  <1> HIDE DEF u
  <1>5. Cut(u, B)
    BY <1>4, BoundariesCut
  <1> HIDE DEF B
  <1>6. /\ 0 \in B /\ \A j \in B : j \in 0..b - a /\ a + j \in a..b /\ (a + j) - a = j
        /\ \A j \in Cuts : j \in Int
    <2>1. \A j \in B : j \in 0..b - a
      BY <1>4, <1>5 DEF Cut
    <2>2. \A j \in Cuts : j \in Int
      BY <1>1 DEF Cut
    <2> QED
      BY <1>2, <1>5, <2>1, <2>2 DEF Cut
  <1>7. \A j \in a..b : j - a \in B <=> j \in Cuts
    <2>1. CASE a = b
      <3>1. \A j \in a..b : j = a /\ j - a = 0
        BY <1>2, <2>1
      <3> QED
        BY <1>2, <1>6, <3>1
    <2>2. CASE a # b
      BY <1>1, <1>2, <1>3, <1>5, <2>2, CutsSlice
    <2> QED
      BY <2>1, <2>2
  <1>8. {a + j : j \in B} = {j \in Cuts : a <= j /\ j <= b}
    <2>1. ASSUME NEW j \in B PROVE a + j \in Cuts /\ a <= a + j /\ a + j <= b
      BY <1>2, <1>6, <1>7
    <2>2. ASSUME NEW j \in Cuts, a <= j, j <= b PROVE j - a \in B /\ a + (j - a) = j
      <3>1. j \in a..b
        BY <1>2, <1>6, <2>2
      <3> QED
        BY <1>2, <1>7, <3>1
    <2> QED
      BY <2>1, <2>2
  <1>9. ASSUME NEW j \in B, j # Max(B)
        PROVE  \E k \in B : j < k /\ k <= j + (2 * limit + 1)
    <2>1. B \in SUBSET (0..b - a) /\ B # {} /\ b - a \in Nat
      <3>1. b - a \in Nat
        BY <1>2
      <3>2. B \subseteq 0..b - a
        BY <1>6
      <3> QED
        BY <1>6, <3>1, <3>2
    <2>2. Max(B) \in B /\ \A y \in B : y <= Max(B)
      BY <2>1, MaxIs
    <2> DEFINE m == Max(B)
    <2>a. m \in B /\ j <= m /\ j # m
      BY <1>9, <2>2
    <2> HIDE DEF m
    <2>3. j \in 0..b - a /\ m \in 0..b - a
      BY <1>6, <2>a
    <2>4. j < b - a
      BY <1>2, <2>3, <2>a
    <2> DEFINE x == a + j
               k == PieceEnd(u, j)
    <2>5. x \in a..b - 1 /\ x - a = j /\ x < b /\ x \in a..b
      BY <1>2, <2>3, <2>4
    <2>6. x \in Cuts
      BY <1>6, <1>7
    <2>7. k \in B
      BY <1>4, <1>5, <2>4 DEF Cut
    <2>8. j \in 0..Len(u) - 1
      BY <1>4, <2>3, <2>4
    <2>9. k \in j + 1..Len(u)
      BY <1>4, <2>8, PieceIs
    <2>k. k = PieceEnd(u, j)
      OBVIOUS
    <2> HIDE DEF x, k
    <2>10. PieceEnd(text, x) <= b
      BY <1>1, <1>2, <2>5, <2>6, CutsApart
    <2>11. SliceEnd(text, b)
      BY <1>2, <2>5
    <2>12. k = PieceEnd(text, x) - a
      BY <1>3, <2>5, <2>10, <2>11, <2>k, PieceSlice
    <2>13. PieceEnd(text, x) <= x + (2 * limit + 1)
      BY <1>2, <2>5, <2>10, PieceLength
    <2>14. x \in 0..Len(text) - 1
      BY <1>2, <2>5
    <2>15. PieceEnd(text, x) \in Int
      BY <2>14, PieceIs
    <2>16. j < k /\ k <= j + (2 * limit + 1)
      BY <1>2, <1>4, <2>3, <2>5, <2>9, <2>12, <2>13, <2>15
    <2> QED
      BY <2>7, <2>16
  <1> QED
    BY <1>8, <1>9 DEF B, u

\* The invariant says that cuts are exact and pieces short.
LEMMA TokensInvCuts == TokensInv => CutsExact
  <1> SUFFICES ASSUME TokensInv PROVE CutsExact
    OBVIOUS
  <1>1. /\ text \in Seq(Runes) /\ limit \in Nat \ {0}
        /\ \A r \in scan.regions : r[1] \in Cuts /\ r[2] \in Cuts
        /\ \A s \in scan.spans : SpanOK(s[1], s[2])
    BY DEF TokensInv
  <1> DEFINE B(s) == Boundaries(SubSeq(text, s[1] + 1, s[2]))
  <1>2. ASSUME NEW s \in scan.spans
        PROVE  /\ {s[1] + j : j \in B(s)} = {j \in Cuts : s[1] <= j /\ j <= s[2]}
               /\ \A j \in B(s) \ {Max(B(s))} : \E k \in B(s) : j < k /\ k <= j + (2 * limit + 1)
    BY <1>1, SpanSplits
  <1>3. \A r \in scan.regions : r[1] \in Boundaries(text) /\ r[2] \in Boundaries(text)
    BY <1>1 DEF Cuts
  <1>4. \A s \in scan.spans :
          {s[1] + j : j \in B(s)} = {j \in Boundaries(text) : s[1] <= j /\ j <= s[2]}
    BY <1>2 DEF Cuts
  <1>5. PiecesBounded(2 * limit + 1)
    BY <1>2 DEF PiecesBounded
  <1> QED
    BY <1>3, <1>4, <1>5 DEF CutsExact

\* However a text is made and whatever the limit, the pieces inside a region of
\* count's are whole, the spans between the regions split as they did in place,
\* and no piece that the codec is given is longer than two short runs and a
\* contraction.
THEOREM TokensCutsExact == TokensInit /\ [][TokensNext]_tokenVars => []CutsExact
  <1>1. TokensInit => TokensInv
    BY TokensInvInit
  <1>2. TokensInv /\ [TokensNext]_tokenVars => TokensInv'
    BY TokensInvStep
  <1>3. TokensInv => CutsExact
    BY TokensInvCuts
  <1> QED
    BY <1>1, <1>2, <1>3, PTL

=============================================================================
