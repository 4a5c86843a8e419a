---------------------------- MODULE SearchProofs ----------------------------
(***************************************************************************)
(* Theorems about the search, for any collection, queries, schema keys and *)
(* page sizes.                                                             *)
(***************************************************************************)
EXTENDS SearchPage, Basics

\* phases of a request whose query was parsed
Parsed == {"count", "get", "page", "hung", "find", "answered"}

Ids == DOMAIN Docs \cup {new.id : new \in Late}

PTyped ==
    /\ DOMAIN coll \subseteq Ids /\ changed \subseteq Ids
    /\ query \in {None} \cup Queries \cup WebQueries
    /\ idx \in Int /\ limit \in Int /\ nrec \in Nat
    /\ phase \in Parsed =>
          ~Refused(query) /\ query.kind # "idobject" /\ spec = Parse(query)

\* The documents that were counted are those in S but for some that changed.
CountedIn(S) ==
    \E C \in SUBSET Ids : nrec = Cardinality(C) /\ C \ changed = S \ changed

\* What the count and the records have to do with each other, while others
\* store documents between the two requests.
Counted ==
    /\ phase = "get" /\ nrec > 0 => CountedIn(Matching)
    /\ phase = "page" /\ nrec > 0 => CountedIn(DOMAIN answer) /\ DOMAIN answer \subseteq Ids

AllHold == phase = "answered" => \A i \in DOMAIN answer, c \in spec : Holds(answer[i], c)

Paged ==
    phase = "page" => /\ nrec > 0 => limit > 0
                      /\ pager = IF nrec > 0 THEN Pagination(nrec, idx, limit) ELSE None

PInv == PTyped /\ Counted /\ AllHold /\ Paged

LEMMA IdsFinite ==
    ASSUME NEW S \in SUBSET Ids
    PROVE  IsFiniteSet(S) /\ Cardinality(S) \in Nat
<1>1. IsFiniteSet(Ids)
  BY DocsAssumption, FS_Union DEF Ids
<1> QED
  BY <1>1, FS_Subset, FS_CardinalityType

LEMMA MatchingFinite ==
    ASSUME PTyped
    PROVE  Matching \in SUBSET Ids /\ Cardinality(Matching) \in Nat
<1>1. Matching \in SUBSET Ids
  BY DEF Matching, PTyped
<1> QED
  BY <1>1, IdsFinite

\* A store touches one document, a new one or one that was there.
LEMMA StoreFrame ==
    ASSUME PTyped, NEW new \in Late, Store(new)
    PROVE  /\ DOMAIN coll' \subseteq Ids
           /\ Matching' \ {new.id} = Matching \ {new.id}
<1>1. /\ DOMAIN coll' = DOMAIN coll \cup {new.id}
      /\ \A i \in DOMAIN coll \ {new.id} : coll'[i] = coll[i]
      /\ spec' = spec
  BY DEF Store, Assign
<1>2. DOMAIN coll' \subseteq Ids
  BY <1>1 DEF PTyped, Ids
<1>3. Matching' \ {new.id} = Matching \ {new.id}
  BY <1>1 DEF Matching, Holds
<1> QED
  BY <1>2, <1>3

LEMMA PTypedStep ==
    ASSUME PTyped, [PageNext]_<<vars, pageVars>>
    PROVE  PTyped'
<1> USE DEF PTyped, Parsed, pageVars, request
<1>1. CASE UNCHANGED <<vars, pageVars>>
  BY <1>1 DEF vars
<1>2. ASSUME NEW q \in Queries, Ask(q, "find"), UNCHANGED pageVars
      PROVE  PTyped'
  BY <1>2 DEF Ask
<1>3. ASSUME NEW q \in WebQueries, NEW i \in Starts, NEW l \in Limits, AskWeb(q, i, l)
      PROVE  PTyped'
  BY <1>3, PagerAssumption DEF AskWeb, Ask
<1>4. ASSUME NEW new \in Late, StoreMeanwhile(new)
      PROVE  PTyped'
  <2>1. DOMAIN coll' \subseteq Ids
    BY <1>4, StoreFrame DEF StoreMeanwhile
  <2>2. changed' \subseteq Ids
    BY <1>4 DEF StoreMeanwhile, Ids
  <2> QED
    BY <1>4, <2>1, <2>2 DEF StoreMeanwhile, Store
<1>5. CASE (Find \/ FindFails) /\ UNCHANGED pageVars
  BY <1>5 DEF Find, FindFails
<1>6. CASE Count \/ CountFails
  BY <1>6, MatchingFinite DEF Count, CountFails
<1>7. CASE GetAll \/ GetFails
  BY <1>7 DEF GetAll, GetFails
<1>8. CASE OpenSearch
  BY <1>8 DEF OpenSearch
<1> QED
  BY <1>1, <1>2, <1>3, <1>4, <1>5, <1>6, <1>7, <1>8 DEF PageNext, ClientStep, Finished, Hung

LEMMA CountedStep ==
    ASSUME PTyped, Counted, [PageNext]_<<vars, pageVars>>
    PROVE  Counted'
<1> USE DEF Counted
<1>1. CASE UNCHANGED <<vars, pageVars>>
  BY <1>1 DEF vars, pageVars, request, Matching, Holds, CountedIn
<1>2. ASSUME NEW q, NEW then, then \in {"find", "count"}, Ask(q, then)
      PROVE  Counted'
  BY <1>2 DEF Ask
<1>3. ASSUME NEW new \in Late, StoreMeanwhile(new)
      PROVE  Counted'
  <2>1. CASE phase = "get" /\ nrec > 0
    <3>1. PICK C \in SUBSET Ids : nrec = Cardinality(C) /\ C \ changed = Matching \ changed
      BY <2>1 DEF CountedIn
    <3>2. Matching' \ {new.id} = Matching \ {new.id}
      BY <1>3, StoreFrame DEF StoreMeanwhile
    <3>3. changed' = changed \cup {new.id} /\ nrec' = nrec /\ phase' = "get"
      BY <1>3, <2>1 DEF StoreMeanwhile, Store, request
    <3>4. C \ changed' = Matching' \ changed'
      BY <3>1, <3>2, <3>3
    <3> QED
      BY <3>1, <3>3, <3>4 DEF CountedIn
  <2>2. CASE phase = "page"
    BY <1>3, <2>2 DEF StoreMeanwhile, Store, request, CountedIn
  <2>3. CASE ~(phase = "get" /\ nrec > 0) /\ phase # "page"
    BY <1>3, <2>3 DEF StoreMeanwhile, Store, request
  <2> QED
    BY <2>1, <2>2, <2>3
<1>4. CASE Count
  <2>1. Matching' = Matching /\ nrec' = Cardinality(Matching) /\ phase' = "get"
    BY <1>4 DEF Count, Matching, Holds
  <2> QED
    BY <2>1, MatchingFinite DEF CountedIn
<1>5. CASE CountFails
  BY <1>5 DEF CountFails
<1>6. CASE GetAll
  <2>1. DOMAIN answer' = Matching /\ UNCHANGED <<nrec, changed>> /\ phase = "get" /\ phase' # "get"
    BY <1>6 DEF GetAll, Found
  <2> QED
    BY <2>1, MatchingFinite DEF CountedIn
<1>7. CASE Find \/ FindFails \/ GetFails \/ OpenSearch
  BY <1>7 DEF Find, FindFails, GetFails, OpenSearch
<1> QED
  BY <1>1, <1>2, <1>3, <1>4, <1>5, <1>6, <1>7 DEF PageNext, ClientStep, AskWeb, Finished, Hung

LEMMA AllHoldStep ==
    ASSUME AllHold, [PageNext]_<<vars, pageVars>>
    PROVE  AllHold'
<1> USE DEF AllHold
<1>1. CASE phase' = "answered" /\ UNCHANGED <<phase, answer, spec>>
  BY <1>1 DEF Holds
<1>2. CASE Find
  BY <1>2 DEF Find, Found, Matching, Holds
<1> QED
  BY <1>1, <1>2 DEF PageNext, ClientStep, Ask, AskWeb, StoreMeanwhile, Store, FindFails, Finished,
     Count, CountFails, GetAll, GetFails, OpenSearch, Hung, vars, pageVars

LEMMA PagedStep ==
    ASSUME PTyped, Paged, [PageNext]_<<vars, pageVars>>
    PROVE  Paged'
<1> USE DEF Paged
<1>1. CASE phase' = "page" /\ UNCHANGED <<phase, request>>
  BY <1>1 DEF request
<1>2. CASE GetAll
  BY <1>2 DEF GetAll, PTyped
<1> QED
  BY <1>1, <1>2 DEF PageNext, ClientStep, Ask, AskWeb, StoreMeanwhile, Store, Find, FindFails, Finished,
     Count, CountFails, GetFails, OpenSearch, Hung, vars, pageVars

\* What is known of a search in every reachable state: its conditions are
\* those of the query that was parsed, and the documents that were counted
\* and those that are read differ only in what others stored in between.
THEOREM SearchInvariance == PageSpec => []PInv
<1>1. PageInit => PInv
  BY DEF PageInit, Init, PInv, PTyped, Parsed, Counted, AllHold, Paged, Ids
<1>2. PInv /\ [PageNext]_<<vars, pageVars>> => PInv'
  BY PTypedStep, CountedStep, AllHoldStep, PagedStep DEF PInv
<1> QED
  BY <1>1, <1>2, PTL DEF PageSpec

\* Sets that agree outside a third differ in size by no more than its size.
LEMMA SizesDiffer ==
    ASSUME NEW C \in SUBSET Ids, NEW D \in SUBSET Ids, NEW X \in SUBSET Ids, C \ X = D \ X
    PROVE  Cardinality(C) <= Cardinality(D) + Cardinality(X)
<1>1. C \in SUBSET (D \cup X) /\ D \cup X \in SUBSET Ids /\ D \cap X \in SUBSET Ids
  OBVIOUS
<1>2. /\ Cardinality(C) \in Nat /\ Cardinality(D) \in Nat /\ Cardinality(X) \in Nat
      /\ Cardinality(D \cap X) \in Nat
  BY <1>1, IdsFinite
<1>3. Cardinality(D \cup X) = Cardinality(D) + Cardinality(X) - Cardinality(D \cap X)
  BY IdsFinite, FS_Union
<1>4. Cardinality(C) <= Cardinality(D \cup X)
  BY <1>1, IdsFinite, FS_Subset
<1> QED
  BY <1>2, <1>3, <1>4

\* The pager counts the records that are shown, up to as many as others
\* stored between the count and the reading, whatever they did to them.
THEOREM CountIsShown == PageSpec => []CountedAreShown
<1>1. ASSUME PInv PROVE CountedAreShown
  <2>1. SUFFICES ASSUME phase = "page", pager # None
                 PROVE  /\ nrec <= Cardinality(DOMAIN answer) + Cardinality(changed)
                        /\ Cardinality(DOMAIN answer) <= nrec + Cardinality(changed)
    BY DEF CountedAreShown
  <2>2. nrec > 0
    BY <1>1, <2>1 DEF PInv, Paged, PTyped
  <2>3. PICK C \in SUBSET Ids : nrec = Cardinality(C) /\ C \ changed = DOMAIN answer \ changed
    BY <1>1, <2>1, <2>2 DEF PInv, Counted, CountedIn
  <2>4. DOMAIN answer \in SUBSET Ids /\ changed \in SUBSET Ids
    BY <1>1, <2>1, <2>2 DEF PInv, Counted, PTyped
  <2> QED
    BY <2>3, <2>4, SizesDiffer
<1> QED
  BY <1>1, SearchInvariance, PTL
----------------------------------------------------------------------------
(* The loop of ParseQuery.  KeyValues is a recursive function; its values   *)
(* are written down here without recursion.                                 *)

\* KeyValues' Scan, with the loop body as an operator
Before(arr, g, i) == IF i = 1 THEN [spec |-> Empty, key |-> arr[1], stop |-> FALSE] ELSE g[i - 1]
After(arr, i, prev) ==
    IF prev.stop THEN prev
    ELSE IF arr[i + 1] = Last(arr)
         THEN [spec |-> Assign(prev.spec, prev.key, arr[i + 1]), key |-> prev.key, stop |-> TRUE]
         ELSE [spec |-> Assign(prev.spec, prev.key, Join(Front(arr[i + 1]))),
               key |-> <<Last(arr[i + 1])>>, stop |-> FALSE]
IsScan(arr, g) == g = [i \in 1..Len(arr) - 1 |-> After(arr, i, Before(arr, g, i))]

\* The last of the first i pairs that has the key k, and the map of the first
\* i pairs
IsLatest(arr, i, k, j) == Key(arr, j) = k /\ \A m \in j + 1..i : Key(arr, m) # k
Latest(arr, i, k) == CHOOSE j \in 1..i : IsLatest(arr, i, k, j)
SpecOf(arr, i) == [k \in {Key(arr, j) : j \in 1..i} |-> Value(arr, Latest(arr, i, k))]

ScanOf(arr) ==
    [i \in 1..Len(arr) - 1 |->
        [spec |-> SpecOf(arr, i),
         key  |-> IF i = Len(arr) - 1 THEN Key(arr, i) ELSE Key(arr, i + 1),
         stop |-> i = Len(arr) - 1]]

LEMMA KeyValuesIsScan ==
    ASSUME NEW arr, NEW h, IsScan(arr, h)
    PROVE  \E g : IsScan(arr, g) /\ KeyValues(arr) = g[Len(arr) - 1].spec
<1> DEFINE g == CHOOSE g : IsScan(arr, g)
<1>1. IsScan(arr, g)
  OBVIOUS
<1>2. KeyValues(arr) = g[Len(arr) - 1].spec
  BY Zenon DEF KeyValues, IsScan, After, Before
<1> QED
  BY <1>1, <1>2

LEMMA LatestExists ==
    ASSUME NEW arr, NEW i \in Nat, NEW k, \E j \in 1..i : Key(arr, j) = k
    PROVE  Latest(arr, i, k) \in 1..i /\ IsLatest(arr, i, k, Latest(arr, i, k))
<1> DEFINE S == {j \in 1..i : Key(arr, j) = k}
<1>1. IsFiniteSet(1..i) /\ S \in SUBSET (1..i)
  BY FS_Interval
<1>2. IsFiniteSet(S)
  BY <1>1, FS_Subset
<1>3. S \subseteq Nat /\ S # {}
  OBVIOUS
<1>4. \E j \in S : \A g \in S : g <= j
  <2> HIDE DEF S
  <2> QED
    BY <1>2, <1>3, GreatestExists
<1>5. PICK j \in S : \A g \in S : g <= j
  BY <1>4
<1>6. \A m \in j + 1..i : m \in 1..i /\ m > j
  OBVIOUS
<1>7. IsLatest(arr, i, k, j)
  BY <1>5, <1>6 DEF IsLatest
<1>8. \E m \in 1..i : IsLatest(arr, i, k, m)
  BY <1>7
<1> QED
  BY <1>8 DEF Latest

LEMMA LatestUnique ==
    ASSUME NEW arr, NEW i \in Nat, NEW k, NEW j \in 1..i, IsLatest(arr, i, k, j)
    PROVE  Latest(arr, i, k) = j
<1> DEFINE l == Latest(arr, i, k)
<1>1. l \in 1..i /\ IsLatest(arr, i, k, l)
  BY LatestExists DEF IsLatest
<1>2. ~(l > j) /\ ~(l < j)
  <2>1. ASSUME l > j PROVE FALSE
    BY <1>1, <2>1 DEF IsLatest
  <2>2. ASSUME l < j PROVE FALSE
    BY <1>1, <2>2 DEF IsLatest
  <2> QED
    BY <2>1, <2>2
<1> QED
  BY <1>1, <1>2

\* One more pair: its key gets its value, the others keep theirs.
LEMMA SpecOfNext ==
    ASSUME NEW arr, NEW i \in Nat \ {0}
    PROVE  SpecOf(arr, i) = Assign(SpecOf(arr, i - 1), Key(arr, i), Value(arr, i))
<1> DEFINE D(n) == {Key(arr, j) : j \in 1..n}
<1>1. i - 1 \in Nat /\ 1..i = (1..i - 1) \cup {i} /\ i \notin 1..i - 1
  OBVIOUS
<1>2. D(i) = D(i - 1) \cup {Key(arr, i)}
  BY <1>1
<1>3. DOMAIN SpecOf(arr, i - 1) = D(i - 1)
  BY DEF SpecOf
<1>4. ASSUME NEW k \in D(i), k = Key(arr, i)
      PROVE  Latest(arr, i, k) = i
  BY <1>4, LatestUnique DEF IsLatest
<1>5. ASSUME NEW k \in D(i), k # Key(arr, i)
      PROVE  k \in D(i - 1) /\ Latest(arr, i, k) = Latest(arr, i - 1, k)
  <2> DEFINE l == Latest(arr, i - 1, k)
  <2>1. k \in D(i - 1)
    BY <1>2, <1>5
  <2>2. l \in 1..i - 1 /\ IsLatest(arr, i - 1, k, l)
    BY <1>1, <2>1, LatestExists
  <2>3. l \in 1..i /\ \A m \in l + 1..i : m = i \/ m \in l + 1..i - 1
    BY <2>2
  <2>4. IsLatest(arr, i, k, l)
    BY <1>5, <2>2, <2>3 DEF IsLatest
  <2> QED
    BY <2>1, <2>3, <2>4, LatestUnique
<1>6. \A k \in D(i) : Value(arr, Latest(arr, i, k)) =
         IF k = Key(arr, i) THEN Value(arr, i) ELSE SpecOf(arr, i - 1)[k]
  BY <1>4, <1>5 DEF SpecOf
<1> QED
  BY <1>2, <1>3, <1>6 DEF SpecOf, Assign

LEMMA AfterLast ==
    ASSUME NEW arr, NEW i, NEW m, NEW k, arr[i + 1] = Last(arr)
    PROVE  After(arr, i, [spec |-> m, key |-> k, stop |-> FALSE])
              = [spec |-> Assign(m, k, Last(arr)), key |-> k, stop |-> TRUE]
BY DEF After

LEMMA AfterOther ==
    ASSUME NEW arr, NEW i, NEW m, NEW k, arr[i + 1] # Last(arr)
    PROVE  After(arr, i, [spec |-> m, key |-> k, stop |-> FALSE])
              = [spec |-> Assign(m, k, Join(Front(arr[i + 1]))), key |-> <<Last(arr[i + 1])>>, stop |-> FALSE]
BY DEF After

LEMMA ScanOfIsScan ==
    ASSUME NEW arr, NEW n \in Nat \ {0}, Len(arr) = n + 1, Distinct(arr)
    PROVE  IsScan(arr, ScanOf(arr))
<1> DEFINE h == ScanOf(arr)
<1>1. Len(arr) - 1 = n
  OBVIOUS
<1>2. ASSUME NEW i \in 1..n
      PROVE  Before(arr, h, i) = [spec |-> SpecOf(arr, i - 1), key |-> Key(arr, i), stop |-> FALSE]
  <2>1. CASE i = 1
    <3>1. SpecOf(arr, i - 1) = Empty
      BY <2>1 DEF SpecOf, Empty
    <3>2. Key(arr, i) = arr[1]
      BY <2>1 DEF Key
    <3> QED
      BY <2>1, <3>1, <3>2 DEF Before
  <2>2. CASE i # 1
    <3>1. i - 1 \in 1..n /\ i - 1 # n /\ (i - 1) + 1 = i
      BY <1>1, <2>2
    <3>2. h[i - 1] = [spec |-> SpecOf(arr, i - 1), key |-> Key(arr, i), stop |-> FALSE]
      BY <1>1, <3>1 DEF ScanOf
    <3> QED
      BY <2>2, <3>2 DEF Before
  <2> QED
    BY <2>1, <2>2
<1>3. ASSUME NEW i \in 1..n
      PROVE  After(arr, i, Before(arr, h, i)) = h[i]
  <2>1. i \in Nat \ {0}
    BY <1>1
  <2>2. SpecOf(arr, i) = Assign(SpecOf(arr, i - 1), Key(arr, i), Value(arr, i))
    BY <2>1, SpecOfNext
  <2>3. CASE i = n
    <3>1. arr[i + 1] = Last(arr) /\ Value(arr, i) = Last(arr)
      BY <1>1, <2>3 DEF Last, Value
    <3>2. h[i] = [spec |-> SpecOf(arr, i), key |-> Key(arr, i), stop |-> TRUE]
      BY <1>1, <2>3 DEF ScanOf
    <3> QED
      BY <1>2, <2>2, <3>1, <3>2, AfterLast
  <2>4. CASE i # n
    <3>1. i + 1 \in 2..Len(arr) - 1 /\ i + 1 # 1
      BY <1>1, <2>4
    <3>2. arr[i + 1] # Last(arr)
      BY <3>1 DEF Distinct
    <3>3. Value(arr, i) = Join(Front(arr[i + 1])) /\ Key(arr, i + 1) = <<Last(arr[i + 1])>>
      BY <1>1, <2>4, <3>1 DEF Value, Key
    <3>4. h[i] = [spec |-> SpecOf(arr, i), key |-> Key(arr, i + 1), stop |-> FALSE]
      BY <1>1, <2>4 DEF ScanOf
    <3> QED
      BY <1>2, <2>2, <3>2, <3>3, <3>4, AfterOther
  <2> QED
    BY <2>3, <2>4
<1>4. h = [i \in 1..n |-> h[i]]
  BY <1>1 DEF ScanOf
<1> QED
  BY <1>1, <1>3, <1>4 DEF IsScan

LEMMA ScanUnique ==
    ASSUME NEW arr, NEW n \in Nat \ {0}, Len(arr) = n + 1, NEW g, NEW h, IsScan(arr, g), IsScan(arr, h)
    PROVE  g[n] = h[n]
<1> DEFINE S == {i \in Nat : i \in 1..n => g[i] = h[i]}
<1>1. 0 \in S /\ Len(arr) - 1 = n
  OBVIOUS
<1>2. ASSUME NEW i \in Nat, i \in S PROVE i + 1 \in S
  <2>1. SUFFICES ASSUME i + 1 \in 1..n PROVE g[i + 1] = h[i + 1]
    OBVIOUS
  <2>2. Before(arr, g, i + 1) = Before(arr, h, i + 1)
    BY <1>2, <2>1 DEF Before
  <2> QED
    BY <1>1, <2>1, <2>2 DEF IsScan
<1>3. Nat \subseteq S
  <2> HIDE DEF S
  <2> QED
    BY <1>1, <1>2, Counting
<1> QED
  BY <1>3

\* The loop ends with the map of all pairs.
LEMMA KeyValuesAre ==
    ASSUME NEW arr, NEW n \in Nat \ {0}, Len(arr) = n + 1, Distinct(arr)
    PROVE  KeyValues(arr) = SpecOf(arr, n)
<1>1. PICK g : IsScan(arr, g) /\ KeyValues(arr) = g[Len(arr) - 1].spec
  BY ScanOfIsScan, KeyValuesIsScan
<1>2. g[n] = ScanOf(arr)[n]
  BY <1>1, ScanOfIsScan, ScanUnique
<1> QED
  BY <1>1, <1>2 DEF ScanOf

LEMMA KeyValuesArePairs ==
    ASSUME NEW arr, NEW n \in Nat \ {0}, Len(arr) = n + 1, Distinct(arr)
    PROVE  LET m == KeyValues(arr) IN {<<k, m[k]>> : k \in DOMAIN m} = Pairs(arr)
<1> DEFINE m == SpecOf(arr, n)
<1>1. n \in Nat /\ Len(arr) - 1 = n
  OBVIOUS
<1>2. ASSUME NEW k \in DOMAIN m PROVE <<k, m[k]>> \in Pairs(arr)
  <2>1. Latest(arr, n, k) \in 1..n /\ IsLatest(arr, n, k, Latest(arr, n, k)) /\ m[k] = Value(arr, Latest(arr, n, k))
    BY <1>1, LatestExists DEF SpecOf
  <2> QED
    BY <1>1, <2>1 DEF Pairs, IsLatest
<1>3. ASSUME NEW j \in 1..n, \A i \in j + 1..n : Key(arr, i) # Key(arr, j)
      PROVE  Key(arr, j) \in DOMAIN m /\ m[Key(arr, j)] = Value(arr, j)
  <2>1. Latest(arr, n, Key(arr, j)) = j
    BY <1>1, <1>3, LatestUnique DEF IsLatest
  <2> QED
    BY <2>1 DEF SpecOf
<1>4. {<<k, m[k]>> : k \in DOMAIN m} = Pairs(arr)
  <2> HIDE DEF m
  <2> QED
    BY <1>1, <1>2, <1>3 DEF Pairs
<1> QED
  BY <1>4, KeyValuesAre

LEMMA PairsLength ==
    ASSUME PTyped, query # None, IsPairs(query)
    PROVE  \E n \in Nat \ {0} : Len(query.segments) = n + 1
<1>1. query.segments \in Seq(Seq(Words) \ {<<>>}) /\ Len(query.segments) > 1
  BY QueriesAssumption, WebQueriesAssumption DEF PTyped, IsPairs
<1>2. PICK l \in Nat : l = Len(query.segments)
  BY <1>1
<1>3. \A m \in Nat : m > 1 => m - 1 \in Nat \ {0} /\ m = (m - 1) + 1
  OBVIOUS
<1>4. l - 1 \in Nat \ {0} /\ l = (l - 1) + 1
  BY <1>1, <1>2, <1>3
<1> QED
  BY <1>2, <1>4

\* ParseQuery takes a query of any length apart into the pairs it is made of,
\* unless the last value shows up as a segment before.
THEOREM QueriesAreParsed == PageSpec => []PairsParsed
<1>1. ASSUME PInv PROVE PairsParsed
  <2>1. SUFFICES ASSUME query # None, IsPairs(query), Distinct(query.segments)
                 PROVE  LET m == KeyValues(query.segments)
                        IN  {<<k, m[k]>> : k \in DOMAIN m} = Pairs(query.segments)
    BY DEF PairsParsed
  <2>2. \E n \in Nat \ {0} : Len(query.segments) = n + 1
    BY <1>1, <2>1, PairsLength DEF PInv
  <2> QED
    BY <2>1, <2>2, KeyValuesArePairs
<1> QED
  BY <1>1, SearchInvariance, PTL

\* A record that is found had every pair of the query when it was read, but
\* for values that make a pattern.
THEOREM FoundRecordsMatch == PageSpec => []FoundMatches
<1>1. ASSUME PInv PROVE FoundMatches
  <2>1. SUFFICES ASSUME phase = "answered", IsPairs(query), Distinct(query.segments),
                        NEW i \in DOMAIN answer, NEW p \in Pairs(query.segments),
                        p[1][1] \notin Dollars \cup {"_id"}, Literal(p[2])
                 PROVE  Has(answer[i], p[1], p[2])
    BY DEF FoundMatches
  <2> DEFINE arr == query.segments
             m == KeyValues(arr)
  <2>2. \E n \in Nat \ {0} : Len(arr) = n + 1
    BY <1>1, <2>1, PairsLength DEF PInv, None, IsPairs
  <2>3. PICK k \in DOMAIN m : p = <<k, m[k]>>
    BY <2>1, <2>2, KeyValuesArePairs
  <2>4. spec = AdjustQuery(m)
    <3>1. Parse(query) = AdjustQuery(KeyValues(query.segments))
      <4>1. query.kind = "text" /\ Len(query.segments) > 1
        BY <2>1 DEF IsPairs
      <4>2. Len(query.segments) # 1 /\ query.kind # "json"
        BY <2>2, <4>1
      <4> QED
        BY <4>1, <4>2, Zenon DEF Parse
    <3> QED
      BY <1>1, <2>1, <3>1 DEF PInv, PTyped, Parsed
  <2>5. [field |-> Field(k), text |-> m[k], exact |-> ~Known(k) \/ HasDigit(m[k])] \in spec
    <3>1. k[1] \notin Dollars /\ k # <<"_id">>
      BY <2>1, <2>3
    <3> HIDE DEF m
    <3> QED
      BY <2>4, <3>1 DEF AdjustQuery
  <2>6. PICK c \in spec : c.field = Field(k) /\ c.text = m[k]
    BY <2>5
  <2>7. Holds(answer[i], c)
    BY <1>1, <2>1 DEF PInv, AllHold
  <2>8. Literal(c.text)
    BY <2>1, <2>3, <2>6
  <2>9. \/ answer[i][Field(k)].text = m[k]
        \/ Fold(answer[i][Field(k)].text) = Fold(m[k])
    BY <2>6, <2>7, <2>8 DEF Holds
  <2>10. Field(k) \in DOMAIN answer[i] /\ Fold(answer[i][Field(k)].text) = Fold(m[k])
    BY <2>6, <2>7, <2>9 DEF Holds
  <2> QED
    BY <2>3, <2>10 DEF Has
<1> QED
  BY <1>1, SearchInvariance, PTL
----------------------------------------------------------------------------
(* The pager *)

\* LastStart's Step, and its values without recursion
IsSteps(n, l, g) == g = [i \in 0..n + l |-> IF i + l < n THEN g[i + l] ELSE i]
StepsOf(n, l) == [i \in 0..n + l |-> IF i < n THEN i + ((n - 1 - i) \div l) * l ELSE i]

LEMMA LastStartIsStep ==
    ASSUME NEW n, NEW l, NEW h, IsSteps(n, l, h)
    PROVE  \E g : IsSteps(n, l, g) /\ LastStart(n, l) = g[0]
<1> DEFINE g == CHOOSE g : IsSteps(n, l, g)
<1>1. IsSteps(n, l, g)
  OBVIOUS
<1>2. LastStart(n, l) = g[0]
  BY Zenon DEF LastStart, IsSteps
<1> QED
  BY <1>1, <1>2

LEMMA StepsOfIsSteps ==
    ASSUME NEW n \in Nat, NEW l \in Nat \ {0}
    PROVE  IsSteps(n, l, StepsOf(n, l))
<1> DEFINE h == StepsOf(n, l)
<1>1. ASSUME NEW i \in 0..n + l, i + l < n
      PROVE  h[i] = h[i + l]
  <2> DEFINE a == n - 1 - i
             q == a \div l
             b == n - 1 - (i + l)
  <2>1. a \in Nat /\ b \in Nat /\ a = b + l /\ i + l \in 0..n + l /\ i < n
    BY <1>1
  <2>2. q \in Nat /\ q * l <= a /\ a < q * l + l
    BY <2>1, QuotientBounds
  <2>3. q # 0
    BY <2>1, <2>2
  <2>4. PICK p \in Nat : q = p + 1
    <3> HIDE DEF q
    <3>1. q - 1 \in Nat /\ q = (q - 1) + 1
      BY <2>2, <2>3
    <3> QED
      BY <3>1
  <2>5. q * l = p * l + l /\ p * l \in Nat
    BY <2>4, NextMultiple, ProductNat
  <2>6. p * l <= b /\ b < p * l + l
    BY <2>1, <2>2, <2>5
  <2>7. b \div l = p
    BY <2>1, <2>6, QuotientIs
  <2>8. h[i] = i + q * l
    BY <2>1 DEF StepsOf
  <2>9. h[i + l] = (i + l) + p * l
    BY <1>1, <2>1, <2>7 DEF StepsOf
  <2> QED
    BY <2>5, <2>8, <2>9
<1>2. ASSUME NEW i \in 0..n + l, ~(i + l < n)
      PROVE  h[i] = i
  <2>1. CASE i < n
    <3>1. n - 1 - i \in Nat /\ 0 * l <= n - 1 - i /\ n - 1 - i < 0 * l + l
      BY <1>2, <2>1
    <3>2. (n - 1 - i) \div l = 0
      BY <3>1, QuotientIs
    <3> QED
      BY <2>1, <3>2 DEF StepsOf
  <2>2. CASE ~(i < n)
    BY <2>2 DEF StepsOf
  <2> QED
    BY <2>1, <2>2
<1>3. h = [i \in 0..n + l |-> h[i]]
  BY DEF StepsOf
<1> QED
  BY <1>1, <1>2, <1>3 DEF IsSteps

\* The loop for the last page stops at the page of the last record.
LEMMA LastStartIs ==
    ASSUME NEW n \in Nat \ {0}, NEW l \in Nat \ {0}
    PROVE  LastStart(n, l) = PageOf(n, l) * l
<1>1. PICK g : IsSteps(n, l, g) /\ LastStart(n, l) = g[0]
  BY StepsOfIsSteps, LastStartIsStep
<1> DEFINE S == {m \in Nat : m * l < n => g[m * l] = g[0]}
           e == PageOf(n, l)
<1>2. 0 \in S
  OBVIOUS
<1>3. ASSUME NEW m \in Nat, m \in S PROVE m + 1 \in S
  <2>1. SUFFICES ASSUME (m + 1) * l < n PROVE g[(m + 1) * l] = g[0]
    OBVIOUS
  <2>2. (m + 1) * l = m * l + l /\ m * l \in Nat
    BY NextMultiple, ProductNat
  <2>3. m * l + l < n /\ m * l \in 0..n + l /\ g[m * l] = g[0]
    BY <1>3, <2>1, <2>2
  <2>4. g[m * l] = g[m * l + l]
    BY <1>1, <2>3 DEF IsSteps
  <2> QED
    BY <2>2, <2>3, <2>4
<1>4. Nat \subseteq S
  <2> HIDE DEF S
  <2> QED
    BY <1>2, <1>3, Counting
<1>5. e \in Nat /\ e * l <= n - 1 /\ n - 1 < e * l + l
  BY QuotientBounds DEF PageOf
<1>6. e * l \in Nat
  BY <1>5, ProductNat
<1> HIDE DEF e
<1>7. e * l < n /\ ~(e * l + l < n) /\ e * l \in 0..n + l
  BY <1>5, <1>6
<1>8. g[e * l] = e * l
  BY <1>1, <1>7 DEF IsSteps
<1> QED
  BY <1>1, <1>4, <1>5, <1>7, <1>8 DEF e

LEMMA PaginationFits ==
    ASSUME NEW n \in Nat \ {0}, NEW l \in Nat \ {0}, NEW i \in Nat, i % l = 0, i < n
    PROVE  LET pages == Pagination(n, i, l)
               here  == PageOf(i + 1, l)
               end   == PageOf(n, l)
           IN  /\ pages.from..pages.to = {r \in 1..n : PageOf(r, l) = here}
               /\ pages.first = 0 /\ pages.last = end * l
               /\ pages.prev = (IF here = 0 THEN 0 ELSE (here - 1) * l)
               /\ pages.next = (here + 1) * l
<1> DEFINE h == i \div l
           to == IF n > i + l THEN i + l ELSE n
<1>1. h \in Nat /\ h * l = i
  BY QuotientBounds, NoRemainder
<1>2. PageOf(i + 1, l) = h
  <2>1. (i + 1) - 1 = i
    OBVIOUS
  <2> QED
    BY <2>1 DEF PageOf
<1> HIDE DEF h
<1>3. ASSUME NEW r \in 1..n
      PROVE  PageOf(r, l) = h <=> i + 1 <= r /\ r <= i + l
  <2>1. r - 1 \in Nat
    OBVIOUS
  <2>2. ASSUME PageOf(r, l) = h PROVE i + 1 <= r /\ r <= i + l
    BY <1>1, <2>1, <2>2, QuotientBounds DEF PageOf
  <2>3. ASSUME i + 1 <= r, r <= i + l PROVE PageOf(r, l) = h
    <3>1. h * l <= r - 1 /\ r - 1 < h * l + l
      BY <1>1, <2>3
    <3> QED
      BY <1>1, <2>1, <3>1, QuotientIs DEF PageOf
  <2> QED
    BY <2>2, <2>3
<1>4. i + 1..to = {r \in 1..n : PageOf(r, l) = h}
  <2>1. \A r \in i + 1..to : r \in 1..n /\ i + 1 <= r /\ r <= i + l
    OBVIOUS
  <2>2. \A r \in 1..n : i + 1 <= r /\ r <= i + l => r \in i + 1..to
    OBVIOUS
  <2> HIDE DEF to
  <2> QED
    BY <1>3, <2>1, <2>2
<1>5. (IF i # 0 THEN i - l ELSE 0) = (IF h = 0 THEN 0 ELSE (h - 1) * l)
  <2>1. CASE h = 0
    BY <1>1, <2>1
  <2>2. CASE h # 0
    <3>1. PICK p \in Nat : h = p + 1
      BY <1>1, <2>2
    <3>2. i = p * l + l /\ p * l \in Nat /\ h - 1 = p
      BY <1>1, <3>1, NextMultiple, ProductNat
    <3> QED
      BY <2>2, <3>2
  <2> QED
    BY <2>1, <2>2
<1>6. i + l = (h + 1) * l
  BY <1>1, NextMultiple
<1> QED
  BY <1>2, <1>4, <1>5, <1>6, LastStartIs DEF Pagination

\* The pager takes the records apart into pages, for any number of records
\* and any positive page size: the span it shows is the records of the page,
\* its links lead to the first, the last and the neighbouring pages, and from
\* the last page one of them leads past the end.
THEOREM PagerFits == PageSpec => []PagesFit
<1>1. ASSUME PInv PROVE PagesFit
  <2>1. SUFFICES ASSUME phase = "page", pager # None, 0 <= idx, idx < nrec, idx % limit = 0
                 PROVE  PagesFit
    BY DEF PagesFit
  <2>2. nrec > 0 /\ limit > 0 /\ pager = Pagination(nrec, idx, limit)
    BY <1>1, <2>1 DEF PInv, Paged, PTyped
  <2>3. nrec \in Nat \ {0} /\ limit \in Nat \ {0} /\ idx \in Nat
    BY <1>1, <2>1, <2>2 DEF PInv, PTyped
  <2> QED
    BY <2>1, <2>2, <2>3, PaginationFits DEF PagesFit
<1> QED
  BY <1>1, SearchInvariance, PTL
============================================================================
