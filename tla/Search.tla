------------------------------- MODULE Search -------------------------------
(***************************************************************************)
(* The search of the command line client (SearchHandler of                 *)
(* web/handlers.go) with the query language of web/query.go.  A text is a  *)
(* sequence of words; a query that is neither blank nor JSON is split at   *)
(* the separator ":" into segments, each of them a text.  Records may be   *)
(* stored, and change, while a query is on its way.  Each request to       *)
(* MongoDB is one step; fields are strings or numbers.                     *)
(***************************************************************************)
EXTENDS Naturals, SequencesExt

CONSTANTS
    Words,        \* the words of queries and documents, "" included
    Lower,        \* strings.ToLower, as [Words -> Words]
    Digits,       \* words with a digit in them (PatternFloat is not anchored)
    Dollars,      \* words that start with "$"
    HexIds,       \* words that are ObjectIDs in hexadecimal
    Meta,         \* words in which a character is special in a regular expression
    Matches,      \* <<pattern, text>> such that "^pattern$" with such words matches
    BadPatterns,  \* texts that make no regular expression
    SchemaKeys,   \* keys of the loaded schemas
    Queries,      \* what may be asked
    Docs, Late    \* the documents by their id, and what is stored during the
                  \* query: a record and the id of the document it goes into

ASSUME LowerAssumption == /\ Lower \in [Words -> Words]
                          /\ \A w \in Words : Lower[Lower[w]] = Lower[w]
ASSUME KeysAssumption == \A j, k \in SchemaKeys : Lower[j] = Lower[k] => j = k
ASSUME QueriesAssumption ==
    \A q \in Queries : q.kind = "text" => q.segments \in Seq(Seq(Words) \ {<<>>}) \ {<<>>}

VARIABLES coll, query, phase, spec, answer
vars == <<coll, query, phase, spec, answer>>

None == [kind |-> "none"]
Empty == [x \in {} |-> x]
Init == coll = Docs /\ query = None /\ phase = "idle" /\ spec = None /\ answer = Empty

\* strings.Join(ws, " "); nothing joined is the empty word
Join(ws) == IF ws = <<>> THEN <<"">> ELSE ws

\* a bson map: assigning to a key replaces its value
Assign(m, k, v) == [x \in DOMAIN m \cup {k} |-> IF x = k THEN v ELSE m[x]]

\* the value of every pair but the last keeps the next key
KeyValues_KeepsKey(arr) ==
    LET Scan[i \in 1..Len(arr) - 1] ==
          LET seg  == arr[i + 1]
              prev == IF i = 1 THEN [spec |-> Empty, key |-> arr[1], stop |-> FALSE] ELSE Scan[i - 1]
          IN  IF prev.stop THEN prev
              ELSE IF seg = Last(arr) THEN [spec |-> Assign(prev.spec, prev.key, seg), key |-> prev.key, stop |-> TRUE]
              ELSE [spec |-> Assign(prev.spec, prev.key, Join(seg)), key |-> <<Last(seg)>>, stop |-> FALSE]
    IN  Scan[Len(arr) - 1].spec

\* The loop of ParseQuery: the words before a segment's last one belong to
\* the key before it, the last one is the next key.  It stops at the first
\* segment that equals the last one.
KeyValues(arr) ==
    LET Scan[i \in 1..Len(arr) - 1] ==
          LET seg  == arr[i + 1]
              prev == IF i = 1 THEN [spec |-> Empty, key |-> arr[1], stop |-> FALSE] ELSE Scan[i - 1]
          IN  IF prev.stop THEN prev
              ELSE IF seg = Last(arr) THEN [spec |-> Assign(prev.spec, prev.key, seg), key |-> prev.key, stop |-> TRUE]
              ELSE [spec |-> Assign(prev.spec, prev.key, Join(Front(seg))), key |-> <<Last(seg)>>, stop |-> FALSE]
    IN  Scan[Len(arr) - 1].spec

\* the name of the field a key of the query stands for
Known(k) == Len(k) = 1 /\ \E c \in SchemaKeys : Lower[c] = Lower[k[1]]
Field(k) == IF Known(k) THEN <<CHOOSE c \in SchemaKeys : Lower[c] = Lower[k[1]]>> ELSE k
HasDigit(text) == \E i \in DOMAIN text : text[i] \in Digits

\* unknown keys left out
AdjustQuery_KnownKeys(m) ==
    {[field |-> Field(k), text |-> m[k], exact |-> HasDigit(m[k])] :
        k \in {j \in DOMAIN m : Known(j)}}

\* "$..." and an "_id" that is no ObjectID are dropped.  A key of a schema
\* gets the schema's spelling and its value becomes the regular expression
\* "^value$" that ignores case, unless it has a digit; other pairs stay as
\* they are.
AdjustQuery(m) ==
    LET dropped(k) == k[1] \in Dollars
                      \/ (k = <<"_id">> /\ m[k] \notin {<<h>> : h \in HexIds})
    IN  {[field |-> Field(k), text |-> m[k], exact |-> ~Known(k) \/ HasDigit(m[k])] :
            k \in {j \in DOMAIN m : ~dropped(j)}}

\* ParseQuery; its JSON branch hands a MongoDB query on as it is (and panics
\* on an _id that is not a string, kind "idobject")
Parse(q) ==
    CASE q.kind = "text" /\ Len(q.segments) > 1 -> AdjustQuery(KeyValues(q.segments))
      [] q.kind = "text" /\ Len(q.segments) = 1 ->
            AdjustQuery(Assign(Empty, <<"$text">>, q.segments[1]))
      [] q.kind = "json" -> q.spec

\* blank, or with a "{" and yet no JSON
Refused(q) ==
    \/ q.kind = "malformed"
    \/ q.kind = "text" /\ Len(q.segments) = 1
          /\ \A i \in DOMAIN q.segments[1] : q.segments[1][i] = ""

Fold(text) == [i \in DOMAIN text |-> Lower[text[i]]]

Literal(text) == \A i \in DOMAIN text : text[i] \notin Meta

\* How MongoDB reads a condition: a string, or a regular expression, is
\* never equal to a number; no character of the value was quoted
Holds(doc, cond) ==
    /\ cond.field \in DOMAIN doc
    /\ doc[cond.field].type # "number"
    /\ LET text == doc[cond.field].text
       IN  \/ cond.exact /\ text = cond.text
           \/ ~cond.exact /\ Literal(cond.text) /\ Fold(text) = Fold(cond.text)
           \/ ~cond.exact /\ ~Literal(cond.text) /\ <<cond.text, text>> \in Matches

Matching == {i \in DOMAIN coll : \A c \in spec : Holds(coll[i], c)}
Found == [i \in Matching |-> coll[i]]

\* MongoDB refuses the query
Rejected == \E c \in spec : ~c.exact /\ c.text \in BadPatterns

\* then: what comes first for a query that can be parsed
Ask(q, then) ==
    /\ phase = "idle"
    /\ query' = q
    /\ \/ Refused(q) /\ phase' = "refused" /\ UNCHANGED spec
       \/ q.kind = "idobject" /\ phase' = "panicked" /\ UNCHANGED spec
       \/ /\ ~Refused(q) /\ q.kind # "idobject"
          /\ phase' = then
          /\ spec' = Parse(q)
    /\ UNCHANGED <<coll, answer>>

Find ==
    /\ phase = "find"
    /\ ~Rejected
    /\ phase' = "answered"
    /\ answer' = Found
    /\ UNCHANGED <<coll, query, spec>>

\* MongoGet logs the error of Find and then uses the cursor it did not get
FindFails ==
    /\ phase = "find"
    /\ phase' = "panicked"
    /\ UNCHANGED <<coll, query, spec, answer>>

\* MongoUpsert of another request: $set puts the fields of the record into
\* the document of its dataset, or into a new one
Store(new) ==
    /\ LET old == IF new.id \in DOMAIN coll THEN coll[new.id] ELSE Empty
       IN  coll' = Assign(coll, new.id,
                     [f \in DOMAIN old \cup DOMAIN new.rec |->
                        IF f \in DOMAIN new.rec THEN new.rec[f] ELSE old[f]])
    /\ UNCHANGED <<query, phase, spec, answer>>

Finished == phase \in {"refused", "answered", "panicked"} /\ UNCHANGED vars

ClientStep ==
    \/ phase = "idle" /\ \E q \in Queries : Ask(q, "find")
    \/ Find \/ FindFails \/ Finished

Next == ClientStep \/ \E new \in Late : Store(new)

Spec == Init /\ [][Next]_vars
----------------------------------------------------------------------------
(* Properties *)

IsPairs(q) == q.kind = "text" /\ Len(q.segments) > 1

\* What a query of pairs means: the key of pair i is the last word before
\* its separator (all words before the first), its value everything up to
\* the next key; of two pairs with one key the later counts.
Key(arr, i)   == IF i = 1 THEN arr[1] ELSE <<Last(arr[i])>>
Value(arr, i) == IF i = Len(arr) - 1 THEN Last(arr) ELSE Join(Front(arr[i + 1]))
Pairs(arr) == {<<Key(arr, i), Value(arr, i)>> : i \in
                  {j \in 1..Len(arr) - 1 : \A k \in j + 1..Len(arr) - 1 : Key(arr, k) # Key(arr, j)}}

\* No segment in the middle is the same as the last one
Distinct(arr) == \A i \in 2..Len(arr) - 1 : arr[i] # Last(arr)

\* ParseQuery takes a query apart into the pairs it is made of, all words of
\* the last segment being the last value, as TestQuery2 and TestQuery3 expect
\* (web/query_test.go).  Not so when the last segment shows up before; and the
\* help of the search form tells users otherwise: see HelpFollowed.
PairsParsed ==
    query # None /\ IsPairs(query) /\ Distinct(query.segments) =>
       LET m == KeyValues(query.segments)
       IN  {<<k, m[k]>> : k \in DOMAIN m} = Pairs(query.segments)

Has(doc, k, v) == Field(k) \in DOMAIN doc /\ Fold(doc[Field(k)].text) = Fold(v)

\* A record that is found has, when it is read, every pair of the query in
\* the schema's spelling of the key and up to the case of the value.  Pairs
\* with a "$" key or a broken _id are no conditions at all, and a value with
\* special characters is a pattern, see ExactlyFound.
FoundMatches ==
    phase = "answered" /\ IsPairs(query) /\ Distinct(query.segments) =>
       \A i \in DOMAIN answer, p \in Pairs(query.segments) :
          p[1][1] \in Dollars \cup {"_id"} \/ ~Literal(p[2]) \/ Has(answer[i], p[1], p[2])

(* What the help of the search form tells users                            *)
(* (web/templates/searchform.tmpl), and the code does not do               *)

\* "Email:user@gmail.com", patterns being for MongoDB queries: a record that is
\* found has that very value.
ExactlyFound ==
    phase = "answered" /\ IsPairs(query) /\ Distinct(query.segments) =>
       \A i \in DOMAIN answer, p \in Pairs(query.segments) :
          p[1][1] \in Dollars \cup {"_id"} \/ Has(answer[i], p[1], p[2])

\* "use key:value syntax": every key has the value that was typed behind it,
\* when a value and a key are between two separators and no key comes twice
\* (so do TestQuery2 and TestQuery3).
ValuesKept ==
    phase = "answered" /\ IsPairs(query) =>
       LET arr  == query.segments
           keys == 1..Len(arr) - 1
           m    == KeyValues(arr)
       IN  /\ \A i \in keys \ {1} : Len(arr[i]) > 1
           /\ \A i, j \in keys : Key(arr, i) = Key(arr, j) => i = j
           => \A i \in keys : Key(arr, i) \in DOMAIN m /\ m[Key(arr, i)] = Value(arr, i)

\* Pairs, the last value one word, and behind them free text that is to be
\* found anywhere in the record.
Combines(doc, arr) ==
    /\ \A i \in 1..Len(arr) - 1 :
          Has(doc, Key(arr, i), IF i = Len(arr) - 1 THEN <<Head(Last(arr))>> ELSE Value(arr, i))
    /\ \A w \in ToSet(Tail(Last(arr))) : \E f \in DOMAIN doc : w \in ToSet(doc[f].text)

\* "You may combine keyword search together along with free text": records
\* that have the pairs and the text are found.
CombinedFound ==
    phase = "answered" /\ IsPairs(query) /\ Len(Last(query.segments)) > 1 =>
       \A i \in DOMAIN coll : Combines(coll[i], query.segments) => i \in DOMAIN answer

\* "You may either use free-text search queries": a record that is found has
\* one of the words.
FreeTextFound ==
    phase = "answered" /\ query.kind = "text" /\ Len(query.segments) = 1 =>
       \A i \in DOMAIN answer : \E f \in DOMAIN answer[i] :
          ToSet(answer[i][f].text) \cap ToSet(query.segments[1]) # {}

\* Keywords and free text, alone and together, find what the help of the
\* search form says they find.  Each of the four parts is violated.
HelpFollowed == FreeTextFound /\ CombinedFound /\ ExactlyFound /\ ValuesKept
============================================================================
