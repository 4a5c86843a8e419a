----------------------------- MODULE SearchPage -----------------------------
(***************************************************************************)
(* The search of the browser: SearchHandler counts the records of a query, *)
(* gets all of them in a second request to MongoDB, and puts a pager above *)
(* the records (pagination and makeURL of web/utils.go).  The links of the *)
(* pager are GET requests, which SearchHandler answers with a blank form.  *)
(***************************************************************************)
EXTENDS Search, Integers, FiniteSets

CONSTANTS
    WebQueries,   \* what is asked with a browser, or posted as it would,
    Starts,       \* ... with the index to start at
    Limits        \* ... and the records per page

ASSUME WebQueriesAssumption ==
    \A q \in WebQueries : q.kind = "text" => q.segments \in Seq(Seq(Words) \ {<<>>}) \ {<<>>}
\* any numbers Atoi reads, if adding them up does not overflow
ASSUME PagerAssumption == Starts \subseteq Int /\ Limits \subseteq Int
ASSUME DocsAssumption  == IsFiniteSet(DOMAIN Docs) /\ IsFiniteSet({new.id : new \in Late})

VARIABLES
    idx, limit,   \* of the request; the form posts neither: 0 and 50
    nrec,         \* what MongoCount returned
    pager,        \* the pager, or None: "No results found"
    changed       \* auxiliary: ids stored between the count and the reading
request == <<idx, limit, nrec, pager>>
pageVars == <<request, changed>>

PageInit == Init /\ idx = 0 /\ limit = 50 /\ nrec = 0 /\ pager = None /\ changed = {}
----------------------------------------------------------------------------
(* The pager *)

\* one step too far
LastStart_PastEnd(n, l) ==
    LET Step[i \in 0..n + l] == IF i + l <= n THEN Step[i + l] ELSE i IN Step[0]

\* The loop that looks for the last page, when it advances
LastStart(n, l) ==
    LET Step[i \in 0..n + l] == IF i + l < n THEN Step[i + l] ELSE i IN Step[0]

Pagination(n, i, l) ==
    [from  |-> i + 1,
     to    |-> IF n > i + l THEN i + l ELSE n,
     first |-> 0,
     prev  |-> IF i # 0 THEN i - l ELSE 0,
     next  |-> i + l,
     last  |-> LastStart(n, l)]
----------------------------------------------------------------------------
(* Every request here is a POST; a client that is "cli" is Search's *)

AskWeb(q, i, l) ==
    /\ Ask(q, "count")
    /\ idx' = i
    /\ limit' = l
    /\ UNCHANGED <<nrec, pager, changed>>

\* the spec does not reach MongoDB
Count_All ==
    /\ phase = "count"
    /\ ~Rejected
    /\ nrec' = Cardinality(DOMAIN coll)
    /\ phase' = "get"
    /\ changed' = {}
    /\ UNCHANGED <<coll, query, spec, answer, idx, limit, pager>>

Count ==
    /\ phase = "count"
    /\ ~Rejected
    /\ nrec' = Cardinality(Matching)
    /\ phase' = "get"
    /\ changed' = {}
    /\ UNCHANGED <<coll, query, spec, answer, idx, limit, pager>>

\* MongoCount logs the error and returns the zero it got with it
CountFails ==
    /\ phase = "count"
    /\ nrec' = 0
    /\ phase' = "get"
    /\ changed' = {}
    /\ UNCHANGED <<coll, query, spec, answer, idx, limit, pager>>

\* All records are shown, whatever the pager says.  The loop for the last
\* page never ends when it does not advance; when it goes backwards, not
\* before the int wraps around, which for a small limit is as good as never.
GetAll ==
    /\ phase = "get"
    /\ ~Rejected
    /\ answer' = Found
    /\ IF nrec > 0 /\ limit <= 0
       THEN phase' = "hung" /\ UNCHANGED pager
       ELSE /\ phase' = "page"
            /\ pager' = IF nrec > 0 THEN Pagination(nrec, idx, limit) ELSE None
    /\ UNCHANGED <<coll, query, spec, idx, limit, nrec, changed>>

GetFails ==
    /\ phase = "get"
    /\ phase' = "panicked"
    /\ UNCHANGED <<coll, query, spec, answer, pageVars>>

\* A link of the pager, or Search in the menu: a GET request whatever its
\* parameters, answered with a form without a query
OpenSearch ==
    /\ phase = "page"
    /\ phase' = "idle"
    /\ query' = None /\ spec' = None /\ answer' = Empty
    /\ idx' = 0 /\ limit' = 50 /\ nrec' = 0 /\ pager' = None
    /\ UNCHANGED <<coll, changed>>

Hung == phase = "hung" /\ UNCHANGED <<vars, pageVars>>

\* another request stores a record meanwhile
StoreMeanwhile(new) ==
    /\ Store(new)
    /\ changed' = IF phase = "get" THEN changed \cup {new.id} ELSE changed
    /\ UNCHANGED request

PageNext ==
    \/ ClientStep /\ UNCHANGED pageVars
    \/ \E new \in Late : StoreMeanwhile(new)
    \/ \E q \in WebQueries, i \in Starts, l \in Limits : AskWeb(q, i, l)
    \/ Count \/ CountFails \/ GetAll \/ GetFails
    \/ OpenSearch \/ Hung

PageSpec == PageInit /\ [][PageNext]_<<vars, pageVars>>
----------------------------------------------------------------------------
(* Properties *)

\* The number of records on the page is the one its pager tells ("records out
\* of"), up to as many as were stored or changed by others between the two
\* requests: one may have started to match, or have ceased to.  A count that
\* failed shows no pager.
CountedAreShown ==
    phase = "page" /\ pager # None =>
       /\ nrec <= Cardinality(DOMAIN answer) + Cardinality(changed)
       /\ Cardinality(DOMAIN answer) <= nrec + Cardinality(changed)

\* The page of record r, when pages of l records are numbered from 0
PageOf(r, l) == (r - 1) \div l

\* The pager takes the records apart into pages: on a page that begins where
\* one does, the span it shows is the records of that page, and its links
\* lead to the first, the last and the neighbouring pages; from the last page
\* "next" leads past the end all the same.
PagesFit ==
    phase = "page" /\ pager # None /\ 0 <= idx /\ idx < nrec /\ idx % limit = 0 =>
       LET here == PageOf(idx + 1, limit)
           end  == PageOf(nrec, limit)
       IN  /\ pager.from..pager.to = {r \in 1..nrec : PageOf(r, limit) = here}
           /\ pager.first = 0 /\ pager.last = end * limit
           /\ pager.prev = (IF here = 0 THEN 0 ELSE (here - 1) * limit)
           /\ pager.next = (here + 1) * limit
============================================================================
