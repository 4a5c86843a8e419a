--------------------------- MODULE DataPageProofs ---------------------------
(***************************************************************************)
(* Theorems about the page with the forms, for any users, schema files,    *)
(* sections and configurations.                                            *)
(***************************************************************************)
EXTENDS DataPage, Basics

----------------------------------------------------------------------------
(* HideTag *)

IsHide(base, seq, g) ==
    g = [s \in SUBSET DOMAIN seq |-> IF s = {} THEN base ELSE HideTag(g[s \ {Max(s)}], seq[Max(s)])]

LEMMA HideExists ==
    ASSUME NEW E, NEW seq \in Seq(E), NEW V
    PROVE  \E g \in [SUBSET DOMAIN seq -> SUBSET V] : IsHide(V, seq, g)
<1> DEFINE A == SUBSET V
           F == [p \in A \X E |-> p[1] \ {p[2]}]
<1>1. F \in [A \X E -> A] /\ V \in A
  OBVIOUS
<1>2. ASSUME NEW a \in A, NEW e \in E PROVE F[a, e] = HideTag(a, e)
  BY DEF HideTag
<1> HIDE DEF A, F
<1>3. PICK g \in [SUBSET DOMAIN seq -> A] : IsIter(F, V, seq, g)
  BY <1>1, IterExists
<1>4. ASSUME NEW s \in SUBSET DOMAIN seq, s # {}
      PROVE  F[g[s \ {Max(s)}], seq[Max(s)]] = HideTag(g[s \ {Max(s)}], seq[Max(s)])
  <2>1. Max(s) \in s
    <3>1. Len(seq) \in Nat /\ s \in SUBSET (1..Len(seq))
      OBVIOUS
    <3> QED
      BY <1>4, <3>1, MaxOfRest
  <2>2. g[s \ {Max(s)}] \in A /\ seq[Max(s)] \in E
    BY <2>1
  <2> QED
    BY <1>2, <2>2
<1>5. IsHide(V, seq, g)
  BY <1>3, <1>4 DEF IsHide, IsIter
<1> QED
  BY <1>5 DEF A

\* All tags of a list are hidden.
LEMMA HideAll ==
    ASSUME NEW E, NEW seq \in Seq(E), NEW V
    PROVE  FoldLeft(HideTag, V, seq) = V \ ToSet(seq)
<1> DEFINE g == CHOOSE g : IsHide(V, seq, g)
<1>1. FoldLeft(HideTag, V, seq) = g[DOMAIN seq]
  BY Zenon DEF FoldLeft, MapThenFoldSet, IsHide
<1>2. IsHide(V, seq, g)
  BY HideExists
<1> HIDE DEF g
<1> DEFINE First(n) == {seq[i] : i \in 1..n}
           T == {n \in Nat : n <= Len(seq) => g[1..n] = V \ First(n)}
<1>3. 0 \in T
  <2>1. 1..0 = {} /\ 1..0 \in SUBSET DOMAIN seq
    OBVIOUS
  <2>2. g[1..0] = V /\ First(0) = {}
    BY <1>2, <2>1 DEF IsHide
  <2> QED
    BY <2>2
<1>4. ASSUME NEW n \in Nat, n \in T PROVE n + 1 \in T
  <2>1. SUFFICES ASSUME n + 1 <= Len(seq) PROVE g[1..n + 1] = V \ First(n + 1)
    OBVIOUS
  <2> DEFINE s == 1..n + 1
  <2>2. g[1..n] = V \ First(n) /\ s \in SUBSET DOMAIN seq
    BY <1>4, <2>1
  <2>3. s # {} /\ Max(s) = n + 1 /\ s \ {n + 1} = 1..n
    BY LastOfFirst
  <2>4. First(n + 1) = First(n) \cup {seq[n + 1]}
    OBVIOUS
  <2> HIDE DEF First, s
  <2>5. g[s] = HideTag(g[s \ {Max(s)}], seq[Max(s)])
    BY <1>2, <2>2, <2>3 DEF IsHide
  <2>6. g[s] = V \ First(n + 1)
    BY <2>2, <2>3, <2>4, <2>5 DEF HideTag
  <2> QED
    BY <2>6 DEF s
<1>5. Nat \subseteq T
  <2> HIDE DEF T
  <2> QED
    BY <1>3, <1>4, Counting
<1>6. DOMAIN seq = 1..Len(seq) /\ g[1..Len(seq)] = V \ First(Len(seq))
  <2> HIDE DEF First
  <2> QED
    BY <1>5
<1>7. First(Len(seq)) = ToSet(seq)
  BY <1>6 DEF ToSet
<1> QED
  BY <1>1, <1>6, <1>7
----------------------------------------------------------------------------
(* The order of the forms *)

LEMMA SchemaFileIs ==
    ASSUME NEW b, NEW k \in DOMAIN SchemaFiles, <<SchemaFiles[k], b>> \in PathHas
    PROVE  \E m \in DOMAIN SchemaFiles :
              /\ SchemaFile(b) = SchemaFiles[m] /\ <<SchemaFiles[m], b>> \in PathHas
              /\ \A i \in 1..m - 1 : <<SchemaFiles[i], b>> \notin PathHas
<1> DEFINE S == {i \in DOMAIN SchemaFiles : <<SchemaFiles[i], b>> \in PathHas}
<1>1. DOMAIN SchemaFiles = 1..Len(SchemaFiles) /\ Len(SchemaFiles) \in Nat
  BY FilesAssumption
<1>2. S \subseteq Nat /\ S # {}
  BY <1>1
<1>3. Min(S) \in S /\ \A g \in S : Min(S) <= g
  <2> HIDE DEF S
  <2>1. PICK m \in S : \A g \in S : m <= g
    BY <1>2, LeastExists
  <2> QED
    BY <2>1 DEF Min
<1>4. \A i \in 1..Min(S) - 1 : i \notin S /\ i \in DOMAIN SchemaFiles
  <2> DEFINE m == Min(S)
  <2>1. m \in 1..Len(SchemaFiles) /\ \A g \in S : m <= g
    BY <1>1, <1>3
  <2> HIDE DEF m
  <2>2. ASSUME NEW i \in 1..m - 1 PROVE i \notin S /\ i \in 1..Len(SchemaFiles)
    <3>1. ~(m <= i) /\ i \in 1..Len(SchemaFiles)
      BY <1>1, <2>1
    <3> HIDE DEF S
    <3> QED
      BY <2>1, <3>1
  <2> QED
    BY <1>1, <2>2 DEF m
<1>5. SchemaFile(b) = SchemaFiles[Min(S)]
  BY DEF SchemaFile
<1> QED
  BY <1>3, <1>4, <1>5

\* The chosen file comes first, and no file is left out.
LEMMA JsonOrderIs ==
    ASSUME NEW b \in ToSet(Beamlines)
    PROVE  /\ JsonOrder(b) \in Seq(Files) \ {<<>>} /\ ToSet(JsonOrder(b)) = Files
           /\ JsonOrder(b)[1] = SchemaFile(b)
<1> DEFINE first == {f \in Files : <<f, b>> \in PathHas}
           p == Keep(SchemaFiles, first)
           q == Keep(SchemaFiles, Files \ first)
<1>1. SchemaFiles \in Seq(Files) /\ ToSet(SchemaFiles) = Files
  BY FilesAssumption DEF Files
<1>2. PICK k \in DOMAIN SchemaFiles : b = Name[SchemaFiles[k]]
  BY DEF ToSet, Beamlines
<1>3. <<SchemaFiles[k], b>> \in PathHas
  BY <1>1, <1>2, FilesAssumption DEF ToSet
<1>4. PICK m \in DOMAIN SchemaFiles :
         /\ SchemaFile(b) = SchemaFiles[m] /\ <<SchemaFiles[m], b>> \in PathHas
         /\ \A i \in 1..m - 1 : <<SchemaFiles[i], b>> \notin PathHas
  BY <1>2, <1>3, SchemaFileIs
<1>5. SchemaFiles[m] \in first /\ \A i \in 1..m - 1 : SchemaFiles[i] \notin first
  BY <1>1, <1>4 DEF ToSet
<1>6. /\ p \in Seq(Files) /\ ToSet(p) = Files \cap first
      /\ q \in Seq(Files) /\ ToSet(q) = Files \cap (Files \ first)
  <2> HIDE DEF first
  <2> QED
    BY <1>1, KeepSet
<1>7. p # <<>> /\ p[1] = SchemaFile(b)
  <2> HIDE DEF first
  <2> QED
    BY <1>1, <1>4, <1>5, KeepFirst
<1>8. JsonOrder(b) = p \o q
  BY DEF JsonOrder
<1> HIDE DEF p, q
<1>9. p \o q \in Seq(Files) \ {<<>>} /\ (p \o q)[1] = p[1]
  BY <1>6, <1>7
<1>10. ToSet(p \o q) = ToSet(p) \cup ToSet(q)
  BY <1>6, JoinSet
<1> QED
  BY <1>6, <1>7, <1>8, <1>9, <1>10

LEMMA NamesDiffer ==
    ASSUME NEW f \in Files, NEW g \in Files, Name[f] = Name[g]
    PROVE  f = g
<1>1. PICK i \in DOMAIN SchemaFiles : SchemaFiles[i] = f
  BY DEF Files, ToSet
<1>2. PICK j \in DOMAIN SchemaFiles : SchemaFiles[j] = g
  BY DEF Files, ToSet
<1>3. DOMAIN Beamlines = DOMAIN SchemaFiles /\ Beamlines[i] = Beamlines[j]
  BY <1>1, <1>2 DEF Beamlines
<1> QED
  BY <1>1, <1>2, <1>3, FilesAssumption DEF IsInjective

LEMMA BeamlinesAre ==
    /\ Beamlines \in Seq(ToSet(Beamlines)) \ {<<>>} /\ Head(Beamlines) = Name[SchemaFiles[1]]
    /\ \A f \in Files : Name[f] \in ToSet(Beamlines)
<1>1. /\ SchemaFiles \in Seq(Files) /\ Len(SchemaFiles) \in Nat \ {0}
      /\ DOMAIN SchemaFiles = 1..Len(SchemaFiles)
  BY FilesAssumption
<1>2. Beamlines = [i \in 1..Len(SchemaFiles) |-> Name[SchemaFiles[i]]]
  BY <1>1 DEF Beamlines
<1>3. \A i \in 1..Len(SchemaFiles) : Beamlines[i] \in ToSet(Beamlines)
  BY <1>2 DEF ToSet
<1>4. Beamlines \in Seq(ToSet(Beamlines)) /\ Len(Beamlines) = Len(SchemaFiles)
  BY <1>1, <1>2, <1>3
<1>5. Beamlines # <<>> /\ Head(Beamlines) = Name[SchemaFiles[1]]
  BY <1>1, <1>2, <1>4
<1>6. \A f \in Files : Name[f] \in ToSet(Beamlines)
  BY <1>1, <1>2 DEF Files, ToSet
<1> QED
  BY <1>4, <1>5, <1>6

LEMMA SchemaFileOf ==
    ASSUME NEW b \in ToSet(Beamlines)
    PROVE  SchemaFile(b) \in Files
<1>1. PICK k \in DOMAIN SchemaFiles : b = Name[SchemaFiles[k]]
  BY DEF ToSet, Beamlines
<1>2. <<SchemaFiles[k], b>> \in PathHas
  BY <1>1, FilesAssumption DEF Files, ToSet
<1>3. \E m \in DOMAIN SchemaFiles : SchemaFile(b) = SchemaFiles[m]
  BY <1>1, <1>2, SchemaFileIs
<1> QED
  BY <1>3 DEF Files, ToSet
----------------------------------------------------------------------------
(* The page.  The beamline that is selected may not be Plain: a page for an *)
(* uploaded record then shows the form of the file its name leads to, until *)
(* the user selects a beamline.                                             *)

Orders  == {o \in Seq(Files) \ {<<>>} : ToSet(o) = Files}
Options == {o \in Seq(ToSet(Beamlines)) \ {<<>>} : ToSet(o) = ToSet(Beamlines)}

Generated(g) ==
    /\ DOMAIN g = {"order", "options", "at", "forms", "form"}
    /\ g.order \in Orders /\ g.at \in 1..Len(g.order) /\ g.options \in Options
    /\ Name[g.order[1]] = Head(g.options) \/ g.order[1] = SchemaFile(Head(g.options))

Displayed(p) ==
    /\ DOMAIN p = {"kind", "forms", "visible", "options", "selected", "schemaName"}
    /\ p.options \in Options /\ p.selected \in ToSet(Beamlines) /\ p.schemaName = p.selected
    /\ p.visible = {p.selected} \/ p.visible = {Name[SchemaFile(p.selected)]}

DTyped ==
    /\ DOMAIN gen = Users /\ DOMAIN page = Users
    /\ \A u \in Users : /\ gen[u] # Nothing => Generated(gen[u])
                        /\ Shown(u) => Displayed(page[u])

DInv == DTyped /\ CheckedByOwn

LEMMA Requested ==
    ASSUME DInv, NEW u \in Users, NEW order \in Orders, NEW options \in Options, Request(u, order, options),
           Name[order[1]] = Head(options) \/ order[1] = SchemaFile(Head(options))
    PROVE  DInv'
<1>1. /\ DOMAIN gen' = Users /\ DOMAIN page' = Users
      /\ \A v \in Users \ {u} : gen'[v] = gen[v] /\ page'[v] = page[v]
      /\ page'[u] = Nothing
  BY DEF DInv, DTyped, Request
<1>2. Generated(gen'[u])
  <2> DEFINE g == [order |-> order, options |-> options, at |-> 1, forms |-> NoKeys, form |-> FormOf(order[1])]
  <2>1. gen'[u] = g
    BY DEF DInv, DTyped, Request
  <2>2. 1 \in 1..Len(order)
    BY DEF Orders
  <2>3. Generated(g)
    BY <2>2 DEF Generated
  <2> HIDE DEF g
  <2> QED
    BY <2>1, <2>3
<1>3. ~Shown(u)' /\ ~Sent(u)' /\ \A v \in Users \ {u} : Shown(v)' = Shown(v) /\ Sent(v)' = Sent(v)
  BY <1>1 DEF Shown, Sent
<1> QED
  BY <1>1, <1>2, <1>3 DEF DInv, DTyped, CheckedByOwn

\* The steps of genForm change nothing else.
LEMMA FormStep ==
    ASSUME DInv, NEW u \in Users, NEW form, gen[u] # Nothing, SetForm(u, form), page' = page
    PROVE  DInv'
<1>1. /\ DOMAIN gen' = Users /\ \A v \in Users \ {u} : gen'[v] = gen[v]
      /\ gen'[u] = [gen[u] EXCEPT !.form = form]
  BY DEF DInv, DTyped, SetForm
<1>2. Generated(gen[u])
  BY DEF DInv, DTyped
<1>3. Generated(gen'[u])
  BY <1>1, <1>2 DEF Generated
<1> QED
  BY <1>1, <1>3 DEF DInv, DTyped, CheckedByOwn, Shown, Sent

LEMMA RestStep ==
    ASSUME DInv, NEW u \in Users, Rest(u)
    PROVE  DInv'
<1>1. Generated(gen[u])
  BY DEF DInv, DTyped, Rest, Working
<1>2. CASE gen[u].at + 1 <= Len(gen[u].order)
  <2>1. PICK forms, form : gen' = [gen EXCEPT ![u].at = gen[u].at + 1, ![u].forms = forms, ![u].form = form]
    BY <1>2 DEF Rest
  <2>2. page' = page
    BY <1>2 DEF Rest
  <2>3. /\ DOMAIN gen' = Users /\ \A v \in Users \ {u} : gen'[v] = gen[v]
        /\ gen'[u] = [gen[u] EXCEPT !.at = gen[u].at + 1, !.forms = forms, !.form = form]
    BY <2>1 DEF DInv, DTyped
  <2>4. Generated(gen'[u])
    BY <1>1, <1>2, <2>3 DEF Generated, Orders
  <2> QED
    BY <2>2, <2>3, <2>4 DEF DInv, DTyped, CheckedByOwn, Shown, Sent
<1>3. CASE ~(gen[u].at + 1 <= Len(gen[u].order))
  <2>1. PICK forms : page' = [page EXCEPT ![u] =
            [kind |-> "forms", forms |-> forms, visible |-> {Name[gen[u].order[1]]}, options |-> gen[u].options,
             selected |-> Head(gen[u].options), schemaName |-> Head(gen[u].options)]]
    BY <1>3 DEF Rest
  <2>2. gen' = [gen EXCEPT ![u] = Nothing]
    BY <1>3 DEF Rest
  <2>3. /\ DOMAIN gen' = Users /\ DOMAIN page' = Users /\ gen'[u] = Nothing
        /\ \A v \in Users \ {u} : gen'[v] = gen[v] /\ page'[v] = page[v]
    BY <2>1, <2>2 DEF DInv, DTyped
  <2>4. Head(gen[u].options) \in ToSet(Beamlines)
    BY <1>1 DEF Generated, Options
  <2>5. Displayed(page'[u]) /\ page'[u].kind = "forms"
    <3> DEFINE p == [kind |-> "forms", forms |-> forms, visible |-> {Name[gen[u].order[1]]}, options |-> gen[u].options,
                     selected |-> Head(gen[u].options), schemaName |-> Head(gen[u].options)]
    <3>1. page'[u] = p
      BY <2>1 DEF DInv, DTyped
    <3>2. Displayed(p) /\ p.kind = "forms"
      BY <1>1, <2>4 DEF Displayed, Generated
    <3> HIDE DEF p
    <3> QED
      BY <3>1, <3>2
  <2> QED
    BY <2>3, <2>5 DEF DInv, DTyped, CheckedByOwn, Shown, Sent
<1> QED
  BY <1>2, <1>3

LEMMA SelectStep ==
    ASSUME DInv, NEW u \in Users, NEW b \in ToSet(Beamlines), SelectBeamline(u, b)
    PROVE  DInv'
<1>1. Displayed(page[u]) /\ page[u].kind = "forms"
  BY DEF DInv, DTyped, SelectBeamline, Shown
<1>2. SwitchTo(u, b) = {b}
  <2>1. FoldLeft(HideTag, page[u].visible, page[u].options) = page[u].visible \ ToSet(Beamlines)
    BY <1>1, HideAll DEF Displayed, Options
  <2>2. page[u].visible \subseteq ToSet(Beamlines)
    BY <1>1, SchemaFileOf, BeamlinesAre DEF Displayed
  <2> QED
    BY <2>1, <2>2 DEF SwitchTo, ShowTag
<1>3. /\ DOMAIN page' = Users /\ \A v \in Users \ {u} : page'[v] = page[v]
      /\ page'[u] = [page[u] EXCEPT !.selected = b, !.visible = {b}, !.schemaName = b]
  BY <1>2 DEF DInv, DTyped, SelectBeamline
<1>4. Displayed(page'[u]) /\ page'[u].kind = "forms"
  BY <1>1, <1>3 DEF Displayed
<1> QED
  BY <1>3, <1>4 DEF DInv, DTyped, CheckedByOwn, Shown, Sent, SelectBeamline

LEMMA SubmitStep ==
    ASSUME DInv, NEW u \in Users, NEW f \in Files, SubmitForm(u, f) \/ UploadSpec(u, f)
    PROVE  DInv'
<1>1. Displayed(page[u]) /\ Name[f] \in page[u].visible
  BY DEF DInv, DTyped, SubmitForm, UploadSpec
<1>2. PICK sname : sname \in {Name[f], page[u].schemaName} /\ Submitted(u, f, sname)
  BY DEF SubmitForm, UploadSpec
<1>3. Plain(f) => SchemaFile(sname) = f
  <2> SUFFICES ASSUME Plain(f), sname = page[u].selected PROVE SchemaFile(sname) = f
    BY <1>1, <1>2 DEF Plain, Displayed
  <2>1. CASE Name[f] = page[u].selected
    BY <2>1 DEF Plain
  <2>2. CASE Name[f] = Name[SchemaFile(page[u].selected)]
    BY <1>1, <2>2, NamesDiffer, SchemaFileOf DEF Displayed
  <2> QED
    BY <1>1, <2>1, <2>2 DEF Displayed
<1>4. /\ DOMAIN page' = Users /\ \A v \in Users \ {u} : page'[v] = page[v]
      /\ page'[u] = [kind |-> "sent", form |-> f, file |-> SchemaFile(sname)]
  BY <1>2 DEF DInv, DTyped, Submitted
<1>5. page'[u].kind = "sent" /\ page'[u].form = f /\ page'[u].file = SchemaFile(sname)
  BY <1>4
<1> QED
  BY <1>2, <1>3, <1>4, <1>5 DEF DInv, DTyped, CheckedByOwn, Shown, Sent, Plain, Submitted

LEMMA DInvStep ==
    ASSUME DInv, [DataNext]_dataVars
    PROVE  DInv'
<1>1. ASSUME NEW u \in Users, OpenData(u) PROVE DInv'
  <2>1. SchemaFiles \in Orders /\ Beamlines \in Options /\ Name[SchemaFiles[1]] = Head(Beamlines)
    BY FilesAssumption, BeamlinesAre DEF Orders, Options, Files
  <2> QED
    BY <1>1, <2>1, Requested DEF OpenData
<1>2. ASSUME NEW u \in Users, UploadJson(u) PROVE DInv'
  <2> DEFINE b == page[u].schemaName
             rest == Keep(Beamlines, ToSet(Beamlines) \ {b})
  <2>1. b \in ToSet(Beamlines)
    BY <1>2 DEF DInv, DTyped, UploadJson, Displayed
  <2>2. rest \in Seq(ToSet(Beamlines)) /\ ToSet(rest) = ToSet(Beamlines) \cap (ToSet(Beamlines) \ {b})
    BY BeamlinesAre, KeepSet
  <2>3. UploadJson(u) => Request(u, JsonOrder(b), <<b>> \o rest)
    BY DEF UploadJson
  <2> HIDE DEF b, rest
  <2>4. <<b>> \o rest \in Seq(ToSet(Beamlines)) \ {<<>>} /\ Head(<<b>> \o rest) = b
    BY <2>1, <2>2
  <2>5. ToSet(<<b>> \o rest) = ToSet(<<b>>) \cup ToSet(rest)
    <3> DEFINE E == ToSet(Beamlines)
               one == <<b>>
    <3>1. one \in Seq(E) /\ rest \in Seq(E)
      BY <2>1, <2>2
    <3> HIDE DEF E, one
    <3>2. ToSet(one \o rest) = ToSet(one) \cup ToSet(rest)
      BY <3>1, JoinSet
    <3> QED
      BY <3>2 DEF one
  <2>6. ToSet(<<b>>) = {b}
    BY DEF ToSet
  <2>7. <<b>> \o rest \in Options
    BY <2>1, <2>2, <2>4, <2>5, <2>6 DEF Options
  <2>8. JsonOrder(b) \in Orders /\ JsonOrder(b)[1] = SchemaFile(Head(<<b>> \o rest))
    BY <2>1, <2>4, JsonOrderIs DEF Orders
  <2> QED
    BY <1>2, <2>3, <2>7, <2>8, Requested
<1>3. ASSUME NEW u \in Users, LookUp(u) \/ AppendSection(u) \/ SectionsDone(u) \/ Collect(u) \/ Place(u)
      PROVE  DInv'
  <2>1. gen[u] # Nothing /\ page' = page /\ \E form : SetForm(u, form)
    BY <1>3 DEF LookUp, AppendSection, SectionsDone, Collect, Place, Working
  <2> QED
    BY <2>1, FormStep
<1>4. CASE UNCHANGED dataVars
  BY <1>4 DEF dataVars, DInv, DTyped, CheckedByOwn, Shown, Sent
<1> QED
  BY <1>1, <1>2, <1>3, <1>4, RestStep, SelectStep, SubmitStep DEF DataNext

THEOREM PageInvariance == DataSpec => []DInv
<1>1. DataInit => DInv
  BY DEF DataInit, DInv, DTyped, CheckedByOwn, Shown, Sent
<1> QED
  BY <1>1, DInvStep, PTL DEF DataSpec

\* The form on the screen is the one of the beamline that is selected.
THEOREM OneFormIsShown == DataSpec => []OneBeamline
<1>1. DInv => OneBeamline
  BY DEF DInv, DTyped, OneBeamline, Displayed, Plain
<1> QED
  BY <1>1, PageInvariance, PTL

\* A record that is sent is checked by the schema of the form on the screen.
THEOREM OwnSchemaChecks == DataSpec => []CheckedByOwn
<1>1. DInv => CheckedByOwn
  BY DEF DInv
<1> QED
  BY <1>1, PageInvariance, PTL
----------------------------------------------------------------------------
(* The forms.  A page is generated alone, or none of the schemas adds a     *)
(* section; then what a request finds in the slots is what it put there.    *)

EntryOf(f, k) == [key |-> k, required |-> ~Layout[f][k].optional]
EntriesOf(f, keys) == SetToBag({EntryOf(f, k) : k \in keys})

Keyed(f, S) == {k \in KeysOf(f) : Layout[f][k].section \in S}
Own(f) == {s \in ToSet(SectionOrder) \ ToSet(config.sections) : Keyed(f, {s}) # {}}
SectionsOf(f) == ToSet(config.sections) \cup Own(f)

\* the sections a loop over the list has been through
Seen(list, pos) == IF pos = 0 THEN <<>> ELSE config.sections \o SubSeq(slots, 1, pos - 1)

Listing(form, f) ==
    /\ DOMAIN form.list = {"used", "own"} /\ form.list.used \in 0..config.spare
    /\ form.list.own # Nothing => form.list.own \in Seq(SectionsOf(f))
    /\ form.todo \in Seq(Own(f))
    /\ IsInjective(Elements(form.list))
    /\ ToSet(config.sections) \subseteq ToSet(Elements(form.list))
    /\ ToSet(Elements(form.list)) \cup ToSet(form.todo) = SectionsOf(f)
    /\ form.stage = "append" => form.todo # <<>> /\ Head(form.todo) \notin ToSet(Elements(form.list))
    /\ form.stage \in {"collect", "place", "rest"} => form.todo = <<>>

Looping(form) ==
    IF form.stage \in {"collect", "place"}
    THEN form.pos \in 0..IF form.list.own = Nothing THEN form.list.used ELSE 0
    ELSE form.stage # "rest" => form.pos = 0

Collected(form, f) ==
    IF form.stage = "collect"
    THEN LET seen == ToSet(Seen(form.list, form.pos))
         IN  /\ DOMAIN form.keys = DOMAIN config.web \cup seen
             /\ \A s \in DOMAIN form.keys :
                   form.keys[s] = SetToBag(IF s \in seen THEN Keyed(f, {s}) ELSE config.web[s] \cap KeysOf(f))
    ELSE form.pass = 2 => form.keys = [s \in SectionsOf(f) |-> SetToBag(Keyed(f, {s}))]

Placed(form, f) ==
    form.entries = EntriesOf(f, CASE form.stage = "place" -> Keyed(f, ToSet(Seen(form.list, form.pos)))
                                  [] form.stage = "rest"  -> Keyed(f, SectionsOf(f))
                                  [] OTHER                -> {})

FormInv(form, f) ==
    /\ DOMAIN form = {"stage", "pass", "list", "todo", "pos", "keys", "entries"}
    /\ \/ form.pass = 1 /\ form.stage \in {"sections", "append", "collect"}
       \/ form.pass = 2 /\ form.stage \in {"sections", "append", "place", "rest"}
    /\ Listing(form, f) /\ Looping(form) /\ Collected(form, f) /\ Placed(form, f)

GenInv(g) ==
    /\ FormInv(g.form, g.order[g.at])
    /\ DOMAIN g.forms = {g.order[i] : i \in 1..g.at - 1}
    /\ \A f \in DOMAIN g.forms : g.forms[f] = Proper(f)

Undisturbed(u) == u \notin overlap \/ \A f \in Files : OwnSections(f) = <<>>

Apart == \A u, v \in Users : u # v /\ gen[u] # Nothing /\ gen[v] # Nothing => u \in overlap

FormsOf(u) == \A f \in Files : page[u].forms[f] = Proper(f)

UserInv(u) ==
    Consistent /\ Undisturbed(u) =>
       /\ \A g : g = gen[u] /\ g # Nothing => GenInv(g)
       /\ Shown(u) => FormsOf(u)

FInv ==
    /\ config \in Configs /\ slots = [i \in 1..config.spare |-> slots[i]]
    /\ Apart
    /\ \A u \in Users : UserInv(u)

LEMMA OwnSectionsAre ==
    ASSUME config \in Configs, NEW f \in Files
    PROVE  OwnSections(f) \in Seq(Own(f)) /\ ToSet(OwnSections(f)) = Own(f)
<1> DEFINE K(i) == {k \in KeysOf(f) : Layout[f][k].section = SectionOrder[i]}
           n(i) == IF SectionOrder[i] \in ToSet(config.sections) THEN 0 ELSE Cardinality(K(i))
           seqs == [i \in DOMAIN SectionOrder |-> [j \in 1..n(i) |-> SectionOrder[i]]]
<1>1. OwnSections(f) = FlattenSeq(seqs)
  BY Zenon DEF OwnSections
<1>2. ASSUME NEW i \in DOMAIN SectionOrder
      PROVE  seqs[i] \in Seq(Own(f)) /\ ToSet(seqs[i]) = {SectionOrder[i]} \cap Own(f)
  <2>1. IsFiniteSet(K(i))
    <3>1. K(i) \in SUBSET KeysOf(f) /\ IsFiniteSet(KeysOf(f))
      BY SectionsAssumption
    <3> HIDE DEF K
    <3> QED
      BY <3>1, FS_Subset
  <2>2. n(i) \in Nat /\ (n(i) = 0 <=> SectionOrder[i] \notin Own(f))
    <3>1. Cardinality(K(i)) \in Nat /\ (Cardinality(K(i)) = 0 <=> K(i) = {})
      <4> HIDE DEF K
      <4> QED
        BY <2>1, FS_EmptySet, FS_CardinalityType
    <3>2. K(i) = Keyed(f, {SectionOrder[i]}) /\ SectionOrder[i] \in ToSet(SectionOrder)
      BY DEF Keyed, ToSet
    <3> HIDE DEF K
    <3> QED
      BY <3>1, <3>2 DEF Own
  <2>3. seqs[i] = [j \in 1..n(i) |-> SectionOrder[i]]
    OBVIOUS
  <2> HIDE DEF n, seqs
  <2>4. \A j \in 1..n(i) : SectionOrder[i] \in Own(f)
    BY <2>2
  <2>5. seqs[i] \in Seq(Own(f))
    BY <2>2, <2>3, <2>4
  <2>6. n(i) # 0 => 1 \in 1..n(i)
    BY <2>2
  <2> QED
    BY <2>2, <2>3, <2>4, <2>5, <2>6 DEF ToSet
<1>3. DOMAIN seqs = DOMAIN SectionOrder /\ DOMAIN SectionOrder = 1..Len(SectionOrder) /\ Len(SectionOrder) \in Nat
  BY SectionsAssumption
<1>4. seqs = [i \in 1..Len(SectionOrder) |-> seqs[i]]
  BY <1>3
<1> HIDE DEF seqs
<1>5. seqs \in Seq(Seq(Own(f)))
  BY <1>2, <1>3, <1>4
<1>6. FlattenSeq(seqs) \in Seq(Own(f)) /\ ToSet(FlattenSeq(seqs)) = UNION {ToSet(seqs[i]) : i \in DOMAIN seqs}
  BY <1>5, JoinedSet
<1>7. \A s \in Own(f) : \E i \in DOMAIN SectionOrder : s = SectionOrder[i]
  BY DEF Own, ToSet
<1>8. UNION {ToSet(seqs[i]) : i \in DOMAIN seqs} = Own(f)
  BY <1>2, <1>3, <1>7
<1> QED
  BY <1>1, <1>6, <1>8

\* A form begins with the configured sections.
LEMMA FormStarts ==
    ASSUME config \in Configs, Consistent, slots = [i \in 1..config.spare |-> slots[i]], NEW f \in Files
    PROVE  /\ Start(f) = [used |-> 0, own |-> Nothing] /\ Elements(Start(f)) = config.sections
           /\ Todo(f) \in Seq(Own(f)) /\ ToSet(Todo(f)) = Own(f)
<1>1. Start(f) = [used |-> 0, own |-> Nothing] /\ Todo(f) = OwnSections(f)
  BY DEF Consistent, Start, Todo
<1>2. config.sections \o SubSeq(slots, 1, 0) = config.sections
  <2>1. SubSeq(slots, 1, 0) = <<>>
    OBVIOUS
  <2>2. config.sections \in Seq(ToSet(config.sections))
    BY ConfigsAssumption
  <2> QED
    BY <2>1, <2>2
<1>3. Elements(Start(f)) = config.sections
  BY <1>1, <1>2 DEF Elements
<1> QED
  BY <1>1, <1>3, OwnSectionsAre

LEMMA FormOfFits ==
    ASSUME config \in Configs, Consistent, slots = [i \in 1..config.spare |-> slots[i]], NEW f \in Files
    PROVE  FormInv(FormOf(f), f)
<1> DEFINE form == FormOf(f)
<1>1. /\ DOMAIN form = {"stage", "pass", "list", "todo", "pos", "keys", "entries"}
      /\ form.stage = "sections" /\ form.pass = 1 /\ form.list = Start(f) /\ form.todo = Todo(f)
      /\ form.pos = 0 /\ form.entries = EmptyBag
  BY DEF FormOf
<1> HIDE DEF form
<1>2. Listing(form, f)
  <2>1. /\ DOMAIN form.list = {"used", "own"} /\ form.list.used = 0 /\ form.list.own = Nothing
        /\ Elements(form.list) = config.sections /\ form.todo \in Seq(Own(f)) /\ ToSet(form.todo) = Own(f)
    BY <1>1, FormStarts
  <2>2. IsInjective(config.sections)
    BY DEF Consistent
  <2>3. 0 \in 0..config.spare
    <3>1. config.spare \in Nat
      BY ConfigsAssumption
    <3> QED
      BY <3>1
  <2> QED
    BY <1>1, <2>1, <2>2, <2>3 DEF Listing, SectionsOf
<1>3. Placed(form, f)
  BY <1>1 DEF Placed, EntriesOf, EmptyBag
<1>4. Looping(form) /\ Collected(form, f)
  BY <1>1 DEF Looping, Collected
<1>5. FormInv(form, f)
  BY <1>1, <1>2, <1>3, <1>4 DEF FormInv
<1> QED
  BY <1>5 DEF form

LEMMA LookUpFits ==
    ASSUME config \in Configs, Consistent, NEW f \in Files, NEW form, FormInv(form, f),
           form.stage = "sections", form.todo # <<>>
    PROVE  FormInv(IF Head(form.todo) \in ToSet(Elements(form.list))
                   THEN [form EXCEPT !.todo = Tail(form.todo)] ELSE [form EXCEPT !.stage = "append"], f)
<1>1. form.todo \in Seq(Own(f))
  BY DEF FormInv, Listing
<1>2. /\ Tail(form.todo) \in Seq(Own(f))
      /\ ToSet(form.todo) = {Head(form.todo)} \cup ToSet(Tail(form.todo))
  BY <1>1, TailSet
<1>3. CASE Head(form.todo) \in ToSet(Elements(form.list))
  <2> DEFINE new == [form EXCEPT !.todo = Tail(form.todo)]
  <2>1. /\ DOMAIN new = DOMAIN form /\ new.stage = "sections" /\ new.pass = form.pass /\ new.list = form.list
        /\ new.todo = Tail(form.todo) /\ new.pos = form.pos /\ new.keys = form.keys /\ new.entries = form.entries
    BY DEF FormInv
  <2> HIDE DEF new
  <2>2. Listing(new, f)
    BY <1>2, <1>3, <2>1 DEF FormInv, Listing
  <2>3. Looping(new) /\ Collected(new, f) /\ Placed(new, f)
    BY <2>1 DEF FormInv, Looping, Collected, Placed
  <2>4. FormInv(new, f)
    BY <2>1, <2>2, <2>3 DEF FormInv
  <2> QED
    BY <1>3, <2>4 DEF new
<1>4. CASE Head(form.todo) \notin ToSet(Elements(form.list))
  <2> DEFINE new == [form EXCEPT !.stage = "append"]
  <2>1. /\ DOMAIN new = DOMAIN form /\ new.stage = "append" /\ new.pass = form.pass /\ new.list = form.list
        /\ new.todo = form.todo /\ new.pos = form.pos /\ new.keys = form.keys /\ new.entries = form.entries
    BY DEF FormInv
  <2> HIDE DEF new
  <2>2. Listing(new, f)
    BY <1>4, <2>1 DEF FormInv, Listing
  <2>3. Looping(new) /\ Collected(new, f) /\ Placed(new, f)
    BY <2>1 DEF FormInv, Looping, Collected, Placed
  <2>4. FormInv(new, f)
    BY <2>1, <2>2, <2>3 DEF FormInv
  <2> QED
    BY <1>4, <2>4 DEF new
<1> QED
  BY <1>3, <1>4

LEMMA SectionsDoneFits ==
    ASSUME config \in Configs, Consistent, NEW f \in Files, NEW form, FormInv(form, f),
           form.stage = "sections", form.todo = <<>>
    PROVE  FormInv(IF form.pass = 1 THEN [form EXCEPT !.stage = "collect", !.keys = WebKeys(f)]
                                    ELSE [form EXCEPT !.stage = "place"], f)
<1>1. ToSet(Seen(form.list, 0)) = {}
  BY DEF Seen, ToSet
<1>2. form.pos = 0 /\ DOMAIN form.list = {"used", "own"} /\ form.list.used \in Nat
  BY ConfigsAssumption DEF FormInv, Looping, Listing
<1>3. CASE form.pass = 1
  <2> DEFINE new == [form EXCEPT !.stage = "collect", !.keys = WebKeys(f)]
  <2>1. /\ DOMAIN new = DOMAIN form /\ new.stage = "collect" /\ new.pass = 1 /\ new.list = form.list
        /\ new.todo = <<>> /\ new.pos = 0 /\ new.keys = WebKeys(f) /\ new.entries = form.entries
    BY <1>2, <1>3 DEF FormInv
  <2> HIDE DEF new
  <2>2. Listing(new, f) /\ Looping(new)
    BY <1>2, <2>1 DEF FormInv, Listing, Looping
  <2>3. Collected(new, f)
    BY <1>1, <2>1 DEF Collected, WebKeys
  <2>4. Placed(new, f)
    BY <2>1 DEF FormInv, Placed
  <2>5. FormInv(new, f)
    BY <2>1, <2>2, <2>3, <2>4 DEF FormInv
  <2> QED
    BY <1>3, <2>5 DEF new
<1>4. CASE form.pass # 1
  <2> DEFINE new == [form EXCEPT !.stage = "place"]
  <2>1. /\ DOMAIN new = DOMAIN form /\ new.stage = "place" /\ new.pass = 2 /\ new.list = form.list
        /\ new.todo = <<>> /\ new.pos = 0 /\ new.keys = form.keys /\ new.entries = form.entries
    BY <1>2, <1>4 DEF FormInv
  <2> HIDE DEF new
  <2>2. Listing(new, f) /\ Looping(new)
    BY <1>2, <2>1 DEF FormInv, Listing, Looping
  <2>3. Collected(new, f)
    BY <1>4, <2>1 DEF FormInv, Collected
  <2>4. Placed(new, f)
    <3>1. Keyed(f, {}) = {}
      BY DEF Keyed
    <3> QED
      BY <1>1, <2>1, <3>1 DEF FormInv, Placed
  <2>5. FormInv(new, f)
    BY <2>1, <2>2, <2>3, <2>4 DEF FormInv
  <2> QED
    BY <1>4, <2>5 DEF new
<1> QED
  BY <1>3, <1>4

\* what is in the configuration and in the slots
LEMMA Parts ==
    ASSUME config \in Configs
    PROVE  config.sections \in Seq(ToSet(config.sections)) /\ config.spare \in Nat
BY ConfigsAssumption

\* the configured sections and those in the first slots
LEMMA SlotsJoined ==
    ASSUME config \in Configs, slots = [i \in 1..config.spare |-> slots[i]], NEW n \in 0..config.spare
    PROVE  LET list == config.sections \o SubSeq(slots, 1, n)
               l == Len(config.sections)
           IN  /\ l \in Nat /\ DOMAIN config.sections = 1..l /\ DOMAIN list = 1..l + n
               /\ \A i \in 1..l : list[i] = config.sections[i]
               /\ \A i \in 1..n : list[l + i] = slots[i]
               /\ ToSet(list) = ToSet(config.sections) \cup {slots[i] : i \in 1..n}
               /\ list \in Seq(ToSet(list))
<1> DEFINE C == ToSet(config.sections)
           cs == config.sections
           m == config.spare
<1>1. cs \in Seq(C) /\ m \in Nat
  BY Parts
<1>2. slots = [i \in 1..m |-> slots[i]] /\ n \in 0..m
  OBVIOUS
<1> HIDE DEF C, cs, m
<1>3. LET list == cs \o SubSeq(slots, 1, n)
          l == Len(cs)
      IN  /\ l \in Nat /\ DOMAIN cs = 1..l /\ DOMAIN list = 1..l + n
          /\ \A i \in 1..l : list[i] = cs[i]
          /\ \A i \in 1..n : list[l + i] = slots[i]
          /\ ToSet(list) = ToSet(cs) \cup {slots[i] : i \in 1..n}
          /\ list \in Seq(ToSet(list))
  BY <1>1, <1>2, JoinBeginning
<1> QED
  BY <1>3 DEF cs

LEMMA ElementsAre ==
    ASSUME config \in Configs, slots = [i \in 1..config.spare |-> slots[i]], NEW f \in Files,
           NEW form, Listing(form, f)
    PROVE  Elements(form.list) \in Seq(SectionsOf(f))
<1>1. CASE form.list.own = Nothing
  <2> DEFINE e == config.sections \o SubSeq(slots, 1, form.list.used)
  <2>1. Elements(form.list) = e /\ form.list.used \in 0..config.spare
    BY <1>1 DEF Elements, Listing
  <2>2. e \in Seq(ToSet(e))
    BY <2>1, SlotsJoined
  <2>3. ToSet(e) \subseteq SectionsOf(f)
    BY <2>1 DEF Listing
  <2> HIDE DEF e
  <2>4. e \in Seq(SectionsOf(f))
    <3> DEFINE E == SectionsOf(f)
               S == ToSet(e)
    <3>1. e \in Seq(S) /\ ToSet(e) \subseteq E
      BY <2>2, <2>3
    <3> HIDE DEF E, S
    <3>2. e \in Seq(E)
      BY <3>1, SeqOfSet
    <3> QED
      BY <3>2 DEF E
  <2> QED
    BY <2>1, <2>4
<1>2. CASE form.list.own # Nothing
  BY <1>2 DEF Elements, Listing
<1> QED
  BY <1>1, <1>2

\* No list of sections is taken for none.
LEMMA ListIsThere ==
    ASSUME config \in Configs, NEW f \in Files, NEW e \in Seq(SectionsOf(f))
    PROVE  e # Nothing
<1> DEFINE E == SectionsOf(f)
           T == ToSet(config.sections) \cup ToSet(SectionOrder)
<1>1. E \subseteq T
  BY DEF SectionsOf, Own
<1>2. Nothing \notin Seq(T)
  BY ConfigsAssumption
<1>3. e \in Seq(E)
  OBVIOUS
<1> HIDE DEF E, T
<1> QED
  BY <1>1, <1>2, <1>3

\* the list with one more section behind its end
Longer(list, s) ==
    IF list.own = Nothing /\ list.used < config.spare
    THEN [list EXCEPT !.used = list.used + 1] ELSE [list EXCEPT !.own = Append(Elements(list), s)]
Written(list, s) ==
    IF list.own = Nothing /\ list.used < config.spare THEN [slots EXCEPT ![list.used + 1] = s] ELSE slots

IsAppend(longer, list, s) == longer = Append(list, s)

LEMMA LongerList ==
    ASSUME config \in Configs, slots = [i \in 1..config.spare |-> slots[i]], config' = config,
           NEW f \in Files, NEW list, NEW s \in SectionsOf(f),
           DOMAIN list = {"used", "own"}, list.used \in 0..config.spare, Elements(list) \in Seq(SectionsOf(f)),
           slots' = Written(list, s), NEW next, next = Longer(list, s)
    PROVE  /\ DOMAIN next = {"used", "own"} /\ next.used \in 0..config.spare
           /\ next.own # Nothing => next.own \in Seq(SectionsOf(f))
           /\ IsAppend(Elements(next)', Elements(list), s)
<1> DEFINE e == Elements(list)
           E == SectionsOf(f)
<1>1. e \in Seq(E) /\ s \in E
  OBVIOUS
<1>2. Append(e, s) \in Seq(E)
  <2> HIDE DEF e, E
  <2> QED
    BY <1>1
<1>3. Append(e, s) # Nothing
  <2> HIDE DEF e
  <2> QED
    BY <1>2, ListIsThere
<1>4. CASE list.own = Nothing /\ list.used < config.spare
  <2> DEFINE cs == config.sections
             C == ToSet(cs)
             m == config.spare
             n == list.used
  <2>1. cs \in Seq(C) /\ m \in Nat
    BY Parts
  <2>2. slots = [i \in 1..m |-> slots[i]] /\ n \in 0..m /\ n < m
    BY <1>4
  <2>3. next = [list EXCEPT !.used = n + 1]
    BY <1>4 DEF Longer
  <2>4. DOMAIN next = {"used", "own"} /\ next.used = n + 1 /\ next.own = Nothing
    BY <1>4, <2>3
  <2>5. slots' = [slots EXCEPT ![n + 1] = s]
    BY <1>4 DEF Written
  <2>6. e = cs \o SubSeq(slots, 1, n)
    BY <1>4 DEF Elements
  <2>7. Elements(next)' = cs \o SubSeq(slots', 1, n + 1)
    BY <2>4 DEF Elements
  <2> HIDE DEF cs, C, m, n, e
  <2>8. n + 1 \in 0..m
    BY <2>1, <2>2
  <2>9. Extends(cs, slots', slots, m, n, s)
    <3>1. slots' = [i \in 1..m |-> IF i = n + 1 THEN s ELSE slots[i]]
      BY <2>2, <2>5
    <3>2. cs \in Seq(ToSet(cs)) /\ n \in 0..m - 1
      BY <2>1, <2>2 DEF C
    <3>3. slots = [i \in 1..m |-> slots[i]]
      BY <2>2
    <3> QED
      BY <2>1, <3>1, <3>2, <3>3 DEF Extends
  <2>10. Extended(cs, slots', slots, n, s)
    BY <2>9, ExtendedBeginning
  <2> QED
    BY <2>4, <2>6, <2>7, <2>8, <2>10 DEF e, m, Extended, IsAppend
<1>5. CASE ~(list.own = Nothing /\ list.used < config.spare)
  <2>1. next = [list EXCEPT !.own = Append(e, s)]
    BY <1>5 DEF Longer
  <2> HIDE DEF e, E
  <2>2. DOMAIN next = {"used", "own"} /\ next.used = list.used /\ next.own = Append(e, s)
    BY <2>1
  <2>3. Elements(next)' = Append(e, s)
    BY <1>3, <2>2 DEF Elements
  <2> QED
    BY <1>2, <2>2, <2>3 DEF e, E, IsAppend
<1> QED
  BY <1>4, <1>5

\* A section that is not in the list is put behind its end.
LEMMA AppendFits ==
    ASSUME config \in Configs, slots = [i \in 1..config.spare |-> slots[i]], config' = config,
           NEW f \in Files, NEW form, FormInv(form, f), form.stage = "append",
           NEW s, s = Head(form.todo),
           NEW list, list = form.list, slots' = Written(list, s), NEW next, next = Longer(list, s),
           NEW new, new = [form EXCEPT !.stage = "sections", !.todo = Tail(form.todo), !.list = next]
    PROVE  FormInv(new, f)'
<1> DEFINE e == Elements(list)
<1>1. e \in Seq(SectionsOf(f))
  BY ElementsAre DEF FormInv
<1>2. /\ Tail(form.todo) \in Seq(Own(f)) /\ s \in Own(f)
      /\ ToSet(form.todo) = {s} \cup ToSet(Tail(form.todo))
  <2> DEFINE E == Own(f)
             todo == form.todo
  <2>1. todo \in Seq(E) /\ todo # <<>>
    BY DEF FormInv, Listing
  <2>2. s = Head(todo)
    OBVIOUS
  <2> HIDE DEF E, todo
  <2>3. Tail(todo) \in Seq(E) /\ s \in E /\ ToSet(todo) = {s} \cup ToSet(Tail(todo))
    BY <2>1, <2>2, TailSet
  <2> QED
    BY <2>3 DEF E, todo
<1>3. s \in SectionsOf(f) /\ s \notin ToSet(e) /\ IsInjective(e)
  BY <1>2 DEF FormInv, Listing, SectionsOf
<1>4. ToSet(Append(e, s)) = ToSet(e) \cup {s} /\ IsInjective(Append(e, s))
  <2> DEFINE E == SectionsOf(f)
  <2>1. e \in Seq(E) /\ s \in E
    BY <1>1, <1>3
  <2> HIDE DEF e, E
  <2> QED
    BY <1>3, <2>1, AppendSet, StaysInjective
<1>5. /\ DOMAIN next = {"used", "own"} /\ next.used \in 0..config.spare
      /\ next.own # Nothing => next.own \in Seq(SectionsOf(f))
      /\ Elements(next)' = Append(e, s)
  <2>1. DOMAIN list = {"used", "own"} /\ list.used \in 0..config.spare
    BY DEF FormInv, Listing
  <2>2. Elements(list) \in Seq(SectionsOf(f))
    BY <1>1
  <2>4. /\ DOMAIN next = {"used", "own"} /\ next.used \in 0..config.spare
        /\ next.own # Nothing => next.own \in Seq(SectionsOf(f))
        /\ IsAppend(Elements(next)', Elements(list), s)
    BY <1>3, <2>1, <2>2, LongerList
  <2> QED
    BY <2>4 DEF IsAppend
<1>6. /\ DOMAIN new = DOMAIN form /\ new.stage = "sections" /\ new.pass = form.pass /\ new.list = next
      /\ new.todo = Tail(form.todo) /\ new.pos = form.pos /\ new.keys = form.keys /\ new.entries = form.entries
  BY DEF FormInv
<1>7. Own(f)' = Own(f) /\ SectionsOf(f)' = SectionsOf(f)
  BY DEF Own, SectionsOf
<1>8. /\ ToSet(config.sections) \subseteq ToSet(e)
      /\ ToSet(e) \cup ToSet(form.todo) = SectionsOf(f)
  BY DEF FormInv, Listing
<1> HIDE DEF e
<1>9. Listing(new, f)'
  BY <1>2, <1>4, <1>5, <1>6, <1>7, <1>8 DEF Listing
<1>10. Looping(new)'
  BY <1>6 DEF FormInv, Looping
<1>11. Collected(new, f)'
  BY <1>6, <1>7 DEF FormInv, Collected
<1>12. Placed(new, f)'
  BY <1>6, <1>7 DEF FormInv, Placed, EntriesOf
<1> QED
  BY <1>6, <1>9, <1>10, <1>11, <1>12 DEF FormInv

\* what one step of a loop over the list reads, after what it has seen
Reads(f, list, pos, b, seen) ==
    /\ b \in Seq(SectionsOf(f)) /\ IsInjective(b) /\ ToSet(b) \cap seen = {}
    /\ AtEnd(list, pos) => seen \cup ToSet(b) = SectionsOf(f)
    /\ ~AtEnd(list, pos) => /\ list.own = Nothing /\ pos + 1 \in 0..list.used
                            /\ ToSet(Seen(list, pos + 1)) = seen \cup ToSet(b)

LEMMA LoopStep ==
    ASSUME config \in Configs, Consistent, slots = [i \in 1..config.spare |-> slots[i]], NEW f \in Files,
           NEW form, Listing(form, f), Looping(form), form.stage \in {"collect", "place"},
           NEW list, list = form.list, NEW pos, pos = form.pos, NEW b, b = Batch(list, pos)
    PROVE  Reads(f, list, pos, b, ToSet(Seen(list, pos)))
<1> DEFINE e == Elements(list)
           cs == config.sections
           J(n) == cs \o SubSeq(slots, 1, n)
           l == Len(cs)
<1>1. /\ e \in Seq(SectionsOf(f)) /\ IsInjective(e) /\ ToSet(e) = SectionsOf(f)
      /\ ToSet(cs) \subseteq SectionsOf(f) /\ cs \in Seq(ToSet(cs)) /\ IsInjective(cs)
  <2>1. e \in Seq(SectionsOf(f))
    BY ElementsAre
  <2>2. form.todo = <<>> /\ IsInjective(e) /\ ToSet(e) \cup ToSet(form.todo) = SectionsOf(f)
    BY DEF Listing
  <2>3. ToSet(<<>>) = {}
    BY DEF ToSet
  <2> QED
    BY <2>1, <2>2, <2>3, Parts DEF Consistent, SectionsOf
<1>2. list.used \in 0..config.spare /\ config.spare \in Nat
  BY Parts DEF Listing
<1>3. pos \in 0..IF list.own = Nothing THEN list.used ELSE 0
  BY DEF Looping
<1>4. pos = 0 => ToSet(Seen(list, pos)) = {}
  BY DEF Seen, ToSet
<1>5. ASSUME NEW n \in 0..config.spare
      PROVE  /\ l \in Nat /\ DOMAIN cs = 1..l /\ DOMAIN J(n) = 1..l + n
             /\ \A i \in 1..l : J(n)[i] = cs[i]
             /\ \A i \in 1..n : J(n)[l + i] = slots[i]
             /\ ToSet(J(n)) = ToSet(cs) \cup {slots[i] : i \in 1..n}
  BY SlotsJoined
<1>6. CASE list.own # Nothing
  <2>1. pos = 0 /\ b = list.own /\ e = list.own /\ AtEnd(list, pos)
    BY <1>3, <1>6 DEF Batch, Elements, AtEnd
  <2> QED
    BY <1>1, <1>4, <2>1 DEF Reads
<1>7. CASE list.own = Nothing /\ pos = 0
  <2>1. b = cs
    BY <1>7 DEF Batch
  <2>2. {slots[i] : i \in 1..0} = {}
    OBVIOUS
  <2>3. ToSet(J(0)) = ToSet(cs)
    <3>1. 0 \in 0..config.spare
      BY <1>2
    <3> HIDE DEF J, cs, l
    <3>2. ToSet(J(0)) = ToSet(cs) \cup {slots[i] : i \in 1..0}
      BY <1>5, <3>1
    <3> QED
      BY <2>2, <3>2
  <2>4. cs \in Seq(SectionsOf(f))
    <3> DEFINE E == SectionsOf(f)
               C == ToSet(cs)
    <3>1. C \subseteq E /\ cs \in Seq(C)
      BY <1>1
    <3> HIDE DEF E, C, cs
    <3> QED
      BY <3>1 DEF E
  <2>5. ASSUME AtEnd(list, pos) PROVE ToSet(b) = SectionsOf(f)
    <3>1. list.used = 0
      BY <1>7, <2>5 DEF AtEnd
    <3>2. e = J(0)
      BY <1>7, <3>1 DEF Elements
    <3> QED
      BY <1>1, <2>1, <2>3, <3>2
  <2>6. ASSUME ~AtEnd(list, pos)
        PROVE  pos + 1 \in 0..list.used /\ ToSet(Seen(list, pos + 1)) = ToSet(b)
    <3>1. list.used # 0 /\ pos + 1 = 1
      BY <1>7, <2>6 DEF AtEnd
    <3>2. Seen(list, pos + 1) = J(0)
      BY <3>1 DEF Seen
    <3>3. pos + 1 \in 0..list.used
      BY <1>2, <3>1
    <3> HIDE DEF J, cs
    <3> QED
      BY <2>1, <2>3, <3>2, <3>3
  <2> HIDE DEF cs, e, J
  <2> QED
    BY <1>1, <1>4, <1>7, <2>1, <2>4, <2>5, <2>6 DEF Reads
<1>8. CASE list.own = Nothing /\ pos # 0
  <2> DEFINE used == list.used
             x == slots[pos]
  <2>1. pos \in 1..used /\ used \in 0..config.spare /\ pos - 1 \in 0..config.spare /\ pos \in 0..config.spare
    BY <1>2, <1>3, <1>8
  <2>2. b = <<x>> /\ e = J(used) /\ Seen(list, pos) = J(pos - 1) /\ Seen(list, pos + 1) = J(pos)
    <3>1. b = <<x>> /\ e = J(used)
      BY <1>8 DEF Batch, Elements
    <3>2. Seen(list, pos) = J(pos - 1)
      BY <1>8 DEF Seen
    <3>3. Seen(list, pos + 1) = J(pos)
      <4> DEFINE y == pos + 1
      <4>1. y # 0 /\ y - 1 = pos
        BY <2>1
      <4> HIDE DEF y
      <4>2. Seen(list, y) = J(y - 1)
        BY <4>1 DEF Seen
      <4>3. Seen(list, y) = J(pos)
        BY ONLY <4>1, <4>2, Zenon
      <4> QED
        BY <4>3 DEF y
    <3> QED
      BY <3>1, <3>2, <3>3
  <2> HIDE DEF e, J, l, cs
  <2>3. /\ l \in Nat /\ DOMAIN cs = 1..l /\ DOMAIN e = 1..l + used
        /\ \A i \in 1..l : e[i] = cs[i]
        /\ \A i \in 1..used : e[l + i] = slots[i]
        /\ ToSet(e) = ToSet(cs) \cup {slots[i] : i \in 1..used}
    BY <1>5, <2>1, <2>2
  <2>4. /\ ToSet(J(pos - 1)) = ToSet(cs) \cup {slots[i] : i \in 1..pos - 1}
        /\ ToSet(J(pos)) = ToSet(cs) \cup {slots[i] : i \in 1..pos}
    BY <1>5, <2>1
  <2>5. {slots[i] : i \in 1..pos} = {slots[i] : i \in 1..pos - 1} \cup {x}
    <3>1. \A i : i \in 1..pos <=> (i \in 1..pos - 1 \/ i = pos)
      BY <2>1
    <3> QED
      BY <3>1
  <2>6. ToSet(b) = {x}
    <3>1. DOMAIN <<x>> = {1} /\ <<x>>[1] = x
      OBVIOUS
    <3>2. ToSet(<<x>>) = {x}
      BY <3>1 DEF ToSet
    <3> QED
      BY <2>2, <3>2
  <2>7. x \in SectionsOf(f) /\ b \in Seq(SectionsOf(f)) /\ IsInjective(b)
    <3>1. x \in ToSet(e)
      BY <2>1, <2>3
    <3>2. x \in SectionsOf(f)
      BY <1>1, <3>1
    <3>3. IsInjective(<<x>>)
      BY DEF IsInjective
    <3> QED
      BY <2>2, <3>2, <3>3
  <2>8. l + pos \in DOMAIN e /\ e[l + pos] = x
    <3>1. l + pos \in 1..l + used
      BY <2>1, <2>3
    <3> QED
      BY <2>1, <2>3, <3>1
  <2>9. x \notin ToSet(cs)
    <3>1. ASSUME NEW i \in 1..l PROVE cs[i] # x
      <4>1. i \in DOMAIN e /\ e[i] = cs[i] /\ i # l + pos
        BY <2>1, <2>3
      <4> QED
        BY <1>1, <2>8, <4>1 DEF IsInjective
    <3> QED
      BY <2>3, <3>1 DEF ToSet
  <2>10. x \notin {slots[i] : i \in 1..pos - 1}
    <3>1. ASSUME NEW i \in 1..pos - 1 PROVE slots[i] # x
      <4>1. l + i \in 1..l + used /\ i \in 1..used /\ l + i # l + pos
        BY <2>1, <2>3
      <4>2. l + i \in DOMAIN e /\ e[l + i] = slots[i]
        BY <2>3, <4>1
      <4> QED
        BY <1>1, <2>8, <4>1, <4>2 DEF IsInjective
    <3> QED
      BY <3>1
  <2>11. ToSet(b) \cap ToSet(Seen(list, pos)) = {}
    BY <2>2, <2>4, <2>6, <2>9, <2>10
  <2>12. ToSet(J(pos)) = ToSet(J(pos - 1)) \cup ToSet(b)
    BY <2>4, <2>5, <2>6
  <2>13. ASSUME AtEnd(list, pos) PROVE ToSet(Seen(list, pos)) \cup ToSet(b) = SectionsOf(f)
    <3>1. pos = used
      BY <1>8, <2>13 DEF AtEnd
    <3> QED
      BY <1>1, <2>2, <2>12, <3>1
  <2>14. ASSUME ~AtEnd(list, pos)
         PROVE  pos + 1 \in 0..used /\ ToSet(Seen(list, pos + 1)) = ToSet(Seen(list, pos)) \cup ToSet(b)
    <3>1. pos # used
      BY <1>8, <2>14 DEF AtEnd
    <3> QED
      BY <2>1, <2>2, <2>12, <3>1
  <2> QED
    BY <1>8, <2>7, <2>11, <2>13, <2>14 DEF Reads
<1> QED
  BY <1>6, <1>7, <1>8

\* sets that are counted once make up their union
LEMMA UnionOfBags ==
    ASSUME NEW A, NEW B, A \cap B = {}
    PROVE  SetToBag(A) (+) SetToBag(B) = SetToBag(A \cup B)
<1>1. DOMAIN SetToBag(A) = A /\ DOMAIN SetToBag(B) = B
  BY DEF SetToBag
<1>2. \A x \in A \cup B :
         (IF x \in A THEN SetToBag(A)[x] ELSE 0) + (IF x \in B THEN SetToBag(B)[x] ELSE 0) = 1
  BY DEF SetToBag
<1>3. SetToBag(A) (+) SetToBag(B) =
         [x \in A \cup B |-> (IF x \in A THEN SetToBag(A)[x] ELSE 0) + (IF x \in B THEN SetToBag(B)[x] ELSE 0)]
  BY <1>1, Zenon DEF (+)
<1> QED
  BY <1>2, <1>3 DEF SetToBag

\* The keys of webSectionKeys are in their section; the others are added.
LEMMA SectionIsFilled ==
    ASSUME NEW f, NEW s, NEW X, X \subseteq Keyed(f, {s})
    PROVE  InSection(f, s, SetToBag(X)) = SetToBag(Keyed(f, {s}))
<1> DEFINE Y == {k \in KeysOf(f) : Layout[f][k].section = s /\ ~BagIn(k, SetToBag(X))}
<1>1. Y = Keyed(f, {s}) \ X
  BY DEF Keyed, BagIn, BagToSet, SetToBag
<1>2. InSection(f, s, SetToBag(X)) = SetToBag(X) (+) SetToBag(Y)
  BY DEF InSection
<1>3. X \cap Y = {} /\ X \cup Y = Keyed(f, {s})
  BY <1>1
<1> HIDE DEF Y
<1> QED
  BY <1>2, <1>3, UnionOfBags

OldKeys(form, s) == IF s \in DOMAIN form.keys THEN form.keys[s] ELSE EmptyBag
NewKeys(form, f, b) ==
    [s \in DOMAIN form.keys \cup ToSet(b) |->
        IF s \in ToSet(b) THEN InSection(f, s, OldKeys(form, s)) ELSE OldKeys(form, s)]

\* the keys after some sections were read
AreKeys(f, keys, seen) ==
    /\ DOMAIN keys = DOMAIN config.web \cup seen
    /\ \A s \in DOMAIN keys :
          keys[s] = SetToBag(IF s \in seen THEN Keyed(f, {s}) ELSE config.web[s] \cap KeysOf(f))

\* A section that is read is given all of its keys.
LEMMA KeysCollected ==
    ASSUME Consistent, NEW f \in Files, NEW form, NEW seen, AreKeys(f, form.keys, seen),
           NEW b, ToSet(b) \cap seen = {}, NEW keys, keys = NewKeys(form, f, b)
    PROVE  AreKeys(f, keys, seen \cup ToSet(b))
<1> USE DEF AreKeys
<1>1. DOMAIN keys = DOMAIN config.web \cup seen \cup ToSet(b)
  BY DEF NewKeys
<1>2. ASSUME NEW s \in DOMAIN keys
      PROVE  keys[s] = SetToBag(IF s \in seen \cup ToSet(b) THEN Keyed(f, {s}) ELSE config.web[s] \cap KeysOf(f))
  <2>1. CASE s \in ToSet(b)
    <3> DEFINE X == IF s \in DOMAIN config.web THEN config.web[s] \cap KeysOf(f) ELSE {}
    <3>1. s \notin seen /\ keys[s] = InSection(f, s, OldKeys(form, s))
      BY <1>1, <2>1 DEF NewKeys
    <3>2. OldKeys(form, s) = SetToBag(X)
      BY <3>1 DEF OldKeys, EmptyBag
    <3>3. X \subseteq Keyed(f, {s})
      BY DEF Consistent, Keyed
    <3> HIDE DEF X
    <3>4. InSection(f, s, SetToBag(X)) = SetToBag(Keyed(f, {s}))
      BY <3>3, SectionIsFilled
    <3> QED
      BY <2>1, <3>1, <3>2, <3>4
  <2>2. CASE s \notin ToSet(b)
    <3>1. keys[s] = OldKeys(form, s) /\ s \in DOMAIN form.keys
      BY <1>1, <2>2 DEF NewKeys
    <3> QED
      BY <2>2, <3>1 DEF OldKeys
  <2> QED
    BY <2>1, <2>2
<1> QED
  BY <1>1, <1>2

LEMMA CollectFits ==
    ASSUME config \in Configs, Consistent, slots = [i \in 1..config.spare |-> slots[i]], NEW f \in Files,
           NEW form, FormInv(form, f), form.stage = "collect",
           NEW list, list = form.list, NEW pos, pos = form.pos, NEW b, b = Batch(list, pos),
           NEW seen, seen = ToSet(Seen(list, pos)), NEW keys, keys = NewKeys(form, f, b)
    PROVE  FormInv(IF AtEnd(list, pos)
                   THEN [form EXCEPT !.keys = keys, !.stage = "sections", !.pass = 2, !.pos = 0,
                                     !.list = Start(f), !.todo = Todo(f)]
                   ELSE [form EXCEPT !.keys = keys, !.pos = pos + 1], f)
<1>1. Listing(form, f) /\ Looping(form) /\ Collected(form, f) /\ Placed(form, f)
  BY DEF FormInv
<1>2. /\ ToSet(b) \cap seen = {}
      /\ AtEnd(list, pos) => seen \cup ToSet(b) = SectionsOf(f)
      /\ ~AtEnd(list, pos) => /\ list.own = Nothing /\ pos + 1 \in 0..list.used
                              /\ ToSet(Seen(list, pos + 1)) = seen \cup ToSet(b)
  <2>1. Reads(f, list, pos, b, seen)
    BY <1>1, LoopStep
  <2> QED
    BY <2>1 DEF Reads
<1>3. AreKeys(f, form.keys, seen)
  BY <1>1 DEF AreKeys, Collected
<1>4. /\ DOMAIN form = {"stage", "pass", "list", "todo", "pos", "keys", "entries"} /\ form.pass = 1
      /\ form.todo = <<>> /\ form.entries = EntriesOf(f, {})
  BY DEF FormInv, Listing, Placed
<1>5. /\ DOMAIN keys = DOMAIN config.web \cup seen \cup ToSet(b)
      /\ \A s \in DOMAIN keys :
            keys[s] = SetToBag(IF s \in seen \cup ToSet(b) THEN Keyed(f, {s}) ELSE config.web[s] \cap KeysOf(f))
  <2>1. ToSet(b) \cap seen = {}
    BY <1>2
  <2>2. AreKeys(f, keys, seen \cup ToSet(b))
    BY <1>3, <2>1, KeysCollected
  <2> QED
    BY <2>2 DEF AreKeys
<1>6. CASE AtEnd(list, pos)
  <2> DEFINE new == [form EXCEPT !.keys = keys, !.stage = "sections", !.pass = 2, !.pos = 0,
                                 !.list = Start(f), !.todo = Todo(f)]
  <2>1. /\ DOMAIN new = DOMAIN form /\ new.stage = "sections" /\ new.pass = 2 /\ new.list = Start(f)
        /\ new.todo = Todo(f) /\ new.pos = 0 /\ new.keys = keys /\ new.entries = form.entries
    BY <1>4
  <2> HIDE DEF new
  <2>2. Listing(new, f)
    <3>1. /\ DOMAIN new.list = {"used", "own"} /\ new.list.used = 0 /\ new.list.own = Nothing
          /\ Elements(new.list) = config.sections /\ new.todo \in Seq(Own(f)) /\ ToSet(new.todo) = Own(f)
      BY <2>1, FormStarts
    <3>2. IsInjective(config.sections)
      BY DEF Consistent
    <3>3. 0 \in 0..config.spare
      <4>1. config.spare \in Nat
        BY Parts
      <4> QED
        BY <4>1
    <3> QED
      BY <2>1, <3>1, <3>2, <3>3 DEF Listing, SectionsOf
  <2>3. keys = [s \in SectionsOf(f) |-> SetToBag(Keyed(f, {s}))]
    <3>1. seen \cup ToSet(b) = SectionsOf(f) /\ DOMAIN config.web \subseteq SectionsOf(f)
      BY <1>2, <1>6 DEF Consistent, SectionsOf
    <3>2. DOMAIN keys = SectionsOf(f) /\ \A s \in SectionsOf(f) : keys[s] = SetToBag(Keyed(f, {s}))
      BY <1>5, <3>1
    <3>3. keys = [s \in DOMAIN keys |-> keys[s]]
      BY DEF NewKeys
    <3> QED
      BY <3>2, <3>3
  <2>4. Looping(new) /\ Collected(new, f) /\ Placed(new, f)
    BY <1>4, <2>1, <2>3 DEF Looping, Collected, Placed
  <2>5. FormInv(new, f)
    BY <1>4, <2>1, <2>2, <2>4 DEF FormInv
  <2> QED
    BY <1>6, <2>5 DEF new
<1>7. CASE ~AtEnd(list, pos)
  <2> DEFINE new == [form EXCEPT !.keys = keys, !.pos = pos + 1]
  <2>1. /\ DOMAIN new = DOMAIN form /\ new.stage = "collect" /\ new.pass = 1 /\ new.list = list
        /\ new.todo = form.todo /\ new.pos = pos + 1 /\ new.keys = keys /\ new.entries = form.entries
    BY <1>4
  <2> HIDE DEF new
  <2>2. Listing(new, f)
    BY <1>1, <2>1 DEF Listing
  <2>3. Looping(new)
    BY <1>2, <1>7, <2>1 DEF Looping
  <2>4. Collected(new, f)
    <3>1. /\ DOMAIN new.keys = DOMAIN config.web \cup ToSet(Seen(new.list, new.pos))
          /\ \A s \in DOMAIN new.keys :
                new.keys[s] = SetToBag(IF s \in ToSet(Seen(new.list, new.pos))
                                       THEN Keyed(f, {s}) ELSE config.web[s] \cap KeysOf(f))
      BY <1>2, <1>5, <1>7, <2>1
    <3> QED
      BY <2>1, <3>1 DEF Collected
  <2>5. Placed(new, f)
    BY <1>4, <2>1 DEF Placed
  <2>6. FormInv(new, f)
    BY <1>4, <2>1, <2>2, <2>3, <2>4, <2>5 DEF FormInv
  <2> QED
    BY <1>7, <2>6 DEF new
<1> QED
  BY <1>6, <1>7

\* the recursive function of the folds over Entries
IsGather(f, keys, flip, base, seq, g) ==
    g = [s \in SUBSET DOMAIN seq |->
            IF s = {} THEN base ELSE g[s \ {Max(s)}] (+) Entries(f, keys[seq[Max(s)]], flip)]

Gather(f, keys, flip, base, seq) == FoldLeft(LAMBDA acc, s : acc (+) Entries(f, keys[s], flip), base, seq)

LEMMA GatherIs ==
    ASSUME NEW f, NEW keys, NEW flip, NEW base, NEW seq
    PROVE  Gather(f, keys, flip, base, seq) = (CHOOSE g : IsGather(f, keys, flip, base, seq, g))[DOMAIN seq]
BY Zenon DEF Gather, FoldLeft, MapThenFoldSet, IsGather

LEMMA GatherNone == \A f, keys, flip, base : Gather(f, keys, flip, base, <<>>) = base
<1> SUFFICES ASSUME NEW f, NEW keys, NEW flip, NEW base
             PROVE  Gather(f, keys, flip, base, <<>>) = base
  OBVIOUS
<1> DEFINE g == CHOOSE g : IsGather(f, keys, flip, base, <<>>, g)
           h == [s \in SUBSET DOMAIN <<>> |-> base]
<1>1. DOMAIN <<>> = {}
  OBVIOUS
<1>2. h = [s \in SUBSET DOMAIN <<>> |->
             IF s = {} THEN base ELSE h[s \ {Max(s)}] (+) Entries(f, keys[<<>>[Max(s)]], flip)]
  <2>1. \A s \in SUBSET DOMAIN <<>> :
           base = IF s = {} THEN base ELSE h[s \ {Max(s)}] (+) Entries(f, keys[<<>>[Max(s)]], flip)
    BY <1>1
  <2> QED
    BY <2>1, Zenon
<1>3. IsGather(f, keys, flip, base, <<>>, h)
  <2> HIDE DEF h
  <2> QED
    BY <1>2, Zenon DEF IsGather
<1>4. IsGather(f, keys, flip, base, <<>>, g)
  <2> HIDE DEF h
  <2> QED
    BY <1>3, Zenon
<1> HIDE DEF g, h
<1>5. g[DOMAIN <<>>] = base
  BY <1>1, <1>4, Zenon DEF IsGather
<1> QED
  BY <1>5, GatherIs, Zenon DEF g

\* formEntry, for a section that has been given its keys
LEMMA EntriesAre ==
    ASSUME NEW f \in Files, NEW K, K \subseteq KeysOf(f)
    PROVE  Entries(f, SetToBag(K), FALSE) = EntriesOf(f, K)
<1> DEFINE entry(k) == [key |-> k, required |-> (Layout[f][k].optional = FALSE)]
<1>1. \A k \in K : entry(k) = EntryOf(f, k)
  BY SectionsAssumption DEF EntryOf
<1>2. BagToSet(SetToBag(K)) = K
  BY DEF BagToSet, SetToBag
<1>3. {entry(k) : k \in K} = {EntryOf(f, k) : k \in K}
  <2> HIDE DEF entry
  <2> QED
    BY <1>1
<1>4. \A e \in {EntryOf(f, k) : k \in K} : SetToBag(K)[e.key] = 1
  BY DEF EntryOf, SetToBag
<1>5. Entries(f, SetToBag(K), FALSE) = [e \in {EntryOf(f, k) : k \in K} |-> SetToBag(K)[e.key]]
  BY <1>2, <1>3 DEF Entries
<1> QED
  BY <1>4, <1>5 DEF EntriesOf, SetToBag

LEMMA EntriesJoin ==
    ASSUME NEW f \in Files, NEW A, NEW B, A \cap B = {}
    PROVE  EntriesOf(f, A) (+) EntriesOf(f, B) = EntriesOf(f, A \cup B)
<1> DEFINE E(S) == {EntryOf(f, k) : k \in S}
<1>1. E(A) \cap E(B) = {}
  <2>1. \A k, j : EntryOf(f, k) = EntryOf(f, j) => k = j
    BY DEF EntryOf
  <2> QED
    BY <2>1
<1>2. E(A) \cup E(B) = E(A \cup B)
  OBVIOUS
<1>3. EntriesOf(f, A) = SetToBag(E(A)) /\ EntriesOf(f, B) = SetToBag(E(B)) /\ EntriesOf(f, A \cup B) = SetToBag(E(A \cup B))
  BY DEF EntriesOf
<1> HIDE DEF E
<1> QED
  BY <1>1, <1>2, <1>3, UnionOfBags

\* every section has been given its own keys
Filled(f, keys, E) == \A s \in E : keys[s] = SetToBag(Keyed(f, {s}))

LEMMA GatherExists ==
    ASSUME NEW f \in Files, NEW E, NEW keys, Filled(f, keys, E), NEW K, NEW seq \in Seq(E)
    PROVE  \E g : IsGather(f, keys, FALSE, EntriesOf(f, K), seq, g)
<1> DEFINE Base == EntriesOf(f, K)
           A == UNION {[D -> Nat] : D \in SUBSET {EntryOf(f, k) : k \in K \cup KeysOf(f)}}
           F == [p \in A \X E |-> p[1] (+) EntriesOf(f, Keyed(f, {p[2]}))]
<1>1. ASSUME NEW S, S \subseteq K \cup KeysOf(f)
      PROVE  EntriesOf(f, S) \in A
  <2> DEFINE D == {EntryOf(f, k) : k \in S}
  <2>1. D \in SUBSET {EntryOf(f, k) : k \in K \cup KeysOf(f)}
    BY <1>1
  <2> HIDE DEF D
  <2>2. SetToBag(D) \in [D -> Nat]
    BY DEF SetToBag
  <2>3. EntriesOf(f, S) = SetToBag(D)
    BY DEF EntriesOf, D
  <2> QED
    BY <2>1, <2>2, <2>3
<1>2. ASSUME NEW a \in A, NEW b \in A PROVE a (+) b \in A
  <2>1. PICK D \in SUBSET {EntryOf(f, k) : k \in K \cup KeysOf(f)} : a \in [D -> Nat]
    OBVIOUS
  <2>2. PICK C \in SUBSET {EntryOf(f, k) : k \in K \cup KeysOf(f)} : b \in [C -> Nat]
    OBVIOUS
  <2>3. a (+) b = [e \in D \cup C |-> (IF e \in D THEN a[e] ELSE 0) + (IF e \in C THEN b[e] ELSE 0)]
    BY <2>1, <2>2 DEF (+)
  <2>4. a (+) b \in [D \cup C -> Nat]
    BY <2>1, <2>2, <2>3
  <2>5. D \cup C \in SUBSET {EntryOf(f, k) : k \in K \cup KeysOf(f)}
    OBVIOUS
  <2> QED
    BY <2>4, <2>5
<1>3. \A e \in E : EntriesOf(f, Keyed(f, {e})) \in A
  <2>1. \A e \in E : Keyed(f, {e}) \subseteq K \cup KeysOf(f)
    BY DEF Keyed
  <2> HIDE DEF A
  <2> QED
    BY <1>1, <2>1
<1>4. Base \in A
  BY <1>1
<1> HIDE DEF A, Base
<1>5. F \in [A \X E -> A]
  BY <1>2, <1>3
<1>6. ASSUME NEW a \in A, NEW e \in E PROVE F[a, e] = a (+) Entries(f, keys[e], FALSE)
  <2>1. Keyed(f, {e}) \subseteq KeysOf(f) /\ keys[e] = SetToBag(Keyed(f, {e}))
    BY DEF Keyed, Filled
  <2>2. Entries(f, keys[e], FALSE) = EntriesOf(f, Keyed(f, {e}))
    BY <2>1, EntriesAre
  <2>3. F[a, e] = a (+) EntriesOf(f, Keyed(f, {e}))
    OBVIOUS
  <2> QED
    BY <2>2, <2>3, Zenon
<1> HIDE DEF F
<1>7. PICK g \in [SUBSET DOMAIN seq -> A] : IsIter(F, Base, seq, g)
  BY <1>4, <1>5, IterExists
<1>8. ASSUME NEW s \in SUBSET DOMAIN seq, s # {}
      PROVE  F[g[s \ {Max(s)}], seq[Max(s)]] = g[s \ {Max(s)}] (+) Entries(f, keys[seq[Max(s)]], FALSE)
  <2>1. Max(s) \in s
    <3>1. Len(seq) \in Nat /\ s \in SUBSET (1..Len(seq))
      OBVIOUS
    <3> QED
      BY <1>8, <3>1, MaxOfRest
  <2>2. g[s \ {Max(s)}] \in A /\ seq[Max(s)] \in E
    BY <2>1
  <2> QED
    BY <1>6, <2>2
<1>9. IsGather(f, keys, FALSE, Base, seq, g)
  <2>1. \A s \in SUBSET DOMAIN seq :
           g[s] = IF s = {} THEN Base ELSE g[s \ {Max(s)}] (+) Entries(f, keys[seq[Max(s)]], FALSE)
    BY <1>7, <1>8 DEF IsIter
  <2>2. g = [s \in SUBSET DOMAIN seq |-> g[s]]
    OBVIOUS
  <2> QED
    BY <2>1, <2>2, Zenon DEF IsGather
<1> QED
  BY <1>9 DEF Base

\* The fold adds the keys of every section that it goes through.
AllGathered(f, keys, seen, seq) ==
    Gather(f, keys, FALSE, EntriesOf(f, Keyed(f, seen)), seq) = EntriesOf(f, Keyed(f, seen \cup ToSet(seq)))

LEMMA Gathered ==
    ASSUME NEW f \in Files, NEW E, NEW keys, Filled(f, keys, E), NEW seq \in Seq(E), IsInjective(seq),
           NEW seen, ToSet(seq) \cap seen = {}
    PROVE  AllGathered(f, keys, seen, seq)
<1> DEFINE Base == EntriesOf(f, Keyed(f, seen))
           g == CHOOSE g : IsGather(f, keys, FALSE, Base, seq, g)
           First(n) == {seq[i] : i \in 1..n}
           T == {n \in Nat : n <= Len(seq) => g[1..n] = EntriesOf(f, Keyed(f, seen \cup First(n)))}
<1>1. Gather(f, keys, FALSE, Base, seq) = g[DOMAIN seq]
  BY GatherIs, Zenon
<1>2. IsGather(f, keys, FALSE, Base, seq, g)
  <2> HIDE DEF Base
  <2>1. \E h : IsGather(f, keys, FALSE, Base, seq, h)
    BY GatherExists DEF Base
  <2> QED
    BY <2>1, Zenon
<1> HIDE DEF g, Base
<1>3. \A s \in SUBSET DOMAIN seq :
         g[s] = IF s = {} THEN Base ELSE g[s \ {Max(s)}] (+) Entries(f, keys[seq[Max(s)]], FALSE)
  BY <1>2, Zenon DEF IsGather
<1>4. DOMAIN seq = 1..Len(seq) /\ Len(seq) \in Nat
  OBVIOUS
<1>5. 0 \in T
  <2>1. 1..0 = {} /\ 1..0 \in SUBSET DOMAIN seq
    OBVIOUS
  <2>2. First(0) = {}
    OBVIOUS
  <2>3. g[1..0] = Base
    BY <1>3, <2>1
  <2> HIDE DEF First
  <2> QED
    BY <2>2, <2>3 DEF Base
<1>6. ASSUME NEW n \in Nat, n \in T PROVE n + 1 \in T
  <2>1. SUFFICES ASSUME n + 1 <= Len(seq)
                 PROVE  g[1..n + 1] = EntriesOf(f, Keyed(f, seen \cup First(n + 1)))
    OBVIOUS
  <2> DEFINE s == 1..n + 1
             x == seq[n + 1]
             A == Keyed(f, seen \cup First(n))
             B == Keyed(f, {x})
  <2>2. g[1..n] = EntriesOf(f, A) /\ s \in SUBSET DOMAIN seq /\ n + 1 \in DOMAIN seq
    BY <1>4, <1>6, <2>1
  <2>3. s # {} /\ Max(s) = n + 1 /\ s \ {n + 1} = 1..n
    BY LastOfFirst
  <2>4. First(n + 1) = First(n) \cup {x}
    OBVIOUS
  <2>5. x \notin First(n)
    <3>1. ASSUME NEW i \in 1..n PROVE seq[i] # x
      <4>1. i \in DOMAIN seq /\ i # n + 1
        BY <1>4, <2>1
      <4> QED
        BY <2>2, <4>1 DEF IsInjective
    <3> QED
      BY <3>1
  <2>6. x \in E /\ x \in ToSet(seq) /\ x \notin seen
    <3>1. x \in E /\ x \in ToSet(seq)
      BY <2>2 DEF ToSet
    <3> QED
      BY <3>1
  <2> HIDE DEF First, s, x
  <2>7. g[s] = g[1..n] (+) Entries(f, keys[x], FALSE)
    BY <1>3, <2>2, <2>3 DEF x
  <2>8. Entries(f, keys[x], FALSE) = EntriesOf(f, B)
    <3>1. keys[x] = SetToBag(B) /\ B \subseteq KeysOf(f)
      BY <2>6 DEF Filled, Keyed
    <3> HIDE DEF B
    <3> QED
      BY <3>1, EntriesAre
  <2>9. A \cap B = {} /\ A \cup B = Keyed(f, seen \cup First(n + 1))
    BY <2>4, <2>5, <2>6 DEF Keyed
  <2> HIDE DEF A, B
  <2>10. EntriesOf(f, A) (+) EntriesOf(f, B) = EntriesOf(f, A \cup B)
    BY <2>9, EntriesJoin
  <2>11. g[s] = EntriesOf(f, Keyed(f, seen \cup First(n + 1)))
    BY <2>2, <2>7, <2>8, <2>9, <2>10, Zenon
  <2> QED
    BY <2>11 DEF s
<1>7. Nat \subseteq T
  <2> HIDE DEF T
  <2> QED
    BY <1>5, <1>6, Counting
<1>8. g[1..Len(seq)] = EntriesOf(f, Keyed(f, seen \cup First(Len(seq))))
  <2> HIDE DEF First
  <2> QED
    BY <1>4, <1>7
<1>9. First(Len(seq)) = ToSet(seq)
  BY <1>4 DEF ToSet
<1> QED
  BY <1>1, <1>4, <1>8, <1>9 DEF Base, AllGathered

Placing(form, f) ==
    Gather(f, form.keys, FALSE, form.entries, Keep(Batch(form.list, form.pos), DOMAIN form.keys))

LEMMA PlaceFits ==
    ASSUME config \in Configs, Consistent, slots = [i \in 1..config.spare |-> slots[i]], NEW f \in Files,
           NEW form, FormInv(form, f), form.stage = "place",
           NEW list, list = form.list, NEW pos, pos = form.pos, NEW b, b = Batch(list, pos),
           NEW seen, seen = ToSet(Seen(list, pos)), NEW entries, entries = Placing(form, f)
    PROVE  FormInv(IF AtEnd(list, pos)
                   THEN [form EXCEPT !.entries = entries, !.stage = "rest"]
                   ELSE [form EXCEPT !.entries = entries, !.pos = pos + 1], f)
<1>1. Listing(form, f) /\ Looping(form) /\ Collected(form, f) /\ Placed(form, f)
  BY DEF FormInv
<1>2. /\ b \in Seq(SectionsOf(f)) /\ IsInjective(b) /\ ToSet(b) \cap seen = {}
      /\ AtEnd(list, pos) => seen \cup ToSet(b) = SectionsOf(f)
      /\ ~AtEnd(list, pos) => /\ list.own = Nothing /\ pos + 1 \in 0..list.used
                              /\ ToSet(Seen(list, pos + 1)) = seen \cup ToSet(b)
  <2>1. Reads(f, list, pos, b, seen)
    BY <1>1, LoopStep
  <2> QED
    BY <2>1 DEF Reads
<1>3. /\ DOMAIN form = {"stage", "pass", "list", "todo", "pos", "keys", "entries"} /\ form.pass = 2
      /\ form.todo = <<>> /\ form.entries = EntriesOf(f, Keyed(f, seen))
  BY DEF FormInv, Listing, Placed
<1>4. form.keys = [s \in SectionsOf(f) |-> SetToBag(Keyed(f, {s}))]
  BY <1>1, <1>3 DEF Collected
<1>5. entries = EntriesOf(f, Keyed(f, seen \cup ToSet(b)))
  <2> DEFINE E == SectionsOf(f)
             keys == form.keys
  <2>1. DOMAIN keys = E /\ Filled(f, keys, E)
    BY <1>4 DEF Filled
  <2> HIDE DEF E, keys
  <2>2. b \in Seq(E) /\ IsInjective(b) /\ ToSet(b) \cap seen = {}
    BY <1>2 DEF E
  <2>3. Keep(b, E) = b
    BY <2>2, KeepAll
  <2>4. Gather(f, keys, FALSE, EntriesOf(f, Keyed(f, seen)), b) = EntriesOf(f, Keyed(f, seen \cup ToSet(b)))
    <3>1. AllGathered(f, keys, seen, b)
      BY <2>1, <2>2, Gathered
    <3> QED
      BY <3>1 DEF AllGathered
  <2>5. entries = Gather(f, keys, FALSE, EntriesOf(f, Keyed(f, seen)), Keep(b, DOMAIN keys))
    BY <1>3, Zenon DEF Placing, keys
  <2> QED
    BY <2>1, <2>3, <2>4, <2>5, Zenon
<1>6. CASE AtEnd(list, pos)
  <2> DEFINE new == [form EXCEPT !.entries = entries, !.stage = "rest"]
  <2>1. /\ DOMAIN new = DOMAIN form /\ new.stage = "rest" /\ new.pass = 2 /\ new.list = list
        /\ new.todo = <<>> /\ new.pos = pos /\ new.keys = form.keys /\ new.entries = entries
    BY <1>3
  <2> HIDE DEF new
  <2>2. Listing(new, f) /\ Looping(new)
    BY <1>1, <1>3, <2>1 DEF Listing, Looping
  <2>3. Collected(new, f)
    BY <1>4, <2>1 DEF Collected
  <2>4. Placed(new, f)
    BY <1>2, <1>5, <1>6, <2>1 DEF Placed
  <2>5. FormInv(new, f)
    BY <1>3, <2>1, <2>2, <2>3, <2>4 DEF FormInv
  <2> QED
    BY <1>6, <2>5 DEF new
<1>7. CASE ~AtEnd(list, pos)
  <2> DEFINE new == [form EXCEPT !.entries = entries, !.pos = pos + 1]
  <2>1. /\ DOMAIN new = DOMAIN form /\ new.stage = "place" /\ new.pass = 2 /\ new.list = list
        /\ new.todo = <<>> /\ new.pos = pos + 1 /\ new.keys = form.keys /\ new.entries = entries
    BY <1>3
  <2> HIDE DEF new
  <2>2. Listing(new, f)
    BY <1>1, <1>3, <2>1 DEF Listing
  <2>3. Looping(new)
    BY <1>2, <1>7, <2>1 DEF Looping
  <2>4. Collected(new, f)
    BY <1>4, <2>1 DEF Collected
  <2>5. Placed(new, f)
    <3>1. ToSet(Seen(new.list, new.pos)) = seen \cup ToSet(b)
      BY <1>2, <1>7, <2>1
    <3> QED
      BY <1>5, <2>1, <3>1 DEF Placed
  <2>6. FormInv(new, f)
    BY <1>3, <2>1, <2>2, <2>3, <2>4, <2>5 DEF FormInv
  <2> QED
    BY <1>7, <2>6 DEF new
<1> QED
  BY <1>6, <1>7

\* what Rest adds to the entries
Bare(f) == {k \in KeysOf(f) : Layout[f][k].section = NoSection}
Resting(form, f) ==
    Gather(f, form.keys, TRUE, form.entries, SetToSeq(DOMAIN form.keys \ ToSet(Elements(form.list))))
    (+) Entries(f, SetToBag(Bare(f)), FALSE)

LEMMA NoneLeft == SetToSeq({}) = <<>>
<1>1. Cardinality({}) = 0
  BY FS_EmptySet
<1>2. \A h \in [1..0 -> {}] : h = <<>>
  OBVIOUS
<1>3. <<>> \in [1..0 -> {}] /\ IsInjective(<<>>)
  BY DEF IsInjective
<1>4. SetToSeq({}) \in [1..0 -> {}]
  <2>1. SetToSeq({}) = CHOOSE h \in [1..0 -> {}] : IsInjective(h)
    BY <1>1, Zenon DEF SetToSeq
  <2> QED
    BY <1>3, <2>1
<1> QED
  BY <1>2, <1>4

\* When the list has been gone through only the keys without a section are
\* left, and the form is complete.
LEMMA RestFits ==
    ASSUME config \in Configs, Consistent, NEW f \in Files,
           NEW form, FormInv(form, f), form.stage = "rest"
    PROVE  Resting(form, f) = Proper(f)
<1>1. /\ form.keys = [s \in SectionsOf(f) |-> SetToBag(Keyed(f, {s}))]
      /\ form.entries = EntriesOf(f, Keyed(f, SectionsOf(f)))
      /\ ToSet(Elements(form.list)) = SectionsOf(f)
  <2>1. Listing(form, f) /\ form.todo = <<>> /\ Collected(form, f) /\ Placed(form, f) /\ form.pass = 2
    BY DEF FormInv, Listing
  <2>2. ToSet(<<>>) = {}
    BY DEF ToSet
  <2>3. ToSet(Elements(form.list)) = SectionsOf(f)
    BY <2>1, <2>2 DEF Listing
  <2>4. form.entries = EntriesOf(f, Keyed(f, SectionsOf(f)))
    BY <2>1 DEF Placed
  <2>5. form.keys = [s \in SectionsOf(f) |-> SetToBag(Keyed(f, {s}))]
    BY <2>1 DEF Collected
  <2> QED
    BY <2>3, <2>4, <2>5
<1>2. DOMAIN form.keys \ ToSet(Elements(form.list)) = {}
  BY <1>1
<1>3. Resting(form, f) = EntriesOf(f, Keyed(f, SectionsOf(f))) (+) EntriesOf(f, Bare(f))
  <2>1. Entries(f, SetToBag(Bare(f)), FALSE) = EntriesOf(f, Bare(f))
    <3> DEFINE K == Bare(f)
    <3>1. K \subseteq KeysOf(f)
      BY DEF Bare
    <3> HIDE DEF K
    <3>2. Entries(f, SetToBag(K), FALSE) = EntriesOf(f, K)
      BY <3>1, EntriesAre
    <3> QED
      BY <3>2 DEF K
  <2>2. Gather(f, form.keys, TRUE, form.entries, <<>>) = form.entries
    <3> DEFINE flip == TRUE
    <3> HIDE DEF flip
    <3>1. Gather(f, form.keys, flip, form.entries, <<>>) = form.entries
      BY GatherNone
    <3> QED
      BY <3>1 DEF flip
  <2> QED
    BY <1>1, <1>2, <2>1, <2>2, NoneLeft, Zenon DEF Resting
<1>4. Keyed(f, SectionsOf(f)) \cap Bare(f) = {}
  BY SectionsAssumption DEF Consistent, Keyed, Bare, SectionsOf, Own
<1>5. Keyed(f, SectionsOf(f)) \cup Bare(f) = KeysOf(f)
  <2>1. ASSUME NEW k \in KeysOf(f) PROVE k \in Keyed(f, SectionsOf(f)) \cup Bare(f)
    <3> DEFINE s == Layout[f][k].section
    <3>1. s \in ToSet(SectionOrder) \cup {NoSection}
      BY SectionsAssumption
    <3>2. CASE s = NoSection
      BY <3>2 DEF Bare
    <3>3. CASE s \in ToSet(SectionOrder)
      <4>1. k \in Keyed(f, {s})
        BY DEF Keyed
      <4>2. s \in SectionsOf(f)
        BY <3>3, <4>1 DEF SectionsOf, Own
      <4> QED
        BY <4>2 DEF Keyed
    <3> QED
      BY <3>1, <3>2, <3>3
  <2> QED
    BY <2>1 DEF Keyed, Bare
<1>6. EntriesOf(f, Keyed(f, SectionsOf(f))) (+) EntriesOf(f, Bare(f)) = EntriesOf(f, KeysOf(f))
  BY <1>4, <1>5, EntriesJoin
<1>7. Proper(f) = EntriesOf(f, KeysOf(f))
  BY DEF Proper, EntriesOf, EntryOf
<1> QED
  BY <1>3, <1>6, <1>7, Zenon

\* Only the configuration and the slots are read.
LEMMA Frozen ==
    ASSUME config' = config, slots' = slots
    PROVE  /\ Consistent' = Consistent /\ \A f \in Files : OwnSections(f)' = OwnSections(f)
           /\ \A form, f : FormInv(form, f)' = FormInv(form, f)
<1>1. Consistent' = Consistent /\ \A f \in Files : OwnSections(f)' = OwnSections(f)
  BY DEF Consistent, OwnSections
<1>2. ASSUME NEW form, NEW f PROVE FormInv(form, f)' = FormInv(form, f)
  <2>1. Listing(form, f)' = Listing(form, f)
    BY DEF Listing, Elements, SectionsOf, Own
  <2>2. Looping(form)' = Looping(form)
    BY DEF Looping
  <2>3. Collected(form, f)' = Collected(form, f)
    BY DEF Collected, Seen, SectionsOf, Own
  <2>4. Placed(form, f)' = Placed(form, f)
    BY DEF Placed, Seen, SectionsOf, Own
  <2> QED
    BY <2>1, <2>2, <2>3, <2>4 DEF FormInv
<1> QED
  BY <1>1, <1>2

\* A user whose page nobody else touches keeps it.
LEMMA OthersKeep ==
    ASSUME NEW v \in Users, UserInv(v), config' = config, gen'[v] = gen[v], page'[v] = page[v],
           slots' = slots \/ gen[v] = Nothing, v \in overlap => v \in overlap'
    PROVE  UserInv(v)'
<1>1. SUFFICES ASSUME Consistent', Undisturbed(v)'
               PROVE  /\ \A g : g = gen'[v] /\ g # Nothing => GenInv(g)'
                      /\ Shown(v)' => FormsOf(v)'
  BY DEF UserInv
<1>2. Consistent /\ \A f \in Files : OwnSections(f)' = OwnSections(f)
  BY <1>1 DEF Consistent, OwnSections
<1>3. Undisturbed(v)
  BY <1>1, <1>2 DEF Undisturbed
<1>4. /\ \A g : g = gen[v] /\ g # Nothing => GenInv(g)
      /\ Shown(v) => FormsOf(v)
  BY <1>2, <1>3, Zenon DEF UserInv
<1>5. ASSUME Shown(v)' PROVE FormsOf(v)'
  <2>1. FormsOf(v)
    BY <1>4, <1>5 DEF Shown
  <2> QED
    BY <2>1 DEF FormsOf
<1>6. ASSUME NEW g, g = gen'[v], g # Nothing PROVE GenInv(g)'
  <2>1. GenInv(g) /\ slots' = slots
    BY <1>4, <1>6
  <2>2. \A form, f : FormInv(form, f)' = FormInv(form, f)
    BY <2>1, Frozen
  <2> QED
    BY <2>1, <2>2 DEF GenInv
<1> QED
  BY <1>5, <1>6

\* A user that began a page while others had one loses the certainty, and so
\* do they; genForm of one user alone works on what it wrote itself.
LEMMA RequestStep ==
    ASSUME DInv, FInv, NEW u \in Users, NEW order \in Orders, NEW options, Request(u, order, options)
    PROVE  FInv'
<1> DEFINE others == {v \in Users \ {u} : gen[v] # Nothing}
<1>1. /\ config' = config /\ slots' = slots /\ page' = [page EXCEPT ![u] = Nothing]
      /\ gen' = [gen EXCEPT ![u] = [order |-> order, options |-> options, at |-> 1, forms |-> NoKeys,
                                    form |-> FormOf(order[1])]]
      /\ overlap' = IF others = {} THEN overlap \ {u} ELSE overlap \cup others \cup {u}
  BY DEF Request
<1>2. DOMAIN gen = Users /\ DOMAIN page = Users
  BY DEF DInv, DTyped
<1>3. \A v \in Users \ {u} : gen'[v] = gen[v] /\ page'[v] = page[v] /\ (v \in overlap => v \in overlap')
  BY <1>1, <1>2
<1>4. Apart'
  <2>1. SUFFICES ASSUME NEW v \in Users, NEW w \in Users, v # w, gen'[v] # Nothing, gen'[w] # Nothing
                 PROVE  v \in overlap'
    BY DEF Apart
  <2>2. CASE v = u \/ w = u
    <3>1. \E x \in others : x \in {v, w}
      BY <1>3, <2>1, <2>2
    <3> QED
      BY <1>1, <1>3, <2>1, <2>2, <3>1
  <2>3. CASE v # u /\ w # u
    BY <1>3, <2>1, <2>3 DEF FInv, Apart
  <2> QED
    BY <2>2, <2>3
<1>5. \A v \in Users \ {u} : UserInv(v)'
  BY <1>1, <1>3, OthersKeep DEF FInv
<1>6. UserInv(u)'
  <2>1. SUFFICES ASSUME Consistent'
                 PROVE  /\ \A g : g = gen'[u] /\ g # Nothing => GenInv(g)'
                        /\ Shown(u)' => FormsOf(u)'
    BY DEF UserInv
  <2>2. Consistent
    BY <1>1, <2>1 DEF Consistent
  <2>3. ~Shown(u)'
    BY <1>1, <1>2 DEF Shown
  <2>4. ASSUME NEW g, g = gen'[u] PROVE GenInv(g)'
    <3>1. PICK form : form = FormOf(order[1])
      OBVIOUS
    <3>2. order[1] \in Files
      BY DEF Orders
    <3>3. FormInv(form, order[1])
      BY <2>2, <3>1, <3>2, FormOfFits DEF FInv
    <3>4. FormInv(form, order[1])'
      BY <1>1, <3>3, Frozen
    <3>5. /\ g.order = order /\ g.at = 1 /\ g.forms = NoKeys /\ g.form = form
      BY <1>1, <1>2, <2>4, <3>1
    <3>6. DOMAIN NoKeys = {} /\ {g.order[i] : i \in 1..1 - 1} = {}
      BY DEF NoKeys
    <3> QED
      BY <3>4, <3>5, <3>6 DEF GenInv
  <2> QED
    BY <2>3, <2>4
<1> QED
  BY <1>1, <1>4, <1>5, <1>6 DEF FInv

\* the step of one form, which may write to the slots
LEMMA FormChanges ==
    ASSUME DInv, FInv, NEW u \in Users, NEW form, gen[u] # Nothing, SetForm(u, form),
           config' = config, page' = page, overlap' = overlap, slots' = [i \in 1..config.spare |-> slots'[i]],
           NEW old, old = gen[u], Consistent /\ Undisturbed(u) => FormInv(form, old.order[old.at])',
           \A v \in Users \ {u} : slots' = slots \/ gen[v] = Nothing \/ ~(Consistent /\ Undisturbed(v))
    PROVE  FInv'
<1>1. DOMAIN gen = Users /\ gen' = [gen EXCEPT ![u].form = form]
  BY DEF DInv, DTyped, SetForm
<1>2. \A v \in Users \ {u} : gen'[v] = gen[v]
  BY <1>1
<1>3. Consistent' = Consistent /\ \A v \in Users : Undisturbed(v)' = Undisturbed(v)
  BY DEF Consistent, Undisturbed, OwnSections
<1>4. Apart'
  <2>1. \A v \in Users : gen'[v] # Nothing => gen[v] # Nothing
    BY <1>2
  <2> QED
    BY <2>1 DEF FInv, Apart
<1>5. ASSUME NEW v \in Users \ {u} PROVE UserInv(v)'
  <2>1. CASE slots' = slots \/ gen[v] = Nothing
    BY <1>2, <2>1, OthersKeep DEF FInv
  <2>2. CASE ~(Consistent /\ Undisturbed(v))
    BY <1>3, <2>2 DEF UserInv
  <2> QED
    BY <2>1, <2>2
<1>6. UserInv(u)'
  <2>1. SUFFICES ASSUME Consistent', Undisturbed(u)'
                 PROVE  /\ \A g : g = gen'[u] /\ g # Nothing => GenInv(g)'
                        /\ Shown(u)' => FormsOf(u)'
    BY DEF UserInv
  <2>2. Consistent /\ Undisturbed(u)
    BY <1>3, <2>1
  <2>3. GenInv(old) /\ (Shown(u) => FormsOf(u)) /\ Generated(old)
    BY <2>2 DEF FInv, UserInv, DInv, DTyped
  <2>4. Shown(u)' => FormsOf(u)'
    BY <2>3 DEF Shown, FormsOf
  <2>5. FormInv(form, old.order[old.at])'
    BY <2>2
  <2>6. ASSUME NEW g, g = gen'[u] PROVE GenInv(g)'
    <3>1. g = [old EXCEPT !.form = form]
      BY <1>1, <2>6
    <3>2. g.form = form /\ g.order = old.order /\ g.at = old.at /\ g.forms = old.forms
      BY <2>3, <3>1 DEF Generated
    <3> QED
      BY <2>3, <2>5, <3>2 DEF GenInv
  <2> QED
    BY <2>4, <2>6
<1> QED
  BY <1>4, <1>5, <1>6 DEF FInv

LEMMA FileIs ==
    ASSUME DInv, NEW u \in Users, gen[u] # Nothing
    PROVE  File(u) \in Files /\ Generated(gen[u])
<1>1. Generated(gen[u])
  BY DEF DInv, DTyped
<1> QED
  BY <1>1 DEF File, Generated, Orders

\* the steps that leave the slots alone
LEMMA FormStays ==
    ASSUME DInv, FInv, NEW u \in Users, gen[u] # Nothing, NEW new, SetForm(u, new),
           config' = config, page' = page, overlap' = overlap, slots' = slots,
           Consistent /\ FormInv(Form(u), File(u)) => FormInv(new, File(u))
    PROVE  FInv'
<1>1. PICK old : old = gen[u]
  OBVIOUS
<1>2. ASSUME Consistent, Undisturbed(u) PROVE FormInv(new, old.order[old.at])'
  <2>1. GenInv(old)
    BY <1>1, <1>2 DEF FInv, UserInv
  <2>2. FormInv(new, old.order[old.at])
    BY <1>1, <1>2, <2>1 DEF GenInv, Form, File
  <2> QED
    BY <2>2, Frozen
<1>3. slots' = [i \in 1..config.spare |-> slots'[i]]
  BY DEF FInv
<1> QED
  BY <1>1, <1>2, <1>3, FormChanges

LEMMA LookUpStep ==
    ASSUME DInv, FInv, NEW u \in Users, LookUp(u)
    PROVE  FInv'
<1>1. PICK form, f : form = Form(u) /\ f = File(u)
  OBVIOUS
<1>2. gen[u] # Nothing /\ form.stage = "sections" /\ form.todo # <<>> /\ f \in Files
  BY <1>1, FileIs DEF LookUp, Working, Form
<1>3. PICK new : new = IF Head(form.todo) \in ToSet(Elements(form.list))
                       THEN [form EXCEPT !.todo = Tail(form.todo)] ELSE [form EXCEPT !.stage = "append"]
  OBVIOUS
<1>4. SetForm(u, new) /\ UNCHANGED <<config, slots, page, overlap>>
  BY <1>1, <1>3 DEF LookUp
<1>5. Consistent /\ FormInv(form, f) => FormInv(new, f)
  BY <1>2, <1>3, LookUpFits DEF FInv
<1> QED
  BY <1>1, <1>2, <1>4, <1>5, FormStays

LEMMA SectionsDoneStep ==
    ASSUME DInv, FInv, NEW u \in Users, SectionsDone(u)
    PROVE  FInv'
<1>1. PICK form, f : form = Form(u) /\ f = File(u)
  OBVIOUS
<1>2. gen[u] # Nothing /\ form.stage = "sections" /\ form.todo = <<>> /\ f \in Files
  BY <1>1, FileIs DEF SectionsDone, Working, Form
<1>3. PICK new : new = IF form.pass = 1 THEN [form EXCEPT !.stage = "collect", !.keys = WebKeys(f)]
                                        ELSE [form EXCEPT !.stage = "place"]
  OBVIOUS
<1>4. SetForm(u, new) /\ UNCHANGED <<config, slots, page, overlap>>
  BY <1>1, <1>3 DEF SectionsDone
<1>5. Consistent /\ FormInv(form, f) => FormInv(new, f)
  BY <1>2, <1>3, SectionsDoneFits DEF FInv
<1> QED
  BY <1>1, <1>2, <1>4, <1>5, FormStays

LEMMA CollectStep ==
    ASSUME DInv, FInv, NEW u \in Users, Collect(u)
    PROVE  FInv'
<1>1. PICK form, f : form = Form(u) /\ f = File(u)
  OBVIOUS
<1>2. PICK list, pos : list = form.list /\ pos = form.pos
  OBVIOUS
<1>3. PICK b, seen : b = Batch(list, pos) /\ seen = ToSet(Seen(list, pos))
  OBVIOUS
<1>4. PICK keys : keys = NewKeys(form, f, b)
  OBVIOUS
<1>5. PICK new : new = IF AtEnd(list, pos)
                       THEN [form EXCEPT !.keys = keys, !.stage = "sections", !.pass = 2, !.pos = 0,
                                         !.list = Start(f), !.todo = Todo(f)]
                       ELSE [form EXCEPT !.keys = keys, !.pos = pos + 1]
  OBVIOUS
<1>6. gen[u] # Nothing /\ form.stage = "collect" /\ f \in Files
  BY <1>1, FileIs DEF Collect, Working, Form
<1>7. SetForm(u, new) /\ UNCHANGED <<config, slots, page, overlap>>
  BY <1>1, <1>2, <1>3, <1>4, <1>5 DEF Collect, NewKeys, OldKeys
<1>8. Consistent /\ FormInv(form, f) => FormInv(new, f)
  BY <1>2, <1>3, <1>4, <1>5, <1>6, CollectFits DEF FInv
<1> QED
  BY <1>1, <1>6, <1>7, <1>8, FormStays

LEMMA PlaceStep ==
    ASSUME DInv, FInv, NEW u \in Users, Place(u)
    PROVE  FInv'
<1>1. PICK form, f : form = Form(u) /\ f = File(u)
  OBVIOUS
<1>2. PICK list, pos : list = form.list /\ pos = form.pos
  OBVIOUS
<1>3. PICK b, seen : b = Batch(list, pos) /\ seen = ToSet(Seen(list, pos))
  OBVIOUS
<1>4. PICK entries : entries = Placing(form, f)
  OBVIOUS
<1>5. PICK new : new = IF AtEnd(list, pos) THEN [form EXCEPT !.entries = entries, !.stage = "rest"]
                                           ELSE [form EXCEPT !.entries = entries, !.pos = pos + 1]
  OBVIOUS
<1>6. gen[u] # Nothing /\ form.stage = "place" /\ f \in Files
  BY <1>1, FileIs DEF Place, Working, Form
<1>7. SetForm(u, new) /\ UNCHANGED <<config, slots, page, overlap>>
  <2>1. UNCHANGED <<config, slots, page, overlap>>
    BY DEF Place
  <2>2. SetForm(u, IF AtEnd(Form(u).list, Form(u).pos)
                   THEN [Form(u) EXCEPT !.entries = Placing(Form(u), File(u)), !.stage = "rest"]
                   ELSE [Form(u) EXCEPT !.entries = Placing(Form(u), File(u)), !.pos = @ + 1])
    BY Zenon DEF Place, Placing, Gather
  <2>3. SetForm(u, new)
    BY <1>1, <1>2, <1>4, <1>5, <2>2
  <2> QED
    BY <2>1, <2>3
<1>8. Consistent /\ FormInv(form, f) => FormInv(new, f)
  BY <1>2, <1>3, <1>4, <1>5, <1>6, PlaceFits DEF FInv
<1> QED
  BY <1>1, <1>6, <1>7, <1>8, FormStays

\* Only a user that is alone, or no user at all, appends to the slots.
LEMMA AppendStep ==
    ASSUME DInv, FInv, NEW u \in Users, AppendSection(u)
    PROVE  FInv'
<1>1. PICK old : old = gen[u]
  OBVIOUS
<1>2. PICK form, f : form = old.form /\ f = old.order[old.at]
  OBVIOUS
<1>3. PICK list, s : list = form.list /\ s = Head(form.todo)
  OBVIOUS
<1>4. PICK next : next = Longer(list, s)
  OBVIOUS
<1>5. PICK new : new = [form EXCEPT !.stage = "sections", !.todo = Tail(form.todo), !.list = next]
  OBVIOUS
<1>6. gen[u] # Nothing /\ form.stage = "append" /\ f \in Files
  BY <1>1, <1>2, FileIs DEF AppendSection, Working, Form, File
<1>7. SetForm(u, new) /\ slots' = Written(list, s) /\ UNCHANGED <<config, page, overlap>>
  BY <1>1, <1>2, <1>3, <1>4, <1>5 DEF AppendSection, Form, Longer, Written
<1>8. slots' = [i \in 1..config.spare |-> slots'[i]]
  BY <1>7 DEF FInv, Written
<1>9. Consistent /\ Undisturbed(u) => GenInv(old)
  BY <1>1, <1>6 DEF FInv, UserInv
<1>10. ASSUME Consistent, Undisturbed(u) PROVE FormInv(new, f)'
  <2>1. FormInv(form, f)
    BY <1>2, <1>9, <1>10 DEF GenInv
  <2> QED
    BY <1>3, <1>4, <1>5, <1>6, <1>7, <2>1, AppendFits DEF FInv
<1>11. ASSUME NEW v \in Users \ {u} PROVE slots' = slots \/ gen[v] = Nothing \/ ~(Consistent /\ Undisturbed(v))
  <2>1. SUFFICES ASSUME gen[v] # Nothing, Consistent, Undisturbed(v) PROVE FALSE
    OBVIOUS
  <2>2. u \in overlap /\ v \in overlap
    BY <1>6, <2>1 DEF FInv, Apart
  <2>3. \A h \in Files : OwnSections(h) = <<>>
    BY <2>1, <2>2 DEF Undisturbed
  <2>4. FormInv(form, f)
    BY <1>2, <1>9, <2>1, <2>3 DEF Undisturbed, GenInv
  <2>5. form.todo \in Seq(Own(f)) /\ form.todo # <<>>
    BY <1>6, <2>4 DEF FormInv, Listing
  <2>6. Own(f) = {}
    <3>1. ToSet(OwnSections(f)) = Own(f)
      BY <1>6, OwnSectionsAre DEF FInv
    <3>2. ToSet(<<>>) = {}
      BY DEF ToSet
    <3> QED
      BY <1>6, <2>3, <3>1, <3>2
  <2>7. Head(form.todo) \in Own(f)
    <3> DEFINE E == Own(f)
               todo == form.todo
    <3>1. todo \in Seq(E) /\ todo # <<>>
      BY <2>5
    <3> HIDE DEF E, todo
    <3>2. Head(todo) \in E
      BY <3>1, TailSet
    <3> QED
      BY <3>2 DEF E, todo
  <2> QED
    BY <2>6, <2>7
<1> QED
  BY <1>1, <1>2, <1>6, <1>7, <1>8, <1>10, <1>11, FormChanges

\* the forms of a page when the one of f is complete
AddForm(forms, f, entries) == [g \in DOMAIN forms \cup {f} |-> IF g = f THEN entries ELSE forms[g]]

Done(forms, g) ==
    /\ DOMAIN forms = {g.order[i] : i \in 1..g.at}
    /\ \A h \in DOMAIN forms : forms[h] = Proper(h)

LEMMA FormAdded ==
    ASSUME config \in Configs, Consistent, NEW g, Generated(g), GenInv(g), g.form.stage = "rest",
           NEW f, f = g.order[g.at], NEW entries, entries = Resting(g.form, f),
           NEW forms, forms = AddForm(g.forms, f, entries)
    PROVE  Done(forms, g)
<1>1. f \in Files /\ g.at \in Nat \ {0}
  BY DEF Generated, Orders
<1>2. entries = Proper(f)
  <2>1. FormInv(g.form, f)
    BY DEF GenInv
  <2> QED
    BY <1>1, <2>1, RestFits
<1>3. DOMAIN g.forms = {g.order[i] : i \in 1..g.at - 1} /\ \A h \in DOMAIN g.forms : g.forms[h] = Proper(h)
  BY DEF GenInv
<1>4. DOMAIN forms = DOMAIN g.forms \cup {f} /\ \A h \in DOMAIN forms : forms[h] = Proper(h)
  BY <1>2, <1>3 DEF AddForm
<1>5. \A i : i \in 1..g.at <=> (i \in 1..g.at - 1 \/ i = g.at)
  BY <1>1
<1> QED
  BY <1>3, <1>4, <1>5 DEF Done

\* the form of a file is done, and the next one is begun or the page is sent
LEMMA RestFormStep ==
    ASSUME DInv, FInv, NEW u \in Users, Rest(u)
    PROVE  FInv'
<1>1. PICK old : old = gen[u]
  OBVIOUS
<1>2. PICK f : f = old.order[old.at]
  OBVIOUS
<1>3. PICK entries : entries = Resting(old.form, f)
  OBVIOUS
<1>4. PICK forms : forms = AddForm(old.forms, f, entries)
  OBVIOUS
<1>5. PICK new : new = FormOf(old.order[old.at + 1])
  OBVIOUS
<1>6. gen[u] # Nothing /\ old.form.stage = "rest" /\ Generated(old) /\ DOMAIN gen = Users /\ DOMAIN page = Users
  BY <1>1, FileIs DEF Rest, Working, DInv, DTyped
<1>7. /\ UNCHANGED <<config, slots, overlap>>
      /\ IF old.at + 1 <= Len(old.order)
         THEN /\ gen' = [gen EXCEPT ![u].at = old.at + 1, ![u].forms = forms, ![u].form = new]
              /\ UNCHANGED page
         ELSE /\ gen' = [gen EXCEPT ![u] = Nothing]
              /\ page' = [page EXCEPT ![u] =
                    [kind |-> "forms", forms |-> forms, visible |-> {Name[old.order[1]]},
                     options |-> old.options,
                     selected |-> Head(old.options), schemaName |-> Head(old.options)]]
  <2>1. UNCHANGED <<config, slots, overlap>>
    BY DEF Rest
  <2>2. LET all == AddForm(gen[u].forms, File(u), Resting(Form(u), File(u)))
            next == gen[u].at + 1
        IN  IF next <= Len(gen[u].order)
            THEN /\ gen' = [gen EXCEPT ![u].at = next, ![u].forms = all,
                                       ![u].form = FormOf(gen[u].order[next])]
                 /\ UNCHANGED page
            ELSE /\ gen' = [gen EXCEPT ![u] = Nothing]
                 /\ page' = [page EXCEPT ![u] =
                       [kind |-> "forms", forms |-> all, visible |-> {Name[gen[u].order[1]]},
                        options |-> gen[u].options,
                        selected |-> Head(gen[u].options), schemaName |-> Head(gen[u].options)]]
    BY Zenon DEF Rest, AddForm, Resting, Gather, Bare
  <2>3. AddForm(gen[u].forms, File(u), Resting(Form(u), File(u))) = forms
    BY <1>1, <1>2, <1>3, <1>4 DEF File, Form
  <2> QED
    BY <1>1, <1>5, <2>1, <2>2, <2>3
<1>8. /\ \A v \in Users \ {u} : gen'[v] = gen[v] /\ page'[v] = page[v]
      /\ \A v \in Users : gen'[v] # Nothing => gen[v] # Nothing
  BY <1>6, <1>7
<1>9. Apart'
  BY <1>7, <1>8 DEF FInv, Apart
<1>10. \A v \in Users \ {u} : UserInv(v)'
  BY <1>7, <1>8, OthersKeep DEF FInv
<1>11. UserInv(u)'
  <2>1. SUFFICES ASSUME Consistent', Undisturbed(u)'
                 PROVE  /\ \A g : g = gen'[u] /\ g # Nothing => GenInv(g)'
                        /\ Shown(u)' => FormsOf(u)'
    BY DEF UserInv
  <2>2. Consistent /\ Undisturbed(u)
    BY <1>7, <2>1 DEF Consistent, Undisturbed, OwnSections
  <2>3. GenInv(old) /\ (Shown(u) => FormsOf(u))
    BY <1>1, <1>6, <2>2 DEF FInv, UserInv
  <2>4. /\ DOMAIN forms = {old.order[i] : i \in 1..old.at}
        /\ \A h \in DOMAIN forms : forms[h] = Proper(h)
    <3>1. Done(forms, old)
      BY <1>2, <1>3, <1>4, <1>6, <2>2, <2>3, FormAdded DEF FInv
    <3> QED
      BY <3>1 DEF Done
  <2>5. old.order \in Seq(Files) /\ ToSet(old.order) = Files /\ old.at \in 1..Len(old.order)
    BY <1>6 DEF Generated, Orders
  <2>6. CASE old.at + 1 <= Len(old.order)
    <3>1. page' = page /\ gen' = [gen EXCEPT ![u].at = old.at + 1, ![u].forms = forms, ![u].form = new]
      BY <1>7, <2>6
    <3>2. Shown(u)' => FormsOf(u)'
      BY <2>3, <3>1 DEF Shown, FormsOf
    <3>3. ASSUME NEW g, g = gen'[u] PROVE GenInv(g)'
      <4>1. g.at = old.at + 1 /\ g.forms = forms /\ g.form = new /\ g.order = old.order
        BY <1>1, <1>6, <3>1, <3>3 DEF Generated
      <4>2. old.order[old.at + 1] \in Files
        BY <2>5, <2>6
      <4>3. PICK h : h = old.order[old.at + 1]
        OBVIOUS
      <4>4. FormInv(new, h)
        BY <1>5, <2>2, <4>2, <4>3, FormOfFits DEF FInv
      <4>5. FormInv(new, h)'
        BY <1>7, <4>4, Frozen
      <4>6. g.at - 1 = old.at /\ h = g.order[g.at]
        BY <2>5, <4>1, <4>3
      <4> QED
        BY <2>4, <4>1, <4>5, <4>6 DEF GenInv
    <3> QED
      BY <3>2, <3>3
  <2>7. CASE ~(old.at + 1 <= Len(old.order))
    <3>1. gen'[u] = Nothing /\ page'[u].forms = forms
      BY <1>6, <1>7, <2>7
    <3>2. DOMAIN forms = Files
      <4>1. old.at = Len(old.order) /\ DOMAIN old.order = 1..Len(old.order)
        BY <2>5, <2>7
      <4> QED
        BY <2>4, <2>5, <4>1 DEF ToSet
    <3>3. FormsOf(u)'
      BY <2>4, <3>1, <3>2 DEF FormsOf
    <3> QED
      BY <3>1, <3>3
  <2> QED
    BY <2>6, <2>7
<1> QED
  BY <1>7, <1>9, <1>10, <1>11 DEF FInv

\* what the user does with the page
LEMMA PageStep ==
    ASSUME DInv, FInv, NEW u \in Users, UNCHANGED <<config, slots, gen, overlap>>,
           \A v \in Users \ {u} : page'[v] = page[v],
           Shown(u)' => Shown(u) /\ page'[u].forms = page[u].forms
    PROVE  FInv'
<1>1. \A v \in Users \ {u} : UserInv(v)'
  BY OthersKeep DEF FInv
<1>2. UserInv(u)'
  <2>1. SUFFICES ASSUME Consistent', Undisturbed(u)'
                 PROVE  /\ \A g : g = gen'[u] /\ g # Nothing => GenInv(g)'
                        /\ Shown(u)' => FormsOf(u)'
    BY DEF UserInv
  <2>2. Consistent /\ Undisturbed(u)
    <3>1. Consistent' = Consistent /\ \A f \in Files : OwnSections(f)' = OwnSections(f)
      BY Frozen
    <3> QED
      BY <2>1, <3>1 DEF Undisturbed
  <2>3. /\ \A g : g = gen[u] /\ g # Nothing => GenInv(g)
        /\ Shown(u) => FormsOf(u)
    BY <2>2 DEF FInv, UserInv
  <2>4. Shown(u)' => FormsOf(u)'
    BY <2>3 DEF FormsOf
  <2>5. ASSUME NEW g, g = gen'[u], g # Nothing PROVE GenInv(g)'
    <3>1. GenInv(g) /\ \A form, f : FormInv(form, f)' = FormInv(form, f)
      BY <2>3, <2>5, Frozen
    <3> QED
      BY <3>1 DEF GenInv
  <2> QED
    BY <2>4, <2>5
<1>3. Apart'
  BY DEF FInv, Apart
<1> QED
  BY <1>1, <1>2, <1>3 DEF FInv

LEMMA FInvStep ==
    ASSUME DInv, FInv, [DataNext]_dataVars
    PROVE  FInv'
<1>1. ASSUME NEW u \in Users, OpenData(u) PROVE FInv'
  <2>1. SchemaFiles \in Orders
    BY FilesAssumption DEF Orders, Files
  <2> QED
    BY <1>1, <2>1, RequestStep DEF OpenData
<1>2. ASSUME NEW u \in Users, UploadJson(u) PROVE FInv'
  <2>1. PICK b : b = page[u].schemaName
    OBVIOUS
  <2>2. b \in ToSet(Beamlines)
    BY <1>2, <2>1 DEF DInv, DTyped, UploadJson, Displayed
  <2>3. PICK options : Request(u, JsonOrder(b), options)
    BY <1>2, <2>1 DEF UploadJson
  <2>4. JsonOrder(b) \in Orders
    BY <2>2, JsonOrderIs DEF Orders
  <2> QED
    BY <2>3, <2>4, RequestStep
<1>3. ASSUME NEW u \in Users, NEW b \in ToSet(Beamlines), SelectBeamline(u, b) PROVE FInv'
  <2>1. Shown(u) /\ UNCHANGED <<config, slots, gen, overlap>> /\ DOMAIN page = Users
    BY <1>3 DEF SelectBeamline, DInv, DTyped
  <2>2. PICK visible : page' = [page EXCEPT ![u].selected = b, ![u].visible = visible, ![u].schemaName = b]
    BY <1>3 DEF SelectBeamline
  <2>3. page'[u].forms = page[u].forms /\ \A v \in Users \ {u} : page'[v] = page[v]
    BY <2>1, <2>2
  <2> QED
    BY <2>1, <2>3, PageStep
<1>4. ASSUME NEW u \in Users, NEW f \in Files, SubmitForm(u, f) \/ UploadSpec(u, f) PROVE FInv'
  <2>1. PICK sname : Submitted(u, f, sname)
    BY <1>4 DEF SubmitForm, UploadSpec
  <2>2. DOMAIN page = Users
    BY DEF DInv, DTyped
  <2>3. page'[u].kind = "sent" /\ \A v \in Users \ {u} : page'[v] = page[v]
    BY <2>1, <2>2 DEF Submitted
  <2>4. ~Shown(u)'
    BY <2>3 DEF Shown
  <2> QED
    BY <2>1, <2>3, <2>4, PageStep DEF Submitted
<1>5. CASE UNCHANGED dataVars
  <2>1. UNCHANGED <<config, slots, gen, page, overlap>>
    BY <1>5 DEF dataVars
  <2>2. \A v \in Users : UserInv(v)'
    BY <2>1, OthersKeep DEF FInv
  <2> QED
    BY <2>1, <2>2 DEF FInv, Apart
<1> QED
  BY <1>1, <1>2, <1>3, <1>4, <1>5, LookUpStep, AppendStep, SectionsDoneStep, CollectStep, PlaceStep, RestFormStep
  DEF DataNext

THEOREM FormInvariance == DataSpec => [](DInv /\ FInv)
<1>1. DataInit => DInv
  BY DEF DataInit, DInv, DTyped, CheckedByOwn, Shown, Sent
<1>2. DataInit => FInv
  <2> SUFFICES ASSUME DataInit PROVE FInv
    OBVIOUS
  <2>1. config \in Configs /\ slots = [i \in 1..config.spare |-> NoSection]
    BY DEF DataInit
  <2>2. slots = [i \in 1..config.spare |-> slots[i]]
    BY <2>1
  <2>3. \A u \in Users : gen[u] = Nothing /\ ~Shown(u)
    BY DEF DataInit, Shown
  <2> QED
    BY <2>1, <2>2, <2>3 DEF FInv, Apart, UserInv
<1> QED
  BY <1>1, <1>2, DInvStep, FInvStep, PTL DEF DataSpec

\* With a consistent configuration a form has every key of its schema once,
\* as mandatory as the schema says, whatever requests left in the slots: for
\* a page that was generated alone, and for overlapping ones as long as no
\* schema has a section of its own (FormsProper).
THEOREM FormsAreProper == DataSpec => []FormsProper
<1>1. FInv => FormsProper
  BY DEF FInv, UserInv, FormsProper, Undisturbed, FormsOf
<1> QED
  BY <1>1, FormInvariance, PTL
============================================================================
