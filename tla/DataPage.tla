------------------------------ MODULE DataPage ------------------------------
(***************************************************************************)
(* The page on which users enter records: DataHandler and JsonHandler put  *)
(* the form of every schema file on it (genForm), and the script of        *)
(* templates/keys.tmpl shows the form of one beamline at a time.           *)
(*                                                                         *)
(* genForm sorts the keys of a schema into sections.  Schema.Sections adds *)
(* the sections of the schema to Config.SchemaSections with append: while  *)
(* that slice has spare capacity, every request writes to, and reads from, *)
(* the same slots behind its end.  The schema files do not change here;    *)
(* SchemaManager has what happens when they do.                            *)
(***************************************************************************)
EXTENDS Naturals, Bags, Filtering

CONSTANTS
    Users,        \* one browser each
    SchemaFiles,  \* Config.SchemaFiles, a sequence
    Name,         \* the beamline of each file: its base name (fileName)
    PathHas,      \* pairs of a file and a name found anywhere in its path
    Layout,       \* file -> key -> [section, optional]; NoSection is ""
    SectionOrder, \* all sections of the schemas in lexical order
    Configs,      \* [sections, spare, web]: Config.SchemaSections and its
                  \* spare capacity, Config.WebSectionKeys (section -> keys)
    NoSection, Nothing

Files == ToSet(SchemaFiles)
Beamlines == [i \in DOMAIN SchemaFiles |-> Name[SchemaFiles[i]]]
KeysOf(f) == DOMAIN Layout[f]

ASSUME FilesAssumption ==
    /\ SchemaFiles \in Seq(Files) \ {<<>>} /\ IsInjective(Beamlines)
    /\ \A f \in Files : <<f, Name[f]>> \in PathHas
ASSUME SectionsAssumption ==
    /\ SectionOrder \in Seq(ToSet(SectionOrder)) /\ NoSection \notin ToSet(SectionOrder)
    /\ \A f \in Files :
          /\ IsFiniteSet(KeysOf(f))
          /\ \A k \in KeysOf(f) : /\ Layout[f][k].section \in ToSet(SectionOrder) \cup {NoSection}
                                  /\ Layout[f][k].optional \in BOOLEAN
ASSUME ConfigsAssumption ==
    \A c \in Configs :
       /\ c.sections \in Seq(ToSet(c.sections)) /\ c.spare \in Nat
       /\ Nothing \notin Seq(ToSet(c.sections) \cup ToSet(SectionOrder))

VARIABLES
    config,   \* one of Configs
    slots,    \* what is in the spare capacity of Config.SchemaSections
    gen,      \* the page that is generated for each user
    page,     \* the page in each browser: the forms, or what was submitted
    overlap   \* history: users whose page is or was generated while another was
dataVars == <<config, slots, gen, page, overlap>>

Shown(u) == page[u] # Nothing /\ page[u].kind = "forms"
Sent(u)  == page[u] # Nothing /\ page[u].kind = "sent"

DataInit ==
    /\ config \in Configs
    /\ slots = [i \in 1..config.spare |-> NoSection]
    /\ gen = [u \in Users |-> Nothing]
    /\ page = [u \in Users |-> Nothing]
    /\ overlap = {}
----------------------------------------------------------------------------
(* Requests for a page *)

\* the section of every key that has one, in order, but for those configured
OwnSections(f) ==
    FlattenSeq([i \in DOMAIN SectionOrder |->
        LET keys == {k \in KeysOf(f) : Layout[f][k].section = SectionOrder[i]}
        IN  [n \in 1..(IF SectionOrder[i] \in ToSet(config.sections) THEN 0 ELSE Cardinality(keys))
               |-> SectionOrder[i]]])

\* A slice of sections: the configured ones, the first of the slots, or an
\* array of its own once it has outgrown them.  Without configured sections
\* Schema.Sections returns its own list, one entry for every key.
Start(f) == IF config.sections = <<>> THEN [used |-> 0, own |-> OwnSections(f)]
                                      ELSE [used |-> 0, own |-> Nothing]
Todo(f) == IF config.sections = <<>> THEN <<>> ELSE OwnSections(f)
Elements(list) ==
    IF list.own = Nothing THEN config.sections \o SubSeq(slots, 1, list.used) ELSE list.own

WebKeys(f) == [s \in DOMAIN config.web |-> SetToBag(config.web[s] \cap KeysOf(f))]

NoKeys == [x \in {} |-> x]
FormOf(f) == [stage |-> "sections", pass |-> 1, list |-> Start(f), todo |-> Todo(f), pos |-> 0,
              keys |-> NoKeys, entries |-> EmptyBag]

Request(u, order, options) ==
    /\ gen' = [gen EXCEPT ![u] = [order |-> order, options |-> options, at |-> 1, forms |-> NoKeys,
                                  form |-> FormOf(order[1])]]
    /\ page' = [page EXCEPT ![u] = Nothing]
    /\ LET others == {v \in Users \ {u} : gen[v] # Nothing}
       IN  overlap' = IF others = {} THEN overlap \ {u} ELSE overlap \cup others \cup {u}
    /\ UNCHANGED <<config, slots>>

\* DataHandler
OpenData(u) ==
    /\ gen[u] = Nothing /\ ~Shown(u)
    /\ Request(u, SchemaFiles, Beamlines)

\* the chosen beamline does not come first
JsonOrder_AsIs(sname) == SchemaFiles

\* files whose path has the name in it come first
JsonOrder(sname) ==
    LET first == {f \in Files : <<f, sname>> \in PathHas}
    IN  Keep(SchemaFiles, first) \o Keep(SchemaFiles, Files \ first)

\* JsonHandler, with the SchemaName of the form that uploads the file
UploadJson(u) ==
    /\ Shown(u)
    /\ LET sname == page[u].schemaName
       IN  Request(u, JsonOrder(sname), <<sname>> \o Keep(Beamlines, ToSet(Beamlines) \ {sname}))
----------------------------------------------------------------------------
(* genForm.  It calls Sections twice (pass): in SectionKeys for the keys of *)
(* each section, and again for the order of the form.                       *)

Working(u, stage) == gen[u] # Nothing /\ gen[u].form.stage = stage
File(u) == gen[u].order[gen[u].at]
Form(u) == gen[u].form
SetForm(u, form) == gen' = [gen EXCEPT ![u].form = form]

\* Is the next section in the list (InList)?
LookUp(u) ==
    /\ Working(u, "sections") /\ Form(u).todo # <<>>
    /\ SetForm(u, IF Head(Form(u).todo) \in ToSet(Elements(Form(u).list))
                  THEN [Form(u) EXCEPT !.todo = Tail(@)]
                  ELSE [Form(u) EXCEPT !.stage = "append"])
    /\ UNCHANGED <<config, slots, page, overlap>>

\* append: into the next slot, or into a new array when there is none
AppendSection(u) ==
    /\ Working(u, "append")
    /\ LET list == Form(u).list
           s    == Head(Form(u).todo)
           fits == list.own = Nothing /\ list.used < config.spare
       IN  /\ slots' = IF fits THEN [slots EXCEPT ![list.used + 1] = s] ELSE slots
           /\ SetForm(u, [Form(u) EXCEPT
                  !.stage = "sections", !.todo = Tail(@),
                  !.list = IF fits THEN [list EXCEPT !.used = @ + 1]
                                   ELSE [list EXCEPT !.own = Append(Elements(list), s)]])
    /\ UNCHANGED <<config, page, overlap>>

SectionsDone(u) ==
    /\ Working(u, "sections") /\ Form(u).todo = <<>>
    /\ SetForm(u, IF Form(u).pass = 1
                  THEN [Form(u) EXCEPT !.stage = "collect", !.keys = WebKeys(File(u))]
                  ELSE [Form(u) EXCEPT !.stage = "place"])
    /\ UNCHANGED <<config, slots, page, overlap>>

\* A loop over the list reads each shared slot when it comes to it.  (A
\* string is read in two words; one torn by a write is no section of the
\* schema, and acts as one of another schema.)
Batch(list, pos) ==
    IF list.own # Nothing THEN list.own
    ELSE IF pos = 0 THEN config.sections ELSE <<slots[pos]>>
AtEnd(list, pos) == list.own # Nothing \/ pos = list.used

\* keys that are in the section already are added again
InSection_Again(f, s, have) == have (+) SetToBag({k \in KeysOf(f) : Layout[f][k].section = s})

\* a section's keys: those of webSectionKeys, then the others of the schema
InSection(f, s, have) ==
    have (+) SetToBag({k \in KeysOf(f) : Layout[f][k].section = s /\ ~BagIn(k, have)})

\* SectionKeys: only sections in the list are given their keys
Collect(u) ==
    /\ Working(u, "collect")
    /\ LET form  == Form(u)
           batch == Batch(form.list, form.pos)
           old(s) == IF s \in DOMAIN form.keys THEN form.keys[s] ELSE EmptyBag
           keys  == [s \in DOMAIN form.keys \cup ToSet(batch) |->
                        IF s \in ToSet(batch) THEN InSection(File(u), s, old(s)) ELSE old(s)]
       IN  SetForm(u, IF AtEnd(form.list, form.pos)
                      THEN [form EXCEPT !.keys = keys, !.stage = "sections", !.pass = 2, !.pos = 0,
                                        !.list = Start(File(u)), !.todo = Todo(File(u))]
                      ELSE [form EXCEPT !.keys = keys, !.pos = @ + 1])
    /\ UNCHANGED <<config, slots, page, overlap>>

\* formEntry for every key of a bag; flip: required and optional are swapped
Entries(f, keys, flip) ==
    LET entry(k) == [key |-> k, required |-> (Layout[f][k].optional = flip)]
    IN  [e \in {entry(k) : k \in BagToSet(keys)} |-> keys[e.key]]

\* the sections in the order of the list
Place(u) ==
    /\ Working(u, "place")
    /\ LET form == Form(u)
           batch == Keep(Batch(form.list, form.pos), DOMAIN form.keys)
           entries == FoldLeft(LAMBDA acc, s : acc (+) Entries(File(u), form.keys[s], FALSE), form.entries, batch)
       IN  SetForm(u, IF AtEnd(form.list, form.pos)
                      THEN [form EXCEPT !.entries = entries, !.stage = "rest"]
                      ELSE [form EXCEPT !.entries = entries, !.pos = @ + 1])
    /\ UNCHANGED <<config, slots, page, overlap>>

\* Sections that are not in the list follow, with required and optional
\* swapped, and then the keys without a section.  The next form is begun, or
\* the page is sent: its script puts the first beamline into the two forms
\* that upload a file.
Rest(u) ==
    /\ Working(u, "rest")
    /\ LET form  == Form(u)
           f     == File(u)
           left  == DOMAIN form.keys \ ToSet(Elements(form.list))
           bare  == SetToBag({k \in KeysOf(f) : Layout[f][k].section = NoSection})
           entries == FoldLeft(LAMBDA acc, s : acc (+) Entries(f, form.keys[s], TRUE), form.entries, SetToSeq(left))
                      (+) Entries(f, bare, FALSE)
           forms == [g \in DOMAIN gen[u].forms \cup {f} |-> IF g = f THEN entries ELSE gen[u].forms[g]]
           next  == gen[u].at + 1
       IN  IF next <= Len(gen[u].order)
           THEN /\ gen' = [gen EXCEPT ![u].at = next, ![u].forms = forms,
                                      ![u].form = FormOf(gen[u].order[next])]
                /\ UNCHANGED page
           ELSE /\ gen' = [gen EXCEPT ![u] = Nothing]
                /\ page' = [page EXCEPT ![u] =
                      [kind |-> "forms", forms |-> forms, visible |-> {Name[gen[u].order[1]]},
                       options |-> gen[u].options,
                       selected |-> Head(gen[u].options), schemaName |-> Head(gen[u].options)]]
    /\ UNCHANGED <<config, slots, overlap>>
----------------------------------------------------------------------------
(* The page in the browser *)

\* Elements with the class "hide" are not displayed
HideTag(visible, tag) == visible \ {tag}
ShowTag(visible, tag) == visible \cup {tag}

SwitchTo(u, b) == ShowTag(FoldLeft(HideTag, page[u].visible, page[u].options), b)

\* the upload forms keep the beamline they had
SelectBeamline_NoName(u, b) ==
    /\ Shown(u) /\ b \in ToSet(page[u].options) \ {page[u].selected}
    /\ page' = [page EXCEPT ![u].selected = b, ![u].visible = SwitchTo(u, b)]
    /\ UNCHANGED <<config, slots, gen, overlap>>

\* selectBeamline, which ends with setSchemaName
SelectBeamline(u, b) ==
    /\ Shown(u) /\ b \in ToSet(page[u].options) \ {page[u].selected}
    /\ page' = [page EXCEPT ![u].selected = b, ![u].visible = SwitchTo(u, b), ![u].schemaName = b]
    /\ UNCHANGED <<config, slots, gen, overlap>>

\* schemaFileName: the first file whose path has the name in it
SchemaFile(sname) == SchemaFiles[Min({i \in DOMAIN SchemaFiles : <<SchemaFiles[i], sname>> \in PathHas})]

\* form: what the user had on the screen; file: the schema that checks it
Submitted(u, f, sname) ==
    /\ page' = [page EXCEPT ![u] = [kind |-> "sent", form |-> f, file |-> SchemaFile(sname)]]
    /\ UNCHANGED <<config, slots, gen, overlap>>

\* A visible form carries the name of its own beamline (ProcessHandler)
SubmitForm(u, f) ==
    /\ Shown(u) /\ Name[f] \in page[u].visible
    /\ Submitted(u, f, Name[f])

\* A file sent to /api names what the script wrote into its form; the user
\* has the form of f on the screen
UploadSpec(u, f) ==
    /\ Shown(u) /\ Name[f] \in page[u].visible
    /\ Submitted(u, f, page[u].schemaName)

DataNext ==
    \E u \in Users :
       \/ OpenData(u) \/ UploadJson(u)
       \/ LookUp(u) \/ AppendSection(u) \/ SectionsDone(u) \/ Collect(u) \/ Place(u) \/ Rest(u)
       \/ \E b \in ToSet(Beamlines) : SelectBeamline(u, b)
       \/ \E f \in Files : SubmitForm(u, f) \/ UploadSpec(u, f)

DataSpec == DataInit /\ [][DataNext]_dataVars
----------------------------------------------------------------------------
(* Properties *)

\* What a form should have: every key once, required if it is mandatory
Proper(f) == SetToBag({[key |-> k, required |-> ~Layout[f][k].optional] : k \in KeysOf(f)})

\* The configuration lists each section once, and keys in their own one.
\* (A form repeats a section that is listed twice.)
Consistent ==
    /\ config.sections # <<>> /\ IsInjective(config.sections) /\ NoSection \notin ToSet(config.sections)
    /\ \A s \in DOMAIN config.web : s \in ToSet(config.sections)
          /\ \A f \in Files : \A k \in KeysOf(f) \cap config.web[s] : Layout[f][k].section = s

\* With such a configuration every form has every key of its schema exactly
\* once, and the browser insists on the mandatory ones: for a page that was
\* generated alone, whatever earlier requests left in the slots behind
\* Config.SchemaSections, and for overlapping ones while all schemas keep to
\* the configured sections.
FormsProper ==
    \A u \in Users, f \in Files :
       (/\ Shown(u) /\ Consistent
        /\ u \notin overlap \/ \A g \in Files : OwnSections(g) = <<>>)
       => page[u].forms[f] = Proper(f)

\* The name of its beamline leads to the file, and to no other before it.
\* (The path of ID1A3.json has the name ID1A in it, too.)
Plain(f) == SchemaFile(Name[f]) = f

\* The form on the screen is that of the selected beamline, alone, however
\* the page was asked for and whatever was selected before.
OneBeamline ==
    \A u \in Users, f \in Files : Shown(u) /\ page[u].selected = Name[f] /\ Plain(f) =>
       page[u].visible = {Name[f]}

\* Whichever way a record leaves the page, it is checked by the schema whose
\* form the user had on the screen.
CheckedByOwn == \A u \in Users : Sent(u) /\ Plain(page[u].form) => page[u].file = page[u].form
============================================================================
