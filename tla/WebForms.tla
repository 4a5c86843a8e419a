------------------------------- MODULE WebForms -------------------------------
(***************************************************************************)
(* A record on its way through the browser: the form of a beamline, blank  *)
(* or filled from a JSON file (genForm, formEntry), what the browser posts *)
(* (processForm, parseValue), the check of types and values                *)
(* (validSchemaType, validDataValue), the page for updates, and the API    *)
(* that takes the same records as JSON.                                    *)
(*                                                                         *)
(* A text is the sequence of its words, separated by single blanks; the    *)
(* blank text is <<"">>.  A float64 is the word that %v prints for it, an  *)
(* int64 its decimal word.  Numbers are finite, and integers are typed as  *)
(* %d prints them (a bound).                                               *)
(* The sections of a form are in DataPage; here it is a set of keys.  The  *)
(* types are those the schemas of the repository use; values and texts     *)
(* contain no commas or brackets of their own.                             *)
(***************************************************************************)
EXTENDS Filtering

CONSTANTS
    Def,          \* the schema: key -> [type, optional, multiple, values, single]
    Words,        \* what texts are made of
    Ints, Floats, \* words that parse as numbers
    Dotted,       \* ... those with a decimal point
    Sprint,       \* what %v prints for the float64 of a word: 1e+06 for 1000000
    Near,         \* ... for the float32 nearest to it
    Strip,        \* a word without its brackets
    Typed,        \* what users type into the text input of each key
    JsonRecords,  \* the records of JSON files and API clients
    NameKey,      \* the key a dataset is named by
    Names,        \* ... and its values
    None

Text == Seq(Words) \ {<<>>}
NoWord == ""
Comma == ","
Blank == <<NoWord>>
Keys == DOMAIN Def
Lists == {"[]string", "[]any", "[]float64"}
IsSelect(k) == Def[k].type \in {"list_str", "bool"}
Mandatory == {k \in Keys : ~Def[k].optional}

ASSUME WordsAssumption ==
    /\ {NoWord, Comma, "[", "]", "true", "false"} \subseteq Words /\ Floats \subseteq Words \ {NoWord}
    /\ Ints \subseteq Floats /\ "0" \in Ints /\ Dotted \subseteq Floats \ Ints
    /\ Sprint \in [Floats -> Floats] /\ Near \in [Floats -> Floats] /\ Strip \in [Words -> Words]
    /\ Sprint["0"] = "0"
    /\ \A w \in Floats : Sprint[Sprint[w]] = Sprint[w] /\ Sprint[Near[w]] = Near[w]
    /\ \A w \in Floats \cup {NoWord, "true", "false"} : Strip[w] = w
\* No schema of the repository lists values for numbers or lets users select
\* several truth values.
ASSUME DefAssumption ==
    \A k \in Keys :
       /\ Def[k].type \in {"string", "bool", "int64", "float64", "list_str", "list_float"}
       /\ Def[k].optional \in BOOLEAN /\ Def[k].multiple \in BOOLEAN
       /\ Def[k].values # None => Def[k].values \in Seq(Text)
       /\ Def[k].single # None => Def[k].single \in Text
       /\ Def[k].type \in {"int64", "float64", "list_float"} => Def[k].values = None /\ Def[k].single = None
       /\ Def[k].type = "bool" => ~Def[k].multiple
       /\ Typed[k] \subseteq Text

VARIABLES
    docs,   \* the collection: name -> record or None
    page    \* what the browser shows
vars == <<docs, page>>

Val(type, v) == [type |-> type, v |-> v]

\* what json.Unmarshal makes of a value
IsJson(val) ==
    /\ val = Val(val.type, val.v)
    /\ CASE val.type = "string"  -> val.v \in Text
         [] val.type = "bool"    -> val.v \in {"true", "false"}
         [] val.type = "float64" -> val.v \in Floats /\ Sprint[val.v] = val.v
         [] val.type = "[]any"   -> val.v \in Seq(Text)
         [] OTHER                -> FALSE
JsonRecord(rec) == DOMAIN rec \subseteq Keys /\ \A k \in DOMAIN rec : IsJson(rec[k])

\* no schema has a key _id
ASSUME NameAssumption ==
    /\ NameKey \in Mandatory /\ Def[NameKey].type = "string" /\ Typed[NameKey] \subseteq Names
    /\ Blank \notin Names /\ "_id" \notin Keys
    /\ \A r \in JsonRecords : JsonRecord(r) /\ NameKey \in DOMAIN r /\ r[NameKey].v \in Names
----------------------------------------------------------------------------
(* Validation *)

Zero(val) == val.type \in {"int", "float64"} /\ val.v = "0"

\* Zero passes wherever the name of the type has "int" or "float" in it, a
\* number of a JSON file is an int64 if it is printed without a point (1e+06
\* and 5e-07 are, 1.5e+06 is not), and what is in a JSON list is not looked at.
ValidType(type, val) ==
    \/ Zero(val) /\ type \in {"int64", "float64", "list_float"}
    \/ type = "int64" /\ val.type = "float64" /\ val.v \notin Dotted
    \/ type = val.type
    \/ type = "list_str" /\ val.type \in {"[]string", "[]any"}
    \/ type = "list_float" /\ (val.type \in {"[]float64", "[]any"}
                               \/ (val.type = "[]string" /\ val.v \in {<<>>, <<Blank>>}))

\* the elements of a list; those that came from a form are split at blanks
Pieces(val) ==
    IF val.type = "[]string"
    THEN LET words == FlattenSeq(val.v) IN [i \in DOMAIN words |-> <<words[i]>>]
    ELSE val.v

\* one match is enough
ValidValue_Some(def, val) ==
    def.type = "list_str" /\ def.values # None =>
       LET pieces == Pieces(val)
       IN  \E i \in DOMAIN pieces, j \in DOMAIN def.values : pieces[i] = def.values[j]

\* as many matches as elements
ValidValue(def, val) ==
    def.type = "list_str" /\ def.values # None =>
       LET pieces == Pieces(val)
       IN  Cardinality({m \in (DOMAIN pieces) \X (DOMAIN def.values) : pieces[m[1]] = def.values[m[2]]})
             = Len(pieces)

Valid(rec) ==
    /\ Mandatory \subseteq DOMAIN rec
    /\ \A k \in DOMAIN rec : ValidType(Def[k].type, rec[k]) /\ ValidValue(Def[k], rec[k])
----------------------------------------------------------------------------
(* What a form shows, and what the browser posts of it *)

\* the brackets of a list are kept
Default_Brackets(rec, k) ==
    IF k \notin DOMAIN rec THEN Blank
    ELSE CASE rec[k].type \in Lists   -> <<"[">> \o FlattenSeq(rec[k].v) \o <<"]">>
           [] rec[k].type = "string"  -> rec[k].v
           [] OTHER                   -> <<rec[k].v>>

Stripped(text) == [i \in DOMAIN text |-> Strip[text[i]]]

\* The value of the uploaded record as %v prints it, without any brackets:
\* those of a text go with those around a list
Default(rec, k) ==
    IF k \notin DOMAIN rec THEN Blank
    ELSE CASE rec[k].type \in Lists /\ rec[k].v = <<>> -> Blank
           [] rec[k].type \in Lists /\ rec[k].v # <<>> -> Stripped(FlattenSeq(rec[k].v))
           [] rec[k].type = "string"  -> Stripped(rec[k].v)
           [] OTHER                   -> <<rec[k].v>>

Unique(s) == FoldLeft(LAMBDA acc, x : IF Contains(acc, x) THEN acc ELSE Append(acc, x), <<>>, s)
WithCommas(texts) ==
    IF texts = <<>> THEN Blank ELSE FoldLeft(LAMBDA acc, t : acc \o <<Comma>> \o t, Head(texts), Tail(texts))
NonBlank(t) == IF t = Blank THEN <<>> ELSE <<t>>

\* A drop-down list of options.  A browser posts what is selected, and of a
\* list without `multiple` the first option if nothing is.
Select(selected, options, multiple) ==
    [items   |-> IF selected # <<>> \/ multiple THEN selected ELSE SubSeq(options, 1, 1),
     choices |-> IF multiple
                 THEN {Keep(options, S) : S \in SUBSET ToSet(options)}
                 ELSE {<<options[i]>> : i \in DOMAIN options}]

\* the default is selected without being among the options
Widget_Stray(k, default) ==
    IF Def[k].type = "list_str" /\ Def[k].values # None
    THEN Select(NonBlank(default), Keep(Unique(Def[k].values), ToSet(Def[k].values) \ {Blank, default}),
                Def[k].multiple)
    ELSE [items |-> <<default>>, choices |-> {<<t>> : t \in Typed[k] \cup {default}}]

\* The entry of one key (formEntry).  The blank value of a list of options
\* is dropped; a text input with several values shows them all.
Widget(k, default) ==
    LET def == Def[k]
        Input(t) == [items |-> <<t>>, choices |-> {<<u>> : u \in Typed[k] \cup {t}}]
    IN  CASE def.type = "list_str" /\ def.values = None -> Select(<<>>, <<>>, def.multiple)
          [] def.type = "list_str" /\ def.values # None ->
               LET vals == Keep(Unique(def.values), ToSet(def.values) \ {Blank, default})
               IN  Select(NonBlank(default), NonBlank(default) \o vals, def.multiple)
          [] def.type = "bool" /\ default = Blank ->
               Select(<<>>, <<Blank, <<"false">>, <<"true">>>>, def.multiple)
          [] def.type = "bool" /\ default # Blank ->
               Select(<<>>, IF default = <<"true">> THEN <<<<"true">>, <<"false">>>>
                            ELSE <<<<"false">>, <<"true">>>>, def.multiple)
          [] OTHER ->
               IF def.values # None THEN Input(WithCommas(Unique(NonBlank(default) \o def.values)))
               ELSE IF default = Blank /\ def.single # None THEN Input(def.single)
               ELSE Input(default)

Empty == [k \in {} |-> None]
Entry(k, from) == Widget(k, Default(IF from = None THEN Empty ELSE from, k))
Form(from) ==
    [kind |-> "form", from |-> from, edited |-> FALSE,
     items |-> [k \in Keys |-> Entry(k, from).items]]

\* fields the browser posts: a list with nothing selected is not among them
Posted(items) == [k \in {j \in Keys : items[j] # <<>>} |-> items[k]]
----------------------------------------------------------------------------
(* processForm *)

Truths == {"1", "t", "T", "TRUE", "true", "True"}
Falsehoods == {"0", "f", "F", "FALSE", "false", "False"}

Parsed(val) == [ok |-> TRUE, val |-> val]
Failed(val) == [ok |-> FALSE, val |-> val]

ParseValue(type, items) ==
    LET first == items[1]
        IsWord(S) == Len(first) = 1 /\ first[1] \in S
        words == FlattenSeq(items)
    IN  CASE type = "list_str" -> Parsed(Val("[]string", items))
          [] type = "list_float" ->
               IF ToSet(words) \subseteq Floats
               THEN Parsed(Val("[]float64", [i \in DOMAIN words |-> <<Near[words[i]]>>]))
               ELSE Failed(Val("[]string", items))
          [] type = "string" -> Parsed(Val("string", first))
          [] type = "bool" ->
               IF IsWord(Truths) THEN Parsed(Val("bool", "true"))
               ELSE IF IsWord(Falsehoods) THEN Parsed(Val("bool", "false"))
               ELSE Failed(Val("bool", "false"))
          [] type = "int64" ->
               IF IsWord(Ints) THEN Parsed(Val("int64", first[1])) ELSE Failed(Val("int", "0"))
          [] type = "float64" ->
               IF IsWord(Floats) THEN Parsed(Val("float64", Sprint[first[1]])) ELSE Failed(Val("float64", "0"))

\* A mandatory key that cannot be parsed ends the call, as does a key the
\* schema does not have; an optional one keeps what parseValue returned with
\* its error.  (User, Date and Description, which are never refused, are
\* left out of records.)
ProcessForm(fields) ==
    LET value == [k \in DOMAIN fields \cap Keys |-> ParseValue(Def[k].type, fields[k])]
    IN  [ok  |-> DOMAIN fields \subseteq Keys /\ \A k \in DOMAIN value : value[k].ok \/ Def[k].optional,
         rec |-> [k \in DOMAIN value |-> value[k].val]]

\* MongoUpsert by the dataset of the record: $set leaves keys the new record
\* does not have as they were
Upsert(rec) ==
    LET old == docs[rec[NameKey].v]
        kept == IF old = None THEN {} ELSE DOMAIN old
    IN  [docs EXCEPT ![rec[NameKey].v] =
            [k \in kept \cup DOMAIN rec |-> IF k \in DOMAIN rec THEN rec[k] ELSE old[k]]]

\* the input of a key on the page for updates (htmlInputs); whole numbers are
\* written as integers
Shown(val) ==
    CASE val.type \in {"[]string", "[]any"} -> WithCommas(val.v)
      [] val.type = "[]float64" -> <<"[">> \o FlattenSeq(val.v) \o <<"]">>
      [] val.type = "string" -> val.v
      [] val.type = "float64" /\ (\E i \in Ints : Sprint[i] = val.v) ->
           <<CHOOSE i \in Ints : Sprint[i] = val.v>>
      [] OTHER -> <<val.v>>

\* Stamps are the fields insertData adds.  The page has _id even when it is
\* empty, and does not have SchemaName: the first schema is used.
UpdatePage(rec, stamps, id, answer, from, edited) ==
    [kind |-> "update", id |-> id, rec |-> rec, answer |-> answer, from |-> from, edited |-> edited,
     fields |-> [k \in DOMAIN rec \cup stamps \cup {"_id"} |->
                   IF k \in DOMAIN rec THEN <<Shown(rec[k])>> ELSE <<Blank>>]]

Confirm(rec, answer, from, edited) ==
    [kind |-> "confirm", rec |-> rec, answer |-> answer, from |-> from, edited |-> edited]

Stamps == {"did", "dataset", "path"}

\* a record whose JSON is decoded again: every number is a float64
AsJson(rec) ==
    [k \in DOMAIN rec |->
        CASE rec[k].type \in Lists -> Val("[]any", rec[k].v)
          [] rec[k].type \in {"int", "int64"} -> Val("float64", Sprint[rec[k].v])
          [] OTHER -> rec[k]]
----------------------------------------------------------------------------
Init ==
    /\ docs = [n \in Names |-> None]
    /\ page = Confirm(Empty, "none", None, FALSE)

\* A blank form (DataHandler)
OpenForm ==
    /\ page.kind # "form"
    /\ page' = Form(None)
    /\ UNCHANGED docs

\* A form filled from a JSON file (JsonHandler)
UploadJson(rec) ==
    /\ page.kind # "form"
    /\ page' = Form(rec)
    /\ UNCHANGED docs

\* ProcessHandler shows what was parsed as JSON, without insertData's stamps;
\* the user saves it (SaveRecord) and fills a form with it, now or after a
\* failure is over.  (UpdateRecordHandler shows no JSON; its answers of a
\* record that was parsed never occur.  Of a record that was not, the part
\* that is shown lacks a mandatory key: it is not saved here, a bound.)
UploadSaved ==
    /\ page.kind # "form" /\ page.answer \in {"inserted", "invalid", "failed"}
    /\ page' = Form(AsJson(page.rec))
    /\ UNCHANGED docs

\* The forms users edit are blank or filled from one of the JSON files; one
\* filled from what was saved is submitted as it is (a bound).
FillIn(k, items) ==
    /\ page.kind = "form" /\ page.from \in JsonRecords \cup {None}
    /\ items # page.items[k]
    /\ page' = [page EXCEPT !.items[k] = items, !.edited = TRUE]
    /\ UNCHANGED docs

\* A browser does not submit a required text input that is blank
Complete == \A k \in Mandatory : IsSelect(k) \/ page.items[k] # <<Blank>>

\* ProcessHandler: insertData may also fail after the check, its path
\* missing or a database down (late)
SubmitForm(late) ==
    /\ page.kind = "form" /\ Complete
    /\ LET result == ProcessForm(Posted(page.items))
           accepted == result.ok /\ Valid(result.rec)
       IN  /\ late => accepted
           /\ page' = IF ~result.ok THEN Confirm(result.rec, "unparsed", page.from, page.edited)
                      ELSE IF ~accepted
                      THEN UpdatePage(result.rec, {}, None, "invalid", page.from, page.edited)
                      ELSE IF late
                      THEN UpdatePage(result.rec, Stamps, None, "failed", page.from, page.edited)
                      ELSE Confirm(result.rec, "inserted", page.from, page.edited)
           /\ docs' = IF accepted /\ ~late THEN Upsert(result.rec) ELSE docs

\* UpdateHandler, from a record the user has found
OpenRecord(n) ==
    /\ page.kind = "confirm" /\ docs[n] # None
    /\ page' = UpdatePage(docs[n], Stamps, n, "none", None, FALSE)
    /\ UNCHANGED docs

\* UpdateRecordHandler.  With an _id the record goes to MongoUpsert unchecked,
\* which panics since no schema has the key dataset.
SubmitUpdate ==
    /\ page.kind = "update"
    /\ LET result == ProcessForm(page.fields)
           insert == result.ok /\ page.id = None /\ Valid(result.rec)
       IN  /\ page' = Confirm(result.rec, CASE ~result.ok -> "unparsed"
                                            [] result.ok /\ page.id # None -> "panicked"
                                            [] insert -> "inserted"
                                            [] OTHER -> "invalid", None, TRUE)
           /\ docs' = IF insert THEN Upsert(result.rec) ELSE docs

\* A record sent to /api, as a field or as a file; one that is refused
\* changes nothing, nor does one that fails after the check
ApiSubmit(rec) ==
    /\ Valid(rec)
    /\ docs' = Upsert(rec)
    /\ UNCHANGED page

Next ==
    \/ OpenForm
    \/ \E rec \in JsonRecords : UploadJson(rec) \/ ApiSubmit(rec)
    \/ UploadSaved
    \/ \E k \in Keys : page.kind = "form" /\ \E items \in Entry(k, page.from).choices : FillIn(k, items)
    \/ \E late \in BOOLEAN : SubmitForm(late)
    \/ \E n \in Names : OpenRecord(n)
    \/ SubmitUpdate

Spec == Init /\ [][Next]_vars
----------------------------------------------------------------------------
(* Properties *)

\* The state stays in its types; in particular what is selected in a list is
\* one of its options, and a record in the collection is one of its dataset.
WTypeOK ==
    /\ DOMAIN docs = Names
    /\ \A n \in Names : docs[n] # None => DOMAIN docs[n] \subseteq Keys /\ docs[n][NameKey].v = n
    /\ page.kind \in {"form", "update", "confirm"}
    /\ page.kind = "form" =>
          \A k \in Keys : page.items[k] \in Entry(k, page.from).choices \cup {<<>>}
    /\ page.kind = "update" => "_id" \in DOMAIN page.fields

Listed(text, values) ==
    text \in ToSet(values) \/ \A i \in DOMAIN text : <<text[i]>> \in ToSet(values)

Conforms(rec) ==
    /\ Mandatory \subseteq DOMAIN rec
    /\ \A k \in DOMAIN rec :
          LET def == Def[k] IN
          CASE def.type \in {"string", "bool"} -> rec[k].type = def.type
            [] def.type = "float64" -> rec[k].type = "float64" /\ rec[k].v \in Floats
            [] def.type = "int64" -> rec[k].type \in {"int64", "int", "float64"} /\ rec[k].v \in Floats \ Dotted
            [] def.type = "list_float" -> rec[k].type \in Lists \/ Zero(rec[k])
            [] def.type = "list_str" ->
                 /\ rec[k].type \in {"[]string", "[]any"}
                 /\ def.values # None => \A i \in DOMAIN rec[k].v : Listed(rec[k].v[i], def.values)

\* Whatever way the records of a dataset came, from forms, files or update
\* pages, the document they leave together has every mandatory key; its texts,
\* truth values and numbers have the declared types, an int64 being any number
\* that is printed without a point and a list of numbers any list or a zero;
\* and where the schema lists values for a list, it has only listed ones
\* (validDataValue: "we should check all its values").  Holds for schemas that
\* list each value once.
StoredConforms == \A n \in Names : docs[n] # None => Conforms(docs[n])

\* what a value says, whatever Go type carries it
Meaning(val) == IF val.type \in Lists THEN Val("list", val.v)
                ELSE IF val.type \in {"int", "int64", "float64"} THEN Val("number", Sprint[val.v]) ELSE val

\* A form has one text input, or one option, for all values of a list: one
\* value that is listed, numbers that are what float32 makes of them, or, for
\* an optional list, one blank.  A blank text comes back as the default value
\* of its key, and a text loses its brackets.
Fillable(rec) ==
    \A k \in DOMAIN rec :
       /\ Def[k].type = "list_str" =>
             /\ Def[k].values # None /\ Len(rec[k].v) = 1
             /\ rec[k].v # <<Blank>> /\ Stripped(rec[k].v[1]) = rec[k].v[1]
       /\ Def[k].type = "list_float" =>
             /\ rec[k].type \in Lists
             /\ \/ rec[k].v = <<Blank>> /\ Def[k].optional
                \/ rec[k].v # <<>> /\ \A i \in DOMAIN rec[k].v : \E w \in Floats : rec[k].v[i] = <<w>> /\ Near[w] = w
       /\ Def[k].type = "string" => /\ rec[k].v # Blank \/ Def[k].single = None
                                    /\ Stripped(rec[k].v) = rec[k].v

\* integers that %v prints as ParseInt reads them
Short(rec) == \A k \in DOMAIN rec : Def[k].type = "int64" => rec[k].v \in Ints

\* the form of a record that the API would take has been submitted as it was
Refilled == page.kind # "form" /\ page.from # None /\ ~page.edited /\ Valid(page.from) /\ Fillable(page.from)

\* ... and what it says was accepted
SaysTheSame ==
    /\ page.answer \in {"inserted", "failed"}
    /\ \A k \in DOMAIN page.from :
          k \in DOMAIN page.rec /\ Meaning(page.rec[k]) = Meaning(page.from[k])

\* A JSON file that the API would take fills the form with what it says: when
\* the user submits the form as it is, the record is accepted and has the
\* values of the file ("Provided JSON file will fill the web form").  So does
\* a record that was saved from the confirmation ("save parsed record for
\* later usage") and is submitted again, any number of times.  Integers are
\* those %v prints in full: 1000000 comes into the form as 1e+06, which is no
\* integer for parseValue.
PrefillKeeps == Refilled /\ Short(page.from) => SaysTheSame
============================================================================
