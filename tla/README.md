# CHESS Data Management: a TLA+ model of the service

The repository holds the MetaData service of CHESS (`web/`, Go), its clients and
a few tools. Users describe a measurement as a record; the service checks the
record against the schema of the beamline, books the files of the measurement in
a relational database (sqlite3 or mysql) and stores the record in MongoDB, where
it can be searched. This directory models the parts of the service in which
requests meet (the two databases, the schema cache, the shared configuration) and
the pages through which users enter and find records.
Paths below are relative to the root of the repository.

## Inventory

| Component | State | Operations | Modelled in |
| --- | --- | --- | --- |
| FilesDB (`web/filesdb.go`, `web/schemas/*.sql`) | tables `metadata`, `datasets`, `files`; pool of 100 connections; locks of the database | `InsertFiles`, `findDID`, `getFiles`, `getDatasets`, `getTableNames`, `FindFiles` | `FilesDB`, `Bookkeeping`, `FilesDBProofs` |
| Ingest (`insertData` in `web/helpers.go`, `MongoUpsert` in `web/mongo.go`) | the collection of documents; the local variables of each handler | refuse, book, upsert, answer | `Ingest`, `Deposits`, `IngestProofs` |
| Schema manager (`web/schema.go`, `validateData`) | `SchemaManager.Map`, the `Schema` objects in it, the global `_schemaKeys`, the schema files | `Load`, `Schema.Load`, `Validate`, `Keys`, `MandatoryKeys` | `SchemaManager`, `SchemaManagerProofs` |
| Search (`web/query.go`, `SearchHandler`) | none of its own; reads the collection and `_schemaKeys` | `ParseQuery`, `adjustQuery`, `MongoGet` | `Search`, `SearchProofs` |
| Page of results (`SearchHandler`, `MongoCount`, `pagination`, `makeURL` in `web/utils.go`) | the page a browser holds | count, get, show the pager | `SearchPage`, `SearchProofs` |
| Web forms (`genForm`, `formEntry`, `processForm`, `parseValue`, `ProcessHandler`, `JsonHandler`, `UpdateHandler`, `UpdateRecordHandler`; `validSchemaType`, `validDataValue`) | the page a browser holds | show, fill from a file, edit, submit, update | `WebForms`, `WebFormsProofs` |
| Data page (`DataHandler`, `JsonHandler`, `genForm`, `Schema.Sections`, `SectionKeys`, `schemaFileName`; the script of `web/templates/keys.tmpl`, `HideTag` and `ShowTag` of `web/js/utils.js`) | the spare slots behind `Config.SchemaSections`; which form a browser shows, and the schema name in its upload forms | generate, select a beamline, submit | `DataPage`, `DataPageProofs` |
| Authentication, layout, status, settings, logging, server start, cookies | sessions, page layout | | not modelled: external protocols and presentation |
| Command line client, legacy python client, `mongotools`, schema generators | none | | not modelled: one request or one file per run |

How they interact: `net/http` runs every request in a goroutine of its own. A
goroutine of `/api` or `/process` calls `insertData`, which goes through the
schema manager (`Load`, then `validateData`), FilesDB (`InsertFiles`) and MongoDB
(`MongoUpsert`), in this order and without a transaction or a lock around them.
`/files` calls `getFiles`, `/search` reads MongoDB. Goroutines share the global
`FilesDB` handle with its pool, the locks of the relational database, the
collection, `_smgr.Map`, the `Schema` objects in it and the slices of `Config`.
Nothing in the service takes a Go lock.

What is hard about it, and which properties each part must have:

* FilesDB: transactions overlap, wait for each other and fail in the middle. A
  submission must be booked as a whole or not at all, rows must point to rows,
  connections must come back, nobody may wait for ever.
* Ingest: two databases, a crash or a lost reply between them. A client that was
  told "inserted" must find its record and its files; MongoDB must not run ahead.
* Schema manager: an unlocked cache that resets itself, objects that requests
  share and reload while somebody edits the files. The schema just loaded must be
  found, and the verdict on a record must be that of the file.
* Web forms: a record changes its Go types on the way from a file to a form, to
  the collection and back to JSON. It must stay the same record, and whatever the
  pages do to each other, what is stored must conform to the schema.
* Data page: a form is put together from the schema and from a configuration that
  overlapping requests append to. It must have every key once and insist on the
  mandatory ones, and a record must be checked by the schema whose form the user
  had on the screen, though the server's order of the forms, the selected beamline
  and the name in the upload forms are kept apart.
* Search: what is found must satisfy the query, and the pager must fit what is
  found although it is counted in a request of its own.

The hazards are listed line by line in `PROJECT.json`.

## Modules

### Bookkeeping

The abstract specification of FilesDB: three tables and one action, `Book`, that
books a submission in one step. The tables are kept by their natural keys
(`did`, `dataset`, `file`), which the SQL schema declares UNIQUE; the
auto-increment ids that link rows in the code are replaced by the keys they stand
for. A row that exists never changes, as in the code, where every duplicate is
skipped.

### FilesDB

One process per call of `InsertFiles` (`Requests`) and of `getFiles` (`Readers`).
`pc` follows the statements:

| `pc` | Code | Actions |
| --- | --- | --- |
| `idle` -> `find` | 142-146, the walk | `Call` |
| `find` | 148-153, `findDID` outside the transaction | `FindDID` |
| `begin` | 157-162 | `Begin`, `BeginFails` |
| `metadata` | 174-188, INSERT, then SELECT of the id it has just inserted or found | `InsertMetadata` |
| `datasets` | 191-206, the same | `InsertDataset` |
| `files` | 209-216, one INSERT per step, in the order of the walk | `InsertFile` |
| `files`, nothing left | 218-223 | `Commit`, `CommitFails` |
| any of the last four | every `return tx.Rollback()` | `ExecFails`, `LockTimeout`, `Rollback` |

An INSERT and the SELECT after it are one step: the transaction holds the row it
reads. `ins[r]` is what the open transaction has inserted, visible to nobody
else before `Commit` applies it. `WaitsFor(r)` is the database's part of the
model: sqlite3 admits one writer and does not let it commit while a reader has a
query open; mysql makes an INSERT wait for an uncommitted row with the same key
(`Holders`). Such an INSERT asks for a shared lock on the key (`AskShared`, `shared`);
when the row is rolled back, all who asked get it, and none of them can insert while
another has one (`Sharers`). Two of them are a deadlock, which mysql finds and breaks
by failing the statement of one (`Deadlock`). What else InnoDB locks is left out: gaps
between neighbouring keys, and a committed row met as a duplicate, whose transaction is
rolled back at once.
A duplicate key is skipped on sqlite3 and rolls the transaction back on mysql,
because the code looks for the word UNIQUE in the message. `return tx.Rollback()`
returns the error of the rollback, so a rolled back call normally returns nil;
after a failed commit the rollback itself answers with an error.

`Faults` names what may go wrong: `lookup`, `begin`, `exec`, `rollback`,
`timeout`, `commit`, `crash`. A walk finds the root and any part of what is below
it, since the directory may be filled meanwhile. The uncommitted writes of a
crashed process are gone.

Not in the model: an empty path (refused before), `getDatasets` and
`getTableNames` (the shape of `getFiles`, they change nothing), and the tables
and columns the service never fills.

### Ingest

Extends FilesDB by the handler of each request: `Refuse` (the record fails the
schema or its path does not exist), `Submit`, the steps of `InsertFiles`, and the
upsert. `UpdateOne` with `upsert` is two steps in the server, since without a
unique index the search and the insert of two requests interleave:
`UpsertMatch`, or `UpsertMiss` and then `UpsertCreate`. It may be rejected, or
its reply lost. Of a document only the dataset and the did are kept. The did is a
fresh uuid, so the request itself stands for it (`FreshDids`; uuids never
collide), and what the client is told is `resp`. When the process dies in `UpsertCreate` the insert counts as not done:
a server that finishes it anyway gives the same states as a crash one step later.

### Deposits

The abstract specification of the whole pipeline, in the terms of `Bookkeeping`
(which it instantiates) and of what documents carry: a submission is `Submit`ted,
`Book`ed in one step, `Deposit`ed (its did replaces that of a document of the
dataset or comes with a new document) and told of it; it may `GiveUp` at any
point, and the process may `Die`. `Ingest` refines it with `hpc`, the metadata
table, the documents and the answers as the mapping (`D` in `Ingest`). What it
excludes: a deposit without a booking, a second booking or deposit of one
submission, an answer "ok" before the deposit, an effect after the answer.

### SchemaManager

One process per `insertData`, from `Load` to the verdict of `Validate`. Each read
or write of `SchemaManager.Map`, of a `Schema` object's map and of the file is a
step: the test of the cache (`CacheHit`, `CacheMiss`), `ReadFile`, `AssignMap`,
the test of expiry and the reset of the whole map (`TestExpired`, `DropExpired`),
the test for nil, the new map and the store (`TestNil`, `MakeMap`, `Store`), the
look-up in `validateData` (`FindSchema`), and in `Validate` the keys it takes, one
key of the record at a time in any order (Go's map order), and the comparison of
the numbers of mandatory keys. Schema objects have an identity: one per schema
from the start of the server, one per call. `Expire` ages an entry, `Edit`
changes a file or makes it unreadable, and `Fatal` is the Go runtime stopping the
process at a concurrent map access, which it may do or not. A panic in a handler
is recovered by `net/http` (`panicked`). A record is the set of its keys and the
set of those with a bad value; what makes a value bad is in `WebForms`. Versions
of a file differ in keys and mandatory keys. `seen` and `shared` are history
variables: what the file held during a call, and which calls overlapped another.

### WebForms

One browser with its `page`, and the collection. The page is a form (`items` is
what each entry would post), the update page, or a confirmation that keeps what
was stored or refused and the file it came from. `Default` and `Widget` are
`formEntry`: what the entry of a key shows for a value of an uploaded record, and
what can be chosen; `Select`, `Posted` and `Complete` are the browser's part
(external): a drop-down list posts its first option if none is selected, one with
`multiple` posts nothing then. `ParseValue` and `ProcessForm` turn what is posted
into a record of Go values, `Valid` is `Schema.Validate` with `ValidType` and
`ValidValue`, `Upsert` is MongoUpsert, whose `$set` merges into the document of
the dataset. A text is the sequence of its words, since lists of numbers and
listed values are split at blanks; `Words` is what texts are made of, the blank
text is the one empty word. A Go value is its type and what it says (`IsJson` for
what `json.Unmarshal` makes). A float64 is the word `%v` prints for it: `Sprint` takes
the word of a number to it, 1000000 to 1e+06, wherever a number becomes a float64
(parsed from a form, or decoded from JSON in `AsJson`). `ValidType` admits for an int64
whatever float64 is printed without a point (`Dotted`), as the code does, and `Strip` is what the
removal of brackets leaves of a word. Bounds: numbers are finite, and integers are
typed as `%d` prints them. `late` stands for every failure of insertData after the check (they are in `Ingest`).

The confirmation shows what was parsed as JSON; `UploadSaved` is a user who saves
it (`SaveRecord` of `web/js/utils.js`) and fills the next form with it, for instance
after insertData failed. A file that is kept for longer adds nothing, since a form
does not depend on the collection.

`SubmitUpdate` has the branches of `UpdateRecordHandler` that insert, and that
panic; neither is ever reached, since the page always posts `_id`, which no schema
knows.

### Search

The command line branch of `SearchHandler`. A text is a sequence of words; a
query is blank, JSON, or text split at ":". `KeyValues` is the loop of
`ParseQuery` as a recursive function; `AdjustQuery` is the treatment of keys and
values; `Holds` is MongoDB's reading of the result (external). The value of a known key
becomes a regular expression as it is: `Meta` are the words with a character that is
special there, `Matches` says what such patterns match, and MongoDB refuses
`BadPatterns` (`Rejected`). A keyword's value stays a string, so it never equals a
number in a record (`convertType` is not called). Each request to MongoDB is one step.
Other requests may store records (`Late`) while a query is on its way: `Store` is the
`$set` of MongoUpsert, which changes a document or makes one.

### SearchPage

Extends Search by the browser's branch of `SearchHandler`. `AskWeb` has the start
and the page size that a request may name (the form of the service names none);
`Count` and `GetAll` are the two requests to MongoDB, `CountFails` and `GetFails`
their errors. `Pagination` is `pagination` with the four calls of `makeURL`, and
`LastStart` its loop as a recursive function. Start and page size are any integers
whose sums do not overflow; with a page size of 0 or less the loop does not end (or not before
an int wraps around) and the request stays in the phase `hung`. `changed` is auxiliary:
the documents others stored between the count and the reading. Links of the pager are GET requests
and lead back to a blank form (`OpenSearch`).

### DataPage

One browser per user, and a goroutine for the page it has asked for (`gen`). The
page is generated form by form in the order of the files; for each form `genForm`
calls `Sections` twice, once inside `SectionKeys` and once for the order
(`pass`):

| `stage` | Code | Actions |
| --- | --- | --- |
| `sections`, `append` | `web/schema.go` 361-372, look-up and append of one section per step | `LookUp`, `AppendSection`, `SectionsDone` |
| `collect` | 388-410, the keys of each section | `Collect` |
| `place` | `web/handlers.go` 344-366, sections in the list | `Place` |
| `rest` | 367-420, the other sections and keys without one; next form or page sent | `Rest` |

`append` writes into the spare capacity of the slice in `Config` (`slots`) as long
as there is some, and into an array of its own after that. Every request starts
again with the length of the slice in `Config` (`used = 0`), so overlapping ones
write and read the same slots. A step reads or writes one slot. A form is a bag of
entries, each a key and whether the browser insists on it, so an entry that is
lost, doubled or swapped is seen; keys of the record that fills the form do not
matter here. The schemas are those loaded before (`SchemaManager` has what happens
when files change).

In the browser, `SelectBeamline` is the script of `keys.tmpl`: it hides all forms,
shows one and writes the beamline into the two upload forms. The record leaves the
page by the visible form (`SubmitForm`), by `/api` with the name from the upload
form (`UploadSpec`), or comes back filled from a file (`UploadJson`), in the order
`JsonOrder`. `SchemaFile` is `schemaFileName`, which takes the first file with the
name anywhere in its path.

### Filtering

`Keep`, the elements of a list that are in a set, in their order: the loop with
which `JsonHandler` puts the other files behind its own, and the ones with which
`formEntry` drops options. It is written with a fold, since the proofs need it.

Definitions named `X_Mistake` are not part of the model: each is the definition
after it with a plausible mistake, and is there to show that the properties can
fail.

## Runs

All bounds are in the configurations. `p1`, `p2` are directories that share one
file (`MCUnder`) or none (`MCUnderApart`).

| Run | Instance | Shows |
| --- | --- | --- |
| `fdb_sqlite` | 2 submissions, 1 reader, sqlite3, all faults | `TypeOK`, `Integrity`, `KeysExclusive`, `NoLeak`, `AllStaged`; implements `Bookkeeping` (`Books`) |
| `fdb_mysql` | 3 submissions, mysql, time-outs, failing rollbacks and commits | `AllStaged`, `CirclesShare`, `Books` |
| `ingest_sqlite` | 2 requests, 1 reader, sqlite3, crashes, faults outside the transaction's statements, MongoDB rejects or its reply is lost | `ITypeOK`, `AckedStored`, `AckedBooked`, `DocsBooked`, `WholeBooking`, `ErrorLeavesNoDoc`, `WholeAnswers`, `DocListsFiles`; implements `Deposits` (`Deposited`) |
| `ingest_live` | 2 requests, 1 reader, a pool of 2, failing statements, MongoDB rejects | `Returns`, `Answered`: every call returns, every request is answered |
| `sm` | 2 calls, overlapping or not, 1 schema, 1 edit | `SMTypeOK`, `AloneFinds`, `AcceptedKnown`, and `Verdict`: for calls that run alone, and for all calls as long as nothing was edited |
| `forms` | a schema with one key of each type, 3 JSON records, 1 dataset; forms filled from a saved record are not edited | `WTypeOK`, `StoredConforms`, `PrefillKeeps` |
| `pages` (`MCPages`) | all queries of up to 3 segments of up to 2 words and four patterns from the client, seven queries from the browser with starts from -1 to 4 and pages of -1 to 3 and of 50, 4 records, one of which may change and one be added meanwhile; then 2 users, 3 schema files, 3 configurations | `PairsParsed`, `FoundMatches`, `CountedAreShown`, `PagesFit`; `FormsProper`, `OneBeamline`, `CheckedByOwn` |

`MCPages` lets TLC go through `SearchPage` and then through `DataPage`, which share no
state; it claims nothing of their composition.

Why the bounds are enough: two submissions already meet on each kind of key, be it
whole or in part (a shared file in overlapping directories), and a third makes
room for a circle of waiting that does not close between two, and for two that wait
for the row of a third. One reader sees
every prefix of the writers. One call per process loses nothing, since a call
keeps nothing after its return; a retry is the second process with the same
arguments. The pool is smaller than the number of goroutines in the sqlite3 runs,
so that it runs dry. In SchemaManager two calls suffice for each step between two
steps of another, and two versions with overlapping keys for each mixture. In
WebForms the keys do not interact except in being stored together, so one of each
type is enough; one dataset is where all records meet, and the numbers are of each kind that `%v`
prints: with a point, without, in exponent form with and without a point. Two users meet on the slots in every way a third could repeat;
the three configurations are the kinds `Sections` tells apart: spare capacity (a
list of three decoded from JSON has room for a fourth), none, and no list. Of the
three schemas one is named inside the path of another, two have a section that is
not configured, and one a key without a section. Up to five records with pages of
1, 2, 3 and 50 give no page, one, a full last one and a partial last one.

Documented behaviour that the code does not have (each run below ends in a
counterexample; `findings` in `PROJECT.json` quotes what is contradicted):

| Run | Property | What happens |
| --- | --- | --- |
| `fdb_timeout` | `NilMeansListed` | a submission that gives up waiting for the lock is rolled back and returns nil |
| `ingest_duplicates` | `OneDocPerDataset` | overlapping upserts make two documents of one dataset |
| `sm_lost` | `LoadedIsFound` | one request resets the cache between `Load` and the look-up of another |
| `forms_prefill` | `PrefillKeeps` | a text key with listed values comes back from the form with the listed values appended |
| `search_help` | `HelpFollowed` | free text queries find every record |

`NilMeansListed` fails in two more ways that need no run of their own: with
`Driver = "mysql"` a dataset that has a row already rolls the whole submission
back, and it returns nil, since mysql's message does not say UNIQUE; and a second
did over files that are all owned already books none of them.

`HelpFollowed` has four parts, what the help of the search form says of text queries;
each of them fails when it is the INVARIANT of `search_help.cfg`:

| Part | Counterexample |
| --- | --- |
| `FreeTextFound` | a free text query, whatever its words, finds every record |
| `CombinedFound` | of `user:user 12` the value is "user 12", so the record of "user" that has 12 elsewhere is not found |
| `ExactlyFound` | `user:us.r` finds the record of "user", since the value is a regular expression |
| `ValuesKept` | of `user:test attr:test attr` only the key `user` is left, since the scan stops at the first text that equals the last |

What the search finds is right where the values are literal: `FoundMatches` and
`PairsParsed` hold for values without special characters and queries in which the last
segment's text does not come before. That all words behind the last separator are the last value is
what TestQuery2 and TestQuery3 ask for; the help of the search form tells users otherwise
(`CombinedFound`).

`PrefillKeeps` holds in `forms` because its schema has no text key with listed
values, and it is claimed for records that are `Fillable`, since one option or one
text input holds all of a list. What comes back differently from the form, with the
schemas of the repository:

* lists of several values become one text (which the API then refuses), and empty or
  blank lists the first option;
* texts lose their brackets, which `formEntry` removes for the sake of lists;
* integers that `%v` prints in exponent form (`Short` excludes them): 1000000 fills the
  form as 1e+06, which `ParseInt` refuses, and is stored as 0 if its key is optional, such
  as SampleSpaceGroup in `ID1A3.json`. An integer such as 1234567, once a form has stored it, is refused when
  its JSON is sent to the API, since 1.234567e+06 has a point;
* values of two words such as "Pilatus 100K" or "calibration sample" are refused,
  since `validDataValue` splits what a form posted at blanks;
* numbers in a list are rounded to float32, an empty list of numbers comes back as
  a list of one blank, the number 0 given for a list (which validSchemaType admits)
  as a list;
* a blank text with a default value comes back as the default value.

The API also accepts words in a list of numbers that a form refuses.
`StoredConforms` needs each value to be listed once, which does not hold for
`InsertionDevice` and `BeamlineFundingPartner` in `ID4B.json`.

What `fdb_timeout` shows has a consequence for the passing runs: `AckedBooked` and
`DocsBooked` hold only while no statement inside the transaction fails, and only
on sqlite3. What does hold whatever fails is `WholeBooking`.

What the models show about the pages, and their premises leave out, since nothing
in the repository says what should happen instead:

* `DocListsFiles` fails for a dataset that is submitted twice: the document gets
  the second did, the rows of the files keep the first, and Show files lists
  nothing.
* `FormsProper` needs a configuration that lists the sections it names and puts no
  key into a section that is not its own (`Consistent`; `web/server_test.json`
  does). Without a list, keys are repeated once per key of their section; sections
  that are not in the list have required and optional swapped in the last loop of
  `genForm`. And pages that are generated at the same time must not have sections
  of their own: with spare capacity behind `Config.SchemaSections`, two requests
  overwrite each other's sections, and keys are lost, doubled or swapped. All
  schemas of the repository keep to the configured sections.
* `CheckedByOwn` and `OneBeamline` are about beamlines whose name leads to their
  own file (`Plain`). With `ID1A3.json` before a schema `ID1A.json`, records of
  the second would be checked by the first.
* `PagesFit` is about pages that begin where one does; from any other start the
  link to the previous page may be negative. The link to the next page of the last one
  leads past the end. A page size of 0 or less hangs the request.
* `CountedAreShown`: the number in the pager and the records below it may differ by the
  documents that others stored between the two requests to MongoDB.
* The links of the pager lead to a blank form, and the first page has all records.
  A count that fails gives "No results found" above the records.

Fairness. The liveness run assumes weak fairness of each goroutine: the Go
scheduler runs a goroutine that can run, and a statement that need not wait is
executed. No fairness is assumed of arriving calls, faults or crashes. A goroutine
that waits for a connection is not starved in this run because each other
goroutine makes one call; `database/sql` serves waiters in order. It runs with sqlite3
only; that mysql ends every wait by itself is in the model (`Deadlock`), and
`CirclesShare` tells which circles it has to break. All runs check for deadlock, with a
stuttering step `Finished` for the end of all calls.

## Proofs

Every invariant that a run checks is a theorem, for every value of the constants,
and so are the two refinements. The theorems are in one module per component; their
names and the properties they state are in `PROJECT.json`. They rest on the named
assumptions of the modules, which TLC evaluates for the instances, and on the
hypotheses given here. `Basics` has what several of them need: least and greatest
numbers, induction over numbers, division, and the folds and recursive functions of
the operators (below).

| Module | Theorems | Hypotheses beyond the assumptions |
| --- | --- | --- |
| `FilesDBProofs` | `TypeOK`, `KeysExclusive`, `AllStaged`, `Integrity`, `NoLeak`, `CirclesShare`, `Books` | none: any driver, any faults |
| `IngestProofs` | `ITypeOK`, `WholeBooking`, `AckedStored`, `ErrorLeavesNoDoc` | none |
| | `WholeAnswers` | no statement fails by itself (`"exec"` is not among the faults; time-outs and crashes may be) |
| | `AckedBooked`, `DocsBooked`, `DocListsFiles`, `Deposited` | `StatementsSucceed`: sqlite3, no failing statement, no time-out |
| `SchemaManagerProofs` | `SMTypeOK`, `AloneFinds`, `AcceptedKnown`, `Verdict` | none |
| `SearchProofs` | `CountedAreShown`, `PairsParsed`, `FoundMatches`, `PagesFit` | none |
| `DataPageProofs` | `OneBeamline`, `CheckedByOwn`, `FormsProper` | none |
| `WebFormsProofs` | `WTypeOK` | none |
| | `StoredConforms` | `ListedOnce`: the schema lists each value once |
| | `PrefillKeeps` | `ListedOnce` and `PlainSchema`: listed values are single words, none are listed for texts |

The hypotheses are where the property fails without them: a statement that fails is
answered with nil (the run `fdb_timeout`), and a partial list of files with no error; a value
listed twice counts twice; the run `forms_prefill` shows the text key with listed
values. Of the schemas of the repository all but `ID4B.json` satisfy `ListedOnce`;
`ID1A3.json` and `ID3A.json` satisfy `PlainSchema` too.

FilesDB. `Integrity` and the refinement are not inductive, because a commit
applies rows inserted long before. `AllStaged` says what a transaction knows at
each point: a row it inserted is its own and not yet in the tables; a row it did
not insert is there already. This stays true while other transactions commit
because of `KeysExclusive`: nobody else holds one of its keys. `KeysExclusive` in
turn needs `AllStaged` on sqlite3, where it is the write lock (`writer = r`) that
keeps others away, and the waiting of `WaitsFor` on mysql. The inductive invariant is
`Inv == TypeOK /\ KeysExclusive /\ AllStaged`. With it a
`Commit` whose loop is done is exactly `Book(did, dataset, walk)`: each file of
the walk is in `ins` or owned already; every other step leaves the tables alone.
`Integrity` follows for the committed tables, and `NoLeak` by an induction of its
own on the connections. `CirclesShare` is about all sets of transactions at once: each takes
its keys in one order, did, dataset, then files as the walk lists them
(`AllInOrder`), so of the transactions in a circle the one that has got
furthest asks for a key of which no other in it has a row (`FurthestMeetsNone`). So it
waits for another's shared lock on that key; that one asks for the same key and waits in
the circle too, hence in the same way (`FurthestShares`): both had met a row that is
gone. On sqlite3 the writer
waits for readers only (`WriterDoesNotWait`), and there is no circle.

Ingest. Every step of the pipeline is a step of FilesDB or leaves it alone, so
`Inv` and `Integrity` carry over; `IInv` adds how the handler, the call
and the answer follow each other (`AllSequenced`). Each property has a
strengthening of its own: `FilesBelong` (a file row names a booked submission whose
walk has the file), `DocsOwn` (the did of a document is that of a request whose
`InsertFiles` returned nil) and, where statements succeed, `NilBooked` (nil means
booked). `WholeAnswers` compares what a reader got with
the files of its did now: the one SELECT of `getFiles` reads the tables between two
commits, and a later commit gives a did all its files at once and only if it had none
(`BookedAtOnce`, from `FilesBelong`), so an answer stays empty or complete. For the refinement each step maps to one step of `Deposits` or to a stutter: the
`Commit` is the `Book`, `UpsertMatch` and `UpsertCreate` are the `Deposit`; the mapping reads the
stage of a submission off `hpc`, the tables and the answers.

SchemaManager. `SInv`: an object is not put into the map before it is loaded, and
what a call holds is loaded unless the call is about to load it. `AInv`: a call that
has overlapped no other finds its entry at each step from the store to
the look-up; a reset by the call itself is followed by its own store. `KInv`: the
keys a call compares are those of one version, and the keys of the record done
so far are among them. `VInv`: when the file held one version during a call that ran
alone, or while nothing was edited, each step of `Validate` agrees with what that
version says so far (`Judges`); the counters of mandatory keys are compared as
cardinalities of finite sets, one inside the other, so equal numbers mean equal sets.

Search. `PInv`: between count and reading, what matched then and what matches now
differ only in `changed`, and the pager is that of the count. The two cardinalities are compared
as those of finite sets, one inside the union of the other with `changed`. The loop of `ParseQuery` and the last page
of `makeURL` are recursive functions; for a query of pairs the loop is followed one
pair at a time up to the last segment, with the pairs so far as the invariant.

DataPage. `DInv`: the form on the screen, the selected beamline and the name in the
upload forms belong together. `FInv` says for each user whose page is generated
without others in the way what the sections listed, the keys collected and the
entries placed so far are (`Listing`, `Looping`, `Collected`, `Placed`): sections
without repetition, each key once, as a bag. That nobody else is in the way is
`Apart`, and it is what makes the shared slots hold what this request has put there. It is
an induction over every step through the slots, which `FormsProper`, a statement about
finished pages, says nothing of.

WebForms. `WInv`: the collection has records made of Go values under their own names
(`DocsInv`); a form shows what `formEntry` made of its source until it is edited, and
everything that can be chosen is text (`FormInv`); the record a user may save from a page is made of Go values
(`ShownInv`). What a form posts becomes such values again whatever the types
(`ParsedIsMade`). `StoredConforms` then needs two facts: a valid record conforms
(`ValidConforms`), for which counting the matches of `validDataValue` must be the same as all
pieces being listed (`MatchesCount`: the matches are an injection into the pieces, and onto
exactly if all are listed), and a record merged into one that conforms gives one that
conforms. `PrefillKeeps` is proved key by key (`KeyReturns`): from the value in the file to the
default shown, the entry, what is posted, and the parsed value, for each of the six
types.

Recursive operators and inductions over data are out of the prover's reach. The models therefore
use recursive functions and the folds of the community modules, and the
proofs name the function such a definition chooses (`IsIter`, `IsFlat`, `IsUnique`, ...), show by
induction over numbers (`Counting`, from the least element of a set of numbers) that there is one, and follow
it step by step. What is proved of them holds for sequences of any length.

Only model-checked: liveness (`Returns` and `Answered`), as it needs fairness and
ENABLED; the documented behaviours that the code does not have, whose
counterexamples TLC finds.

## Not modelled

* Authentication (Kerberos, cookies, login), status page, settings, logging, TLS and
  the start of the server: external protocols and reports, no state the other parts
  depend on. The schemas loaded at the start are the initial state of
  `SchemaManager`.
* The page of schemas (`SchemasHandler`): reads the files; one that cannot be opened
  ends the process, as `Fatal` in `SchemaManager` and the crash in `Ingest` do.
* `_web.json` section files and schemas in YAML: no schema of the repository has
  them, and they lead to the same `Schema` object.
* A schema named in the URL of `/api`: always refused, and sent by no client of the
  repository.
* JavaScript other than `HideTag`, `ShowTag`, `SaveRecord` and the script of `keys.tmpl`:
  `prototype.js`, by far the longest file of the repository, and `prettify.js` are
  vendored libraries; of the rest, `FlipTag`, `ToggleTag`, `FlipRecord`,
  `deleteCookie` and `load` show or hide one element or leave the page, and the
  other functions are called by no template. None of the properties depends on them.
* The command line client, the python client, `mongotools` and the generators of
  schemas: one request or one file per run; the requests are inputs of the models.
* `Insert`, `Update`, `Remove`, `GetSorted` and `convertType`, which only tests call or
  nothing does.

## Plan

1. Done: `FilesDB` with its abstract specification and proofs; `Ingest` with
   `Deposits`; `SchemaManager`; `WebForms` with the validation of values; `Search`
   and `SearchPage`; `DataPage` with the sections of forms.
2. Done: every invariant of the runs and both refinements proved.
3. Left: to weaken hypotheses of theorems. `WholeAnswers` of a reader whose own
   query does not fail needs the faults told apart by process; `PrefillKeeps` of
   records without values of several words, for schemas that list some; two schemas
   over one dataset, whose documents `$set` merges.
