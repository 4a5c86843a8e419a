--------------------------- MODULE SchemaManager ---------------------------
(***************************************************************************)
(* The schema cache (web/schema.go) and the check of a record against it   *)
(* (insertData and validateData in web/helpers.go).  Goroutines share the  *)
(* one map of the manager and the Schema objects it holds, without a lock; *)
(* every access to either is a step.  Meanwhile entries expire and         *)
(* somebody edits the schema files.                                        *)
(***************************************************************************)
EXTENDS Naturals, FiniteSets

CONSTANTS
    Procs,       \* goroutines that run insertData, one call each
    Schemas,     \* the schema files
    Versions,    \* what a schema file may hold,
    Defs,        \* ... as [Versions -> [keys, mandatory]]
    Records,     \* the records: [keys, bad], bad being keys with a bad value
    MaxActive,   \* bound: calls in flight at once
    MaxEdits,    \* bound: edits of schema files
    None

ASSUME DefsAssumption ==
    \A v \in Versions : Defs[v].mandatory \subseteq Defs[v].keys /\ IsFiniteSet(Defs[v].keys)
ASSUME RecordsAssumption == \A r \in Records : r.bad \subseteq r.keys /\ IsFiniteSet(r.keys)
ASSUME NoneAssumption == None \notin Versions \cup Schemas \cup Procs /\ Procs \cap Schemas = {}
ASSUME NoneIsNoMap == None \notin [Schemas -> Schemas \cup Procs \cup {None}]

VARIABLES
    disk,      \* what each schema file holds; None: it cannot be parsed
    edits,     \* how often one was edited
    map,       \* SchemaManager.Map: schema -> object or None; None: the nil map
    old,       \* objects older than SchemaRenewInterval
    content,   \* Schema.Map of each object
    pc, job,   \* where each call is; its schema file and record
    stage,     \* why it loads the schema: "renew", "validate", "keys", "mandatory"
    obj,       \* the Schema object it works on
    buf,       \* what it read from the file
    keys, todo, mkeys,  \* local variables of Validate
    seen,      \* history: what the file held during the call
    shared     \* history: calls that overlapped another one

local == <<pc, job, stage, obj, buf, keys, todo, mkeys>>
history == <<seen, shared>>
vars == <<disk, edits, map, old, content, local, history>>

\* objects: one of each schema's from the start of the server, and one of
\* each call's
Objects == Schemas \cup Procs

Ended  == {"accepted", "rejected", "unreadable", "unknown", "panicked", "killed"}
Active == {p \in Procs : pc[p] \notin {"idle"} \cup Ended}
Entry(f) == IF map = None THEN None ELSE map[f]
File(p) == job[p].schema

\* The start of the server loads every schema
Init ==
    /\ disk \in [Schemas -> Versions]
    /\ edits = 0
    /\ map = [f \in Schemas |-> f]
    /\ old = {}
    /\ content = [o \in Objects |-> IF o \in Schemas THEN disk[o] ELSE None]
    /\ pc = [p \in Procs |-> "idle"]
    /\ job = [p \in Procs |-> None]
    /\ stage = [p \in Procs |-> "renew"]
    /\ obj = [p \in Procs |-> None]
    /\ buf = [p \in Procs |-> None]
    /\ keys = [p \in Procs |-> {}]
    /\ todo = [p \in Procs |-> {}]
    /\ mkeys = [p \in Procs |-> {}]
    /\ seen = [p \in Procs |-> {}]
    /\ shared = {}

Goto(p, label) == pc' = [pc EXCEPT ![p] = label]

Call(p, f, r) ==
    /\ pc[p] = "idle"
    /\ Cardinality(Active) < MaxActive
    /\ Goto(p, "check")
    /\ job' = [job EXCEPT ![p] = [schema |-> f, rec |-> r]]
    /\ seen' = [seen EXCEPT ![p] = {disk[f]}]
    /\ shared' = IF Active = {} THEN shared ELSE shared \cup Active \cup {p}
    /\ UNCHANGED <<disk, edits, map, old, content, stage, obj, buf, keys, todo, mkeys>>
----------------------------------------------------------------------------
(* SchemaManager.Load *)

CacheHit(p) ==
    /\ pc[p] = "check"
    /\ Entry(File(p)) \notin old \cup {None}
    /\ Goto(p, "find")
    /\ UNCHANGED <<disk, edits, map, old, content, job, stage, obj, buf, keys, todo, mkeys, history>>

\* a new object of its own, to be loaded
CacheMiss(p) ==
    /\ pc[p] = "check"
    /\ Entry(File(p)) \in old \cup {None}
    /\ Goto(p, "read")
    /\ stage' = [stage EXCEPT ![p] = "renew"]
    /\ obj' = [obj EXCEPT ![p] = p]
    /\ UNCHANGED <<disk, edits, map, old, content, job, buf, keys, todo, mkeys, history>>

\* the whole map is dropped and the new entry is never stored
DropExpired_NoStore(p) ==
    /\ pc[p] = "drop"
    /\ map' = None
    /\ Goto(p, "find")
    /\ UNCHANGED <<disk, edits, old, content, job, stage, obj, buf, keys, todo, mkeys, history>>

\* An expired entry resets the whole map.  The test and the reset are two
\* steps, and so are the test for nil and the new map.
TestExpired(p) ==
    /\ pc[p] = "expired"
    /\ Goto(p, IF Entry(File(p)) \in old THEN "drop" ELSE "test")
    /\ UNCHANGED <<disk, edits, map, old, content, job, stage, obj, buf, keys, todo, mkeys, history>>

DropExpired(p) ==
    /\ pc[p] = "drop"
    /\ map' = None
    /\ Goto(p, "test")
    /\ UNCHANGED <<disk, edits, old, content, job, stage, obj, buf, keys, todo, mkeys, history>>

TestNil(p) ==
    /\ pc[p] = "test"
    /\ Goto(p, IF map = None THEN "make" ELSE "store")
    /\ UNCHANGED <<disk, edits, map, old, content, job, stage, obj, buf, keys, todo, mkeys, history>>

MakeMap(p) ==
    /\ pc[p] = "make"
    /\ map' = [f \in Schemas |-> None]
    /\ Goto(p, "store")
    /\ UNCHANGED <<disk, edits, old, content, job, stage, obj, buf, keys, todo, mkeys, history>>

\* Storing into a nil map panics; net/http recovers and drops the connection
Store(p) ==
    /\ pc[p] = "store"
    /\ IF map = None
       THEN Goto(p, "panicked") /\ UNCHANGED map
       ELSE Goto(p, "find") /\ map' = [map EXCEPT ![File(p)] = p]
    /\ UNCHANGED <<disk, edits, old, content, job, stage, obj, buf, keys, todo, mkeys, history>>
----------------------------------------------------------------------------
(* Schema.Load, called from the manager and three times from Validate *)

ReadFile(p) ==
    /\ pc[p] = "read"
    /\ buf' = [buf EXCEPT ![p] = disk[File(p)]]
    /\ Goto(p, IF disk[File(p)] = None THEN "unreadable" ELSE "assign")
    /\ UNCHANGED <<disk, edits, map, old, content, job, stage, obj, keys, todo, mkeys, history>>

\* where the caller of Schema.Load goes on
Loaded(p) ==
    CASE stage[p] = "renew"     -> Goto(p, "expired") /\ UNCHANGED stage
      [] stage[p] = "validate"  -> Goto(p, "read") /\ stage' = [stage EXCEPT ![p] = "keys"]
      [] stage[p] = "keys"      -> Goto(p, "keys") /\ UNCHANGED stage
      [] stage[p] = "mandatory" -> Goto(p, "count") /\ UNCHANGED stage

\* the new object is stored without its map
AssignMap_Lost(p) ==
    /\ pc[p] = "assign"
    /\ Loaded(p)
    /\ UNCHANGED <<disk, edits, map, old, content, job, obj, buf, keys, todo, mkeys, history>>

\* Validate trusts the cached map
AssignMap_OnlyRenew(p) ==
    /\ pc[p] = "assign"
    /\ content' = IF stage[p] = "renew" THEN [content EXCEPT ![obj[p]] = buf[p]] ELSE content
    /\ Loaded(p)
    /\ UNCHANGED <<disk, edits, map, old, job, obj, buf, keys, todo, mkeys, history>>

AssignMap(p) ==
    /\ pc[p] = "assign"
    /\ content' = [content EXCEPT ![obj[p]] = buf[p]]
    /\ Loaded(p)
    /\ UNCHANGED <<disk, edits, map, old, job, obj, buf, keys, todo, mkeys, history>>
----------------------------------------------------------------------------
(* validateData and Schema.Validate; keys that every record carries *)
(* (_skipKeys) are left out of records                               *)

FindSchema(p) ==
    /\ pc[p] = "find"
    /\ LET o == Entry(File(p))
       IN  IF o = None
           THEN Goto(p, "unknown") /\ UNCHANGED <<stage, obj>>
           ELSE /\ Goto(p, "read")
                /\ stage' = [stage EXCEPT ![p] = "validate"]
                /\ obj' = [obj EXCEPT ![p] = o]
    /\ UNCHANGED <<disk, edits, map, old, content, job, buf, keys, todo, mkeys, history>>

Def(p) == Defs[content[obj[p]]]   \* s.Map as it is now

TakeKeys(p) ==
    /\ pc[p] = "keys"
    /\ keys' = [keys EXCEPT ![p] = Def(p).keys]
    /\ todo' = [todo EXCEPT ![p] = job[p].rec.keys]
    /\ Goto(p, "loop")
    /\ UNCHANGED <<disk, edits, map, old, content, job, stage, obj, buf, mkeys, history>>

\* the key is looked up in the live map only
CheckKey_Live(p, k) ==
    /\ pc[p] = "loop"
    /\ todo' = [todo EXCEPT ![p] = @ \ {k}]
    /\ LET known == k \in Def(p).keys
       IN  /\ Goto(p, IF ~known \/ k \in job[p].rec.bad THEN "rejected" ELSE "loop")
           /\ mkeys' = IF k \in Def(p).mandatory
                       THEN [mkeys EXCEPT ![p] = @ \cup {k}] ELSE mkeys
    /\ UNCHANGED <<disk, edits, map, old, content, job, stage, obj, buf, keys, history>>

\* One key of the record, in any order: it must be among the keys taken
\* before; its value is checked only if the map has the key by now
CheckKey(p, k) ==
    /\ pc[p] = "loop"
    /\ todo' = [todo EXCEPT ![p] = @ \ {k}]
    /\ LET here == k \in Def(p).keys
       IN  /\ Goto(p, IF k \notin keys[p] \/ (here /\ k \in job[p].rec.bad)
                      THEN "rejected" ELSE "loop")
           /\ mkeys' = IF k \in (keys[p] \cap Def(p).mandatory) \ job[p].rec.bad
                       THEN [mkeys EXCEPT ![p] = @ \cup {k}] ELSE mkeys
    /\ UNCHANGED <<disk, edits, map, old, content, job, stage, obj, buf, keys, history>>

LoopDone(p) ==
    /\ pc[p] = "loop" /\ todo[p] = {}
    /\ Goto(p, "read")
    /\ stage' = [stage EXCEPT ![p] = "mandatory"]
    /\ UNCHANGED <<disk, edits, map, old, content, job, obj, buf, keys, todo, mkeys, history>>

\* the check for missing keys forgotten
CountMandatory_AtMost(p) ==
    /\ pc[p] = "count"
    /\ Goto(p, IF Cardinality(mkeys[p]) <= Cardinality(Def(p).mandatory)
               THEN "accepted" ELSE "rejected")
    /\ UNCHANGED <<disk, edits, map, old, content, job, stage, obj, buf, keys, todo, mkeys, history>>

\* Only the numbers of mandatory keys are compared
CountMandatory(p) ==
    /\ pc[p] = "count"
    /\ Goto(p, IF Cardinality(mkeys[p]) = Cardinality(Def(p).mandatory)
               THEN "accepted" ELSE "rejected")
    /\ UNCHANGED <<disk, edits, map, old, content, job, stage, obj, buf, keys, todo, mkeys, history>>
----------------------------------------------------------------------------
(* What happens around the calls *)

Edit(f, v) ==
    /\ edits < MaxEdits
    /\ v # disk[f]
    /\ disk' = [disk EXCEPT ![f] = v]
    /\ edits' = edits + 1
    /\ seen' = [p \in Procs |-> IF p \in Active /\ File(p) = f THEN seen[p] \cup {v} ELSE seen[p]]
    /\ UNCHANGED <<map, old, content, local, shared>>

Expire(f) ==
    /\ Entry(f) \notin old \cup {None}
    /\ old' = old \cup {Entry(f)}
    /\ UNCHANGED <<disk, edits, map, content, local, history>>

\* Unsynchronised map accesses: the Go runtime may stop the process when one
\* of them writes, be it SchemaManager.Map or _schemaKeys (written by every
\* Schema.Load).  The server is started again once its files can be read.
MapUsers == {"check", "expired", "store", "find"}
Race(p, q) ==
    \/ pc[p] = "store" /\ pc[q] \in MapUsers
    \/ pc[p] = "assign" /\ pc[q] = "assign"

Fatal ==
    /\ \E p, q \in Procs : p # q /\ Race(p, q)
    /\ \A f \in Schemas : disk[f] # None
    /\ pc' = [p \in Procs |-> IF p \in Active THEN "killed" ELSE pc[p]]
    /\ map' = [f \in Schemas |-> f]
    /\ old' = {}
    /\ content' = [o \in Objects |-> IF o \in Schemas THEN disk[o] ELSE content[o]]
    /\ UNCHANGED <<disk, edits, job, stage, obj, buf, keys, todo, mkeys, history>>

Step(p) ==
    \/ CacheHit(p) \/ CacheMiss(p)
    \/ ReadFile(p) \/ AssignMap(p)
    \/ TestExpired(p) \/ DropExpired(p) \/ TestNil(p) \/ MakeMap(p) \/ Store(p)
    \/ FindSchema(p) \/ TakeKeys(p)
    \/ \E k \in todo[p] : CheckKey(p, k)
    \/ LoopDone(p) \/ CountMandatory(p)

Finished ==
    /\ \A p \in Procs : pc[p] \in Ended
    /\ UNCHANGED vars

Next ==
    \/ \E p \in Procs, f \in Schemas, r \in Records : Call(p, f, r)
    \/ \E p \in Procs : Step(p)
    \/ \E f \in Schemas, v \in Versions \cup {None} : Edit(f, v)
    \/ \E f \in Schemas : Expire(f)
    \/ Fatal
    \/ Finished

Spec == Init /\ [][Next]_vars
----------------------------------------------------------------------------
(* Properties *)

\* The state stays in its types; in particular a goroutine that works on a
\* schema object has one, and its Map is never nil.
SMTypeOK ==
    /\ disk \in [Schemas -> Versions \cup {None}]
    /\ map = None \/ map \in [Schemas -> Objects \cup {None}]
    /\ old \subseteq Objects
    /\ content \in [Objects -> Versions \cup {None}]
    /\ \A p \in Procs :
          /\ pc[p] \in {"idle", "check", "read", "assign", "expired", "drop", "test", "make",
                        "store", "find", "keys", "loop", "count"} \cup Ended
          /\ p \in Active => File(p) \in Schemas /\ job[p].rec \in Records
          /\ pc[p] = "assign" => obj[p] \in Objects /\ buf[p] \in Versions
          /\ pc[p] \in {"keys", "loop", "count"} => content[obj[p]] \in Versions
    /\ \A f \in Schemas : Entry(f) # None => content[Entry(f)] \in Versions

\* A record that has all and only keys of version v, with good values
Conforms(r, v) ==
    r.bad = {} /\ r.keys \subseteq Defs[v].keys /\ Defs[v].mandatory \subseteq r.keys

\* The schema that Load has just returned is found by validateData ("Schema
\* returns either cached schema map or load it from provided file"): neither
\* "No schema found" nor a panic.
LoadedIsFound == \A p \in Procs : pc[p] \notin {"unknown", "panicked"}

\* A call that overlaps no other always finds the schema it loaded, whatever
\* state earlier calls, expiry and edits have left the map in: a map that
\* was dropped or half filled mends itself.
AloneFinds == \A p \in Procs : pc[p] \in {"unknown", "panicked"} => p \in shared

\* The verdict is right: while the schema file stays the same during a call,
\* the record is accepted exactly when it conforms to the file, however old
\* the cached schema is, and whatever other calls do to the map and to the
\* schema object they share.  (An edit before the call may still come back
\* with a slower call that read the file earlier, so among overlapping calls
\* this is claimed only for files nobody has edited.)
Verdict ==
    \A p \in Procs, v \in Versions : seen[p] = {v} /\ (p \notin shared \/ edits = 0) =>
       /\ pc[p] = "accepted" => Conforms(job[p].rec, v)
       /\ pc[p] = "rejected" => ~Conforms(job[p].rec, v)

\* Even when the file is edited during the call and other calls load it into
\* the same object, an accepted record has the keys of one version.
AcceptedKnown ==
    \A p \in Procs : pc[p] = "accepted" =>
       \E v \in Versions : job[p].rec.keys \subseteq Defs[v].keys
============================================================================
