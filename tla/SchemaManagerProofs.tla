------------------------- MODULE SchemaManagerProofs -------------------------
(***************************************************************************)
(* Theorems about the schema cache, for any number of goroutines, schema   *)
(* files, versions, records and edits.                                     *)
(***************************************************************************)
EXTENDS SchemaManager, FiniteSetTheorems, TLAPS

Jobs == [schema : Schemas, rec : Records]
AnyKey == UNION ({Defs[v].keys : v \in Versions} \cup {r.keys : r \in Records})

\* the steps between the load of a new object and its place in the map
Storing == {"expired", "drop", "test", "make", "store"}

\* a call that holds a schema object
Holding(p) == pc[p] \in {"read", "assign", "keys", "loop", "count"} \cup Storing

Labels == {"idle", "check", "read", "assign", "find", "keys", "loop", "count"} \cup Storing \cup Ended

\* Every variable has its type, and a call that has begun has a job.
Typed ==
    /\ disk \in [Schemas -> Versions \cup {None}] /\ edits \in Nat
    /\ map = None \/ map \in [Schemas -> Objects \cup {None}]
    /\ old \subseteq Objects
    /\ content \in [Objects -> Versions \cup {None}]
    /\ pc \in [Procs -> Labels]
    /\ job \in [Procs -> Jobs \cup {None}]
    /\ stage \in [Procs -> {"renew", "validate", "keys", "mandatory"}]
    /\ obj \in [Procs -> Objects \cup {None}]
    /\ buf \in [Procs -> Versions \cup {None}]
    /\ keys \in [Procs -> SUBSET AnyKey]
    /\ todo \in [Procs -> SUBSET AnyKey]
    /\ mkeys \in [Procs -> SUBSET AnyKey]
    /\ seen \in [Procs -> SUBSET (Versions \cup {None})]
    /\ shared \subseteq Procs
    /\ \A p \in Procs : pc[p] # "idle" => job[p] \in Jobs

\* What a call knows about the object it holds: it was loaded before, by this
\* call or another one, unless this call is about to load it.
Holds(p) ==
    /\ Holding(p) => obj[p] \in Objects
    /\ Holding(p) /\ stage[p] = "renew" => obj[p] = p
    /\ pc[p] \in Storing => stage[p] = "renew" /\ content[p] \in Versions
    /\ pc[p] \in {"keys", "loop"} => stage[p] = "keys"
    /\ pc[p] = "count" => stage[p] = "mandatory"
    /\ pc[p] = "assign" => buf[p] \in Versions
    /\ Holding(p) /\ stage[p] # "renew" => content[obj[p]] \in Versions

\* Nothing gets into the map before it is loaded.
MapLoaded == \A f \in Schemas : Entry(f) # None => content[Entry(f)] \in Versions

SInv == Typed /\ MapLoaded /\ \A p \in Procs : Holds(p)

LEMMA EntryObject ==
    ASSUME Typed, NEW f \in Schemas
    PROVE  Entry(f) \in Objects \cup {None}
BY DEF Typed, Entry

LEMMA OthersStay ==
    ASSUME Typed, NEW p \in Procs, NEW label, Goto(p, label)
    PROVE  /\ pc'[p] = label
           /\ \A q \in Procs : q # p => pc'[q] = pc[q]
           /\ label \in Labels => pc' \in [Procs -> Labels]
BY DEF Typed, Goto

\* Where Schema.Load returns to.
LEMMA LoadedGoes ==
    ASSUME Typed, NEW p \in Procs, Loaded(p)
    PROVE  \/ stage[p] = "renew" /\ Goto(p, "expired") /\ UNCHANGED stage
           \/ stage[p] = "validate" /\ Goto(p, "read") /\ stage' = [stage EXCEPT ![p] = "keys"]
           \/ stage[p] = "keys" /\ Goto(p, "keys") /\ UNCHANGED stage
           \/ stage[p] = "mandatory" /\ Goto(p, "count") /\ UNCHANGED stage
BY DEF Typed, Loaded

LEMMA SInvInit == Init => SInv
<1> SUFFICES ASSUME Init PROVE SInv
  OBVIOUS
<1>1. Typed
  BY NoneAssumption DEF Init, Typed, Objects, Labels, Ended, Storing
<1>2. MapLoaded
  BY NoneAssumption DEF Init, MapLoaded, Entry, Objects
<1>3. \A p \in Procs : Holds(p)
  BY DEF Init, Holds, Holding, Storing
<1> QED
  BY <1>1, <1>2, <1>3 DEF SInv

LEMMA TypedStep ==
    ASSUME SInv, Next
    PROVE  Typed'
<1> USE DEF Typed, Goto, Labels, Ended, Storing, history, local
<1>0. Typed /\ MapLoaded /\ \A p \in Procs : Holds(p)
  BY DEF SInv
<1>1. ASSUME NEW p \in Procs, NEW f \in Schemas, NEW r \in Records, Call(p, f, r)
      PROVE  Typed'
  BY <1>0, <1>1 DEF Call, Jobs, Active
<1>2. ASSUME NEW p \in Procs, Step(p)
      PROVE  Typed'
  <2>1. CASE CacheHit(p)
    BY <1>0, <2>1 DEF CacheHit
  <2>2. CASE CacheMiss(p)
    BY <1>0, <2>2 DEF CacheMiss, Objects
  <2>3. CASE ReadFile(p)
    <3>1. File(p) \in Schemas
      BY <1>0, <2>3 DEF ReadFile, File, Jobs
    <3> QED
      BY <1>0, <2>3, <3>1 DEF ReadFile
  <2>4. CASE AssignMap(p)
    <3>1. content' \in [Objects -> Versions \cup {None}]
      BY <1>0, <2>4 DEF AssignMap
    <3>2. pc' \in [Procs -> Labels] /\ stage' \in [Procs -> {"renew", "validate", "keys", "mandatory"}]
          /\ \A q \in Procs : pc'[q] # "idle" => pc[q] # "idle"
      BY <1>0, <2>4, LoadedGoes DEF AssignMap
    <3>3. UNCHANGED <<disk, edits, map, old, job, obj, buf, keys, todo, mkeys, seen, shared>>
      BY <2>4 DEF AssignMap
    <3> QED
      BY <1>0, <3>1, <3>2, <3>3
  <2>5. CASE TestExpired(p)
    BY <1>0, <2>5 DEF TestExpired
  <2>6. CASE DropExpired(p)
    BY <1>0, <2>6 DEF DropExpired
  <2>7. CASE TestNil(p)
    BY <1>0, <2>7 DEF TestNil
  <2>8. CASE MakeMap(p)
    BY <1>0, <2>8 DEF MakeMap
  <2>9. CASE Store(p)
    BY <1>0, <2>9 DEF Store, Objects
  <2>10. CASE FindSchema(p)
    <3>1. Entry(File(p)) \in Objects \cup {None}
      BY <1>0, <2>10, EntryObject DEF FindSchema, File, Jobs
    <3> QED
      BY <1>0, <2>10, <3>1 DEF FindSchema
  <2>11. CASE TakeKeys(p)
    <3>1. Def(p).keys \subseteq AnyKey /\ job[p].rec.keys \subseteq AnyKey
      BY <1>0, <2>11 DEF TakeKeys, Def, Holds, Holding, AnyKey, Jobs
    <3> QED
      BY <1>0, <2>11, <3>1 DEF TakeKeys
  <2>12. ASSUME NEW k \in todo[p], CheckKey(p, k)
         PROVE  Typed'
    BY <1>0, <2>12 DEF CheckKey
  <2>13. CASE LoopDone(p)
    BY <1>0, <2>13 DEF LoopDone
  <2>14. CASE CountMandatory(p)
    BY <1>0, <2>14 DEF CountMandatory
  <2> QED
    BY <1>2, <2>1, <2>2, <2>3, <2>4, <2>5, <2>6, <2>7, <2>8, <2>9, <2>10, <2>11, <2>12, <2>13, <2>14 DEF Step
<1>3. ASSUME NEW f \in Schemas, NEW v \in Versions \cup {None}, Edit(f, v)
      PROVE  Typed'
  BY <1>0, <1>3 DEF Edit
<1>4. ASSUME NEW f \in Schemas, Expire(f)
      PROVE  Typed'
  BY <1>0, <1>4, EntryObject DEF Expire
<1>5. CASE Fatal
  BY <1>0, <1>5 DEF Fatal, Objects, Active
<1>6. CASE Finished
  BY <1>0, <1>6 DEF Finished, vars
<1> QED
  BY <1>1, <1>2, <1>3, <1>4, <1>5, <1>6 DEF Next

\* A step of a call changes its own local variables, the map and the
\* contents of one object.
LEMMA Frame ==
    ASSUME Typed, NEW p \in Procs, Step(p)
    PROVE  /\ UNCHANGED <<disk, edits, old, job, seen, shared>>
           /\ pc[p] \notin {"idle"} \cup Ended
           /\ \A q \in Procs \ {p} :
                 /\ pc'[q] = pc[q] /\ stage'[q] = stage[q] /\ obj'[q] = obj[q] /\ buf'[q] = buf[q]
                 /\ keys'[q] = keys[q] /\ todo'[q] = todo[q] /\ mkeys'[q] = mkeys[q]
<1> USE DEF Typed, Goto, history, Ended
<1>1. CASE CacheHit(p) \/ CacheMiss(p) \/ ReadFile(p)
  BY <1>1 DEF CacheHit, CacheMiss, ReadFile
<1>2. CASE AssignMap(p)
  BY <1>2, LoadedGoes DEF AssignMap
<1>3. CASE TestExpired(p) \/ DropExpired(p) \/ TestNil(p) \/ MakeMap(p) \/ Store(p)
  BY <1>3 DEF TestExpired, DropExpired, TestNil, MakeMap, Store
<1>4. CASE FindSchema(p)
  BY <1>4 DEF FindSchema
<1>5. CASE TakeKeys(p) \/ LoopDone(p) \/ CountMandatory(p)
  BY <1>5 DEF TakeKeys, LoopDone, CountMandatory
<1>6. ASSUME NEW k \in todo[p], CheckKey(p, k)
      PROVE  /\ UNCHANGED <<disk, edits, old, job, seen, shared>>
             /\ pc[p] \notin {"idle"} \cup Ended
             /\ \A q \in Procs \ {p} :
                   /\ pc'[q] = pc[q] /\ stage'[q] = stage[q] /\ obj'[q] = obj[q] /\ buf'[q] = buf[q]
                   /\ keys'[q] = keys[q] /\ todo'[q] = todo[q] /\ mkeys'[q] = mkeys[q]
  BY <1>6 DEF CheckKey
<1> QED
  BY <1>1, <1>2, <1>3, <1>4, <1>5, <1>6 DEF Step

\* The map and the contents change in these steps only.
LEMMA SharedFrame ==
    ASSUME Typed, NEW p \in Procs, Step(p)
    PROVE  /\ content' = content \/ AssignMap(p)
           /\ map' = map \/ DropExpired(p) \/ MakeMap(p) \/ Store(p)
BY DEF Step, CacheHit, CacheMiss, ReadFile, AssignMap, TestExpired, TestNil, DropExpired, MakeMap, Store,
       FindSchema, TakeKeys, CheckKey, LoopDone, CountMandatory

\* Only a call that stores its object adds an entry to the map.
LEMMA EntryStep ==
    ASSUME Typed, NEW p \in Procs, Step(p), NEW f \in Schemas
    PROVE  \/ Entry(f)' \in {Entry(f), None}
           \/ Store(p) /\ map # None /\ File(p) = f /\ Entry(f)' = p
<1>1. CASE map' = map \/ DropExpired(p) \/ MakeMap(p)
  BY <1>1 DEF Entry, DropExpired, MakeMap
<1>2. CASE Store(p)
  BY <1>2 DEF Entry, Store, Typed
<1> QED
  BY <1>1, <1>2, SharedFrame

\* An object that was loaded once stays loaded.
LEMMA StaysLoaded ==
    ASSUME SInv, Next, NEW o \in Objects, content[o] \in Versions
    PROVE  content'[o] \in Versions
<1>1. Typed /\ \A p \in Procs : Holds(p)
  BY DEF SInv
<1>2. ASSUME NEW p \in Procs, Step(p)
      PROVE  content'[o] \in Versions
  <2>1. CASE AssignMap(p)
    BY <1>1, <2>1 DEF AssignMap, Typed, Holds
  <2> QED
    BY <1>1, <1>2, <2>1, SharedFrame
<1>3. CASE Fatal
  BY <1>1, <1>3, NoneAssumption DEF Fatal, Typed
<1>4. CASE UNCHANGED content
  BY <1>4
<1> QED
  BY <1>2, <1>3, <1>4 DEF Next, Call, Edit, Expire, Finished, vars, local

LEMMA MapLoadedStep ==
    ASSUME SInv, Next
    PROVE  MapLoaded'
<1> SUFFICES ASSUME NEW f \in Schemas, Entry(f)' # None
             PROVE  content'[Entry(f)'] \in Versions
  BY DEF MapLoaded
<1>1. Typed /\ MapLoaded /\ \A p \in Procs : Holds(p)
  BY DEF SInv
<1>2. Entry(f) \in Objects \cup {None}
  BY <1>1, EntryObject
<1>3. ASSUME Entry(f)' \in {Entry(f), None}
      PROVE  content'[Entry(f)'] \in Versions
  BY <1>1, <1>2, <1>3, StaysLoaded DEF MapLoaded
<1>4. ASSUME NEW p \in Procs, Step(p)
      PROVE  content'[Entry(f)'] \in Versions
  <2>1. CASE Store(p) /\ Entry(f)' = p
    <3>1. content[p] \in Versions /\ p \in Objects
      BY <1>1, <2>1 DEF Store, Holds, Storing, Objects
    <3> QED
      BY <2>1, <3>1, StaysLoaded
  <2> QED
    BY <1>1, <1>3, <1>4, <2>1, EntryStep
<1>5. CASE Fatal
  BY <1>1, <1>5, NoneAssumption DEF Fatal, Entry, Objects, Typed
<1>6. CASE UNCHANGED map
  BY <1>3, <1>6 DEF Entry
<1> QED
  BY <1>4, <1>5, <1>6 DEF Next, Call, Edit, Expire, Finished, vars

LEMMA HoldsStep ==
    ASSUME SInv, Next, NEW q \in Procs
    PROVE  Holds(q)'
<1> USE DEF Holds, Holding, Storing, Goto
<1>1. Typed /\ MapLoaded /\ Holds(q)
  BY DEF SInv
<1>2. \A o \in Objects : content[o] \in Versions => content'[o] \in Versions
  BY StaysLoaded
<1>3. ASSUME pc'[q] = pc[q], stage'[q] = stage[q], obj'[q] = obj[q], buf'[q] = buf[q]
      PROVE  Holds(q)'
  BY <1>1, <1>2, <1>3 DEF Objects
<1>4. ASSUME Step(q)
      PROVE  Holds(q)'
  <2> USE DEF Typed
  <2>1. CASE CacheHit(q)
    BY <1>1, <2>1 DEF CacheHit
  <2>2. CASE CacheMiss(q)
    BY <1>1, <2>2 DEF CacheMiss, Objects
  <2>3. CASE ReadFile(q)
    <3>1. disk[File(q)] \in Versions \cup {None}
      BY <1>1, <2>3 DEF ReadFile, File, Jobs
    <3> QED
      BY <1>1, <2>3, <3>1 DEF ReadFile, Ended
  <2>4. CASE AssignMap(q)
    <3>1. content'[obj[q]] = buf[q] /\ buf[q] \in Versions /\ obj[q] \in Objects /\ UNCHANGED <<obj, buf>>
      BY <1>1, <2>4 DEF AssignMap
    <3> QED
      BY <1>1, <2>4, <3>1, LoadedGoes DEF AssignMap
  <2>5. CASE TestExpired(q) \/ DropExpired(q) \/ TestNil(q) \/ MakeMap(q) \/ Store(q)
    BY <1>1, <2>5 DEF TestExpired, DropExpired, TestNil, MakeMap, Store, Objects
  <2>6. CASE FindSchema(q)
    <3>1. File(q) \in Schemas
      BY <1>1, <2>6 DEF FindSchema, File, Jobs
    <3>2. Entry(File(q)) # None => Entry(File(q)) \in Objects /\ content[Entry(File(q))] \in Versions
      BY <1>1, <3>1, EntryObject DEF MapLoaded
    <3> QED
      BY <1>1, <2>6, <3>2 DEF FindSchema
  <2>7. CASE TakeKeys(q)
    BY <1>1, <2>7 DEF TakeKeys
  <2>8. ASSUME NEW k \in todo[q], CheckKey(q, k)
        PROVE  Holds(q)'
    BY <1>1, <2>8 DEF CheckKey
  <2>9. CASE LoopDone(q) \/ CountMandatory(q)
    BY <1>1, <2>9 DEF LoopDone, CountMandatory
  <2> QED
    BY <1>4, <2>1, <2>2, <2>3, <2>4, <2>5, <2>6, <2>7, <2>8, <2>9 DEF Step
<1>5. ASSUME NEW p \in Procs, Step(p), p # q
      PROVE  Holds(q)'
  BY <1>1, <1>3, <1>5, Frame
<1>6. ASSUME NEW p \in Procs, NEW f \in Schemas, NEW r \in Records, Call(p, f, r)
      PROVE  Holds(q)'
  BY <1>1, <1>3, <1>6 DEF Call, Typed
<1>7. CASE Fatal
  <2>1. CASE q \in Active
    BY <1>1, <1>7, <2>1 DEF Fatal, Typed
  <2>2. CASE q \notin Active
    BY <1>1, <1>3, <1>7, <2>2 DEF Fatal, Typed
  <2> QED
    BY <2>1, <2>2
<1>8. CASE UNCHANGED local
  BY <1>3, <1>8 DEF local
<1> QED
  BY <1>4, <1>5, <1>6, <1>7, <1>8 DEF Next, Edit, Expire, Finished, vars

LEMMA SInvStep ==
    ASSUME SInv, [Next]_vars
    PROVE  SInv'
<1>1. CASE Next
  BY <1>1, TypedStep, MapLoadedStep, HoldsStep DEF SInv
<1>2. CASE UNCHANGED vars
  BY <1>2 DEF vars, local, history, SInv, Typed, MapLoaded, Entry, Holds, Holding, Objects
<1> QED
  BY <1>1, <1>2

\* The types of the schema cache, with the calls that hold an object and the
\* entries of the map: no call works on an object before it is loaded.
THEOREM CacheInvariance == Spec => []SInv
BY SInvInit, SInvStep, PTL DEF Spec

\* The state keeps its types: a goroutine that works on a schema object has
\* one, and its Map is never nil.
THEOREM CacheTypes == Spec => []SMTypeOK
<1>1. SInv => SMTypeOK
  BY DEF SInv, Typed, MapLoaded, Holds, Holding, Storing, SMTypeOK, Labels, Active, Jobs, File, Ended
<1> QED
  BY <1>1, CacheInvariance, PTL
----------------------------------------------------------------------------
(* A call that overlaps no other *)

Overlap == \A p, q \in Active : p # q => p \in shared

Alone(p) ==
    /\ pc[p] = "find" => Entry(File(p)) # None
    /\ pc[p] = "store" => map # None
    /\ pc[p] \notin {"unknown", "panicked"}

AInv == Overlap /\ \A p \in Procs \ shared : Alone(p)

\* Only Call makes a call active, and it notes every overlap.
LEMMA ActiveStep ==
    ASSUME Typed, Next
    PROVE  \/ Active' \subseteq Active /\ shared' = shared
           \/ \E p \in Procs, f \in Schemas, r \in Records : Call(p, f, r) /\ Active' = Active \cup {p}
<1>1. ASSUME NEW p \in Procs, Step(p)
      PROVE  Active' \subseteq Active /\ shared' = shared
  BY <1>1, Frame DEF Active
<1>2. ASSUME NEW p \in Procs, NEW f \in Schemas, NEW r \in Records, Call(p, f, r)
      PROVE  Active' = Active \cup {p}
  BY <1>2 DEF Call, Goto, Typed, Active, Ended
<1>3. CASE Fatal
  BY <1>3 DEF Fatal, Active, history, Typed, Ended
<1>4. CASE UNCHANGED <<pc, shared>>
  BY <1>4 DEF Active
<1> QED
  BY <1>1, <1>2, <1>3, <1>4 DEF Next, Edit, Expire, Finished, vars, local, history

LEMMA OverlapStep ==
    ASSUME Typed, Overlap, Next
    PROVE  Overlap'
<1>1. CASE Active' \subseteq Active /\ shared' = shared
  BY <1>1 DEF Overlap
<1>2. ASSUME NEW p \in Procs, NEW f \in Schemas, NEW r \in Records, Call(p, f, r), Active' = Active \cup {p}
      PROVE  Overlap'
  BY <1>2 DEF Overlap, Call
<1> QED
  BY <1>1, <1>2, ActiveStep

\* Nobody else moves during a call that overlaps no other.
LEMMA OthersRest ==
    ASSUME Typed, Overlap, NEW q \in Active \ shared, NEW p \in Procs, Step(p)
    PROVE  p = q
BY Frame DEF Overlap, Active

LEMMA AloneStep ==
    ASSUME SInv, AInv, Next, NEW q \in Procs \ shared'
    PROVE  Alone(q)'
<1>1. Typed /\ Holds(q) /\ Overlap
  BY DEF SInv, AInv
<1>2. q \notin shared /\ Alone(q)
  <2>1. shared \subseteq shared'
    BY <1>1, ActiveStep DEF Call
  <2> QED
    BY <2>1 DEF AInv
<1>3. CASE Step(q)
  <2> USE DEF Alone, Goto, Typed
  <2>1. CASE CacheHit(q)
    BY <1>1, <2>1 DEF CacheHit, Entry, File
  <2>2. CASE CacheMiss(q) \/ ReadFile(q)
    BY <1>1, <2>2 DEF CacheMiss, ReadFile
  <2>3. CASE AssignMap(q)
    BY <1>1, <2>3, LoadedGoes DEF AssignMap
  <2>4. CASE TestExpired(q) \/ DropExpired(q) \/ TestNil(q)
    BY <1>1, <2>4 DEF TestExpired, DropExpired, TestNil
  <2>5. CASE MakeMap(q)
    BY <1>1, <2>5, NoneIsNoMap DEF MakeMap
  <2>6. CASE Store(q)
    <3>1. map # None /\ File(q) \in Schemas
      BY <1>1, <1>2, <2>6 DEF Store, File, Jobs
    <3>2. Entry(File(q))' = q
      BY <1>1, <2>6, <3>1, NoneIsNoMap DEF Store, Entry, File, Objects
    <3> QED
      BY <1>1, <2>6, <3>1, <3>2, NoneAssumption DEF Store
  <2>7. CASE FindSchema(q)
    BY <1>1, <1>2, <2>7 DEF FindSchema
  <2>8. CASE TakeKeys(q) \/ LoopDone(q) \/ CountMandatory(q)
    BY <1>1, <2>8 DEF TakeKeys, LoopDone, CountMandatory
  <2>9. ASSUME NEW k \in todo[q], CheckKey(q, k)
        PROVE  Alone(q)'
    BY <1>1, <2>9 DEF CheckKey
  <2> QED
    BY <1>3, <2>1, <2>2, <2>3, <2>4, <2>5, <2>6, <2>7, <2>8, <2>9 DEF Step
<1>4. ASSUME NEW p \in Procs, Step(p), p # q
      PROVE  Alone(q)'
  BY <1>1, <1>2, <1>4, Frame, OthersRest DEF Alone, Active, Ended
<1>5. ASSUME NEW p \in Procs, NEW f \in Schemas, NEW r \in Records, Call(p, f, r)
      PROVE  Alone(q)'
  BY <1>1, <1>2, <1>5 DEF Call, Goto, Typed, Alone, Entry, File
<1>6. CASE Fatal
  BY <1>1, <1>2, <1>6 DEF Fatal, Typed, Alone, Active, Ended
<1>7. CASE UNCHANGED <<map, pc, job>>
  BY <1>2, <1>7 DEF Alone, Entry, File
<1> QED
  BY <1>3, <1>4, <1>5, <1>6, <1>7 DEF Next, Edit, Expire, Finished, vars, local

LEMMA AInvStep ==
    ASSUME SInv, AInv, [Next]_vars
    PROVE  AInv'
<1>1. CASE Next
  BY <1>1, OverlapStep, AloneStep DEF SInv, AInv
<1>2. CASE UNCHANGED vars
  BY <1>2 DEF vars, local, history, AInv, Overlap, Active, Alone, Entry, File
<1> QED
  BY <1>1, <1>2

LEMMA AInvAlways == Spec => []AInv
<1>1. Init => AInv
  BY DEF Init, AInv, Overlap, Active, Alone
<1> QED
  BY <1>1, AInvStep, CacheInvariance, PTL DEF Spec

\* A call that overlaps no other always finds the schema it loaded, whatever
\* state earlier calls, expiry and edits have left the map in: a map that was
\* dropped or half filled mends itself.
THEOREM AloneAlwaysFinds == Spec => []AloneFinds
<1>1. AInv => AloneFinds
  BY DEF AInv, Alone, AloneFinds
<1> QED
  BY <1>1, AInvAlways, PTL
----------------------------------------------------------------------------
(* What the keys of the record have been compared with *)

\* a call that has taken the keys of the schema, until it accepts
Looped(p) ==
    \/ pc[p] \in {"loop", "count", "accepted"}
    \/ pc[p] \in {"read", "assign"} /\ stage[p] = "mandatory"

\* The keys are those of one version, and the record's keys done so far are
\* among them; after the loop none is left.
Compared(p) ==
    Looped(p) =>
       /\ \E v \in Versions : keys[p] = Defs[v].keys
       /\ job[p].rec.keys \ todo[p] \subseteq keys[p]
       /\ pc[p] # "loop" => todo[p] = {}

KInv == \A p \in Procs : Compared(p)

LEMMA ComparedStep ==
    ASSUME SInv, Next, NEW q \in Procs, Compared(q)
    PROVE  Compared(q)'
<1>1. Typed /\ Holds(q)
  BY DEF SInv
<1>2. ASSUME pc'[q] = pc[q], stage'[q] = stage[q], job'[q] = job[q], keys'[q] = keys[q], todo'[q] = todo[q]
      PROVE  Compared(q)'
  BY <1>2 DEF Compared, Looped
<1>3. CASE Step(q)
  <2> USE DEF Compared, Looped, Goto, Typed, Ended
  <2>1. CASE CacheHit(q) \/ CacheMiss(q) \/ FindSchema(q)
    BY <1>1, <2>1 DEF CacheHit, CacheMiss, FindSchema
  <2>2. CASE ReadFile(q)
    BY <1>1, <2>2 DEF ReadFile
  <2>3. CASE AssignMap(q)
    BY <1>1, <2>3, LoadedGoes DEF AssignMap
  <2>4. CASE TestExpired(q) \/ DropExpired(q) \/ TestNil(q) \/ MakeMap(q) \/ Store(q)
    BY <1>1, <2>4 DEF TestExpired, DropExpired, TestNil, MakeMap, Store
  <2>5. CASE TakeKeys(q)
    <3>1. content[obj[q]] \in Versions
      BY <1>1, <2>5 DEF TakeKeys, Holds, Holding
    <3> QED
      BY <1>1, <2>5, <3>1, Frame, <1>3 DEF TakeKeys, Def
  <2>6. ASSUME NEW k \in todo[q], CheckKey(q, k)
        PROVE  Compared(q)'
    BY <1>1, <2>6 DEF CheckKey
  <2>7. CASE LoopDone(q) \/ CountMandatory(q)
    BY <1>1, <2>7 DEF LoopDone, CountMandatory, Holds
  <2> QED
    BY <1>3, <2>1, <2>2, <2>3, <2>4, <2>5, <2>6, <2>7 DEF Step
<1>4. ASSUME NEW p \in Procs, Step(p), p # q
      PROVE  Compared(q)'
  BY <1>1, <1>2, <1>4, Frame
<1>5. ASSUME NEW p \in Procs, NEW f \in Schemas, NEW r \in Records, Call(p, f, r)
      PROVE  Compared(q)'
  <2>1. CASE p = q
    BY <1>1, <1>5, <2>1 DEF Call, Goto, Typed, Compared, Looped
  <2>2. CASE p # q
    BY <1>1, <1>2, <1>5, <2>2 DEF Call, Goto, Typed
  <2> QED
    BY <2>1, <2>2
<1>6. CASE Fatal
  <2>1. CASE q \in Active
    BY <1>1, <1>6, <2>1 DEF Fatal, Typed, Compared, Looped
  <2>2. CASE q \notin Active
    BY <1>1, <1>2, <1>6, <2>2 DEF Fatal, Typed
  <2> QED
    BY <2>1, <2>2
<1>7. CASE UNCHANGED local
  BY <1>2, <1>7 DEF local
<1> QED
  BY <1>3, <1>4, <1>5, <1>6, <1>7 DEF Next, Edit, Expire, Finished, vars

LEMMA KInvStep ==
    ASSUME SInv, KInv, [Next]_vars
    PROVE  KInv'
<1>1. CASE Next
  BY <1>1, ComparedStep DEF KInv
<1>2. CASE UNCHANGED vars
  BY <1>2 DEF vars, local, KInv, Compared, Looped
<1> QED
  BY <1>1, <1>2

LEMMA KInvAlways == Spec => []KInv
<1>1. Init => KInv
  BY DEF Init, KInv, Compared, Looped
<1> QED
  BY <1>1, KInvStep, CacheInvariance, PTL DEF Spec

\* An accepted record has the keys of one version, even when the file is
\* edited during the call and other calls load it into the same object.
THEOREM AcceptedKeysAreKnown == Spec => []AcceptedKnown
<1>1. KInv => AcceptedKnown
  BY DEF KInv, Compared, Looped, AcceptedKnown
<1> QED
  BY <1>1, KInvAlways, PTL
----------------------------------------------------------------------------
(* The verdict *)

\* the schema file an object belongs to
Owner(o) == IF o \in Schemas THEN o ELSE File(o)
Begun(o) == o \in Procs => pc[o] # "idle"

\* Calls and the map use the objects of their own schema file only.
Owned ==
    /\ \A p \in Procs : Holding(p) => Owner(obj[p]) = File(p) /\ Begun(obj[p])
    /\ \A f \in Schemas : Entry(f) # None => Owner(Entry(f)) = f /\ Begun(Entry(f))

\* As long as no file was edited an object that is loaded holds its file.
Unedited ==
    /\ \A p \in Procs : pc[p] = "idle" => content[p] = None
    /\ edits = 0 =>
          /\ \A o \in Objects : Begun(o) /\ content[o] # None => content[o] = disk[Owner(o)]
          /\ \A p \in Procs : pc[p] = "assign" => buf[p] = disk[File(p)]

\* The history of a call ends with what its file holds now.
Watched == \A p \in Active : disk[File(p)] \in seen[p]

\* a call nobody can disturb
Settled(p) == p \notin shared \/ edits = 0

\* a call of Validate that has loaded the file
Validating(p) ==
    \/ pc[p] \in {"keys", "loop", "count"}
    \/ pc[p] \in {"read", "assign"} /\ stage[p] \in {"keys", "mandatory"}

Judges(p, v) ==
    LET r == job[p].rec IN
    /\ pc[p] = "assign" => buf[p] = v
    /\ Validating(p) => content[obj[p]] = v
    /\ Looped(p) => /\ keys[p] = Defs[v].keys
                    /\ todo[p] \subseteq r.keys
                    /\ r.keys \ todo[p] \subseteq Defs[v].keys \ r.bad
                    /\ mkeys[p] = (r.keys \ todo[p]) \cap Defs[v].mandatory
    /\ pc[p] = "accepted" => Conforms(r, v)
    /\ pc[p] = "rejected" => ~Conforms(r, v)

Judged == \A p \in Procs, v \in Versions : seen[p] = {v} /\ Settled(p) => Judges(p, v)

\* No mandatory key is found before the loop.
NoneFound == \A p \in Procs : pc[p] \notin Ended /\ ~Looped(p) => mkeys[p] = {}

VInv == Owned /\ Unedited /\ Watched /\ NoneFound /\ Judged

LEMMA OwnerStays ==
    ASSUME Typed, Next, NEW o \in Objects, Begun(o)
    PROVE  Owner(o)' = Owner(o) /\ Begun(o)'
<1>1. ASSUME NEW p \in Procs, Step(p)
      PROVE  job' = job /\ \A q \in Procs : pc[q] # "idle" => pc'[q] # "idle"
  <2>1. job' = job /\ \A q \in Procs \ {p} : pc'[q] = pc[q]
    BY <1>1, Frame
  <2>2. pc'[p] # "idle"
    BY <1>1, LoadedGoes DEF Step, CacheHit, CacheMiss, ReadFile, AssignMap, TestExpired, TestNil,
          DropExpired, MakeMap, Store, FindSchema, TakeKeys, CheckKey, LoopDone, CountMandatory, Goto, Typed
  <2> QED
    BY <2>1, <2>2
<1>2. ASSUME NEW p \in Procs, NEW f \in Schemas, NEW r \in Records, Call(p, f, r)
      PROVE  Owner(o)' = Owner(o) /\ Begun(o)'
  BY <1>2 DEF Call, Goto, Typed, Owner, File, Begun, Objects
<1>3. CASE Fatal
  BY <1>3 DEF Fatal, Typed, Owner, File, Begun, Objects
<1> QED
  BY <1>1, <1>2, <1>3 DEF Next, Edit, Expire, Finished, vars, local, Owner, File, Begun, Objects

LEMMA OwnedCallStep ==
    ASSUME SInv, Owned, Next, NEW q \in Procs, Holding(q)'
    PROVE  Owner(obj[q])' = File(q)' /\ Begun(obj[q])'
<1>1. Typed /\ Holds(q)
  BY DEF SInv
<1>2. ASSUME Holding(q), UNCHANGED <<obj[q], job[q]>>
      PROVE  Owner(obj[q])' = File(q)' /\ Begun(obj[q])'
  <2> DEFINE o == obj[q]
  <2>1. o \in Objects /\ Owner(o) = File(q) /\ Begun(o)
    BY <1>1, <1>2 DEF Holds, Owned
  <2>2. ASSUME NEW x \in Objects, x = o
        PROVE  Owner(x)' = File(q) /\ Begun(x)'
    BY <1>1, <2>1, <2>2, OwnerStays
  <2> QED
    BY <1>2, <2>1, <2>2 DEF Owner, Begun, File
<1>3. CASE Step(q)
  <2> USE DEF Typed, Goto, Holding, Storing
  <2>1. CASE CacheMiss(q)
    BY <1>1, <2>1, NoneAssumption DEF CacheMiss, Owner, File, Begun
  <2>2. CASE FindSchema(q)
    <3> DEFINE o == Entry(File(q))
    <3>1. o # None /\ obj'[q] = o /\ job' = job
      BY <1>1, <2>2 DEF FindSchema, Ended
    <3>2. o \in Objects /\ Owner(o) = File(q) /\ Begun(o)
      BY <1>1, <2>2, <3>1, EntryObject DEF FindSchema, Owned, File, Jobs
    <3>3. ASSUME NEW x \in Objects, x = o
          PROVE  Owner(x)' = File(q) /\ Begun(x)'
      BY <1>1, <3>2, <3>3, OwnerStays
    <3> QED
      BY <3>1, <3>2, <3>3 DEF Owner, Begun, File
  <2>3. CASE CacheHit(q)
    BY <1>1, <2>3 DEF CacheHit
  <2>4. CASE ReadFile(q) \/ AssignMap(q)
    BY <1>1, <1>2, <2>4 DEF ReadFile, AssignMap
  <2>5. CASE TestExpired(q) \/ DropExpired(q) \/ TestNil(q) \/ MakeMap(q) \/ Store(q)
    BY <1>1, <1>2, <2>5 DEF TestExpired, DropExpired, TestNil, MakeMap, Store
  <2>6. CASE TakeKeys(q) \/ LoopDone(q) \/ CountMandatory(q)
    BY <1>1, <1>2, <2>6 DEF TakeKeys, LoopDone, CountMandatory
  <2>7. ASSUME NEW k \in todo[q], CheckKey(q, k)
        PROVE  Owner(obj[q])' = File(q)' /\ Begun(obj[q])'
    BY <1>1, <1>2, <2>7 DEF CheckKey
  <2> QED
    BY <1>3, <2>1, <2>2, <2>3, <2>4, <2>5, <2>6, <2>7 DEF Step
<1>4. ASSUME NEW p \in Procs, Step(p), p # q
      PROVE  Owner(obj[q])' = File(q)' /\ Begun(obj[q])'
  BY <1>1, <1>2, <1>4, Frame DEF Holding
<1>5. ASSUME NEW p \in Procs, NEW f \in Schemas, NEW r \in Records, Call(p, f, r)
      PROVE  Owner(obj[q])' = File(q)' /\ Begun(obj[q])'
  BY <1>1, <1>2, <1>5 DEF Call, Goto, Typed, Holding, Storing
<1>6. CASE Fatal
  BY <1>1, <1>2, <1>6 DEF Fatal, Typed, Holding, Storing
<1>7. CASE UNCHANGED local
  BY <1>2, <1>7 DEF local, Holding
<1> QED
  BY <1>3, <1>4, <1>5, <1>6, <1>7 DEF Next, Edit, Expire, Finished, vars

LEMMA OwnedEntryStep ==
    ASSUME SInv, Owned, Next, NEW f \in Schemas, Entry(f)' # None
    PROVE  Owner(Entry(f))' = f /\ Begun(Entry(f))'
<1>1. Typed
  BY DEF SInv
<1>2. ASSUME Entry(f)' = Entry(f)
      PROVE  Owner(Entry(f))' = f /\ Begun(Entry(f))'
  <2>1. Entry(f) \in Objects /\ Owner(Entry(f)) = f /\ Begun(Entry(f))
    BY <1>1, <1>2, EntryObject DEF Owned
  <2>2. ASSUME NEW x \in Objects, x = Entry(f)
        PROVE  Owner(x)' = f /\ Begun(x)'
    BY <1>1, <2>1, <2>2, OwnerStays
  <2> QED
    BY <1>2, <2>1, <2>2 DEF Owner, Begun, File
<1>3. ASSUME NEW p \in Procs, Step(p)
      PROVE  Owner(Entry(f))' = f /\ Begun(Entry(f))'
  <2>1. CASE Store(p) /\ File(p) = f /\ Entry(f)' = p
    <3>1. Owner(p) = f /\ Begun(p) /\ p \in Objects
      BY <1>1, <2>1, NoneAssumption DEF Store, Owner, Begun, Objects
    <3>2. Owner(p)' = f /\ Begun(p)'
      BY <1>1, <3>1, OwnerStays
    <3> QED
      BY <2>1, <3>2 DEF Owner, Begun, File
  <2> QED
    BY <1>1, <1>2, <1>3, <2>1, EntryStep
<1>4. CASE Fatal
  BY <1>1, <1>4, NoneAssumption, NoneIsNoMap DEF Fatal, Entry, Owner, Begun, Objects
<1>5. CASE UNCHANGED map
  BY <1>2, <1>5 DEF Entry
<1> QED
  BY <1>3, <1>4, <1>5 DEF Next, Call, Edit, Expire, Finished, vars

LEMMA OwnedStep ==
    ASSUME SInv, Owned, Next
    PROVE  Owned'
BY OwnedCallStep, OwnedEntryStep DEF Owned

LEMMA UneditedStep ==
    ASSUME SInv, Owned, Unedited, Next
    PROVE  Unedited'
<1>1. Typed /\ \A p \in Procs : Holds(p)
  BY DEF SInv
<1>2. ASSUME NEW q \in Procs, pc'[q] = "idle"
      PROVE  content'[q] = None
  <2>1. pc[q] = "idle" /\ q \in Objects
    <3>1. Begun(q) => Begun(q)'
      BY <1>1, OwnerStays DEF Objects
    <3> QED
      BY <1>2, <3>1 DEF Begun, Objects
  <2>2. content[q] = None
    BY <2>1 DEF Unedited
  <2>3. ASSUME NEW p \in Procs, AssignMap(p)
        PROVE  content'[q] = None
    <3>1. obj[p] # q
      BY <1>1, <2>1, <2>3 DEF AssignMap, Holding, Owned, Begun
    <3> QED
      BY <1>1, <2>2, <2>3, <3>1, <2>1 DEF AssignMap, Typed
  <2>4. CASE Fatal
    BY <2>1, <2>2, <2>4, NoneAssumption DEF Fatal
  <2> QED
    BY <1>1, <2>2, <2>3, <2>4, SharedFrame DEF Next, Call, Edit, Expire, Finished, vars, local
<1>3. SUFFICES ASSUME edits' = 0
               PROVE  /\ \A o \in Objects : Begun(o)' /\ content'[o] # None => content'[o] = disk'[Owner(o)']
                      /\ \A p \in Procs : pc'[p] = "assign" => buf'[p] = disk'[File(p)']
  BY <1>2 DEF Unedited
<1>4. edits = 0 /\ disk' = disk
  <2>1. ASSUME NEW f \in Schemas, NEW v \in Versions \cup {None}, Edit(f, v)
        PROVE  FALSE
    BY <1>1, <1>3, <2>1 DEF Edit, Typed
  <2> QED
    BY <1>1, <1>3, <2>1, Frame DEF Next, Call, Expire, Fatal, Finished, vars
<1>5. ASSUME NEW p \in Procs, pc'[p] = "assign"
      PROVE  buf'[p] = disk'[File(p)']
  <2>1. ASSUME pc[p] = "assign", buf'[p] = buf[p], File(p)' = File(p)
        PROVE  buf'[p] = disk'[File(p)']
    BY <1>4, <2>1 DEF Unedited
  <2>2. CASE Step(p)
    <3> USE DEF Typed, Goto
    <3>1. CASE ReadFile(p)
      BY <1>1, <1>4, <3>1 DEF ReadFile, File
    <3>2. CASE AssignMap(p)
      BY <1>1, <1>5, <3>2, LoadedGoes DEF AssignMap
    <3>3. CASE CacheHit(p) \/ CacheMiss(p) \/ FindSchema(p)
      BY <1>1, <1>5, <3>3 DEF CacheHit, CacheMiss, FindSchema
    <3>4. CASE TestExpired(p) \/ DropExpired(p) \/ TestNil(p) \/ MakeMap(p) \/ Store(p)
      BY <1>1, <1>5, <3>4 DEF TestExpired, DropExpired, TestNil, MakeMap, Store
    <3>5. CASE TakeKeys(p) \/ LoopDone(p) \/ CountMandatory(p)
      BY <1>1, <1>5, <3>5 DEF TakeKeys, LoopDone, CountMandatory
    <3>6. ASSUME NEW k \in todo[p], CheckKey(p, k)
          PROVE  FALSE
      BY <1>1, <1>5, <3>6 DEF CheckKey
    <3> QED
      BY <2>2, <3>1, <3>2, <3>3, <3>4, <3>5, <3>6 DEF Step
  <2>3. ASSUME NEW q \in Procs, Step(q), q # p
        PROVE  buf'[p] = disk'[File(p)']
    BY <1>1, <1>5, <2>1, <2>3, Frame DEF File
  <2>4. ASSUME NEW q \in Procs, NEW f \in Schemas, NEW r \in Records, Call(q, f, r)
        PROVE  buf'[p] = disk'[File(p)']
    BY <1>1, <1>5, <2>1, <2>4 DEF Call, Goto, Typed, File
  <2>5. CASE Fatal
    BY <1>1, <1>5, <2>1, <2>5 DEF Fatal, File, Typed
  <2>6. CASE UNCHANGED local
    BY <1>5, <2>1, <2>6 DEF local, File
  <2> QED
    BY <2>2, <2>3, <2>4, <2>5, <2>6 DEF Next, Edit, Expire, Finished, vars
<1>6. ASSUME NEW o \in Objects, Begun(o)', content'[o] # None
      PROVE  content'[o] = disk'[Owner(o)']
  <2>1. CASE ~Begun(o)
    <3>1. o \in Procs /\ pc[o] = "idle" /\ pc'[o] # "idle"
      BY <1>6, <2>1 DEF Begun
    <3>2. content[o] = None
      BY <3>1 DEF Unedited
    <3>3. content' = content
      <4>1. ASSUME NEW p \in Procs, Step(p)
            PROVE  FALSE
        BY <1>1, <3>1, <4>1, Frame
      <4>2. ~Fatal
        BY <1>1, <3>1 DEF Fatal, Active
      <4> QED
        BY <4>1, <4>2 DEF Next, Call, Edit, Expire, Finished, vars
    <3> QED
      BY <1>6, <3>2, <3>3
  <2>2. CASE Begun(o)
    <3>1. Owner(o)' = Owner(o)
      BY <1>1, <2>2, OwnerStays
    <3>2. CASE content'[o] = content[o]
      BY <1>4, <1>6, <2>2, <3>1, <3>2 DEF Unedited
    <3>3. ASSUME NEW p \in Procs, AssignMap(p), content'[o] # content[o]
          PROVE  content'[o] = disk'[Owner(o)']
      <4>1. o = obj[p] /\ content'[o] = buf[p]
        BY <1>1, <3>3 DEF AssignMap, Typed
      <4>2. Owner(o) = File(p) /\ buf[p] = disk[File(p)]
        BY <1>4, <3>3, <4>1 DEF AssignMap, Owned, Holding, Unedited
      <4> QED
        BY <1>4, <3>1, <4>1, <4>2
    <3>4. CASE Fatal
      BY <1>4, <3>1, <3>2, <3>4 DEF Fatal, Owner
    <3> QED
      BY <1>1, <3>2, <3>3, <3>4, SharedFrame DEF Next, Call, Edit, Expire, Finished, vars
  <2> QED
    BY <2>1, <2>2
<1> QED
  BY <1>5, <1>6

LEMMA WatchedStep ==
    ASSUME Typed, Watched, Next
    PROVE  Watched'
<1> USE DEF Watched, Active, File
<1>1. ASSUME NEW p \in Procs, Step(p)
      PROVE  Watched'
  BY <1>1, Frame
<1>2. ASSUME NEW p \in Procs, NEW f \in Schemas, NEW r \in Records, Call(p, f, r)
      PROVE  Watched'
  BY <1>2 DEF Call, Goto, Typed
<1>3. ASSUME NEW f \in Schemas, NEW v \in Versions \cup {None}, Edit(f, v)
      PROVE  Watched'
  BY <1>3 DEF Edit, local, Typed, Jobs
<1>4. CASE Fatal
  BY <1>4 DEF Fatal, history, Typed, Ended
<1>5. CASE UNCHANGED <<disk, pc, job, seen>>
  BY <1>5
<1> QED
  BY <1>1, <1>2, <1>3, <1>4, <1>5 DEF Next, Expire, Finished, vars, local, history

LEMMA NoneFoundStep ==
    ASSUME Typed, NoneFound, Next
    PROVE  NoneFound'
<1> SUFFICES ASSUME NEW q \in Procs, (pc[q] \notin Ended /\ ~Looped(q))'
             PROVE  mkeys'[q] = {}
  BY DEF NoneFound
<1>1. CASE mkeys'[q] = mkeys[q] /\ pc[q] \notin Ended /\ ~Looped(q)
  BY <1>1 DEF NoneFound
<1>2. CASE Step(q)
  <2> USE DEF Typed, Goto, Ended, Looped
  <2>1. CASE CacheHit(q) \/ CacheMiss(q) \/ ReadFile(q) \/ FindSchema(q)
    BY <1>1, <2>1 DEF CacheHit, CacheMiss, ReadFile, FindSchema
  <2>2. CASE AssignMap(q)
    BY <1>1, <2>2, LoadedGoes DEF AssignMap
  <2>3. CASE TestExpired(q) \/ DropExpired(q) \/ TestNil(q) \/ MakeMap(q) \/ Store(q)
    BY <1>1, <2>3 DEF TestExpired, DropExpired, TestNil, MakeMap, Store
  <2>4. CASE TakeKeys(q) \/ LoopDone(q) \/ CountMandatory(q)
    BY <1>1, <2>4 DEF TakeKeys, LoopDone, CountMandatory
  <2>5. ASSUME NEW k \in todo[q], CheckKey(q, k)
        PROVE  mkeys'[q] = {}
    BY <1>1, <2>5 DEF CheckKey
  <2> QED
    BY <1>2, <2>1, <2>2, <2>3, <2>4, <2>5 DEF Step
<1>3. ASSUME NEW p \in Procs, Step(p), p # q
      PROVE  mkeys'[q] = {}
  BY <1>1, <1>3, Frame DEF Looped
<1>4. ASSUME NEW p \in Procs, NEW f \in Schemas, NEW r \in Records, Call(p, f, r)
      PROVE  mkeys'[q] = {}
  BY <1>1, <1>4 DEF Call, Goto, Typed, Looped, Ended
<1>5. CASE Fatal
  BY <1>1, <1>5 DEF Fatal, Typed, Looped, Ended, Active
<1>6. CASE UNCHANGED local
  BY <1>1, <1>6 DEF local, Looped
<1> QED
  BY <1>2, <1>3, <1>4, <1>5, <1>6 DEF Next, Edit, Expire, Finished, vars

\* A settled call keeps the version it works with: nobody else changes what
\* its object holds.
LEMMA Undisturbed ==
    ASSUME SInv, Overlap, VInv, Next, NEW q \in Procs, NEW v \in Versions, NEW p \in Procs,
           Step(p), p # q, Settled(q), disk[File(q)] = v, Validating(q), content[obj[q]] = v
    PROVE  content'[obj[q]] = v
<1>1. Typed /\ Holds(q)
  BY DEF SInv
<1>2. CASE q \notin shared
  BY <1>1, <1>2, OthersRest DEF Active, Validating, Ended
<1>3. CASE edits = 0
  <2> DEFINE o == obj[q]
  <2>1. o \in Objects /\ Owner(o) = File(q) /\ Begun(o)
    BY <1>1 DEF Validating, Holds, Holding, VInv, Owned
  <2>2. content'[o] \in Versions
    BY <2>1, StaysLoaded
  <2>3. UNCHANGED <<disk, edits>>
    BY <1>1, Frame
  <2>4. ASSUME NEW x \in Objects, x = o
        PROVE  content'[x] = v
    <3>1. Owner(x)' = File(q) /\ Begun(x)'
      BY <1>1, <2>1, <2>4, OwnerStays
    <3>2. content'[x] = disk'[Owner(x)']
      BY <1>3, <2>2, <2>3, <2>4, <3>1, UneditedStep, NoneAssumption DEF VInv, Unedited
    <3> QED
      BY <2>3, <3>1, <3>2
  <2> QED
    BY <2>1, <2>4
<1> QED
  BY <1>2, <1>3 DEF Settled

\* The record has as many mandatory keys as the schema exactly when it has
\* all of them.
LEMMA CountDecides ==
    ASSUME NEW r \in Records, NEW v \in Versions, r.keys \subseteq Defs[v].keys \ r.bad
    PROVE  Conforms(r, v) <=>
              Cardinality(r.keys \cap Defs[v].mandatory) = Cardinality(Defs[v].mandatory)
<1>1. r.bad = {}
  BY RecordsAssumption
<1>2. IsFiniteSet(Defs[v].mandatory)
  BY DefsAssumption, FS_Subset
<1>3. r.keys \cap Defs[v].mandatory \in SUBSET Defs[v].mandatory
  OBVIOUS
<1>4. Cardinality(Defs[v].mandatory) = Cardinality(r.keys \cap Defs[v].mandatory)
         => Defs[v].mandatory = r.keys \cap Defs[v].mandatory
  BY <1>2, <1>3, FS_Subset
<1>5. Defs[v].mandatory \subseteq r.keys => r.keys \cap Defs[v].mandatory = Defs[v].mandatory
  OBVIOUS
<1> QED
  BY <1>1, <1>4, <1>5 DEF Conforms

LEMMA JudgesOwnStep ==
    ASSUME SInv, KInv, VInv, NEW q \in Procs, Step(q), NEW v \in Versions,
           disk[File(q)] = v, Judges(q, v)
    PROVE  Judges(q, v)'
<1> USE DEF Judges, Validating, Looped, Goto, Typed
<1>1. Typed /\ Holds(q) /\ UNCHANGED <<disk, job>>
  BY Frame DEF SInv
<1>2. CASE CacheHit(q) \/ CacheMiss(q) \/ FindSchema(q)
  BY <1>1, <1>2 DEF CacheHit, CacheMiss, FindSchema
<1>3. CASE ReadFile(q)
  BY <1>1, <1>3 DEF ReadFile
<1>4. CASE AssignMap(q)
  <2>1. content'[obj[q]] = v
    BY <1>1, <1>4 DEF AssignMap, Holds, Holding
  <2> QED
    BY <1>1, <1>4, <2>1, LoadedGoes DEF AssignMap
<1>5. CASE TestExpired(q) \/ DropExpired(q) \/ TestNil(q) \/ MakeMap(q) \/ Store(q)
  BY <1>1, <1>5 DEF TestExpired, DropExpired, TestNil, MakeMap, Store
<1>6. CASE TakeKeys(q)
  <2>1. mkeys[q] = {}
    BY <1>1, <1>6 DEF TakeKeys, VInv, NoneFound, Ended, Holds
  <2> QED
    BY <1>1, <1>6, <2>1 DEF TakeKeys, Def
<1>7. ASSUME NEW k \in todo[q], CheckKey(q, k)
      PROVE  Judges(q, v)'
  <2> DEFINE r == job[q].rec
  <2>1. /\ pc[q] = "loop" /\ keys[q] = Defs[v].keys /\ Def(q) = Defs[v]
        /\ k \in r.keys /\ todo' = [todo EXCEPT ![q] = @ \ {k}]
        /\ UNCHANGED <<job, keys, content, obj>>
    BY <1>7 DEF CheckKey, Def
  <2>2. Defs[v].mandatory \subseteq Defs[v].keys
    BY DefsAssumption
  <2>3. CASE k \notin Defs[v].keys \/ k \in r.bad
    <3>1. pc'[q] = "rejected"
      BY <1>1, <1>7, <2>1, <2>3 DEF CheckKey
    <3>2. ~Conforms(r, v)
      BY <2>1, <2>3 DEF Conforms
    <3> QED
      BY <1>1, <2>1, <3>1, <3>2 DEF Conforms
  <2>4. CASE k \in Defs[v].keys /\ k \notin r.bad
    <3>1. pc'[q] = "loop"
      BY <1>1, <1>7, <2>1, <2>4 DEF CheckKey
    <3>2. mkeys'[q] = (r.keys \ todo'[q]) \cap Defs[v].mandatory
      BY <1>1, <1>7, <2>1, <2>2, <2>4 DEF CheckKey
    <3> QED
      BY <1>1, <2>1, <2>4, <3>1, <3>2
  <2> QED
    BY <2>3, <2>4
<1>8. CASE LoopDone(q)
  BY <1>1, <1>8 DEF LoopDone
<1>9. CASE CountMandatory(q)
  <2> DEFINE r == job[q].rec
  <2>1. todo[q] = {}
    BY <1>1, <1>9 DEF CountMandatory, KInv, Compared
  <2>2. r \in Records /\ r.keys \subseteq Defs[v].keys \ r.bad /\ Def(q) = Defs[v]
        /\ mkeys[q] = r.keys \cap Defs[v].mandatory
    BY <1>1, <1>9, <2>1 DEF CountMandatory, Jobs, Def
  <2>3. pc'[q] = "accepted" => Conforms(r, v)
    BY <1>1, <1>9, <2>2, CountDecides DEF CountMandatory
  <2>4. pc'[q] = "rejected" => ~Conforms(r, v)
    BY <1>1, <1>9, <2>2, CountDecides DEF CountMandatory
  <2>5. pc'[q] \in {"accepted", "rejected"} /\ UNCHANGED <<keys, todo, mkeys, content, obj>>
    BY <1>1, <1>9 DEF CountMandatory
  <2> QED
    BY <1>1, <1>9, <2>3, <2>4, <2>5 DEF CountMandatory, Conforms
<1> QED
  BY <1>2, <1>3, <1>4, <1>5, <1>6, <1>7, <1>8, <1>9 DEF Step

LEMMA JudgedStep ==
    ASSUME SInv, Overlap, KInv, VInv, Next, NEW q \in Procs, NEW v \in Versions,
           seen'[q] = {v}, Settled(q)'
    PROVE  Judges(q, v)'
<1>1. Typed /\ Holds(q)
  BY DEF SInv
<1>2. Settled(q)
  <2>1. shared \subseteq shared'
    BY <1>1, ActiveStep DEF Call
  <2>2. edits' = 0 => edits = 0
    BY <1>1, Frame DEF Next, Call, Edit, Expire, Fatal, Finished, vars, Typed
  <2> QED
    BY <2>1, <2>2 DEF Settled
<1>3. ASSUME seen[q] = {v}
      PROVE  Judges(q, v) /\ (q \in Active => disk[File(q)] = v)
  BY <1>2, <1>3 DEF VInv, Judged, Watched
<1>4. ASSUME seen[q] = {v}, UNCHANGED <<pc[q], stage[q], obj[q], buf[q], keys[q], todo[q], mkeys[q], job[q]>>,
             Validating(q) => content'[obj[q]] = content[obj[q]]
      PROVE  Judges(q, v)'
  BY <1>3, <1>4 DEF Judges, Validating, Looped, Conforms
<1>5. CASE Step(q)
  <2>1. seen[q] = {v} /\ q \in Active
    BY <1>1, <1>5, Frame DEF Active
  <2> QED
    BY <1>3, <1>5, <2>1, JudgesOwnStep
<1>6. ASSUME NEW p \in Procs, Step(p), p # q
      PROVE  Judges(q, v)'
  <2>1. seen[q] = {v} /\ UNCHANGED <<pc[q], stage[q], obj[q], buf[q], keys[q], todo[q], mkeys[q], job[q]>>
    BY <1>1, <1>6, Frame
  <2>2. Validating(q) => content'[obj[q]] = content[obj[q]]
    <3> SUFFICES ASSUME Validating(q) PROVE content'[obj[q]] = content[obj[q]]
      OBVIOUS
    <3>1. q \in Active
      BY DEF Validating, Active, Ended
    <3>2. disk[File(q)] = v /\ content[obj[q]] = v
      BY <1>3, <2>1, <3>1 DEF Judges
    <3> QED
      BY <1>2, <1>6, <3>2, Undisturbed
  <2> QED
    BY <1>4, <2>1, <2>2
<1>7. ASSUME NEW p \in Procs, NEW f \in Schemas, NEW r \in Records, Call(p, f, r)
      PROVE  Judges(q, v)'
  <2>1. CASE p = q
    BY <1>1, <1>7, <2>1 DEF Call, Goto, Typed, Judges, Validating, Looped
  <2>2. CASE p # q
    BY <1>1, <1>4, <1>7, <2>2 DEF Call, Goto, Typed
  <2> QED
    BY <2>1, <2>2
<1>8. ASSUME NEW f \in Schemas, NEW w \in Versions \cup {None}, Edit(f, w)
      PROVE  Judges(q, v)'
  <2>1. seen[q] = {v}
    BY <1>1, <1>8 DEF Edit, Typed, VInv, Watched
  <2> QED
    BY <1>4, <1>8, <2>1 DEF Edit, local
<1>9. CASE Fatal
  <2>1. CASE q \in Active
    BY <1>1, <1>9, <2>1 DEF Fatal, Typed, Judges, Validating, Looped
  <2>2. CASE q \notin Active
    BY <1>1, <1>4, <1>9, <2>2 DEF Fatal, Typed, Active, Validating, Ended, history
  <2> QED
    BY <2>1, <2>2
<1>10. CASE UNCHANGED <<local, history, content>>
  BY <1>4, <1>10 DEF local, history
<1> QED
  BY <1>5, <1>6, <1>7, <1>8, <1>9, <1>10 DEF Next, Expire, Finished, vars

LEMMA VInvStep ==
    ASSUME SInv, AInv, KInv, VInv, [Next]_vars
    PROVE  VInv'
<1>1. CASE Next
  BY <1>1, OwnedStep, UneditedStep, WatchedStep, NoneFoundStep, JudgedStep
     DEF SInv, AInv, VInv, Judged
<1>2. CASE UNCHANGED vars
  BY <1>2 DEF vars, local, history, VInv, Owned, Unedited, Watched, NoneFound, Judged, Judges, Holding,
              Owner, Begun, Entry, File, Settled, Validating, Looped, Active, Conforms
<1> QED
  BY <1>1, <1>2

LEMMA VInvAlways == Spec => []VInv
<1>1. Init => VInv
  BY NoneAssumption DEF Init, VInv, Owned, Unedited, Watched, NoneFound, Judged, Judges, Holding, Storing,
        Owner, Begun, Entry, Objects, Settled, Validating, Looped, Active
<1> QED
  BY <1>1, VInvStep, CacheInvariance, AInvAlways, KInvAlways, PTL DEF Spec

\* The verdict is right, however old the cached schema is: while the schema
\* file stays the same during a call that overlaps no other, or nobody has
\* edited a file, the record is accepted exactly when it conforms to the file.
THEOREM VerdictIsRight == Spec => []Verdict
<1>1. VInv => Verdict
  BY DEF VInv, Judged, Judges, Settled, Verdict
<1> QED
  BY <1>1, VInvAlways, PTL
============================================================================
