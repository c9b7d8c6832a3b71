-------------------------- MODULE MigrationProofs --------------------------
(***************************************************************************)
(* Proofs about Migration for any migrators, databases, places and sets.   *)
(* IInv is the inductive invariant; its conjuncts follow a document of the *)
(* old shape until the migration has replaced it, and say what each        *)
(* migrator and each server knows of the databases it found.               *)
(***************************************************************************)
EXTENDS Migration, TLAPS

USE OneDefault, NoDocument

-----------------------------------------------------------------------------
(* The inductive invariant.                                                *)

\* There is a document of set i in place p, and one of the old shape.
Has(c, p, i) == c[p] # NoDoc /\ c[p].id = i

IsOld(c, p) == c[p] # NoDoc /\ c[p].device = "unset"

Working(m) == mig[m].at \in {"up", "index", "record"}

\* What a migrator holds, by where it is.
Positions ==
    \A m \in Migrators :
        /\ Working(m) => mig[m].db \in Dbs
        /\ ~Working(m) => mig[m].db = NoDb
        /\ mig[m].at # "up" => mig[m].batch = {}
        /\ mig[m].at \in {"index", "record"} => mig[m].rest = {}
        /\ mig[m].at = "record" => mig[m].db \in indexed

\* A set that no request deleted has a document.
KeptAreThere == \A d \in Dbs : \A i \in kept[d] : \E p \in Places : Has(docs[d], p, i)

\* Before a request writes to a database, and until it is recorded, all its documents,
\* and those in batches, are of sets that it had, without a device id from a request.
Untouched ==
    \A d \in Dbs \ (early \cup recorded) :
        /\ \A p \in Places : docs[d][p] # NoDoc =>
              docs[d][p].id \in kept[d] /\ docs[d][p].device # "given"
        /\ \A m \in Migrators : mig[m].at = "up" /\ mig[m].db = d =>
              \A old \in mig[m].batch : old.id \in kept[d]

\* Once a database is recorded, no document of the old shape is left.
NoneLeft == \A d \in recorded \ early, p \in Places : ~IsOld(docs[d], p)

\* Until then each migrator at work has yet to see each of them, unless there is another
\* document of the same set.
Ahead ==
    \A m \in Migrators : Working(m) /\ mig[m].db \notin early =>
        \A p \in Places : IsOld(docs[mig[m].db], p) =>
            \/ p \in mig[m].rest
            \/ docs[mig[m].db][p] \in mig[m].batch
            \/ \E q \in Places \ {p} : Has(docs[mig[m].db], q, docs[mig[m].db][p].id)

\* Databases that a migrator found are recorded, or still to be dealt with.
FoundAreDone ==
    \A m \in Migrators :
        /\ mig[m].found \subseteq recorded \cup mig[m].todo \cup {mig[m].db}
        /\ mig[m].at = "serving" => mig[m].todo = {} /\ mig[m].kind # "tenant"

\* A migrator learns that another one recorded its database.
RivalsAreSeen ==
    \A m \in Migrators : Working(m) /\ ~mig[m].rival => mig[m].db \notin recorded

\* Servers find every tenant's database with documents of the old shape, and no request
\* comes to one before it is migrated.
TenantsAreFound ==
    /\ \A d \in Dbs, p \in Places : IsOld(docs[d], p) => d \in listed
    /\ \A m \in Migrators, d \in Tenants, p \in Places :
          mig[m].at # "idle" /\ mig[m].kind # "tenant" /\ IsOld(docs[d], p) =>
              d \in mig[m].found
    /\ \A d \in Tenants \cap early, p \in Places : ~IsOld(docs[d], p)

\* A status update has read from a recorded database or one that requests came to early;
\* without a device id only from the default one, early, as tenants' are migrated.
ReadsAreKnown ==
    \A u \in Updaters : \A r \in held[u] :
        /\ r.db \in recorded \cup early
        /\ r.device = "unset" => r.db = DefaultDb /\ r.db \in early

IInv ==
    /\ TypeOK /\ Positions /\ ReadsAreKnown
    /\ KeptAreThere /\ Untouched /\ NoneLeft /\ Ahead
    /\ FoundAreDone /\ RivalsAreSeen /\ TenantsAreFound

-----------------------------------------------------------------------------
(* Writes to one place.                                                    *)

Contents == [Places -> Doc \cup {NoDoc}]

Put(c, q, new) == [c EXCEPT ![q] = new]

\* A migrator at work writes old, in its new shape, to place q.
UpAt(m, old, q) ==
    LET d == mig[m].db
    IN /\ mig[m].at = "up"
       /\ docs' = [docs EXCEPT ![d] = Put(docs[d], q, Migrated(old))]
       /\ \/ Has(docs[d], q, old.id) /\ docs[d][q].status = old.status
          \/ /\ docs[d][q] = NoDoc
             /\ d \in indexed => \A p \in Places : ~Has(docs[d], p, old.id)
       /\ mig' = [mig EXCEPT ![m].batch = @ \ {old}]
       /\ listed' = listed \cup {d}
       /\ UNCHANGED <<indexed, recorded, kept, early, held>>

\* What becomes of the reads of status updates when a request about set i in database d
\* leaves new in place q: it is no status update and writes a device id of its own or
\* none, or the update begins, or it writes what it read.
Reads(d, i, q, new) ==
    \/ /\ held' = held
       /\ \/ new = NoDoc \/ new.device = "given"
          \/ Has(docs[d], q, i) /\ new.device = docs[d][q].device
    \/ \E u \in Updaters :
          /\ held[u] = {} /\ Has(docs[d], q, i) /\ new = docs[d][q]
          /\ held' = [held EXCEPT ![u] = {[db |-> d, id |-> i, device |-> new.device]}]
    \/ \E u \in Updaters : \E r \in held[u] :
          /\ r.db = d /\ r.id = i /\ new # NoDoc
          /\ \/ new.device = r.device
             \/ r.device = "unset" /\ Has(docs[d], q, i) /\ new.device = docs[d][q].device
          /\ held' = [held EXCEPT ![u] = {}]

\* A request about set i in database d leaves new in place q.
RequestAt(d, i, q, new) ==
    /\ (\E m \in Migrators : mig[m].at = "serving") \/ d \in recorded \cup early
    /\ early' = IF d \in recorded THEN early ELSE early \cup {d}
    /\ docs' = [docs EXCEPT ![d] = Put(docs[d], q, new)]
    /\ \/ new = NoDoc /\ Has(docs[d], q, i) /\ i \notin kept'[d]
       \/ Has(docs[d], q, i) /\ Has(Put(docs[d], q, new), q, i)
          /\ (new.device = "unset" => docs[d][q].device = "unset")
       \/ Has(Put(docs[d], q, new), q, i)
          /\ (new.device = "unset" => d = DefaultDb /\ d \in early /\ d \in listed')
          /\ docs[d][q] = NoDoc /\ \A p \in Places : ~Has(docs[d], p, i)
    /\ \/ UNCHANGED <<indexed, listed>>
       \/ indexed' = indexed \cup {d} /\ listed' = listed \cup {d} /\ Unique(docs[d])
    /\ \E ids \in SUBSET AuthIds :
          /\ kept' = [kept EXCEPT ![d] = ids]
          /\ \A j \in ids : j \in kept[d] \/ j = i
    /\ UNCHANGED <<recorded, mig>>
    /\ Reads(d, i, q, new)

\* The two fields besides the id are all that an upsert by id changes.
LEMMA Rewritten ==
    ASSUME NEW e \in Doc, NEW device \in {"unset", "own", "given"}, NEW status \in Statuses
    PROVE  [e EXCEPT !.device = device, !.status = status]
              = [id |-> e.id, device |-> device, status |-> status]
<1> DEFINE f == [e EXCEPT !.device = device]
<1>1. e = [id |-> e.id, device |-> e.device, status |-> e.status]
  BY DEF Doc
<1>2. f = [id |-> e.id, device |-> device, status |-> e.status]
  BY <1>1
<1> HIDE DEF f
<1>3. [f EXCEPT !.status = status] = [id |-> e.id, device |-> device, status |-> status]
  BY <1>2
<1> QED
  BY <1>3 DEF f

\* A step that leaves the documents alone.
Moves(m) ==
    \/ Migrate(m) \/ MigrateTenant(m) \/ Stop(m)
    \/ Apply(m) \/ Finish(m) \/ Fetch(m) \/ Close(m)
    \/ EnsureIndexes(m) \/ UpdateMigrationInfo(m)

\* An upsert of the migration writes to one place.
LEMMA UpShape ==
    ASSUME NEW m \in Migrators, Up(m)
    PROVE  \E old \in mig[m].batch, q \in Places : UpAt(m, old, q)
<1> DEFINE d == mig[m].db
<1>1. PICK old \in mig[m].batch :
         Upsert(m, old, docs[d]) /\ mig' = [mig EXCEPT ![m].batch = @ \ {old}]
  BY DEF Up
<1>2. mig[m].at = "up" /\ listed' = listed \cup {d}
  BY DEF Up
<1>3. CASE \E p \in {p \in Places : Selects(old, docs[d][p])} :
              Wrote(d, [docs[d] EXCEPT ![p] = Migrated(old)])
  BY <1>1, <1>2, <1>3 DEF UpAt, Wrote, Put, Selects, Has
<1>4. CASE /\ d \in indexed => Of(docs[d], old.id) = {}
           /\ \E p \in Places : docs[d][p] = NoDoc
                 /\ Wrote(d, [docs[d] EXCEPT ![p] = Migrated(old)])
  <2>1. PICK q \in Places : docs[d][q] = NoDoc
                 /\ Wrote(d, [docs[d] EXCEPT ![q] = Migrated(old)])
    BY <1>4
  <2>2. d \in indexed => \A p \in Places : ~Has(docs[d], p, old.id)
    BY <1>4 DEF Of, Has
  <2> QED
    BY <1>1, <1>2, <2>1, <2>2 DEF UpAt, Wrote, Put
<1> QED
  BY <1>1, <1>3, <1>4 DEF Upsert

\* So does an upsert by id, if it is about a set that is there or tells a device id, or
\* comes to the default database after early requests.
LEMMA PutShape ==
    ASSUME TypeOK, NEW d \in Dbs, NEW i \in AuthIds,
           NEW device \in {"unset", "own", "given"}, NEW status \in Statuses,
           PutDeviceAuth(d, i, device, status),
           (\E m \in Migrators : mig[m].at = "serving") \/ d \in recorded \cup early,
           early' = IF d \in recorded THEN early ELSE early \cup {d},
           UNCHANGED <<recorded, mig>>,
           NEW ids \in SUBSET AuthIds, kept' = [kept EXCEPT ![d] = ids],
           \A j \in ids : j \in kept[d] \/ j = i,
           \/ Of(docs[d], i) # {} \/ device # "unset"
           \/ d = DefaultDb /\ d \in early,
           \/ /\ held' = held
              /\ device = "given" \/ (device = "unset" /\ Of(docs[d], i) # {})
           \/ \E u \in Updaters : \E r \in held[u] :
                 /\ r.db = d /\ r.id = i /\ r.device = device
                 /\ held' = [held EXCEPT ![u] = {}]
    PROVE  \E q \in Places, new \in Doc \cup {NoDoc} : RequestAt(d, i, q, new)
<1> DEFINE c == docs[d]
<1>0. docs \in [Dbs -> Contents] /\ c \in Contents
  BY DEF TypeOK, Contents
<1>1. Unique(c) /\ indexed' = indexed \cup {d} /\ listed' = listed \cup {d}
  BY DEF PutDeviceAuth
<1>2. ASSUME NEW dev \in {"unset", "own", "given"}
      PROVE  /\ [id |-> i, device |-> dev, status |-> status] \in Doc
             /\ [id |-> i, device |-> dev, status |-> status] # NoDoc
  BY DEF Doc
<1>3. ASSUME NEW q \in Of(c, i),
             docs' = [docs EXCEPT ![d][q].device = IF device = "unset" THEN @ ELSE device,
                                  ![d][q].status = status]
      PROVE  \E new \in Doc \cup {NoDoc} : RequestAt(d, i, q, new)
  <2> DEFINE dev == IF device = "unset" THEN c[q].device ELSE device
             new == [id |-> i, device |-> dev, status |-> status]
  <2>1. c[q] \in Doc /\ c[q].id = i /\ q \in Places /\ Has(c, q, i)
    BY <1>0, <1>3 DEF Of, Contents, Has
  <2>2. dev \in {"unset", "own", "given"}
    BY <2>1 DEF Doc
  <2>3. docs' = [docs EXCEPT ![d] = Put(c, q, [c[q] EXCEPT !.device = dev, !.status = status])]
    BY <1>0, <1>3, <2>1 DEF Put, Contents
  <2> HIDE DEF dev
  <2>4. [c[q] EXCEPT !.device = dev, !.status = status] = new
    BY <2>1, <2>2, Rewritten
  <2>5. new \in Doc /\ new # NoDoc /\ new.id = i /\ new.device = dev
    BY <1>2, <2>2
  <2> HIDE DEF new
  <2>6. Has(Put(c, q, new), q, i)
    BY <1>0, <2>1, <2>5 DEF Has, Put, Contents
  <2>7. new.device = "unset" => c[q].device = "unset"
    BY <2>5 DEF dev
  <2>8. Reads(d, i, q, new)
    BY <2>1, <2>5 DEF Reads, dev
  <2>9. RequestAt(d, i, q, new)
    BY <1>1, <2>1, <2>3, <2>4, <2>5, <2>6, <2>7, <2>8 DEF RequestAt
  <2> QED
    BY <2>5, <2>9
<1>4. ASSUME NEW q \in Places, Of(c, i) = {}, c[q] = NoDoc,
             docs' = [docs EXCEPT ![d][q] = [id |-> i, device |-> device, status |-> status]]
      PROVE  \E new \in Doc \cup {NoDoc} : RequestAt(d, i, q, new)
  <2> DEFINE new == [id |-> i, device |-> device, status |-> status]
  <2>1. docs' = [docs EXCEPT ![d] = Put(c, q, new)]
    BY <1>0, <1>4 DEF Put, Contents
  <2>2. new \in Doc /\ new # NoDoc /\ new.id = i /\ new.device = device
    BY <1>2
  <2> HIDE DEF new
  <2>3. Has(Put(c, q, new), q, i)
    BY <1>0, <2>2 DEF Has, Put, Contents
  <2>4. \A p \in Places : ~Has(c, p, i)
    BY <1>4 DEF Has, Of
  <2>5. Reads(d, i, q, new)
    BY <1>4, <2>2 DEF Reads
  <2>6. new.device = "unset" => d = DefaultDb /\ d \in early /\ d \in listed'
    BY <1>1, <1>4, <2>2
  <2>7. RequestAt(d, i, q, new)
    BY <1>1, <1>4, <2>1, <2>2, <2>3, <2>4, <2>5, <2>6 DEF RequestAt
  <2> QED
    BY <2>2, <2>7
<1>5. Of(c, i) \subseteq Places
  BY DEF Of
<1> QED
  BY <1>3, <1>4, <1>5 DEF PutDeviceAuth

\* So do requests that write, and those that read leave what is there.
LEMMA RequestShape ==
    ASSUME TypeOK, NEW d \in Dbs, NEW i \in AuthIds,
           \/ SubmitDeviceAuth(d, i) \/ AcceptDevicePreAuth(d, i) \/ DeleteDeviceAuth(d, i)
           \/ \E u \in Updaters : GetDeviceAuth(u, d, i)
    PROVE  \E q \in Places, new \in Doc \cup {NoDoc} : RequestAt(d, i, q, new)
<1> DEFINE c == docs[d]
<1>0. /\ docs \in [Dbs -> Contents] /\ c \in Contents
      /\ kept \in [Dbs -> SUBSET AuthIds] /\ kept = [kept EXCEPT ![d] = kept[d]]
  BY DEF TypeOK, Contents
<1>1. /\ \E m \in Migrators : mig[m].at = "serving"
      /\ early' = IF d \in recorded THEN early ELSE early \cup {d}
      /\ UNCHANGED <<recorded, mig>>
  BY DEF SubmitDeviceAuth, AcceptDevicePreAuth, DeleteDeviceAuth, GetDeviceAuth, Served
<1>2. CASE SubmitDeviceAuth(d, i)
  <2>1. PICK status \in Statuses : PutDeviceAuth(d, i, "given", status)
    BY <1>2 DEF SubmitDeviceAuth
  <2>2. /\ kept[d] \cup {i} \in SUBSET AuthIds /\ held' = held
        /\ kept' = [kept EXCEPT ![d] = kept[d] \cup {i}]
    BY <1>0, <1>2 DEF SubmitDeviceAuth
  <2> QED
    BY <1>1, <2>1, <2>2, PutShape
<1>3. CASE AcceptDevicePreAuth(d, i)
  <2>1. PICK status \in Statuses : PutDeviceAuth(d, i, "unset", status)
    BY <1>3 DEF AcceptDevicePreAuth
  <2>2. /\ Of(c, i) # {} /\ kept[d] \in SUBSET AuthIds /\ held' = held
        /\ kept' = [kept EXCEPT ![d] = kept[d]]
    BY <1>0, <1>3 DEF AcceptDevicePreAuth
  <2> QED
    BY <1>1, <2>1, <2>2, PutShape
<1>4. CASE DeleteDeviceAuth(d, i)
  <2>1. PICK q \in Of(c, i) : docs' = [docs EXCEPT ![d][q] = NoDoc]
    BY <1>4 DEF DeleteDeviceAuth
  <2>2. q \in Places /\ Has(c, q, i)
    BY DEF Of, Has
  <2>3. docs' = [docs EXCEPT ![d] = Put(c, q, NoDoc)]
    BY <1>0, <2>1 DEF Put, Contents
  <2>4. /\ kept[d] \ {i} \in SUBSET AuthIds
        /\ kept' = [kept EXCEPT ![d] = kept[d] \ {i}]
        /\ i \notin kept'[d]
    BY <1>0, <1>4 DEF DeleteDeviceAuth
  <2>5. RequestAt(d, i, q, NoDoc)
    BY <1>1, <1>4, <2>2, <2>3, <2>4 DEF RequestAt, Reads, DeleteDeviceAuth
  <2> QED
    BY <2>2, <2>5
<1>5. ASSUME NEW u \in Updaters, GetDeviceAuth(u, d, i)
      PROVE  \E q \in Places, new \in Doc \cup {NoDoc} : RequestAt(d, i, q, new)
  <2>1. PICK q \in Of(c, i) :
           held' = [held EXCEPT ![u] = {[db |-> d, id |-> i, device |-> c[q].device]}]
    BY <1>5 DEF GetDeviceAuth
  <2>2. q \in Places /\ Has(c, q, i) /\ c[q] \in Doc
    BY <1>0 DEF Of, Has, Contents
  <2>3. docs' = [docs EXCEPT ![d] = Put(c, q, c[q])] /\ Put(c, q, c[q]) = c
    BY <1>0, <1>5 DEF Put, Contents, GetDeviceAuth
  <2>4. kept[d] \in SUBSET AuthIds /\ kept' = [kept EXCEPT ![d] = kept[d]]
    BY <1>0, <1>5 DEF GetDeviceAuth
  <2>5. Reads(d, i, q, c[q])
    BY <1>5, <2>1, <2>2 DEF Reads, GetDeviceAuth
  <2>6. RequestAt(d, i, q, c[q])
    BY <1>1, <1>5, <2>2, <2>3, <2>4, <2>5 DEF RequestAt, GetDeviceAuth
  <2> QED
    BY <2>2, <2>6
<1> QED
  BY <1>2, <1>3, <1>4, <1>5

\* So does the write of a status update.
LEMMA UpdateShape ==
    ASSUME TypeOK, ReadsAreKnown, NEW u \in Updaters, UpdateDeviceAuthStatus(u)
    PROVE  \E d \in Dbs, i \in AuthIds, q \in Places, new \in Doc \cup {NoDoc} :
              RequestAt(d, i, q, new)
<1>1. PICK r \in held[u] :
         /\ \E status \in Statuses : PutDeviceAuth(r.db, r.id, r.device, status)
         /\ kept' = [kept EXCEPT ![r.db] = @ \cup {r.id}]
         /\ held' = [held EXCEPT ![u] = {}]
         /\ UNCHANGED <<recorded, mig, early>>
  BY DEF UpdateDeviceAuthStatus
<1>2. /\ r.db \in recorded \cup early
      /\ r.device = "unset" => r.db = DefaultDb /\ r.db \in early
  BY DEF ReadsAreKnown
<1>3. r \in Read
  BY DEF TypeOK
<1>4. PICK d \in Dbs, i \in AuthIds, device \in {"unset", "own", "given"} :
         r.db = d /\ r.id = i /\ r.device = device
  BY <1>3 DEF Read
<1>5. PICK status \in Statuses : PutDeviceAuth(d, i, device, status)
  BY <1>1, <1>4
<1>6. /\ kept[d] \cup {i} \in SUBSET AuthIds
      /\ kept' = [kept EXCEPT ![d] = kept[d] \cup {i}]
  BY <1>1, <1>4 DEF TypeOK
<1>7. /\ d \in recorded \cup early
      /\ early' = IF d \in recorded THEN early ELSE early \cup {d}
      /\ device # "unset" \/ (d = DefaultDb /\ d \in early)
  BY <1>1, <1>2, <1>4
<1>8. \E v \in Updaters : \E s \in held[v] :
         /\ s.db = d /\ s.id = i /\ s.device = device
         /\ held' = [held EXCEPT ![v] = {}]
  BY <1>1, <1>4
<1> DEFINE ids == kept[d] \cup {i}
<1>9. /\ ids \in SUBSET AuthIds /\ \A j \in ids : j \in kept[d] \/ j = i
      /\ kept' = [kept EXCEPT ![d] = ids]
  BY <1>6
<1>10. UNCHANGED <<recorded, mig>>
  BY <1>1
<1> HIDE DEF ids
<1>11. \E q \in Places, new \in Doc \cup {NoDoc} : RequestAt(d, i, q, new)
  BY <1>5, <1>7, <1>8, <1>9, <1>10, PutShape
<1> QED
  BY <1>11

\* All but what status updates have read.
Data == <<docs, indexed, listed, recorded, mig, kept, early>>

\* These are all the steps there are.
LEMMA Steps ==
    ASSUME TypeOK, ReadsAreKnown, [Next]_vars
    PROVE  \/ \E m \in Migrators : Moves(m)
           \/ \E m \in Migrators : \E old \in mig[m].batch, q \in Places : UpAt(m, old, q)
           \/ \E d \in Dbs, i \in AuthIds, q \in Places, new \in Doc \cup {NoDoc} :
                 RequestAt(d, i, q, new)
           \/ UNCHANGED Data /\ ((\E u \in Updaters : GiveUp(u)) \/ UNCHANGED held)
<1>1. ASSUME NEW m \in Migrators, Up(m)
      PROVE  \E old \in mig[m].batch, q \in Places : UpAt(m, old, q)
  BY <1>1, UpShape
<1>2. ASSUME NEW u \in Updaters, GiveUp(u) PROVE UNCHANGED Data
  BY <1>2 DEF GiveUp, Data
<1>3. UNCHANGED vars => UNCHANGED Data /\ UNCHANGED held
  BY DEF vars, Data
<1> QED
  BY <1>1, <1>2, <1>3, RequestShape, UpdateShape DEF Next, Run, Moves

-----------------------------------------------------------------------------
(* Types.                                                                  *)

\* A document may take a place if it was there for the same set, or the set has none.
LEMMA PutUnique ==
    ASSUME NEW c \in Contents, Unique(c), NEW q \in Places, NEW new \in Doc \cup {NoDoc},
           \/ new = NoDoc \/ Has(c, q, new.id) \/ \A p \in Places : ~Has(c, p, new.id)
    PROVE  Unique(Put(c, q, new))
<1>1. \A i \in AuthIds, p \in Places : p \in Of(Put(c, q, new), i) =>
         IF p = q THEN new # NoDoc /\ new.id = i ELSE p \in Of(c, i)
  BY DEF Of, Put, Contents
<1>2. SUFFICES ASSUME NEW i \in AuthIds, NEW x \in Places, NEW y \in Places,
                      x \in Of(Put(c, q, new), i), y \in Of(Put(c, q, new), i)
               PROVE  x = y
  BY DEF Unique, Of
<1>3. \A p \in Of(c, i) : new # NoDoc /\ new.id = i => Has(c, q, i) /\ p = q
  BY DEF Unique, Of, Has
<1> QED
  BY <1>1, <1>2, <1>3 DEF Unique

\* The new shape of a document is one of the same set.
LEMMA MigratedType ==
    ASSUME NEW old \in Doc
    PROVE  /\ Migrated(old) \in Doc /\ Migrated(old) # NoDoc
           /\ Migrated(old).id = old.id /\ Migrated(old).device = "own"
BY DEF Migrated, Doc

\* A migrator that moves is one again.
LEMMA MoveType ==
    ASSUME TypeOK, Positions, NEW m \in Migrators, Moves(m)
    PROVE  /\ mig' \in [Migrators -> Migrator]
           /\ indexed' \subseteq listed' /\ \A d \in indexed' : Unique(docs[d])
           /\ recorded' \subseteq indexed' /\ listed' \subseteq Dbs
<1>0. /\ mig \in [Migrators -> Migrator] /\ mig[m] \in Migrator
      /\ docs \in [Dbs -> Contents]
  BY DEF TypeOK, Contents
<1>1. ASSUME NEW s \in Migrator, Goes(m, s)
      PROVE  /\ mig' \in [Migrators -> Migrator] /\ UNCHANGED <<docs, indexed, listed, recorded>>
  BY <1>0, <1>1 DEF Goes
<1>2. ASSUME NEW kind \in {"server", "automigrate", "tenant"}, NEW dbs \in SUBSET Dbs
      PROVE  [Idle EXCEPT !.at = "next", !.kind = kind, !.found = dbs, !.todo = dbs] \in Migrator
  BY DEF Idle, Migrator
<1>3. Idle \in Migrator
  BY DEF Idle, Migrator
<1>4. CASE Migrate(m)
  <2>1. PICK kind \in {"server", "automigrate"} :
           Starts(m, kind, IF listed \cap Tenants = {} THEN {DefaultDb} ELSE listed \cap Tenants)
    BY <1>4 DEF Migrate
  <2>2. (IF listed \cap Tenants = {} THEN {DefaultDb} ELSE listed \cap Tenants) \in SUBSET Dbs
    BY DEF Dbs
  <2> QED
    BY <2>1, <2>2, <1>1, <1>2 DEF Starts, TypeOK
<1>5. CASE MigrateTenant(m)
  BY <1>5, <1>1, <1>2 DEF MigrateTenant, Starts, TypeOK
<1>6. CASE Stop(m)
  BY <1>6, <1>1, <1>3 DEF Stop, TypeOK
<1>7. CASE Apply(m)
  <2>1. ASSUME NEW d \in mig[m].todo
        PROVE  /\ [mig[m] EXCEPT !.todo = @ \ {d}] \in Migrator
               /\ [mig[m] EXCEPT !.todo = @ \ {d}, !.at = "up", !.db = d, !.rest = Places]
                     \in Migrator
    BY <1>0 DEF Migrator
  <2> QED
    BY <1>7, <1>1, <1>3, <2>1 DEF Apply, TypeOK
<1>8. CASE Finish(m)
  <2>1. [mig[m] EXCEPT !.at = "serving"] \in Migrator
    BY <1>0 DEF Migrator
  <2> QED
    BY <1>8, <1>1, <1>3, <2>1 DEF Finish, TypeOK
<1>9. CASE Fetch(m)
  <2>1. mig[m].db \in Dbs
    BY <1>9 DEF Fetch, Positions, Working
  <2>2. ASSUME NEW ps \in SUBSET mig[m].rest
        PROVE  [mig[m] EXCEPT
                      !.rest = @ \ ps,
                      !.batch = @ \cup ({docs[mig[m].db][p] : p \in ps} \ {NoDoc})] \in Migrator
    <3>1. ps \subseteq Places
      BY <1>0 DEF Migrator
    <3>2. {docs[mig[m].db][p] : p \in ps} \ {NoDoc} \subseteq Doc
      BY <1>0, <2>1, <3>1 DEF Contents
    <3> HIDE <2>1
    <3> QED
      BY <1>0, <3>1, <3>2 DEF Migrator
  <2> QED
    BY <1>9, <1>1, <2>2 DEF Fetch, TypeOK
<1>10. CASE Close(m)
  <2>1. [mig[m] EXCEPT !.at = "index"] \in Migrator
    BY <1>0 DEF Migrator
  <2> QED
    BY <1>10, <1>1, <2>1 DEF Close, TypeOK
<1>11. CASE EnsureIndexes(m)
  <2>1. mig[m].db \in Dbs
    BY <1>11 DEF EnsureIndexes, Positions, Working
  <2>2. [mig[m] EXCEPT !.at = "record"] \in Migrator
    BY <1>0 DEF Migrator
  <2>3. mig' \in [Migrators -> Migrator]
    BY <1>0, <1>11, <2>2 DEF EnsureIndexes
  <2> QED
    BY <1>11, <2>1, <2>3 DEF EnsureIndexes, TypeOK
<1>12. CASE UpdateMigrationInfo(m)
  <2>1. mig[m].db \in indexed
    BY <1>12 DEF UpdateMigrationInfo, Positions
  <2>2. [mig[m] EXCEPT !.at = "next", !.db = NoDb, !.rival = FALSE] \in Migrator
    BY <1>0 DEF Migrator
  <2>3. ASSUME NEW n \in Migrators
        PROVE  [mig[n] EXCEPT !.rival = @ \/ mig[n].db = mig[m].db] \in Migrator
    <3>1. mig[n] \in Migrator
      BY <1>0
    <3>2. (mig[n].rival \/ mig[n].db = mig[m].db) \in BOOLEAN
      OBVIOUS
    <3> QED
      BY <3>1, <3>2 DEF Migrator
  <2>4. mig' \in [Migrators -> Migrator]
    BY <1>12, <2>2, <2>3 DEF UpdateMigrationInfo
  <2> QED
    BY <1>12, <2>1, <2>4 DEF UpdateMigrationInfo, TypeOK
<1> QED
  BY <1>4, <1>5, <1>6, <1>7, <1>8, <1>9, <1>10, <1>11, <1>12 DEF Moves

\* A migrator that moves leaves the documents alone.
LEMMA MoveKeeps ==
    ASSUME NEW m \in Migrators, Moves(m)
    PROVE  UNCHANGED <<docs, kept, early, held>>
BY DEF Moves, Migrate, MigrateTenant, Starts, Stop, Apply, Finish, Fetch, Close, Goes,
       EnsureIndexes, UpdateMigrationInfo

\* The types hold at the start.
LEMMA TypeInit == Init => TypeOK
<1> SUFFICES ASSUME Init PROVE TypeOK
  OBVIOUS
<1>1. \A d \in indexed : Unique(docs[d])
  BY DEF Init
<1>2. Idle \in Migrator
  BY DEF Idle, Migrator
<1> QED
  BY <1>1, <1>2 DEF Init, TypeOK

\* A status update holds what a set told, or nothing.
LEMMA HeldType ==
    ASSUME TypeOK, ReadsAreKnown, [Next]_vars
    PROVE  held' \in [Updaters -> SUBSET Read]
<1>0. held \in [Updaters -> SUBSET Read] /\ docs \in [Dbs -> Contents]
  BY DEF TypeOK, Contents
<1>1. ASSUME NEW m \in Migrators, Moves(m) PROVE held' = held
  BY <1>1, MoveKeeps
<1>2. ASSUME NEW m \in Migrators, NEW old \in mig[m].batch, NEW q \in Places, UpAt(m, old, q)
      PROVE  held' = held
  BY <1>2 DEF UpAt
<1>3. ASSUME NEW d \in Dbs, NEW i \in AuthIds, NEW q \in Places, NEW new \in Doc \cup {NoDoc},
             RequestAt(d, i, q, new)
      PROVE  held' \in [Updaters -> SUBSET Read]
  <2>1. CASE held' = held
    BY <1>0, <2>1
  <2>2. ASSUME NEW u \in Updaters, held' = [held EXCEPT ![u] = {}]
        PROVE  held' \in [Updaters -> SUBSET Read]
    BY <1>0, <2>2
  <2>3. ASSUME NEW u \in Updaters, Has(docs[d], q, i), new = docs[d][q],
               held' = [held EXCEPT ![u] = {[db |-> d, id |-> i, device |-> new.device]}]
        PROVE  held' \in [Updaters -> SUBSET Read]
    <3>1. new \in Doc
      BY <1>0, <2>3 DEF Has
    <3>2. [db |-> d, id |-> i, device |-> new.device] \in Read
      BY <3>1 DEF Read, Doc
    <3> QED
      BY <1>0, <2>3, <3>2
  <2> QED
    BY <1>3, <2>1, <2>2, <2>3 DEF RequestAt, Reads
<1>4. ASSUME NEW u \in Updaters, GiveUp(u) PROVE held' \in [Updaters -> SUBSET Read]
  BY <1>0, <1>4 DEF GiveUp
<1> QED
  BY <1>0, <1>1, <1>2, <1>3, <1>4, Steps

\* Every step keeps the types.
LEMMA TypeStep ==
    ASSUME TypeOK, Positions, ReadsAreKnown, [Next]_vars
    PROVE  TypeOK'
<1>0. /\ docs \in [Dbs -> Contents] /\ mig \in [Migrators -> Migrator]
      /\ kept \in [Dbs -> SUBSET AuthIds]
  BY DEF TypeOK, Contents
<1>a. held' \in [Updaters -> SUBSET Read]
  BY HeldType
<1>1. ASSUME NEW m \in Migrators, Moves(m) PROVE TypeOK'
  BY <1>a, <1>1, MoveType, MoveKeeps DEF TypeOK
<1>2. ASSUME NEW m \in Migrators, NEW old \in mig[m].batch, NEW q \in Places, UpAt(m, old, q)
      PROVE  TypeOK'
  <2> DEFINE d == mig[m].db
  <2>1. d \in Dbs /\ mig[m] \in Migrator
    BY <1>0, <1>2 DEF UpAt, Positions, Working
  <2>2. old \in Doc
    BY <2>1 DEF Migrator
  <2>3. docs' \in [Dbs -> Contents]
    BY <1>0, <1>2, <2>1, <2>2, MigratedType DEF UpAt, Put, Contents
  <2>4. mig' \in [Migrators -> Migrator]
    <3>1. [mig[m] EXCEPT !.batch = @ \ {old}] \in Migrator
      BY <2>1 DEF Migrator
    <3> QED
      BY <1>0, <1>2, <3>1 DEF UpAt
  <2>5. \A e \in indexed : Unique(docs'[e])
    <3>1. SUFFICES ASSUME d \in indexed PROVE Unique(Put(docs[d], q, Migrated(old)))
      BY <1>0, <1>2, <2>1 DEF UpAt, TypeOK
    <3> QED
      BY <1>0, <1>2, <2>1, <2>2, <3>1, MigratedType, PutUnique DEF UpAt, TypeOK
  <2> QED
    BY <1>a, <1>2, <2>1, <2>3, <2>4, <2>5 DEF UpAt, TypeOK, Contents
<1>3. ASSUME NEW d \in Dbs, NEW i \in AuthIds, NEW q \in Places, NEW new \in Doc \cup {NoDoc},
             RequestAt(d, i, q, new)
      PROVE  TypeOK'
  <2>1. docs' \in [Dbs -> Contents]
    BY <1>0, <1>3 DEF RequestAt, Put, Contents
  <2>2. kept' \in [Dbs -> SUBSET AuthIds] /\ early' \subseteq Dbs
    BY <1>0, <1>3 DEF RequestAt, TypeOK
  <2>3. /\ indexed' \subseteq listed' /\ recorded' \subseteq indexed' /\ listed' \subseteq Dbs
        /\ \A e \in indexed' : Unique(docs[e])
    BY <1>3 DEF RequestAt, TypeOK
  <2>4. ASSUME Unique(docs[d]) PROVE Unique(Put(docs[d], q, new))
    <3>1. Has(Put(docs[d], q, new), q, i) => new.id = i
      BY <1>0 DEF Has, Put, Contents
    <3> QED
      BY <1>0, <1>3, <2>4, <3>1, PutUnique DEF RequestAt
  <2>5. \A e \in indexed' : Unique(docs'[e])
    BY <1>0, <1>3, <2>3, <2>4 DEF RequestAt, TypeOK
  <2> QED
    BY <1>a, <1>3, <2>1, <2>2, <2>3, <2>5 DEF RequestAt, TypeOK, Contents
<1>4. CASE UNCHANGED Data
  BY <1>a, <1>4 DEF Data, TypeOK
<1> QED
  BY <1>1, <1>2, <1>3, <1>4, Steps

-----------------------------------------------------------------------------
(* Migrators.                                                              *)

\* m moves from one state to another, and the databases with it.
Became(m, new) ==
    /\ mig'[m] = new
    /\ \A n \in Migrators \ {m} : mig'[n] = mig[n]

\* What a migrator keeps when it learns of a rival, and when it takes a database.
LEMMA Fields ==
    ASSUME NEW s \in Migrator, NEW b, NEW t, NEW d
    PROVE  /\ LET n == [s EXCEPT !.rival = b]
              IN /\ n.at = s.at /\ n.kind = s.kind /\ n.found = s.found /\ n.todo = s.todo
                 /\ n.db = s.db /\ n.rest = s.rest /\ n.batch = s.batch /\ n.rival = b
           /\ LET n == [s EXCEPT !.todo = t]
              IN /\ n.at = s.at /\ n.kind = s.kind /\ n.found = s.found /\ n.todo = t
                 /\ n.db = s.db /\ n.rest = s.rest /\ n.batch = s.batch /\ n.rival = s.rival
           /\ LET n == [s EXCEPT !.todo = t, !.at = "up", !.db = d, !.rest = Places]
              IN /\ n.at = "up" /\ n.kind = s.kind /\ n.found = s.found /\ n.todo = t
                 /\ n.db = d /\ n.rest = Places /\ n.batch = s.batch /\ n.rival = s.rival
BY DEF Migrator

\* The moves of a migrator, one by one.
LEMMA MoveShape ==
    ASSUME TypeOK, NEW m \in Migrators, Moves(m)
    PROVE  \/ Became(m, Idle) /\ UNCHANGED <<indexed, listed, recorded>>
           \/ /\ \E kind \in {"server", "automigrate", "tenant"}, dbs \in SUBSET Dbs :
                    /\ Became(m, [Idle EXCEPT !.at = "next", !.kind = kind,
                                              !.found = dbs, !.todo = dbs])
                    /\ kind # "tenant" => listed \cap Tenants \subseteq dbs
              /\ UNCHANGED <<indexed, listed, recorded>>
           \/ /\ mig[m].at = "next"
              /\ \E d \in mig[m].todo :
                    \/ d \in recorded /\ Became(m, [mig[m] EXCEPT !.todo = @ \ {d}])
                    \/ /\ d \notin recorded
                       /\ Became(m, [mig[m] EXCEPT !.todo = @ \ {d}, !.at = "up", !.db = d,
                                                   !.rest = Places])
              /\ UNCHANGED <<indexed, listed, recorded>>
           \/ /\ mig[m].at = "next" /\ mig[m].todo = {} /\ mig[m].kind # "tenant"
              /\ Became(m, [mig[m] EXCEPT !.at = "serving"])
              /\ UNCHANGED <<indexed, listed, recorded>>
           \/ /\ mig[m].at = "up"
              /\ \E ps \in SUBSET mig[m].rest :
                    Became(m, [mig[m] EXCEPT
                      !.rest = @ \ ps,
                      !.batch = @ \cup ({docs[mig[m].db][p] : p \in ps} \ {NoDoc})])
              /\ UNCHANGED <<indexed, listed, recorded>>
           \/ /\ mig[m].at = "up" /\ mig[m].rest = {} /\ mig[m].batch = {}
              /\ Became(m, [mig[m] EXCEPT !.at = "index"])
              /\ UNCHANGED <<indexed, listed, recorded>>
           \/ /\ mig[m].at = "index" /\ Became(m, [mig[m] EXCEPT !.at = "record"])
              /\ indexed' = indexed \cup {mig[m].db} /\ listed' = listed \cup {mig[m].db}
              /\ UNCHANGED recorded
           \/ UpdateMigrationInfo(m)
<1>0. mig \in [Migrators -> Migrator]
  BY DEF TypeOK
<1>1. ASSUME NEW s, Goes(m, s)
      PROVE  Became(m, s) /\ UNCHANGED <<indexed, listed, recorded>>
  BY <1>0, <1>1 DEF Goes, Became
<1>2. CASE Migrate(m)
  <2>1. PICK kind \in {"server", "automigrate"} :
           Starts(m, kind, IF listed \cap Tenants = {} THEN {DefaultDb} ELSE listed \cap Tenants)
    BY <1>2 DEF Migrate
  <2> DEFINE dbs == IF listed \cap Tenants = {} THEN {DefaultDb} ELSE listed \cap Tenants
  <2>2. dbs \in SUBSET Dbs /\ listed \cap Tenants \subseteq dbs
    BY DEF Dbs
  <2>3. Goes(m, [Idle EXCEPT !.at = "next", !.kind = kind, !.found = dbs, !.todo = dbs])
    BY <2>1 DEF Starts
  <2> HIDE DEF dbs
  <2>4. Became(m, [Idle EXCEPT !.at = "next", !.kind = kind, !.found = dbs, !.todo = dbs])
        /\ UNCHANGED <<indexed, listed, recorded>>
    BY <2>3, <1>1
  <2> QED
    BY <2>2, <2>4
<1>3. CASE MigrateTenant(m)
  <2>1. PICK d \in Dbs : Starts(m, "tenant", {d})
    BY <1>3 DEF MigrateTenant
  <2>2. Goes(m, [Idle EXCEPT !.at = "next", !.kind = "tenant", !.found = {d}, !.todo = {d}])
    BY <2>1 DEF Starts
  <2>3. Became(m, [Idle EXCEPT !.at = "next", !.kind = "tenant", !.found = {d}, !.todo = {d}])
        /\ UNCHANGED <<indexed, listed, recorded>>
    BY <2>2, <1>1
  <2>4. {d} \in SUBSET Dbs
    OBVIOUS
  <2> QED
    BY <2>3, <2>4
<1>4. CASE Stop(m)
  BY <1>4, <1>1 DEF Stop
<1>5. CASE Apply(m)
  <2>1. mig[m].at = "next" /\ (Goes(m, Idle) \/ \E d \in mig[m].todo :
           \/ d \in recorded /\ Goes(m, [mig[m] EXCEPT !.todo = @ \ {d}])
           \/ d \notin recorded /\ Goes(m, [mig[m] EXCEPT !.todo = @ \ {d}, !.at = "up", !.db = d,
                                                          !.rest = Places]))
    BY <1>5 DEF Apply
  <2> QED
    BY <2>1, <1>1
<1>6. CASE Finish(m)
  BY <1>6, <1>1 DEF Finish
<1>7. CASE Fetch(m)
  <2>1. mig[m].at = "up" /\ \E ps \in SUBSET mig[m].rest :
          Goes(m, [mig[m] EXCEPT
                      !.rest = @ \ ps,
                      !.batch = @ \cup ({docs[mig[m].db][p] : p \in ps} \ {NoDoc})])
    BY <1>7 DEF Fetch
  <2> QED
    BY <2>1, <1>1
<1>8. CASE Close(m)
  BY <1>8, <1>1 DEF Close
<1>9. CASE EnsureIndexes(m)
  BY <1>9, <1>0 DEF EnsureIndexes, Became
<1> QED
  BY <1>2, <1>3, <1>4, <1>5, <1>6, <1>7, <1>8, <1>9 DEF Moves

\* What recording a database does to the migrators.
LEMMA RecordShape ==
    ASSUME TypeOK, Positions, NEW m \in Migrators, UpdateMigrationInfo(m)
    PROVE  /\ mig[m].at = "record" /\ mig[m].db \in Dbs /\ mig[m].db \in indexed
           /\ mig[m].rest = {} /\ mig[m].batch = {}
           /\ mig'[m] = [mig[m] EXCEPT !.at = "next", !.db = NoDb, !.rival = FALSE]
           /\ \A n \in Migrators \ {m} :
                 mig'[n] = [mig[n] EXCEPT !.rival = @ \/ mig[n].db = mig[m].db]
           /\ recorded' = recorded \cup {mig[m].db}
           /\ UNCHANGED <<indexed, listed>>
BY DEF UpdateMigrationInfo, Positions, Working, TypeOK

\* What writing a document does to them.
LEMMA UpBecomes ==
    ASSUME TypeOK, Positions, NEW m \in Migrators, NEW old \in mig[m].batch, NEW q \in Places,
           UpAt(m, old, q)
    PROVE  /\ Became(m, [mig[m] EXCEPT !.batch = @ \ {old}])
           /\ mig[m].at = "up" /\ mig[m].db \in Dbs /\ old \in Doc
BY DEF UpAt, Became, Positions, Working, TypeOK, Migrator

\* What a migrator holds fits where it is.
LEMMA PositionsStep ==
    ASSUME TypeOK, Positions, ReadsAreKnown, [Next]_vars
    PROVE  Positions'
<1>0. \A n \in Migrators : mig[n] \in Migrator
  BY DEF TypeOK
<1>a. NoDb \notin Dbs
  OBVIOUS
<1>1. ASSUME NEW m \in Migrators, NEW s \in Migrator, Became(m, s), indexed \subseteq indexed',
             s.at \in {"up", "index", "record"} => s.db \in Dbs,
             s.at \notin {"up", "index", "record"} => s.db = NoDb,
             s.at # "up" => s.batch = {},
             s.at \in {"index", "record"} => s.rest = {},
             s.at = "record" => s.db \in indexed'
      PROVE  Positions'
  BY <1>1 DEF Positions, Became, Working
<1>2. ASSUME NEW m \in Migrators, Moves(m) PROVE Positions'
  <2>1. mig[m] \in Migrator /\ mig'[m] \in Migrator
    BY <1>0, <1>2, MoveType
  <2>2. /\ mig[m].at = "next" => mig[m].db = NoDb /\ mig[m].batch = {}
        /\ mig[m].at = "up" => mig[m].db \in Dbs
        /\ mig[m].at = "index" => mig[m].db \in Dbs /\ mig[m].batch = {} /\ mig[m].rest = {}
    BY DEF Positions, Working
  <2>3. CASE UpdateMigrationInfo(m)
    <3>1. /\ mig[m].batch = {} /\ recorded' = recorded \cup {mig[m].db}
          /\ mig'[m] = [mig[m] EXCEPT !.at = "next", !.db = NoDb, !.rival = FALSE]
          /\ \A n \in Migrators \ {m} :
                mig'[n] = [mig[n] EXCEPT !.rival = @ \/ mig[n].db = mig[m].db]
          /\ UNCHANGED indexed
      BY <2>3, RecordShape
    <3>2. mig'[m].at = "next" /\ mig'[m].db = NoDb /\ mig'[m].batch = {}
      BY <2>1, <3>1 DEF Migrator
    <3>3. ASSUME NEW n \in Migrators \ {m}
          PROVE  /\ mig'[n].at = mig[n].at /\ mig'[n].db = mig[n].db
                 /\ mig'[n].batch = mig[n].batch /\ mig'[n].rest = mig[n].rest
      <4> DEFINE b == mig[n].rival \/ mig[n].db = mig[m].db
      <4>1. mig'[n] = [mig[n] EXCEPT !.rival = b]
        BY <3>1
      <4> HIDE DEF b
      <4> QED
        BY <1>0, <4>1, Fields
    <3> QED
      BY <3>1, <3>2, <3>3 DEF Positions, Working
  <2>4. CASE Became(m, Idle) /\ UNCHANGED <<indexed, listed, recorded>>
    BY <2>1, <2>4, <1>1 DEF Idle, Became
  <2>5. CASE /\ \E kind \in {"server", "automigrate", "tenant"}, dbs \in SUBSET Dbs :
                    Became(m, [Idle EXCEPT !.at = "next", !.kind = kind,
                                           !.found = dbs, !.todo = dbs])
             /\ UNCHANGED <<indexed, listed, recorded>>
    BY <2>1, <2>5, <1>1 DEF Idle, Became
  <2>6. CASE /\ mig[m].at = "next"
             /\ \E d \in mig[m].todo :
                    \/ d \in recorded /\ Became(m, [mig[m] EXCEPT !.todo = @ \ {d}])
                    \/ /\ d \notin recorded
                       /\ Became(m, [mig[m] EXCEPT !.todo = @ \ {d}, !.at = "up", !.db = d,
                                                   !.rest = Places])
             /\ UNCHANGED <<indexed, listed, recorded>>
    <3>0. mig[m].at = "next"
      BY <2>6
    <3>1. mig[m].todo \subseteq Dbs
      BY <2>1 DEF Migrator
    <3>2. \/ mig'[m].db = NoDb /\ mig'[m].at = "next" /\ mig'[m].batch = {}
          \/ mig'[m].db \in Dbs /\ mig'[m].at = "up"
      <4>1. PICK d \in mig[m].todo :
               \/ mig'[m] = [mig[m] EXCEPT !.todo = @ \ {d}]
               \/ mig'[m] = [mig[m] EXCEPT !.todo = @ \ {d}, !.at = "up", !.db = d, !.rest = Places]
        BY <2>6 DEF Became
      <4>2. CASE mig'[m] = [mig[m] EXCEPT !.todo = @ \ {d}]
        BY <2>1, <2>2, <3>0, <4>2, Fields
      <4>3. CASE mig'[m] = [mig[m] EXCEPT !.todo = @ \ {d}, !.at = "up", !.db = d, !.rest = Places]
        BY <2>1, <3>1, <4>3, Fields
      <4> QED
        BY <4>1, <4>2, <4>3
    <3>3. Became(m, mig'[m])
      BY <2>6 DEF Became
    <3> QED
      BY <2>1, <2>6, <3>2, <3>3, <1>1
  <2>7. CASE /\ mig[m].at = "next" /\ Became(m, [mig[m] EXCEPT !.at = "serving"])
             /\ UNCHANGED <<indexed, listed, recorded>>
    <3>1. Became(m, mig'[m]) /\ mig'[m].at = "serving" /\ mig'[m].db = NoDb /\ mig'[m].batch = {}
      BY <2>1, <2>2, <2>7 DEF Became, Migrator
    <3> QED
      BY <2>1, <2>7, <3>1, <1>1
  <2>8. CASE /\ mig[m].at = "up"
             /\ \E ps \in SUBSET mig[m].rest :
                    Became(m, [mig[m] EXCEPT
                      !.rest = @ \ ps,
                      !.batch = @ \cup ({docs[mig[m].db][p] : p \in ps} \ {NoDoc})])
             /\ UNCHANGED <<indexed, listed, recorded>>
    <3>1. Became(m, mig'[m]) /\ mig'[m].at = "up" /\ mig'[m].db = mig[m].db
      BY <2>1, <2>2, <2>8 DEF Became, Migrator
    <3> QED
      BY <2>1, <2>2, <2>8, <3>1, <1>1
  <2>9. CASE /\ mig[m].at = "up" /\ mig[m].rest = {} /\ mig[m].batch = {}
             /\ Became(m, [mig[m] EXCEPT !.at = "index"])
             /\ UNCHANGED <<indexed, listed, recorded>>
    <3>1. /\ Became(m, mig'[m]) /\ mig'[m].at = "index" /\ mig'[m].db = mig[m].db
          /\ mig'[m].rest = {} /\ mig'[m].batch = {}
      BY <2>1, <2>2, <2>9 DEF Became, Migrator
    <3> QED
      BY <2>1, <2>2, <2>9, <3>1, <1>1
  <2>10. CASE /\ mig[m].at = "index" /\ Became(m, [mig[m] EXCEPT !.at = "record"])
              /\ indexed' = indexed \cup {mig[m].db}
    <3>1. /\ Became(m, mig'[m]) /\ mig'[m].at = "record" /\ mig'[m].db = mig[m].db
          /\ mig'[m].rest = {} /\ mig'[m].batch = {}
      BY <2>1, <2>2, <2>10 DEF Became, Migrator
    <3> QED
      BY <2>1, <2>2, <2>10, <3>1, <1>1
  <2> QED
    BY <1>2, <2>3, <2>4, <2>5, <2>6, <2>7, <2>8, <2>9, <2>10, MoveShape
<1>3. ASSUME NEW m \in Migrators, NEW old \in mig[m].batch, NEW q \in Places, UpAt(m, old, q)
      PROVE  Positions'
  <2>0. /\ mig'[m] = [mig[m] EXCEPT !.batch = @ \ {old}] /\ Became(m, mig'[m])
        /\ mig[m].at = "up" /\ mig[m].db \in Dbs
    BY <1>3, UpBecomes DEF Became
  <2>1. mig'[m].at = "up" /\ mig'[m].db = mig[m].db
    BY <1>0, <2>0 DEF Migrator
  <2>2. mig'[m] \in Migrator
    BY <1>0, <2>0 DEF Migrator
  <2> QED
    BY <1>1, <1>3, <2>0, <2>1, <2>2 DEF UpAt
<1>4. ASSUME NEW d \in Dbs, NEW i \in AuthIds, NEW q \in Places, NEW new \in Doc \cup {NoDoc},
             RequestAt(d, i, q, new)
      PROVE  Positions'
  BY <1>4 DEF RequestAt, Positions, Working
<1>5. CASE UNCHANGED Data
  BY <1>5 DEF Data, Positions, Working
<1> QED
  BY <1>2, <1>3, <1>4, <1>5, Steps

\* What a move does to the states of the migrators, field by field.
Keeps(n) ==
    /\ mig'[n].at = mig[n].at /\ mig'[n].kind = mig[n].kind
    /\ mig'[n].found = mig[n].found /\ mig'[n].todo = mig[n].todo /\ mig'[n].db = mig[n].db
    /\ mig'[n].rest = mig[n].rest /\ mig'[n].batch = mig[n].batch

KeepsPlan(m) == mig'[m].kind = mig[m].kind /\ mig'[m].found = mig[m].found

KeepsTask(m) ==
    /\ KeepsPlan(m) /\ mig'[m].todo = mig[m].todo /\ mig'[m].db = mig[m].db
    /\ mig'[m].rival = mig[m].rival

Resting(m) ==
    /\ recorded' = recorded
    /\ mig'[m].at = "idle" /\ mig'[m].found = {}

Starting(m) ==
    /\ recorded' = recorded
    /\ mig'[m].at = "next" /\ mig'[m].found = mig'[m].todo /\ mig'[m].db = NoDb
    /\ mig'[m].kind # "tenant" => listed \cap Tenants \subseteq mig'[m].found

Passing(m) ==
    /\ recorded' = recorded
    /\ mig[m].at = "next" /\ mig'[m].at = "next" /\ KeepsPlan(m) /\ mig'[m].db = mig[m].db
    /\ \E d \in recorded : mig'[m].todo = mig[m].todo \ {d}

Taking(m) ==
    /\ recorded' = recorded
    /\ mig[m].at = "next" /\ mig'[m].at = "up" /\ KeepsPlan(m) /\ mig'[m].rest = Places
    /\ mig'[m].batch = {} /\ mig'[m].db \notin recorded
    /\ mig'[m].todo = mig[m].todo \ {mig'[m].db} /\ mig'[m].db \in Dbs

Serving(m) ==
    /\ recorded' = recorded
    /\ mig[m].at = "next" /\ mig'[m].at = "serving" /\ KeepsTask(m)
    /\ mig[m].todo = {} /\ mig[m].kind # "tenant"

Fetching(m) ==
    /\ recorded' = recorded
    /\ mig[m].at = "up" /\ mig'[m].at = "up" /\ KeepsTask(m) /\ mig[m].db \in Dbs
    /\ \E ps \in SUBSET mig[m].rest :
          /\ mig'[m].rest = mig[m].rest \ ps
          /\ mig'[m].batch =
                mig[m].batch \cup ({docs[mig[m].db][p] : p \in ps} \ {NoDoc})

Ending(m) ==
    /\ recorded' = recorded
    /\ mig[m].at \in {"up", "index"} /\ mig'[m].at \in {"index", "record"} /\ KeepsTask(m)
    /\ mig'[m].rest = mig[m].rest /\ mig'[m].batch = mig[m].batch

Recording(m) ==
    /\ mig[m].at = "record" /\ mig'[m].at = "next" /\ KeepsPlan(m)
    /\ mig'[m].todo = mig[m].todo /\ mig'[m].db = NoDb
    /\ mig[m].rest = {} /\ mig[m].batch = {} /\ mig[m].db \in Dbs /\ mig[m].db \in indexed
    /\ recorded' = recorded \cup {mig[m].db}
    /\ \A n \in Migrators \ {m} : mig[n].db = mig[m].db => mig'[n].rival

\* A move is one of these.
LEMMA MoveFields ==
    ASSUME TypeOK, Positions, NEW m \in Migrators, Moves(m)
    PROVE  /\ \A n \in Migrators \ {m} :
                 Keeps(n) /\ (~mig'[n].rival => ~mig[n].rival)
           /\ recorded \subseteq recorded' /\ listed \subseteq listed'
           /\ \/ Resting(m) \/ Starting(m) \/ Passing(m) \/ Taking(m) \/ Serving(m)
              \/ Fetching(m) \/ Ending(m) \/ Recording(m)
<1>0. /\ \A n \in Migrators : mig[n] \in Migrator /\ mig'[n] \in Migrator
      /\ mig[m] \in Migrator
  BY MoveType DEF TypeOK
<1>1. ASSUME NEW s, Became(m, s)
      PROVE  \A n \in Migrators \ {m} : Keeps(n) /\ (~mig'[n].rival => ~mig[n].rival)
  BY <1>1 DEF Became, Keeps
<1>2. CASE Became(m, Idle) /\ UNCHANGED <<indexed, listed, recorded>>
  BY <1>1, <1>2 DEF Idle, Became, Resting
<1>3. CASE /\ \E kind \in {"server", "automigrate", "tenant"}, dbs \in SUBSET Dbs :
                    /\ Became(m, [Idle EXCEPT !.at = "next", !.kind = kind,
                                              !.found = dbs, !.todo = dbs])
                    /\ kind # "tenant" => listed \cap Tenants \subseteq dbs
           /\ UNCHANGED <<indexed, listed, recorded>>
  <2>1. PICK kind \in {"server", "automigrate", "tenant"}, dbs \in SUBSET Dbs :
                    /\ Became(m, [Idle EXCEPT !.at = "next", !.kind = kind,
                                              !.found = dbs, !.todo = dbs])
                    /\ kind # "tenant" => listed \cap Tenants \subseteq dbs
    BY <1>3
  <2>2. /\ mig'[m].at = "next" /\ mig'[m].kind = kind /\ mig'[m].found = dbs
        /\ mig'[m].todo = dbs /\ mig'[m].db = NoDb
    BY <2>1 DEF Became, Idle
  <2> QED
    BY <1>1, <1>3, <2>1, <2>2 DEF Starting
<1>4. CASE /\ mig[m].at = "next"
           /\ \E d \in mig[m].todo :
                    \/ d \in recorded /\ Became(m, [mig[m] EXCEPT !.todo = @ \ {d}])
                    \/ /\ d \notin recorded
                       /\ Became(m, [mig[m] EXCEPT !.todo = @ \ {d}, !.at = "up", !.db = d,
                                                   !.rest = Places])
           /\ UNCHANGED <<indexed, listed, recorded>>
  <2>1. PICK d \in mig[m].todo :
                    \/ d \in recorded /\ Became(m, [mig[m] EXCEPT !.todo = @ \ {d}])
                    \/ /\ d \notin recorded
                       /\ Became(m, [mig[m] EXCEPT !.todo = @ \ {d}, !.at = "up", !.db = d,
                                                   !.rest = Places])
    BY <1>4
  <2>2. /\ mig[m].at = "next" /\ d \in Dbs /\ mig[m].batch = {}
        /\ UNCHANGED <<indexed, listed, recorded>>
    BY <1>0, <1>4, <2>1 DEF Migrator, Positions
  <2>3. CASE d \in recorded /\ Became(m, [mig[m] EXCEPT !.todo = @ \ {d}])
    <3>1. mig'[m] = [mig[m] EXCEPT !.todo = @ \ {d}]
      BY <2>3 DEF Became
    <3>2. Passing(m)
      BY <1>0, <2>2, <2>3, <3>1, Fields DEF Passing, KeepsPlan
    <3> QED
      BY <1>1, <2>2, <2>3, <3>2
  <2>4. CASE /\ d \notin recorded
             /\ Became(m, [mig[m] EXCEPT !.todo = @ \ {d}, !.at = "up", !.db = d,
                                         !.rest = Places])
    <3>1. mig'[m] = [mig[m] EXCEPT !.todo = @ \ {d}, !.at = "up", !.db = d, !.rest = Places]
      BY <2>4 DEF Became
    <3>2. Taking(m)
      BY <1>0, <2>2, <2>4, <3>1, Fields DEF Taking, KeepsPlan
    <3> QED
      BY <1>1, <2>2, <2>4, <3>2
  <2> QED
    BY <2>1, <2>3, <2>4
<1>5. CASE /\ mig[m].at = "next" /\ mig[m].todo = {} /\ mig[m].kind # "tenant"
           /\ Became(m, [mig[m] EXCEPT !.at = "serving"])
           /\ UNCHANGED <<indexed, listed, recorded>>
  BY <1>0, <1>1, <1>5 DEF Became, Serving, KeepsTask, KeepsPlan, Migrator
<1>6. CASE /\ mig[m].at = "up"
           /\ \E ps \in SUBSET mig[m].rest :
                    Became(m, [mig[m] EXCEPT
                      !.rest = @ \ ps,
                      !.batch = @ \cup ({docs[mig[m].db][p] : p \in ps} \ {NoDoc})])
           /\ UNCHANGED <<indexed, listed, recorded>>
  <2>1. PICK ps \in SUBSET mig[m].rest :
                    Became(m, [mig[m] EXCEPT
                      !.rest = @ \ ps,
                      !.batch = @ \cup ({docs[mig[m].db][p] : p \in ps} \ {NoDoc})])
    BY <1>6
  <2> DEFINE more == {docs[mig[m].db][p] : p \in ps} \ {NoDoc}
  <2>2. mig'[m] = [mig[m] EXCEPT !.rest = @ \ ps, !.batch = @ \cup more]
    BY <2>1 DEF Became
  <2> HIDE DEF more
  <2>3. /\ mig'[m].rest = mig[m].rest \ ps /\ mig'[m].batch = mig[m].batch \cup more
        /\ mig'[m].at = mig[m].at /\ KeepsTask(m)
    BY <1>0, <2>2 DEF KeepsTask, KeepsPlan, Migrator
  <2>4. mig[m].at = "up" /\ mig[m].db \in Dbs /\ UNCHANGED <<indexed, listed, recorded>>
    BY <1>6 DEF Positions, Working
  <2>5. Fetching(m)
    BY <2>3, <2>4 DEF Fetching, more
  <2> QED
    BY <1>1, <2>1, <2>4, <2>5
<1>7. CASE /\ mig[m].at = "up" /\ mig[m].rest = {} /\ mig[m].batch = {}
           /\ Became(m, [mig[m] EXCEPT !.at = "index"])
           /\ UNCHANGED <<indexed, listed, recorded>>
  BY <1>0, <1>1, <1>7 DEF Became, Ending, KeepsTask, KeepsPlan, Migrator
<1>8. CASE /\ mig[m].at = "index" /\ Became(m, [mig[m] EXCEPT !.at = "record"])
           /\ indexed' = indexed \cup {mig[m].db} /\ listed' = listed \cup {mig[m].db}
           /\ UNCHANGED recorded
  BY <1>0, <1>1, <1>8 DEF Became, Ending, KeepsTask, KeepsPlan, Migrator
<1>9. CASE UpdateMigrationInfo(m)
  <2>1. /\ mig[m].at = "record" /\ mig[m].db \in Dbs /\ mig[m].db \in indexed
        /\ mig[m].rest = {} /\ mig[m].batch = {}
        /\ mig'[m] = [mig[m] EXCEPT !.at = "next", !.db = NoDb, !.rival = FALSE]
        /\ \A n \in Migrators \ {m} :
              mig'[n] = [mig[n] EXCEPT !.rival = @ \/ mig[n].db = mig[m].db]
        /\ recorded' = recorded \cup {mig[m].db}
        /\ UNCHANGED <<indexed, listed>>
    BY <1>9, RecordShape
  <2>2. ASSUME NEW n \in Migrators \ {m}
        PROVE  /\ Keeps(n) /\ (~mig'[n].rival => ~mig[n].rival)
               /\ mig[n].db = mig[m].db => mig'[n].rival
    <3> DEFINE b == mig[n].rival \/ mig[n].db = mig[m].db
    <3>1. mig'[n] = [mig[n] EXCEPT !.rival = b]
      BY <2>1
    <3>2. Keeps(n) /\ mig'[n].rival = b
      <4> HIDE DEF b
      <4> QED
        BY <1>0, <3>1, Fields DEF Keeps
    <3> QED
      BY <3>2
  <2>3. /\ mig'[m].at = "next" /\ KeepsPlan(m) /\ mig'[m].todo = mig[m].todo
        /\ mig'[m].db = NoDb
    BY <1>0, <2>1 DEF KeepsPlan, Migrator
  <2>4. Recording(m)
    BY <2>1, <2>2, <2>3 DEF Recording
  <2> QED
    BY <2>1, <2>2, <2>4
<1> QED
  BY <1>2, <1>3, <1>4, <1>5, <1>6, <1>7, <1>8, <1>9, MoveShape

-----------------------------------------------------------------------------
(* Documents.                                                              *)

\* An upsert leaves one migrated document more, and one less in the batch.
LEMMA UpFields ==
    ASSUME TypeOK, Positions, NEW m \in Migrators, NEW old \in mig[m].batch, NEW q \in Places,
           UpAt(m, old, q)
    PROVE  /\ old \in Doc /\ mig[m].at = "up" /\ mig[m].db \in Dbs
           /\ docs'[mig[m].db][q] = Migrated(old)
           /\ \A e \in Dbs, p \in Places :
                 e # mig[m].db \/ p # q => docs'[e][p] = docs[e][p]
           /\ \A n \in Migrators \ {m} : mig'[n] = mig[n]
           /\ mig'[m].at = "up" /\ KeepsTask(m) /\ mig'[m].rest = mig[m].rest
           /\ mig'[m].batch = mig[m].batch \ {old}
<1>1. /\ Became(m, [mig[m] EXCEPT !.batch = @ \ {old}])
      /\ mig[m].at = "up" /\ mig[m].db \in Dbs /\ old \in Doc /\ mig[m] \in Migrator
  BY UpBecomes DEF TypeOK
<1>2. /\ mig'[m].at = "up" /\ KeepsTask(m) /\ mig'[m].rest = mig[m].rest
      /\ mig'[m].batch = mig[m].batch \ {old}
  BY <1>1 DEF Became, KeepsTask, KeepsPlan, Migrator
<1>3. docs' = [docs EXCEPT ![mig[m].db] = Put(docs[mig[m].db], q, Migrated(old))]
  BY DEF UpAt
<1>4. /\ docs'[mig[m].db][q] = Migrated(old)
      /\ \A e \in Dbs, p \in Places : e # mig[m].db \/ p # q => docs'[e][p] = docs[e][p]
  BY <1>1, <1>3 DEF Put, TypeOK
<1>5. \A n \in Migrators \ {m} : mig'[n] = mig[n]
  BY <1>1 DEF Became
<1> QED
  BY <1>1, <1>2, <1>4, <1>5

\* What a request leaves in a place has a device id if what was there had one, but for
\* an early read of the default database that is written back.
LEMMA RequestFields ==
    ASSUME TypeOK, NEW d \in Dbs, NEW i \in AuthIds, NEW q \in Places,
           NEW new \in Doc \cup {NoDoc}, RequestAt(d, i, q, new)
    PROVE  /\ docs'[d][q] = new
           /\ \A e \in Dbs, p \in Places : e # d \/ p # q => docs'[e][p] = docs[e][p]
           /\ new # NoDoc => new.id = i
           /\ (docs[d][q] = NoDoc \/ docs[d][q].id = i)
           /\ IsOld(docs'[d], q) =>
                 IsOld(docs[d], q) \/ (d = DefaultDb /\ d \in early /\ d \in listed')
<1>0. docs' = [docs EXCEPT ![d] = Put(docs[d], q, new)]
  BY DEF RequestAt
<1>1. /\ docs'[d][q] = new
      /\ \A e \in Dbs, p \in Places : e # d \/ p # q => docs'[e][p] = docs[e][p]
  BY <1>0 DEF Put, TypeOK
<1>2. Put(docs[d], q, new)[q] = new
  BY DEF Put, TypeOK
<1>3. \/ new = NoDoc /\ Has(docs[d], q, i)
      \/ /\ Has(docs[d], q, i) /\ Has(Put(docs[d], q, new), q, i)
         /\ new.device = "unset" => docs[d][q].device = "unset"
      \/ /\ Has(Put(docs[d], q, new), q, i) /\ docs[d][q] = NoDoc
         /\ new.device = "unset" => d = DefaultDb /\ d \in early /\ d \in listed'
  BY DEF RequestAt
<1>4. docs[d][q] = NoDoc \/ docs[d][q].id = i
  BY <1>3 DEF Has
<1>5. new # NoDoc => new.id = i
  BY <1>2, <1>3 DEF Has
<1>6. IsOld(docs'[d], q) =>
         IsOld(docs[d], q) \/ (d = DefaultDb /\ d \in early /\ d \in listed')
  BY <1>1, <1>3 DEF IsOld, Has
<1> QED
  BY <1>1, <1>4, <1>5, <1>6

\* Nothing else makes a document of the old shape.
LEMMA OldShrinks ==
    ASSUME TypeOK, Positions, ReadsAreKnown, [Next]_vars,
           NEW d \in Dbs, NEW p \in Places, IsOld(docs'[d], p),
           ~(d = DefaultDb /\ d \in early /\ d \in listed')
    PROVE  IsOld(docs[d], p)
<1>1. ASSUME NEW m \in Migrators, Moves(m) PROVE IsOld(docs[d], p)
  BY <1>1, MoveKeeps
<1>2. ASSUME NEW m \in Migrators, NEW old \in mig[m].batch, NEW q \in Places, UpAt(m, old, q)
      PROVE  IsOld(docs[d], p)
  BY <1>2, UpFields, MigratedType DEF IsOld
<1>3. ASSUME NEW e \in Dbs, NEW i \in AuthIds, NEW q \in Places, NEW new \in Doc \cup {NoDoc},
             RequestAt(e, i, q, new)
      PROVE  IsOld(docs[d], p)
  <2>1. CASE d = e /\ p = q
    BY <1>3, <2>1, RequestFields
  <2>2. CASE d # e \/ p # q
    BY <1>3, <2>2, RequestFields DEF IsOld
  <2> QED
    BY <2>1, <2>2
<1>4. CASE UNCHANGED Data
  BY <1>4 DEF Data
<1> QED
  BY <1>1, <1>2, <1>3, <1>4, Steps

\* Sets that are kept stay.
LEMMA KeptStep ==
    ASSUME TypeOK, Positions, ReadsAreKnown, KeptAreThere, [Next]_vars
    PROVE  KeptAreThere'
<1>1. ASSUME NEW m \in Migrators, Moves(m) PROVE KeptAreThere'
  BY <1>1, MoveKeeps DEF KeptAreThere
<1>2. ASSUME NEW m \in Migrators, NEW old \in mig[m].batch, NEW q \in Places, UpAt(m, old, q)
      PROVE  KeptAreThere'
  <2>1. SUFFICES ASSUME NEW d \in Dbs, NEW i \in kept[d]
                 PROVE  \E p \in Places : Has(docs'[d], p, i)
    BY <1>2 DEF UpAt, KeptAreThere
  <2>2. PICK p \in Places : Has(docs[d], p, i)
    BY DEF KeptAreThere
  <2>3. d = mig[m].db /\ p = q => docs[d][q].id = old.id /\ Has(docs'[d], p, old.id)
    <3>1. old \in Doc /\ docs'[mig[m].db][q] = Migrated(old)
      BY <1>2, UpFields
    <3>2. d = mig[m].db /\ p = q => Has(docs[d], q, old.id)
      BY <1>2, <2>2 DEF UpAt, Has
    <3> QED
      BY <3>1, <3>2, MigratedType DEF Has
  <2>4. d # mig[m].db \/ p # q => docs'[d][p] = docs[d][p]
    BY <1>2, UpFields
  <2> QED
    BY <2>2, <2>3, <2>4 DEF Has
<1>3. ASSUME NEW d \in Dbs, NEW i \in AuthIds, NEW q \in Places, NEW new \in Doc \cup {NoDoc},
             RequestAt(d, i, q, new)
      PROVE  KeptAreThere'
  <2>0. /\ docs'[d][q] = new /\ (new # NoDoc => new.id = i)
        /\ \A e \in Dbs, p \in Places : e # d \/ p # q => docs'[e][p] = docs[e][p]
        /\ docs[d][q] = NoDoc \/ docs[d][q].id = i
    BY <1>3, RequestFields
  <2>1. PICK ids \in SUBSET AuthIds :
           kept' = [kept EXCEPT ![d] = ids] /\ \A j \in ids : j \in kept[d] \/ j = i
    BY <1>3 DEF RequestAt
  <2>2. kept'[d] = ids /\ \A e \in Dbs \ {d} : kept'[e] = kept[e]
    BY <2>1 DEF TypeOK
  <2>3. ASSUME NEW e \in Dbs, NEW j \in kept'[e], e # d \/ j # i
        PROVE  \E p \in Places : Has(docs'[e], p, j)
    <3>1. PICK p \in Places : Has(docs[e], p, j)
      BY <2>1, <2>2, <2>3 DEF KeptAreThere
    <3> QED
      BY <2>0, <2>3, <3>1 DEF Has
  <2>4. ASSUME i \in kept'[d] PROVE Has(docs'[d], q, i)
    <3>1. Put(docs[d], q, new)[q] = new
      BY DEF Put, TypeOK
    <3> QED
      BY <1>3, <2>0, <2>4, <3>1 DEF RequestAt, Has
  <2> QED
    BY <2>3, <2>4 DEF KeptAreThere
<1>4. CASE UNCHANGED Data
  BY <1>4 DEF Data, KeptAreThere
<1> QED
  BY <1>1, <1>2, <1>3, <1>4, Steps

\* Databases that no request wrote to hold what they held.
LEMMA UntouchedStep ==
    ASSUME TypeOK, Positions, ReadsAreKnown, Untouched, [Next]_vars
    PROVE  Untouched'
<1>0. \A n \in Migrators : mig[n] \in Migrator
  BY DEF TypeOK
<1>1. ASSUME NEW m \in Migrators, Moves(m) PROVE Untouched'
  <2>1. SUFFICES ASSUME NEW d \in Dbs, d \notin early, d \notin recorded,
                        NEW n \in Migrators, mig'[n].at = "up", mig'[n].db = d,
                        NEW old \in mig'[n].batch
                 PROVE  old.id \in kept[d]
    BY <1>1, MoveKeeps, MoveFields DEF Untouched
  <2>2. CASE mig[n].at = "up" /\ mig[n].db = d /\ mig'[n].batch = mig[n].batch
    BY <2>1, <2>2 DEF Untouched
  <2>3. CASE n = m /\ Taking(m)
    BY <2>1, <2>3 DEF Taking
  <2>4. CASE n = m /\ Fetching(m)
    <3>1. old \in mig[m].batch \/ \E p \in Places : old = docs[d][p] /\ old # NoDoc
      BY <1>0, <2>1, <2>4 DEF Fetching, KeepsTask, Migrator
    <3> QED
      BY <2>1, <2>4, <3>1 DEF Untouched, Fetching, KeepsTask
  <2>5. n = m => Taking(m) \/ Fetching(m)
    BY <1>1, <2>1, MoveFields DEF Resting, Starting, Passing, Serving, Ending, Recording
  <2> QED
    BY <1>1, <2>1, <2>2, <2>3, <2>4, <2>5, MoveFields DEF Keeps
<1>2. ASSUME NEW m \in Migrators, NEW old \in mig[m].batch, NEW q \in Places, UpAt(m, old, q)
      PROVE  Untouched'
  <2> USE <1>2, UpFields
  <2>1. UNCHANGED <<recorded, kept, early>>
    BY DEF UpAt
  <2>2. ASSUME NEW d \in Dbs \ (early \cup recorded), NEW p \in Places, docs'[d][p] # NoDoc
        PROVE  docs'[d][p].id \in kept[d] /\ docs'[d][p].device # "given"
    <3>1. CASE d = mig[m].db /\ p = q
      BY <2>2, <3>1, MigratedType DEF Untouched
    <3>2. CASE d # mig[m].db \/ p # q
      BY <2>2, <3>2 DEF Untouched
    <3> QED
      BY <3>1, <3>2
  <2>3. ASSUME NEW d \in Dbs \ (early \cup recorded), NEW n \in Migrators,
               mig'[n].at = "up", mig'[n].db = d, NEW b \in mig'[n].batch
        PROVE  b.id \in kept[d]
    BY <2>3 DEF Untouched, KeepsTask
  <2> QED
    BY <2>1, <2>2, <2>3 DEF Untouched
<1>3. ASSUME NEW d \in Dbs, NEW i \in AuthIds, NEW q \in Places, NEW new \in Doc \cup {NoDoc},
             RequestAt(d, i, q, new)
      PROVE  Untouched'
  <2>1. /\ early' = (IF d \in recorded THEN early ELSE early \cup {d})
        /\ UNCHANGED <<recorded, mig>>
        /\ \A e \in Dbs \ {d} : kept'[e] = kept[e]
    BY <1>3 DEF RequestAt, TypeOK
  <2>2. \A e \in Dbs, p \in Places : e # d => docs'[e][p] = docs[e][p]
    BY <1>3, RequestFields
  <2> QED
    BY <2>1, <2>2 DEF Untouched
<1>4. CASE UNCHANGED Data
  BY <1>4 DEF Data, Untouched
<1> QED
  BY <1>1, <1>2, <1>3, <1>4, Steps

\* Once recorded, a database has no document of the old shape left.
LEMMA NoneLeftStep ==
    ASSUME TypeOK, Positions, ReadsAreKnown, NoneLeft, Ahead, [Next]_vars
    PROVE  NoneLeft'
<1>1. SUFFICES ASSUME NEW d \in recorded', d \notin early', NEW p \in Places, IsOld(docs'[d], p)
               PROVE  FALSE
  BY DEF NoneLeft
<1>2. early \subseteq early' /\ recorded \subseteq recorded'
  <2>1. ASSUME NEW m \in Migrators, Moves(m) PROVE early \subseteq early' /\ recorded \subseteq recorded'
    BY <2>1, MoveKeeps, MoveFields
  <2> QED
    BY <2>1, Steps DEF UpAt, RequestAt, Data
<1>3. d \in Dbs
  BY TypeStep DEF TypeOK
<1>4. IsOld(docs[d], p)
  BY <1>1, <1>2, <1>3, OldShrinks
<1>5. d \notin recorded
  BY <1>1, <1>2, <1>4 DEF NoneLeft
<1>6. PICK m \in Migrators : Recording(m) /\ d = mig[m].db
  <2>1. ASSUME NEW m \in Migrators, Moves(m) PROVE Recording(m) /\ d = mig[m].db
    BY <1>1, <1>5, <2>1, MoveFields
       DEF Recording, Resting, Starting, Passing, Taking, Serving, Fetching, Ending
  <2> QED
    BY <1>1, <1>5, <2>1, Steps DEF UpAt, RequestAt, Data
<1>7. PICK q \in Places \ {p} : Has(docs[d], q, docs[d][p].id)
  BY <1>1, <1>2, <1>4, <1>6 DEF Ahead, Working, Recording
<1>8. d \in indexed /\ docs[d] \in Contents
  BY <1>3, <1>6 DEF Recording, TypeOK, Contents
<1>9. docs[d][p].id \in AuthIds
  BY <1>4, <1>8 DEF Contents, IsOld, Doc
<1> QED
  BY <1>4, <1>7, <1>8, <1>9 DEF TypeOK, Unique, Of, Has, IsOld

\* Until then each migrator at work has them ahead.
LEMMA AheadStep ==
    ASSUME TypeOK, Positions, ReadsAreKnown, NoneLeft, Ahead, [Next]_vars
    PROVE  Ahead'
<1>1. ASSUME NEW m \in Migrators, Moves(m) PROVE Ahead'
  <2>1. SUFFICES ASSUME NEW n \in Migrators, Working(n)', mig'[n].db \notin early,
                        NEW p \in Places, IsOld(docs[mig'[n].db], p)
                 PROVE  \/ p \in mig'[n].rest
                        \/ docs[mig'[n].db][p] \in mig'[n].batch
                        \/ \E q \in Places \ {p} :
                              Has(docs[mig'[n].db], q, docs[mig'[n].db][p].id)
    BY <1>1, MoveKeeps DEF Ahead
  <2>2. CASE n # m
    BY <1>1, <2>1, <2>2, MoveFields DEF Keeps, Ahead, Working
  <2>3. CASE n = m /\ Taking(m)
    BY <2>1, <2>3 DEF Taking
  <2>4. CASE n = m /\ Fetching(m)
    <3> DEFINE c == docs[mig[m].db]
    <3>1. mig'[m].db = mig[m].db /\ Working(m)
      BY <2>4 DEF Fetching, KeepsTask, Working
    <3>2. PICK ps \in SUBSET mig[m].rest :
             /\ mig'[m].rest = mig[m].rest \ ps
             /\ mig'[m].batch = mig[m].batch \cup ({c[x] : x \in ps} \ {NoDoc})
      BY <2>4 DEF Fetching
    <3>3. \/ p \in mig[m].rest \/ c[p] \in mig[m].batch
          \/ \E q \in Places \ {p} : Has(c, q, c[p].id)
      BY <2>1, <2>4, <3>1 DEF Ahead
    <3>4. c[p] # NoDoc
      BY <2>1, <2>4, <3>1 DEF IsOld
    <3>5. p \in mig[m].rest => p \in mig'[m].rest \/ c[p] \in mig'[m].batch
      BY <3>2, <3>4
    <3>6. c[p] \in mig[m].batch => c[p] \in mig'[m].batch
      BY <3>2
    <3> QED
      BY <2>4, <3>1, <3>3, <3>5, <3>6
  <2>5. CASE n = m /\ Ending(m)
    BY <2>1, <2>5 DEF Ending, KeepsTask, Ahead, Working
  <2>6. n = m => Taking(m) \/ Fetching(m) \/ Ending(m)
    BY <1>1, <2>1, MoveFields DEF Resting, Starting, Passing, Serving, Recording, Working
  <2> QED
    BY <2>2, <2>3, <2>4, <2>5, <2>6
<1>2. ASSUME NEW m \in Migrators, NEW old \in mig[m].batch, NEW q \in Places, UpAt(m, old, q)
      PROVE  Ahead'
  <2>0. /\ old \in Doc /\ mig[m].db \in Dbs /\ mig[m].at = "up"
        /\ docs'[mig[m].db][q] = Migrated(old)
        /\ \A e \in Dbs, p \in Places :
              e # mig[m].db \/ p # q => docs'[e][p] = docs[e][p]
        /\ \A n \in Migrators \ {m} : mig'[n] = mig[n]
        /\ mig'[m].at = "up" /\ mig'[m].db = mig[m].db /\ mig'[m].rest = mig[m].rest
        /\ mig'[m].batch = mig[m].batch \ {old}
        /\ early' = early
    BY <1>2, UpFields DEF KeepsTask, UpAt
  <2>1. /\ Has(docs'[mig[m].db], q, old.id) /\ ~IsOld(docs'[mig[m].db], q)
        /\ docs[mig[m].db][q] # NoDoc => docs[mig[m].db][q].id = old.id
    BY <1>2, <2>0, MigratedType DEF UpAt, Has, IsOld
  <2>2. SUFFICES ASSUME NEW n \in Migrators, Working(n)', mig'[n].db \notin early,
                        NEW p \in Places, IsOld(docs'[mig'[n].db], p)
                 PROVE  \/ p \in mig'[n].rest
                        \/ docs'[mig'[n].db][p] \in mig'[n].batch
                        \/ \E x \in Places \ {p} :
                              Has(docs'[mig'[n].db], x, docs'[mig'[n].db][p].id)
    BY <2>0 DEF Ahead
  <2> DEFINE d == mig[n].db
  <2>3. mig'[n].db = d /\ Working(n) /\ d \in Dbs /\ mig'[n].rest = mig[n].rest
    BY <2>0, <2>2 DEF Working, Positions
  <2>4. (d # mig[m].db \/ p # q) /\ docs'[d][p] = docs[d][p]
    BY <2>0, <2>1, <2>2, <2>3
  <2>5. \/ p \in mig[n].rest \/ docs[d][p] \in mig[n].batch
        \/ \E x \in Places \ {p} : Has(docs[d], x, docs[d][p].id)
    BY <2>2, <2>3, <2>4 DEF Ahead, IsOld
  <2>6. CASE docs[d][p] \in mig[n].batch
    <3>1. CASE n = m /\ docs[d][p] = old
      BY <2>1, <2>3, <2>4, <3>1
    <3>2. CASE n # m \/ docs[d][p] # old
      BY <2>0, <2>3, <2>4, <2>6, <3>2
    <3> QED
      BY <3>1, <3>2
  <2>7. ASSUME NEW x \in Places \ {p}, Has(docs[d], x, docs[d][p].id)
        PROVE  Has(docs'[d], x, docs'[d][p].id)
    BY <2>0, <2>1, <2>3, <2>4, <2>7 DEF Has
  <2> QED
    BY <2>3, <2>5, <2>6, <2>7
<1>3. ASSUME NEW e \in Dbs, NEW i \in AuthIds, NEW q \in Places, NEW new \in Doc \cup {NoDoc},
             RequestAt(e, i, q, new)
      PROVE  Ahead'
  <2>1. /\ early' = (IF e \in recorded THEN early ELSE early \cup {e})
        /\ UNCHANGED <<recorded, mig>>
    BY <1>3 DEF RequestAt
  <2>2. \A d \in Dbs, p \in Places : d # e => docs'[d][p] = docs[d][p]
    BY <1>3, RequestFields
  <2>3. ASSUME NEW p \in Places, e \notin early' PROVE ~IsOld(docs'[e], p)
    BY <2>1, <2>3, OldShrinks DEF NoneLeft
  <2>4. \A n \in Migrators : Working(n) => mig[n].db \in Dbs
    BY DEF Positions
  <2> QED
    BY <2>1, <2>2, <2>3, <2>4 DEF Ahead, Working, IsOld, Has
<1>4. CASE UNCHANGED Data
  BY <1>4 DEF Data, Ahead, Working
<1> QED
  BY <1>1, <1>2, <1>3, <1>4, Steps

-----------------------------------------------------------------------------
(* What migrators and servers know.                                        *)

\* A database that a migrator found leaves its list for its hands, and its hands for
\* the record.
LEMMA FoundStep ==
    ASSUME TypeOK, Positions, ReadsAreKnown, FoundAreDone, [Next]_vars
    PROVE  FoundAreDone'
<1>1. ASSUME NEW m \in Migrators, Moves(m) PROVE FoundAreDone'
  <2>1. SUFFICES ASSUME NEW n \in Migrators
                 PROVE  /\ mig'[n].found \subseteq recorded' \cup mig'[n].todo \cup {mig'[n].db}
                        /\ mig'[n].at = "serving" =>
                              mig'[n].todo = {} /\ mig'[n].kind # "tenant"
    BY DEF FoundAreDone
  <2>2. recorded \subseteq recorded'
    BY <1>1, MoveFields
  <2>3. CASE n # m
    BY <1>1, <2>2, <2>3, MoveFields DEF Keeps, FoundAreDone
  <2>4. CASE n = m /\ (Resting(m) \/ Starting(m))
    BY <2>4 DEF Resting, Starting
  <2>5. CASE n = m /\ Passing(m)
    BY <2>5 DEF Passing, KeepsPlan, FoundAreDone
  <2>6. CASE n = m /\ Taking(m)
    <3>1. mig[m].db = NoDb /\ mig[m].found \subseteq Dbs
      BY <2>6 DEF Taking, Positions, Working, TypeOK, Migrator
    <3> QED
      BY <2>6, <3>1 DEF Taking, KeepsPlan, FoundAreDone
  <2>7. CASE n = m /\ (Serving(m) \/ Fetching(m) \/ Ending(m))
    BY <2>7 DEF Serving, Fetching, Ending, KeepsTask, KeepsPlan, FoundAreDone
  <2>8. CASE n = m /\ Recording(m)
    BY <2>8 DEF Recording, KeepsPlan, FoundAreDone
  <2> QED
    BY <1>1, <2>3, <2>4, <2>5, <2>6, <2>7, <2>8, MoveFields
<1>2. ASSUME NEW m \in Migrators, NEW old \in mig[m].batch, NEW q \in Places, UpAt(m, old, q)
      PROVE  FoundAreDone'
  <2>1. recorded' = recorded
    BY <1>2 DEF UpAt
  <2> QED
    BY <1>2, <2>1, UpFields DEF FoundAreDone, KeepsTask, KeepsPlan
<1>3. ASSUME NEW d \in Dbs, NEW i \in AuthIds, NEW q \in Places, NEW new \in Doc \cup {NoDoc},
             RequestAt(d, i, q, new)
      PROVE  FoundAreDone'
  BY <1>3 DEF RequestAt, FoundAreDone
<1>4. CASE UNCHANGED Data
  BY <1>4 DEF Data, FoundAreDone
<1> QED
  BY <1>1, <1>2, <1>3, <1>4, Steps

\* Whoever records a database tells the others at work on it.
LEMMA RivalsStep ==
    ASSUME TypeOK, Positions, ReadsAreKnown, RivalsAreSeen, [Next]_vars
    PROVE  RivalsAreSeen'
<1>1. ASSUME NEW m \in Migrators, Moves(m) PROVE RivalsAreSeen'
  <2>1. SUFFICES ASSUME NEW n \in Migrators, Working(n)', ~mig'[n].rival
                 PROVE  mig'[n].db \notin recorded'
    BY DEF RivalsAreSeen
  <2>2. CASE n # m
    <3>1. Working(n) /\ mig'[n].db = mig[n].db /\ ~mig[n].rival
      BY <1>1, <2>1, <2>2, MoveFields DEF Keeps, Working
    <3>2. mig[n].db \notin recorded
      BY <3>1 DEF RivalsAreSeen
    <3>3. recorded' = recorded \/ Recording(m)
      BY <1>1, MoveFields DEF Resting, Starting, Passing, Taking, Serving, Fetching, Ending
    <3> QED
      BY <2>1, <2>2, <3>1, <3>2, <3>3 DEF Recording
  <2>3. CASE n = m /\ Taking(m)
    BY <2>3 DEF Taking
  <2>4. CASE n = m /\ (Fetching(m) \/ Ending(m))
    BY <2>1, <2>4 DEF Fetching, Ending, KeepsTask, RivalsAreSeen, Working
  <2>5. n = m => Taking(m) \/ Fetching(m) \/ Ending(m)
    BY <1>1, <2>1, MoveFields DEF Resting, Starting, Passing, Serving, Recording, Working
  <2> QED
    BY <2>2, <2>3, <2>4, <2>5
<1>2. ASSUME NEW m \in Migrators, NEW old \in mig[m].batch, NEW q \in Places, UpAt(m, old, q)
      PROVE  RivalsAreSeen'
  <2>1. recorded' = recorded
    BY <1>2 DEF UpAt
  <2> QED
    BY <1>2, <2>1, UpFields DEF RivalsAreSeen, KeepsTask, Working
<1>3. ASSUME NEW d \in Dbs, NEW i \in AuthIds, NEW q \in Places, NEW new \in Doc \cup {NoDoc},
             RequestAt(d, i, q, new)
      PROVE  RivalsAreSeen'
  BY <1>3 DEF RequestAt, RivalsAreSeen, Working
<1>4. CASE UNCHANGED Data
  BY <1>4 DEF Data, RivalsAreSeen, Working
<1> QED
  BY <1>1, <1>2, <1>3, <1>4, Steps

\* A request finds a server up, which found every tenant's database with documents of
\* the old shape and saw it recorded.
LEMMA TenantsStep ==
    ASSUME TypeOK, Positions, ReadsAreKnown, FoundAreDone, TenantsAreFound, [Next]_vars
    PROVE  TenantsAreFound'
<1>0. Tenants \subseteq Dbs
  BY DEF Dbs
<1>1. ASSUME NEW d \in Dbs, NEW p \in Places, IsOld(docs'[d], p)
      PROVE  d \in listed' /\ (d \in Tenants => d \in listed)
  <2>1. ASSUME NEW m \in Migrators, Moves(m) PROVE listed \subseteq listed'
    BY <2>1, MoveFields
  <2>2. listed \subseteq listed'
    BY <2>1, Steps DEF UpAt, RequestAt, Data
  <2> QED
    BY <1>1, <2>2, OldShrinks DEF TenantsAreFound
<1>2. ASSUME NEW n \in Migrators, NEW d \in Tenants, NEW p \in Places,
             mig'[n].at # "idle", mig'[n].kind # "tenant", IsOld(docs'[d], p)
      PROVE  d \in mig'[n].found
  <2>1. IsOld(docs[d], p) /\ d \in listed
    BY <1>0, <1>1, <1>2, OldShrinks
  <2>2. mig[n].at # "idle" /\ mig[n].kind # "tenant" => d \in mig[n].found
    BY <2>1 DEF TenantsAreFound
  <2>3. ASSUME NEW m \in Migrators, Moves(m) PROVE d \in mig'[n].found
    <3>1. CASE n # m
      BY <1>2, <2>2, <2>3, <3>1, MoveFields DEF Keeps
    <3>2. CASE n = m /\ Starting(m)
      BY <1>2, <2>1, <3>2 DEF Starting
    <3>3. CASE n = m /\ (Passing(m) \/ Taking(m) \/ Serving(m)
                          \/ Fetching(m) \/ Ending(m) \/ Recording(m))
      BY <1>2, <2>2, <3>3
         DEF Passing, Taking, Serving, Fetching, Ending, Recording, KeepsTask, KeepsPlan
    <3>4. n = m => ~Resting(m)
      BY <1>2 DEF Resting
    <3> QED
      BY <2>3, <3>1, <3>2, <3>3, <3>4, MoveFields
  <2>4. ASSUME NEW m \in Migrators, NEW old \in mig[m].batch, NEW q \in Places,
               UpAt(m, old, q)
        PROVE  d \in mig'[n].found
    BY <1>2, <2>2, <2>4, UpFields DEF KeepsTask, KeepsPlan
  <2>5. CASE UNCHANGED mig
    BY <1>2, <2>2, <2>5
  <2> QED
    BY <2>3, <2>4, <2>5, Steps DEF RequestAt, Data
<1>3. ASSUME NEW d \in Tenants, d \in early', NEW p \in Places, IsOld(docs'[d], p)
      PROVE  FALSE
  <2>1. d \in Dbs /\ IsOld(docs[d], p) /\ d \notin early
    BY <1>0, <1>3, OldShrinks DEF TenantsAreFound
  <2>2. ASSUME NEW m \in Migrators, Moves(m) PROVE FALSE
    BY <1>3, <2>1, <2>2, MoveKeeps
  <2>3. PICK e \in Dbs, i \in AuthIds, q \in Places, new \in Doc \cup {NoDoc} :
           RequestAt(e, i, q, new)
    BY <1>3, <2>1, <2>2, Steps DEF UpAt, Data
  <2>4. d = e /\ d \notin recorded
    BY <1>3, <2>1, <2>3 DEF RequestAt
  <2>5. PICK m \in Migrators : mig[m].at = "serving"
    BY <2>1, <2>3, <2>4 DEF RequestAt
  <2>6. mig[m].todo = {} /\ mig[m].kind # "tenant" /\ mig[m].db = NoDb
    BY <2>5 DEF FoundAreDone, Positions, Working
  <2>7. d \in mig[m].found
    BY <2>1, <2>5, <2>6 DEF TenantsAreFound
  <2> QED
    BY <2>1, <2>4, <2>6, <2>7 DEF FoundAreDone
<1> QED
  BY <1>1, <1>2, <1>3 DEF TenantsAreFound

\* A set without a device id is read in the default database only, after early requests:
\* servers found the others and saw them migrated.
LEMMA ReadsStep ==
    ASSUME TypeOK, Positions, ReadsAreKnown, NoneLeft, FoundAreDone, TenantsAreFound,
           [Next]_vars
    PROVE  ReadsAreKnown'
<1>0. held \in [Updaters -> SUBSET Read]
  BY DEF TypeOK
<1>1. recorded \subseteq recorded' /\ early \subseteq early'
  <2>1. ASSUME NEW m \in Migrators, Moves(m)
        PROVE  recorded \subseteq recorded' /\ early \subseteq early'
    BY <2>1, MoveKeeps, MoveFields
  <2> QED
    BY <2>1, Steps DEF UpAt, RequestAt, Data
<1>2. ASSUME \A u \in Updaters : held'[u] \subseteq held[u]
      PROVE  ReadsAreKnown'
  BY <1>1, <1>2 DEF ReadsAreKnown
<1>3. CASE held' = held
  BY <1>2, <1>3
<1>4. ASSUME NEW u \in Updaters, held' = [held EXCEPT ![u] = {}] PROVE ReadsAreKnown'
  BY <1>0, <1>2, <1>4
<1>5. ASSUME NEW d \in Dbs, NEW i \in AuthIds, NEW q \in Places, NEW new \in Doc \cup {NoDoc},
             RequestAt(d, i, q, new), NEW u \in Updaters,
             held[u] = {}, Has(docs[d], q, i), new = docs[d][q],
             held' = [held EXCEPT ![u] = {[db |-> d, id |-> i, device |-> new.device]}]
      PROVE  ReadsAreKnown'
  <2>1. d \in recorded' \cup early'
    BY <1>5 DEF RequestAt
  <2>2. ASSUME new.device = "unset" PROVE d = DefaultDb /\ d \in early'
    <3>1. IsOld(docs[d], q)
      BY <1>5, <2>2 DEF IsOld, Has
    <3>2. d \in recorded => d \in early
      BY <3>1 DEF NoneLeft
    <3>3. d \in early'
      BY <1>1, <2>1, <3>2, <1>5 DEF RequestAt
    <3>4. ASSUME d \in Tenants PROVE FALSE
      <4>1. d \notin early /\ d \notin recorded
        BY <3>1, <3>2, <3>4 DEF TenantsAreFound
      <4>2. PICK m \in Migrators : mig[m].at = "serving"
        BY <1>5, <4>1 DEF RequestAt
      <4>3. mig[m].todo = {} /\ mig[m].kind # "tenant" /\ mig[m].db = NoDb
        BY <4>2 DEF FoundAreDone, Positions, Working
      <4>4. d \in mig[m].found
        BY <3>1, <3>4, <4>2, <4>3 DEF TenantsAreFound
      <4> QED
        BY <4>1, <4>3, <4>4 DEF FoundAreDone
    <3> QED
      BY <3>3, <3>4 DEF Dbs
  <2>3. /\ \A v \in Updaters \ {u} : held'[v] = held[v]
        /\ held'[u] = {[db |-> d, id |-> i, device |-> new.device]}
    BY <1>0, <1>5
  <2>4. \A r \in held'[u] : r.db = d /\ r.device = new.device
    BY <2>3
  <2> QED
    BY <1>1, <2>1, <2>2, <2>3, <2>4 DEF ReadsAreKnown
<1>6. ASSUME NEW m \in Migrators, Moves(m) PROVE held' = held
  BY <1>6, MoveKeeps
<1>7. ASSUME NEW d \in Dbs, NEW i \in AuthIds, NEW q \in Places, NEW new \in Doc \cup {NoDoc},
             RequestAt(d, i, q, new)
      PROVE  ReadsAreKnown'
  BY <1>3, <1>4, <1>5, <1>7 DEF RequestAt, Reads
<1> QED
  BY <1>3, <1>4, <1>6, <1>7, Steps DEF UpAt, GiveUp

-----------------------------------------------------------------------------
(* The theorems.                                                           *)

\* The invariant holds at the start: all documents are of the old shape, and no
\* migrator has begun.
LEMMA IInvInit == Init => IInv
<1> SUFFICES ASSUME Init PROVE IInv
  OBVIOUS
<1>0. TypeOK
  BY TypeInit
<1>1. \A m \in Migrators : mig[m] = Idle
  BY DEF Init
<1>2. Positions /\ FoundAreDone /\ RivalsAreSeen /\ Ahead
  BY <1>1 DEF Idle, Positions, FoundAreDone, RivalsAreSeen, Ahead, Working
<1>3. /\ recorded = {} /\ early = {}
      /\ \A d \in Dbs : kept[d] = {i \in AuthIds : Of(docs[d], i) # {}}
  BY DEF Init
<1>4. KeptAreThere
  BY <1>3 DEF KeptAreThere, Of, Has
<1>5. NoneLeft
  BY <1>3 DEF NoneLeft
<1>6. \A d \in Dbs, p \in Places : docs[d][p] # NoDoc =>
         docs[d][p].id \in AuthIds /\ docs[d][p].device = "unset"
  BY DEF Init, Doc
<1>7. Untouched
  <2>1. \A d \in Dbs, p \in Places : docs[d][p] # NoDoc => docs[d][p].id \in kept[d]
    BY <1>3, <1>6 DEF Of
  <2> QED
    BY <1>1, <1>6, <2>1 DEF Untouched, Idle
<1>8. TenantsAreFound
  BY <1>1, <1>3 DEF TenantsAreFound, IsOld, Idle, Init
<1>9. ReadsAreKnown
  BY DEF Init, ReadsAreKnown
<1> QED
  BY <1>0, <1>2, <1>4, <1>5, <1>7, <1>8, <1>9 DEF IInv

\* Every step keeps it.
LEMMA IInvStep == IInv /\ [Next]_vars => IInv'
BY TypeStep, PositionsStep, KeptStep, UntouchedStep, NoneLeftStep, AheadStep, FoundStep,
   RivalsStep, TenantsStep, ReadsStep DEF IInv

\* The invariant holds however many migrators, databases, places and sets there are.
THEOREM Invariance == Spec => []IInv
BY IInvInit, IInvStep, PTL DEF Spec

\* The types of the variables, and with them the index: ids are unique in a database
\* that has it, and a database whose migration is recorded has it.
THEOREM TypeCorrect == Spec => []TypeOK
<1>1. IInv => TypeOK
  BY DEF IInv
<1> QED
  BY <1>1, Invariance, PTL

\* A database that no request wrote before its migration was recorded has each set
\* exactly once and with a device id (Migrate in store/mongo, Up in migration_1_1_0.go).
THEOREM MigratesOnce == Spec => []MigratedOnce
<1>1. IInv => MigratedOnce
  <2> SUFFICES ASSUME IInv, NEW d \in recorded, d \notin early
               PROVE  /\ \A i \in kept[d] : \E p \in Places : Of(docs[d], i) = {p}
                      /\ OldShape(d) = {}
    BY DEF MigratedOnce
  <2>1. d \in Dbs /\ Unique(docs[d]) /\ kept[d] \subseteq AuthIds
    BY DEF IInv, TypeOK
  <2>2. ASSUME NEW i \in kept[d] PROVE \E p \in Places : Of(docs[d], i) = {p}
    <3>1. PICK p \in Places : Has(docs[d], p, i)
      BY <2>1 DEF IInv, KeptAreThere
    <3>2. p \in Of(docs[d], i)
      BY <3>1 DEF Has, Of
    <3> QED
      BY <2>1, <3>2 DEF Unique
  <2>3. OldShape(d) = {}
    BY DEF IInv, NoneLeft, IsOld, OldShape
  <2> QED
    BY <2>2, <2>3
<1> QED
  BY <1>1, Invariance, PTL

\* A server that is up has found its databases migrated (DataStoreMongo.Migrate returns
\* an error otherwise, and main does not start to listen).
THEOREM ServesOnlyMigrated == Spec => []ServesMigrated
<1>1. IInv => ServesMigrated
  <2> SUFFICES ASSUME IInv, NEW m \in Migrators, mig[m].at = "serving"
               PROVE  mig[m].found \subseteq recorded
    BY DEF ServesMigrated
  <2>1. mig[m].todo = {} /\ mig[m].db = NoDb /\ mig[m].found \subseteq Dbs
    BY DEF IInv, FoundAreDone, Positions, Working, TypeOK, Migrator
  <2> QED
    BY <2>1 DEF IInv, FoundAreDone
<1> QED
  BY <1>1, Invariance, PTL

\* While a server is up, only the default database may hold documents of the old shape,
\* as Migrate looks at tenants' databases if there are any, and at that one if not.
THEOREM OldShapeIsInDefault == Spec => []OldShapeOnlyInDefault
<1>1. IInv => OldShapeOnlyInDefault
  <2> SUFFICES ASSUME IInv, NEW m \in Migrators, NEW d \in Dbs,
                      mig[m].at = "serving", OldShape(d) # {}
               PROVE  d = DefaultDb /\ (d \in early \/ d \notin mig[m].found)
    BY DEF OldShapeOnlyInDefault
  <2>1. PICK p \in Places : IsOld(docs[d], p)
    BY DEF OldShape, IsOld
  <2>2. mig[m].todo = {} /\ mig[m].kind # "tenant" /\ mig[m].db = NoDb
    BY DEF IInv, FoundAreDone, Positions, Working
  <2>3. d \in mig[m].found => d \in recorded
    BY <2>2 DEF IInv, FoundAreDone
  <2>4. d \in recorded => d \in early
    BY <2>1 DEF IInv, NoneLeft
  <2>5. d \in Tenants => d \in mig[m].found /\ d \notin early
    BY <2>1, <2>2 DEF IInv, TenantsAreFound
  <2> QED
    BY <2>3, <2>4, <2>5 DEF Dbs
<1> QED
  BY <1>1, Invariance, PTL

\* A migration writes over a device id from a request, or brings back a set that a
\* request deleted, only if requests came before the record or a rival recorded it.
THEOREM UndoesOnlyBehindRivals == Spec => UndoingIsExplained
<1> DEFINE Explained ==
      \A m \in Migrators :
          Up(m) /\ (Overwrites(m) \/ Revives(m)) => mig[m].db \in early \/ mig[m].rival
<1>1. IInv => Explained
  <2> SUFFICES ASSUME IInv, NEW m \in Migrators, Up(m), Overwrites(m) \/ Revives(m),
                      mig[m].db \notin early, ~mig[m].rival
               PROVE  FALSE
    OBVIOUS
  <2> DEFINE d == mig[m].db
  <2>1. PICK old \in mig[m].batch, q \in Places : UpAt(m, old, q)
    BY UpShape
  <2>2. /\ old \in Doc /\ mig[m].at = "up" /\ d \in Dbs
        /\ docs'[d][q] = Migrated(old)
        /\ \A p \in Places : p # q => docs'[d][p] = docs[d][p]
    BY <2>1, UpFields DEF IInv
  <2>3. d \notin recorded
    BY <2>2 DEF IInv, RivalsAreSeen, Working
  <2>4. CASE Overwrites(m)
    BY <2>2, <2>3, <2>4 DEF IInv, Untouched, Overwrites
  <2>5. CASE Revives(m)
    <3>1. PICK i \in AuthIds \ kept[d], p \in Places :
             p \in Of(docs'[d], i) /\ p \notin Of(docs[d], i)
      BY <2>5 DEF Revives, Of
    <3>2. p = q /\ i = old.id
      BY <2>2, <3>1, MigratedType DEF Of
    <3> QED
      BY <2>2, <2>3, <3>1, <3>2 DEF IInv, Untouched
  <2> QED
    BY <2>4, <2>5
<1>2. Spec => [][Explained]_vars
  BY <1>1, Invariance, PTL DEF Spec
<1> QED
  BY <1>2 DEF UndoingIsExplained

=============================================================================
