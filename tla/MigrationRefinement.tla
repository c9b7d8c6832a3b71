------------------------ MODULE MigrationRefinement ------------------------
(***************************************************************************)
(* Proof that a migration is not seen: Migration implements SetStore under *)
(* the mapping of Migration, by which a set is what its documents tell.    *)
(* A migrator's upsert is a stutter on a database that no request touched, *)
(* as it writes what the database told before; recording a database and    *)
(* leaving one that is recorded are steps of the store; so are requests,   *)
(* and both ends of a status update.                                       *)
(***************************************************************************)
EXTENDS MigrationProofs

USE OneDefault, NoDocument

Sets == [d \in Dbs |-> [i \in AuthIds |-> Seen(d, i)]]

Raced == {mig[m].db : m \in {n \in Migrators : mig[n].rival}}

Question(r) == [db |-> r.db, id |-> r.id, given |-> r.device = "given"]

Asked == [u \in Updaters |-> {Question(r) : r \in held[u]}]

-----------------------------------------------------------------------------
(* What the invariant of MigrationProofs leaves out.                       *)

\* Only a migrator at work has a rival, which has recorded its database.
RacedAreRecorded ==
    \A m \in Migrators : mig[m].rival => Working(m) /\ mig[m].db \in recorded

\* The migrator has read what the database still tells, as long as no request writes.
BatchIsStored ==
    \A m \in Migrators : mig[m].at = "up" /\ mig[m].db \notin early \cup recorded =>
        \A old \in mig[m].batch : \E p \in Places :
            Has(docs[mig[m].db], p, old.id) /\ docs[mig[m].db][p].status = old.status

SInv == IInv /\ RacedAreRecorded /\ BatchIsStored

-----------------------------------------------------------------------------
(* Migrators.                                                              *)

\* A migrator that moves, but does not record, gains no rival and keeps none for another
\* database; the others do not notice.
Unnoticed(m) ==
    /\ recorded' = recorded
    /\ \A n \in Migrators \ {m} : mig'[n] = mig[n]
    /\ mig'[m].rival => mig[m].rival /\ mig'[m].db = mig[m].db /\ Working(m)'

\* Every move but the recording is like that.
LEMMA QuietMove ==
    ASSUME TypeOK, Positions, RacedAreRecorded, NEW m \in Migrators,
           Moves(m), ~UpdateMigrationInfo(m)
    PROVE  Unnoticed(m)
<1>1. mig[m] \in Migrator /\ (mig[m].at = "next" => ~mig[m].rival)
  BY DEF TypeOK, RacedAreRecorded, Working
<1>2. CASE Became(m, Idle) /\ UNCHANGED <<indexed, listed, recorded>>
  BY <1>2 DEF Became, Unnoticed, Idle
<1>3. CASE /\ \E kind \in {"server", "automigrate", "tenant"}, dbs \in SUBSET Dbs :
                 Became(m, [Idle EXCEPT !.at = "next", !.kind = kind,
                                        !.found = dbs, !.todo = dbs])
           /\ UNCHANGED <<indexed, listed, recorded>>
  BY <1>3 DEF Became, Unnoticed, Idle
<1>4. ASSUME NEW new, Became(m, new), UNCHANGED recorded, new.rival = mig[m].rival,
             \/ mig[m].at = "next"
             \/ new.db = mig[m].db /\ new.at \in {"up", "index", "record"}
      PROVE  Unnoticed(m)
  BY <1>1, <1>4 DEF Became, Unnoticed, Working
<1>5. ASSUME NEW t
      PROVE  /\ [mig[m] EXCEPT !.todo = t].rival = mig[m].rival
             /\ \A d : [mig[m] EXCEPT !.todo = t, !.at = "up", !.db = d, !.rest = Places].rival
                         = mig[m].rival
  BY <1>1, Fields
<1>6. \A at : LET new == [mig[m] EXCEPT !.at = at]
              IN new.rival = mig[m].rival /\ new.db = mig[m].db /\ new.at = at
  BY <1>1 DEF Migrator
<1>7. \A rest, batch : LET new == [mig[m] EXCEPT !.rest = rest, !.batch = batch]
                       IN /\ new.rival = mig[m].rival /\ new.db = mig[m].db
                          /\ new.at = mig[m].at
  BY <1>1 DEF Migrator
<1>8. CASE /\ mig[m].at = "next"
           /\ \E d \in mig[m].todo :
                 \/ Became(m, [mig[m] EXCEPT !.todo = @ \ {d}])
                 \/ Became(m, [mig[m] EXCEPT !.todo = @ \ {d}, !.at = "up", !.db = d,
                                             !.rest = Places])
           /\ UNCHANGED recorded
  BY <1>4, <1>5, <1>8
<1>9. CASE /\ mig[m].at = "next" /\ Became(m, [mig[m] EXCEPT !.at = "serving"])
           /\ UNCHANGED recorded
  BY <1>4, <1>6, <1>9
<1>10. CASE /\ mig[m].at = "up"
            /\ \E ps \in SUBSET mig[m].rest :
                  Became(m, [mig[m] EXCEPT
                      !.rest = @ \ ps,
                      !.batch = @ \cup ({docs[mig[m].db][p] : p \in ps} \ {NoDoc})])
            /\ UNCHANGED recorded
  BY <1>4, <1>7, <1>10
<1>11. CASE /\ \/ Became(m, [mig[m] EXCEPT !.at = "index"])
               \/ Became(m, [mig[m] EXCEPT !.at = "record"])
            /\ UNCHANGED recorded
  BY <1>4, <1>6, <1>11
<1> QED
  BY <1>2, <1>3, <1>8, <1>9, <1>10, <1>11, MoveShape

\* Then at most one database is no longer raced for.
LEMMA UnnoticedRaced ==
    ASSUME NEW m \in Migrators, Unnoticed(m)
    PROVE  Raced' \in {Raced, Raced \ {mig[m].db}}
<1> DEFINE others == {mig[n].db : n \in {n \in Migrators \ {m} : mig[n].rival}}
<1>1. Raced = others \cup (IF mig[m].rival THEN {mig[m].db} ELSE {})
  BY DEF Raced
<1>2. Raced' = others \cup (IF mig'[m].rival THEN {mig'[m].db} ELSE {})
  BY DEF Raced, Unnoticed
<1>3. mig'[m].rival => mig[m].rival /\ mig'[m].db = mig[m].db
  BY DEF Unnoticed
<1> HIDE DEF others
<1>4. CASE mig[m].db \in others
  BY <1>1, <1>2, <1>3, <1>4
<1>5. CASE mig[m].db \notin others
  BY <1>1, <1>2, <1>3, <1>5
<1> QED
  BY <1>4, <1>5

\* A migrator that records leaves the others with a rival.
LEMMA RecordRaced ==
    ASSUME TypeOK, Positions, NEW m \in Migrators, UpdateMigrationInfo(m)
    PROVE  /\ ~mig'[m].rival
           /\ \A n \in Migrators \ {m} :
                 /\ mig'[n].rival <=> mig[n].rival \/ mig[n].db = mig[m].db
                 /\ mig'[n].db = mig[n].db /\ mig'[n].at = mig[n].at
                 /\ mig'[n].batch = mig[n].batch
<1>1. \A n \in Migrators : mig[n] \in Migrator
  BY DEF TypeOK
<1>2. ~mig'[m].rival
  <2>1. mig'[m] = [mig[m] EXCEPT !.at = "next", !.db = NoDb, !.rival = FALSE]
    BY RecordShape
  <2> QED
    BY <1>1, <2>1 DEF Migrator
<1>3. ASSUME NEW n \in Migrators \ {m}
      PROVE  /\ mig'[n].rival <=> mig[n].rival \/ mig[n].db = mig[m].db
             /\ mig'[n].db = mig[n].db /\ mig'[n].at = mig[n].at
             /\ mig'[n].batch = mig[n].batch
  <2> DEFINE b == mig[n].rival \/ mig[n].db = mig[m].db
  <2>1. mig'[n] = [mig[n] EXCEPT !.rival = b]
    BY RecordShape
  <2> HIDE DEF b
  <2>2. mig'[n].rival = b /\ mig'[n].db = mig[n].db /\ mig'[n].at = mig[n].at
        /\ mig'[n].batch = mig[n].batch
    BY <1>1, <2>1, Fields
  <2> QED
    BY <2>2 DEF b
<1> QED
  BY <1>2, <1>3

\* A database that another migrator recorded stays recorded, and so does its rival.
LEMMA RacedStep ==
    ASSUME TypeOK, Positions, ReadsAreKnown, RacedAreRecorded, [Next]_vars
    PROVE  RacedAreRecorded'
<1>1. ASSUME NEW m \in Migrators, Moves(m), ~UpdateMigrationInfo(m) PROVE RacedAreRecorded'
  BY <1>1, QuietMove DEF Unnoticed, RacedAreRecorded, Working
<1>2. ASSUME NEW m \in Migrators, UpdateMigrationInfo(m) PROVE RacedAreRecorded'
  <2>1. recorded' = recorded \cup {mig[m].db} /\ mig[m].db \in Dbs
    BY <1>2, RecordShape
  <2>2. ASSUME NEW n \in Migrators, mig'[n].rival
        PROVE  Working(n)' /\ mig'[n].db \in recorded'
    <3>1. n # m /\ mig'[n].db = mig[n].db /\ mig'[n].at = mig[n].at
          /\ (mig[n].rival \/ mig[n].db = mig[m].db)
      BY <1>2, <2>2, RecordRaced
    <3>2. Working(n) /\ mig[n].db \in recorded'
      BY <2>1, <3>1 DEF RacedAreRecorded, Positions
    <3> QED
      BY <3>1, <3>2 DEF Working
  <2> QED
    BY <2>2 DEF RacedAreRecorded
<1>3. ASSUME NEW m \in Migrators, NEW old \in mig[m].batch, NEW q \in Places, UpAt(m, old, q)
      PROVE  RacedAreRecorded'
  <2>1. recorded' = recorded
    BY <1>3 DEF UpAt
  <2> QED
    BY <1>3, <2>1, UpFields DEF RacedAreRecorded, KeepsTask, Working
<1>4. ASSUME NEW d \in Dbs, NEW i \in AuthIds, NEW q \in Places, NEW new \in Doc \cup {NoDoc},
             RequestAt(d, i, q, new)
      PROVE  RacedAreRecorded'
  BY <1>4 DEF RequestAt, RacedAreRecorded, Working
<1>5. CASE UNCHANGED Data
  BY <1>5 DEF Data, RacedAreRecorded, Working
<1> QED
  BY <1>1, <1>2, <1>3, <1>4, <1>5, Steps DEF Moves

\* What a database told when a migrator read it, it tells until a request writes or the
\* migration is recorded: upserts replace a document by one that tells the same.
LEMMA BatchStep ==
    ASSUME TypeOK, Positions, ReadsAreKnown, BatchIsStored, [Next]_vars
    PROVE  BatchIsStored'
<1>0. \A n \in Migrators : mig[n] \in Migrator
  BY DEF TypeOK
<1>1. ASSUME NEW m \in Migrators, Moves(m) PROVE BatchIsStored'
  <2>0. UNCHANGED <<docs, early>> /\ recorded \subseteq recorded'
    BY <1>1, MoveKeeps, MoveFields
  <2>1. SUFFICES ASSUME NEW n \in Migrators, mig'[n].at = "up",
                        mig'[n].db \notin early \cup recorded,
                        NEW old \in mig'[n].batch
                 PROVE  \E p \in Places : /\ Has(docs[mig'[n].db], p, old.id)
                                          /\ docs[mig'[n].db][p].status = old.status
    BY <2>0 DEF BatchIsStored
  <2>2. CASE mig[n].at = "up" /\ mig'[n].db = mig[n].db /\ old \in mig[n].batch
    BY <2>1, <2>2 DEF BatchIsStored
  <2>3. CASE n = m /\ Taking(m)
    BY <2>1, <2>3 DEF Taking
  <2>4. CASE n = m /\ Fetching(m)
    <3>1. old \in mig[m].batch \/ \E p \in Places : old = docs[mig[m].db][p] /\ old # NoDoc
      BY <1>0, <2>1, <2>4 DEF Fetching, Migrator
    <3> QED
      BY <2>1, <2>2, <2>4, <3>1 DEF Fetching, KeepsTask, Has
  <2>5. n = m => Taking(m) \/ Fetching(m)
    BY <1>1, <2>1, MoveFields DEF Resting, Starting, Passing, Serving, Ending, Recording
  <2> QED
    BY <1>1, <2>1, <2>2, <2>3, <2>4, <2>5, MoveFields DEF Keeps
<1>2. ASSUME NEW m \in Migrators, NEW new \in mig[m].batch, NEW q \in Places, UpAt(m, new, q)
      PROVE  BatchIsStored'
  <2>1. UNCHANGED <<recorded, early>>
    BY <1>2 DEF UpAt
  <2>2. SUFFICES ASSUME NEW n \in Migrators, mig[n].at = "up",
                        mig[n].db \notin early \cup recorded,
                        NEW old \in mig[n].batch
                 PROVE  \E p \in Places : /\ Has(docs'[mig[n].db], p, old.id)
                                          /\ docs'[mig[n].db][p].status = old.status
    BY <1>2, <2>1, UpFields DEF BatchIsStored, KeepsTask
  <2>3. PICK p \in Places : /\ Has(docs[mig[n].db], p, old.id)
                            /\ docs[mig[n].db][p].status = old.status
    BY <2>2 DEF BatchIsStored
  <2>4. CASE mig[n].db # mig[m].db \/ p # q
    BY <1>0, <1>2, <2>2, <2>3, <2>4, UpFields DEF Has, Positions, Working
  <2>5. CASE mig[n].db = mig[m].db /\ p = q
    <3>1. docs[mig[m].db][q].id = new.id /\ docs[mig[m].db][q].status = new.status
      BY <1>2, <2>3, <2>5 DEF UpAt, Has
    <3>2. docs'[mig[m].db][q] = Migrated(new) /\ new \in Doc
      BY <1>2, UpFields
    <3>3. Migrated(new).id = new.id /\ Migrated(new).status = new.status
          /\ Migrated(new) # NoDoc
      BY <3>2, MigratedType DEF Migrated, Doc
    <3> QED
      BY <2>3, <2>5, <3>1, <3>2, <3>3 DEF Has
  <2> QED
    BY <2>4, <2>5
<1>3. ASSUME NEW d \in Dbs, NEW i \in AuthIds, NEW q \in Places, NEW new \in Doc \cup {NoDoc},
             RequestAt(d, i, q, new)
      PROVE  BatchIsStored'
  <2>1. /\ early' = (IF d \in recorded THEN early ELSE early \cup {d})
        /\ UNCHANGED <<recorded, mig>>
        /\ \A e \in Dbs, p \in Places : e # d => docs'[e][p] = docs[e][p]
    BY <1>3, RequestFields DEF RequestAt
  <2>2. \A n \in Migrators : mig[n].at = "up" => mig[n].db \in Dbs
    BY DEF Positions, Working
  <2> QED
    BY <2>1, <2>2 DEF BatchIsStored, Has
<1>4. CASE UNCHANGED Data
  BY <1>4 DEF Data, BatchIsStored
<1> QED
  BY <1>1, <1>2, <1>3, <1>4, Steps

-----------------------------------------------------------------------------
(* What is seen of a write to one place.                                   *)

View(doc) == [status |-> doc.status, given |-> doc.device = "given"]

SeenIn(c, i) == {View(c[p]) : p \in Of(c, i)}

\* What is seen of a set is what the collection of its database has, now and after a step.
LEMMA SeenViews ==
    ASSUME NEW d \in Dbs, NEW i \in AuthIds
    PROVE  Seen(d, i) = SeenIn(docs[d], i) /\ Seen(d, i)' = SeenIn(docs'[d], i)
BY DEF Seen, SeenIn, View, Of

\* It is a set of views.
LEMMA SeenType ==
    ASSUME NEW c \in Contents, NEW i \in AuthIds
    PROVE  SeenIn(c, i) \in SUBSET Store!View
<1>1. \A p \in Of(c, i) : c[p] \in Doc
  BY DEF Of, Contents
<1>2. \A doc \in Doc : View(doc) \in Store!View
  BY DEF View, Store!View, Doc
<1> QED
  BY <1>1, <1>2 DEF SeenIn

\* A write to a place of set i is seen of that set only.
LEMMA SetsWrite ==
    ASSUME TypeOK, NEW d \in Dbs, NEW i \in AuthIds, NEW q \in Places,
           \A e \in Dbs, p \in Places : e # d \/ p # q => docs'[e][p] = docs[e][p],
           docs[d][q] = NoDoc \/ docs[d][q].id = i,
           docs'[d][q] = NoDoc \/ docs'[d][q].id = i
    PROVE  Sets' = [Sets EXCEPT ![d][i] = Seen(d, i)']
<1>1. ASSUME NEW e \in Dbs, NEW j \in AuthIds, e # d \/ j # i
      PROVE  Seen(e, j)' = Seen(e, j)
  <2>1. Of(docs[e], j)' = Of(docs[e], j)
    BY <1>1 DEF Of
  <2>2. \A p \in Of(docs[e], j) : docs'[e][p] = docs[e][p]
    BY <1>1 DEF Of
  <2> QED
    BY <2>1, <2>2 DEF Seen
<1>2. Sets' = [e \in Dbs |-> [j \in AuthIds |-> Seen(e, j)']]
  BY DEF Sets
<1>3. \A e \in Dbs : e # d => [j \in AuthIds |-> Seen(e, j)'] = Sets[e]
  BY <1>1 DEF Sets
<1>4. [j \in AuthIds |-> Seen(d, j)'] = [Sets[d] EXCEPT ![i] = Seen(d, i)']
  BY <1>1 DEF Sets
<1> QED
  BY <1>2, <1>3, <1>4 DEF Sets

\* Where ids are unique, one document is all that is seen of a set.
LEMMA SeenOne ==
    ASSUME NEW c, Unique(c), NEW q \in Places, c[q] \in Doc
    PROVE  SeenIn(c, c[q].id) = {View(c[q])}
<1>1. c[q].id \in AuthIds
  BY DEF Doc
<1>2. Of(c, c[q].id) = {q}
  BY <1>1 DEF Of, Unique
<1> QED
  BY <1>1, <1>2 DEF SeenIn

\* A document beside those of a set that tells the same, or one in the place of one that
\* does, is not seen.
LEMMA SeenAgain ==
    ASSUME NEW c \in Contents, NEW q \in Places, NEW new \in Doc, NEW p \in Places,
           Has(c, p, new.id), View(c[p]) = View(new),
           c[q] = NoDoc \/ (c[q].id = new.id /\ View(c[q]) = View(new))
    PROVE  SeenIn(Put(c, q, new), new.id) = SeenIn(c, new.id)
<1> DEFINE after == Put(c, q, new)
<1>1. after[q] = new /\ \A x \in Places \ {q} : after[x] = c[x]
  BY DEF Put, Contents
<1> HIDE DEF after
<1>2. Of(after, new.id) = Of(c, new.id) \cup {q}
  BY <1>1 DEF Of
<1>3. \A x \in Of(c, new.id) : View(after[x]) = View(c[x])
  BY <1>1 DEF Of
<1>4. p \in Of(c, new.id) /\ View(after[q]) = View(c[p])
  BY <1>1 DEF Of, Has
<1> QED
  BY <1>2, <1>3, <1>4 DEF SeenIn, after

-----------------------------------------------------------------------------
(* Each kind of step.                                                      *)

\* Every set is one document or none, without a device id from a request.
LEMMA InitMaps == Init => Store!Init
<1> SUFFICES ASSUME Init PROVE Store!Init
  OBVIOUS
<1>1. Raced = {}
  BY DEF Init, Raced, Idle
<1>2. ASSUME NEW d \in Dbs, NEW i \in AuthIds
      PROVE  Seen(d, i) \in {{}} \cup {{v} : v \in Store!Ungiven}
  <2>1. docs[d] \in Contents /\ Unique(docs[d])
    BY TypeInit DEF Init, TypeOK, Contents
  <2>2. CASE Of(docs[d], i) = {}
    BY <2>2, SeenViews DEF SeenIn
  <2>3. CASE Of(docs[d], i) # {}
    <3>1. PICK q \in Places : q \in Of(docs[d], i)
      BY <2>3 DEF Of
    <3>2. docs[d][q] \in Doc /\ docs[d][q].id = i /\ docs[d][q].device = "unset"
      BY <2>1, <3>1 DEF Of, Contents, Init
    <3>3. View(docs[d][q]) \in Store!Ungiven
      BY <3>2 DEF View, Store!Ungiven, Store!View, Doc
    <3>4. SeenIn(docs[d], docs[d][q].id) = {View(docs[d][q])}
      BY <2>1, <3>2, SeenOne
    <3>5. Seen(d, i) = {View(docs[d][q])}
      BY <3>2, <3>4, SeenViews
    <3> QED
      BY <3>3, <3>5
  <2> QED
    BY <2>2, <2>3
<1>3. Sets \in [Dbs -> [AuthIds -> {{}} \cup {{v} : v \in Store!Ungiven}]]
  BY <1>2 DEF Sets
<1>4. Asked = [u \in Updaters |-> {}]
  BY DEF Init, Asked
<1> QED
  BY <1>1, <1>3, <1>4 DEF Store!Init, Init, Sets, Asked, Question, Raced

\* What is asked changes with what is read.
LEMMA AskedChange ==
    ASSUME TypeOK
    PROVE  /\ held' = held => Asked' = Asked
           /\ \A u \in Updaters : \A reads :
                 held' = [held EXCEPT ![u] = reads] =>
                     Asked' = [Asked EXCEPT ![u] = {Question(r) : r \in reads}]
<1>1. held' = held => Asked' = Asked
  BY DEF Asked
<1>2. ASSUME NEW u \in Updaters, NEW reads, held' = [held EXCEPT ![u] = reads]
      PROVE  Asked' = [Asked EXCEPT ![u] = {Question(r) : r \in reads}]
  <2>1. held'[u] = reads /\ \A v \in Updaters \ {u} : held'[v] = held[v]
    BY <1>2 DEF TypeOK
  <2>2. Asked' = [v \in Updaters |-> {Question(r) : r \in held'[v]}]
    BY DEF Asked, Question
  <2> QED
    BY <2>1, <2>2 DEF Asked
<1> QED
  BY <1>1, <1>2

\* A status update that ends with or without a write asks no longer.
LEMMA AskedDone ==
    ASSUME TypeOK, NEW u \in Updaters, held' = [held EXCEPT ![u] = {}]
    PROVE  Asked' = [Asked EXCEPT ![u] = {}]
<1>1. Asked' = [Asked EXCEPT ![u] = {Question(r) : r \in {}}]
  BY AskedChange
<1>2. {Question(r) : r \in {}} = {}
  OBVIOUS
<1> QED
  BY <1>1, <1>2

\* What changes nothing that the store speaks of.
LEMMA StutterMaps ==
    ASSUME Sets' = Sets, Asked' = Asked, Raced' = Raced, UNCHANGED <<recorded, early>>
    PROVE  [Store!Next]_(Store!vars)
BY DEF Store!vars, Sets, Asked, Question, Raced

\* A status update that ends without a write.
LEMMA GiveUpMaps ==
    ASSUME TypeOK, NEW u \in Updaters, GiveUp(u)
    PROVE  [Store!Next]_(Store!vars)
<1>1. Asked' = [Asked EXCEPT ![u] = {}]
  BY AskedDone DEF GiveUp
<1>2. Sets' = Sets /\ Raced' = Raced /\ UNCHANGED <<recorded, early>>
  BY DEF GiveUp, Sets, Seen, Of, Raced
<1>3. Store!GiveUp(u)
  BY <1>1, <1>2 DEF Store!GiveUp, Sets, Asked, Question, Raced
<1> QED
  BY <1>3 DEF Store!Next

\* A migrator that leaves a database is seen only if it was late.
LEMMA LeaveMaps ==
    ASSUME NEW d \in Dbs, Sets' = Sets, Asked' = Asked, Raced' \in {Raced, Raced \ {d}},
           UNCHANGED <<recorded, early>>
    PROVE  [Store!Next]_(Store!vars)
<1>1. CASE Raced' = Raced
  BY <1>1, StutterMaps
<1>2. CASE Raced' = Raced \ {d}
  <2>1. Store!Leave(d)
    BY <1>2 DEF Store!Leave, Sets, Asked, Question, Raced
  <2> QED
    BY <2>1 DEF Store!Next
<1> QED
  BY <1>1, <1>2

\* A migrator that moves without recording anything.
LEMMA QuietMaps ==
    ASSUME SInv, NEW m \in Migrators, Moves(m), ~UpdateMigrationInfo(m)
    PROVE  [Store!Next]_(Store!vars)
<1>1. UNCHANGED <<docs, early, recorded>> /\ Raced' \in {Raced, Raced \ {mig[m].db}}
  BY MoveKeeps, QuietMove, UnnoticedRaced DEF SInv, IInv, Unnoticed
<1>2. Sets' = Sets /\ Asked' = Asked
  BY <1>1, MoveKeeps, AskedChange DEF Sets, Seen, SInv, IInv
<1>3. CASE mig[m].db \in Dbs
  BY <1>1, <1>2, <1>3, LeaveMaps
<1>4. CASE mig[m].db \notin Dbs
  <2>1. mig[m].db \notin Raced
    BY <1>4 DEF Raced, SInv, IInv, RacedAreRecorded, Positions
  <2> QED
    BY <1>1, <1>2, <2>1, StutterMaps
<1> QED
  BY <1>3, <1>4

\* The first migrator to record a database; one that comes after it leaves.
LEMMA RecordMaps ==
    ASSUME SInv, NEW m \in Migrators, UpdateMigrationInfo(m), NEW d \in Dbs, mig[m].db = d
    PROVE  [Store!Next]_(Store!vars)
<1> DEFINE others == {n \in Migrators \ {m} : mig[n].rival}
           beside == {n \in Migrators \ {m} : mig[n].db = d}
<1>1. /\ d \in indexed /\ mig[m].at = "record"
      /\ recorded' = recorded \cup {d} /\ UNCHANGED <<docs, early>>
  BY RecordShape DEF SInv, IInv, UpdateMigrationInfo
<1>2. Sets' = Sets /\ Asked' = Asked
  <2>1. held' = held
    BY DEF UpdateMigrationInfo
  <2> QED
    BY <1>1, <2>1, AskedChange DEF Sets, Seen, SInv, IInv
<1>3. Raced' = {mig[n].db : n \in others \cup beside}
  <2>1. {n \in Migrators : mig[n].rival}' = others \cup beside
    BY RecordRaced DEF SInv, IInv
  <2>2. \A n \in others \cup beside : mig'[n].db = mig[n].db
    BY RecordRaced DEF SInv, IInv
  <2> QED
    BY <2>1, <2>2 DEF Raced
<1>4. {mig[n].db : n \in beside} = IF beside = {} THEN {} ELSE {d}
  OBVIOUS
<1>5. CASE d \in recorded
  <2>1. beside \subseteq others
    BY <1>1, <1>5 DEF SInv, IInv, RivalsAreSeen, Positions
  <2>2. Raced = {mig[n].db : n \in others} \cup (IF mig[m].rival THEN {d} ELSE {})
    BY DEF Raced
  <2>3. Raced' \in {Raced, Raced \ {d}}
    BY <1>3, <2>1, <2>2
  <2> QED
    BY <1>1, <1>2, <1>5, <2>3, LeaveMaps
<1>6. CASE d \notin recorded
  <2>1. Raced = {mig[n].db : n \in others}
    BY <1>6 DEF Raced, SInv, RacedAreRecorded
  <2>2. Raced' \in {Raced, Raced \cup {d}}
    BY <1>3, <1>4, <2>1
  <2>3. Store!AtMostOne(d)
    <3>1. Unique(docs[d])
      BY <1>1 DEF SInv, IInv, TypeOK
    <3> QED
      BY <1>1, <3>1 DEF Store!AtMostOne, Seen, Unique
  <2>4. Store!Record(d)
    BY <1>1, <1>2, <1>6, <2>2, <2>3 DEF Store!Record, Sets, Asked, Question, Raced
  <2> QED
    BY <2>4 DEF Store!Next
<1> QED
  BY <1>5, <1>6

\* A write to a database that is not recorded yet, when requests have come before.
LEMMA MixMaps ==
    ASSUME NEW d \in Dbs, d \notin recorded, early' = early \cup {d},
           NEW c \in [AuthIds -> SUBSET Store!View], Sets' = [Sets EXCEPT ![d] = c],
           Asked' \in {Asked} \cup {[Asked EXCEPT ![u] = {}] : u \in Updaters},
           Raced' = Raced, UNCHANGED recorded
    PROVE  [Store!Next]_(Store!vars)
<1>1. Store!Mix(d)
  BY DEF Store!Mix, Sets, Asked, Question, Raced
<1> QED
  BY <1>1 DEF Store!Next

\* Sets change in one database, and are views again.
LEMMA SetsType ==
    ASSUME TypeOK, NEW d \in Dbs, NEW i \in AuthIds, docs'[d] \in Contents,
           Sets' = [Sets EXCEPT ![d][i] = Seen(d, i)']
    PROVE  \E c \in [AuthIds -> SUBSET Store!View] : Sets' = [Sets EXCEPT ![d] = c]
<1>1. \A j \in AuthIds : SeenIn(docs[d], j) \in SUBSET Store!View
  BY SeenType DEF TypeOK, Contents
<1>2. Sets[d] \in [AuthIds -> SUBSET Store!View]
  BY <1>1, SeenViews DEF Sets
<1>3. Seen(d, i)' \in SUBSET Store!View
  BY SeenType, SeenViews
<1> DEFINE c == [Sets[d] EXCEPT ![i] = Seen(d, i)']
<1>4. c \in [AuthIds -> SUBSET Store!View]
  BY <1>2, <1>3
<1>5. Sets' = [Sets EXCEPT ![d] = c]
  BY DEF Sets
<1> QED
  BY <1>4, <1>5

\* An upsert undoes something only behind a rival, or mixes with early requests.
LEMMA UpMaps ==
    ASSUME SInv, TypeOK', NEW m \in Migrators, NEW old \in mig[m].batch, NEW q \in Places,
           UpAt(m, old, q), NEW d \in Dbs, mig[m].db = d
    PROVE  [Store!Next]_(Store!vars)
<1> DEFINE i == old.id
           new == Migrated(old)
<1>1. /\ old \in Doc /\ i \in AuthIds /\ new \in Doc /\ new # NoDoc /\ new.id = i
      /\ View(new) = [status |-> old.status, given |-> FALSE] /\ old.status \in Statuses
  <2>1. old \in Doc
    BY UpFields DEF SInv, IInv
  <2> QED
    BY <2>1, MigratedType DEF Migrated, View, Doc
<1>2. /\ mig[m].at = "up" /\ docs'[d][q] = new
      /\ \A e \in Dbs, p \in Places : e # d \/ p # q => docs'[e][p] = docs[e][p]
      /\ UNCHANGED <<recorded, early, indexed>>
  <2>1. UNCHANGED <<recorded, early, indexed>>
    BY DEF UpAt
  <2> QED
    BY <2>1, UpFields DEF SInv, IInv
<1>3. Raced' = Raced /\ Asked' = Asked
  BY UpFields, AskedChange DEF SInv, IInv, Raced, KeepsTask, UpAt
<1>4. \/ docs[d][q] # NoDoc /\ docs[d][q].id = i /\ docs[d][q].status = old.status
      \/ docs[d][q] = NoDoc
  BY DEF UpAt, Has
<1>5. docs[d] \in Contents /\ docs'[d] \in Contents /\ docs'[d] = Put(docs[d], q, new)
  BY DEF SInv, IInv, TypeOK, Contents, UpAt
<1> HIDE DEF new
<1>6. Sets' = [Sets EXCEPT ![d][i] = Seen(d, i)']
  BY <1>1, <1>2, <1>4, SetsWrite DEF SInv, IInv
<1>7. CASE mig[m].rival
  <2>1. d \in Raced /\ d \in recorded
    BY <1>7 DEF Raced, SInv, RacedAreRecorded
  <2>2. Unique(docs'[d])
    BY <1>2, <2>1 DEF TypeOK
  <2>3. Seen(d, i)' = {View(new)}
    <3>1. SeenIn(docs'[d], docs'[d][q].id) = {View(docs'[d][q])}
      BY <1>1, <1>2, <2>2, SeenOne
    <3> QED
      BY <1>1, <1>2, <3>1, SeenViews
  <2>4. View(new) \in Store!Ungiven
    BY <1>1 DEF Store!Ungiven, Store!View
  <2>5. Store!Undo(d, i)
    BY <1>2, <1>3, <1>6, <2>1, <2>3, <2>4 DEF Store!Undo, Store!Becomes, Sets, Asked, Question, Raced
  <2> QED
    BY <1>1, <2>5 DEF Store!Next
<1>8. CASE ~mig[m].rival
  <2>1. d \notin recorded
    BY <1>2, <1>8 DEF SInv, IInv, RivalsAreSeen, Working
  <2>2. CASE d \in early
    <3>1. \E c \in [AuthIds -> SUBSET Store!View] : Sets' = [Sets EXCEPT ![d] = c]
      BY <1>1, <1>5, <1>6, SetsType DEF SInv, IInv
    <3>2. early' = early \cup {d}
      BY <1>2, <2>2
    <3> QED
      BY <1>2, <1>3, <2>1, <3>1, <3>2, MixMaps
  <2>3. CASE d \notin early
    <3>1. PICK p \in Places : Has(docs[d], p, i) /\ docs[d][p].status = old.status
      BY <1>2, <2>1, <2>3 DEF SInv, BatchIsStored
    <3>2. \A x \in Places : docs[d][x] # NoDoc => docs[d][x].device # "given"
      BY <2>1, <2>3 DEF SInv, IInv, Untouched
    <3>3. View(docs[d][p]) = View(new)
      BY <1>1, <3>1, <3>2 DEF View, Has
    <3>4. docs[d][q] = NoDoc \/ (docs[d][q].id = i /\ View(docs[d][q]) = View(new))
      BY <1>1, <1>4, <3>2 DEF View
    <3>5. SeenIn(docs'[d], i) = SeenIn(docs[d], i)
      <4>0. /\ Has(docs[d], p, new.id)
            /\ docs[d][q] = NoDoc \/ (docs[d][q].id = new.id /\ View(docs[d][q]) = View(new))
        BY <1>1, <3>1, <3>4
      <4>1. SeenIn(Put(docs[d], q, new), new.id) = SeenIn(docs[d], new.id)
        BY <1>1, <1>5, <3>3, <4>0, SeenAgain
      <4> QED
        BY <1>1, <1>5, <4>1
    <3>6. Sets' = Sets
      <4>1. Seen(d, i)' = Sets[d][i]
        BY <1>1, <3>5, SeenViews DEF Sets
      <4>2. [Sets EXCEPT ![d][i] = Sets[d][i]] = Sets
        BY <1>1 DEF Sets
      <4> QED
        BY <1>6, <4>1, <4>2
    <3> QED
      BY <1>2, <1>3, <3>6, StutterMaps
  <2> QED
    BY <2>2, <2>3
<1> QED
  BY <1>7, <1>8

\* A status update that begins asks, and changes nothing else.
LEMMA AskMaps ==
    ASSUME SInv, NEW d \in Dbs, NEW i \in AuthIds, NEW q \in Places, NEW new \in Doc \cup {NoDoc},
           RequestAt(d, i, q, new), NEW u \in Updaters,
           held[u] = {}, Has(docs[d], q, i), new = docs[d][q],
           held' = [held EXCEPT ![u] = {[db |-> d, id |-> i, device |-> new.device]}]
    PROVE  [Store!Next]_(Store!vars)
<1> DEFINE r == [db |-> d, id |-> i, device |-> new.device]
           v == View(new)
<1>1. docs' = docs
  BY DEF RequestAt, Put, SInv, IInv, TypeOK
<1>2. Sets' = Sets /\ Raced' = Raced /\ UNCHANGED recorded
      /\ early' = (IF d \in recorded THEN early ELSE early \cup {d})
  BY <1>1 DEF RequestAt, Sets, Seen, Of, Raced
<1>3. v \in Sets[d][i]
  BY SeenViews DEF Has, Of, SeenIn, Sets
<1>4. Question(r) = [db |-> d, id |-> i, given |-> v.given]
  BY DEF Question, View
<1>5. Asked[u] = {} /\ Asked' = [Asked EXCEPT ![u] = {[db |-> d, id |-> i, given |-> v.given]}]
  <2>1. Asked[u] = {}
    BY DEF Asked
  <2> HIDE DEF v
  <2>2. Asked' = [Asked EXCEPT ![u] = {Question(x) : x \in {r}}]
    BY AskedChange DEF SInv, IInv
  <2>3. {Question(x) : x \in {r}} = {[db |-> d, id |-> i, given |-> v.given]}
    BY <1>4
  <2> QED
    BY <2>1, <2>2, <2>3
<1> HIDE DEF v
<1>6. Store!Ask(u, d, i)
  BY <1>2, <1>3, <1>5 DEF Store!Ask, Sets, Asked, Question, Raced
<1> QED
  BY <1>6 DEF Store!Next

\* The write of a status update, where the migration is recorded: the device id is the one
\* read, or else the update came early and left the one there.
LEMMA DecideMaps ==
    ASSUME SInv, NEW d \in Dbs, NEW i \in AuthIds, NEW q \in Places, NEW new \in Doc,
           d \in recorded, NEW u \in Updaters, NEW r \in held[u],
           r.db = d, r.id = i, held' = [held EXCEPT ![u] = {}],
           \/ new.device = r.device
           \/ r.device = "unset" /\ Has(docs[d], q, i) /\ new.device = docs[d][q].device,
           Sets' = [Sets EXCEPT ![d][i] = {View(new)}],
           UNCHANGED <<recorded, early>>, Raced' = Raced
    PROVE  [Store!Next]_(Store!vars)
<1> DEFINE a == Question(r)
           g == new.device = "given"
<1>1. a \in Asked[u] /\ a.db = d /\ a.id = i /\ a.given = (r.device = "given")
  BY DEF Asked, Question
<1>2. Asked' = [Asked EXCEPT ![u] = {}]
  BY AskedDone DEF SInv, IInv
<1>3. View(new) = [status |-> new.status, given |-> g] /\ new.status \in Statuses
  BY DEF View, Doc
<1>4. g \in {a.given} \cup {v.given : v \in IF a.db \in early THEN Sets[a.db][a.id] ELSE {}}
  <2>1. CASE new.device = r.device
    BY <1>1, <2>1
  <2>2. CASE r.device = "unset" /\ Has(docs[d], q, i) /\ new.device = docs[d][q].device
    <3>1. d \in early
      BY <2>2 DEF SInv, IInv, ReadsAreKnown
    <3>2. View(docs[d][q]) \in Sets[d][i]
      BY <2>2, SeenViews DEF Has, Of, SeenIn, Sets
    <3>3. View(docs[d][q]).given = g
      BY <2>2 DEF View
    <3> QED
      BY <1>1, <3>1, <3>2, <3>3
  <2> QED
    BY <2>1, <2>2
<1>5. Sets' = [Sets EXCEPT ![a.db][a.id] = {[status |-> new.status, given |-> g]}]
  BY <1>1, <1>3, Zenon
<1> HIDE DEF a, g
<1>6. Store!Becomes(a.db, a.id, {[status |-> new.status, given |-> g]})
  BY <1>5 DEF Store!Becomes, Sets, Raced
<1>7. a.db \in recorded
  BY <1>1
<1>8. Store!Decide(u)
  BY <1>1, <1>2, <1>3, <1>4, <1>6, <1>7 DEF Store!Decide, Sets, Asked, Question, Raced
<1> QED
  BY <1>8 DEF Store!Next

\* A request is a request of the store.
LEMMA RequestMaps ==
    ASSUME SInv, TypeOK', NEW d \in Dbs, NEW i \in AuthIds, NEW q \in Places,
           NEW new \in Doc \cup {NoDoc}, RequestAt(d, i, q, new)
    PROVE  [Store!Next]_(Store!vars)
<1>1. /\ docs'[d][q] = new
      /\ \A e \in Dbs, p \in Places : e # d \/ p # q => docs'[e][p] = docs[e][p]
      /\ docs[d][q] = NoDoc \/ docs[d][q].id = i
      /\ new # NoDoc => new.id = i
  BY RequestFields DEF SInv, IInv
<1>2. /\ early' = IF d \in recorded THEN early ELSE early \cup {d}
      /\ UNCHANGED recorded /\ Raced' = Raced
  BY DEF RequestAt, Raced
<1>3. docs[d] \in Contents /\ docs'[d] \in Contents
  BY DEF SInv, IInv, TypeOK, Contents
<1>4. Sets' = [Sets EXCEPT ![d][i] = Seen(d, i)']
  BY <1>1, SetsWrite DEF SInv, IInv
<1>5. ASSUME d \notin recorded,
             Asked' \in {Asked} \cup {[Asked EXCEPT ![u] = {}] : u \in Updaters}
      PROVE  [Store!Next]_(Store!vars)
  <2>1. \E c \in [AuthIds -> SUBSET Store!View] : Sets' = [Sets EXCEPT ![d] = c]
    BY <1>3, <1>4, SetsType DEF SInv, IInv
  <2> QED
    BY <1>2, <1>5, <2>1, MixMaps
<1>6. ASSUME d \in recorded, new # NoDoc
      PROVE  /\ new \in Doc /\ new.id = i /\ new.status \in Statuses
             /\ Seen(d, i)' = {View(new)}
             /\ Store!Becomes(d, i, {View(new)})
             /\ Sets' = [Sets EXCEPT ![d][i] = {View(new)}]
  <2>1. Unique(docs[d]) /\ Unique(docs'[d])
    BY <1>2, <1>6 DEF SInv, IInv, TypeOK
  <2>2. new \in Doc /\ new.id = i /\ new.status \in Statuses
    BY <1>1, <1>6 DEF Doc
  <2>3. Seen(d, i)' = {View(new)}
    BY <1>1, <2>1, <2>2, SeenOne, SeenViews
  <2>4. Store!Becomes(d, i, {View(new)})
    BY <1>2, <1>4, <1>6, <2>3 DEF Store!Becomes, Sets, Raced
  <2> QED
    BY <1>4, <2>2, <2>3, <2>4
<1>7. CASE /\ held' = held
           /\ \/ new = NoDoc \/ new.device = "given"
              \/ Has(docs[d], q, i) /\ new.device = docs[d][q].device
  <2>1. Asked' = Asked
    BY <1>7, AskedChange DEF SInv, IInv
  <2>2. CASE d \notin recorded
    BY <1>5, <2>1, <2>2
  <2>3. CASE d \in recorded /\ new = NoDoc
    <3>1. Has(docs[d], q, i)
      BY <2>3 DEF RequestAt, Has, Put, SInv, IInv, TypeOK
    <3>2. Unique(docs[d]) /\ Unique(docs'[d])
      BY <1>2, <2>3 DEF SInv, IInv, TypeOK
    <3>3. Of(docs'[d], i) = {}
      BY <1>1, <2>3, <3>1, <3>2 DEF Of, Unique, Has
    <3>4. Seen(d, i)' = {}
      BY <3>3, SeenViews DEF SeenIn
    <3>5. Store!Becomes(d, i, {})
      BY <1>2, <1>4, <2>3, <3>4 DEF Store!Becomes, Sets, Raced
    <3>6. Store!Delete(d, i)
      BY <2>1, <2>3, <3>5 DEF Store!Delete, Asked, Question
    <3> QED
      BY <3>6 DEF Store!Next
  <2>4. CASE d \in recorded /\ new # NoDoc /\ new.device = "given"
    <3>1. View(new) = [status |-> new.status, given |-> TRUE]
      BY <2>4 DEF View
    <3>2. Store!Submit(d, i)
      BY <1>6, <2>1, <2>4, <3>1 DEF Store!Submit, Asked, Question
    <3> QED
      BY <3>2 DEF Store!Next
  <2>5. CASE d \in recorded /\ new # NoDoc /\ new.device # "given"
    <3>1. Has(docs[d], q, i) /\ new.device = docs[d][q].device
      BY <1>7, <2>5
    <3>2. View(docs[d][q]) \in Sets[d][i]
      BY <3>1, SeenViews DEF Has, Of, SeenIn, Sets
    <3>3. View(new) = [View(docs[d][q]) EXCEPT !.status = new.status]
      BY <3>1 DEF View
    <3>4. Store!Accept(d, i)
      BY <1>6, <2>1, <2>5, <3>2, <3>3 DEF Store!Accept, Sets, Asked, Question
    <3> QED
      BY <3>4 DEF Store!Next
  <2> QED
    BY <2>2, <2>3, <2>4, <2>5
<1>8. ASSUME NEW u \in Updaters, held[u] = {}, Has(docs[d], q, i), new = docs[d][q],
             held' = [held EXCEPT ![u] = {[db |-> d, id |-> i, device |-> new.device]}]
      PROVE  [Store!Next]_(Store!vars)
  BY <1>8, AskMaps
<1>9. ASSUME NEW u \in Updaters, NEW r \in held[u],
             r.db = d, r.id = i, new # NoDoc, held' = [held EXCEPT ![u] = {}],
             \/ new.device = r.device
             \/ r.device = "unset" /\ Has(docs[d], q, i) /\ new.device = docs[d][q].device
      PROVE  [Store!Next]_(Store!vars)
  <2>1. CASE d \notin recorded
    <3>1. Asked' = [Asked EXCEPT ![u] = {}]
      BY <1>9, AskedDone DEF SInv, IInv
    <3> QED
      BY <1>5, <2>1, <3>1
  <2>2. CASE d \in recorded
    <3>1. new \in Doc /\ Sets' = [Sets EXCEPT ![d][i] = {View(new)}]
      BY <1>6, <1>9, <2>2
    <3>2. UNCHANGED <<recorded, early>> /\ Raced' = Raced
      BY <1>2, <2>2
    <3> QED
      BY <1>9, <2>2, <3>1, <3>2, DecideMaps
  <2> QED
    BY <2>1, <2>2
<1> QED
  BY <1>7, <1>8, <1>9 DEF RequestAt, Reads

-----------------------------------------------------------------------------
(* The refinement.                                                         *)

\* The three hold when nothing runs yet,
LEMMA SInvInit == Init => SInv
<1>1. Init => RacedAreRecorded /\ BatchIsStored
  BY DEF Init, RacedAreRecorded, BatchIsStored, Idle
<1> QED
  BY <1>1, IInvInit DEF SInv

\* and after every step.
LEMMA SInvStep == SInv /\ [Next]_vars => SInv'
BY IInvStep, RacedStep, BatchStep DEF SInv, IInv

\* Every step of a migrator or a request is one of the store, or none.
LEMMA StepMaps == SInv /\ [Next]_vars => [Store!Next]_(Store!vars)
<1> SUFFICES ASSUME SInv, [Next]_vars PROVE [Store!Next]_(Store!vars)
  OBVIOUS
<1>0. TypeOK /\ TypeOK' /\ \A m \in Migrators : mig[m].at \in {"up", "record"} => mig[m].db \in Dbs
  BY SInvStep DEF SInv, IInv, Positions, Working
<1>1. ASSUME NEW m \in Migrators, Moves(m) PROVE [Store!Next]_(Store!vars)
  <2>1. CASE UpdateMigrationInfo(m)
    BY <1>0, <2>1, RecordMaps DEF UpdateMigrationInfo
  <2>2. CASE ~UpdateMigrationInfo(m)
    BY <1>1, <2>2, QuietMaps
  <2> QED
    BY <2>1, <2>2
<1>2. ASSUME NEW m \in Migrators, NEW old \in mig[m].batch, NEW q \in Places, UpAt(m, old, q)
      PROVE  [Store!Next]_(Store!vars)
  BY <1>0, <1>2, UpMaps DEF UpAt
<1>3. ASSUME NEW d \in Dbs, NEW i \in AuthIds, NEW q \in Places, NEW new \in Doc \cup {NoDoc},
             RequestAt(d, i, q, new)
      PROVE  [Store!Next]_(Store!vars)
  BY <1>0, <1>3, RequestMaps
<1>4. ASSUME UNCHANGED Data, held' = held PROVE [Store!Next]_(Store!vars)
  <2>1. Sets' = Sets /\ Raced' = Raced /\ UNCHANGED <<recorded, early>>
    BY <1>4 DEF Data, Sets, Seen, Of, Raced
  <2>2. Asked' = Asked
    BY <1>0, <1>4, AskedChange
  <2> QED
    BY <2>1, <2>2, StutterMaps
<1>5. ASSUME NEW u \in Updaters, GiveUp(u) PROVE [Store!Next]_(Store!vars)
  BY <1>0, <1>5, GiveUpMaps
<1>6. ReadsAreKnown
  BY DEF SInv, IInv
<1> QED
  BY <1>0, <1>1, <1>2, <1>3, <1>4, <1>5, <1>6, Steps

\* Migration implements SetStore: however many migrators run, stop and start again, what
\* requests see of a set changes by requests only, some of which write back what they read
\* before, but for databases with early requests or late migrators (Up in
\* migration_1_1_0.go, Migrate and MigrateTenant, updateDeviceAuthStatus).
THEOREM Refinement == Spec => MigrationIsNotSeen
<1>1. Init => Store!Init
  BY InitMaps
<1>2. Spec => []SInv
  BY SInvInit, SInvStep, PTL DEF Spec
<1> QED
  BY <1>1, <1>2, StepMaps, PTL DEF Spec, MigrationIsNotSeen, Store!Spec

-----------------------------------------------------------------------------
(* What follows for whoever uses the store.                                *)

\* Before its migration and before early requests, a database tells of no device id that
\* a request gave.
StoreInv ==
    /\ Sets \in [Dbs -> [AuthIds -> SUBSET Store!View]]
    /\ Asked \in [Updaters -> SUBSET Store!Question]
    /\ recorded \subseteq Dbs /\ Raced \subseteq recorded
    /\ \A d \in recorded, i \in AuthIds : \A v, w \in Sets[d][i] : v = w
    /\ \A d \in Dbs \ (recorded \cup early), i \in AuthIds : \A v \in Sets[d][i] : ~v.given

\* A request or a late migrator makes one document of a set of a recorded database.
LEMMA BecomesOne ==
    ASSUME StoreInv, NEW d \in recorded, NEW i \in AuthIds, NEW views \in SUBSET Store!View,
           \A v, w \in views : v = w, Store!Becomes(d, i, views),
           Asked' \in [Updaters -> SUBSET Store!Question]
    PROVE  StoreInv'
<1>1. Sets \in [Dbs -> [AuthIds -> SUBSET Store!View]] /\ d \in Dbs
  BY DEF StoreInv
<1>2. /\ Sets' = [Sets EXCEPT ![d][i] = views]
      /\ recorded' = recorded /\ early' = early /\ Raced' = Raced
  BY DEF Store!Becomes, Sets, Raced
<1>3. /\ Sets' \in [Dbs -> [AuthIds -> SUBSET Store!View]] /\ Sets'[d][i] = views
      /\ \A e \in Dbs, j \in AuthIds : e # d \/ j # i => Sets'[e][j] = Sets[e][j]
  BY <1>1, <1>2
<1> QED
  BY <1>1, <1>2, <1>3 DEF StoreInv

\* At first every set is one document or none,
LEMMA StoreInvInit == Store!Init => StoreInv
<1> SUFFICES ASSUME Store!Init PROVE StoreInv
  OBVIOUS
<1>1. Sets \in [Dbs -> [AuthIds -> {{}} \cup {{v} : v \in Store!Ungiven}]]
  BY DEF Store!Init, Sets
<1>2. ASSUME NEW d \in Dbs, NEW i \in AuthIds
      PROVE  /\ Sets[d][i] \in SUBSET Store!View
             /\ \A v \in Sets[d][i] : ~v.given
  BY <1>1 DEF Store!Ungiven
<1>3. Sets \in [Dbs -> [AuthIds -> SUBSET Store!View]]
  BY <1>1 DEF Store!Ungiven
<1>4. Asked \in [Updaters -> SUBSET Store!Question]
  <2>1. Asked = [u \in Updaters |-> {}]
    BY DEF Store!Init, Asked, Question
  <2> QED
    BY <2>1
<1> QED
  BY <1>2, <1>3, <1>4 DEF Store!Init, StoreInv, Raced

\* and no step of the store makes two of one where the migration is recorded.
LEMMA StoreInvStep == StoreInv /\ [Store!Next]_(Store!vars) => StoreInv'
<1> SUFFICES ASSUME StoreInv, [Store!Next]_(Store!vars) PROVE StoreInv'
  OBVIOUS
<1>0. /\ Sets \in [Dbs -> [AuthIds -> SUBSET Store!View]] /\ Raced \subseteq recorded
      /\ Asked \in [Updaters -> SUBSET Store!Question]
  BY DEF StoreInv
<1>1. ASSUME NEW d \in Dbs, Store!Record(d) PROVE StoreInv'
  <2>1. /\ Sets' = Sets /\ Asked' = Asked /\ recorded' = recorded \cup {d} /\ early' = early
        /\ Raced' \in {Raced, Raced \cup {d}}
    BY <1>1 DEF Store!Record, Sets, Asked, Question, Raced
  <2>2. \A i \in AuthIds : \A v, w \in Sets[d][i] : v = w
    BY <1>1 DEF Store!Record, Store!AtMostOne, Sets
  <2> QED
    BY <2>1, <2>2 DEF StoreInv
<1>2. ASSUME NEW d \in Dbs, Store!Leave(d) PROVE StoreInv'
  <2>1. /\ Sets' = Sets /\ Asked' = Asked /\ recorded' = recorded /\ early' = early
        /\ Raced' = Raced \ {d}
    BY <1>2 DEF Store!Leave, Sets, Asked, Question, Raced
  <2> QED
    BY <2>1 DEF StoreInv
<1>3. ASSUME NEW d \in Dbs, Store!Mix(d) PROVE StoreInv'
  <2>1. PICK c \in [AuthIds -> SUBSET Store!View] : Sets' = [Sets EXCEPT ![d] = c]
    BY <1>3 DEF Store!Mix, Sets
  <2>2. /\ d \notin recorded /\ recorded' = recorded /\ early' = early \cup {d}
        /\ Raced' = Raced
    BY <1>3 DEF Store!Mix, Raced
  <2>3. /\ Sets' \in [Dbs -> [AuthIds -> SUBSET Store!View]]
        /\ \A e \in Dbs \ {d} : Sets'[e] = Sets[e]
    BY <1>0, <2>1
  <2>4. Asked' \in [Updaters -> SUBSET Store!Question]
    <3>1. Asked' \in {Asked} \cup {[Asked EXCEPT ![u] = {}] : u \in Updaters}
      BY <1>3 DEF Store!Mix, Asked, Question
    <3> QED
      BY <1>0, <3>1
  <2> QED
    BY <2>2, <2>3, <2>4 DEF StoreInv
<1>4. ASSUME NEW d \in Dbs, NEW i \in AuthIds, Store!Submit(d, i) PROVE StoreInv'
  <2>1. PICK s \in Statuses : Store!Becomes(d, i, {[status |-> s, given |-> TRUE]})
    BY <1>4 DEF Store!Submit
  <2>2. {[status |-> s, given |-> TRUE]} \in SUBSET Store!View
    BY DEF Store!View
  <2>3. Asked' = Asked
    BY <1>4 DEF Store!Submit, Asked, Question
  <2> QED
    BY <1>0, <1>4, <2>1, <2>2, <2>3, BecomesOne DEF Store!Submit
<1>5. ASSUME NEW d \in Dbs, NEW i \in AuthIds, Store!Accept(d, i) PROVE StoreInv'
  <2>1. PICK v \in Sets[d][i], s \in Statuses : Store!Becomes(d, i, {[v EXCEPT !.status = s]})
    BY <1>5 DEF Store!Accept, Sets
  <2>2. {[v EXCEPT !.status = s]} \in SUBSET Store!View
    BY <1>0 DEF Store!View
  <2>3. Asked' = Asked
    BY <1>5 DEF Store!Accept, Asked, Question
  <2> QED
    BY <1>0, <1>5, <2>1, <2>2, <2>3, BecomesOne DEF Store!Accept
<1>6. ASSUME NEW d \in Dbs, NEW i \in AuthIds, Store!Delete(d, i) PROVE StoreInv'
  <2>1. {} \in SUBSET Store!View
    OBVIOUS
  <2>2. Asked' = Asked
    BY <1>6 DEF Store!Delete, Asked, Question
  <2> QED
    BY <1>0, <1>6, <2>1, <2>2, BecomesOne DEF Store!Delete
<1>7. ASSUME NEW d \in Dbs, NEW i \in AuthIds, Store!Undo(d, i) PROVE StoreInv'
  <2>1. PICK v \in Store!Ungiven : Store!Becomes(d, i, {v})
    BY <1>7 DEF Store!Undo
  <2>2. {v} \in SUBSET Store!View /\ d \in recorded
    BY <1>0, <1>7 DEF Store!Ungiven, Store!Undo, Raced
  <2>3. Asked' = Asked
    BY <1>7 DEF Store!Undo, Asked, Question
  <2> QED
    BY <1>0, <2>1, <2>2, <2>3, BecomesOne
<1>8. ASSUME NEW d \in Dbs, NEW i \in AuthIds, NEW u \in Updaters, Store!Ask(u, d, i)
      PROVE  StoreInv'
  <2>1. PICK v \in Sets[d][i] :
           Asked' = [Asked EXCEPT ![u] = {[db |-> d, id |-> i, given |-> v.given]}]
    BY <1>8 DEF Store!Ask, Sets, Asked, Question
  <2>2. [db |-> d, id |-> i, given |-> v.given] \in Store!Question
    BY <1>0 DEF Store!View, Store!Question
  <2>3. Asked' \in [Updaters -> SUBSET Store!Question]
    BY <1>0, <2>1, <2>2
  <2>4. /\ Sets' = Sets /\ recorded' = recorded /\ early \subseteq early' /\ Raced' = Raced
    BY <1>8 DEF Store!Ask, Sets, Raced
  <2> QED
    BY <2>3, <2>4 DEF StoreInv
<1>9. ASSUME NEW u \in Updaters, Store!GiveUp(u) PROVE StoreInv'
  <2>1. /\ Sets' = Sets /\ recorded' = recorded /\ early' = early /\ Raced' = Raced
        /\ Asked' = [Asked EXCEPT ![u] = {}]
    BY <1>9 DEF Store!GiveUp, Sets, Asked, Question, Raced
  <2>2. Asked' \in [Updaters -> SUBSET Store!Question]
    BY <1>0, <2>1
  <2> QED
    BY <2>1, <2>2 DEF StoreInv
<1>10. ASSUME NEW u \in Updaters, Store!Decide(u) PROVE StoreInv'
  <2>1. PICK a \in Asked[u], s \in Statuses,
             g \in {x.given : x \in Store!Question} \cup {x.given : x \in Store!View} :
           /\ a.db \in recorded
           /\ Store!Becomes(a.db, a.id, {[status |-> s, given |-> g]})
    <3>1. PICK a \in Asked[u], s \in Statuses :
             /\ a.db \in recorded
             /\ \E g \in {a.given} \cup
                      {v.given : v \in IF a.db \in early THEN Sets[a.db][a.id] ELSE {}} :
                   Store!Becomes(a.db, a.id, {[status |-> s, given |-> g]})
      BY <1>10 DEF Store!Decide, Sets, Asked, Question
    <3>2. a \in Store!Question /\ a.db \in Dbs /\ a.id \in AuthIds
      BY <1>0 DEF Store!Question
    <3>3. Sets[a.db][a.id] \subseteq Store!View
      BY <1>0, <3>2
    <3> QED
      BY <3>1, <3>2, <3>3
  <2>2. a \in Store!Question /\ a.id \in AuthIds
    BY <1>0 DEF Store!Question
  <2>3. g \in BOOLEAN
    BY DEF Store!Question, Store!View
  <2>4. {[status |-> s, given |-> g]} \in SUBSET Store!View
    BY <2>3 DEF Store!View
  <2>5. Asked' = [Asked EXCEPT ![u] = {}]
    BY <1>10 DEF Store!Decide, Asked, Question
  <2>6. Asked' \in [Updaters -> SUBSET Store!Question]
    BY <1>0, <2>5
  <2>7. PICK d \in recorded, i \in AuthIds : d = a.db /\ i = a.id
    BY <2>1, <2>2
  <2>8. Store!Becomes(d, i, {[status |-> s, given |-> g]})
    BY <2>1, <2>7
  <2> QED
    BY <2>4, <2>6, <2>8, BecomesOne
<1>11. CASE UNCHANGED Store!vars
  <2>1. Sets' = Sets /\ Asked' = Asked /\ recorded' = recorded /\ early' = early /\ Raced' = Raced
    BY <1>11 DEF Store!vars, Sets, Asked, Question, Raced
  <2> QED
    BY <2>1 DEF StoreInv
<1> QED
  BY <1>1, <1>2, <1>3, <1>4, <1>5, <1>6, <1>7, <1>8, <1>9, <1>10, <1>11 DEF Store!Next

\* Where the migration is recorded, a set is one document for the requests that run: with
\* the index there, neither they nor late migrators make a second (EnsureIndexes).
THEOREM SetsAreSingle == Spec => []Store!OnePerSet
<1>1. StoreInv => Store!OnePerSet
  BY DEF StoreInv, Store!OnePerSet, Store!AtMostOne, Sets
<1>2. MigrationIsNotSeen => []Store!OnePerSet
  BY <1>1, StoreInvInit, StoreInvStep, PTL DEF MigrationIsNotSeen, Store!Spec
<1> QED
  BY <1>2, Refinement, PTL

\* The set does not get a document without a device id from a request, unless an update
\* writes back that it had none.
Kept(d, i) ==
    (\A v \in Sets[d][i] : v.given) =>
        \/ \A v \in Sets'[d][i] : v.given
        \/ \E u \in Updaters : [db |-> d, id |-> i, given |-> FALSE] \in Asked[u] /\ Asked'[u] = {}

\* A request that makes one document of a set has one to tell of, or gives the id itself.
LEMMA BecomesKept ==
    ASSUME StoreInv, NEW d \in Dbs, NEW i \in AuthIds,
           NEW e \in Dbs, NEW j \in AuthIds, NEW views, Store!Becomes(e, j, views),
           \/ e # d \/ j # i
           \/ \A v \in views : v.given
           \/ \E w \in Sets[e][j] : \A v \in views : v.given = w.given
    PROVE  Kept(d, i)
<1>1. Sets \in [Dbs -> [AuthIds -> SUBSET Store!View]]
  BY DEF StoreInv
<1>2. Sets' = [Sets EXCEPT ![e][j] = views]
  BY DEF Store!Becomes, Sets
<1>3. CASE e = d /\ j = i
  BY <1>1, <1>2, <1>3 DEF Kept
<1>4. CASE e # d \/ j # i
  BY <1>1, <1>2, <1>4 DEF Kept
<1> QED
  BY <1>3, <1>4

\* A set that has the device id that a request gave keeps one, and one that was deleted
\* does not come back without, whatever runs, unless an update writes back that it read no
\* such id before, a request came early or a migrator is late (Up, PutDeviceAuth and
\* updateDeviceAuthStatus).
THEOREM GivenIdsAreKept == Spec => Store!GivenStays
<1>1. ASSUME StoreInv, [Store!Next]_(Store!vars),
             NEW d \in Dbs \ (early' \cup Raced), NEW i \in AuthIds
      PROVE  Kept(d, i)
  <2>1. CASE Sets' = Sets
    BY <2>1 DEF Kept
  <2>2. CASE UNCHANGED Store!vars
    BY <2>1, <2>2 DEF Store!vars, Sets
  <2>3. ASSUME NEW e \in Dbs, NEW j \in AuthIds, Store!Submit(e, j) PROVE Kept(d, i)
    BY <1>1, <2>3, BecomesKept DEF Store!Submit
  <2>4. ASSUME NEW e \in Dbs, NEW j \in AuthIds, Store!Accept(e, j) PROVE Kept(d, i)
    <3>1. PICK v \in Sets[e][j], s \in Statuses : Store!Becomes(e, j, {[v EXCEPT !.status = s]})
      BY <2>4 DEF Store!Accept, Sets
    <3>2. [v EXCEPT !.status = s].given = v.given
      BY <1>1 DEF Store!View, StoreInv
    <3>3. \A w \in {[v EXCEPT !.status = s]} : w.given = v.given
      BY <3>2
    <3> QED
      BY <1>1, <3>1, <3>3, BecomesKept
  <2>5. ASSUME NEW e \in Dbs, NEW j \in AuthIds, Store!Delete(e, j) PROVE Kept(d, i)
    BY <1>1, <2>5, BecomesKept DEF Store!Delete
  <2>6. ASSUME NEW e \in Dbs, NEW j \in AuthIds, Store!Undo(e, j) PROVE Kept(d, i)
    BY <1>1, <2>6, BecomesKept DEF Store!Undo, Raced
  <2>7. ASSUME NEW e \in Dbs, Store!Record(e) \/ Store!Leave(e) PROVE Kept(d, i)
    BY <2>1, <2>7 DEF Store!Record, Store!Leave, Sets
  <2>8. ASSUME NEW e \in Dbs, Store!Mix(e) PROVE Kept(d, i)
    <3>1. PICK c \in [AuthIds -> SUBSET Store!View] : Sets' = [Sets EXCEPT ![e] = c]
      BY <2>8 DEF Store!Mix, Sets
    <3>2. e # d
      BY <2>8 DEF Store!Mix
    <3> QED
      BY <1>1, <3>1, <3>2 DEF Kept, StoreInv
  <2>9. ASSUME NEW u \in Updaters,
               Store!GiveUp(u) \/ \E e \in Dbs, j \in AuthIds : Store!Ask(u, e, j)
        PROVE  Kept(d, i)
    BY <2>1, <2>9 DEF Store!GiveUp, Store!Ask, Sets
  <2>10. ASSUME NEW u \in Updaters, Store!Decide(u) PROVE Kept(d, i)
    <3>1. PICK a \in Asked[u], s \in Statuses :
             \E g \in {a.given} \cup
                      {v.given : v \in IF a.db \in early THEN Sets[a.db][a.id] ELSE {}} :
                Store!Becomes(a.db, a.id, {[status |-> s, given |-> g]})
      BY <2>10 DEF Store!Decide, Sets, Asked, Question
    <3>2. early' = early
      BY <3>1 DEF Store!Becomes
    <3>3. a \in Store!Question /\ a.db \in Dbs /\ a.id \in AuthIds
          /\ a = [db |-> a.db, id |-> a.id, given |-> a.given] /\ a.given \in BOOLEAN
      BY <1>1 DEF StoreInv, Store!Question
    <3>4. Asked' = [Asked EXCEPT ![u] = {}] /\ Asked'[u] = {}
      BY <1>1, <2>10 DEF Store!Decide, Asked, Question, StoreInv
    <3>5. PICK e \in Dbs, j \in AuthIds : e = a.db /\ j = a.id
      BY <3>3
    <3>6. CASE e = d /\ j = i /\ ~a.given
      BY <3>3, <3>4, <3>5, <3>6 DEF Kept
    <3>7. CASE e # d \/ j # i \/ a.given
      <4>1. PICK g : /\ Store!Becomes(e, j, {[status |-> s, given |-> g]})
                     /\ e = d => g = a.given
        BY <1>1, <3>1, <3>2, <3>5
      <4>2. e # d \/ j # i \/ \A v \in {[status |-> s, given |-> g]} : v.given
        BY <3>7, <4>1
      <4> QED
        BY <1>1, <4>1, <4>2, BecomesKept
    <3> QED
      BY <3>6, <3>7
  <2> QED
    BY <1>1, <2>2, <2>3, <2>4, <2>5, <2>6, <2>7, <2>8, <2>9, <2>10 DEF Store!Next
<1>2. StoreInv /\ [Store!Next]_(Store!vars) => [Store!KeepsGiven]_(Store!vars)
  BY <1>1 DEF Kept, Store!KeepsGiven, Store!WritesBack, Sets, Asked, Question, Raced
<1>3. MigrationIsNotSeen => Store!GivenStays
  BY <1>2, StoreInvInit, StoreInvStep, PTL DEF MigrationIsNotSeen, Store!Spec, Store!GivenStays
<1> QED
  BY <1>3, Refinement, PTL
=============================================================================
