------------------------------ MODULE SetStore ------------------------------
(***************************************************************************)
(* The sets of each database as requests see them while databases are      *)
(* migrated: a migration is not seen.  It changes nothing that a request   *)
(* can tell, but that from its end on a set is one document.  What may go  *)
(* wrong is named: requests that come before the end, and a migrator that  *)
(* is still at work on a database when another has come to the end.        *)
(***************************************************************************)
CONSTANTS
    Dbs,         \* databases
    AuthIds,     \* ids of authentication sets
    Statuses,    \* what else a document tells about its set
    Updaters     \* status updates under way at a time

VARIABLES
    sets,        \* sets[d][i]: what the documents of set i tell
    asked,       \* what each status update under way has read: one set, or none yet
    recorded,    \* databases whose migration is recorded
    early,       \* databases that requests came to before
    raced        \* databases on which a migrator still works after the record

vars == <<sets, asked, recorded, early, raced>>

\* given: the device id is one that a request gave.
View == [status : Statuses, given : BOOLEAN]

Question == [db : Dbs, id : AuthIds, given : BOOLEAN]

TypeOK ==
    /\ sets \in [Dbs -> [AuthIds -> SUBSET View]]
    /\ asked \in [Updaters -> SUBSET Question]
    /\ recorded \subseteq Dbs /\ early \subseteq Dbs
    /\ raced \subseteq recorded

AtMostOne(d) == \A i \in AuthIds : \A v, w \in sets[d][i] : v = w

Ungiven == {v \in View : ~v.given}

Init ==
    /\ sets \in [Dbs -> [AuthIds -> {{}} \cup {{v} : v \in Ungiven}]]
    /\ asked = [u \in Updaters |-> {}]
    /\ recorded = {} /\ early = {} /\ raced = {}

\* The end of a migration, which others may be at as well.
Record(d) ==
    /\ d \notin recorded /\ AtMostOne(d)
    /\ recorded' = recorded \cup {d}
    /\ raced' \in {raced, raced \cup {d}}
    /\ UNCHANGED <<sets, asked, early>>

\* The others have stopped, or come to the end, too.
Leave(d) ==
    /\ raced' = raced \ {d}
    /\ UNCHANGED <<sets, asked, recorded, early>>

Becomes(d, i, views) ==
    /\ sets' = [sets EXCEPT ![d][i] = views]
    /\ UNCHANGED <<recorded, early, raced>>

\* Requests that write once.
Submit(d, i) ==
    /\ d \in recorded
    /\ \E s \in Statuses : Becomes(d, i, {[status |-> s, given |-> TRUE]})
    /\ UNCHANGED asked

Accept(d, i) ==
    /\ d \in recorded
    /\ \E v \in sets[d][i], s \in Statuses : Becomes(d, i, {[v EXCEPT !.status = s]})
    /\ UNCHANGED asked

Delete(d, i) == d \in recorded /\ Becomes(d, i, {}) /\ UNCHANGED asked

\* An operator's update reads first and asks another service.
Ask(u, d, i) ==
    /\ asked[u] = {}
    /\ \E v \in sets[d][i] :
          asked' = [asked EXCEPT ![u] = {[db |-> d, id |-> i, given |-> v.given]}]
    /\ early' = IF d \in recorded THEN early ELSE early \cup {d}
    /\ UNCHANGED <<sets, recorded, raced>>

GiveUp(u) ==
    /\ asked' = [asked EXCEPT ![u] = {}]
    /\ UNCHANGED <<sets, recorded, early, raced>>

\* It writes back what it read, over what others wrote since, or where nothing is left.
\* One that came early may have read no device id, and leaves the one there is.
Decide(u) ==
    \E r \in asked[u], s \in Statuses :
        /\ r.db \in recorded
        /\ \E given \in {r.given} \cup
                 {v.given : v \in IF r.db \in early THEN sets[r.db][r.id] ELSE {}} :
              Becomes(r.db, r.id, {[status |-> s, given |-> given]})
        /\ asked' = [asked EXCEPT ![u] = {}]

\* Requests that come early, and what a migration makes of their documents.
Mix(d) ==
    /\ d \notin recorded
    /\ early' = early \cup {d}
    /\ \E c \in [AuthIds -> SUBSET View] : sets' = [sets EXCEPT ![d] = c]
    /\ asked' \in {asked} \cup {[asked EXCEPT ![u] = {}] : u \in Updaters}
    /\ UNCHANGED <<recorded, raced>>

\* A migrator that is late writes what it has read before.
Undo(d, i) ==
    /\ d \in raced
    /\ \E v \in Ungiven : Becomes(d, i, {v})
    /\ UNCHANGED asked

Next ==
    \/ \E d \in Dbs :
          \/ Record(d) \/ Leave(d) \/ Mix(d)
          \/ \E i \in AuthIds :
                \/ Submit(d, i) \/ Accept(d, i) \/ Delete(d, i) \/ Undo(d, i)
                \/ \E u \in Updaters : Ask(u, d, i)
    \/ \E u \in Updaters : Decide(u) \/ GiveUp(u)

Spec == Init /\ [][Next]_vars

-----------------------------------------------------------------------------

\* A set of a migrated database is one document.
OnePerSet == \A d \in recorded : AtMostOne(d)

\* The update had read that no request gave the set its device id, and ends.
WritesBack(u, d, i) ==
    [db |-> d, id |-> i, given |-> FALSE] \in asked[u] /\ asked'[u] = {}

\* Where no document of a set is without a device id that a request gave, because all were
\* given one or the set was deleted, there is none after a step either, unless an update
\* writes back that there was none when it read the set.
KeepsGiven ==
    \A d \in Dbs \ (early' \cup raced) : \A i \in AuthIds :
        (\A v \in sets[d][i] : v.given) =>
            \/ \A v \in sets'[d][i] : v.given
            \/ \E u \in Updaters : WritesBack(u, d, i)

GivenStays == [][KeepsGiven]_vars
=============================================================================
