------------------------------- MODULE Listing -------------------------------
(***************************************************************************)
(* GET /devices: the sets that match a filter, in pages that are cut from  *)
(* the collection as it is when each page is asked for, and a client that  *)
(* follows the links of the responses while sets come and go.  Sets are    *)
(* numbered in the order of their ids, in which pages are sorted.          *)
(***************************************************************************)
EXTENDS Integers, FiniteSets

CONSTANTS
    AuthIds,         \* ids of authentication sets
    Params,          \* the page and per_page parameters that a client sends
    PerPageMax,      \* the largest page size that is served
    PerPageDefault,  \* the page size of a request that names none
    Modulus          \* 2^32: parameters are unsigned, the skip is a signed word

ASSUME SortedIds == AuthIds \subseteq Nat /\ IsFiniteSet(AuthIds)

ASSUME PageSizes == PerPageMax \in Nat /\ PerPageDefault \in 1..PerPageMax

\* A skip is half a word: more sets than that cannot be paged through.
ASSUME WordSize ==
    Modulus \in Nat /\ PerPageMax < Modulus /\ 2 * Cardinality(AuthIds) <= Modulus

\* A parameter that is missing, and one that is no number or is refused: both
\* are no page and no page size.
Absent == -1
Refused == 0

ASSUME ParamsAreNumbers == Params \subseteq Int

VARIABLES
    matching,    \* the sets that match the filter now
    code,        \* the status of the last response
    page,        \* of the last page that was served: its number,
    perPage,     \* its size,
    hasNext,     \* and whether it had a link to the next one
    walking,     \* the client has come from the first page by "next" links only
    seen,        \* the sets it has been shown on the way (history)
    come,        \* the sets that began to match meanwhile (history)
    gone         \* the sets that ceased to match meanwhile (history)

vars == <<matching, code, page, perPage, hasNext, walking, seen, come, gone>>

TypeOK ==
    /\ matching \in SUBSET AuthIds
    /\ code \in {0, 200, 400, 500}
    /\ page \in 1..(Modulus - 1) /\ perPage \in 1..PerPageMax
    /\ hasNext \in BOOLEAN /\ walking \in BOOLEAN
    /\ seen \in SUBSET AuthIds
    /\ come \in SUBSET AuthIds
    /\ gone \in SUBSET AuthIds

Init ==
    /\ matching \in SUBSET AuthIds
    /\ code = 0
    /\ page = 1 /\ perPage = PerPageDefault
    /\ hasNext = FALSE /\ walking = FALSE
    /\ seen = {} /\ come = {} /\ gone = {}

-----------------------------------------------------------------------------
(* Parameters.                                                             *)

\* Wrong: no upper bound.
ParseQueryParmUIntUnbounded(val, max, def) ==
    IF val = Absent THEN def ELSE IF val >= 1 THEN val ELSE Refused

ParseQueryParmUInt(val, max, def) ==
    IF val = Absent THEN def ELSE IF val \in 1..max THEN val ELSE Refused

ParsePage(val) == ParseQueryParmUInt(val, Modulus - 1, 1)

ParsePerPage(val) == ParseQueryParmUInt(val, PerPageMax, PerPageDefault)

-----------------------------------------------------------------------------
(* Pages.                                                                  *)

\* The conversion of an int to the int32 in which the driver keeps a skip.
Int32(n) ==
    LET word == n % Modulus
    IN IF 2 * word < Modulus THEN word ELSE word - Modulus

Skip(p, pp) == Int32((p - 1) * pp)

\* How many sets of S are sorted before i.
Rank(S, i) == Cardinality({j \in S : j < i})

\* Find, Sort, Skip and Limit.
GetDeviceAuths(S, skip, limit) == {i \in S : Rank(S, i) \in skip..(skip + limit - 1)}

\* Wrong: does not ask for one set more than a page holds.
HasNextExact(S, p, pp) == Cardinality(GetDeviceAuths(S, Skip(p, pp), pp)) > pp

\* Wrong: a full page has a successor.
HasNextFull(S, p, pp) == Cardinality(GetDeviceAuths(S, Skip(p, pp), pp + 1)) >= pp

\* One set more than the page holds is asked for, and not shown.
HasNext(S, p, pp) == Cardinality(GetDeviceAuths(S, Skip(p, pp), pp + 1)) > pp

Shown(S, p, pp) == GetDeviceAuths(S, Skip(p, pp), pp)

-----------------------------------------------------------------------------
(* Requests.                                                               *)

\* The first page begins a walk, the next page goes on with it, and any other
\* ends it.
Walk(p, pp, shown) ==
    \/ /\ p = 1
       /\ walking' = TRUE /\ seen' = shown /\ come' = {} /\ gone' = {}
    \/ /\ p # 1 /\ walking /\ hasNext /\ p = page + 1 /\ pp = perPage
       /\ walking' = TRUE /\ seen' = seen \cup shown
       /\ UNCHANGED <<come, gone>>
    \/ /\ p # 1 /\ ~(walking /\ hasNext /\ p = page + 1 /\ pp = perPage)
       /\ walking' = FALSE
       /\ UNCHANGED <<seen, come, gone>>

Serve(p, pp) ==
    /\ code' = 200
    /\ page' = p /\ perPage' = pp
    /\ hasNext' = HasNext(matching, p, pp)
    /\ Walk(p, pp, Shown(matching, p, pp))
    /\ UNCHANGED matching

Refuse(c) ==
    /\ code' = c
    /\ UNCHANGED <<matching, page, perPage, hasNext, walking, seen, come, gone>>

\* A negative skip is an error of the database; any query may fail.
GetDevicesHandler(pageParam, perPageParam) ==
    LET p == ParsePage(pageParam)
        pp == ParsePerPage(perPageParam)
    IN \/ Refused \in {p, pp} /\ Refuse(400)
       \/ Refused \notin {p, pp} /\ Refuse(500)
       \/ Refused \notin {p, pp} /\ Skip(p, pp) >= 0 /\ Serve(p, pp)

\* The client asks for a page by itself.
Ask == \E pageParam, perPageParam \in Params : GetDevicesHandler(pageParam, perPageParam)

\* Wrong: links without the page size.
FollowNextBare == hasNext /\ GetDevicesHandler(page + 1, Absent)

\* Links name the page and repeat the page size.
FollowNext == hasNext /\ GetDevicesHandler(page + 1, perPage)

FollowPrev == page > 1 /\ GetDevicesHandler(page - 1, perPage)

FollowFirst == code = 200 /\ GetDevicesHandler(1, perPage)

\* Other requests insert a set, delete it, or change its status.
Appear(i) ==
    /\ i \notin matching
    /\ matching' = matching \cup {i}
    /\ come' = come \cup {i}
    /\ UNCHANGED <<code, page, perPage, hasNext, walking, seen, gone>>

Vanish(i) ==
    /\ i \in matching
    /\ matching' = matching \ {i}
    /\ gone' = gone \cup {i}
    /\ UNCHANGED <<code, page, perPage, hasNext, walking, seen, come>>

Next ==
    \/ Ask
    \/ FollowNext
    \/ FollowPrev
    \/ FollowFirst
    \/ \E i \in AuthIds : Appear(i) \/ Vanish(i)

Spec == Init /\ [][Next]_vars

-----------------------------------------------------------------------------
(* Properties.                                                             *)

\* A client that has walked from the first page to the last has been shown every
\* set that matched all the while, unless a set before it ceased to match, which
\* moves the ones behind it to an earlier page.
NoneMissed ==
    walking /\ ~hasNext =>
        \A i \in matching \ (come \cup seen) : \E j \in gone : j < i

\* The next page of a walk repeats a set only if that set, or one before it,
\* began to match during the walk.
NoneRepeated ==
    [][FollowNext /\ walking /\ code' = 200 =>
          \A i \in seen \cap Shown(matching, page', perPage') :
              \E j \in come : j <= i]_vars

\* A walk is never stopped by its own links: the link to the next page names a page
\* that is not refused and whose skip fits a word.  Only a page that a client names
\* by itself wraps around to sets of another page, or is an error of the database.
WalkStaysInRange ==
    walking /\ hasNext =>
        /\ ParsePage(page + 1) # Refused
        /\ Skip(page + 1, perPage) = page * perPage
=============================================================================
