---------------------------- MODULE ListingProofs ----------------------------
(***************************************************************************)
(* Proofs about Listing for any sets, page sizes, parameters and words.    *)
(* The facts about pages rest on ranks: the ranks of a finite set of ids   *)
(* are all different and leave no gap.                                     *)
(***************************************************************************)
EXTENDS Listing, FiniteSetTheorems, WellFoundedInduction, TLAPS

USE SortedIds, PageSizes, WordSize, ParamsAreNumbers

-----------------------------------------------------------------------------
(* Numbers.                                                                *)

\* Every set of numbers has a smallest one,
LEMMA Smallest ==
    ASSUME NEW T \in SUBSET Nat, T # {}
    PROVE  \E x \in T : \A y \in T : x <= y
<1> DEFINE R == OpToRel(<, Nat)
<1>1. PICK x \in T : \A y \in T : <<y, x>> \notin R
  <2>1. IsWellFoundedOn(R, Nat)
    BY NatLessThanWellFounded
  <2> HIDE DEF R
  <2> QED
    BY <2>1, WFMin
<1>2. ASSUME NEW y \in T PROVE x <= y
  <2>1. ~(y < x)
    BY <1>1 DEF OpToRel
  <2> QED
    BY <2>1
<1> QED
  BY <1>2

\* and every bounded one a largest.
LEMMA Largest ==
    ASSUME NEW T \in SUBSET Nat, T # {}, NEW n \in Nat, \A x \in T : x < n
    PROVE  \E x \in T : \A y \in T : y <= x
<1> DEFINE D == {n - x : x \in T}
<1>1. D \in SUBSET Nat /\ D # {}
  <2>1. ASSUME NEW x \in T PROVE n - x \in Nat
    <3>1. x \in Nat /\ x < n
      OBVIOUS
    <3> QED
      BY <3>1
  <2> QED
    BY <2>1
<1>2. PICK d \in D : \A e \in D : d <= e
  BY <1>1, Smallest
<1>3. PICK x \in T : d = n - x
  OBVIOUS
<1>4. ASSUME NEW y \in T PROVE y <= x
  <2>1. x \in Nat /\ y \in Nat
    OBVIOUS
  <2>2. n - x <= n - y
    BY <1>2, <1>3
  <2> QED
    BY <2>1, <2>2
<1> QED
  BY <1>4

\* The driver keeps a skip that fits half a word as it is.
LEMMA Fits ==
    ASSUME NEW n \in Nat, 2 * n < Modulus
    PROVE  Int32(n) = n
<1>1. n % Modulus = n
  BY SMT
<1> QED
  BY <1>1 DEF Int32

-----------------------------------------------------------------------------
(* Ranks.                                                                  *)

\* Sets of ids are finite.
LEMMA FiniteIds ==
    ASSUME NEW S \in SUBSET AuthIds
    PROVE  IsFiniteSet(S) /\ Cardinality(S) \in Nat
BY FS_Subset, FS_CardinalityType

\* A rank is a number,
LEMMA RankType ==
    ASSUME NEW S \in SUBSET AuthIds, NEW i
    PROVE  Rank(S, i) \in Nat
BY FiniteIds DEF Rank

\* it counts a set's predecessors and the set itself,
LEMMA RankSuccessor ==
    ASSUME NEW S \in SUBSET AuthIds, NEW i \in S
    PROVE  Cardinality({j \in S : j < i} \cup {i}) = Rank(S, i) + 1
<1>1. IsFiniteSet({j \in S : j < i})
  BY FiniteIds
<1>2. i \notin {j \in S : j < i}
  OBVIOUS
<1> QED
  BY <1>1, <1>2, FS_AddElement DEF Rank

\* it grows with the ids,
LEMMA RankGrows ==
    ASSUME NEW S \in SUBSET AuthIds, NEW i \in S, NEW k \in S, i < k
    PROVE  Rank(S, i) < Rank(S, k)
<1> DEFINE L == {j \in S : j < i} \cup {i}
<1> DEFINE M == {j \in S : j < k}
<1>1. L \in SUBSET M /\ M \in SUBSET AuthIds /\ L \in SUBSET AuthIds
  <2>1. i \in Nat /\ k \in Nat /\ S \in SUBSET Nat
    OBVIOUS
  <2>2. ASSUME NEW j \in S, j < i PROVE j < k
    <3>1. j \in Nat
      BY <2>1
    <3> QED
      BY <2>1, <2>2, <3>1
  <2> QED
    BY <2>2
<1>2. Cardinality(L) <= Cardinality(M)
  BY <1>1, FiniteIds, FS_Subset
<1>3. Cardinality(L) = Rank(S, i) + 1
  BY RankSuccessor
<1>4. Cardinality(M) = Rank(S, k)
  BY DEF Rank
<1> QED
  BY <1>2, <1>3, <1>4, RankType

\* so that no two sets have the same one,
LEMMA RankInjective ==
    ASSUME NEW S \in SUBSET AuthIds, NEW i \in S, NEW k \in S, Rank(S, i) = Rank(S, k)
    PROVE  i = k
<1>1. i < k \/ k < i \/ i = k
  OBVIOUS
<1> QED
  BY <1>1, RankGrows, RankType

\* and is less than the number of sets.
LEMMA RankBounded ==
    ASSUME NEW S \in SUBSET AuthIds, NEW i \in S
    PROVE  Rank(S, i) < Cardinality(S) /\ Cardinality(S) <= Cardinality(AuthIds)
<1> DEFINE L == {j \in S : j < i} \cup {i}
<1>1. L \in SUBSET S /\ L \in SUBSET AuthIds
  OBVIOUS
<1>2. Cardinality(L) <= Cardinality(S)
  BY <1>1, FiniteIds, FS_Subset
<1>3. Cardinality(L) = Rank(S, i) + 1
  BY RankSuccessor
<1>4. Cardinality(S) <= Cardinality(AuthIds)
  BY FS_Subset
<1>5. Rank(S, i) \in Nat /\ Cardinality(S) \in Nat
  BY RankType, FiniteIds
<1> QED
  BY <1>2, <1>3, <1>4, <1>5

\* Ranks leave no gap.
LEMMA RankOnto ==
    ASSUME NEW S \in SUBSET AuthIds, NEW i \in S, NEW n \in Nat, n <= Rank(S, i)
    PROVE  \E j \in S : Rank(S, j) = n
<1> DEFINE T == {k \in S : n <= Rank(S, k)}
<1>1. PICK k \in T : \A j \in T : k <= j
  <2>1. T \in SUBSET Nat /\ T # {}
    OBVIOUS
  <2> QED
    BY <2>1, Smallest
<1> DEFINE L == {j \in S : j < k}
<1>2. Rank(S, k) <= n
  <2>1. CASE L = {}
    BY <2>1, FS_EmptySet DEF Rank
  <2>2. CASE L # {}
    <3>1. PICK m \in L : \A j \in L : j <= m
      BY <2>2, Largest
    <3>2. Rank(S, m) < n
      BY <1>1, <3>1, RankType
    <3>3. L = {j \in S : j < m} \cup {m}
      <4>1. S \in SUBSET Nat /\ k \in Nat /\ m \in S /\ m < k
        BY <3>1
      <4>2. ASSUME NEW j \in S PROVE j < k <=> (j < m \/ j = m)
        <5>1. j \in Nat /\ m \in Nat
          BY <4>1
        <5>2. j < k => j <= m
          BY <3>1
        <5> QED
          BY <4>1, <5>1, <5>2
      <4> QED
        BY <4>1, <4>2
    <3>4. Rank(S, k) = Rank(S, m) + 1
      BY <3>1, <3>3, RankSuccessor DEF Rank
    <3> QED
      BY <3>2, <3>4, RankType
  <2> QED
    BY <2>1, <2>2
<1> QED
  BY <1>1, <1>2, RankType
\* A set has no lower rank among more sets,
LEMMA RankMonotone ==
    ASSUME NEW S \in SUBSET AuthIds, NEW T \in SUBSET S, NEW i
    PROVE  Rank(T, i) <= Rank(S, i)
<1> DEFINE L == {j \in T : j < i}
<1> DEFINE M == {j \in S : j < i}
<1>1. L \in SUBSET M /\ IsFiniteSet(M)
  BY FiniteIds
<1>2. Cardinality(L) <= Cardinality(M)
  BY <1>1, FS_Subset
<1> QED
  BY <1>2 DEF Rank

\* and the rank it had, if none before it came or went.
LEMMA RankLocal ==
    ASSUME NEW S \in SUBSET AuthIds, NEW k \in AuthIds, NEW i, ~(k < i)
    PROVE  Rank(S \cup {k}, i) = Rank(S, i) /\ Rank(S \ {k}, i) = Rank(S, i)
<1>1. {j \in S \cup {k} : j < i} = {j \in S : j < i}
  OBVIOUS
<1>2. {j \in S \ {k} : j < i} = {j \in S : j < i}
  OBVIOUS
<1> QED
  BY <1>1, <1>2 DEF Rank

-----------------------------------------------------------------------------
(* Pages.                                                                  *)

\* A query finds more than a page if a set is sorted behind the page,
LEMMA MoreFound ==
    ASSUME NEW S \in SUBSET AuthIds, NEW skip \in Nat, NEW pp \in Nat,
           NEW i \in S, skip + pp <= Rank(S, i)
    PROVE  Cardinality(GetDeviceAuths(S, skip, pp + 1)) > pp
<1> DEFINE G == GetDeviceAuths(S, skip, pp + 1)
<1> DEFINE f == [j \in G |-> Rank(S, j)]
<1>1. G = {j \in S : Rank(S, j) \in skip..(skip + pp)}
  <2>1. skip + (pp + 1) - 1 = skip + pp
    OBVIOUS
  <2> QED
    BY <2>1 DEF GetDeviceAuths
<1>2. IsFiniteSet(G) /\ Cardinality(G) \in Nat
  BY <1>1, FiniteIds
<1>3. f \in [G -> skip..(skip + pp)]
  BY <1>1
<1>4. ASSUME NEW n \in skip..(skip + pp) PROVE \E j \in G : f[j] = n
  <2>1. n \in Nat /\ n <= Rank(S, i)
    BY RankType
  <2>2. PICK j \in S : Rank(S, j) = n
    BY <2>1, RankOnto
  <2> QED
    BY <1>1, <2>2
<1> HIDE DEF f, G
<1>5. f \in Surjection(G, skip..(skip + pp))
  BY <1>3, <1>4 DEF Surjection
<1>6. Cardinality(skip..(skip + pp)) <= Cardinality(G)
  BY <1>2, <1>5, FS_Surjection
<1>7. Cardinality(skip..(skip + pp)) = pp + 1
  <2>1. skip \in Int /\ skip + pp \in Int /\ ~(skip > skip + pp)
    OBVIOUS
  <2> QED
    BY <2>1, FS_Interval
<1>8. Cardinality(G) > pp
  BY <1>2, <1>6, <1>7
<1> QED
  BY <1>8 DEF G

\* and only then.
LEMMA MoreExists ==
    ASSUME NEW S \in SUBSET AuthIds, NEW skip \in Nat, NEW pp \in Nat \ {0},
           Cardinality(GetDeviceAuths(S, skip, pp + 1)) > pp
    PROVE  skip + pp < Cardinality(AuthIds)
<1> DEFINE G == GetDeviceAuths(S, skip, pp + 1)
<1> DEFINE f == [j \in G |-> Rank(S, j)]
<1>1. G = {j \in S : Rank(S, j) \in skip..(skip + pp)}
  <2>1. skip + (pp + 1) - 1 = skip + pp
    OBVIOUS
  <2> QED
    BY <2>1 DEF GetDeviceAuths
<1>2. IsFiniteSet(G) /\ Cardinality(G) \in Nat /\ Cardinality(G) > pp
  BY <1>1, FiniteIds
<1>3. PICK j \in G : Rank(S, j) = skip + pp
  <2>1. SUFFICES ASSUME \A j \in G : Rank(S, j) # skip + pp PROVE FALSE
    OBVIOUS
  <2>2. f \in [G -> skip..(skip + pp - 1)]
    <3>1. ASSUME NEW j \in G PROVE Rank(S, j) \in skip..(skip + pp - 1)
      <4>1. Rank(S, j) \in skip..(skip + pp) /\ Rank(S, j) # skip + pp
        BY <1>1, <2>1
      <4> QED
        BY <4>1
    <3> QED
      BY <3>1
  <2>3. ASSUME NEW a \in G, NEW b \in G, f[a] = f[b] PROVE a = b
    BY <1>1, <2>3, RankInjective
  <2> HIDE DEF f, G
  <2>4. f \in Injection(G, skip..(skip + pp - 1))
    BY <2>2, <2>3 DEF Injection, IsInjective
  <2>5. IsFiniteSet(skip..(skip + pp - 1)) /\ Cardinality(skip..(skip + pp - 1)) = pp
    <3> DEFINE last == skip + pp - 1
    <3>1. skip \in Int /\ last \in Int /\ ~(skip > last) /\ last - skip + 1 = pp
      OBVIOUS
    <3> HIDE DEF last
    <3>2. IsFiniteSet(skip..last) /\ Cardinality(skip..last) = last - skip + 1
      BY <3>1, FS_Interval
    <3> QED
      BY <3>1, <3>2 DEF last
  <2>6. Cardinality(G) <= pp
    BY <2>4, <2>5, FS_Injection
  <2> QED
    BY <1>2, <2>6
<1>4. j \in S
  BY <1>1
<1>5. Rank(S, j) < Cardinality(S) /\ Cardinality(S) <= Cardinality(AuthIds)
  BY <1>4, RankBounded
<1>6. Cardinality(S) \in Nat /\ Cardinality(AuthIds) \in Nat
  BY FiniteIds
<1> QED
  BY <1>3, <1>5, <1>6

-----------------------------------------------------------------------------
(* Requests.                                                               *)

\* Products of pages and page sizes.
LEMMA Products ==
    ASSUME NEW a \in Nat, NEW b \in Nat \ {0}
    PROVE  a * b \in Nat /\ a <= a * b /\ (a + 1) * b = a * b + b /\ 0 * b = 0
<1>1. a * b \in Nat /\ 0 * b = 0 /\ (a + 1) * b = a * b + b
  OBVIOUS
<1>2. a * b - a = a * (b - 1)
  OBVIOUS
<1>3. b - 1 \in Nat
  OBVIOUS
<1>4. a * (b - 1) \in Nat
  BY <1>3
<1> QED
  BY <1>1, <1>2, <1>4

\* A response is an error, or a page whose number and size are in range.
LEMMA Handled ==
    ASSUME NEW a \in Int, NEW b \in Int, GetDevicesHandler(a, b)
    PROVE  \/ \E c \in {400, 500} : Refuse(c)
           \/ /\ ParsePage(a) \in 1..(Modulus - 1)
              /\ ParsePerPage(b) \in 1..PerPageMax
              /\ Serve(ParsePage(a), ParsePerPage(b))
<1>1. ParsePage(a) \in {Refused} \cup 1..(Modulus - 1)
  BY DEF ParsePage, ParseQueryParmUInt, Refused
<1>2. ParsePerPage(b) \in {Refused} \cup 1..PerPageMax
  BY DEF ParsePerPage, ParseQueryParmUInt, Refused
<1> QED
  BY <1>1, <1>2 DEF GetDevicesHandler

\* A step is a response, or a set comes or goes.
LEMMA Steps ==
    ASSUME TypeOK, Next
    PROVE  \/ \E c \in {400, 500} : Refuse(c)
           \/ \E p \in 1..(Modulus - 1), pp \in 1..PerPageMax : Serve(p, pp)
           \/ \E i \in AuthIds : Appear(i) \/ Vanish(i)
<1>1. page \in Int /\ perPage \in Int
  BY DEF TypeOK
<1>2. CASE Ask
  BY <1>2, Handled DEF Ask
<1>3. CASE FollowNext
  BY <1>1, <1>3, Handled DEF FollowNext
<1>4. CASE FollowPrev
  BY <1>1, <1>4, Handled DEF FollowPrev
<1>5. CASE FollowFirst
  BY <1>1, <1>5, Handled DEF FollowFirst
<1> QED
  BY <1>2, <1>3, <1>4, <1>5 DEF Next

\* The types but the Booleans, which need another prover.
Numbers ==
    /\ code \in {0, 200, 400, 500}
    /\ page \in 1..(Modulus - 1) /\ perPage \in 1..PerPageMax

Sets == {matching, seen, come, gone} \subseteq SUBSET AuthIds

\* The type invariant, in the parts that the steps keep.
LEMMA TypeParts == TypeOK <=> Numbers /\ Sets /\ hasNext \in BOOLEAN /\ walking \in BOOLEAN
<1>1. Sets <=> /\ matching \in SUBSET AuthIds /\ seen \in SUBSET AuthIds
               /\ come \in SUBSET AuthIds /\ gone \in SUBSET AuthIds
  BY Zenon DEF Sets
<1> QED
  BY <1>1, Zenon DEF TypeOK, Numbers

\* Responses keep the types.
LEMMA TypeStep ==
    ASSUME TypeOK, [Next]_vars
    PROVE  TypeOK'
<1> DEFINE Parts == Numbers /\ Sets /\ hasNext \in BOOLEAN /\ walking \in BOOLEAN
<1>. /\ Parts
     /\ TypeOK' <=> Parts'
  <2>1. TypeOK <=> Parts
    BY TypeParts
  <2>2. TypeOK' <=> Parts'
    BY <2>1, TypeParts, PTL
  <2> QED
    BY <2>1, <2>2
<1>1. ASSUME NEW c \in {400, 500}, Refuse(c) PROVE TypeOK'
  <2>1. Numbers'
    BY <1>1 DEF Refuse, Numbers
  <2>2. Sets' /\ hasNext' = hasNext /\ walking' = walking
    BY <1>1 DEF Refuse, Sets
  <2> QED
    BY <2>1, <2>2
<1>2. ASSUME NEW p \in 1..(Modulus - 1), NEW pp \in 1..PerPageMax, Serve(p, pp) PROVE TypeOK'
  <2>1. Numbers'
    BY <1>2 DEF Serve, Numbers
  <2>2. PICK shown \in SUBSET AuthIds : Walk(p, pp, shown)
    <3>1. Shown(matching, p, pp) \in SUBSET AuthIds
      BY DEF Sets, Shown, GetDeviceAuths
    <3> QED
      BY <1>2, <3>1 DEF Serve
  <2>3. Sets'
    <3>1. /\ matching' = matching
          /\ seen' = shown \/ seen' = seen \cup shown \/ seen' = seen
          /\ come' = {} \/ come' = come
          /\ gone' = {} \/ gone' = gone
      BY <1>2, <2>2, Zenon DEF Walk, Serve
    <3> QED
      BY <3>1 DEF Sets
  <2>4. walking' \in BOOLEAN
    BY <2>2, Zenon DEF Walk
  <2>5. hasNext' \in BOOLEAN
    <3>1. hasNext' = HasNext(matching, p, pp)
      BY <1>2 DEF Serve
    <3>2. HasNext(matching, p, pp) \in BOOLEAN
      BY DEF HasNext
    <3> QED
      BY <3>1, <3>2, Zenon
  <2> QED
    BY <2>1, <2>3, <2>4, <2>5
<1>3. ASSUME NEW i \in AuthIds, Appear(i) \/ Vanish(i) PROVE TypeOK'
  <2>1. Numbers'
    BY <1>3 DEF Appear, Vanish, Numbers
  <2>2. Sets'
    BY <1>3 DEF Appear, Vanish, Sets
  <2>3. hasNext' = hasNext /\ walking' = walking
    BY <1>3, Zenon DEF Appear, Vanish
  <2> QED
    BY <2>1, <2>2, <2>3
<1>4. CASE UNCHANGED vars
  BY <1>4 DEF vars, Numbers, Sets
<1> QED
  BY <1>1, <1>2, <1>3, <1>4, Steps

\* The types hold at first.
LEMMA InitType == Init => TypeOK
<1>1. Init => Numbers
  BY DEF Init, Numbers
<1>2. Init => Sets /\ hasNext \in BOOLEAN /\ walking \in BOOLEAN
  BY DEF Init, Sets
<1> QED
  BY <1>1, <1>2, TypeParts

\* The types hold: whatever a client asks for, only pages whose number fits an
\* unsigned word and whose size is at most the maximum are served (ParseQueryParmUInt
\* in src/utils/http.go and the bounds that ParsePagination gives it).
THEOREM TypeCorrect == Spec => []TypeOK
<1>1. TypeOK /\ [Next]_vars => TypeOK'
  BY TypeStep
<1> QED
  BY <1>1, InitType, PTL DEF Spec

-----------------------------------------------------------------------------
(* Walks.                                                                  *)

\* A page that has a successor ends before the last set that can ever match.
InRange == walking /\ hasNext => page * perPage < Cardinality(AuthIds)

\* A set that matched all the while and was not shown is behind the last page,
\* unless one before it is gone.
Behind ==
    walking =>
        \A i \in matching \ (come \cup seen) :
            \/ \E j \in gone : j < i
            \/ hasNext /\ page * perPage <= Rank(matching, i)

\* A set that was shown is on a page up to the last, unless it or one before it
\* has come.
Ahead ==
    walking =>
        \A i \in seen \cap matching :
            \/ \E j \in come : j <= i
            \/ Rank(matching, i) < page * perPage

Inv == TypeOK /\ InRange /\ Behind /\ Ahead

\* The skip of a page is the number of sets on the pages before it, if that fits.
LEMMA SkipFits ==
    ASSUME NEW a \in Nat, NEW b \in Nat, NEW n \in Nat, a * b = n, 2 * n < Modulus
    PROVE  Skip(a + 1, b) = n
<1>1. Int32(n) = n
  BY Fits
<1>2. (a + 1 - 1) * b = n
  OBVIOUS
<1>3. Skip(a + 1, b) = Int32(n)
  BY <1>2, SMT DEF Skip
<1> QED
  BY <1>1, <1>3, Zenon

\* The first page skips nothing.
LEMMA FirstSkip ==
    ASSUME NEW pp \in 1..PerPageMax
    PROVE  Skip(1, pp) = 0
<1>1. 0 * pp = 0 /\ 0 + 1 = 1 /\ pp \in Nat /\ 2 * 0 < Modulus
  OBVIOUS
<1>2. Skip(0 + 1, pp) = 0
  BY <1>1, SkipFits, Zenon
<1> QED
  BY <1>1, <1>2, Zenon

\* The next page of a walk skips the pages before it, and its number is not refused.
LEMMA NextSkip ==
    ASSUME TypeOK, InRange, walking, hasNext
    PROVE  /\ Skip(page + 1, perPage) = page * perPage
           /\ page + 1 \in 1..(Modulus - 1)
<1>1. page \in Nat \ {0} /\ perPage \in Nat \ {0}
  BY DEF TypeOK
<1>2. page * perPage \in Nat /\ page <= page * perPage
  BY <1>1, Products
<1>3. Cardinality(AuthIds) \in Nat /\ page * perPage < Cardinality(AuthIds)
  BY FiniteIds DEF InRange
<1> DEFINE n == page * perPage
<1>4. page * perPage = n
  OBVIOUS
<1> HIDE DEF n
<1>5. n \in Nat /\ 2 * n < Modulus /\ page <= n /\ 2 * n + 2 <= Modulus
  BY <1>2, <1>3 DEF n
<1>6. Skip(page + 1, perPage) = n
  BY <1>1, <1>4, <1>5, SkipFits
<1>7. page + 1 \in 1..(Modulus - 1)
  BY <1>1, <1>5
<1> QED
  BY <1>6, <1>7 DEF n

\* What a page with a given skip shows, and what its link to the next page says.
LEMMA Cut ==
    ASSUME NEW S \in SUBSET AuthIds, NEW p, NEW pp \in 1..PerPageMax,
           NEW skip \in Nat, NEW end \in Nat, end = skip + pp, Skip(p, pp) = skip
    PROVE  /\ Shown(S, p, pp) = {i \in S : skip <= Rank(S, i) /\ Rank(S, i) < end}
           /\ \A i \in S : end <= Rank(S, i) => HasNext(S, p, pp)
           /\ HasNext(S, p, pp) => end < Cardinality(AuthIds)
<1>1. pp \in Nat \ {0}
  OBVIOUS
<1>2. Skip(p, pp) = skip
  OBVIOUS
<1>3. Shown(S, p, pp) = {i \in S : skip <= Rank(S, i) /\ Rank(S, i) < end}
  <2>1. ASSUME NEW i \in S
        PROVE  Rank(S, i) \in skip..(skip + pp - 1) <=> skip <= Rank(S, i) /\ Rank(S, i) < end
    <3>1. Rank(S, i) \in Nat
      BY RankType
    <3> QED
      BY <1>1, <3>1
  <2>2. Shown(S, p, pp) = {i \in S : Rank(S, i) \in skip..(skip + pp - 1)}
    BY <1>2 DEF Shown, GetDeviceAuths
  <2> QED
    BY <2>1, <2>2
<1>4. ASSUME NEW i \in S, end <= Rank(S, i) PROVE HasNext(S, p, pp)
  BY <1>1, <1>2, <1>4, MoreFound DEF HasNext
<1>5. HasNext(S, p, pp) => end < Cardinality(AuthIds)
  BY <1>1, <1>2, MoreExists DEF HasNext
<1> QED
  BY <1>3, <1>4, <1>5

\* The first page begins a walk.
LEMMA FirstStep ==
    ASSUME Inv, NEW pp \in 1..PerPageMax, Serve(1, pp)
    PROVE  InRange' /\ Behind' /\ Ahead'
<1>1. Skip(1, pp) = 0 /\ 1 * pp = pp /\ pp = 0 + pp /\ pp \in Nat
  <2>1. 1 * pp = pp /\ pp = 0 + pp /\ pp \in Nat
    OBVIOUS
  <2> QED
    BY <2>1, FirstSkip
<1>2. matching \in SUBSET AuthIds
  BY DEF Inv, TypeOK
<1>3. /\ Shown(matching, 1, pp) = {i \in matching : 0 <= Rank(matching, i) /\ Rank(matching, i) < pp}
      /\ \A i \in matching : pp <= Rank(matching, i) => HasNext(matching, 1, pp)
      /\ HasNext(matching, 1, pp) => pp < Cardinality(AuthIds)
  BY <1>1, <1>2, Cut
<1>4. /\ page' * perPage' = pp
      /\ matching' = matching
      /\ hasNext' = HasNext(matching, 1, pp)
      /\ seen' = Shown(matching, 1, pp)
  <2>1. page' = 1 /\ perPage' = pp /\ matching' = matching /\ hasNext' = HasNext(matching, 1, pp)
    BY DEF Serve
  <2>2. seen' = Shown(matching, 1, pp)
    BY DEF Serve, Walk
  <2> QED
    BY <1>1, <2>1, <2>2
<1>5. \A i \in matching : Rank(matching, i) \in Nat
  BY <1>2, RankType
<1>6. InRange'
  BY <1>3, <1>4 DEF InRange
<1>7. Behind'
  <2>1. ASSUME NEW i \in matching, i \notin Shown(matching, 1, pp)
        PROVE  hasNext' /\ pp <= Rank(matching, i)
    BY <1>3, <1>4, <1>5, <2>1
  <2> QED
    BY <1>4, <2>1 DEF Behind
<1>8. Ahead'
  BY <1>3, <1>4 DEF Ahead
<1> QED
  BY <1>6, <1>7, <1>8

\* The next page goes on with it.
LEMMA NextStep ==
    ASSUME Inv, walking, hasNext, Serve(page + 1, perPage), page + 1 # 1
    PROVE  InRange' /\ Behind' /\ Ahead'
<1> DEFINE p == page + 1
<1>1. Skip(p, perPage) = page * perPage
  BY NextSkip DEF Inv
<1>2. /\ matching \in SUBSET AuthIds /\ perPage \in 1..PerPageMax
      /\ page \in Nat /\ p \in Nat \ {0} /\ perPage \in Nat \ {0}
  BY DEF Inv, TypeOK
<1> DEFINE start == page * perPage
<1> DEFINE end == p * perPage
<1>3. start \in Nat /\ end \in Nat /\ start <= end /\ end = start + perPage
  <2>1. start \in Nat /\ end = start + perPage
    BY <1>2, Products
  <2> HIDE DEF start, end
  <2> QED
    BY <1>2, <2>1
<1>4. /\ Shown(matching, p, perPage) =
             {i \in matching : start <= Rank(matching, i) /\ Rank(matching, i) < end}
      /\ \A i \in matching : end <= Rank(matching, i) => HasNext(matching, p, perPage)
      /\ HasNext(matching, p, perPage) => end < Cardinality(AuthIds)
  <2>1. Skip(p, perPage) = start /\ end = start + perPage
    BY <1>1, <1>3
  <2>2. perPage \in 1..PerPageMax /\ start \in Nat /\ end \in Nat
    BY <1>2, <1>3
  <2>3. matching \in SUBSET AuthIds
    BY <1>2
  <2> HIDE DEF p, start, end
  <2>4. Shown(matching, p, perPage) =
          {i \in matching : start <= Rank(matching, i) /\ Rank(matching, i) < end}
    BY <2>1, <2>2, <2>3, Cut
  <2>5. HasNext(matching, p, perPage) => end < Cardinality(AuthIds)
    BY <2>1, <2>2, <2>3, Cut
  <2>6. \A i \in matching : end <= Rank(matching, i) => HasNext(matching, p, perPage)
    BY <2>1, <2>2, <2>3, Cut
  <2> QED
    BY <2>4, <2>5, <2>6
<1>5. /\ page' * perPage' = end
      /\ matching' = matching
      /\ hasNext' = HasNext(matching, p, perPage)
      /\ seen' = seen \cup Shown(matching, p, perPage)
      /\ come' = come /\ gone' = gone
  <2>1. page' = p /\ perPage' = perPage /\ matching' = matching
        /\ hasNext' = HasNext(matching, p, perPage)
    BY DEF Serve
  <2>2. seen' = seen \cup Shown(matching, p, perPage) /\ come' = come /\ gone' = gone
    BY Zenon DEF Serve, Walk
  <2> QED
    BY <2>1, <2>2
<1>6. \A i \in matching : Rank(matching, i) \in Nat
  BY <1>2, RankType
<1> HIDE DEF start, end
<1>7. InRange'
  BY <1>4, <1>5 DEF InRange
<1>8. Behind'
  <2>1. ASSUME NEW i \in matching \ (come \cup seen), i \notin Shown(matching, p, perPage)
        PROVE  (\E j \in gone : j < i) \/ (hasNext' /\ end <= Rank(matching, i))
    <3>1. (\E j \in gone : j < i) \/ start <= Rank(matching, i)
      BY DEF Inv, Behind, start
    <3>2. ASSUME start <= Rank(matching, i) PROVE end <= Rank(matching, i)
      BY <1>3, <1>4, <1>6, <2>1, <3>2
    <3> QED
      BY <1>4, <1>5, <3>1, <3>2
  <2> QED
    BY <1>5, <2>1 DEF Behind
<1>9. Ahead'
  <2>1. ASSUME NEW i \in seen \cap matching
        PROVE  (\E j \in come : j <= i) \/ Rank(matching, i) < end
    <3>1. (\E j \in come : j <= i) \/ Rank(matching, i) < start
      BY DEF Inv, Ahead, start
    <3> QED
      BY <1>3, <1>6, <3>1
  <2>2. ASSUME NEW i \in Shown(matching, p, perPage) PROVE Rank(matching, i) < end
    BY <1>4
  <2> QED
    BY <1>5, <2>1, <2>2 DEF Ahead
<1> QED
  BY <1>7, <1>8, <1>9

\* Any other page ends it.
LEMMA ServeStep ==
    ASSUME Inv, NEW p \in 1..(Modulus - 1), NEW pp \in 1..PerPageMax, Serve(p, pp)
    PROVE  InRange' /\ Behind' /\ Ahead'
<1>1. CASE p = 1
  BY <1>1, FirstStep
<1>2. CASE p # 1 /\ walking /\ hasNext /\ p = page + 1 /\ pp = perPage
  BY <1>2, NextStep
<1>3. CASE p # 1 /\ ~(walking /\ hasNext /\ p = page + 1 /\ pp = perPage)
  <2>1. ~walking'
    BY <1>3, Zenon DEF Serve, Walk
  <2> QED
    BY <2>1, Zenon DEF InRange, Behind, Ahead
<1> QED
  BY <1>1, <1>2, <1>3

\* A set that comes is in come, and moves only sets behind it to later ranks.
LEMMA AppearStep ==
    ASSUME Inv, NEW k \in AuthIds, Appear(k)
    PROVE  InRange' /\ Behind' /\ Ahead'
<1>1. /\ matching' = matching \cup {k} /\ come' = come \cup {k}
      /\ UNCHANGED <<page, perPage, hasNext, walking, seen, gone>>
  BY DEF Appear
<1>2. /\ matching \in SUBSET AuthIds /\ matching' \in SUBSET AuthIds
      /\ page * perPage \in Nat
  BY <1>1, Products DEF Inv, TypeOK
<1> DEFINE end == page * perPage
<1> HIDE DEF end
<1>3. end \in Nat /\ page' * perPage' = end
  BY <1>1, <1>2 DEF end
<1>4. InRange'
  BY <1>1 DEF Inv, InRange
<1>5. Behind'
  <2>1. ASSUME walking, NEW i \in matching \ (come \cup seen)
        PROVE  (\E j \in gone : j < i) \/ (hasNext /\ end <= Rank(matching', i))
    <3>1. (\E j \in gone : j < i) \/ (hasNext /\ end <= Rank(matching, i))
      BY <2>1 DEF Inv, Behind, end
    <3>2. matching \in SUBSET matching'
      BY <1>1
    <3>3. Rank(matching, i) <= Rank(matching', i)
      BY <1>2, <3>2, RankMonotone
    <3>4. Rank(matching, i) \in Nat /\ Rank(matching', i) \in Nat
      BY <1>2, RankType
    <3> QED
      BY <1>3, <3>1, <3>3, <3>4
  <2> QED
    BY <1>1, <1>3, <2>1 DEF Behind
<1>6. Ahead'
  <2>1. ASSUME walking, NEW i \in seen \cap matching, k \notin AuthIds \/ ~(k <= i)
        PROVE  (\E j \in come : j <= i) \/ Rank(matching', i) < end
    <3>1. (\E j \in come : j <= i) \/ Rank(matching, i) < end
      BY <2>1 DEF Inv, Ahead, end
    <3>2. ~(k < i)
      <4>1. k \in Nat /\ i \in Nat
        BY <1>2
      <4> QED
        BY <2>1, <4>1
    <3>3. Rank(matching', i) = Rank(matching, i)
      BY <1>1, <1>2, <3>2, RankLocal
    <3> QED
      BY <3>1, <3>3
  <2>2. k <= k
    OBVIOUS
  <2>3. ASSUME walking, NEW i \in seen \cap matching'
        PROVE  (\E j \in come' : j <= i) \/ Rank(matching', i) < end
    <3>1. CASE k <= i
      BY <1>1, <3>1
    <3>2. CASE ~(k <= i)
      <4>1. i \in seen \cap matching
        BY <1>1, <2>2, <2>3, <3>2
      <4> QED
        BY <1>1, <2>1, <2>3, <3>2, <4>1
    <3> QED
      BY <3>1, <3>2
  <2> QED
    BY <1>1, <1>3, <2>3 DEF Ahead
<1> QED
  BY <1>4, <1>5, <1>6

\* A set that goes is in gone, and moves only sets behind it to earlier ranks.
LEMMA VanishStep ==
    ASSUME Inv, NEW k \in AuthIds, Vanish(k)
    PROVE  InRange' /\ Behind' /\ Ahead'
<1>1. /\ matching' = matching \ {k} /\ gone' = gone \cup {k}
      /\ UNCHANGED <<page, perPage, hasNext, walking, seen, come>>
  BY DEF Vanish
<1>2. /\ matching \in SUBSET AuthIds /\ matching' \in SUBSET matching
      /\ page * perPage \in Nat
  BY <1>1, Products DEF Inv, TypeOK
<1> DEFINE end == page * perPage
<1> HIDE DEF end
<1>3. end \in Nat /\ page' * perPage' = end
  BY <1>1, <1>2 DEF end
<1>4. InRange'
  BY <1>1 DEF Inv, InRange
<1>5. Behind'
  <2>1. ASSUME walking, NEW i \in matching' \ (come \cup seen)
        PROVE  (\E j \in gone' : j < i) \/ (hasNext /\ end <= Rank(matching', i))
    <3>1. (\E j \in gone : j < i) \/ (hasNext /\ end <= Rank(matching, i))
      BY <1>2, <2>1 DEF Inv, Behind, end
    <3>2. CASE k < i
      BY <1>1, <3>2
    <3>3. CASE ~(k < i)
      <4>1. Rank(matching', i) = Rank(matching, i)
        BY <1>1, <1>2, <3>3, RankLocal
      <4> QED
        BY <1>1, <3>1, <4>1
    <3> QED
      BY <3>2, <3>3
  <2> QED
    BY <1>1, <1>3, <2>1 DEF Behind
<1>6. Ahead'
  <2>1. ASSUME walking, NEW i \in seen \cap matching'
        PROVE  (\E j \in come : j <= i) \/ Rank(matching', i) < end
    <3>1. (\E j \in come : j <= i) \/ Rank(matching, i) < end
      BY <1>2, <2>1 DEF Inv, Ahead, end
    <3>2. Rank(matching', i) <= Rank(matching, i)
      BY <1>2, RankMonotone
    <3>3. Rank(matching, i) \in Nat /\ Rank(matching', i) \in Nat
      BY <1>2, RankType
    <3> QED
      BY <1>3, <3>1, <3>2, <3>3
  <2> QED
    BY <1>1, <1>3, <2>1 DEF Ahead
<1> QED
  BY <1>4, <1>5, <1>6

\* The invariant holds.
LEMMA Invariant == Spec => []Inv
<1>1. Init => Inv
  <2>1. Init => TypeOK
    BY InitType
  <2>2. Init => ~walking
    BY DEF Init
  <2> QED
    BY <2>1, <2>2 DEF Inv, InRange, Behind, Ahead
<1>2. Inv /\ [Next]_vars => Inv'
  <2> SUFFICES ASSUME Inv, [Next]_vars PROVE Inv'
    OBVIOUS
  <2>1. TypeOK /\ TypeOK'
    BY TypeStep DEF Inv
  <2>2. CASE UNCHANGED vars
    BY <2>1, <2>2 DEF vars, Inv, InRange, Behind, Ahead
  <2>3. ASSUME NEW c \in {400, 500}, Refuse(c) PROVE InRange' /\ Behind' /\ Ahead'
    BY <2>3 DEF Refuse, Inv, InRange, Behind, Ahead
  <2>4. CASE Next
    BY <2>1, <2>3, <2>4, Steps, ServeStep, AppearStep, VanishStep DEF Inv
  <2> QED
    BY <2>2, <2>4
<1> QED
  BY <1>1, <1>2, PTL DEF Spec

\* A client that walks to the last page has been shown every set that matched all
\* the while, unless a set before it ceased to match (GetDevicesHandler in
\* src/api/http/api_devadm.go, which looks one set beyond the page for the link).
THEOREM NothingMissed == Spec => []NoneMissed
<1>1. Inv => NoneMissed
  BY DEF Inv, Behind, NoneMissed
<1> QED
  BY <1>1, Invariant, PTL

\* The links of a walk never name a page that is refused, and never one whose skip
\* does not fit the word in which the driver keeps it (MakePageLinkHdrs in
\* src/utils/http.go).
THEOREM RangeKept == Spec => []WalkStaysInRange
<1>1. Inv => WalkStaysInRange
  <2> SUFFICES ASSUME Inv, walking, hasNext
               PROVE  /\ ParsePage(page + 1) # Refused
                      /\ Skip(page + 1, perPage) = page * perPage
    BY DEF WalkStaysInRange
  <2>1. Skip(page + 1, perPage) = page * perPage /\ page + 1 \in 1..(Modulus - 1)
    BY NextSkip DEF Inv
  <2>2. ParsePage(page + 1) = page + 1 /\ page + 1 # Refused
    BY <2>1 DEF ParsePage, ParseQueryParmUInt, Absent, Refused
  <2> QED
    BY <2>1, <2>2
<1> QED
  BY <1>1, Invariant, PTL

\* The next page of a walk repeats a set only if that set or one before it began to
\* match during the walk (the same handler, as it cuts pages from the sorted sets).
THEOREM NothingRepeated == Spec => NoneRepeated
<1> DEFINE Repeats ==
      FollowNext /\ walking /\ code' = 200 =>
          \A i \in seen \cap Shown(matching, page', perPage') : \E j \in come : j <= i
<1>1. Inv /\ [Next]_vars => [Repeats]_vars
  <2> SUFFICES ASSUME Inv, FollowNext, walking, code' = 200,
                      NEW i \in seen \cap Shown(matching, page', perPage')
               PROVE  \E j \in come : j <= i
    OBVIOUS
  <2>1. hasNext /\ GetDevicesHandler(page + 1, perPage)
    BY DEF FollowNext
  <2>2. Skip(page + 1, perPage) = page * perPage /\ page + 1 \in 1..(Modulus - 1)
    BY <2>1, NextSkip DEF Inv
  <2>3. page + 1 \in Int /\ perPage \in Int /\ perPage \in 1..PerPageMax
    BY DEF Inv, TypeOK
  <2>4. ParsePage(page + 1) = page + 1
    BY <2>2 DEF ParsePage, ParseQueryParmUInt, Absent, Refused
  <2>5. ParsePerPage(perPage) = perPage
    BY <2>3 DEF ParsePerPage, ParseQueryParmUInt, Absent, Refused
  <2>6. Serve(page + 1, perPage)
    <3>1. ~\E c \in {400, 500} : Refuse(c)
      BY DEF Refuse
    <3> QED
      BY <2>1, <2>3, <2>4, <2>5, <3>1, Handled
  <2>7. page' = page + 1 /\ perPage' = perPage
    BY <2>6 DEF Serve
  <2>8. page * perPage <= Rank(matching, i) /\ i \in matching
    <3> DEFINE start == page * perPage
    <3> DEFINE end == start + perPage
    <3>1. start \in Nat /\ end \in Nat /\ matching \in SUBSET AuthIds
      BY <2>3, Products DEF Inv, TypeOK
    <3> DEFINE p == page + 1
    <3>2. Skip(p, perPage) = start /\ end = start + perPage
      BY <2>2
    <3>3. i \in Shown(matching, p, perPage)
      BY <2>7
    <3> HIDE DEF p, start, end
    <3>4. Shown(matching, p, perPage) =
            {j \in matching : start <= Rank(matching, j) /\ Rank(matching, j) < end}
      BY <2>3, <3>1, <3>2, Cut
    <3> QED
      BY <3>3, <3>4 DEF start
  <2>9. (\E j \in come : j <= i) \/ Rank(matching, i) < page * perPage
    BY <2>8 DEF Inv, Ahead
  <2>10. page * perPage \in Nat /\ Rank(matching, i) \in Nat
    BY Products, RankType DEF Inv, TypeOK
  <2> QED
    BY <2>8, <2>9, <2>10
<1> QED
  BY <1>1, Invariant, PTL DEF Spec, NoneRepeated
=============================================================================
