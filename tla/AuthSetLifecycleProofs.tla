----------------------- MODULE AuthSetLifecycleProofs -----------------------
(***************************************************************************)
(* Proofs about the life cycle of any authentication sets.                 *)
(***************************************************************************)
EXTENDS AuthSetLifecycle, TLAPS

Inv == TypeOK /\ Authorised

\* Every step of the life cycle keeps its types and its authority.
LEMMA InvStep == Inv /\ [Next]_vars => Inv'
<1> SUFFICES ASSUME Inv, [Next]_vars PROVE Inv'
  OBVIOUS
<1> USE UnsetIsNoStatus DEF Inv, TypeOK, Authorised, Decided
<1>1. ASSUME NEW i \in AuthIds, Submit(i) PROVE Inv'
  BY <1>1 DEF Submit
<1>2. ASSUME NEW i \in AuthIds, Preauthorize(i) PROVE Inv'
  BY <1>2 DEF Preauthorize
<1>3. ASSUME NEW i \in AuthIds, NEW s \in Decided, Tell(i, s) PROVE Inv'
  BY <1>3 DEF Tell
<1>4. ASSUME NEW i \in AuthIds, NEW s \in Decided, Decide(i, s) PROVE Inv'
  BY <1>4 DEF Decide
<1>5. ASSUME NEW i \in AuthIds, Claim(i) PROVE Inv'
  BY <1>5 DEF Claim
<1>6. ASSUME NEW ids, Remove(ids) PROVE Inv'
  BY <1>6 DEF Remove
<1>7. CASE UNCHANGED vars
  BY <1>7 DEF vars
<1> QED
  BY <1>1, <1>2, <1>3, <1>4, <1>5, <1>6, <1>7 DEF Next

\* In every life cycle, who is accepted or rejected is so by a decision that
\* deviceauth carried out, or by an operator's voucher.
THEOREM LifecycleAuthority == Spec => []Authorised
<1>1. Init => Inv
  BY UnsetIsNoStatus DEF Init, Inv, TypeOK, Authorised, Decided
<1>2. Inv => Authorised
  BY DEF Inv
<1> QED
  BY <1>1, <1>2, InvStep, PTL DEF Spec
=============================================================================
