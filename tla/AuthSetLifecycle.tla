-------------------------- MODULE AuthSetLifecycle --------------------------
(***************************************************************************)
(* What the device admission service promises about the status of every    *)
(* authentication set, whatever its requests, failures and crashes do: how *)
(* a set comes to be pending, preauthorized, accepted or rejected.  One    *)
(* step is one write to one database, or one decision that deviceauth      *)
(* carries out; handlers, their phases and their calls are not seen here.  *)
(***************************************************************************)
CONSTANTS
    AuthIds,     \* ids of authentication sets
    Unset        \* the status of a set that does not exist

ASSUME UnsetIsNoStatus ==
    Unset \notin {"pending", "accepted", "rejected", "preauthorized"}

VARIABLES
    status,      \* status[i]: the status of set i in the database
    told,        \* told[i]: the decisions deviceauth has carried out for set i
    vouched      \* the sets that an operator has preauthorized

vars == <<status, told, vouched>>

Decided == {"accepted", "rejected"}

TypeOK ==
    /\ status \in [AuthIds -> Decided \cup {"pending", "preauthorized", Unset}]
    /\ told \in [AuthIds -> SUBSET Decided]
    /\ vouched \in SUBSET AuthIds

Init ==
    /\ status = [i \in AuthIds |-> Unset]
    /\ told = [i \in AuthIds |-> {}]
    /\ vouched = {}

\* A submission makes a set pending again, wherever it was.
Submit(i) ==
    /\ status' = [status EXCEPT ![i] = "pending"]
    /\ UNCHANGED <<told, vouched>>

\* An operator preauthorizes a set once, before it exists; the insertion of it
\* may fail.
Preauthorize(i) ==
    /\ i \notin vouched /\ status[i] = Unset
    /\ vouched' = vouched \cup {i}
    /\ status' \in {status, [status EXCEPT ![i] = "preauthorized"]}
    /\ UNCHANGED told

\* deviceauth carries out a decision.
Tell(i, s) ==
    /\ told' = [told EXCEPT ![i] = @ \cup {s}]
    /\ UNCHANGED <<status, vouched>>

\* A decision is recorded only after deviceauth has carried it out, perhaps
\* long after, and perhaps for a set that has been removed meanwhile.
Decide(i, s) ==
    /\ s \in told[i]
    /\ status' = [status EXCEPT ![i] = s]
    /\ UNCHANGED <<told, vouched>>

\* deviceauth claims a preauthorized set.
Claim(i) ==
    /\ i \in vouched /\ status[i] # Unset
    /\ status' = [status EXCEPT ![i] = "accepted"]
    /\ UNCHANGED <<told, vouched>>

Remove(ids) ==
    /\ status' = [i \in AuthIds |-> IF i \in ids THEN Unset ELSE status[i]]
    /\ UNCHANGED <<told, vouched>>

Next ==
    \/ \E i \in AuthIds :
          \/ Submit(i)
          \/ Preauthorize(i)
          \/ \E s \in Decided : Tell(i, s) \/ Decide(i, s)
          \/ Claim(i)
    \/ \E ids \in SUBSET AuthIds : Remove(ids)

Spec == Init /\ [][Next]_vars

-----------------------------------------------------------------------------

\* Nobody is rejected without deviceauth having carried the rejection out, nor
\* accepted without that or an operator's voucher for the set.
Authorised ==
    \A i \in AuthIds :
        /\ status[i] = "rejected" => "rejected" \in told[i]
        /\ status[i] = "accepted" => "accepted" \in told[i] \/ i \in vouched
=============================================================================
