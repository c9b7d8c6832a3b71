---------------------------- MODULE TenancyProofs ----------------------------
(***************************************************************************)
(* Proofs about Tenancy for any tenants, requests and sets: a request's    *)
(* database and deviceauth are of one tenant, whichever way the token      *)
(* takes, and with that the requests implement AuthSetLifecycle in each    *)
(* tenant's database.                                                      *)
(***************************************************************************)
EXTENDS Tenancy, AuthSetLifecycleProofs, Naturals

USE SetsOfDatabases, DrawnIds, HeaderValues, UnsetIsNoStatus

-----------------------------------------------------------------------------
(* Headers.                                                                *)

\* A context made from a header works on the database of the tenant it names.
LEMMA ContextNames ==
    ASSUME NEW h \in Headers
    PROVE  /\ Context(h).auth = (IF h = None THEN <<>> ELSE <<h>>)
           /\ Context(h) \in [auth : Seq(Headers), identity : Dbs \cup {None}]
           /\ DbFromContext(Context(h)) = Named(h) /\ Named(h) \in Dbs
<1>1. (IF h = None THEN <<>> ELSE <<h>>) \in Seq(Headers)
  OBVIOUS
<1> QED
  BY <1>1 DEF Context, WithContext, ExtractIdentity, DbFromContext, Named, Headers, Dbs

\* A call with that context carries only that header, and deviceauth acts for the same
\* tenant, whether or not the header was added explicitly as well.
LEMMA CallNames ==
    ASSUME NEW h \in Headers, NEW own \in {<<>>, <<h>>}
    PROVE  /\ Do(own, Context(h)) \in Seq(Headers)
           /\ \A n \in DOMAIN Do(own, Context(h)) : Do(own, Context(h))[n] = h
           /\ ActsFor(Do(own, Context(h))) = Named(h)
<1> DEFINE hs == Do(own, Context(h))
<1>1. hs = own \o (IF h = None THEN <<>> ELSE <<h>>)
  BY ContextNames DEF Do
<1>2. \/ hs = <<>> /\ h = None
      \/ hs = <<h>>
      \/ hs \in Seq(Headers) /\ Len(hs) = 2 /\ hs[1] = h /\ hs[2] = h
  <2>1. CASE own = <<>>
    BY <1>1, <2>1
  <2>2. CASE own = <<h>> /\ h = None
    BY <1>1, <2>2
  <2>3. CASE own = <<h>> /\ h # None
    <3>1. hs = <<h>> \o <<h>>
      BY <1>1, <2>3
    <3>2. <<h>> \in Seq(Headers) /\ Len(<<h>>) = 1 /\ <<h>>[1] = h
      OBVIOUS
    <3>3. hs \in Seq(Headers) /\ Len(hs) = 2 /\ hs[1] = h /\ hs[2] = h
      BY <3>1, <3>2
    <3> QED
      BY <3>3
  <2> QED
    BY <2>1, <2>2, <2>3
<1> HIDE DEF hs
<1>3. CASE hs = <<>> /\ h = None
  BY <1>3 DEF ActsFor, Named, Dbs, hs
<1>4. CASE hs = <<h>>
  <2>1. hs # <<>> /\ hs[1] = h /\ hs \in Seq(Headers) /\ \A n \in DOMAIN hs : hs[n] = h
    BY <1>4
  <2>2. ActsFor(hs) = DbFromContext(Context(h))
    BY <2>1 DEF ActsFor
  <2> QED
    BY <2>1, <2>2, ContextNames DEF hs
<1>5. CASE hs \in Seq(Headers) /\ Len(hs) = 2 /\ hs[1] = h /\ hs[2] = h
  <2>1. hs # <<>> /\ hs[1] = h /\ hs \in Seq(Headers) /\ \A n \in DOMAIN hs : hs[n] = h
    <3>1. DOMAIN hs = 1..2
      BY <1>5
    <3> QED
      BY <1>5, <3>1
  <2>2. ActsFor(hs) = DbFromContext(Context(h))
    BY <2>1 DEF ActsFor
  <2> QED
    BY <2>1, <2>2, ContextNames DEF hs
<1> QED
  BY <1>2, <1>3, <1>4, <1>5

-----------------------------------------------------------------------------
(* The inductive invariant.                                                *)

Active(r) == pc[r] \in {"check", "wait", "write"}

\* The context of a request, and the headers of its call, are made from its header.
Routed ==
    \A r \in Reqs :
        /\ ctx[r] = Context(header[r])
        /\ call[r] # "none" =>
              \E own \in {<<>>, <<header[r]>>} : sent[r] = Do(own, Context(header[r]))

\* A set was drawn: a preauthorization that drew the id has inserted it.
WasDrawn(i) == \E d \in Dbs : <<d, i>> \in vouched

\* r is at work, on a set that it names.
Names(r) == Active(r) /\ req[r].op # "deleteByDevice"

\* What a request asks for; a drawn id only after it was drawn.
Addressed ==
    \A r \in Reqs :
        /\ Names(r) \/ call[r] # "none" =>
              /\ req[r].id \in Ids
              /\ req[r].op = "update" => req[r].to \in Decided
        /\ Names(r) =>
              IF req[r].op = "preauthorize" THEN req[r].id = r
              ELSE req[r].id \in Reqs => WasDrawn(req[r].id)
        /\ pc[r] \in {"idle", "check"} => call[r] = "none"

\* Ids are drawn once, and no set has one before.
DrawnOnce ==
    /\ \A a \in vouched : a[2] \in Reqs /\ pc[a[2]] \notin {"idle", "check"}
    /\ \A d \in Dbs, i \in Reqs : status[<<d, i>>] # Unset => WasDrawn(i)

\* deviceauth has carried out, for the tenant of the request's database, the decision
\* that the request is about to write; a set to be claimed was preauthorized there.
Backed ==
    /\ \A r \in Reqs : call[r] = "ok" /\ req[r].op = "update" =>
          req[r].to \in told[<<Named(header[r]), req[r].id>>]
    /\ \A a \in AuthIds : status[a] = "preauthorized" => a \in vouched
    /\ \A r \in Reqs : At(r, "acceptPreauth", "write") =>
          <<Named(header[r]), req[r].id>> \in vouched

IInv == RequestsTypeOK /\ Authorised /\ Routed /\ Addressed /\ DrawnOnce /\ Backed

\* The set that an active request is about.
LEMMA MineIs ==
    ASSUME RequestsTypeOK, Routed, NEW r \in Reqs
    PROVE  /\ header[r] \in Headers /\ Named(header[r]) \in Dbs
           /\ DbFromContext(ctx[r]) = Named(header[r])
           /\ Mine(r) = <<Named(header[r]), req[r].id>>
           /\ req[r].id \in Ids => Mine(r) \in AuthIds
<1>1. header[r] \in Headers /\ ctx[r] = Context(header[r])
  BY DEF RequestsTypeOK, Routed
<1>2. Named(header[r]) \in Dbs /\ DbFromContext(ctx[r]) = Named(header[r])
  BY <1>1, ContextNames
<1>3. Mine(r) = <<Named(header[r]), req[r].id>>
  BY <1>2 DEF Mine
<1> QED
  BY <1>1, <1>2, <1>3

-----------------------------------------------------------------------------
(* The refinement.                                                         *)

\* Every step of a request is a step of the life cycle, or none of it.
LEMMA StepMaps ==
    ASSUME IInv, NEW r \in Reqs, Step(r)
    PROVE  [Next]_vars
<1>0. /\ RequestsTypeOK /\ TypeOK /\ Routed /\ Addressed /\ DrawnOnce /\ Backed
      /\ status = [a \in AuthIds |-> status[a]]
  BY DEF IInv, RequestsTypeOK, TypeOK
<1>1. Names(r) => req[r].id \in Ids /\ Mine(r) \in AuthIds
  BY <1>0, MineIs DEF Addressed
<1>2. CASE TurnedAway(r) \/ Arrive(r) \/ End(r)
           \/ UpdateStatusPropagate(r) \/ DeletePropagate(r) \/ AcceptPreAuthCheck(r)
           \/ DevauthRefuse(r)
  BY <1>2 DEF TurnedAway, Arrive, End, UpdateStatusPropagate, DeletePropagate,
              AcceptPreAuthCheck, DevauthRefuse, Propagate, vars
<1>3. CASE SubmitDeviceAuth(r)
  <2>1. Submit(Mine(r)) /\ Names(r)
    BY <1>3 DEF SubmitDeviceAuth, Put, Submit, At, Names, Active
  <2> QED
    BY <1>1, <2>1 DEF Next
<1>4. CASE UpdateStatusPut(r)
  <2>1. Names(r) /\ req[r].to \in Decided /\ req[r].to \in told[Mine(r)]
    BY <1>0, <1>4, MineIs DEF UpdateStatusPut, At, Names, Active, Addressed, Backed
  <2>2. Decide(Mine(r), req[r].to)
    BY <1>4, <2>1 DEF UpdateStatusPut, Put, Decide
  <2> QED
    BY <1>1, <2>1, <2>2 DEF Next
<1>5. ASSUME NEW ids \in SUBSET AuthIds, UNCHANGED <<told, vouched>>,
             status' = [a \in AuthIds |-> IF a \in ids THEN Unset ELSE status[a]]
      PROVE  Next
  BY <1>5 DEF Next, Remove
<1>6. CASE DeleteDeviceAuth(r)
  <2>1. Names(r)
    BY <1>6 DEF DeleteDeviceAuth, At, Names, Active
  <2>2. status' = [status EXCEPT ![Mine(r)] = Unset] /\ UNCHANGED <<told, vouched>>
    BY <1>6 DEF DeleteDeviceAuth, Put
  <2>3. status' = [a \in AuthIds |-> IF a \in {Mine(r)} THEN Unset ELSE status[a]]
    BY <1>0, <2>2
  <2>4. {Mine(r)} \in SUBSET AuthIds
    BY <1>1, <2>1
  <2>5. Next
    BY <1>5, <2>2, <2>3, <2>4
  <2> QED
    BY <2>5
<1>7. CASE DeleteDeviceData(r)
  <2>1. PICK ids \in SUBSET Ids :
           status' = [a \in AuthIds |->
                        IF a \in {DbFromContext(ctx[r])} \X ids THEN Unset ELSE status[a]]
    BY <1>7 DEF DeleteDeviceData
  <2>2. {DbFromContext(ctx[r])} \X ids \in SUBSET AuthIds
    BY <1>0, MineIs
  <2> QED
    BY <1>5, <1>7, <2>1, <2>2 DEF DeleteDeviceData
<1>8. CASE AcceptPreAuthUpdate(r)
  <2>1. Names(r) /\ Mine(r) \in vouched
    BY <1>0, <1>8, MineIs DEF AcceptPreAuthUpdate, At, Names, Active, Backed
  <2>2. Claim(Mine(r))
    BY <1>8, <2>1 DEF AcceptPreAuthUpdate, Found, Put, Claim
  <2> QED
    BY <1>1, <2>1, <2>2 DEF Next
<1>9. CASE PreauthorizeDevice(r)
  <2>1. Names(r) /\ req[r].id = r /\ pc[r] = "check"
    BY <1>0, <1>9 DEF PreauthorizeDevice, At, Names, Active, Addressed
  <2>2. Mine(r) = <<Named(header[r]), r>> /\ Named(header[r]) \in Dbs
    BY <1>0, <2>1, MineIs
  <2>3. \A d \in Dbs : <<d, r>> \notin vouched
    BY <1>0, <2>1 DEF DrawnOnce
  <2>4. Mine(r) \notin vouched /\ status[Mine(r)] = Unset
    BY <1>0, <2>2, <2>3 DEF DrawnOnce, WasDrawn
  <2>5. Preauthorize(Mine(r))
    BY <1>9, <2>4 DEF PreauthorizeDevice, Propagate, Preauthorize
  <2> QED
    BY <1>1, <2>1, <2>5 DEF Next
<1>10. CASE DevauthApply(r)
  <2>1. CASE req[r].op # "update"
    BY <1>10, <2>1 DEF DevauthApply, vars
  <2>2. CASE req[r].op = "update"
    <3> DEFINE a == <<ActsFor(sent[r]), req[r].id>>
    <3>0. call[r] # "none" /\ header[r] \in Headers
      BY <1>0, <1>10, MineIs DEF DevauthApply
    <3>1. req[r].id \in Ids /\ req[r].to \in Decided
      BY <1>0, <2>2, <3>0 DEF Addressed
    <3>2. PICK own \in {<<>>, <<header[r]>>} : sent[r] = Do(own, Context(header[r]))
      BY <1>0, <3>0 DEF Routed
    <3>3. ActsFor(sent[r]) = Named(header[r])
      BY <3>0, <3>2, CallNames
    <3>4. a \in AuthIds
      BY <1>0, <3>1, <3>3, MineIs
    <3>5. Tell(a, req[r].to)
      BY <1>10, <2>2 DEF DevauthApply, Tell
    <3> QED
      BY <3>1, <3>4, <3>5 DEF Next
  <2> QED
    BY <2>1, <2>2
<1> QED
  BY <1>2, <1>3, <1>4, <1>6, <1>7, <1>8, <1>9, <1>10 DEF Step

-----------------------------------------------------------------------------
(* The invariant is inductive.                                             *)

\* A request that goes on without arriving keeps its header, context and operation.
Keeps == UNCHANGED <<req, header, ctx>>

Silent(r) == Keeps /\ UNCHANGED <<call, sent>>

\* What a step does to the variables of the requests: most only move the phase.
LEMMA StepFields ==
    ASSUME NEW r \in Reqs, Step(r)
    PROVE  \/ /\ pc[r] = "idle" /\ Go(r, "done") /\ Silent(r)
           \/ Arrive(r)
           \/ /\ Active(r) /\ \E phase \in {"write", "done"} : Go(r, phase)
              /\ Silent(r)
           \/ /\ pc[r] = "check" /\ Keeps
              /\ \E own \in {<<>>, <<header[r]>>} :
                    /\ Go(r, "wait")
                    /\ call' = [call EXCEPT ![r] = "sent"]
                    /\ sent' = [sent EXCEPT ![r] = Do(own, ctx[r])]
           \/ /\ call[r] = "sent" /\ Keeps /\ UNCHANGED <<pc, sent>>
              /\ \E answer \in {"ok", "failed"} : call' = [call EXCEPT ![r] = answer]
<1>1. CASE TurnedAway(r)
  BY <1>1 DEF TurnedAway, Silent, Keeps
<1>2. CASE Arrive(r)
  BY <1>2
<1>3. CASE End(r) \/ AcceptPreAuthCheck(r)
  BY <1>3 DEF End, AcceptPreAuthCheck, At, Active, Silent, Keeps
<1>4. CASE SubmitDeviceAuth(r) \/ UpdateStatusPut(r) \/ DeleteDeviceAuth(r)
           \/ DeleteDeviceData(r) \/ AcceptPreAuthUpdate(r)
  BY <1>4 DEF SubmitDeviceAuth, UpdateStatusPut, DeleteDeviceAuth, DeleteDeviceData,
              AcceptPreAuthUpdate, Put, At, Active, Silent, Keeps
<1>5. CASE UpdateStatusPropagate(r) \/ DeletePropagate(r) \/ PreauthorizeDevice(r)
  BY <1>5 DEF UpdateStatusPropagate, DeletePropagate, PreauthorizeDevice, Propagate, At, Active,
              Silent, Keeps
<1>6. CASE DevauthApply(r) \/ DevauthRefuse(r)
  BY <1>6 DEF DevauthApply, DevauthRefuse, Keeps
<1> QED
  BY <1>1, <1>2, <1>3, <1>4, <1>5, <1>6 DEF Step

\* What an arrival leaves: any header, with the context made from it.
LEMMA ArriveFields ==
    ASSUME NEW r \in Reqs, Arrive(r)
    PROVE  /\ pc[r] = "idle" /\ Go(r, "check")
           /\ \E h \in Headers :
                 header' = [header EXCEPT ![r] = h] /\ ctx' = [ctx EXCEPT ![r] = Context(h)]
           /\ \E new \in [op : Ops, id : Ids \cup {None}, to : Decided \cup {None}] :
                 /\ req' = [req EXCEPT ![r] = new]
                 /\ new.op = "update" => new.to \in Decided
                 /\ new.op = "preauthorize" => new.id = r
                 /\ new.op \notin {"preauthorize", "deleteByDevice"} => new.id \in KnownIds
           /\ UNCHANGED <<status, told, vouched, call, sent>>
<1>0. PICK op \in Offered : \E i \in AskedIds(r, op), s \in Decided :
         req' = [req EXCEPT ![r] =
                   [op |-> op, id |-> i, to |-> IF op = "update" THEN s ELSE None]]
  BY DEF Arrive
<1>1. PICK i \in AskedIds(r, op), s \in Decided :
         req' = [req EXCEPT ![r] =
                   [op |-> op, id |-> i, to |-> IF op = "update" THEN s ELSE None]]
  BY <1>0
<1> DEFINE new == [op |-> op, id |-> i, to |-> IF op = "update" THEN s ELSE None]
<1>2. /\ op = "preauthorize" => i = r
      /\ op = "deleteByDevice" => i = None
      /\ op \notin {"preauthorize", "deleteByDevice"} => i \in KnownIds
  BY DEF AskedIds
<1>3. new \in [op : Ops, id : Ids \cup {None}, to : Decided \cup {None}]
  BY <1>2, OfferedOps DEF KnownIds
<1>4. /\ new.op = op /\ new.id = i
      /\ new.op = "update" => new.to \in Decided
  OBVIOUS
<1> HIDE DEF new
<1>5. req' = [req EXCEPT ![r] = new]
  BY <1>1 DEF new
<1> QED
  BY <1>2, <1>3, <1>4, <1>5 DEF Arrive

\* A step writes to sets of the request's own database: it removes some, or writes
\* the request's set.
LEMMA StatusFields ==
    ASSUME IInv, NEW r \in Reqs, Step(r), NEW a \in AuthIds, status'[a] # status[a]
    PROVE  /\ Active(r) /\ a[1] = Named(header[r])
           /\ \/ status'[a] = Unset
              \/ a = Mine(r) /\ req[r].op # "preauthorize" /\ status'[a] # "preauthorized"
              \/ a = Mine(r) /\ vouched' = vouched \cup {Mine(r)}
<1>0. /\ RequestsTypeOK /\ Routed /\ Addressed
      /\ status = [b \in AuthIds |-> status[b]]
  BY DEF IInv, RequestsTypeOK, TypeOK
<1>1. Names(r) => Active(r) /\ Mine(r) \in AuthIds /\ Mine(r)[1] = Named(header[r])
  BY <1>0, MineIs DEF Addressed, Names
<1>2. ASSUME NEW s, status' = [status EXCEPT ![Mine(r)] = s], Names(r)
      PROVE  a = Mine(r) /\ a[1] = Named(header[r]) /\ status'[a] = s
  BY <1>0, <1>1, <1>2
<1>3. CASE TurnedAway(r) \/ Arrive(r) \/ End(r)
           \/ UpdateStatusPropagate(r) \/ DeletePropagate(r) \/ AcceptPreAuthCheck(r)
           \/ DevauthApply(r) \/ DevauthRefuse(r)
  BY <1>3 DEF TurnedAway, Arrive, End, UpdateStatusPropagate, DeletePropagate,
              AcceptPreAuthCheck, DevauthApply, DevauthRefuse
<1>4. CASE SubmitDeviceAuth(r)
  <2>1. /\ Names(r) /\ req[r].op # "preauthorize"
        /\ status' = [status EXCEPT ![Mine(r)] = "pending"]
    BY <1>4 DEF SubmitDeviceAuth, Put, At, Names, Active
  <2> QED
    BY <1>1, <1>2, <2>1
<1>5. CASE UpdateStatusPut(r)
  <2>1. /\ Names(r) /\ req[r].op # "preauthorize" /\ req[r].to \in Decided
        /\ status' = [status EXCEPT ![Mine(r)] = req[r].to]
    BY <1>0, <1>5 DEF UpdateStatusPut, Put, At, Names, Active, Addressed
  <2> QED
    BY <1>1, <1>2, <2>1 DEF Decided
<1>6. CASE DeleteDeviceAuth(r)
  <2>1. Names(r) /\ status' = [status EXCEPT ![Mine(r)] = Unset]
    BY <1>6 DEF DeleteDeviceAuth, Put, At, Names, Active
  <2> QED
    BY <1>1, <1>2, <2>1
<1>7. CASE DeleteDeviceData(r)
  <2>1. PICK ids \in SUBSET Ids :
           status' = [b \in AuthIds |->
                        IF b \in {DbFromContext(ctx[r])} \X ids THEN Unset ELSE status[b]]
    BY <1>7 DEF DeleteDeviceData
  <2>2. a \in {DbFromContext(ctx[r])} \X ids /\ status'[a] = Unset
    BY <2>1
  <2>3. a[1] = Named(header[r])
    BY <1>0, <2>2, MineIs
  <2> QED
    BY <1>7, <2>2, <2>3 DEF DeleteDeviceData, At, Active
<1>8. CASE AcceptPreAuthUpdate(r)
  <2>1. /\ Names(r) /\ req[r].op # "preauthorize"
        /\ status' = [status EXCEPT ![Mine(r)] = "accepted"]
    BY <1>8 DEF AcceptPreAuthUpdate, Put, At, Names, Active
  <2> QED
    BY <1>1, <1>2, <2>1
<1>9. CASE PreauthorizeDevice(r)
  <2>1. /\ Names(r) /\ vouched' = vouched \cup {Mine(r)}
        /\ status' = [status EXCEPT ![Mine(r)] = "preauthorized"]
    BY <1>9 DEF PreauthorizeDevice, At, Names, Active
  <2> QED
    BY <1>1, <1>2, <2>1
<1> QED
  BY <1>3, <1>4, <1>5, <1>6, <1>7, <1>8, <1>9 DEF Step

\* The removal of a device's sets writes nothing else.
LEMMA RemovesOnly ==
    ASSUME RequestsTypeOK, NEW r \in Reqs, Step(r), req[r].op = "deleteByDevice",
           NEW a \in AuthIds, status'[a] # status[a]
    PROVE  status'[a] = Unset
<1>1. CASE DeleteDeviceData(r)
  BY <1>1 DEF DeleteDeviceData
<1>2. CASE ~DeleteDeviceData(r)
  BY <1>2 DEF Step, TurnedAway, Arrive, End, SubmitDeviceAuth, UpdateStatusPropagate,
              UpdateStatusPut, DeletePropagate, DeleteDeviceAuth, AcceptPreAuthCheck,
              AcceptPreAuthUpdate, PreauthorizeDevice, DevauthApply, DevauthRefuse, Put, At
<1> QED
  BY <1>1, <1>2

\* What deviceauth has carried out stays so; a set is vouched for as it is drawn.
LEMMA RecordFields ==
    ASSUME IInv, NEW r \in Reqs, Step(r)
    PROVE  /\ \A a \in AuthIds : told[a] \subseteq told'[a]
           /\ \/ vouched' = vouched
              \/ /\ vouched' = vouched \cup {Mine(r)} /\ req[r].op = "preauthorize"
                 /\ pc[r] = "check" /\ \E phase \in {"wait", "done"} : Go(r, phase)
<1>1. told \in [AuthIds -> SUBSET Decided]
  BY DEF IInv, RequestsTypeOK, TypeOK
<1>2. CASE DevauthApply(r)
  BY <1>1, <1>2 DEF DevauthApply
<1>3. CASE PreauthorizeDevice(r)
  BY <1>3 DEF PreauthorizeDevice, Propagate, At, Go
<1> QED
  BY <1>2, <1>3
     DEF Step, TurnedAway, Arrive, End, SubmitDeviceAuth, UpdateStatusPropagate,
         UpdateStatusPut, DeletePropagate, DeleteDeviceAuth, DeleteDeviceData,
         AcceptPreAuthCheck, AcceptPreAuthUpdate, DevauthRefuse, Propagate, Put

\* Types.
LEMMA TypeStep ==
    ASSUME IInv, NEW r \in Reqs, Step(r)
    PROVE  RequestsTypeOK' /\ Authorised'
<1>0. RequestsTypeOK /\ Routed /\ Inv
  BY DEF IInv, RequestsTypeOK, Inv
<1>1. TypeOK' /\ Authorised'
  BY <1>0, StepMaps, InvStep DEF Inv
<1> USE DEF RequestsTypeOK
<1>2. CASE Arrive(r)
  <2>1. /\ pc' \in [Reqs -> {"idle", "check", "wait", "write", "done"}]
        /\ header' \in [Reqs -> Headers] /\ UNCHANGED <<call, sent>>
    <3>1. PICK h \in Headers : header' = [header EXCEPT ![r] = h]
      BY <1>2, ArriveFields
    <3>2. pc' = [pc EXCEPT ![r] = "check"] /\ UNCHANGED <<call, sent>>
      BY <1>2, ArriveFields DEF Go
    <3> QED
      BY <1>0, <3>1, <3>2
  <2>2. ctx' \in [Reqs -> [auth : Seq(Headers), identity : Dbs \cup {None}]]
    <3>1. PICK h \in Headers : ctx' = [ctx EXCEPT ![r] = Context(h)]
      BY <1>2, ArriveFields
    <3> QED
      BY <1>0, <3>1, ContextNames
  <2>3. req' \in [Reqs -> [op : Ops \cup {None}, id : Ids \cup {None},
                           to : Decided \cup {None}]]
    <3>1. PICK new \in [op : Ops, id : Ids \cup {None}, to : Decided \cup {None}] :
             req' = [req EXCEPT ![r] = new]
      BY <1>2, ArriveFields
    <3> DEFINE Asked == [op : Ops \cup {None}, id : Ids \cup {None}, to : Decided \cup {None}]
    <3>2. new \in Asked /\ req \in [Reqs -> Asked]
      BY <1>0
    <3> HIDE DEF Asked
    <3>3. req' \in [Reqs -> Asked]
      BY <3>1, <3>2
    <3> QED
      BY <3>3 DEF Asked
  <2> QED
    BY <1>0, <1>1, <2>1, <2>2, <2>3
<1>3. ASSUME NEW own \in {<<>>, <<header[r]>>}, Keeps, Go(r, "wait"),
             call' = [call EXCEPT ![r] = "sent"],
             sent' = [sent EXCEPT ![r] = Do(own, ctx[r])]
      PROVE  RequestsTypeOK'
  <2>1. Do(own, ctx[r]) \in Seq(Headers)
    BY <1>0, CallNames DEF Routed
  <2> QED
    BY <1>0, <1>1, <1>3, <2>1 DEF Keeps, Go
<1>4. CASE Silent(r) /\ \E phase \in {"write", "done"} : Go(r, phase)
  BY <1>0, <1>1, <1>4 DEF Silent, Keeps, Go
<1>5. CASE /\ Keeps /\ UNCHANGED <<pc, sent>>
           /\ \E answer \in {"ok", "failed"} : call' = [call EXCEPT ![r] = answer]
  BY <1>0, <1>1, <1>5 DEF Keeps
<1> QED
  BY <1>1, <1>2, <1>3, <1>4, <1>5, StepFields

\* Contexts and calls are made from headers.
LEMMA RoutedStep ==
    ASSUME IInv, NEW r \in Reqs, Step(r)
    PROVE  Routed'
<1>0. RequestsTypeOK /\ Routed /\ Addressed
  BY DEF IInv
<1> SUFFICES ASSUME NEW q \in Reqs
             PROVE  /\ ctx'[q] = Context(header'[q])
                    /\ call'[q] # "none" =>
                          \E own \in {<<>>, <<header'[q]>>} :
                             sent'[q] = Do(own, Context(header'[q]))
  BY DEF Routed
<1>1. CASE Arrive(r)
  <2>1. PICK h \in Headers :
           header' = [header EXCEPT ![r] = h] /\ ctx' = [ctx EXCEPT ![r] = Context(h)]
    BY <1>1, ArriveFields
  <2>2. call[r] = "none" /\ UNCHANGED <<call, sent>>
    BY <1>0, <1>1, ArriveFields DEF Addressed
  <2>3. ctx'[q] = Context(header'[q]) /\ (q # r => header'[q] = header[q])
    BY <1>0, <2>1 DEF Routed, RequestsTypeOK
  <2> QED
    BY <1>0, <2>2, <2>3 DEF Routed
<1>2. ASSUME NEW own \in {<<>>, <<header[r]>>}, Keeps,
             call' = [call EXCEPT ![r] = "sent"],
             sent' = [sent EXCEPT ![r] = Do(own, ctx[r])]
      PROVE  /\ ctx'[q] = Context(header'[q])
             /\ call'[q] # "none" =>
                   \E o \in {<<>>, <<header'[q]>>} : sent'[q] = Do(o, Context(header'[q]))
  <2>1. q = r => sent'[q] = Do(own, Context(header[q])) /\ header'[q] = header[q]
    BY <1>0, <1>2 DEF Keeps, Routed, RequestsTypeOK
  <2>2. q # r => sent'[q] = sent[q] /\ call'[q] = call[q]
    BY <1>0, <1>2 DEF RequestsTypeOK
  <2> QED
    BY <1>0, <1>2, <2>1, <2>2 DEF Keeps, Routed
<1>3. CASE Silent(r)
  BY <1>0, <1>3 DEF Silent, Keeps, Routed
<1>4. CASE /\ call[r] = "sent" /\ Keeps /\ UNCHANGED <<pc, sent>>
           /\ \E answer \in {"ok", "failed"} : call' = [call EXCEPT ![r] = answer]
  <2>1. call'[q] # "none" => call[q] # "none"
    BY <1>0, <1>4 DEF RequestsTypeOK
  <2> QED
    BY <1>0, <1>4, <2>1 DEF Keeps, Routed
<1> QED
  BY <1>1, <1>2, <1>3, <1>4, StepFields

\* Requests name sets that they can know.
LEMMA AddressedStep ==
    ASSUME IInv, NEW r \in Reqs, Step(r)
    PROVE  Addressed'
<1>0. RequestsTypeOK /\ Addressed
  BY DEF IInv
<1>1. \A i : WasDrawn(i) => \E d \in Dbs : <<d, i>> \in vouched'
  BY RecordFields DEF WasDrawn
<1> SUFFICES ASSUME NEW q \in Reqs
             PROVE  /\ Names(q)' \/ call'[q] # "none" =>
                          /\ req'[q].id \in Ids
                          /\ req'[q].op = "update" => req'[q].to \in Decided
                    /\ Names(q)' =>
                          IF req'[q].op = "preauthorize" THEN req'[q].id = q
                          ELSE req'[q].id \in Reqs =>
                                  \E d \in Dbs : <<d, req'[q].id>> \in vouched'
                    /\ pc'[q] \in {"idle", "check"} => call'[q] = "none"
  BY DEF Addressed, WasDrawn
<1>2. CASE Arrive(r)
  <2>1. PICK new \in [op : Ops, id : Ids \cup {None}, to : Decided \cup {None}] :
           /\ req' = [req EXCEPT ![r] = new]
           /\ new.op = "update" => new.to \in Decided
           /\ new.op = "preauthorize" => new.id = r
           /\ new.op \notin {"preauthorize", "deleteByDevice"} => new.id \in KnownIds
    BY <1>2, ArriveFields
  <2>2. new.op # "deleteByDevice" => new.id \in Ids
    BY <2>1 DEF KnownIds
  <2>3. call[r] = "none" /\ pc[r] = "idle" /\ pc' = [pc EXCEPT ![r] = "check"] /\ call' = call
    BY <1>0, <1>2, ArriveFields DEF Addressed, Go
  <2>4. /\ new.op \notin {"preauthorize", "deleteByDevice"} /\ new.id \in Reqs =>
              WasDrawn(new.id)
    BY <2>1 DEF KnownIds, WasDrawn
  <2>5. CASE q = r
    <3>1. req'[q] = new /\ call'[q] = "none"
      BY <1>0, <2>1, <2>3, <2>5 DEF RequestsTypeOK
    <3> QED
      BY <1>1, <2>1, <2>2, <2>4, <2>5, <3>1 DEF Names
  <2>6. CASE q # r
    <3>1. req'[q] = req[q] /\ pc'[q] = pc[q] /\ call'[q] = call[q]
      BY <1>0, <2>1, <2>3, <2>6 DEF RequestsTypeOK
    <3> QED
      BY <1>0, <1>1, <3>1 DEF Addressed, Names, Active
  <2> QED
    BY <2>5, <2>6
<1>3. CASE ~Arrive(r)
  <2>1. req' = req /\ (Active(q)' => Active(q))
    BY <1>0, <1>3, StepFields DEF Silent, Keeps, Go, Active, RequestsTypeOK
  <2>2. call'[q] # "none" => call[q] # "none" \/ Names(q)
    <3>1. CASE DeleteDeviceData(r)
      BY <3>1 DEF DeleteDeviceData
    <3>2. CASE ~DeleteDeviceData(r) /\ req[r].op = "deleteByDevice"
      BY <1>0, <1>3, <3>2
         DEF Step, TurnedAway, End, SubmitDeviceAuth, UpdateStatusPropagate, UpdateStatusPut,
             DeletePropagate, DeleteDeviceAuth, AcceptPreAuthCheck, AcceptPreAuthUpdate,
             PreauthorizeDevice, DevauthApply, DevauthRefuse, Put, At, RequestsTypeOK
    <3>3. CASE req[r].op # "deleteByDevice"
      BY <1>0, <1>3, <3>3, StepFields DEF Silent, Keeps, Names, Active, RequestsTypeOK
    <3> QED
      BY <3>1, <3>2, <3>3
  <2>3. pc'[q] \in {"idle", "check"} => pc'[q] = pc[q] /\ call'[q] = call[q]
    BY <1>0, <1>3, StepFields DEF Silent, Keeps, Go, Addressed, RequestsTypeOK
  <2> QED
    BY <1>0, <1>1, <2>1, <2>2, <2>3 DEF Addressed, Names
<1> QED
  BY <1>2, <1>3

\* A drawn id belongs to a set only after its preauthorization drew it.
LEMMA DrawnStep ==
    ASSUME IInv, NEW r \in Reqs, Step(r)
    PROVE  DrawnOnce'
<1>0. RequestsTypeOK /\ Routed /\ Addressed /\ DrawnOnce
  BY DEF IInv
<1>1. vouched \subseteq vouched'
  BY RecordFields
<1>2. ASSUME NEW a \in vouched' PROVE a[2] \in Reqs /\ pc'[a[2]] \notin {"idle", "check"}
  <2>1. CASE a \in vouched
    <3>1. a[2] \in Reqs /\ pc[a[2]] \notin {"idle", "check"}
      BY <1>0, <2>1 DEF DrawnOnce
    <3>2. \A q \in Reqs : pc'[q] \in {"idle", "check"} => pc[q] \in {"idle", "check"}
      BY <1>0, StepFields, ArriveFields DEF Go, Silent, RequestsTypeOK
    <3> QED
      BY <3>1, <3>2
  <2>2. CASE a \notin vouched
    <3>1. /\ a = Mine(r) /\ req[r].op = "preauthorize" /\ pc[r] = "check"
          /\ \E phase \in {"wait", "done"} : Go(r, phase)
      BY <1>2, <2>2, RecordFields
    <3>2. a[2] = r
      BY <1>0, <3>1 DEF Mine, Addressed, Names, Active
    <3> QED
      BY <1>0, <3>1, <3>2 DEF Go, RequestsTypeOK
  <2> QED
    BY <2>1, <2>2
<1>3. ASSUME NEW d \in Dbs, NEW i \in Reqs, status'[<<d, i>>] # Unset
      PROVE  \E e \in Dbs : <<e, i>> \in vouched'
  <2> DEFINE a == <<d, i>>
  <2>1. a \in AuthIds
    OBVIOUS
  <2>2. CASE status'[a] = status[a]
    BY <1>0, <1>1, <1>3, <2>2 DEF DrawnOnce, WasDrawn
  <2>3. CASE status'[a] # status[a] /\ a = Mine(r) /\ req[r].op # "preauthorize"
    <3>1. Active(r) /\ req[r].id = i
      BY <2>1, <2>3, StatusFields DEF Mine
    <3>2. CASE req[r].op # "deleteByDevice"
      BY <1>0, <1>1, <2>3, <3>1, <3>2 DEF Addressed, Names, WasDrawn
    <3>3. CASE req[r].op = "deleteByDevice"
      BY <1>0, <1>3, <2>1, <2>3, <3>3, RemovesOnly
    <3> QED
      BY <3>2, <3>3
  <2>4. CASE a = Mine(r) /\ vouched' = vouched \cup {Mine(r)}
    BY <2>4
  <2> HIDE DEF a
  <2> QED
    BY <1>3, <2>1, <2>2, <2>3, <2>4, StatusFields DEF a
<1> QED
  BY <1>2, <1>3 DEF DrawnOnce, WasDrawn

\* What a request is about to write is backed.
LEMMA BackedStep ==
    ASSUME IInv, NEW r \in Reqs, Step(r)
    PROVE  Backed'
<1>0. RequestsTypeOK /\ Routed /\ Addressed /\ Backed
  BY DEF IInv
<1>1. vouched \subseteq vouched' /\ \A a \in AuthIds : told[a] \subseteq told'[a]
  BY RecordFields
<1>2. ASSUME NEW q \in Reqs, call'[q] = "ok", req'[q].op = "update"
      PROVE  req'[q].to \in told'[<<Named(header'[q]), req'[q].id>>]
  <2>1. CASE call[q] = "ok"
    <3>1. pc[q] # "idle"
      BY <1>0, <2>1 DEF Addressed
    <3>2. req'[q] = req[q] /\ header'[q] = header[q]
      <4>1. CASE Arrive(r)
        BY <1>0, <3>1, <4>1, ArriveFields DEF RequestsTypeOK
      <4> QED
        BY <4>1, StepFields DEF Silent, Keeps
    <3>3. <<Named(header[q]), req[q].id>> \in AuthIds
      BY <1>0, <2>1, MineIs DEF Addressed
    <3> QED
      BY <1>0, <1>1, <1>2, <2>1, <3>2, <3>3 DEF Backed
  <2>2. CASE call[q] # "ok"
    <3>1. q = r /\ DevauthApply(r)
      <4>1. CASE Arrive(r)
        BY <1>2, <2>2, <4>1, ArriveFields
      <4>2. CASE DevauthApply(r)
        BY <1>0, <1>2, <2>2, <4>2 DEF DevauthApply, RequestsTypeOK
      <4>3. CASE DevauthRefuse(r)
        BY <1>0, <1>2, <2>2, <4>3 DEF DevauthRefuse, RequestsTypeOK
      <4>4. CASE \/ TurnedAway(r) \/ End(r) \/ SubmitDeviceAuth(r) \/ UpdateStatusPut(r)
                 \/ DeleteDeviceAuth(r) \/ DeleteDeviceData(r)
                 \/ AcceptPreAuthCheck(r) \/ AcceptPreAuthUpdate(r)
        BY <1>2, <2>2, <4>4
           DEF TurnedAway, End, SubmitDeviceAuth, UpdateStatusPut, DeleteDeviceAuth,
               DeleteDeviceData, AcceptPreAuthCheck, AcceptPreAuthUpdate, Put
      <4>5. CASE UpdateStatusPropagate(r) \/ DeletePropagate(r) \/ PreauthorizeDevice(r)
        BY <1>0, <1>2, <2>2, <4>5
           DEF UpdateStatusPropagate, DeletePropagate, PreauthorizeDevice, Propagate,
               RequestsTypeOK
      <4> QED
        BY <4>1, <4>2, <4>3, <4>4, <4>5 DEF Step
    <3>2. UNCHANGED <<req, header>> /\ call[r] = "sent"
      BY <3>1 DEF DevauthApply
    <3>3. PICK own \in {<<>>, <<header[r]>>} : sent[r] = Do(own, Context(header[r]))
      BY <1>0, <3>2 DEF Routed
    <3>4. ActsFor(sent[r]) = Named(header[r])
      BY <1>0, <3>3, MineIs, CallNames
    <3>5. <<Named(header[r]), req[r].id>> \in AuthIds
      BY <1>0, <3>2, MineIs DEF Addressed
    <3>6. told' = [told EXCEPT ![<<ActsFor(sent[r]), req[r].id>>] = @ \cup {req[r].to}]
      BY <1>2, <3>1, <3>2 DEF DevauthApply
    <3> QED
      BY <1>0, <3>1, <3>2, <3>4, <3>5, <3>6 DEF RequestsTypeOK, TypeOK
  <2> QED
    BY <2>1, <2>2
<1>3. ASSUME NEW a \in AuthIds, status'[a] = "preauthorized" PROVE a \in vouched'
  BY <1>0, <1>1, <1>3, StatusFields DEF Backed
<1>4. ASSUME NEW q \in Reqs, pc'[q] = "write", req'[q].op = "acceptPreauth"
      PROVE  <<Named(header'[q]), req'[q].id>> \in vouched'
  <2>1. req'[q] = req[q] /\ header'[q] = header[q] /\ pc[q] # "idle"
    <3>1. CASE Arrive(r)
      BY <1>0, <1>4, <3>1, ArriveFields DEF RequestsTypeOK, Go
    <3>2. UNCHANGED <<req, header>> => pc[q] # "idle"
      BY <1>0, <1>4, StepFields, ArriveFields DEF Go, Active, RequestsTypeOK
    <3> QED
      BY <3>1, <3>2, StepFields DEF Silent, Keeps
  <2>2. CASE pc[q] = "write"
    BY <1>0, <1>1, <1>4, <2>1, <2>2 DEF Backed, At
  <2>3. CASE pc[q] # "write"
    <3>1. q = r /\ AcceptPreAuthCheck(r)
      <4>1. q = r
        BY <1>0, <1>4, <2>3, StepFields, ArriveFields DEF Go, RequestsTypeOK
      <4>2. Active(r) /\ Go(r, "write") /\ Silent(r)
        BY <1>0, <1>4, <2>1, <2>3, <4>1, StepFields, ArriveFields DEF Go, RequestsTypeOK
      <4> QED
        BY <1>0, <1>4, <2>3, <4>1, <4>2
           DEF Step, TurnedAway, Arrive, End, SubmitDeviceAuth, UpdateStatusPropagate,
               UpdateStatusPut, DeletePropagate, DeleteDeviceAuth, DeleteDeviceData,
               AcceptPreAuthUpdate, PreauthorizeDevice, DevauthApply, DevauthRefuse,
               Propagate, Put, Go, RequestsTypeOK
    <3>2. status[Mine(r)] = "preauthorized" /\ Active(r)
      BY <3>1 DEF AcceptPreAuthCheck, At, Active
    <3> QED
      BY <1>0, <1>1, <1>4, <2>1, <3>1, <3>2, MineIs DEF Backed, Addressed, Names
  <2> QED
    BY <2>2, <2>3
<1> QED
  BY <1>2, <1>3, <1>4 DEF Backed, At

-----------------------------------------------------------------------------
(* The theorems.                                                           *)

\* At the start nobody has asked for anything.
LEMMA IInvInit == ServerInit => IInv
<1> SUFFICES ASSUME ServerInit PROVE IInv
  OBVIOUS
<1>1. Init /\ TypeOK /\ Authorised
  BY DEF ServerInit, Init, TypeOK, Authorised, Decided
<1>2. RequestsTypeOK
  BY <1>1 DEF ServerInit, RequestsTypeOK, Headers
<1>3. Context(None) = [auth |-> <<>>, identity |-> None]
  BY DEF Context, WithContext, ExtractIdentity
<1>4. Routed
  BY <1>3 DEF ServerInit, Routed
<1>5. Addressed
  BY DEF ServerInit, Addressed, Names, Active
<1>6. DrawnOnce
  BY <1>1 DEF Init, DrawnOnce
<1>7. Backed
  BY <1>1 DEF ServerInit, Init, Backed, At
<1> QED
  BY <1>1, <1>2, <1>4, <1>5, <1>6, <1>7 DEF IInv

\* Every step keeps the invariant.
LEMMA IInvStep == IInv /\ [ServerNext]_allVars => IInv'
<1> SUFFICES ASSUME IInv, [ServerNext]_allVars PROVE IInv'
  OBVIOUS
<1>1. ASSUME NEW r \in Reqs, Step(r) PROVE IInv'
  BY <1>1, TypeStep, RoutedStep, AddressedStep, DrawnStep, BackedStep DEF IInv
<1>2. CASE UNCHANGED allVars
  BY <1>2 DEF allVars, IInv, RequestsTypeOK, TypeOK, Authorised, Routed, Addressed, Names,
              Active, DrawnOnce, WasDrawn, Backed, At
<1>3. CASE Crash
  <2>1. /\ UNCHANGED <<status, told, vouched, req, header, ctx, call, sent>>
        /\ pc' = [r \in Reqs |-> IF pc[r] = "idle" THEN "idle" ELSE "done"]
    BY <1>3 DEF Crash
  <2>2. RequestsTypeOK' /\ Authorised' /\ Routed'
    BY <2>1 DEF IInv, RequestsTypeOK, TypeOK, Authorised, Routed
  <2>3. Addressed' /\ Backed'
    BY <2>1 DEF IInv, Addressed, Names, Active, WasDrawn, Backed, At
  <2>4. DrawnOnce'
    BY <2>1 DEF IInv, DrawnOnce, WasDrawn
  <2> QED
    BY <2>2, <2>3, <2>4 DEF IInv
<1> QED
  BY <1>1, <1>2, <1>3 DEF ServerNext

\* The invariant holds for any tenants, requests and sets.
THEOREM ServerInvariance == ServerSpec => []IInv
BY IInvInit, IInvStep, PTL DEF ServerSpec

\* The types of the requests, and with them that every identity is a tenant's or none.
THEOREM RequestsTyping == ServerSpec => []RequestsTypeOK
<1>1. IInv => RequestsTypeOK
  BY DEF IInv
<1> QED
  BY <1>1, ServerInvariance, PTL

\* deviceauth acts for the tenant whose database the request works on (middleware.go
\* keeps the header in the context and takes the identity from it; HttpApi.Do adds it).
THEOREM TenantAgreement == ServerSpec => []SameTenant
<1>1. IInv => SameTenant
  <2> SUFFICES ASSUME IInv, NEW r \in Reqs, call[r] # "none"
               PROVE  /\ \A n \in DOMAIN sent[r] : sent[r][n] = header[r]
                      /\ ActsFor(sent[r]) = DbFromContext(ctx[r])
    BY DEF SameTenant
  <2>1. PICK own \in {<<>>, <<header[r]>>} : sent[r] = Do(own, Context(header[r]))
    BY DEF IInv, Routed
  <2>2. header[r] \in Headers /\ DbFromContext(ctx[r]) = Named(header[r])
    BY MineIs DEF IInv
  <2>3. ActsFor(sent[r]) = Named(header[r])
    BY <2>1, <2>2, CallNames
  <2>4. \A n \in DOMAIN sent[r] : sent[r][n] = header[r]
    BY <2>1, <2>2, CallNames
  <2> QED
    BY <2>2, <2>3, <2>4
<1> QED
  BY <1>1, ServerInvariance, PTL

\* The sets of a database change only at the hand of requests that name its tenant
\* (the store takes the database from the request's context in every operation).
THEOREM DatabasesApart == ServerSpec => OwnDatabaseOnly
<1> DEFINE Own ==
      \A r \in Reqs : pc'[r] # pc[r] =>
          \A a \in AuthIds : status'[a] # status[a] => a[1] = Named(header[r])
<1>1. IInv /\ [ServerNext]_allVars => (Own \/ UNCHANGED allVars)
  <2>0. Crash => Own
    BY DEF Crash
  <2> SUFFICES ASSUME IInv, NEW q \in Reqs, Step(q),
                      NEW r \in Reqs, pc'[r] # pc[r],
                      NEW a \in AuthIds, status'[a] # status[a]
               PROVE  a[1] = Named(header[r])
    BY <2>0 DEF ServerNext
  <2>1. Active(q) /\ a[1] = Named(header[q])
    BY StatusFields
  <2>2. q = r
    BY <2>1, StepFields DEF IInv, RequestsTypeOK, Go, Arrive, Active
  <2> QED
    BY <2>1, <2>2
<1>2. ServerSpec => [][Own]_allVars
  BY <1>1, ServerInvariance, PTL DEF ServerSpec
<1> QED
  BY <1>2 DEF OwnDatabaseOnly

\* Each tenant's sets keep to their life cycle, whatever other tenants' requests do:
\* the server implements AuthSetLifecycle.
THEOREM Refinement == ServerSpec => KeepsLifecycle
<1>1. ServerInit => Init
  BY DEF ServerInit
<1>2. IInv /\ [ServerNext]_allVars => [Next]_vars
  BY StepMaps DEF ServerNext, Crash, allVars, vars
<1> QED
  BY <1>1, <1>2, ServerInvariance, PTL DEF ServerSpec, KeepsLifecycle, Spec

\* So a set is accepted or rejected in a tenant's database only by a decision that
\* deviceauth carried out for that tenant, or by that tenant's operator's voucher.
THEOREM TenantAuthority == ServerSpec => []Authorised
BY Refinement, LifecycleAuthority, PTL DEF KeepsLifecycle
=============================================================================
