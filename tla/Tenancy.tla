------------------------------- MODULE Tenancy -------------------------------
(***************************************************************************)
(* Requests of several tenants to one server.  The token in a request's    *)
(* Authorization header decides twice whose sets it is about: here, where  *)
(* the middleware puts the tenant into the request's context and the store *)
(* takes the name of the database from there, and in deviceauth, to which  *)
(* calls carry the header on, some of them by way of the context.  What    *)
(* becomes of the sets is told in terms of AuthSetLifecycle, where a set is*)
(* now an id in a database: two tenants may use the same id.               *)
(***************************************************************************)
EXTENDS AuthSetLifecycle, Sequences

CONSTANTS
    Reqs,        \* requests
    Tenants,     \* tenants, and their databases
    DefaultDb,   \* the database of requests without a tenant
    Ids,         \* ids of authentication sets
    Offered,     \* the operations that clients ask for
    None,        \* no header, no identity
    Garbage      \* a header without a token that can be read

Dbs == Tenants \cup {DefaultDb}

ASSUME SetsOfDatabases == AuthIds = Dbs \X Ids

\* The id that a preauthorization r draws is called r.
ASSUME DrawnIds == Reqs \subseteq Ids

ASSUME HeaderValues == None # Garbage /\ {None, Garbage} \cap Dbs = {}

VARIABLES
    pc,          \* pc[r]: the phase of request r
    req,         \* req[r]: its operation, the set's id and the status it asks for
    header,      \* header[r]: its Authorization header; a token is its tenant
    ctx,         \* ctx[r]: the context that the middleware made for it
    call,        \* call[r]: its call to deviceauth, as deviceauth sees it
    sent         \* sent[r]: the Authorization headers of that call

reqVars == <<pc, req, header, ctx, call, sent>>

allVars == <<status, told, vouched, pc, req, header, ctx, call, sent>>

Headers == Dbs \cup {None, Garbage}

Ops == {"submit", "update", "acceptPreauth", "delete", "deleteInternal", "deleteByDevice",
        "preauthorize"}

ASSUME OfferedOps == Offered \subseteq Ops

RequestsTypeOK ==
    /\ TypeOK
    /\ pc \in [Reqs -> {"idle", "check", "wait", "write", "done"}]
    /\ req \in [Reqs -> [op : Ops \cup {None}, id : Ids \cup {None},
                         to : Decided \cup {None}]]
    /\ header \in [Reqs -> Headers]
    /\ ctx \in [Reqs -> [auth : Seq(Headers), identity : Dbs \cup {None}]]
    /\ call \in [Reqs -> {"none", "sent", "ok", "failed"}]
    /\ sent \in [Reqs -> Seq(Headers)]

ServerInit ==
    /\ Init
    /\ pc = [r \in Reqs |-> "idle"]
    /\ req = [r \in Reqs |-> [op |-> None, id |-> None, to |-> None]]
    /\ header = [r \in Reqs |-> None]
    /\ ctx = [r \in Reqs |-> [auth |-> <<>>, identity |-> None]]
    /\ call = [r \in Reqs |-> "none"]
    /\ sent = [r \in Reqs |-> <<>>]

-----------------------------------------------------------------------------
(* Headers and contexts.                                                   *)

\* Wrong: takes any header for a token.
ExtractIdentityAny(h) == h

\* A token without the claim of a tenant stands for the default database.
ExtractIdentity(h) == IF h \in Dbs THEN h ELSE None

\* A header that is missing is not kept.
WithContext(h) == IF h = None THEN <<>> ELSE <<h>>

\* Wrong: the header is not kept.
ContextBare(h) == [auth |-> <<>>, identity |-> ExtractIdentity(h)]

\* UpdateContextMiddleware and IdentityMiddleware.  A request whose header has no
\* identity is let in without one.
Context(h) == [auth |-> WithContext(h), identity |-> ExtractIdentity(h)]

\* Wrong: the same for everyone.
DbFromContextSole(c) == DefaultDb

DbFromContext(c) == IF c.identity = None THEN DefaultDb ELSE c.identity

\* HttpApi.Do adds the header from the context to those that the call has.
Do(own, c) == own \o c.auth

\* deviceauth looks at the first Authorization header, if there is any.
ActsFor(hs) == IF hs = <<>> THEN DefaultDb ELSE DbFromContext(Context(hs[1]))

-----------------------------------------------------------------------------
(* Requests.                                                               *)

\* The set that r is about.
Mine(r) == <<DbFromContext(ctx[r]), req[r].id>>

Found(r) == status[Mine(r)] # Unset

At(r, op, phase) == pc[r] = phase /\ req[r].op = op

Go(r, phase) == pc' = [pc EXCEPT ![r] = phase]

\* An answer of the middleware or the router: a preflight, a content type, a path, a
\* method, or the methods of a path.
TurnedAway(r) ==
    /\ pc[r] = "idle"
    /\ Go(r, "done")
    /\ UNCHANGED <<status, told, vouched, req, header, ctx, call, sent>>

\* A drawn id is known once its set has been inserted.
KnownIds == {i \in Ids : i \in Reqs => \E d \in Dbs : <<d, i>> \in vouched}

\* The ids that a request for op may be about.
AskedIds(r, op) ==
    CASE op = "preauthorize" -> {r}
      [] op = "deleteByDevice" -> {None}
      [] OTHER -> KnownIds

Arrive(r) ==
    /\ pc[r] = "idle"
    /\ Go(r, "check")
    /\ \E h \in Headers :
          /\ header' = [header EXCEPT ![r] = h]
          /\ ctx' = [ctx EXCEPT ![r] = Context(h)]
    /\ \E op \in Offered : \E i \in AskedIds(r, op), s \in Decided :
          req' = [req EXCEPT ![r] =
                    [op |-> op, id |-> i, to |-> IF op = "update" THEN s ELSE None]]
    /\ UNCHANGED <<status, told, vouched, call, sent>>

\* An error, a conflict, a set that is not there, a call that was refused or took too
\* long; deviceauth may carry a call out afterwards.
End(r) ==
    /\ pc[r] \in {"check", "wait", "write"}
    /\ Go(r, "done")
    /\ UNCHANGED <<status, told, vouched, req, header, ctx, call, sent>>

\* The request writes s as the status of its set, and ends.
Put(r, s) ==
    /\ status' = [status EXCEPT ![Mine(r)] = s]
    /\ Go(r, "done")
    /\ UNCHANGED <<told, req, header, ctx, call, sent>>

\* The request calls deviceauth with its own headers and those of the context.
Propagate(r, own) ==
    /\ Go(r, "wait")
    /\ call' = [call EXCEPT ![r] = "sent"]
    /\ sent' = [sent EXCEPT ![r] = Do(own, ctx[r])]
    /\ UNCHANGED <<told, req, header, ctx>>

SubmitDeviceAuth(r) ==
    At(r, "submit", "check") /\ Put(r, "pending") /\ UNCHANGED vouched

UpdateStatusPropagate(r) ==
    /\ At(r, "update", "check") /\ Found(r)
    /\ Propagate(r, <<>>)
    /\ UNCHANGED <<status, vouched>>

\* Wrong: does not wait for the answer.
UpdateStatusPutSoon(r) ==
    At(r, "update", "wait") /\ Put(r, req[r].to) /\ UNCHANGED vouched

UpdateStatusPut(r) ==
    At(r, "update", "wait") /\ call[r] = "ok" /\ Put(r, req[r].to) /\ UNCHANGED vouched

DeletePropagate(r) ==
    /\ At(r, "delete", "check") /\ Found(r)
    /\ Propagate(r, <<header[r]>>)
    /\ UNCHANGED <<status, vouched>>

\* The internal API deletes without asking deviceauth.
DeleteDeviceAuth(r) ==
    /\ \/ At(r, "deleteInternal", "check")
       \/ At(r, "delete", "wait") /\ call[r] = "ok"
    /\ Put(r, Unset)
    /\ UNCHANGED vouched

\* The sets of a device, which may be any.
DeleteDeviceData(r) ==
    /\ At(r, "deleteByDevice", "check")
    /\ \E ids \in SUBSET Ids :
          status' = [a \in AuthIds |->
                        IF a \in {DbFromContext(ctx[r])} \X ids THEN Unset ELSE status[a]]
    /\ Go(r, "done")
    /\ UNCHANGED <<told, vouched, req, header, ctx, call, sent>>

AcceptPreAuthCheck(r) ==
    /\ At(r, "acceptPreauth", "check") /\ status[Mine(r)] = "preauthorized"
    /\ Go(r, "write")
    /\ UNCHANGED <<status, told, vouched, req, header, ctx, call, sent>>

AcceptPreAuthUpdate(r) ==
    At(r, "acceptPreauth", "write") /\ Found(r) /\ Put(r, "accepted") /\ UNCHANGED vouched

\* A set in the same database is a conflict (End); otherwise one is inserted, and
\* deviceauth is told unless the insertion fails.
PreauthorizeDevice(r) ==
    /\ At(r, "preauthorize", "check")
    /\ vouched' = vouched \cup {Mine(r)}
    /\ LET after == [status EXCEPT ![Mine(r)] = "preauthorized"]
       IN \/ status' = after /\ Propagate(r, <<header[r]>>)
          \/ /\ status' \in {status, after}
             /\ Go(r, "done")
             /\ UNCHANGED <<told, req, header, ctx, call, sent>>

\* deviceauth carries a call out for the tenant of its header.
DevauthApply(r) ==
    /\ call[r] = "sent"
    /\ call' = [call EXCEPT ![r] = "ok"]
    /\ told' = IF req[r].op # "update" THEN told
               ELSE [told EXCEPT ![<<ActsFor(sent[r]), req[r].id>>] = @ \cup {req[r].to}]
    /\ UNCHANGED <<status, vouched, pc, req, header, ctx, sent>>

DevauthRefuse(r) ==
    /\ call[r] = "sent"
    /\ call' = [call EXCEPT ![r] = "failed"]
    /\ UNCHANGED <<status, told, vouched, pc, req, header, ctx, sent>>

\* The process stops, and its handlers with it.
Crash ==
    /\ pc' = [r \in Reqs |-> IF pc[r] = "idle" THEN "idle" ELSE "done"]
    /\ UNCHANGED <<status, told, vouched, req, header, ctx, call, sent>>

Step(r) ==
    \/ TurnedAway(r) \/ Arrive(r) \/ End(r)
    \/ SubmitDeviceAuth(r)
    \/ UpdateStatusPropagate(r) \/ UpdateStatusPut(r)
    \/ DeletePropagate(r) \/ DeleteDeviceAuth(r) \/ DeleteDeviceData(r)
    \/ AcceptPreAuthCheck(r) \/ AcceptPreAuthUpdate(r)
    \/ PreauthorizeDevice(r)
    \/ DevauthApply(r) \/ DevauthRefuse(r)

ServerNext == (\E r \in Reqs : Step(r)) \/ Crash

ServerSpec == ServerInit /\ [][ServerNext]_allVars

-----------------------------------------------------------------------------
(* Properties.                                                             *)

\* The tenant that a header names.
Named(h) == IF h \in Tenants THEN h ELSE DefaultDb

\* A call to deviceauth carries the header of the request that makes it and no other,
\* so that deviceauth acts for the tenant whose database the request works on,
\* whichever way the header takes.
SameTenant ==
    \A r \in Reqs : call[r] # "none" =>
        /\ \A n \in DOMAIN sent[r] : sent[r][n] = header[r]
        /\ ActsFor(sent[r]) = DbFromContext(ctx[r])

\* The sets of a database change only at the hand of requests that name its tenant;
\* a set of another tenant with the same id is not concerned.
OwnDatabaseOnly ==
    [][\A r \in Reqs : pc'[r] # pc[r] =>
          \A a \in AuthIds : status'[a] # status[a] => a[1] = Named(header[r])]_allVars

\* Each tenant's sets keep to their life cycle: a decision recorded in a tenant's
\* database is one that deviceauth carried out for that tenant.
KeepsLifecycle == Spec
=============================================================================
