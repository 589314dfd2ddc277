----------------------- MODULE GuacamoleProvisioning -----------------------
(***************************************************************************)
(* How the server keeps the connection groups and connections of Guacamole *)
(* in step with its agents (guacamole/bridge.py, guacamole/mapping.py and  *)
(* the callers in services/deployment_service.py and api/routers).         *)
(*                                                                         *)
(* A call looks up or makes the agent's group, then a connection in it:    *)
(* the agent's own one (a deployment, a registry update, a plain session), *)
(* one per signed-in VM user (a session for a VM user), or a "(Recorded)"  *)
(* twin that records for the asking operator.  Every look, write and       *)
(* create is one REST call; calls of several requests interleave, and an   *)
(* administrator of Guacamole deletes and renames items in between.        *)
(*                                                                         *)
(* Guacamole, an external service, is the variable item: it numbers items  *)
(* with fresh identifiers, refuses a second item of one name under one     *)
(* parent and a child of a group that is gone, deletes a group with its    *)
(* connections, and may fail any call, also after it took effect.          *)
(*                                                                         *)
(* Data: a name is a tagged tuple, the body of a connection is the user it *)
(* logs in, the operator it records for and whether it lets files through. *)
(* The two reads of a connection (itself, its parameters) are one step.    *)
(* The user and session names that the candidate lists also hold name no   *)
(* group, and no connection but the user's own; they are left out.         *)
(***************************************************************************)
EXTENDS Naturals, FiniteSets, Sequences

CONSTANTS
    Agent,
    VmUser,      \* the users signed in on the agents' machines
    Operator,    \* the users of the server
    Request,     \* the requests of the server under way at once
    Call,        \* what a request may ask for
    MaxId,       \* bound: identifiers Guacamole gives out
    MaxCalls,    \* bound: requests made in all
    MaxFaults,   \* bound: calls of Guacamole that fail
    MaxAdmin,    \* bound: deletions and renames by Guacamole's administrator
    None

Id == 1..MaxId

Root == 0

ASSUME BoundsAssumption == {MaxId, MaxCalls, MaxFaults, MaxAdmin} \subseteq Nat

ASSUME NoneAssumption ==
    None \notin Agent \cup VmUser \cup Operator \cup Request \cup 0..MaxId

CallType == [kind : {"deploy", "patch", "plain", "user"}, agent : Agent,
             who : VmUser \cup {None}, owner : Operator \cup {None},
             recorded : BOOLEAN, files : BOOLEAN]

\* Only a session is recorded, a session for a VM user names the user, and only
\* a registry update brings a file transfer rule of its own.
ASSUME CallAssumption ==
    /\ Call \subseteq CallType
    /\ \A c \in Call : /\ c.recorded <=> c.owner # None
                       /\ c.recorded => c.kind \in {"plain", "user"}
                       /\ c.kind = "user" => c.who # None
                       /\ ~c.files => c.kind = "patch"

AgentId(a) == <<"id", a>>

Display(a) == <<"display", a>>

\* Every machine has the same host name: the hardest case for a look-up by name.
Host == <<"host">>

UserName(u) == <<"user", u>>

Recorded(n) == IF n[1] = "recorded" THEN n ELSE <<"recorded", n>>

\* An identifier in a list of candidates.
Number(i) == <<"number", i>>

\* The name Guacamole's administrator gives to an item.
Renamed(i) == <<"renamed", i>>

Name ==
    LET Plain == {Host} \cup {Renamed(i) : i \in Id} \cup {UserName(u) : u \in VmUser}
                 \cup {AgentId(a) : a \in Agent} \cup {Display(a) : a \in Agent}
    IN Plain \cup {Recorded(n) : n \in Plain}

Item == [kind : {"group", "conn"}, name : Name, parent : 0..MaxId,
         who : VmUser \cup {None}, owner : Operator \cup {None}, files : BOOLEAN]

VARIABLES
    item,     \* Guacamole: the item of each identifier, None before and after it
    next,     \* Guacamole: the next fresh identifier
    madeFor,  \* history: the agent the item of each identifier was made for
    count,    \* how many requests, faults and acts of the administrator there were
    stored,   \* metadata.guacamole of each agent's registry row, or None
    req       \* each request: its call, its mappings and where its upsert is;
              \* after its answer, until the next one takes its place, the answer

vars == <<item, next, madeFor, count, stored, req>>

Candidate == Name \cup {Number(i) : i \in Id}

Mapping == [gid : Id \cup {None}, gname : Name, cid : Id \cup {None}, cname : Name,
            gcands : Seq(Candidate), ccands : Seq(Candidate), files : BOOLEAN]

Stage == {"group", "main", "users", "regroup", "record", "serve"}

Point == {"find", "get", "refind", "reget", "put", "refind2", "reget2", "reput",
          "post", "lookup", "store", "over"}

Progress ==
    [call : CallType, map : Mapping, work : Mapping, stage : Stage, at : Point,
     id : Id \cup {None}, name : Name, payload : Item \cup {None},
     user : VmUser \cup {None}, left : SUBSET VmUser,
     answer : Id \cup {None}, calm : BOOLEAN]

\* None is nothing of what it is used beside.
ASSUME NoRecordAssumption ==
    /\ None \notin Item /\ None \notin Mapping /\ None \notin Progress
    /\ None \notin Candidate

TypeOK ==
    /\ item \in [Id -> Item \cup {None}]
    /\ next \in 1..(MaxId + 1)
    /\ madeFor \in [Id -> Agent \cup {None}]
    /\ count \in [calls : 0..MaxCalls, faults : 0..MaxFaults, admin : 0..MaxAdmin]
    /\ stored \in [Agent -> Mapping \cup {None}]
    /\ req \in [Request -> Progress \cup {None}]

Init ==
    /\ item = [i \in Id |-> None]
    /\ next = 1
    /\ madeFor = [i \in Id |-> None]
    /\ count = [calls |-> 0, faults |-> 0, admin |-> 0]
    /\ stored = [a \in Agent |-> None]
    /\ req = [r \in Request |-> None]

Live(kind) == {i \in Id : item[i] # None /\ item[i].kind = kind}

-----------------------------------------------------------------------------
(* Mappings *)

\* _unique_strings: the list without its empty entries and its duplicates.
Unique(s) ==
    LET Kept == {k \in DOMAIN s : s[k] # None /\ \A j \in 1..(k - 1) : s[j] # s[k]}
        Nth(n) == CHOOSE k \in Kept : Cardinality(Kept \cap 1..k) = n
    IN [n \in 1..Cardinality(Kept) |-> s[Nth(n)]]

NumberOf(id) == IF id = None THEN None ELSE Number(id)

\* build_agent_guacamole_mapping for a deployment that names neither group nor
\* connection: the group template is the display name, the connection's the host.
Derived(a) ==
    [gid |-> None, gname |-> Display(a), cid |-> None, cname |-> Host,
     gcands |-> <<Display(a), AgentId(a)>>,
     ccands |-> <<Host, Display(a), AgentId(a)>>, files |-> TRUE]

\* _extract_guacamole_mapping: a session goes by the agent's id as the name of
\* the group and by the stored identifiers, the stored candidates included.
Extracted(a) ==
    LET old == stored[a]
        Own == <<Host, Display(a), AgentId(a)>>
    IN IF old = None
       THEN [Derived(a) EXCEPT !.gname = AgentId(a), !.gcands = <<AgentId(a)>>]
       ELSE [gid |-> old.gid, gname |-> AgentId(a), cid |-> old.cid, cname |-> Host,
             gcands |-> Unique(<<AgentId(a)>> \o old.gcands),
             ccands |-> Unique(old.ccands \o <<NumberOf(old.cid)>> \o Own),
             files |-> TRUE]

\* A deployment works on a derived mapping, a registry update on the stored one
\* with the new access policy, a session on an extract (_resolve_target).
MappingFor(c) ==
    CASE c.kind = "deploy" -> Derived(c.agent)
      [] c.kind = "patch" -> [stored[c.agent] EXCEPT !.files = c.files]
      [] OTHER -> Extracted(c.agent)

\* _extract_vm_user_session_entries, and of each user's sessions the best one:
\* a connection is kept for every user signed in.
SignedIn == VmUser

\* The end of provision_guacamole_agent_target_with_diagnostics.
Provisioned(m, a, id, name) ==
    [m EXCEPT !.cid = id, !.cname = name,
              !.gcands = Unique(@ \o <<m.gname, AgentId(a)>>),
              !.ccands = Unique(@ \o <<Number(id), name, Host, AgentId(a)>>)]

-----------------------------------------------------------------------------
(* What an upsert works with, by the stage of its request *)

WantsGroup(q) == q.stage \in {"group", "regroup"}

\* A regroup and a recording use the session's mapping, the rest a copy of it.
InUse(q) == IF q.stage \in {"regroup", "record"} THEN q.map ELSE q.work

\* The identifier the mapping brings; a user's connection and the recorded one
\* are always looked up by name.
GivenId(q) ==
    CASE WantsGroup(q) -> InUse(q).gid
      [] q.stage = "main" -> q.work.cid
      [] OTHER -> None

GivenName(q) ==
    CASE WantsGroup(q) -> InUse(q).gname
      [] q.stage = "main" -> q.work.cname
      [] q.stage = "users" -> UserName(q.user)
      [] q.stage = "record" -> Recorded(q.map.cname)

Candidates(q) ==
    CASE WantsGroup(q) -> InUse(q).gcands
      [] q.stage = "main" -> q.work.ccands
      [] OTHER -> <<GivenName(q)>>

\* Faulty: the parent is not looked at.
ResolveAnywhere(kind, candidates, parent) ==
    {i \in Live(kind) : \E k \in DOMAIN candidates : candidates[k] = item[i].name}

\* _resolve_connection_group_identifier, _resolve_connection_identifier: what
\* the first candidate that is an identifier or a name of an item stands for.
Resolve(kind, candidates, parent) ==
    LET Inside == {i \in Live(kind) : parent = None \/ item[i].parent = parent}
        Hit(k) == {i \in Inside : candidates[k] \in {Number(i), item[i].name}}
        First == {k \in DOMAIN candidates :
                     Hit(k) # {} /\ \A j \in 1..(k - 1) : Hit(j) = {}}
    IN UNION {Hit(k) : k \in First}

\* Faulty: an upsert looks for its connection in every group.
LookupAnywhere(q, candidates) ==
    Resolve(IF WantsGroup(q) THEN "group" ELSE "conn", candidates, None)

Lookup(q, candidates) ==
    IF WantsGroup(q) THEN Resolve("group", candidates, None)
    ELSE Resolve("conn", candidates, InUse(q).gid)

\* _build_guacamole_group_payload: the group keeps its name and its parent.
GroupPayload(q, name, seen) ==
    [kind |-> "group", name |-> name,
     parent |-> IF seen = None THEN Root ELSE seen.parent,
     who |-> None, owner |-> None, files |-> TRUE]

\* Faulty: the connection goes under the root group.
ConnPayloadAtRoot(q, name, seen) ==
    [kind |-> "conn", name |-> name, parent |-> Root, who |-> q.call.who,
     owner |-> IF q.stage = "record" THEN q.call.owner ELSE None,
     files |-> InUse(q).files]

\* _build_guacamole_connection_payload: the connection goes under the group of
\* the mapping, keeps its user when the mapping names none, and records only in
\* the stage that records.  Files are let through unless the mapping brings an
\* access policy that says otherwise, which only a registry update's does.
ConnPayload(q, name, seen) ==
    LET who == IF q.stage = "users" THEN q.user ELSE q.call.who
        group == InUse(q).gid
    IN [kind |-> "conn", name |-> name,
        parent |-> IF group = None THEN Root ELSE group,
        who |-> IF who = None /\ seen # None THEN seen.who ELSE who,
        owner |-> IF q.stage = "record" THEN q.call.owner ELSE None,
        files |-> InUse(q).files]

Payload(q, name, seen) ==
    IF WantsGroup(q) THEN GroupPayload(q, name, seen) ELSE ConnPayload(q, name, seen)

\* _group_payload_matches, _connection_payload_matches.
PayloadMatches(p, existing) == p = existing

-----------------------------------------------------------------------------
(* From one upsert to the next *)

Start(q, stage) ==
    [q EXCEPT !.stage = stage, !.at = "find", !.id = None,
              !.payload = None, !.name = Host]

\* After the reconciliation: the recorded twin, or the last look-up.
Serve(q) ==
    IF q.call.recorded THEN Start(q, "regroup")
    ELSE [q EXCEPT !.stage = "serve", !.at = "lookup"]

\* list_vm_user_sessions goes over the signed-in users, in any order.
NextUser(q) ==
    {Start([q EXCEPT !.user = u, !.left = @ \ {u}], "users") : u \in q.left}

\* The matched entry of create_guacamole_client_session.
Matched(q) ==
    [q EXCEPT !.map.gid = q.work.gid, !.map.gname = q.work.gname,
              !.map.cid = q.work.cid, !.map.cname = q.work.cname]

\* The request is answered; what it worked with is gone.
Over(q, answer) ==
    [q EXCEPT !.at = "over", !.answer = answer, !.work = q.map, !.id = None,
              !.payload = None, !.name = Host, !.user = None, !.left = {},
              !.calm = FALSE]

\* The upsert returned id and name.
Finished(q, id, name) ==
    CASE q.stage = "group" ->
           LET p == [q EXCEPT !.work.gid = id, !.work.gname = name]
           IN IF q.call.kind = "user" THEN NextUser(p) ELSE {Start(p, "main")}
      [] q.stage = "main" ->
           LET m == Provisioned(q.work, q.call.agent, id, name)
           IN IF q.call.kind = "plain" THEN {Serve([q EXCEPT !.map = m])}
              ELSE {[q EXCEPT !.work = m, !.at = "store"]}
      [] q.stage = "users" ->
           LET p == IF q.user = q.call.who
                    THEN [q EXCEPT !.work.cid = id, !.work.cname = name] ELSE q
           IN IF q.left = {} THEN {Serve(Matched(p))} ELSE NextUser(p)
      [] q.stage = "regroup" ->
           {Start([q EXCEPT !.map.gid = id, !.map.gname = name], "record")}
      [] q.stage = "record" -> {Over(q, id)}

\* A call was refused or failed.  A session goes on with the mapping it had,
\* unless it was to be recorded by now, and without the last look-up it answers
\* what the mapping says; a deployment and a registry update end.
Failed(q) ==
    CASE q.stage \in {"group", "main", "users"} /\ q.call.kind \in {"plain", "user"} ->
           Serve(q)
      [] q.stage = "serve" -> Over(q, q.map.cid)
      [] OTHER -> Over(q, None)

\* Another actor changed Guacamole: no other request is calm any more.
Disturbed(r) == [s \in Request |-> IF s # r /\ req[s] # None
                                   THEN [req[s] EXCEPT !.calm = FALSE] ELSE req[s]]

Goes(r, q) == req' = [req EXCEPT ![r] = q]

Keep == UNCHANGED <<item, next, madeFor, count, stored>>

-----------------------------------------------------------------------------
(* The REST calls of an upsert *)

At(r, points) == req[r] # None /\ req[r].at \in points

\* Nothing was found: the item is to be made.
Create(q, name) == [q EXCEPT !.at = "post", !.id = None, !.name = name,
                             !.payload = Payload(q, name, None)]

Find(r) ==
    LET q == req[r]
        name == GivenName(q)
        hits == Lookup(q, Candidates(q))
    IN /\ At(r, {"find"})
       /\ \/ /\ GivenId(q) # None
             /\ Goes(r, [q EXCEPT !.id = GivenId(q), !.name = name, !.at = "get"])
          \/ /\ GivenId(q) = None
             /\ \E i \in hits :
                   Goes(r, [q EXCEPT !.id = i, !.name = item[i].name, !.at = "get"])
          \/ /\ GivenId(q) = None /\ hits = {}
             /\ Goes(r, Create(q, name))
       /\ Keep

\* Faulty: the name of the mapping is written over the item's.
ReadKeepsName(q) ==
    LET seen == item[q.id]
        payload == Payload(q, GivenName(q), seen)
    IN IF PayloadMatches(payload, seen) THEN Finished(q, q.id, seen.name)
       ELSE {[q EXCEPT !.at = "put", !.payload = payload]}

\* The item was read: its name is adopted, and nothing is written when it
\* already says what the payload says.
Read(q) ==
    LET seen == item[q.id]
        payload == Payload(q, seen.name, seen)
    IN IF PayloadMatches(payload, seen) THEN Finished(q, q.id, seen.name)
       ELSE {[q EXCEPT !.at = "put", !.name = seen.name, !.payload = payload]}

Get(r) ==
    LET q == req[r]
    IN /\ At(r, {"get", "reget"})
       /\ IF item[q.id] # None THEN \E p \in Read(q) : Goes(r, p)
          ELSE Goes(r, IF q.at = "get" THEN [q EXCEPT !.at = "refind"] ELSE Failed(q))
       /\ Keep

\* The identifier is stale: the candidates and the name are looked up instead.
\* After a refused write the payload stays what it was.
Refind(r) ==
    LET q == req[r]
        hits == Lookup(q, Append(Candidates(q), q.name))
    IN /\ At(r, {"refind", "refind2"})
       /\ \/ \E i \in hits :
                Goes(r, [q EXCEPT !.id = i, !.name = item[i].name,
                                  !.at = IF q.at = "refind" THEN "reget" ELSE "reget2"])
          \/ /\ hits = {}
             /\ Goes(r, IF q.at = "refind" THEN Create(q, q.name)
                        ELSE [q EXCEPT !.at = "post", !.id = None])
       /\ Keep

\* The second look of an upsert whose write was refused.
GetAgain(r) ==
    LET q == req[r]
    IN /\ At(r, {"reget2"})
       /\ IF item[q.id] = None THEN Goes(r, Failed(q))
          ELSE IF PayloadMatches(q.payload, item[q.id])
               THEN \E p \in Finished(q, q.id, q.name) : Goes(r, p)
               ELSE Goes(r, [q EXCEPT !.at = "reput"])
       /\ Keep

\* Guacamole refuses a second item of one name in a group, and a group that is gone.
Refused(p, id) ==
    \/ \E i \in Live(p.kind) \ {id} : item[i].name = p.name /\ item[i].parent = p.parent
    \/ p.parent # Root /\ item[p.parent] = None

Put(r) ==
    LET q == req[r]
    IN /\ At(r, {"put", "reput"})
       /\ IF item[q.id] = None
          THEN /\ Goes(r, IF q.at = "put" THEN [q EXCEPT !.at = "refind2"] ELSE Failed(q))
               /\ Keep
          ELSE IF Refused(q.payload, q.id)
          THEN Goes(r, Failed(q)) /\ Keep
          ELSE /\ item' = [item EXCEPT ![q.id] = q.payload]
               /\ \E p \in Finished(q, q.id, q.name) :
                     req' = [Disturbed(r) EXCEPT ![r] = p]
               /\ UNCHANGED <<next, madeFor, count, stored>>

Fault ==
    /\ count.faults < MaxFaults
    /\ count' = [count EXCEPT !.faults = @ + 1]

\* The item is made, whether or not the answer arrives.
Post(r) ==
    LET q == req[r]
    IN /\ At(r, {"post"})
       /\ IF Refused(q.payload, None)
          THEN Goes(r, Failed(q)) /\ Keep
          ELSE /\ next <= MaxId
               /\ item' = [item EXCEPT ![next] = q.payload]
               /\ next' = next + 1
               /\ madeFor' = [madeFor EXCEPT ![next] = q.call.agent]
               /\ \/ /\ \E p \in Finished(q, next, q.name) :
                            req' = [Disturbed(r) EXCEPT ![r] = p]
                     /\ UNCHANGED count
                  \/ /\ Fault
                     /\ req' = [Disturbed(r) EXCEPT ![r] = [Failed(q) EXCEPT !.calm = FALSE]]
               /\ UNCHANGED stored

\* Any other call of Guacamole fails.  A session that gets no token in the end
\* is answered without a connection.
CallFails(r) ==
    /\ At(r, Point \ {"store", "over"})
    /\ Fault
    /\ \/ Goes(r, [Failed(req[r]) EXCEPT !.calm = FALSE])
       \/ req[r].stage = "serve" /\ Goes(r, Over(req[r], None))
    /\ UNCHANGED <<item, next, madeFor, stored>>

-----------------------------------------------------------------------------
(* The requests *)

Fits(i, who, owner, files) ==
    who \in {None, item[i].who} /\ item[i].owner = owner /\ item[i].files = files

ConnsIn(g) == {i \in Live("conn") : item[i].parent = g}

\* In the group g: the agent's own connection, a user's, and the twin of the one
\* called name that records for the operator, each as the call wants it.
MainIn(g, c, m) ==
    {i \in ConnsIn(g) : /\ IF m.cid # None THEN i = m.cid ELSE item[i].name = m.ccands[1]
                        /\ Fits(i, c.who, None, m.files)}

OwnIn(g, u) == {i \in ConnsIn(g) : item[i].name = UserName(u) /\ Fits(i, u, None, TRUE)}

TwinIn(g, c, name) ==
    {i \in ConnsIn(g) : item[i].name = Recorded(name) /\ Fits(i, c.who, c.owner, TRUE)}

KeptIn(g, c, m) ==
    /\ c.kind = "user" => \A u \in SignedIn : OwnIn(g, u) # {}
    /\ \E i \in IF c.kind = "user" THEN OwnIn(g, c.who) ELSE MainIn(g, c, m) :
          c.recorded => TwinIn(g, c, item[i].name) # {}

\* What a request finds in place: the group of its mapping, and in it every
\* connection it is to keep, each as the request wants it.
GroupOf(m) ==
    {g \in Live("group") : IF m.gid # None THEN g = m.gid ELSE item[g].name = m.gcands[1]}

InPlace(c, m) == \E g \in GroupOf(m) : KeptIn(g, c, m)

\* A registry update stores the new access policy first.
Begin(r) ==
    /\ req[r] = None \/ At(r, {"over"})
    /\ count.calls < MaxCalls
    /\ count' = [count EXCEPT !.calls = @ + 1]
    /\ \E c \in Call :
          LET a == c.agent
              m == MappingFor(c)
          IN /\ c.kind = "patch" => stored[a] # None
             /\ stored' = IF c.kind = "patch" THEN [stored EXCEPT ![a] = m] ELSE stored
             /\ Goes(r, [call |-> c, map |-> m, work |-> m, stage |-> "group",
                         at |-> "find", id |-> None, name |-> Host, payload |-> None,
                         user |-> None, left |-> SignedIn, answer |-> None,
                         calm |-> InPlace(c, m)])
    /\ UNCHANGED <<item, next, madeFor>>

\* The new mapping goes into the agent's row; upsert_agent merges it, so that a
\* deployment leaves the access policy alone.
Store(r) ==
    LET q == req[r]
        a == q.call.agent
        old == stored[a]
    IN /\ At(r, {"store"})
       /\ stored' = [stored EXCEPT ![a] =
                        IF q.call.kind = "deploy" /\ old # None
                        THEN [q.work EXCEPT !.files = old.files] ELSE q.work]
       /\ Goes(r, Over(q, None))
       /\ UNCHANGED <<item, next, madeFor, count>>

\* The last look-up of a session: in the agent's group (its id, or by name) the
\* agent's candidates first, then what the session is for.
ServeSession(r) ==
    LET q == req[r]
        m == q.map
        groups == IF m.gid # None THEN {m.gid} ELSE Resolve("group", m.gcands, None)
        group == IF groups = {} THEN None ELSE CHOOSE g \in groups : TRUE
        candidates == Unique(m.ccands \o <<NumberOf(m.cid), m.cname, Host,
                                           AgentId(q.call.agent)>>)
        hits == Resolve("conn", candidates, group)
    IN /\ At(r, {"lookup"})
       /\ \E i \in IF hits = {} THEN {None} ELSE hits :
             Goes(r, Over(q, i))
       /\ Keep

-----------------------------------------------------------------------------
(* Guacamole's administrator *)

Delete(i) ==
    /\ item[i] # None
    /\ item' = [k \in Id |-> IF k = i \/ (item[k] # None /\ item[k].parent = i)
                             THEN None ELSE item[k]]

Rename(i) ==
    /\ item[i] # None /\ item[i].name # Renamed(i)
    /\ ~Refused([item[i] EXCEPT !.name = Renamed(i)], i)
    /\ item' = [item EXCEPT ![i].name = Renamed(i)]

AdminActs ==
    /\ count.admin < MaxAdmin
    /\ count' = [count EXCEPT !.admin = @ + 1]
    /\ \E i \in Id : Delete(i) \/ Rename(i)
    /\ req' = Disturbed(None)
    /\ UNCHANGED <<next, madeFor, stored>>

-----------------------------------------------------------------------------

Step(r) ==
    \/ Begin(r) \/ Find(r) \/ Get(r) \/ Refind(r) \/ GetAgain(r) \/ Put(r)
    \/ Post(r) \/ CallFails(r) \/ Store(r) \/ ServeSession(r)

Next == AdminActs \/ \E r \in Request : Step(r)

Spec == Init /\ [][Next]_vars

-----------------------------------------------------------------------------
(* Properties *)

\* Provisioning is idempotent: a request that finds in Guacamole everything it
\* is to keep, and meets neither a failure nor another writer, only reads; it
\* makes no second item and writes nothing (the "reused" answers of
\* _upsert_guacamole_group and _upsert_guacamole_connection).
InPlaceIsReused ==
    \A r \in Request :
        At(r, {"put", "reput", "post", "refind", "refind2"}) => ~req[r].calm

\* Agents do not get into each other's way, though their machines may share a
\* host name: only requests for its own agent change an item.
OwnItemsOnly ==
    [][\A i \in Id :
          item[i] # None /\ item'[i] # None /\ item'[i] # item[i] =>
             \/ count'.admin # count.admin
             \/ \E r \in Request : req'[r] # req[r] /\ req[r].call.agent = madeFor[i]]_vars

\* A session of an agent whose group is known is never answered with another
\* agent's connection.  (Without a group, the look-up is not confined to one.)
AnswerIsOwn ==
    \A r \in Request :
        /\ req[r] # None /\ req[r].answer # None /\ req[r].map.gid # None
        /\ item[req[r].answer] # None
        => madeFor[req[r].answer] = req[r].call.agent

\* However requests and the administrator interleave, the connection an agent's
\* row names, as long as it exists, lies in the group the row names.
StoredPairFits ==
    \A a \in Agent :
        stored[a] # None /\ stored[a].cid # None /\ item[stored[a].cid] # None =>
            item[stored[a].cid].parent = stored[a].gid

\* What requests leave behind, in Guacamole and in the agents' rows, is well formed:
\* typed, and every row's group and connection a pair (upsert_agent after
\* provisioning).
StoredOK == TypeOK /\ StoredPairFits
=============================================================================
