-------------------- MODULE GuacamoleProvisioningProofs --------------------
(***************************************************************************)
(* The properties of GuacamoleProvisioning.                                *)
(***************************************************************************)
EXTENDS GuacamoleProvisioning, FiniteSetTheorems, WellFoundedInduction, TLAPS

-----------------------------------------------------------------------------
(* Merged lists.                                                           *)

\* A set of natural numbers has a least one.
LEMMA LeastNat ==
    ASSUME NEW T, T \subseteq Nat, T # {}
    PROVE  \E x \in T : \A y \in T : x <= y
  <1> DEFINE R == StrictSubsetOrdering(Nat)
             Down(x) == 1..x
             D == {Down(x) : x \in T}
  <1>1. D \subseteq FiniteSubsetsOf(Nat) /\ D # {}
    <2>1. ASSUME NEW x \in T PROVE Down(x) \in FiniteSubsetsOf(Nat)
      <3>1. x \in Int /\ 1 \in Int
        OBVIOUS
      <3>2. IsFiniteSet(1..x)
        BY ONLY <3>1, FS_Interval
      <3>3. 1..x \in SUBSET Nat
        OBVIOUS
      <3> QED
        BY <3>2, <3>3 DEF FiniteSubsetsOf
    <2> QED
      BY <2>1
  <1>2. IsWellFoundedOn(R, FiniteSubsetsOf(Nat))
    BY FS_StrictSubsetOrderingWellFounded
  <1>3. \E d \in D : \A e \in D : ~(<<e, d>> \in R)
    <2> HIDE DEF R, D
    <2> QED
      BY <1>1, <1>2, WFMin
  <1>4. PICK x \in T : \A e \in D : ~(<<e, Down(x)>> \in R)
    <2> HIDE DEF R
    <2> QED
      BY <1>3
  <1>5. ASSUME NEW y \in T PROVE x <= y
    <2>1. SUFFICES ASSUME y < x PROVE FALSE
      OBVIOUS
    <2>2. /\ Down(y) \in SUBSET Nat /\ Down(x) \in SUBSET Nat
          /\ Down(y) \subseteq Down(x) /\ Down(y) # Down(x)
      <3>1. x \in Down(x) /\ x \notin Down(y)
        BY <2>1
      <3> QED
        BY <2>1, <3>1
    <2>3. <<Down(y), Down(x)>> \in R
      <3> HIDE DEF Down
      <3> QED
        BY <2>2 DEF StrictSubsetOrdering
    <2> QED
      BY <2>3, <1>4
  <1> QED
    BY <1>5

\* Of a finite set of positions one is the n-th.
LEMMA NthExists ==
    ASSUME NEW len \in Nat, NEW K, K \subseteq 1..len, NEW n \in 1..Cardinality(K)
    PROVE  \E k \in K : Cardinality(K \cap 1..k) = n
  <1> DEFINE Size(k) == Cardinality(K \cap 1..k)
             T == {k \in Nat : Size(k) >= n}
  <1>1. /\ IsFiniteSet(K) /\ Cardinality(K) \in Nat
        /\ \A k \in Nat : IsFiniteSet(K \cap 1..k) /\ Size(k) \in Nat
    <2>1. IsFiniteSet(1..len)
      BY FS_Interval
    <2>2. IsFiniteSet(K)
      BY <2>1, FS_Subset
    <2>3. ASSUME NEW k \in Nat PROVE IsFiniteSet(K \cap 1..k)
      BY <2>2, FS_Subset
    <2> QED
      BY <2>2, <2>3, FS_CardinalityType
  <1>2. K \cap 1..len = K
    OBVIOUS
  <1>3. len \in T
    BY <1>1, <1>2
  <1>4. PICK k \in T : \A y \in T : k <= y
    <2> HIDE DEF T
    <2>1. T \subseteq Nat
      BY DEF T
    <2> QED
      BY <1>3, <2>1, LeastNat
  <1>5. k # 0
    <2>1. K \cap 1..0 = {}
      OBVIOUS
    <2>2. Size(0) = 0
      BY <2>1, FS_EmptySet
    <2> QED
      BY <2>2, <1>1
  <1>6. k - 1 \in Nat /\ ~(Size(k - 1) >= n)
    BY <1>4, <1>5
  <1>7. k \in K
    <2>1. SUFFICES ASSUME k \notin K PROVE FALSE
      OBVIOUS
    <2>2. K \cap 1..k = K \cap 1..(k - 1)
      BY <2>1, <1>5
    <2> QED
      BY <2>2, <1>4, <1>6
  <1>8. Size(k) = Size(k - 1) + 1
    <2>1. K \cap 1..k = (K \cap 1..(k - 1)) \cup {k}
      BY <1>5, <1>7
    <2>2. k \notin K \cap 1..(k - 1)
      OBVIOUS
    <2>3. IsFiniteSet(K \cap 1..(k - 1))
      BY <1>1, <1>6
    <2> QED
      BY <2>1, <2>2, <2>3, FS_AddElement
  <1>9. Size(k) = n
    <2>1. Size(k) \in Nat /\ Size(k - 1) \in Nat /\ n \in Nat /\ Size(k) >= n
      <3>1. k \in Nat /\ Size(k) >= n
        OBVIOUS
      <3>2. n \in Nat
        BY <1>1
      <3> HIDE DEF Size, T
      <3> QED
        BY <3>1, <3>2, <1>1, <1>6
    <2> HIDE DEF Size, T
    <2> QED
      BY <2>1, <1>6, <1>8
  <1> QED
    BY <1>7, <1>9

\* A merged list holds entries of the list it is made from, and no empty ones.
LEMMA UniqueEntries ==
    ASSUME NEW S, None \notin S, NEW s \in Seq(S \cup {None})
    PROVE  /\ Unique(s) \in Seq(S)
           /\ \A n \in DOMAIN Unique(s) : \E k \in DOMAIN s : s[k] # None /\ Unique(s)[n] = s[k]
  <1> DEFINE Kept == {k \in DOMAIN s : s[k] # None /\ \A j \in 1..(k - 1) : s[j] # s[k]}
             Nth(n) == CHOOSE k \in Kept : Cardinality(Kept \cap 1..k) = n
  <1>1. Unique(s) = [n \in 1..Cardinality(Kept) |-> s[Nth(n)]]
    BY DEF Unique
  <1>2. Kept \subseteq 1..Len(s) /\ Len(s) \in Nat
    OBVIOUS
  <1>3. Cardinality(Kept) \in Nat
    <2> HIDE DEF Kept
    <2>1. IsFiniteSet(1..Len(s))
      BY <1>2, FS_Interval
    <2>2. IsFiniteSet(Kept)
      BY <1>2, <2>1, FS_Subset
    <2> QED
      BY <2>2, FS_CardinalityType
  <1>4. ASSUME NEW n \in 1..Cardinality(Kept)
        PROVE  Nth(n) \in DOMAIN s /\ s[Nth(n)] # None
    <2>1. \E k \in Kept : Cardinality(Kept \cap 1..k) = n
      <3> HIDE DEF Kept
      <3> QED
        BY <1>2, NthExists
    <2>2. Nth(n) \in Kept
      <3> HIDE DEF Kept
      <3> QED
        BY <2>1
    <2> QED
      BY <2>2
  <1>5. ASSUME NEW n \in 1..Cardinality(Kept) PROVE s[Nth(n)] \in S
    <2> HIDE DEF Nth, Kept
    <2> QED
      BY <1>4
  <1> HIDE DEF Kept, Nth
  <1>6. DOMAIN Unique(s) = 1..Cardinality(Kept)
    BY <1>1
  <1>7. \A n \in 1..Cardinality(Kept) : Unique(s)[n] = s[Nth(n)]
    BY <1>1
  <1>8. Unique(s) \in [1..Cardinality(Kept) -> S]
    BY <1>1, <1>5
  <1> QED
    BY <1>3, <1>4, <1>6, <1>7, <1>8

-----------------------------------------------------------------------------
(* The inductive invariant.  Its parts take the items and their history as *)
(* parameters, so that one lemma serves both ends of a step.               *)

\* The names a group of the agent a may have.
GroupName(a, mf) ==
    {Display(a), AgentId(a)} \cup {Renamed(i) : i \in {k \in Id : mf[k] = a}}

\* The identifier i stands for an item of this kind that was made for a.
Refers(i, kind, a, it, mf) ==
    i # None => mf[i] = a /\ (it[i] # None => it[i].kind = kind)

\* Every item belongs to the agent it was made for: a group lies under the root
\* and bears one of the agent's names, a connection lies in a group of the agent.
GroupFits(g, a, mf) ==
    /\ g.kind = "group" /\ g.parent = Root
    /\ g.who = None /\ g.owner = None /\ g.files = TRUE
    /\ g.name \in GroupName(a, mf)

ConnFits(c, a, it, mf) ==
    /\ c.kind = "conn" /\ c.parent \in Id /\ it[c.parent] # None
    /\ it[c.parent].kind = "group" /\ mf[c.parent] = a

ItemFits(i, it, mf) ==
    /\ mf[i] \in Agent
    /\ \/ GroupFits(it[i], mf[i], mf)
       \/ ConnFits(it[i], mf[i], it, mf)

AllFit(it, mf) == \A i \in Id : it[i] # None => ItemFits(i, it, mf)

ItemsFit ==
    /\ \A i \in Id : i < next <=> madeFor[i] # None
    /\ AllFit(item, madeFor)

\* Guacamole never holds two items of one kind and one name under one parent.
Differ(it) ==
    \A i, j \in Id :
        /\ it[i] # None /\ it[j] # None /\ it[i].kind = it[j].kind
        /\ it[i].name = it[j].name /\ it[i].parent = it[j].parent
        => i = j

NamesDiffer == Differ(item)

\* A mapping of the agent a names and looks for items of a only.
MappingFits(m, a, it, mf) ==
    /\ Refers(m.gid, "group", a, it, mf) /\ Refers(m.cid, "conn", a, it, mf)
    /\ m.gname \in GroupName(a, mf)
    /\ \A k \in DOMAIN m.gcands : m.gcands[k] \in GroupName(a, mf)

\* What a mapping has no identifier for, it has a candidate for.
LeadsFit(m) ==
    /\ m.gid = None => m.gcands # <<>>
    /\ m.cid = None => m.ccands # <<>> /\ m.ccands[1] = Host

PairFits(m, it) ==
    m.cid # None => m.gid # None /\ (it[m.cid] # None => it[m.cid].parent = m.gid)

RowFits(m, a, it, mf) ==
    m.gid # None /\ m.cid # None /\ MappingFits(m, a, it, mf) /\ PairFits(m, it)

RowsFit == \A a \in Agent : stored[a] # None => RowFits(stored[a], a, item, madeFor)

KindOf(q) == IF WantsGroup(q) THEN "group" ELSE "conn"

\* What an upsert is about to write.
PayloadFits(q, mf) ==
    /\ WantsGroup(q) => GroupFits(q.payload, q.call.agent, mf)
    /\ ~WantsGroup(q) => q.payload.kind = "conn" /\ q.payload.parent = InUse(q).gid

\* An upsert has found an item of its agent, and a connection in the group that
\* it keeps connections in.
UpsertFits(q, it, mf) ==
    /\ ~WantsGroup(q) => InUse(q).gid # None
    /\ q.at \in {"get", "reget", "reget2", "put", "reput"} => q.id # None
    /\ Refers(q.id, KindOf(q), q.call.agent, it, mf)
    /\ ~WantsGroup(q) /\ q.id # None /\ it[q.id] # None => it[q.id].parent = InUse(q).gid
    /\ q.at \in {"put", "refind2", "reget2", "reput", "post"} => q.payload # None
    /\ q.payload # None => PayloadFits(q, mf)
    /\ WantsGroup(q) /\ q.at # "find" => q.name \in GroupName(q.call.agent, mf)

\* The mapping that will be stored: when its group is replaced, the old group is
\* gone, and its connection with it.
WorkFits(q, it) ==
    /\ q.stage \in {"group", "main"} => PairFits(q.work, it) /\ LeadsFit(q.work)
    /\ q.stage = "group" /\ q.at # "find" /\ q.work.gid # None =>
          \/ q.id = q.work.gid /\ q.at \notin {"refind", "refind2", "post"}
          \/ it[q.work.gid] = None
    /\ q.at = "store" => q.stage = "main" /\ q.work.cid # None

BaseFits(q, it, mf) ==
    /\ q.call \in Call
    /\ MappingFits(q.map, q.call.agent, it, mf)
    /\ MappingFits(q.work, q.call.agent, it, mf)
    /\ q.call.kind \in {"plain", "user"} => q.map.files = TRUE /\ q.work.files = TRUE

UnderWay(q, it, mf) ==
    /\ q.answer = None
    /\ q.stage = "serve" <=> q.at = "lookup"
    /\ q.stage = "main" => q.call.kind # "user"
    /\ q.stage = "users" => q.call.kind = "user" /\ q.user # None
    /\ q.stage \in {"regroup", "record"} => q.call.recorded
    /\ q.stage # "serve" => UpsertFits(q, it, mf)
    /\ WorkFits(q, it)

RequestFits(q, it, mf) ==
    /\ BaseFits(q, it, mf)
    /\ q.at # "over" => UnderWay(q, it, mf)
    /\ q.answer # None /\ q.map.gid # None => mf[q.answer] = q.call.agent

\* What the upsert of a calm request finds.
Target(q) ==
    CASE q.stage = "group" -> GroupOf(q.work)
      [] q.stage = "main" -> MainIn(q.work.gid, q.call, q.work)
      [] q.stage = "users" -> OwnIn(q.work.gid, q.user)
      [] q.stage = "regroup" -> {q.map.gid}
      [] q.stage = "record" -> TwinIn(q.map.gid, q.call, q.map.cname)

\* What is in place for a calm request from its stage on.
Awaits(q) ==
    LET c == q.call
    IN /\ q.stage = "group" => InPlace(c, q.work) /\ q.left = SignedIn
       /\ q.stage = "main" =>
             /\ q.work.gid \in Live("group")
             /\ \E i \in MainIn(q.work.gid, c, q.work) :
                   c.recorded => TwinIn(q.work.gid, c, item[i].name) # {}
       /\ q.stage = "users" =>
             /\ q.work.gid \in Live("group")
             /\ \A u \in SignedIn : OwnIn(q.work.gid, u) # {}
             /\ c.recorded => TwinIn(q.work.gid, c, UserName(c.who)) # {}
             /\ c.who \notin q.left \cup {q.user} => q.work.cname = UserName(c.who)
       /\ q.stage \in {"regroup", "record"} =>
             q.map.gid \in Live("group") /\ TwinIn(q.map.gid, c, q.map.cname) # {}

\* A calm request only looks, and looks at what is in place.
Calm(q) ==
    /\ q.at \in {"find", "get", "lookup", "store"}
    /\ q.at \in {"find", "get"} => Awaits(q)
    /\ q.at = "get" => q.id \in Target(q)

RequestsFit ==
    \A r \in Request : req[r] # None =>
        RequestFits(req[r], item, madeFor) /\ (req[r].calm => Calm(req[r]))

IInv == TypeOK /\ ItemsFit /\ NamesDiffer /\ RowsFit /\ RequestsFit

-----------------------------------------------------------------------------
(* Names                                                                   *)

\* The names of one agent's groups are not another's.
LEMMA GroupNamesApart ==
    ASSUME NEW a \in Agent, NEW b \in Agent, NEW mf \in [Id -> Agent \cup {None}],
           NEW n, n \in GroupName(a, mf), n \in GroupName(b, mf)
    PROVE  a = b
  <1>1. ASSUME NEW x, NEW i \in Id PROVE Renamed(i) # AgentId(x) /\ Renamed(i) # Display(x)
    BY DEF Renamed, AgentId, Display
  <1>2. ASSUME NEW x, NEW y PROVE AgentId(x) # Display(y)
    BY DEF AgentId, Display
  <1>3. ASSUME NEW x, NEW y
        PROVE  (AgentId(x) = AgentId(y) => x = y) /\ (Display(x) = Display(y) => x = y)
    BY DEF AgentId, Display
  <1>4. ASSUME NEW i \in Id, NEW j \in Id PROVE Renamed(i) = Renamed(j) => i = j
    BY DEF Renamed
  <1> QED
    BY <1>1, <1>2, <1>3, <1>4 DEF GroupName

\* A group's name is a name.
LEMMA GroupNameType ==
    ASSUME NEW a \in Agent, NEW mf, NEW n \in GroupName(a, mf)
    PROVE  n \in Name
  BY DEF GroupName, Name

LEMMA NamesTyped ==
    /\ Host \in Name
    /\ \A a \in Agent : AgentId(a) \in Name /\ Display(a) \in Name
    /\ \A u \in VmUser : UserName(u) \in Name
    /\ \A i \in Id : Renamed(i) \in Name
  BY DEF Name

\* No name is an identifier.
LEMMA NameNotNumber ==
    ASSUME NEW n \in Name, NEW i
    PROVE  n # Number(i)
  <1>1. ASSUME NEW x PROVE <<"recorded", x>> # Number(i)
    BY DEF Number
  <1>2. /\ Host # Number(i)
        /\ \A x : /\ AgentId(x) # Number(i) /\ Display(x) # Number(i)
                  /\ UserName(x) # Number(i) /\ Renamed(x) # Number(i)
    BY DEF Number, Host, AgentId, Display, UserName, Renamed
  <1>3. ASSUME NEW x, x # Number(i) PROVE Recorded(x) # Number(i)
    BY <1>1, <1>3 DEF Recorded
  <1> QED
    BY <1>2, <1>3 DEF Name

\* The recorded twin of a name is a name.
LEMMA RecordedType ==
    ASSUME NEW n \in Name
    PROVE  Recorded(n) \in Name
  <1>1. /\ Host[1] # "recorded"
        /\ \A x : /\ AgentId(x)[1] # "recorded" /\ Display(x)[1] # "recorded"
                  /\ UserName(x)[1] # "recorded" /\ Renamed(x)[1] # "recorded"
    BY DEF Host, AgentId, Display, UserName, Renamed
  <1>2. ASSUME NEW x PROVE Recorded(x)[1] = "recorded"
    BY DEF Recorded
  <1>3. ASSUME NEW x PROVE Recorded(Recorded(x)) = Recorded(x)
    BY <1>2 DEF Recorded
  <1> QED
    BY <1>3 DEF Name

-----------------------------------------------------------------------------
(* What the steps of others leave in place                                 *)

\* Identifiers keep their agent, and the items that stay their kind and parent.
Steady(it, mf, jt, nf) ==
    \A i \in Id : mf[i] # None =>
        /\ nf[i] = mf[i]
        /\ jt[i] # None => /\ it[i] # None
                           /\ jt[i].kind = it[i].kind /\ jt[i].parent = it[i].parent

LEMMA SteadyNames ==
    ASSUME NEW it, NEW mf, NEW jt, NEW nf, Steady(it, mf, jt, nf),
           NEW a \in Agent, NEW n \in GroupName(a, mf)
    PROVE  n \in GroupName(a, nf)
  BY NoneAssumption DEF GroupName, Steady

LEMMA SteadyRefers ==
    ASSUME NEW it, NEW mf, NEW jt, NEW nf, Steady(it, mf, jt, nf),
           NEW a \in Agent, NEW kind, NEW i \in Id \cup {None}, Refers(i, kind, a, it, mf)
    PROVE  Refers(i, kind, a, jt, nf)
  BY NoneAssumption DEF Refers, Steady

LEMMA SteadyMapping ==
    ASSUME NEW it, NEW mf, NEW jt, NEW nf, Steady(it, mf, jt, nf),
           NEW a \in Agent, NEW m \in Mapping, MappingFits(m, a, it, mf)
    PROVE  /\ MappingFits(m, a, jt, nf)
           /\ PairFits(m, it) => PairFits(m, jt)
  <1>1. m.gid \in Id \cup {None} /\ m.cid \in Id \cup {None}
    BY DEF Mapping
  <1>2. MappingFits(m, a, jt, nf)
    BY <1>1, SteadyRefers, SteadyNames DEF MappingFits
  <1>3. ASSUME m.cid # None PROVE mf[m.cid] = a /\ a # None
    BY <1>3, NoneAssumption DEF MappingFits, Refers
  <1>4. PairFits(m, it) => PairFits(m, jt)
    BY <1>1, <1>3 DEF PairFits, Steady
  <1> QED
    BY <1>2, <1>4

LEMMA ProgressFields ==
    ASSUME NEW q \in Progress
    PROVE  /\ q.call \in CallType /\ q.call.agent \in Agent
           /\ q.map \in Mapping /\ q.work \in Mapping
           /\ q.stage \in Stage /\ q.at \in Point
           /\ q.id \in Id \cup {None} /\ q.name \in Name /\ q.payload \in Item \cup {None}
           /\ q.user \in VmUser \cup {None} /\ q.left \in SUBSET VmUser
           /\ q.answer \in Id \cup {None} /\ q.calm \in BOOLEAN
           /\ InUse(q) \in Mapping
  BY DEF Progress, CallType, InUse

LEMMA MappingFields ==
    ASSUME NEW m \in Mapping
    PROVE  /\ m.gid \in Id \cup {None} /\ m.gname \in Name
           /\ m.cid \in Id \cup {None} /\ m.cname \in Name
           /\ m.gcands \in Seq(Candidate) /\ m.ccands \in Seq(Candidate)
           /\ m.files \in BOOLEAN
  BY DEF Mapping

LEMMA SteadyUpsert ==
    ASSUME NEW it, NEW mf, NEW jt, NEW nf, Steady(it, mf, jt, nf),
           NEW q \in Progress, UpsertFits(q, it, mf)
    PROVE  UpsertFits(q, jt, nf)
  <1>1. q.call.agent \in Agent /\ q.call.agent # None /\ q.id \in Id \cup {None}
    BY ProgressFields, NoneAssumption
  <1>2. Refers(q.id, KindOf(q), q.call.agent, jt, nf)
    BY <1>1, SteadyRefers DEF UpsertFits
  <1>3. ASSUME q.id # None, jt[q.id] # None
        PROVE  it[q.id] # None /\ jt[q.id].parent = it[q.id].parent
    BY <1>1, <1>3 DEF UpsertFits, Refers, Steady
  <1>4. PayloadFits(q, mf) => PayloadFits(q, nf)
    BY <1>1, SteadyNames DEF PayloadFits, GroupFits
  <1>5. q.name \in GroupName(q.call.agent, mf) => q.name \in GroupName(q.call.agent, nf)
    BY <1>1, SteadyNames
  <1> QED
    BY <1>2, <1>3, <1>4, <1>5 DEF UpsertFits

LEMMA SteadyRequest ==
    ASSUME NEW it, NEW mf, NEW jt, NEW nf, Steady(it, mf, jt, nf),
           NEW q \in Progress, RequestFits(q, it, mf)
    PROVE  RequestFits(q, jt, nf)
  <1>1. /\ q.call.agent \in Agent /\ q.call.agent # None
        /\ q.map \in Mapping /\ q.work \in Mapping /\ q.answer \in Id \cup {None}
    BY ProgressFields, NoneAssumption
  <1>2. BaseFits(q, it, mf)
    BY DEF RequestFits
  <1>3. BaseFits(q, jt, nf) /\ (PairFits(q.work, it) => PairFits(q.work, jt))
    BY <1>1, <1>2, SteadyMapping DEF BaseFits
  <1>4. q.work.gid \in Id \cup {None} /\ (q.work.gid # None => mf[q.work.gid] = q.call.agent)
    BY <1>1, <1>2, MappingFields DEF BaseFits, MappingFits, Refers
  <1>5. ASSUME q.work.gid # None, it[q.work.gid] = None PROVE jt[q.work.gid] = None
    BY <1>1, <1>4, <1>5 DEF Steady
  <1>6. WorkFits(q, it) => WorkFits(q, jt)
    BY <1>3, <1>5 DEF WorkFits
  <1>7. UpsertFits(q, it, mf) => UpsertFits(q, jt, nf)
    BY SteadyUpsert
  <1>8. UnderWay(q, it, mf) => UnderWay(q, jt, nf)
    BY <1>6, <1>7 DEF UnderWay
  <1>9. ASSUME q.answer # None, mf[q.answer] = q.call.agent PROVE nf[q.answer] = q.call.agent
    BY <1>1, <1>9 DEF Steady
  <1> QED
    BY <1>3, <1>8, <1>9 DEF RequestFits

\* A disturbed request is the same request.
LEMMA DisturbedRequest ==
    ASSUME NEW q \in Progress, NEW it, NEW mf, RequestFits(q, it, mf)
    PROVE  /\ [q EXCEPT !.calm = FALSE] \in Progress
           /\ RequestFits([q EXCEPT !.calm = FALSE], it, mf)
           /\ [q EXCEPT !.calm = FALSE].calm = FALSE
  <1> DEFINE p == [q EXCEPT !.calm = FALSE]
  <1>1. p \in Progress
    BY Zenon DEF Progress
  <1>2. /\ p.call = q.call /\ p.map = q.map /\ p.work = q.work /\ p.stage = q.stage
        /\ p.at = q.at /\ p.id = q.id /\ p.name = q.name /\ p.payload = q.payload
        /\ p.user = q.user /\ p.answer = q.answer /\ p.calm = FALSE
    BY DEF Progress
  <1>3. InUse(p) = InUse(q) /\ WantsGroup(p) = WantsGroup(q) /\ KindOf(p) = KindOf(q)
    BY <1>2 DEF InUse, WantsGroup, KindOf
  <1> HIDE DEF p
  <1>4. UpsertFits(q, it, mf) => UpsertFits(p, it, mf)
    BY <1>2, <1>3 DEF UpsertFits, PayloadFits
  <1>5. UnderWay(q, it, mf) => UnderWay(p, it, mf)
    BY <1>2, <1>4 DEF UnderWay, WorkFits
  <1>6. RequestFits(p, it, mf)
    BY <1>2, <1>5 DEF RequestFits, BaseFits
  <1> QED
    BY <1>1, <1>2, <1>6 DEF p

-----------------------------------------------------------------------------
(* From one upsert to the next                                             *)

LEMMA StartIs ==
    ASSUME NEW q \in Progress, NEW stage \in Stage
    PROVE  /\ Start(q, stage) \in Progress
           /\ Start(q, stage).call = q.call /\ Start(q, stage).map = q.map
           /\ Start(q, stage).work = q.work /\ Start(q, stage).stage = stage
           /\ Start(q, stage).at = "find" /\ Start(q, stage).id = None
           /\ Start(q, stage).payload = None
           /\ Start(q, stage).user = q.user /\ Start(q, stage).left = q.left
           /\ Start(q, stage).answer = q.answer /\ Start(q, stage).calm = q.calm
  <1>1. Host \in Name /\ "find" \in Point
    BY NamesTyped DEF Point
  <1>2. Start(q, stage) \in Progress
    BY <1>1, Zenon DEF Start, Progress
  <1> QED
    BY <1>2 DEF Start, Progress

LEMMA StartFits ==
    ASSUME NEW it, NEW mf, NEW q \in Progress, BaseFits(q, it, mf), q.answer = None,
           NEW stage \in Stage \ {"group", "serve"},
           stage = "main" => /\ q.call.kind # "user" /\ q.work.gid # None
                             /\ PairFits(q.work, it) /\ LeadsFit(q.work),
           stage = "users" => q.call.kind = "user" /\ q.user # None /\ q.work.gid # None,
           stage = "record" => q.map.gid # None,
           stage \in {"regroup", "record"} => q.call.recorded
    PROVE  RequestFits(Start(q, stage), it, mf)
  <1> DEFINE p == Start(q, stage)
  <1>1. /\ p.call = q.call /\ p.map = q.map /\ p.work = q.work /\ p.stage = stage
        /\ p.at = "find" /\ p.id = None /\ p.payload = None /\ p.user = q.user
        /\ p.answer = None
    BY StartIs
  <1> HIDE DEF p
  <1>2. BaseFits(p, it, mf)
    BY <1>1 DEF BaseFits
  <1>3. UpsertFits(p, it, mf)
    BY <1>1 DEF UpsertFits, Refers, InUse, WantsGroup, Stage
  <1>4. WorkFits(p, it)
    BY <1>1 DEF WorkFits
  <1>5. UnderWay(p, it, mf)
    BY <1>1, <1>3, <1>4 DEF UnderWay
  <1> QED
    BY <1>1, <1>2, <1>5 DEF RequestFits, p

LEMMA LookupIs ==
    ASSUME NEW q \in Progress
    PROVE  /\ [q EXCEPT !.stage = "serve", !.at = "lookup"] \in Progress
           /\ [q EXCEPT !.stage = "serve", !.at = "lookup"].calm = q.calm
           /\ [q EXCEPT !.stage = "serve", !.at = "lookup"].stage = "serve"
           /\ [q EXCEPT !.stage = "serve", !.at = "lookup"].at = "lookup"
           /\ [q EXCEPT !.stage = "serve", !.at = "lookup"].call = q.call
           /\ [q EXCEPT !.stage = "serve", !.at = "lookup"].map = q.map
           /\ [q EXCEPT !.stage = "serve", !.at = "lookup"].work = q.work
           /\ [q EXCEPT !.stage = "serve", !.at = "lookup"].answer = q.answer
  <1>1. "serve" \in Stage /\ "lookup" \in Point
    BY DEF Point, Stage
  <1>2. [q EXCEPT !.stage = "serve", !.at = "lookup"] \in Progress
    BY <1>1, Zenon DEF Progress
  <1> QED
    BY <1>2 DEF Progress

LEMMA ServeFits ==
    ASSUME NEW it, NEW mf, NEW q \in Progress, BaseFits(q, it, mf), q.answer = None
    PROVE  /\ Serve(q) \in Progress /\ RequestFits(Serve(q), it, mf)
           /\ Serve(q).calm = q.calm /\ Serve(q).at \in {"find", "lookup"}
  <1>1. CASE q.call.recorded
    <2>1. "regroup" \in Stage \ {"group", "serve"}
      BY DEF Stage
    <2>2. Serve(q) = Start(q, "regroup")
      BY <1>1 DEF Serve
    <2>3. RequestFits(Start(q, "regroup"), it, mf)
      BY <1>1, <2>1, StartFits
    <2> QED
      BY <2>1, <2>2, <2>3, StartIs
  <1>2. CASE ~q.call.recorded
    <2> DEFINE p == [q EXCEPT !.stage = "serve", !.at = "lookup"]
    <2>1. Serve(q) = p
      BY <1>2 DEF Serve
    <2>2. /\ p \in Progress /\ p.calm = q.calm /\ p.stage = "serve" /\ p.at = "lookup"
          /\ p.call = q.call /\ p.map = q.map /\ p.work = q.work /\ p.answer = None
      BY LookupIs
    <2> HIDE DEF p
    <2>3. BaseFits(p, it, mf)
      BY <2>2 DEF BaseFits
    <2>4. UnderWay(p, it, mf)
      BY <2>2 DEF UnderWay, WorkFits
    <2> QED
      BY <2>1, <2>2, <2>3, <2>4 DEF RequestFits
  <1> QED
    BY <1>1, <1>2

LEMMA OverFits ==
    ASSUME NEW it, NEW mf, NEW q \in Progress, BaseFits(q, it, mf),
           NEW i \in Id \cup {None},
           i # None /\ q.map.gid # None => mf[i] = q.call.agent
    PROVE  /\ Over(q, i) \in Progress /\ RequestFits(Over(q, i), it, mf)
           /\ Over(q, i).calm = FALSE /\ Over(q, i).at = "over"
  <1> DEFINE p == Over(q, i)
  <1>1. Host \in Name /\ "over" \in Point /\ q.map \in Mapping
    BY NamesTyped, ProgressFields DEF Point
  <1>2. p \in Progress
    BY <1>1, Zenon DEF Over, Progress
  <1>3. /\ p.call = q.call /\ p.map = q.map /\ p.work = q.map /\ p.at = "over"
        /\ p.answer = i /\ p.calm = FALSE
    BY DEF Over, Progress
  <1> HIDE DEF p
  <1>4. BaseFits(p, it, mf)
    BY <1>3 DEF BaseFits
  <1>5. RequestFits(p, it, mf)
    BY <1>3, <1>4 DEF RequestFits
  <1> QED
    BY <1>2, <1>3, <1>5 DEF p

\* What a failed call leaves.
LEMMA FailedFits ==
    ASSUME NEW it, NEW mf, NEW q \in Progress, RequestFits(q, it, mf), q.at # "over"
    PROVE  Failed(q) \in Progress /\ RequestFits(Failed(q), it, mf)
  <1>1. BaseFits(q, it, mf) /\ q.answer = None /\ q.map \in Mapping
    BY ProgressFields DEF RequestFits, UnderWay
  <1>2. CASE q.stage \in {"group", "main", "users"} /\ q.call.kind \in {"plain", "user"}
    <2>1. Failed(q) = Serve(q)
      BY <1>2 DEF Failed
    <2> QED
      BY <1>1, <2>1, ServeFits
  <1>3. CASE q.stage = "serve"
    <2>1. Failed(q) = Over(q, q.map.cid)
      BY <1>3 DEF Failed
    <2>2. q.map.cid \in Id \cup {None} /\ (q.map.cid # None => mf[q.map.cid] = q.call.agent)
      BY <1>1, MappingFields DEF BaseFits, MappingFits, Refers
    <2>3. Over(q, q.map.cid) \in Progress /\ RequestFits(Over(q, q.map.cid), it, mf)
      <3> DEFINE i == q.map.cid
      <3>1. i \in Id \cup {None} /\ (i # None => mf[i] = q.call.agent)
        BY <2>2
      <3> HIDE DEF i
      <3>2. Over(q, i) \in Progress /\ RequestFits(Over(q, i), it, mf)
        BY <1>1, <3>1, OverFits
      <3> QED
        BY <3>2 DEF i
    <2> QED
      BY <2>1, <2>3
  <1>4. CASE /\ q.stage # "serve"
             /\ ~(q.stage \in {"group", "main", "users"} /\ q.call.kind \in {"plain", "user"})
    <2>1. Failed(q) = Over(q, None)
      BY <1>4 DEF Failed
    <2> QED
      BY <1>1, <2>1, OverFits
  <1> QED
    BY <1>2, <1>3, <1>4

\* A mapping with another group, a mapping with another connection, a request with
\* another mapping to work on, with one to serve by and with one to store.
WithGroup(m, id, name) == [m EXCEPT !.gid = id, !.gname = name]

WithConn(m, id, name) == [m EXCEPT !.cid = id, !.cname = name]

WithWork(q, m) == [q EXCEPT !.work = m]

WithMap(q, m) == [q EXCEPT !.map = m]

Storing(q, m) == [q EXCEPT !.work = m, !.at = "store"]

\* The upsert of a group returned one of the agent's groups.
LEMMA GroupKept ==
    ASSUME NEW it, NEW mf, NEW m \in Mapping, NEW a \in Agent,
           MappingFits(m, a, it, mf), NEW id \in Id, NEW name \in GroupName(a, mf),
           mf[id] = a, it[id] # None => it[id].kind = "group"
    PROVE  LET w == WithGroup(m, id, name)
           IN /\ w \in Mapping /\ MappingFits(w, a, it, mf)
              /\ w.gid = id /\ w.cid = m.cid /\ w.cname = m.cname
              /\ w.gcands = m.gcands /\ w.ccands = m.ccands /\ w.files = m.files
  <1> DEFINE w == WithGroup(m, id, name)
  <1>1. name \in Name
    BY GroupNameType
  <1>2. w \in Mapping
    BY <1>1, Zenon DEF Mapping, WithGroup
  <1>3. /\ w.gid = id /\ w.gname = name /\ w.cid = m.cid /\ w.cname = m.cname
        /\ w.gcands = m.gcands /\ w.ccands = m.ccands /\ w.files = m.files
    BY DEF Mapping, WithGroup
  <1> HIDE DEF w
  <1>4. MappingFits(w, a, it, mf)
    BY <1>3 DEF MappingFits, Refers
  <1> QED
    BY <1>2, <1>3, <1>4 DEF w

\* The upsert of a connection returned one of the agent's connections.
LEMMA ConnKept ==
    ASSUME NEW it, NEW mf, NEW m \in Mapping, NEW a \in Agent,
           MappingFits(m, a, it, mf), NEW id \in Id, NEW name \in Name,
           mf[id] = a, it[id] # None => it[id].kind = "conn"
    PROVE  LET w == WithConn(m, id, name)
           IN /\ w \in Mapping /\ MappingFits(w, a, it, mf)
              /\ w.gid = m.gid /\ w.gname = m.gname /\ w.cid = id /\ w.cname = name
              /\ w.gcands = m.gcands /\ w.ccands = m.ccands /\ w.files = m.files
  <1> DEFINE w == WithConn(m, id, name)
  <1>1. w \in Mapping
    BY Zenon DEF Mapping, WithConn
  <1>2. /\ w.gid = m.gid /\ w.gname = m.gname /\ w.cid = id /\ w.cname = name
        /\ w.gcands = m.gcands /\ w.ccands = m.ccands /\ w.files = m.files
    BY DEF Mapping, WithConn
  <1> HIDE DEF w
  <1>3. MappingFits(w, a, it, mf)
    BY <1>2 DEF MappingFits, Refers
  <1> QED
    BY <1>1, <1>2, <1>3 DEF w

\* The names an agent's mapping gathers are the agent's.
LEMMA GatheredNames ==
    ASSUME NEW mf, NEW a \in Agent, NEW s \in Seq(Candidate),
           \A k \in DOMAIN s : s[k] \in GroupName(a, mf),
           NEW t \in Seq(Candidate), \A k \in DOMAIN t : t[k] \in GroupName(a, mf)
    PROVE  /\ Unique(s \o t) \in Seq(Candidate)
           /\ \A k \in DOMAIN Unique(s \o t) : Unique(s \o t)[k] \in GroupName(a, mf)
  <1> DEFINE st == s \o t
  <1>1. st \in Seq(Candidate) /\ st \in Seq(Candidate \cup {None})
    OBVIOUS
  <1>2. \A k \in DOMAIN st : st[k] \in GroupName(a, mf)
    OBVIOUS
  <1>3. None \notin Candidate
    BY NoRecordAssumption
  <1> HIDE DEF st
  <1>4. /\ Unique(st) \in Seq(Candidate)
        /\ \A n \in DOMAIN Unique(st) : \E k \in DOMAIN st :
              st[k] # None /\ Unique(st)[n] = st[k]
    BY <1>1, <1>3, UniqueEntries
  <1> QED
    BY <1>2, <1>4 DEF st

LEMMA CandidatesTyped ==
    /\ Name \subseteq Candidate
    /\ \A i \in Id : Number(i) \in Candidate
  BY DEF Candidate

LEMMA ProvisionedFits ==
    ASSUME NEW it, NEW mf, NEW m \in Mapping, NEW a \in Agent,
           MappingFits(m, a, it, mf), NEW id \in Id, NEW name \in Name,
           mf[id] = a, it[id] # None => it[id].kind = "conn"
    PROVE  LET w == Provisioned(m, a, id, name)
           IN /\ w \in Mapping /\ MappingFits(w, a, it, mf)
              /\ w.gid = m.gid /\ w.gname = m.gname /\ w.cid = id /\ w.cname = name
              /\ w.files = m.files
  <1> DEFINE w == Provisioned(m, a, id, name)
             g == <<m.gname, AgentId(a)>>
             c == <<Number(id), name, Host, AgentId(a)>>
             G == Unique(m.gcands \o g)
             C == Unique(m.ccands \o c)
  <1>1. m.gname \in Name /\ m.gcands \in Seq(Candidate) /\ m.ccands \in Seq(Candidate)
    BY MappingFields
  <1>2. m.gname \in GroupName(a, mf) /\ AgentId(a) \in GroupName(a, mf)
    BY DEF MappingFits, GroupName
  <1>3. g \in Seq(Candidate) /\ \A k \in DOMAIN g : g[k] \in GroupName(a, mf)
    BY <1>1, <1>2, NamesTyped, CandidatesTyped
  <1>4. \A k \in DOMAIN m.gcands : m.gcands[k] \in GroupName(a, mf)
    BY DEF MappingFits
  <1>5. /\ G \in Seq(Candidate)
        /\ \A k \in DOMAIN G : G[k] \in GroupName(a, mf)
    <2> HIDE DEF g
    <2> QED
      BY <1>1, <1>3, <1>4, GatheredNames
  <1>6. C \in Seq(Candidate)
    <2>1. c \in Seq(Candidate)
      BY NamesTyped, CandidatesTyped
    <2> HIDE DEF c
    <2>2. m.ccands \o c \in Seq(Candidate \cup {None})
      BY <1>1, <2>1
    <2> QED
      BY <2>2, UniqueEntries, NoRecordAssumption
  <1>7. w = [m EXCEPT !.cid = id, !.cname = name, !.gcands = G, !.ccands = C]
    BY DEF Provisioned
  <1> HIDE DEF w, G, C
  <1>8. w \in Mapping
    BY <1>5, <1>6, <1>7, Zenon DEF Mapping
  <1>9. /\ w.gid = m.gid /\ w.gname = m.gname /\ w.cid = id /\ w.cname = name
        /\ w.gcands = G /\ w.files = m.files
    BY <1>7 DEF Mapping
  <1>10. MappingFits(w, a, it, mf)
    BY <1>5, <1>9 DEF MappingFits, Refers
  <1> QED
    BY <1>8, <1>9, <1>10 DEF w

\* The mapping a request works on, or the one it serves by, is replaced.
LEMMA WithWorkIs ==
    ASSUME NEW q \in Progress, NEW w \in Mapping
    PROVE  LET p == WithWork(q, w)
           IN /\ p \in Progress
              /\ p.call = q.call /\ p.map = q.map /\ p.work = w /\ p.stage = q.stage
              /\ p.at = q.at /\ p.user = q.user /\ p.left = q.left
              /\ p.answer = q.answer /\ p.calm = q.calm
  <1>1. [q EXCEPT !.work = w] \in Progress
    BY Zenon DEF Progress
  <1> QED
    BY <1>1 DEF Progress, WithWork

LEMMA WithMapIs ==
    ASSUME NEW q \in Progress, NEW m \in Mapping
    PROVE  LET p == WithMap(q, m)
           IN /\ p \in Progress
              /\ p.call = q.call /\ p.map = m /\ p.work = q.work /\ p.stage = q.stage
              /\ p.at = q.at /\ p.user = q.user /\ p.left = q.left
              /\ p.answer = q.answer /\ p.calm = q.calm
  <1>1. [q EXCEPT !.map = m] \in Progress
    BY Zenon DEF Progress
  <1> QED
    BY <1>1 DEF Progress, WithMap

\* Where an upsert of each stage leads.
LEMMA FinishedGroup ==
    ASSUME NEW q \in Progress, NEW id, NEW name, NEW p, p \in Finished(q, id, name),
           q.stage = "group", NEW n, n = WithWork(q, WithGroup(q.work, id, name))
    PROVE  IF q.call.kind = "user" THEN p \in NextUser(n) ELSE p = Start(n, "main")
  <1> DEFINE o == [q EXCEPT !.work.gid = id, !.work.gname = name]
  <1>1. Finished(q, id, name) = IF q.call.kind = "user" THEN NextUser(o) ELSE {Start(o, "main")}
    BY DEF Finished
  <1>2. o = n
    BY DEF Progress, Mapping, WithWork, WithMap, WithGroup, WithConn
  <1> HIDE DEF o
  <1> QED
    BY <1>1, <1>2

LEMMA FinishedMain ==
    ASSUME NEW q \in Progress, NEW id, NEW name, NEW p, p \in Finished(q, id, name),
           q.stage = "main", NEW m, m = Provisioned(q.work, q.call.agent, id, name)
    PROVE  IF q.call.kind = "plain" THEN p = Serve(WithMap(q, m)) ELSE p = Storing(q, m)
  BY DEF Finished, WithMap, Storing

LEMMA FinishedUsers ==
    ASSUME NEW q \in Progress, NEW id, NEW name, NEW p, p \in Finished(q, id, name),
           q.stage = "users", NEW n,
           n = IF q.user = q.call.who THEN WithWork(q, WithConn(q.work, id, name)) ELSE q
    PROVE  IF q.left = {} THEN p = Serve(Matched(n)) ELSE p \in NextUser(n)
  <1> DEFINE o == [q EXCEPT !.work.cid = id, !.work.cname = name]
             u == IF q.user = q.call.who THEN o ELSE q
  <1>1. Finished(q, id, name) = IF q.left = {} THEN {Serve(Matched(u))} ELSE NextUser(u)
    BY DEF Finished
  <1>2. o = WithWork(q, WithConn(q.work, id, name))
    BY DEF Progress, Mapping, WithWork, WithMap, WithGroup, WithConn
  <1> HIDE DEF o
  <1>3. u = n
    BY <1>2
  <1> HIDE DEF u
  <1> QED
    BY <1>1, <1>3

LEMMA FinishedRegroup ==
    ASSUME NEW q \in Progress, NEW id, NEW name, NEW p, p \in Finished(q, id, name),
           q.stage = "regroup", NEW n, n = WithMap(q, WithGroup(q.map, id, name))
    PROVE  p = Start(n, "record")
  <1> DEFINE o == [q EXCEPT !.map.gid = id, !.map.gname = name]
  <1>1. Finished(q, id, name) = {Start(o, "record")}
    BY DEF Finished
  <1>2. o = n
    BY DEF Progress, Mapping, WithWork, WithMap, WithGroup, WithConn
  <1> HIDE DEF o
  <1> QED
    BY <1>1, <1>2

LEMMA FinishedRecord ==
    ASSUME NEW q, NEW id, NEW name, NEW p, p \in Finished(q, id, name), q.stage = "record"
    PROVE  p = Over(q, id)
  BY DEF Finished

LEMMA NextUserIs ==
    ASSUME NEW q \in Progress, NEW p \in NextUser(q)
    PROVE  /\ p \in Progress /\ p.call = q.call /\ p.map = q.map /\ p.work = q.work
           /\ p.stage = "users" /\ p.at = "find" /\ p.id = None
           /\ p.user \in q.left /\ p.left = q.left \ {p.user}
           /\ p.answer = q.answer /\ p.calm = q.calm
  <1>1. PICK u \in q.left : p = Start([q EXCEPT !.user = u, !.left = @ \ {u}], "users")
    BY DEF NextUser
  <1> DEFINE n == [q EXCEPT !.user = u, !.left = @ \ {u}]
  <1>2. u \in VmUser /\ q.left \in SUBSET VmUser /\ q.left \ {u} \in SUBSET VmUser
    BY ProgressFields
  <1>3. n \in Progress
    <2>1. n = [q EXCEPT !.user = u, !.left = q.left \ {u}]
      BY DEF Progress
    <2> QED
      BY <1>2, <2>1, Zenon DEF Progress
  <1>4. /\ n.call = q.call /\ n.map = q.map /\ n.work = q.work
        /\ n.user = u /\ n.left = q.left \ {u} /\ n.answer = q.answer /\ n.calm = q.calm
    BY DEF Progress
  <1>5. p = Start(n, "users") /\ "users" \in Stage
    BY <1>1 DEF Stage
  <1> HIDE DEF n
  <1> QED
    BY <1>3, <1>4, <1>5, StartIs

LEMMA NextUserFits ==
    ASSUME NEW it, NEW mf, NEW q \in Progress, NEW p \in NextUser(q),
           BaseFits(q, it, mf), q.answer = None, q.call.kind = "user", q.work.gid # None
    PROVE  RequestFits(p, it, mf)
  <1>1. PICK u \in q.left : p = Start([q EXCEPT !.user = u, !.left = @ \ {u}], "users")
    BY DEF NextUser
  <1> DEFINE n == [q EXCEPT !.user = u, !.left = @ \ {u}]
  <1>2. u \in VmUser /\ q.left \in SUBSET VmUser /\ q.left \ {u} \in SUBSET VmUser /\ u # None
    BY ProgressFields, NoneAssumption
  <1>3. n \in Progress
    <2>1. n = [q EXCEPT !.user = u, !.left = q.left \ {u}]
      BY DEF Progress
    <2> QED
      BY <1>2, <2>1, Zenon DEF Progress
  <1>4. /\ n.call = q.call /\ n.map = q.map /\ n.work = q.work
        /\ n.user = u /\ n.answer = None
    BY DEF Progress
  <1>5. p = Start(n, "users") /\ "users" \in Stage \ {"group", "serve"}
    BY <1>1 DEF Stage
  <1> HIDE DEF n
  <1>6. BaseFits(n, it, mf)
    BY <1>4 DEF BaseFits
  <1> QED
    BY <1>2, <1>3, <1>4, <1>5, <1>6, StartFits

LEMMA MatchedIs ==
    ASSUME NEW q \in Progress
    PROVE  /\ Matched(q) \in Progress
           /\ Matched(q).call = q.call /\ Matched(q).work = q.work
           /\ Matched(q).map.gid = q.work.gid /\ Matched(q).map.gname = q.work.gname
           /\ Matched(q).map.cid = q.work.cid /\ Matched(q).map.cname = q.work.cname
           /\ Matched(q).map.gcands = q.map.gcands /\ Matched(q).map.files = q.map.files
           /\ Matched(q).answer = q.answer /\ Matched(q).calm = q.calm
  <1> DEFINE w == [q.map EXCEPT !.gid = q.work.gid, !.gname = q.work.gname,
                                !.cid = q.work.cid, !.cname = q.work.cname]
  <1>1. Matched(q) = WithMap(q, w)
    BY DEF Matched, WithMap, Progress, Mapping
  <1>2. /\ q.map \in Mapping
        /\ q.work.gid \in Id \cup {None} /\ q.work.gname \in Name
        /\ q.work.cid \in Id \cup {None} /\ q.work.cname \in Name
    BY ProgressFields, MappingFields
  <1>3. w \in Mapping
    BY <1>2, Zenon DEF Mapping
  <1>4. /\ w.gid = q.work.gid /\ w.gname = q.work.gname /\ w.cid = q.work.cid
        /\ w.cname = q.work.cname /\ w.gcands = q.map.gcands /\ w.files = q.map.files
    BY <1>2 DEF Mapping
  <1> HIDE DEF w
  <1> QED
    BY <1>1, <1>3, <1>4, WithMapIs

LEMMA MatchedFits ==
    ASSUME NEW it, NEW mf, NEW q \in Progress, BaseFits(q, it, mf)
    PROVE  BaseFits(Matched(q), it, mf)
  BY MatchedIs DEF BaseFits, MappingFits

\* An upsert that returned an item of the agent, a group of one of its names or
\* a connection in the group in use, leaves a request that fits.
LEMMA FinishedFits ==
    ASSUME NEW it, NEW mf, NEW q \in Progress, RequestFits(q, it, mf),
           q.stage # "serve", q.at # "over", NEW id \in Id, NEW name \in Name,
           mf[id] = q.call.agent, it[id] # None, it[id].kind = KindOf(q),
           WantsGroup(q) => name \in GroupName(q.call.agent, mf),
           ~WantsGroup(q) => it[id].parent = InUse(q).gid,
           q.stage = "group" /\ q.work.gid # None => q.work.gid = id \/ it[q.work.gid] = None,
           \A i \in Id : it[i] # None /\ it[i].kind = "conn" => it[it[i].parent] # None,
           NEW p \in Finished(q, id, name)
    PROVE  /\ p \in Progress /\ RequestFits(p, it, mf) /\ p.calm \in {q.calm, FALSE}
           /\ p.at \in {"find", "lookup", "store", "over"}
  <1>1. /\ BaseFits(q, it, mf) /\ q.answer = None /\ q.map \in Mapping /\ q.work \in Mapping
        /\ q.call.agent \in Agent /\ q.stage \in Stage
    BY ProgressFields DEF RequestFits, UnderWay
  <1>2. /\ MappingFits(q.map, q.call.agent, it, mf)
        /\ MappingFits(q.work, q.call.agent, it, mf)
    BY <1>1 DEF BaseFits
  <1>3. UnderWay(q, it, mf) /\ UpsertFits(q, it, mf) /\ WorkFits(q, it)
    BY DEF RequestFits, UnderWay
  <1>4. CASE q.stage = "group"
    <2> DEFINE w == WithGroup(q.work, id, name)
               n == WithWork(q, w)
    <2>1. name \in GroupName(q.call.agent, mf) /\ it[id].kind = "group"
      BY <1>4 DEF WantsGroup, KindOf
    <2>2. /\ w \in Mapping /\ MappingFits(w, q.call.agent, it, mf)
          /\ w.gid = id /\ w.cid = q.work.cid /\ w.ccands = q.work.ccands
          /\ w.files = q.work.files
      BY <1>1, <1>2, <2>1, GroupKept
    <2> HIDE DEF w
    <2>3. /\ n \in Progress /\ n.call = q.call /\ n.map = q.map /\ n.work = w
          /\ n.answer = None /\ n.calm = q.calm
      BY <1>1, <2>2, WithWorkIs
    <2>4. IF q.call.kind = "user" THEN p \in NextUser(n) ELSE p = Start(n, "main")
      BY <1>4, FinishedGroup DEF w
    <2> HIDE DEF n
    <2>5. BaseFits(n, it, mf)
      BY <1>1, <2>2, <2>3 DEF BaseFits
    <2>6. id # None
      BY NoneAssumption DEF Id
    <2>7. CASE q.call.kind = "user"
      BY <2>2, <2>3, <2>4, <2>5, <2>6, <2>7, NextUserFits, NextUserIs
    <2>8. CASE q.call.kind # "user"
      <3>1. PairFits(w, it)
        <4>1. PairFits(q.work, it) /\ q.work.cid \in Id \cup {None}
          BY <1>1, <1>3, <1>4, MappingFields DEF WorkFits
        <4>2. ASSUME q.work.cid # None, it[q.work.cid] # None
              PROVE  it[q.work.cid].parent = id
          <5>1. /\ q.work.gid # None /\ it[q.work.cid].parent = q.work.gid
                /\ it[q.work.cid].kind = "conn"
            BY <1>2, <4>1, <4>2 DEF PairFits, MappingFits, Refers
          <5>2. it[q.work.gid] # None
            BY <4>1, <4>2, <5>1
          <5> QED
            BY <1>4, <5>1, <5>2
        <4> QED
          BY <2>2, <2>6, <4>2 DEF PairFits
      <3>2. LeadsFit(w)
        BY <1>3, <1>4, <2>2, <2>6 DEF WorkFits, LeadsFit
      <3>3. "main" \in Stage \ {"group", "serve"} /\ p = Start(n, "main")
        BY <2>4, <2>8 DEF Stage
      <3>4. RequestFits(Start(n, "main"), it, mf)
        BY <2>2, <2>3, <2>5, <2>6, <2>8, <3>1, <3>2, <3>3, StartFits
      <3> QED
        BY <2>3, <3>3, <3>4, StartIs
    <2> QED
      BY <2>7, <2>8
  <1>5. CASE q.stage = "main"
    <2> DEFINE m == Provisioned(q.work, q.call.agent, id, name)
    <2>1. it[id].kind = "conn" /\ InUse(q) = q.work /\ q.work.gid # None /\ id # None
          /\ it[id].parent = q.work.gid
      BY <1>3, <1>5, NoneAssumption DEF WantsGroup, KindOf, UpsertFits, InUse, Id
    <2>2. /\ m \in Mapping /\ MappingFits(m, q.call.agent, it, mf)
          /\ m.gid = q.work.gid /\ m.cid = id /\ m.files = q.work.files
      BY <1>1, <1>2, <2>1, ProvisionedFits
    <2>a. m = Provisioned(q.work, q.call.agent, id, name)
      OBVIOUS
    <2> HIDE DEF m
    <2>b. IF q.call.kind = "plain" THEN p = Serve(WithMap(q, m)) ELSE p = Storing(q, m)
      BY <1>5, <2>a, FinishedMain
    <2>3. CASE q.call.kind = "plain"
      <3> DEFINE n == WithMap(q, m)
      <3>1. /\ n \in Progress /\ n.call = q.call /\ n.map = m /\ n.work = q.work
            /\ n.answer = None /\ n.calm = q.calm
        BY <1>1, <2>2, WithMapIs
      <3>2. p = Serve(n)
        BY <2>3, <2>b
      <3> HIDE DEF n
      <3>3. BaseFits(n, it, mf)
        BY <1>1, <2>2, <3>1 DEF BaseFits
      <3> QED
        BY <3>1, <3>2, <3>3, ServeFits
    <2>4. CASE q.call.kind # "plain"
      <3> DEFINE n == Storing(q, m)
      <3>1. p = n
        BY <2>4, <2>b
      <3>2. n \in Progress
        <4>1. "store" \in Point
          BY DEF Point
        <4> QED
          BY <2>2, <4>1, Zenon DEF Progress, Storing
      <3>3. /\ n.call = q.call /\ n.map = q.map /\ n.work = m /\ n.stage = q.stage
            /\ n.at = "store" /\ n.id = q.id /\ n.name = q.name /\ n.payload = q.payload
            /\ n.user = q.user /\ n.answer = None /\ n.calm = q.calm
        BY <1>1 DEF Progress, Storing
      <3> HIDE DEF n
      <3>4. InUse(n).gid = InUse(q).gid /\ ~WantsGroup(n) /\ ~WantsGroup(q)
        BY <1>5, <2>2, <3>3 DEF InUse, WantsGroup
      <3>5. BaseFits(n, it, mf)
        BY <1>1, <2>2, <3>3 DEF BaseFits
      <3>6. UpsertFits(n, it, mf)
        BY <1>3, <3>3, <3>4 DEF UpsertFits, PayloadFits, KindOf
      <3>7. WorkFits(n, it)
        BY <1>5, <2>1, <2>2, <3>3 DEF WorkFits, PairFits, LeadsFit
      <3>8. UnderWay(n, it, mf)
        BY <1>3, <1>5, <3>3, <3>6, <3>7 DEF UnderWay
      <3>9. RequestFits(n, it, mf)
        BY <3>3, <3>5, <3>8 DEF RequestFits
      <3> QED
        BY <3>1, <3>2, <3>3, <3>9
    <2> QED
      BY <2>3, <2>4
  <1>6. CASE q.stage = "users"
    <2> DEFINE w == WithConn(q.work, id, name)
               n == IF q.user = q.call.who THEN WithWork(q, w) ELSE q
    <2>1. it[id].kind = "conn" /\ q.work.gid # None /\ q.call.kind = "user"
      BY <1>3, <1>6 DEF WantsGroup, KindOf, UpsertFits, InUse, UnderWay
    <2>2. /\ w \in Mapping /\ MappingFits(w, q.call.agent, it, mf)
          /\ w.gid = q.work.gid /\ w.files = q.work.files
      BY <1>1, <1>2, <2>1, ConnKept
    <2>3. IF q.left = {} THEN p = Serve(Matched(n)) ELSE p \in NextUser(n)
      BY <1>6, FinishedUsers
    <2> HIDE DEF w
    <2>4. /\ n \in Progress /\ n.call = q.call /\ n.map = q.map /\ n.work \in {w, q.work}
          /\ n.answer = None /\ n.calm = q.calm
      BY <1>1, <2>2, WithWorkIs
    <2> HIDE DEF n
    <2>5. BaseFits(n, it, mf) /\ n.work.gid # None
      BY <1>1, <2>1, <2>2, <2>4 DEF BaseFits
    <2>6. CASE q.left = {}
      <3>1. /\ BaseFits(Matched(n), it, mf) /\ Matched(n) \in Progress
            /\ Matched(n).answer = None /\ Matched(n).calm = q.calm
        BY <2>4, <2>5, MatchedFits, MatchedIs
      <3> QED
        BY <2>3, <2>6, <3>1, ServeFits
    <2>7. CASE q.left # {}
      <3>1. p \in NextUser(n) /\ n.call.kind = "user"
        BY <2>1, <2>3, <2>4, <2>7
      <3>2. RequestFits(p, it, mf)
        BY <2>4, <2>5, <3>1, NextUserFits
      <3> QED
        BY <2>4, <3>1, <3>2, NextUserIs
    <2> QED
      BY <2>6, <2>7
  <1>7. CASE q.stage = "regroup"
    <2> DEFINE w == WithGroup(q.map, id, name)
               n == WithMap(q, w)
    <2>1. name \in GroupName(q.call.agent, mf) /\ it[id].kind = "group" /\ q.call.recorded
      BY <1>3, <1>7 DEF WantsGroup, KindOf, UnderWay
    <2>2. /\ w \in Mapping /\ MappingFits(w, q.call.agent, it, mf)
          /\ w.gid = id /\ w.files = q.map.files /\ id # None
      <3>1. /\ w \in Mapping /\ MappingFits(w, q.call.agent, it, mf)
            /\ w.gid = id /\ w.files = q.map.files
        BY <1>1, <1>2, <2>1, GroupKept
      <3>2. id # None
        BY NoneAssumption DEF Id
      <3> QED
        BY <3>1, <3>2
    <2> HIDE DEF w
    <2>3. /\ n \in Progress /\ n.call = q.call /\ n.map = w /\ n.work = q.work
          /\ n.answer = None /\ n.calm = q.calm
      BY <1>1, <2>2, WithMapIs
    <2>4. p = Start(n, "record")
      BY <1>7, FinishedRegroup DEF w
    <2> HIDE DEF n
    <2>5. BaseFits(n, it, mf)
      BY <1>1, <2>2, <2>3 DEF BaseFits
    <2>6. "record" \in Stage \ {"group", "serve"}
      BY DEF Stage
    <2>7. RequestFits(Start(n, "record"), it, mf)
      BY <2>1, <2>2, <2>3, <2>5, <2>6, StartFits
    <2> QED
      BY <2>3, <2>4, <2>6, <2>7, StartIs
  <1>8. CASE q.stage = "record"
    <2>1. p = Over(q, id)
      BY <1>8, FinishedRecord
    <2> QED
      BY <1>1, <2>1, OverFits
  <1> QED
    BY <1>1, <1>4, <1>5, <1>6, <1>7, <1>8 DEF Stage

-----------------------------------------------------------------------------
(* Looking items up                                                        *)

LEMMA ItemFacts ==
    ASSUME TypeOK, ItemsFit, NEW i \in Id, item[i] # None
    PROVE  /\ item[i] \in Item /\ item[i].name \in Name
           /\ item[i].kind \in {"group", "conn"} /\ madeFor[i] \in Agent
           /\ item[i].kind = "group" => GroupFits(item[i], madeFor[i], madeFor)
           /\ item[i].kind = "conn" => ConnFits(item[i], madeFor[i], item, madeFor)
  <1>1. item[i] \in Item
    BY DEF TypeOK
  <1>2. item[i].name \in Name /\ item[i].kind \in {"group", "conn"}
    BY <1>1 DEF Item
  <1>3. ItemFits(i, item, madeFor)
    BY DEF ItemsFit, AllFit
  <1> QED
    BY <1>1, <1>2, <1>3 DEF ItemFits, GroupFits, ConnFits

LEMMA ResolveHits ==
    ASSUME NEW kind, NEW candidates, NEW parent, NEW i \in Resolve(kind, candidates, parent)
    PROVE  /\ i \in Id /\ item[i] # None /\ item[i].kind = kind
           /\ parent = None \/ item[i].parent = parent
           /\ \E k \in DOMAIN candidates : candidates[k] \in {Number(i), item[i].name}
  BY DEF Resolve, Live

\* The first candidate decides, when it is the name of an item.
LEMMA ResolveFirst ==
    ASSUME NEW kind, NEW candidates \in Seq(Candidate), candidates # <<>>,
           candidates[1] \in Name, NEW parent, NEW g \in Live(kind),
           parent = None \/ item[g].parent = parent, item[g].name = candidates[1]
    PROVE  Resolve(kind, candidates, parent)
             = {i \in Live(kind) : /\ parent = None \/ item[i].parent = parent
                                   /\ item[i].name = candidates[1]}
  <1> DEFINE Inside == {i \in Live(kind) : parent = None \/ item[i].parent = parent}
             Hit(k) == {i \in Inside : candidates[k] \in {Number(i), item[i].name}}
             First == {k \in DOMAIN candidates :
                          Hit(k) # {} /\ \A j \in 1..(k - 1) : Hit(j) = {}}
  <1>1. Resolve(kind, candidates, parent) = UNION {Hit(k) : k \in First}
    BY DEF Resolve
  <1>2. Hit(1) = {i \in Inside : item[i].name = candidates[1]}
    BY NameNotNumber
  <1>3. g \in Hit(1)
    BY <1>2
  <1>4. DOMAIN candidates = 1..Len(candidates) /\ Len(candidates) \in Nat /\ Len(candidates) # 0
    OBVIOUS
  <1> HIDE DEF Inside, Hit
  <1>5. First = {1}
    BY <1>3, <1>4
  <1>6. Resolve(kind, candidates, parent) = Hit(1)
    BY <1>1, <1>5
  <1> QED
    BY <1>2, <1>6 DEF Inside

\* An upsert finds items of its agent only, and connections only in its group.
LEMMA LookupFits ==
    ASSUME TypeOK, ItemsFit, NEW q \in Progress, RequestFits(q, item, madeFor),
           q.stage # "serve", q.at # "over", NEW candidates,
           WantsGroup(q) => \A k \in DOMAIN candidates :
                               candidates[k] \in GroupName(q.call.agent, madeFor),
           NEW i \in Lookup(q, candidates)
    PROVE  /\ i \in Id /\ item[i] # None /\ item[i].name \in Name
           /\ item[i].kind = KindOf(q) /\ madeFor[i] = q.call.agent
           /\ WantsGroup(q) => item[i].name \in GroupName(q.call.agent, madeFor)
           /\ ~WantsGroup(q) => item[i].parent = InUse(q).gid
  <1>1. q.call.agent \in Agent /\ madeFor \in [Id -> Agent \cup {None}]
    BY ProgressFields DEF TypeOK
  <1>2. /\ UpsertFits(q, item, madeFor)
        /\ MappingFits(InUse(q), q.call.agent, item, madeFor)
    BY DEF RequestFits, UnderWay, BaseFits, InUse
  <1>3. CASE WantsGroup(q)
    <2>1. i \in Resolve("group", candidates, None)
      BY <1>3 DEF Lookup
    <2>2. /\ i \in Id /\ item[i] # None /\ item[i].kind = "group"
          /\ \E k \in DOMAIN candidates : candidates[k] \in {Number(i), item[i].name}
      BY <2>1, ResolveHits
    <2>3. /\ madeFor[i] \in Agent /\ item[i].name \in Name
          /\ item[i].name \in GroupName(madeFor[i], madeFor)
      BY <2>2, ItemFacts DEF GroupFits
    <2>4. item[i].name \in GroupName(q.call.agent, madeFor)
      <3>1. PICK k \in DOMAIN candidates : candidates[k] \in {Number(i), item[i].name}
        BY <2>2
      <3>2. candidates[k] \in GroupName(q.call.agent, madeFor)
        BY <1>3
      <3>3. candidates[k] \in Name
        BY <1>1, <3>2, GroupNameType
      <3>4. candidates[k] # Number(i)
        BY <3>3, NameNotNumber
      <3> QED
        BY <3>1, <3>2, <3>4
    <2>5. madeFor[i] = q.call.agent
      BY <1>1, <2>3, <2>4, GroupNamesApart
    <2> QED
      BY <1>3, <2>2, <2>3, <2>4, <2>5 DEF KindOf
  <1>4. CASE ~WantsGroup(q)
    <2>1. i \in Resolve("conn", candidates, InUse(q).gid) /\ InUse(q).gid # None
      BY <1>2, <1>4 DEF Lookup, UpsertFits
    <2>2. i \in Id /\ item[i] # None /\ item[i].kind = "conn" /\ item[i].parent = InUse(q).gid
      BY <2>1, ResolveHits
    <2>3. madeFor[InUse(q).gid] = madeFor[i] /\ item[i].name \in Name
      BY <2>2, ItemFacts DEF ConnFits
    <2>4. madeFor[InUse(q).gid] = q.call.agent
      BY <1>2, <2>1 DEF MappingFits, Refers
    <2> QED
      BY <1>4, <2>2, <2>3, <2>4 DEF KindOf
  <1> QED
    BY <1>3, <1>4

\* The candidates of an upsert, and the name it is given.
LEMMA CandidatesFit ==
    ASSUME NEW it, NEW mf, NEW q \in Progress, RequestFits(q, it, mf),
           q.stage # "serve", q.at # "over"
    PROVE  /\ Candidates(q) \in Seq(Candidate) /\ GivenName(q) \in Name
           /\ WantsGroup(q) => /\ GivenName(q) \in GroupName(q.call.agent, mf)
                               /\ \A k \in DOMAIN Candidates(q) :
                                     Candidates(q)[k] \in GroupName(q.call.agent, mf)
  <1>1. /\ q.call.agent \in Agent /\ InUse(q) \in Mapping /\ q.map \in Mapping
        /\ q.work \in Mapping /\ q.stage \in Stage /\ q.user \in VmUser \cup {None}
    BY ProgressFields
  <1>2. MappingFits(InUse(q), q.call.agent, it, mf) /\ UnderWay(q, it, mf)
    BY DEF RequestFits, BaseFits, InUse
  <1>3. CASE WantsGroup(q)
    <2>1. Candidates(q) = InUse(q).gcands /\ GivenName(q) = InUse(q).gname
      BY <1>3 DEF Candidates, GivenName, WantsGroup
    <2>2. /\ InUse(q).gcands \in Seq(Candidate) /\ InUse(q).gname \in Name
          /\ InUse(q).gname \in GroupName(q.call.agent, mf)
          /\ \A k \in DOMAIN InUse(q).gcands : InUse(q).gcands[k] \in GroupName(q.call.agent, mf)
      <3>1. InUse(q).gcands \in Seq(Candidate) /\ InUse(q).gname \in Name
        BY <1>1, MappingFields
      <3> QED
        BY <1>2, <3>1 DEF MappingFits
    <2> QED
      BY <2>1, <2>2
  <1>4. CASE q.stage = "main"
    <2>1. ~WantsGroup(q)
      BY <1>4 DEF WantsGroup
    <2>2. Candidates(q) = q.work.ccands /\ GivenName(q) = q.work.cname
      BY <1>4, <2>1 DEF Candidates, GivenName
    <2> QED
      BY <1>1, <2>1, <2>2, MappingFields
  <1>5. CASE q.stage \in {"users", "record"}
    <2>1. ~WantsGroup(q) /\ q.stage # "main"
      BY <1>5 DEF WantsGroup
    <2>2. Candidates(q) = <<GivenName(q)>>
      BY <2>1 DEF Candidates
    <2>3. GivenName(q) \in Name
      <3>1. CASE q.stage = "users"
        <4>1. GivenName(q) = UserName(q.user)
          BY <2>1, <3>1 DEF GivenName
        <4>2. q.user \in VmUser
          BY <1>1, <1>2, <3>1 DEF UnderWay
        <4> QED
          BY <4>1, <4>2, NamesTyped
      <3>2. CASE q.stage = "record"
        <4>1. GivenName(q) = Recorded(q.map.cname)
          BY <2>1, <3>2 DEF GivenName
        <4> QED
          BY <1>1, <4>1, MappingFields, RecordedType
      <3> QED
        BY <1>5, <3>1, <3>2
    <2>4. <<GivenName(q)>> \in Seq(Candidate)
      BY <2>3, CandidatesTyped
    <2> QED
      BY <2>1, <2>2, <2>3, <2>4
  <1> QED
    BY <1>1, <1>3, <1>4, <1>5 DEF Stage, WantsGroup

-----------------------------------------------------------------------------
(* The steps of one request that leave Guacamole as it is                  *)

LEMMA ReqTyped ==
    ASSUME IInv, NEW r \in Request, req[r] # None
    PROVE  /\ req[r] \in Progress /\ RequestFits(req[r], item, madeFor)
           /\ req[r].calm => Calm(req[r])
  BY DEF IInv, TypeOK, RequestsFit

\* What is in place stays in place while the items do not change.
LEMMA CalmKept ==
    ASSUME UNCHANGED item, NEW s \in Request
    PROVE  Calm(req'[s]) => Calm(req[s])'
  <1>1. Target(req'[s]) = Target(req[s])'
    BY DEF Target, GroupOf, MainIn, OwnIn, TwinIn, ConnsIn, Live, Fits
  <1>2. Awaits(req'[s]) => Awaits(req[s])'
    BY DEF Awaits, InPlace, GroupOf, KeptIn, MainIn, OwnIn, TwinIn, ConnsIn, Live, Fits,
           SignedIn
  <1> QED
    BY <1>1, <1>2 DEF Calm

LEMMA RequestStep ==
    ASSUME IInv, NEW r \in Request, NEW p \in Progress,
           RequestFits(p, item, madeFor), p.calm => Calm(p), Goes(r, p),
           UNCHANGED <<item, next, madeFor>>,
           count' \in [calls : 0..MaxCalls, faults : 0..MaxFaults, admin : 0..MaxAdmin],
           stored' \in [Agent -> Mapping \cup {None}],
           \A a \in Agent : stored'[a] # None => RowFits(stored'[a], a, item, madeFor)
    PROVE  IInv'
  <1>1. TypeOK'
    BY DEF IInv, TypeOK, Goes
  <1>2. ItemsFit' /\ NamesDiffer' /\ RowsFit'
    BY DEF IInv, ItemsFit, NamesDiffer, RowsFit
  <1>3. RequestsFit'
    <2> SUFFICES ASSUME NEW s \in Request, req'[s] # None
                 PROVE  /\ RequestFits(req'[s], item', madeFor')
                        /\ req'[s].calm => Calm(req[s])'
      BY DEF RequestsFit
    <2>1. req'[s] = IF s = r THEN p ELSE req[s]
      BY DEF Goes, IInv, TypeOK
    <2>2. /\ RequestFits(req'[s], item, madeFor)
          /\ req'[s].calm => Calm(req'[s])
      BY <2>1, ReqTyped
    <2>3. Calm(req'[s]) => Calm(req[s])'
      BY CalmKept
    <2> QED
      BY <2>2, <2>3
  <1> QED
    BY <1>1, <1>2, <1>3 DEF IInv

LEMMA KeepStep ==
    ASSUME IInv, NEW r \in Request, NEW p \in Progress,
           RequestFits(p, item, madeFor), p.calm => Calm(p), Goes(r, p),
           UNCHANGED <<item, next, madeFor, stored>>,
           count' \in [calls : 0..MaxCalls, faults : 0..MaxFaults, admin : 0..MaxAdmin]
    PROVE  IInv'
  <1>1. /\ stored' \in [Agent -> Mapping \cup {None}]
        /\ \A a \in Agent : stored'[a] # None => RowFits(stored'[a], a, item, madeFor)
    BY DEF IInv, TypeOK, RowsFit
  <1> QED
    BY <1>1, RequestStep

\* A request goes on inside an upsert.
Onward(q, p) ==
    /\ p.call = q.call /\ p.map = q.map /\ p.work = q.work /\ p.stage = q.stage
    /\ p.user = q.user /\ p.left = q.left /\ p.answer = q.answer /\ p.calm = q.calm
    /\ p.at \in Point \ {"find", "lookup", "store", "over"}

LEMMA OnwardFits ==
    ASSUME NEW it, NEW mf, NEW q \in Progress, RequestFits(q, it, mf),
           q.stage # "serve", q.at # "over", NEW p \in Progress, Onward(q, p),
           UpsertFits(p, it, mf),
           p.stage = "group" /\ p.work.gid # None =>
               \/ p.id = p.work.gid /\ p.at \notin {"refind", "refind2", "post"}
               \/ it[p.work.gid] = None
    PROVE  RequestFits(p, it, mf)
  <1>1. BaseFits(p, it, mf) /\ UnderWay(q, it, mf) /\ WorkFits(q, it)
    BY DEF RequestFits, BaseFits, UnderWay, Onward
  <1>2. WorkFits(p, it)
    BY <1>1 DEF WorkFits, Onward
  <1>3. UnderWay(p, it, mf)
    BY <1>1, <1>2 DEF UnderWay, Onward
  <1>4. p.answer = None
    BY <1>1 DEF UnderWay, Onward
  <1> QED
    BY <1>1, <1>3, <1>4 DEF RequestFits

LEMMA OnwardUses ==
    ASSUME NEW q, NEW p, Onward(q, p)
    PROVE  /\ InUse(p) = InUse(q) /\ WantsGroup(p) = WantsGroup(q) /\ KindOf(p) = KindOf(q)
           /\ p.at \notin {"find", "lookup", "store", "over"}
  BY DEF Onward, InUse, WantsGroup, KindOf

\* What an upsert writes fits.
LEMMA PayloadFit ==
    ASSUME NEW it, NEW mf, NEW q \in Progress, RequestFits(q, it, mf),
           q.stage # "serve", q.at # "over", NEW name \in Name, NEW seen \in Item \cup {None},
           WantsGroup(q) => name \in GroupName(q.call.agent, mf),
           WantsGroup(q) /\ seen # None => seen.parent = Root
    PROVE  /\ Payload(q, name, seen) \in Item
           /\ Payload(q, name, seen).name = name
           /\ WantsGroup(q) => GroupFits(Payload(q, name, seen), q.call.agent, mf)
           /\ ~WantsGroup(q) => /\ Payload(q, name, seen).kind = "conn"
                                /\ Payload(q, name, seen).parent = InUse(q).gid
  <1>1. /\ InUse(q) \in Mapping /\ q.call \in CallType /\ q.user \in VmUser \cup {None}
        /\ UpsertFits(q, it, mf)
    BY ProgressFields DEF RequestFits, UnderWay
  <1>2. /\ InUse(q).gid \in Id \cup {None} /\ InUse(q).files \in BOOLEAN
        /\ q.call.who \in VmUser \cup {None} /\ q.call.owner \in Operator \cup {None}
    BY <1>1, MappingFields DEF CallType
  <1>3. 0 \in 0..MaxId /\ Id \subseteq 0..MaxId
    BY BoundsAssumption DEF Id
  <1>4. CASE WantsGroup(q)
    <2>1. Payload(q, name, seen) =
             [kind |-> "group", name |-> name, parent |-> Root,
              who |-> None, owner |-> None, files |-> TRUE]
      BY <1>4 DEF Payload, GroupPayload
    <2> QED
      BY <1>3, <1>4, <2>1 DEF Item, GroupFits, Root
  <1>5. CASE ~WantsGroup(q)
    <2> DEFINE own == IF q.stage = "users" THEN q.user ELSE q.call.who
               who == IF own = None /\ seen # None THEN seen.who ELSE own
               owner == IF q.stage = "record" THEN q.call.owner ELSE None
               parent == InUse(q).gid
               files == InUse(q).files
    <2>1. InUse(q).gid \in Id /\ InUse(q).gid # None
      BY <1>1, <1>2, <1>5 DEF UpsertFits
    <2>2. who \in VmUser \cup {None} /\ owner \in Operator \cup {None}
      BY <1>1, <1>2 DEF Item
    <2>3. Payload(q, name, seen) =
             [kind |-> "conn", name |-> name, parent |-> parent,
              who |-> who, owner |-> owner, files |-> files]
      BY <1>5, <2>1 DEF Payload, ConnPayload
    <2>4. parent \in 0..MaxId /\ files \in BOOLEAN
      BY <1>2, <1>3, <2>1
    <2> HIDE DEF own, who, owner, parent, files
    <2>5. Payload(q, name, seen) \in Item
      BY <2>2, <2>3, <2>4 DEF Item
    <2> QED
      BY <1>5, <2>3, <2>5 DEF parent
  <1> QED
    BY <1>4, <1>5

\* The upsert has an item to look at.
Picked(q, id, name, at) == [q EXCEPT !.id = id, !.name = name, !.at = at]

LEMMA PickedFits ==
    ASSUME NEW it, NEW mf, NEW q \in Progress, RequestFits(q, it, mf),
           q.stage # "serve", q.at # "over", NEW id \in Id, NEW name \in Name,
           NEW at \in {"get", "reget", "reget2"}, at = "reget2" => q.payload # None,
           mf[id] = q.call.agent, it[id] # None => it[id].kind = KindOf(q),
           WantsGroup(q) => name \in GroupName(q.call.agent, mf),
           ~WantsGroup(q) /\ it[id] # None => it[id].parent = InUse(q).gid,
           q.stage = "group" /\ q.work.gid # None => id = q.work.gid \/ it[q.work.gid] = None
    PROVE  /\ Picked(q, id, name, at) \in Progress /\ Onward(q, Picked(q, id, name, at))
           /\ Picked(q, id, name, at).id = id /\ Picked(q, id, name, at).at = at
           /\ RequestFits(Picked(q, id, name, at), it, mf)
  <1> DEFINE p == Picked(q, id, name, at)
  <1>1. at \in Point \ {"find", "lookup", "store", "over", "refind", "refind2", "post"}
    BY DEF Point
  <1>2. p \in Progress
    BY <1>1, Zenon DEF Progress, Picked
  <1>3. Onward(q, p)
    BY <1>1 DEF Progress, Picked, Onward
  <1>4. p.id = id /\ p.at = at /\ p.name = name /\ p.payload = q.payload
    BY DEF Progress, Picked
  <1>5. id # None
    BY NoneAssumption DEF Id
  <1> HIDE DEF p
  <1>6. UpsertFits(q, it, mf)
    BY DEF RequestFits, UnderWay
  <1>7. /\ p.call = q.call /\ p.work = q.work /\ p.stage = q.stage
        /\ InUse(p) = InUse(q) /\ WantsGroup(p) = WantsGroup(q) /\ KindOf(p) = KindOf(q)
    BY <1>3, OnwardUses DEF Onward
  <1>8. UpsertFits(p, it, mf)
    BY <1>4, <1>5, <1>6, <1>7 DEF UpsertFits, Refers, PayloadFits
  <1>9. RequestFits(p, it, mf)
    <2>1. p.stage = "group" /\ p.work.gid # None =>
             \/ p.id = p.work.gid /\ p.at \notin {"refind", "refind2", "post"}
             \/ it[p.work.gid] = None
      BY <1>1, <1>4, <1>7
    <2> QED
      BY <1>2, <1>3, <1>8, <2>1, OnwardFits
  <1> QED
    BY <1>2, <1>3, <1>4, <1>9 DEF p

\* The upsert is to make its item.
LEMMA CreateFits ==
    ASSUME NEW it, NEW mf, NEW q \in Progress, RequestFits(q, it, mf),
           q.stage # "serve", q.at # "over", NEW name \in Name,
           WantsGroup(q) => name \in GroupName(q.call.agent, mf),
           q.stage = "group" /\ q.work.gid # None => it[q.work.gid] = None
    PROVE  /\ Create(q, name) \in Progress /\ Onward(q, Create(q, name))
           /\ RequestFits(Create(q, name), it, mf)
  <1> DEFINE p == Create(q, name)
             pl == Payload(q, name, None)
  <1>1. /\ pl \in Item /\ pl # None
        /\ WantsGroup(q) => GroupFits(pl, q.call.agent, mf)
        /\ ~WantsGroup(q) => pl.kind = "conn" /\ pl.parent = InUse(q).gid
    BY PayloadFit, NoRecordAssumption
  <1> HIDE DEF pl
  <1>2. p = [q EXCEPT !.at = "post", !.id = None, !.name = name, !.payload = pl]
    BY DEF Create, pl
  <1>3. "post" \in Point \ {"find", "lookup", "store", "over"}
    BY DEF Point
  <1> HIDE DEF p
  <1>4. p \in Progress
    BY <1>1, <1>2, <1>3, Zenon DEF Progress
  <1>5. Onward(q, p)
    BY <1>2, <1>3 DEF Progress, Onward
  <1>6. p.id = None /\ p.at = "post" /\ p.name = name /\ p.payload = pl
    BY <1>2 DEF Progress
  <1>7. /\ p.call = q.call /\ p.work = q.work /\ p.stage = q.stage
        /\ InUse(p) = InUse(q) /\ WantsGroup(p) = WantsGroup(q) /\ KindOf(p) = KindOf(q)
    BY <1>5, OnwardUses DEF Onward
  <1>8. UpsertFits(q, it, mf)
    BY DEF RequestFits, UnderWay
  <1>9. UpsertFits(p, it, mf)
    BY <1>1, <1>6, <1>7, <1>8 DEF UpsertFits, Refers, PayloadFits
  <1>10. RequestFits(p, it, mf)
    BY <1>4, <1>5, <1>7, <1>9, OnwardFits
  <1> QED
    BY <1>4, <1>5, <1>10 DEF p

\* The upsert is to write over its item.
Writing(q, name, pl) == [q EXCEPT !.at = "put", !.name = name, !.payload = pl]

LEMMA WritingFits ==
    ASSUME NEW it, NEW mf, NEW q \in Progress, RequestFits(q, it, mf),
           q.stage # "serve", q.at \in {"get", "reget"}, NEW name \in Name, NEW pl \in Item,
           WantsGroup(q) => name \in GroupName(q.call.agent, mf),
           WantsGroup(q) => GroupFits(pl, q.call.agent, mf),
           ~WantsGroup(q) => pl.kind = "conn" /\ pl.parent = InUse(q).gid
    PROVE  /\ Writing(q, name, pl) \in Progress /\ Onward(q, Writing(q, name, pl))
           /\ RequestFits(Writing(q, name, pl), it, mf)
  <1> DEFINE p == Writing(q, name, pl)
  <1>1. "put" \in Point \ {"find", "lookup", "store", "over"} /\ pl # None
    BY NoRecordAssumption DEF Point
  <1>2. p \in Progress
    BY <1>1, Zenon DEF Progress, Writing
  <1>3. Onward(q, p)
    BY <1>1 DEF Progress, Onward, Writing
  <1>4. p.id = q.id /\ p.at = "put" /\ p.name = name /\ p.payload = pl
    BY DEF Progress, Writing
  <1> HIDE DEF p
  <1>5. /\ p.call = q.call /\ p.work = q.work /\ p.stage = q.stage
        /\ InUse(p) = InUse(q) /\ WantsGroup(p) = WantsGroup(q) /\ KindOf(p) = KindOf(q)
    BY <1>3, OnwardUses DEF Onward
  <1>6. UpsertFits(q, it, mf) /\ WorkFits(q, it)
    BY DEF RequestFits, UnderWay
  <1>7. UpsertFits(p, it, mf)
    BY <1>1, <1>4, <1>5, <1>6 DEF UpsertFits, Refers, PayloadFits
  <1>8. p.stage = "group" /\ p.work.gid # None =>
             \/ p.id = p.work.gid /\ p.at \notin {"refind", "refind2", "post"}
             \/ it[p.work.gid] = None
    BY <1>4, <1>5, <1>6 DEF WorkFits
  <1>9. RequestFits(p, it, mf)
    BY <1>2, <1>3, <1>7, <1>8, OnwardFits
  <1> QED
    BY <1>2, <1>3, <1>9 DEF p

\* The upsert looks again, or writes again.
MovedTo(q, at) == [q EXCEPT !.at = at]

LEMMA MovedFits ==
    ASSUME NEW it, NEW mf, NEW q \in Progress, RequestFits(q, it, mf),
           q.stage # "serve", q.at \in {"get", "put", "reget2"},
           NEW at \in {"refind", "refind2", "reput"},
           q.at = "get" => at = "refind",
           at \in {"refind", "refind2"} => it[q.id] = None
    PROVE  /\ MovedTo(q, at) \in Progress /\ Onward(q, MovedTo(q, at))
           /\ RequestFits(MovedTo(q, at), it, mf)
  <1> DEFINE p == MovedTo(q, at)
  <1>1. at \in Point \ {"find", "lookup", "store", "over", "get"}
    BY DEF Point
  <1>2. p \in Progress
    BY <1>1, Zenon DEF Progress, MovedTo
  <1>3. Onward(q, p)
    BY <1>1 DEF Progress, Onward, MovedTo
  <1>4. p.id = q.id /\ p.at = at /\ p.name = q.name /\ p.payload = q.payload
    BY DEF Progress, MovedTo
  <1> HIDE DEF p
  <1>5. /\ p.call = q.call /\ p.work = q.work /\ p.stage = q.stage
        /\ InUse(p) = InUse(q) /\ WantsGroup(p) = WantsGroup(q) /\ KindOf(p) = KindOf(q)
    BY <1>3, OnwardUses DEF Onward
  <1>6. UpsertFits(q, it, mf) /\ WorkFits(q, it)
    BY DEF RequestFits, UnderWay
  <1>7. UpsertFits(p, it, mf)
    BY <1>1, <1>4, <1>5, <1>6 DEF UpsertFits, Refers, PayloadFits
  <1>8. p.stage = "group" /\ p.work.gid # None =>
             \/ p.id = p.work.gid /\ p.at \notin {"refind", "refind2", "post"}
             \/ it[p.work.gid] = None
    BY <1>4, <1>5, <1>6 DEF WorkFits
  <1>9. RequestFits(p, it, mf)
    BY <1>2, <1>3, <1>7, <1>8, OnwardFits
  <1> QED
    BY <1>2, <1>3, <1>9 DEF p

\* The item to write over is gone: the upsert makes it instead.
Remaking(q) == [q EXCEPT !.at = "post", !.id = None]

LEMMA RemakingFits ==
    ASSUME NEW it, NEW mf, NEW q \in Progress, RequestFits(q, it, mf),
           q.stage # "serve", q.at = "refind2"
    PROVE  /\ Remaking(q) \in Progress /\ Onward(q, Remaking(q))
           /\ RequestFits(Remaking(q), it, mf)
  <1> DEFINE p == Remaking(q)
  <1>1. "post" \in Point \ {"find", "lookup", "store", "over"}
    BY DEF Point
  <1>2. p \in Progress
    BY <1>1, Zenon DEF Progress, Remaking
  <1>3. Onward(q, p)
    BY <1>1 DEF Progress, Onward, Remaking
  <1>4. p.id = None /\ p.at = "post" /\ p.name = q.name /\ p.payload = q.payload
    BY DEF Progress, Remaking
  <1> HIDE DEF p
  <1>5. /\ p.call = q.call /\ p.work = q.work /\ p.stage = q.stage
        /\ InUse(p) = InUse(q) /\ WantsGroup(p) = WantsGroup(q) /\ KindOf(p) = KindOf(q)
    BY <1>3, OnwardUses DEF Onward
  <1>6. UpsertFits(q, it, mf) /\ WorkFits(q, it)
    BY DEF RequestFits, UnderWay
  <1>7. UpsertFits(p, it, mf)
    BY <1>4, <1>5, <1>6 DEF UpsertFits, Refers, PayloadFits
  <1>8. p.stage = "group" /\ p.work.gid # None => it[p.work.gid] = None
    BY <1>5, <1>6 DEF WorkFits
  <1>9. RequestFits(p, it, mf)
    BY <1>2, <1>3, <1>7, <1>8, OnwardFits
  <1> QED
    BY <1>2, <1>3, <1>9 DEF p

-----------------------------------------------------------------------------
(* A calm request                                                          *)

\* In a group the name of a connection finds that connection and no other.
LEMMA ConnFound ==
    ASSUME IInv, NEW g \in Id, NEW candidates \in Seq(Candidate), candidates # <<>>,
           candidates[1] \in Name, NEW i \in ConnsIn(g), item[i].name = candidates[1]
    PROVE  Resolve("conn", candidates, g) = {i}
  <1>1. i \in Live("conn") /\ item[i].parent = g
    BY DEF ConnsIn
  <1>2. Resolve("conn", candidates, g)
          = {j \in Live("conn") : (g = None \/ item[j].parent = g) /\ item[j].name = candidates[1]}
    BY <1>1, ResolveFirst
  <1>3. g # None
    BY NoneAssumption DEF Id
  <1>4. ASSUME NEW j \in Live("conn"), item[j].parent = g, item[j].name = candidates[1]
        PROVE  j = i
    BY <1>1, <1>4 DEF IInv, NamesDiffer, Differ, Live
  <1> QED
    BY <1>1, <1>2, <1>3, <1>4

LEMMA TargetFound ==
    ASSUME IInv, NEW q \in Progress, RequestFits(q, item, madeFor),
           q.stage # "serve", q.at = "find", Awaits(q)
    PROVE  /\ GivenId(q) # None => GivenId(q) \in Target(q)
           /\ GivenId(q) = None => /\ Lookup(q, Candidates(q)) # {}
                                   /\ Lookup(q, Candidates(q)) \subseteq Target(q)
  <1>1. /\ q.call.agent \in Agent /\ q.map \in Mapping /\ q.work \in Mapping
        /\ q.stage \in Stage /\ q.user \in VmUser \cup {None}
    BY ProgressFields
  <1>2. /\ Candidates(q) \in Seq(Candidate) /\ GivenName(q) \in Name
        /\ WantsGroup(q) => \A k \in DOMAIN Candidates(q) :
                               Candidates(q)[k] \in GroupName(q.call.agent, madeFor)
    BY CandidatesFit
  <1>3. UnderWay(q, item, madeFor) /\ UpsertFits(q, item, madeFor) /\ WorkFits(q, item)
    BY DEF RequestFits, UnderWay
  <1>4. CASE q.stage = "group"
    <2>1. /\ GivenId(q) = q.work.gid /\ Target(q) = GroupOf(q.work)
          /\ Candidates(q) = q.work.gcands
          /\ Lookup(q, Candidates(q)) = Resolve("group", Candidates(q), None)
      BY <1>4 DEF GivenId, Target, Candidates, Lookup, WantsGroup, InUse
    <2>2. PICK g \in GroupOf(q.work) : TRUE
      BY <1>4 DEF Awaits, InPlace
    <2>3. ASSUME q.work.gid # None PROVE q.work.gid \in GroupOf(q.work)
      BY <2>2, <2>3 DEF GroupOf
    <2>4. ASSUME q.work.gid = None
          PROVE  Lookup(q, Candidates(q)) = GroupOf(q.work)
      <3>1. q.work.gcands # <<>> /\ q.work.gcands \in Seq(Candidate)
        BY <1>2, <1>3, <1>4, <2>1, <2>4 DEF WorkFits, LeadsFit
      <3>2. 1 \in DOMAIN q.work.gcands
        BY <3>1
      <3>3. q.work.gcands[1] \in GroupName(q.call.agent, madeFor)
        BY <1>2, <1>4, <2>1, <3>2 DEF WantsGroup
      <3>4. q.work.gcands[1] \in Name
        BY <1>1, <3>3, GroupNameType
      <3>5. g \in Live("group") /\ item[g].name = q.work.gcands[1]
        BY <2>2, <2>4 DEF GroupOf
      <3>6. Resolve("group", q.work.gcands, None)
              = {i \in Live("group") : /\ None = None \/ item[i].parent = None
                                       /\ item[i].name = q.work.gcands[1]}
        BY <3>1, <3>4, <3>5, ResolveFirst
      <3> QED
        BY <2>1, <2>4, <3>6 DEF GroupOf
    <2> QED
      BY <2>1, <2>2, <2>3, <2>4
  <1>5. CASE q.stage = "main"
    <2>1. /\ GivenId(q) = q.work.cid /\ Target(q) = MainIn(q.work.gid, q.call, q.work)
          /\ Candidates(q) = q.work.ccands
          /\ Lookup(q, Candidates(q)) = Resolve("conn", Candidates(q), q.work.gid)
      BY <1>5 DEF GivenId, Target, Candidates, Lookup, WantsGroup, InUse
    <2>2. PICK i \in MainIn(q.work.gid, q.call, q.work) : TRUE
      BY <1>5 DEF Awaits
    <2>3. ASSUME q.work.cid # None PROVE q.work.cid \in MainIn(q.work.gid, q.call, q.work)
      BY <2>2, <2>3 DEF MainIn
    <2>4. ASSUME q.work.cid = None PROVE Lookup(q, Candidates(q)) = {i}
      <3>1. q.work.ccands # <<>> /\ q.work.ccands[1] \in Name
        BY <1>3, <1>5, <2>4, NamesTyped DEF WorkFits, LeadsFit
      <3>2. q.work.gid \in Id
        BY <1>5 DEF Awaits, Live
      <3>3. i \in ConnsIn(q.work.gid) /\ item[i].name = q.work.ccands[1]
        BY <2>2, <2>4 DEF MainIn
      <3>4. Resolve("conn", q.work.ccands, q.work.gid) = {i}
        BY <1>2, <2>1, <3>1, <3>2, <3>3, ConnFound
      <3> QED
        BY <2>1, <3>4
    <2> QED
      BY <2>1, <2>2, <2>3, <2>4
  <1>6. CASE q.stage = "users"
    <2>1. /\ GivenId(q) = None /\ Target(q) = OwnIn(q.work.gid, q.user)
          /\ Candidates(q) = <<UserName(q.user)>>
          /\ Lookup(q, Candidates(q)) = Resolve("conn", Candidates(q), q.work.gid)
      BY <1>6 DEF GivenId, GivenName, Target, Candidates, Lookup, WantsGroup, InUse
    <2>2. q.user \in VmUser
      BY <1>1, <1>3, <1>6 DEF UnderWay
    <2>3. PICK i \in OwnIn(q.work.gid, q.user) : TRUE
      BY <1>6, <2>2 DEF Awaits, SignedIn
    <2>4. i \in ConnsIn(q.work.gid) /\ item[i].name = UserName(q.user)
      BY <2>3 DEF OwnIn
    <2>5. q.work.gid \in Id
      BY <1>6 DEF Awaits, Live
    <2>6. Resolve("conn", Candidates(q), q.work.gid) = {i}
      <3>1. Candidates(q) # <<>> /\ Candidates(q)[1] = UserName(q.user)
        BY <2>1
      <3>2. UserName(q.user) \in Name
        BY <2>2, NamesTyped
      <3> QED
        BY <1>2, <2>4, <2>5, <3>1, <3>2, ConnFound
    <2> QED
      BY <2>1, <2>3, <2>6
  <1>7. CASE q.stage = "regroup"
    <2>1. GivenId(q) = q.map.gid /\ Target(q) = {q.map.gid}
      BY <1>7 DEF GivenId, Target, WantsGroup, InUse
    <2>2. q.map.gid # None
      BY <1>7, NoneAssumption DEF Awaits, Live, Id
    <2> QED
      BY <2>1, <2>2
  <1>8. CASE q.stage = "record"
    <2>1. /\ GivenId(q) = None /\ Target(q) = TwinIn(q.map.gid, q.call, q.map.cname)
          /\ GivenName(q) = Recorded(q.map.cname) /\ Candidates(q) = <<GivenName(q)>>
          /\ Lookup(q, Candidates(q)) = Resolve("conn", Candidates(q), q.map.gid)
      BY <1>8 DEF GivenId, GivenName, Target, Candidates, Lookup, WantsGroup, InUse
    <2>2. PICK i \in TwinIn(q.map.gid, q.call, q.map.cname) : TRUE
      BY <1>8 DEF Awaits
    <2>3. i \in ConnsIn(q.map.gid) /\ item[i].name = GivenName(q)
      BY <2>1, <2>2 DEF TwinIn
    <2>4. q.map.gid \in Id
      BY <1>8 DEF Awaits, Live
    <2>5. Candidates(q) # <<>> /\ Candidates(q)[1] = GivenName(q)
      BY <2>1
    <2>6. Resolve("conn", Candidates(q), q.map.gid) = {i}
      BY <1>2, <2>3, <2>4, <2>5, ConnFound
    <2> QED
      BY <2>1, <2>2, <2>6
  <1> QED
    BY <1>1, <1>4, <1>5, <1>6, <1>7, <1>8 DEF Stage

LEMMA ItemIs ==
    ASSUME NEW x \in Item
    PROVE  x = [kind |-> x.kind, name |-> x.name, parent |-> x.parent,
                who |-> x.who, owner |-> x.owner, files |-> x.files]
  BY DEF Item

\* What a calm request reads already says what it would write.
LEMMA TargetMatches ==
    ASSUME IInv, NEW q \in Progress, RequestFits(q, item, madeFor),
           q.stage # "serve", q.at # "over", Awaits(q), q.id \in Target(q)
    PROVE  /\ q.id \in Id /\ item[q.id] # None
           /\ Payload(q, item[q.id].name, item[q.id]) = item[q.id]
  <1>1. /\ q.call.agent \in Agent /\ q.stage \in Stage /\ q.call \in Call
        /\ q.user \in VmUser \cup {None} /\ BaseFits(q, item, madeFor)
    BY ProgressFields DEF RequestFits, BaseFits
  <1>2. UnderWay(q, item, madeFor) /\ UpsertFits(q, item, madeFor)
    BY DEF RequestFits, UnderWay
  <1>3. CASE WantsGroup(q)
    <2>1. q.id \in Live("group")
      <3>1. CASE q.stage = "group"
        BY <3>1 DEF Target, GroupOf
      <3>2. CASE q.stage = "regroup"
        BY <3>2 DEF Target, Awaits
      <3> QED
        BY <1>3, <3>1, <3>2 DEF WantsGroup
    <2>2. q.id \in Id /\ item[q.id] # None /\ item[q.id].kind = "group"
      BY <2>1 DEF Live
    <2>3. GroupFits(item[q.id], madeFor[q.id], madeFor) /\ item[q.id] \in Item
      BY <2>2, ItemFacts DEF IInv
    <2>4. Payload(q, item[q.id].name, item[q.id])
            = [kind |-> "group", name |-> item[q.id].name, parent |-> item[q.id].parent,
               who |-> None, owner |-> None, files |-> TRUE]
      BY <1>3, <2>2 DEF Payload, GroupPayload
    <2>5. item[q.id]
            = [kind |-> item[q.id].kind, name |-> item[q.id].name, parent |-> item[q.id].parent,
               who |-> item[q.id].who, owner |-> item[q.id].owner, files |-> item[q.id].files]
      BY <2>3, ItemIs
    <2> QED
      BY <2>2, <2>3, <2>4, <2>5 DEF GroupFits
  <1>4. CASE ~WantsGroup(q)
    <2> DEFINE i == q.id
               own == IF q.stage = "users" THEN q.user ELSE q.call.who
               owner == IF q.stage = "record" THEN q.call.owner ELSE None
    <2>1. /\ i \in ConnsIn(InUse(q).gid) /\ own \in {None, item[i].who}
          /\ item[i].owner = owner /\ item[i].files = InUse(q).files
      <3>1. CASE q.stage = "main"
        BY <3>1 DEF Target, MainIn, Fits, InUse
      <3>2. CASE q.stage = "users"
        <4>1. i \in OwnIn(q.work.gid, q.user) /\ InUse(q) = q.work
          BY <3>2 DEF Target, InUse
        <4>2. q.work.files = TRUE
          BY <1>1, <1>2, <3>2 DEF BaseFits, UnderWay
        <4> QED
          BY <3>2, <4>1, <4>2 DEF OwnIn, Fits
      <3>3. CASE q.stage = "record"
        <4>1. i \in TwinIn(q.map.gid, q.call, q.map.cname) /\ InUse(q) = q.map
          BY <3>3 DEF Target, InUse
        <4>2. q.call.kind \in {"plain", "user"}
          BY <1>1, <1>2, <3>3, CallAssumption DEF UnderWay
        <4>3. q.map.files = TRUE
          BY <1>1, <4>2 DEF BaseFits
        <4> QED
          BY <3>3, <4>1, <4>3 DEF TwinIn, Fits
      <3> QED
        BY <1>1, <1>4, <3>1, <3>2, <3>3 DEF Stage, WantsGroup
    <2>2. i \in Id /\ item[i] # None /\ item[i].kind = "conn" /\ item[i].parent = InUse(q).gid
      BY <2>1 DEF ConnsIn, Live
    <2>3. InUse(q).gid # None
      BY <1>2, <1>4 DEF UpsertFits
    <2>4. item[i] \in Item
      BY <2>2, ItemFacts DEF IInv
    <2>5. Payload(q, item[i].name, item[i])
            = [kind |-> "conn", name |-> item[i].name, parent |-> InUse(q).gid,
               who |-> IF own = None /\ item[i] # None THEN item[i].who ELSE own,
               owner |-> owner, files |-> InUse(q).files]
      BY <1>4, <2>3 DEF Payload, ConnPayload
    <2>6. item[i]
            = [kind |-> item[i].kind, name |-> item[i].name, parent |-> item[i].parent,
               who |-> item[i].who, owner |-> item[i].owner, files |-> item[i].files]
      BY <2>4, ItemIs
    <2> HIDE DEF i, own, owner
    <2>7. Payload(q, item[i].name, item[i]) = item[i]
      BY <2>1, <2>2, <2>5, <2>6
    <2> QED
      BY <2>2, <2>7 DEF i
  <1> QED
    BY <1>3, <1>4

LEMMA CalmServe ==
    ASSUME NEW q \in Progress,
           q.call.recorded => /\ q.map.gid \in Live("group")
                              /\ TwinIn(q.map.gid, q.call, q.map.cname) # {}
    PROVE  Calm(Serve(q))
  <1>1. CASE q.call.recorded
    <2> DEFINE p == Start(q, "regroup")
    <2>1. Serve(q) = p /\ "regroup" \in Stage
      BY <1>1 DEF Serve, Stage
    <2>2. p.stage = "regroup" /\ p.at = "find" /\ p.call = q.call /\ p.map = q.map
      BY <2>1, StartIs
    <2> HIDE DEF p
    <2>3. Awaits(p)
      BY <1>1, <2>2 DEF Awaits
    <2> QED
      BY <2>1, <2>2, <2>3 DEF Calm
  <1>2. CASE ~q.call.recorded
    <2>1. Serve(q) = [q EXCEPT !.stage = "serve", !.at = "lookup"]
      BY <1>2 DEF Serve
    <2>2. Serve(q).at = "lookup"
      BY <2>1, LookupIs
    <2> QED
      BY <2>2 DEF Calm
  <1> QED
    BY <1>1, <1>2

\* A calm request goes on calmly after an upsert.
LEMMA CalmFinished ==
    ASSUME IInv, NEW q \in Progress, RequestFits(q, item, madeFor),
           q.stage # "serve", q.at # "over", Awaits(q), q.id \in Target(q),
           NEW p, p \in Finished(q, q.id, item[q.id].name), p.calm
    PROVE  Calm(p)
  <1> DEFINE id == q.id
             name == item[q.id].name
             c == q.call
  <1>1. /\ q.call.agent \in Agent /\ q.stage \in Stage /\ q.call \in Call
        /\ q.call \in CallType
        /\ q.map \in Mapping /\ q.work \in Mapping
        /\ q.user \in VmUser \cup {None} /\ q.left \in SUBSET VmUser
    BY ProgressFields DEF RequestFits, BaseFits
  <1>2. /\ UnderWay(q, item, madeFor) /\ UpsertFits(q, item, madeFor)
        /\ MappingFits(q.map, q.call.agent, item, madeFor)
        /\ MappingFits(q.work, q.call.agent, item, madeFor)
    BY DEF RequestFits, UnderWay, BaseFits
  <1>3. /\ id \in Id /\ id # None /\ item[id] # None
        /\ madeFor[id] = q.call.agent /\ item[id].kind = KindOf(q)
    BY <1>2, TargetMatches, NoneAssumption DEF UpsertFits, Refers, Id
  <1>4. /\ name \in Name
        /\ item[id].kind = "group" =>
              /\ name \in GroupName(q.call.agent, madeFor)
              /\ item[id].parent = Root
    BY <1>3, ItemFacts DEF IInv, GroupFits
  <1>5. CASE q.stage = "group"
    <2> DEFINE w == WithGroup(q.work, id, name)
               n == WithWork(q, w)
    <2>1. item[id].kind = "group" /\ name \in GroupName(q.call.agent, madeFor)
      BY <1>3, <1>4, <1>5 DEF KindOf, WantsGroup
    <2>2. /\ w \in Mapping /\ w.gid = id /\ w.cid = q.work.cid /\ w.ccands = q.work.ccands
          /\ w.files = q.work.files
      BY <1>1, <1>2, <1>3, <2>1, GroupKept
    <2>3. /\ n \in Progress /\ n.call = q.call /\ n.work = w /\ n.left = q.left
      <3> HIDE DEF w
      <3> QED
        BY <2>2, WithWorkIs
    <2>4. IF q.call.kind = "user" THEN p \in NextUser(n) ELSE p = Start(n, "main")
      BY <1>5, FinishedGroup
    <2>5. KeptIn(id, c, q.work)
      <3>1. PICK g \in GroupOf(q.work) : KeptIn(g, c, q.work)
        BY <1>5 DEF Awaits, InPlace
      <3>2. g = id
        <4>1. id \in GroupOf(q.work)
          BY <1>5 DEF Target
        <4>2. CASE q.work.gid # None
          BY <3>1, <4>1, <4>2 DEF GroupOf
        <4>3. CASE q.work.gid = None
          <5>1. /\ g \in Id /\ item[g] # None /\ item[g].kind = "group" /\ item[g].name = name
            BY <3>1, <4>1, <4>3 DEF GroupOf, Live
          <5>2. item[g].parent = Root
            BY <5>1, ItemFacts DEF IInv, GroupFits
          <5> QED
            BY <1>3, <1>4, <2>1, <5>1, <5>2 DEF IInv, NamesDiffer, Differ
        <4> QED
          BY <4>2, <4>3
      <3> QED
        BY <3>1, <3>2
    <2>6. id \in Live("group")
      BY <1>3, <2>1 DEF Live
    <2> HIDE DEF n, w
    <2>7. CASE q.call.kind = "user"
      <3>1. /\ p.call = q.call /\ p.work = w /\ p.stage = "users" /\ p.at = "find"
            /\ p.user \in q.left /\ p.left = q.left \ {p.user}
        BY <2>3, <2>4, <2>7, NextUserIs
      <3>2. q.left = VmUser /\ c.who \in VmUser
        BY <1>1, <1>5, <2>7, CallAssumption DEF Awaits, SignedIn, CallType
      <3>3. /\ \A u \in SignedIn : OwnIn(id, u) # {}
            /\ c.recorded => TwinIn(id, c, UserName(c.who)) # {}
        BY <2>5, <2>7 DEF KeptIn, OwnIn
      <3>4. Awaits(p)
        BY <2>2, <2>6, <3>1, <3>2, <3>3 DEF Awaits
      <3> QED
        BY <3>1, <3>4 DEF Calm
    <2>8. CASE q.call.kind # "user"
      <3>1. p.call = q.call /\ p.work = w /\ p.stage = "main" /\ p.at = "find"
        <4>1. p = Start(n, "main") /\ "main" \in Stage
          BY <2>4, <2>8 DEF Stage
        <4> QED
          BY <2>3, <4>1, StartIs
      <3>2. MainIn(id, c, w) = MainIn(id, c, q.work)
        BY <2>2 DEF MainIn
      <3>3. \E i \in MainIn(id, c, w) : c.recorded => TwinIn(id, c, item[i].name) # {}
        BY <2>5, <2>8, <3>2 DEF KeptIn
      <3>4. Awaits(p)
        BY <2>2, <2>6, <3>1, <3>3 DEF Awaits
      <3> QED
        BY <3>1, <3>4 DEF Calm
    <2> QED
      BY <2>7, <2>8
  <1>6. CASE q.stage = "main"
    <2> DEFINE m == Provisioned(q.work, q.call.agent, id, name)
    <2>1. item[id].kind = "conn" /\ q.work.gid # None
      BY <1>2, <1>3, <1>6 DEF WantsGroup, KindOf, UpsertFits, InUse
    <2>2. m \in Mapping /\ m.gid = q.work.gid /\ m.cname = name
      BY <1>1, <1>2, <1>3, <1>4, <2>1, ProvisionedFits
    <2>a. m = Provisioned(q.work, q.call.agent, id, name)
      OBVIOUS
    <2> HIDE DEF m
    <2>3. IF q.call.kind = "plain" THEN p = Serve(WithMap(q, m)) ELSE p = Storing(q, m)
      BY <1>6, <2>a, FinishedMain
    <2>4. CASE q.call.kind = "plain"
      <3> DEFINE n == WithMap(q, m)
      <3>1. n \in Progress /\ n.call = q.call /\ n.map = m
        BY <2>2, WithMapIs
      <3> HIDE DEF n
      <3>2. ASSUME q.call.recorded PROVE TwinIn(q.work.gid, c, name) # {}
        <4>1. PICK i \in MainIn(q.work.gid, c, q.work) :
                      c.recorded => TwinIn(q.work.gid, c, item[i].name) # {}
          BY <1>6 DEF Awaits
        <4>2. id \in MainIn(q.work.gid, c, q.work)
          BY <1>6 DEF Target
        <4>3. item[i].name = name
          BY <4>1, <4>2 DEF MainIn
        <4> QED
          BY <3>2, <4>1, <4>3
      <3>3. q.work.gid \in Live("group")
        BY <1>6 DEF Awaits
      <3>4. Calm(Serve(n))
        BY <2>2, <3>1, <3>2, <3>3, CalmServe
      <3> QED
        BY <2>3, <2>4, <3>4 DEF n
    <2>5. CASE q.call.kind # "plain"
      <3>1. p.at = "store"
        BY <2>3, <2>5 DEF Storing, Progress
      <3> QED
        BY <3>1 DEF Calm
    <2> QED
      BY <2>4, <2>5
  <1>7. CASE q.stage = "users"
    <2> DEFINE w == WithConn(q.work, id, name)
               n == IF q.user = q.call.who THEN WithWork(q, w) ELSE q
    <2>1. item[id].kind = "conn" /\ q.call.kind = "user" /\ q.user # None
      BY <1>2, <1>3, <1>7 DEF WantsGroup, KindOf, UnderWay
    <2>2. w \in Mapping /\ w.gid = q.work.gid /\ w.cname = name
      BY <1>1, <1>2, <1>3, <1>4, <2>1, ConnKept
    <2>3. IF q.left = {} THEN p = Serve(Matched(n)) ELSE p \in NextUser(n)
      BY <1>7, FinishedUsers
    <2> HIDE DEF w
    <2>4. /\ n \in Progress /\ n.call = q.call /\ n.left = q.left
          /\ n.work = IF q.user = q.call.who THEN w ELSE q.work
      BY <2>2, WithWorkIs
    <2>5. /\ q.work.gid \in Live("group")
          /\ \A u \in SignedIn : OwnIn(q.work.gid, u) # {}
          /\ c.recorded => TwinIn(q.work.gid, c, UserName(c.who)) # {}
          /\ c.who \notin q.left \cup {q.user} => q.work.cname = UserName(c.who)
      BY <1>7 DEF Awaits
    <2>6. name = UserName(q.user)
      BY <1>7 DEF Target, OwnIn
    <2> HIDE DEF n
    <2>7. /\ n.work.gid = q.work.gid
          /\ c.who \notin q.left => n.work.cname = UserName(c.who)
      BY <2>2, <2>4, <2>5, <2>6
    <2>8. CASE q.left = {}
      <3>1. /\ Matched(n) \in Progress /\ Matched(n).call = q.call
            /\ Matched(n).map.gid = q.work.gid /\ Matched(n).map.cname = UserName(c.who)
        BY <2>4, <2>7, <2>8, MatchedIs
      <3>2. Calm(Serve(Matched(n)))
        BY <2>5, <3>1, CalmServe
      <3> QED
        BY <2>3, <2>8, <3>2
    <2>9. CASE q.left # {}
      <3>1. /\ p.call = q.call /\ p.work = n.work /\ p.stage = "users" /\ p.at = "find"
            /\ p.user \in q.left /\ p.left = q.left \ {p.user}
        BY <2>3, <2>4, <2>9, NextUserIs
      <3>2. Awaits(p)
        BY <2>5, <2>7, <3>1 DEF Awaits
      <3> QED
        BY <3>1, <3>2 DEF Calm
    <2> QED
      BY <2>8, <2>9
  <1>8. CASE q.stage = "regroup"
    <2> DEFINE w == WithGroup(q.map, id, name)
               n == WithMap(q, w)
    <2>1. item[id].kind = "group" /\ name \in GroupName(q.call.agent, madeFor)
      BY <1>3, <1>4, <1>8 DEF KindOf, WantsGroup
    <2>2. w \in Mapping /\ w.gid = id /\ w.cname = q.map.cname
      BY <1>1, <1>2, <1>3, <2>1, GroupKept
    <2>3. n \in Progress /\ n.call = q.call /\ n.map = w
      <3> HIDE DEF w
      <3> QED
        BY <2>2, WithMapIs
    <2>4. p = Start(n, "record") /\ "record" \in Stage
      BY <1>8, FinishedRegroup DEF Stage
    <2> HIDE DEF n, w
    <2>5. p.call = q.call /\ p.map = w /\ p.stage = "record" /\ p.at = "find"
      BY <2>3, <2>4, StartIs
    <2>6. id = q.map.gid
      BY <1>8 DEF Target
    <2>7. Awaits(p)
      BY <1>8, <2>2, <2>5, <2>6 DEF Awaits
    <2> QED
      BY <2>5, <2>7 DEF Calm
  <1>9. CASE q.stage = "record"
    <2>1. p = Over(q, id)
      BY <1>9, FinishedRecord
    <2>2. p.calm = FALSE
      BY <2>1 DEF Over, Progress
    <2> QED
      BY <2>2
  <1> QED
    BY <1>1, <1>5, <1>6, <1>7, <1>8, <1>9 DEF Stage

-----------------------------------------------------------------------------
(* The steps                                                               *)

\* A request at a REST call of an upsert.
LEMMA UpsertFacts ==
    ASSUME IInv, NEW r \in Request, NEW points \in SUBSET (Point \ {"lookup", "store", "over"}),
           At(r, points)
    PROVE  /\ req[r] \in Progress /\ RequestFits(req[r], item, madeFor)
           /\ req[r].calm => Calm(req[r])
           /\ req[r].stage # "serve" /\ req[r].at # "over" /\ req[r].at \in points
           /\ UpsertFits(req[r], item, madeFor) /\ WorkFits(req[r], item)
  <1>1. req[r] # None /\ req[r].at \in points
    BY DEF At
  <1>2. /\ req[r] \in Progress /\ RequestFits(req[r], item, madeFor)
        /\ req[r].calm => Calm(req[r])
    BY <1>1, ReqTyped
  <1> QED
    BY <1>1, <1>2 DEF RequestFits, UnderWay

LEMMA CountKept ==
    ASSUME IInv, UNCHANGED count
    PROVE  count' \in [calls : 0..MaxCalls, faults : 0..MaxFaults, admin : 0..MaxAdmin]
  BY DEF IInv, TypeOK

\* A calm request that has found something found what is in place.
LEMMA PickedCalm ==
    ASSUME NEW q, NEW p, Onward(q, p), p.at = "get", Calm(q), q.at = "find",
           p.id \in Target(q)
    PROVE  Calm(p)
  <1>1. Awaits(q)
    BY DEF Calm
  <1>2. Awaits(p)
    BY <1>1 DEF Awaits, Onward
  <1>3. Target(p) = Target(q)
    BY DEF Target, Onward
  <1> QED
    BY <1>2, <1>3 DEF Calm

LEMMA FindStep ==
    ASSUME IInv, NEW r \in Request, Find(r)
    PROVE  IInv'
  <1> DEFINE q == req[r]
             name == GivenName(q)
             hits == Lookup(q, Candidates(q))
  <1>1. {"find"} \in SUBSET (Point \ {"lookup", "store", "over"}) /\ At(r, {"find"})
    BY DEF Find, Point
  <1>2. /\ q \in Progress /\ RequestFits(q, item, madeFor) /\ q.stage # "serve"
        /\ q.at = "find" /\ UpsertFits(q, item, madeFor) /\ WorkFits(q, item)
        /\ q.calm => Calm(q)
    BY <1>1, UpsertFacts
  <1>3. /\ Keep
        /\ \/ GivenId(q) # None /\ Goes(r, Picked(q, GivenId(q), name, "get"))
           \/ /\ GivenId(q) = None
              /\ \E i \in hits : Goes(r, Picked(q, i, item[i].name, "get"))
           \/ GivenId(q) = None /\ hits = {} /\ Goes(r, Create(q, name))
    BY DEF Find, Picked
  <1>4. /\ UNCHANGED <<item, next, madeFor, stored>>
        /\ count' \in [calls : 0..MaxCalls, faults : 0..MaxFaults, admin : 0..MaxAdmin]
    BY <1>3, CountKept DEF Keep
  <1> HIDE DEF q
  <1>5. /\ name \in Name
        /\ WantsGroup(q) => /\ name \in GroupName(q.call.agent, madeFor)
                            /\ \A k \in DOMAIN Candidates(q) :
                                  Candidates(q)[k] \in GroupName(q.call.agent, madeFor)
    BY <1>2, CandidatesFit
  <1>6. /\ q.map \in Mapping /\ q.work \in Mapping /\ q.call.agent \in Agent
        /\ MappingFits(q.map, q.call.agent, item, madeFor)
        /\ MappingFits(q.work, q.call.agent, item, madeFor)
    BY <1>2, ProgressFields DEF RequestFits, BaseFits
  <1>7. q.calm => /\ GivenId(q) # None => GivenId(q) \in Target(q)
                  /\ GivenId(q) = None => hits # {} /\ hits \subseteq Target(q)
    BY <1>2, TargetFound DEF Calm
  <1> HIDE DEF name, hits
  <1>8. ASSUME NEW id \in Id, NEW n \in Name,
               madeFor[id] = q.call.agent, item[id] # None => item[id].kind = KindOf(q),
               WantsGroup(q) => n \in GroupName(q.call.agent, madeFor),
               ~WantsGroup(q) /\ item[id] # None => item[id].parent = InUse(q).gid,
               q.stage = "group" /\ q.work.gid # None => id = q.work.gid,
               q.calm => id \in Target(q),
               Goes(r, Picked(q, id, n, "get"))
        PROVE  IInv'
    <2> DEFINE p == Picked(q, id, n, "get")
    <2>1. /\ p \in Progress /\ Onward(q, p) /\ p.id = id /\ p.at = "get"
          /\ RequestFits(p, item, madeFor)
      BY <1>2, <1>8, PickedFits
    <2> HIDE DEF p
    <2>2. p.calm = q.calm
      BY <2>1 DEF Onward
    <2>3. p.calm => Calm(p)
      BY <1>2, <1>8, <2>1, <2>2, PickedCalm
    <2>4. Goes(r, p)
      BY <1>8 DEF p
    <2> QED
      BY <1>4, <2>1, <2>3, <2>4, KeepStep
  <1>9. CASE GivenId(q) # None /\ Goes(r, Picked(q, GivenId(q), name, "get"))
    <2> DEFINE id == GivenId(q)
    <2>1. \/ WantsGroup(q) /\ id = InUse(q).gid
          \/ q.stage = "main" /\ ~WantsGroup(q) /\ id = q.work.cid
      BY <1>9 DEF GivenId, WantsGroup
    <2>2. MappingFits(InUse(q), q.call.agent, item, madeFor) /\ InUse(q) \in Mapping
      BY <1>6 DEF InUse
    <2>3. /\ id \in Id /\ madeFor[id] = q.call.agent
          /\ item[id] # None => item[id].kind = KindOf(q)
      <3>1. CASE WantsGroup(q) /\ id = InUse(q).gid
        BY <1>9, <2>2, <3>1, MappingFields DEF MappingFits, Refers, KindOf
      <3>2. CASE q.stage = "main" /\ ~WantsGroup(q) /\ id = q.work.cid
        BY <1>6, <1>9, <3>2, MappingFields DEF MappingFits, Refers, KindOf
      <3> QED
        BY <2>1, <3>1, <3>2
    <2>4. ~WantsGroup(q) /\ item[id] # None => item[id].parent = InUse(q).gid
      BY <1>2, <1>9, <2>1 DEF WorkFits, PairFits, InUse
    <2>5. q.stage = "group" => id = q.work.gid
      BY <2>1 DEF InUse
    <2>6. q.calm => id \in Target(q)
      BY <1>7, <1>9
    <2>7. Goes(r, Picked(q, id, name, "get"))
      BY <1>9
    <2> HIDE DEF id
    <2> QED
      BY <1>5, <1>8, <2>3, <2>4, <2>5, <2>6, <2>7
  <1>10. CASE /\ GivenId(q) = None
              /\ \E i \in hits : Goes(r, Picked(q, i, item[i].name, "get"))
    <2>1. PICK i \in hits : Goes(r, Picked(q, i, item[i].name, "get"))
      BY <1>10
    <2>2. /\ i \in Id /\ item[i] # None /\ item[i].name \in Name
          /\ item[i].kind = KindOf(q) /\ madeFor[i] = q.call.agent
          /\ WantsGroup(q) => item[i].name \in GroupName(q.call.agent, madeFor)
          /\ ~WantsGroup(q) => item[i].parent = InUse(q).gid
      <3>1. i \in Lookup(q, Candidates(q))
        BY DEF hits
      <3>2. TypeOK /\ ItemsFit /\ q.at # "over"
        BY <1>2 DEF IInv
      <3> QED
        BY <1>2, <1>5, <3>1, <3>2, LookupFits
    <2>3. q.stage = "group" => q.work.gid = None
      BY <1>10 DEF GivenId, WantsGroup, InUse
    <2>4. q.calm => i \in Target(q)
      BY <1>7, <1>10
    <2> DEFINE n == item[i].name
    <2>5. Goes(r, Picked(q, i, n, "get")) /\ n \in Name
          /\ (WantsGroup(q) => n \in GroupName(q.call.agent, madeFor))
      BY <2>1, <2>2
    <2> HIDE DEF n
    <2> QED
      BY <1>8, <2>2, <2>3, <2>4, <2>5
  <1>11. CASE GivenId(q) = None /\ hits = {} /\ Goes(r, Create(q, name))
    <2>1. q.stage = "group" => q.work.gid = None
      BY <1>11 DEF GivenId, WantsGroup, InUse
    <2>2. /\ Create(q, name) \in Progress /\ Onward(q, Create(q, name))
          /\ RequestFits(Create(q, name), item, madeFor)
      BY <1>2, <1>5, <2>1, CreateFits
    <2>3. Create(q, name).calm = q.calm /\ ~q.calm
      BY <1>7, <1>11, <2>2 DEF Onward
    <2> DEFINE p == Create(q, name)
    <2>4. p \in Progress /\ RequestFits(p, item, madeFor) /\ ~p.calm /\ Goes(r, p)
      BY <1>11, <2>2, <2>3
    <2> HIDE DEF p
    <2> QED
      BY <1>4, <2>4, KeepStep
  <1> QED
    BY <1>3, <1>9, <1>10, <1>11

\* A failed call makes no request calm.
LEMMA FailedCalm ==
    ASSUME NEW q \in Progress
    PROVE  Failed(q).calm \in {q.calm, FALSE}
  <1>1. Serve(q).calm = q.calm
    <2>1. CASE q.call.recorded
      <3>1. Serve(q) = Start(q, "regroup") /\ "regroup" \in Stage
        BY <2>1 DEF Serve, Stage
      <3> QED
        BY <3>1, StartIs
    <2>2. CASE ~q.call.recorded
      <3>1. Serve(q) = [q EXCEPT !.stage = "serve", !.at = "lookup"]
        BY <2>2 DEF Serve
      <3> QED
        BY <3>1, LookupIs
    <2> QED
      BY <2>1, <2>2
  <1>2. \A i : Over(q, i).calm = FALSE
    BY DEF Over, Progress
  <1> QED
    BY <1>1, <1>2 DEF Failed

\* What an upsert that ends needs of the items, from the invariant.
LEMMA ConnsLive ==
    ASSUME TypeOK, ItemsFit, NEW i \in Id, item[i] # None, item[i].kind = "conn"
    PROVE  item[item[i].parent] # None
  BY ItemFacts DEF ConnFits

LEMMA GetStep ==
    ASSUME IInv, NEW r \in Request, Get(r)
    PROVE  IInv'
  <1> DEFINE q == req[r]
             seen == item[q.id]
             pl == Payload(q, seen.name, seen)
  <1>1. {"get", "reget"} \in SUBSET (Point \ {"lookup", "store", "over"}) /\ At(r, {"get", "reget"})
    BY DEF Get, Point
  <1>2. /\ q \in Progress /\ RequestFits(q, item, madeFor) /\ q.stage # "serve"
        /\ q.at \in {"get", "reget"} /\ UpsertFits(q, item, madeFor) /\ WorkFits(q, item)
        /\ q.calm => Calm(q)
    BY <1>1, UpsertFacts
  <1>3. /\ Keep
        /\ \/ seen # None /\ \E p \in Read(q) : Goes(r, p)
           \/ seen = None /\ q.at = "get" /\ Goes(r, MovedTo(q, "refind"))
           \/ seen = None /\ q.at # "get" /\ Goes(r, Failed(q))
    BY DEF Get, MovedTo
  <1>4. /\ UNCHANGED <<item, next, madeFor, stored>>
        /\ count' \in [calls : 0..MaxCalls, faults : 0..MaxFaults, admin : 0..MaxAdmin]
    BY <1>3, CountKept DEF Keep
  <1> HIDE DEF q
  <1>5. /\ TypeOK /\ ItemsFit /\ q.call.agent \in Agent /\ q.id \in Id /\ q.id # None
        /\ madeFor[q.id] = q.call.agent
    BY <1>2, ProgressFields DEF IInv, UpsertFits, Refers
  <1>6. q.calm => Awaits(q) /\ q.id \in Target(q) /\ q.at = "get"
    BY <1>2 DEF Calm
  <1>7. q.calm => seen # None /\ pl = seen
    BY <1>2, <1>6, TargetMatches
  <1>8. CASE seen # None /\ \E p \in Read(q) : Goes(r, p)
    <2>1. PICK p \in Read(q) : Goes(r, p)
      BY <1>8
    <2>2. /\ seen \in Item /\ seen.name \in Name /\ seen.kind = KindOf(q)
          /\ WantsGroup(q) => /\ seen.name \in GroupName(q.call.agent, madeFor)
                              /\ seen.parent = Root
          /\ ~WantsGroup(q) => seen.parent = InUse(q).gid
      <3>1. seen.kind = KindOf(q)
        BY <1>2, <1>5, <1>8 DEF UpsertFits, Refers
      <3>2. /\ seen \in Item /\ seen.name \in Name
            /\ seen.kind = "group" => GroupFits(seen, q.call.agent, madeFor)
        BY <1>5, <1>8, ItemFacts
      <3> QED
        BY <1>2, <1>5, <1>8, <3>1, <3>2 DEF UpsertFits, GroupFits, KindOf
    <2>3. IF pl = seen THEN p \in Finished(q, q.id, seen.name)
          ELSE p = Writing(q, seen.name, pl)
      BY <2>1 DEF Read, PayloadMatches, Writing
    <2>4. CASE pl = seen
      <3>1. p \in Finished(q, q.id, seen.name)
        BY <2>3, <2>4
      <3>2. q.stage = "group" /\ q.work.gid # None =>
               q.work.gid = q.id \/ item[q.work.gid] = None
        BY <1>2 DEF WorkFits
      <3>3. \A i \in Id : item[i] # None /\ item[i].kind = "conn" => item[item[i].parent] # None
        BY <1>5, ConnsLive
      <3>4. p \in Progress /\ RequestFits(p, item, madeFor) /\ p.calm \in {q.calm, FALSE}
        <4> DEFINE id == q.id
                   n == seen.name
        <4>1. /\ id \in Id /\ n \in Name /\ madeFor[id] = q.call.agent /\ item[id] # None
              /\ item[id].kind = KindOf(q)
              /\ WantsGroup(q) => n \in GroupName(q.call.agent, madeFor)
              /\ ~WantsGroup(q) => item[id].parent = InUse(q).gid
              /\ q.stage = "group" /\ q.work.gid # None =>
                    q.work.gid = id \/ item[q.work.gid] = None
              /\ p \in Finished(q, id, n) /\ q.at # "over"
          BY <1>2, <1>5, <1>8, <2>2, <3>1, <3>2
        <4>2. q \in Progress /\ RequestFits(q, item, madeFor) /\ q.stage # "serve"
          BY <1>2
        <4> HIDE DEF id, n
        <4> QED
          BY ONLY <3>3, <4>1, <4>2, FinishedFits
      <3>5. p.calm => Calm(p)
        <4>1. ASSUME p.calm PROVE q.calm
          BY <3>4, <4>1
        <4> QED
          BY <1>2, <1>6, <3>1, <4>1, CalmFinished
      <3> QED
        BY <1>4, <2>1, <3>4, <3>5, KeepStep
    <2>5. CASE pl # seen
      <3>1. p = Writing(q, seen.name, pl)
        BY <2>3, <2>5
      <3>2. /\ pl \in Item
            /\ WantsGroup(q) => GroupFits(pl, q.call.agent, madeFor)
            /\ ~WantsGroup(q) => pl.kind = "conn" /\ pl.parent = InUse(q).gid
        <4> HIDE DEF seen
        <4> QED
          BY <1>2, <2>2, PayloadFit
      <3> HIDE DEF seen, pl
      <3>3. p \in Progress /\ Onward(q, p) /\ RequestFits(p, item, madeFor)
        BY <1>2, <2>2, <3>1, <3>2, WritingFits
      <3>4. ~p.calm
        BY <1>7, <2>5, <3>3 DEF Onward
      <3> QED
        BY <1>4, <2>1, <3>3, <3>4, KeepStep
    <2> QED
      BY <2>4, <2>5
  <1>9. CASE seen = None /\ q.at = "get" /\ Goes(r, MovedTo(q, "refind"))
    <2> DEFINE p == MovedTo(q, "refind")
    <2>1. p \in Progress /\ Onward(q, p) /\ RequestFits(p, item, madeFor)
      BY <1>2, <1>9, MovedFits
    <2>2. Goes(r, p)
      BY <1>9
    <2> HIDE DEF p
    <2>3. ~p.calm
      BY <1>7, <1>9, <2>1 DEF Onward
    <2> QED
      BY <1>4, <2>1, <2>2, <2>3, KeepStep
  <1>10. CASE seen = None /\ q.at # "get" /\ Goes(r, Failed(q))
    <2>1. Failed(q) \in Progress /\ RequestFits(Failed(q), item, madeFor)
      BY <1>2, FailedFits
    <2>2. ~q.calm
      BY <1>7, <1>10
    <2>3. ~Failed(q).calm
      BY <1>2, <2>2, FailedCalm
    <2> QED
      BY <1>4, <1>10, <2>1, <2>3, KeepStep
  <1> QED
    BY <1>3, <1>8, <1>9, <1>10

\* An upsert that ends with the item it has found.
LEMMA EndFits ==
    ASSUME NEW it \in [Id -> Item \cup {None}], NEW mf, NEW q \in Progress,
           RequestFits(q, it, mf),
           q.stage # "serve", q.at \in {"put", "reput", "reget2"}, it[q.id] # None,
           \A i \in Id : it[i] # None /\ it[i].kind = "conn" => it[it[i].parent] # None,
           NEW p, p \in Finished(q, q.id, q.name)
    PROVE  /\ p \in Progress /\ RequestFits(p, it, mf) /\ p.calm \in {q.calm, FALSE}
           /\ p.at \in {"find", "lookup", "store", "over"}
  <1>1. UpsertFits(q, it, mf) /\ WorkFits(q, it)
    BY DEF RequestFits, UnderWay
  <1> DEFINE id == q.id
             n == q.name
  <1>2. /\ id \in Id /\ n \in Name /\ mf[id] = q.call.agent /\ it[id] # None
        /\ it[id].kind = KindOf(q)
        /\ WantsGroup(q) => n \in GroupName(q.call.agent, mf)
        /\ ~WantsGroup(q) => it[id].parent = InUse(q).gid
        /\ q.stage = "group" /\ q.work.gid # None => q.work.gid = id \/ it[q.work.gid] = None
        /\ p \in Finished(q, id, n) /\ q.at # "over"
    BY <1>1, ProgressFields DEF UpsertFits, Refers, WorkFits
  <1> HIDE DEF id, n
  <1> QED
    BY <1>2, FinishedFits

LEMMA FaultTyped ==
    ASSUME IInv, Fault
    PROVE  count' \in [calls : 0..MaxCalls, faults : 0..MaxFaults, admin : 0..MaxAdmin]
  <1>1. count \in [calls : 0..MaxCalls, faults : 0..MaxFaults, admin : 0..MaxAdmin]
    BY DEF IInv, TypeOK
  <1>2. count.faults + 1 \in 0..MaxFaults
    BY <1>1, BoundsAssumption DEF Fault
  <1> QED
    BY <1>1, <1>2 DEF Fault

LEMMA RefindStep ==
    ASSUME IInv, NEW r \in Request, Refind(r)
    PROVE  IInv'
  <1> DEFINE q == req[r]
             candidates == Append(Candidates(q), q.name)
             hits == Lookup(q, candidates)
             then == IF q.at = "refind" THEN "reget" ELSE "reget2"
  <1>1. /\ {"refind", "refind2"} \in SUBSET (Point \ {"lookup", "store", "over"})
        /\ At(r, {"refind", "refind2"})
    BY DEF Refind, Point
  <1>2. /\ q \in Progress /\ RequestFits(q, item, madeFor) /\ q.stage # "serve"
        /\ q.at \in {"refind", "refind2"}
        /\ UpsertFits(q, item, madeFor) /\ WorkFits(q, item)
        /\ q.calm => Calm(q)
    BY <1>1, UpsertFacts
  <1>3. /\ Keep
        /\ \/ \E i \in hits : Goes(r, Picked(q, i, item[i].name, then))
           \/ q.at = "refind" /\ Goes(r, Create(q, q.name))
           \/ q.at # "refind" /\ Goes(r, Remaking(q))
    BY DEF Refind, Picked, Remaking
  <1>4. /\ UNCHANGED <<item, next, madeFor, stored>>
        /\ count' \in [calls : 0..MaxCalls, faults : 0..MaxFaults, admin : 0..MaxAdmin]
    BY <1>3, CountKept DEF Keep
  <1> HIDE DEF q
  <1>5. ~q.calm
    BY <1>2 DEF Calm
  <1>6. /\ Candidates(q) \in Seq(Candidate) /\ q.name \in Name /\ q.name \in Candidate
        /\ WantsGroup(q) => /\ q.name \in GroupName(q.call.agent, madeFor)
                            /\ \A k \in DOMAIN Candidates(q) :
                                  Candidates(q)[k] \in GroupName(q.call.agent, madeFor)
    <2>1. q.name \in Name
      BY <1>2, ProgressFields
    <2>2. q.name \in Candidate
      BY <2>1, CandidatesTyped
    <2>3. WantsGroup(q) => q.name \in GroupName(q.call.agent, madeFor)
      BY <1>2 DEF UpsertFits
    <2> QED
      BY <1>2, <2>1, <2>2, <2>3, CandidatesFit
  <1>7. WantsGroup(q) =>
           \A k \in DOMAIN candidates : candidates[k] \in GroupName(q.call.agent, madeFor)
    BY <1>6
  <1>8. q.stage = "group" /\ q.work.gid # None => item[q.work.gid] = None
    BY <1>2 DEF WorkFits
  <1>9. ASSUME NEW p \in Progress, RequestFits(p, item, madeFor), Onward(q, p), Goes(r, p)
        PROVE  IInv'
    BY <1>4, <1>5, <1>9, KeepStep DEF Onward
  <1> HIDE DEF candidates, hits
  <1>10. CASE \E i \in hits : Goes(r, Picked(q, i, item[i].name, then))
    <2>1. PICK i \in hits : Goes(r, Picked(q, i, item[i].name, then))
      BY <1>10
    <2>2. /\ i \in Id /\ item[i] # None /\ item[i].name \in Name
          /\ item[i].kind = KindOf(q) /\ madeFor[i] = q.call.agent
          /\ WantsGroup(q) => item[i].name \in GroupName(q.call.agent, madeFor)
          /\ ~WantsGroup(q) => item[i].parent = InUse(q).gid
      <3>1. i \in Lookup(q, candidates)
        BY DEF hits
      <3>2. TypeOK /\ ItemsFit /\ q.at # "over"
        BY <1>2 DEF IInv
      <3> QED
        BY <1>2, <1>7, <3>1, <3>2, LookupFits
    <2>3. then \in {"get", "reget", "reget2"} /\ (then = "reget2" => q.payload # None)
      BY <1>2 DEF UpsertFits
    <2> DEFINE n == item[i].name
               p == Picked(q, i, n, then)
    <2>4. Goes(r, p) /\ n \in Name /\ (WantsGroup(q) => n \in GroupName(q.call.agent, madeFor))
      BY <2>1, <2>2
    <2> HIDE DEF n, then
    <2>5. p \in Progress /\ Onward(q, p) /\ RequestFits(p, item, madeFor)
      BY <1>2, <1>8, <2>2, <2>3, <2>4, PickedFits
    <2> HIDE DEF p
    <2> QED
      BY <1>9, <2>4, <2>5
  <1>11. CASE q.at = "refind" /\ Goes(r, Create(q, q.name))
    <2> DEFINE n == q.name
               p == Create(q, n)
    <2>1. Goes(r, p) /\ n \in Name /\ (WantsGroup(q) => n \in GroupName(q.call.agent, madeFor))
      BY <1>6, <1>11
    <2> HIDE DEF n
    <2>2. p \in Progress /\ Onward(q, p) /\ RequestFits(p, item, madeFor)
      BY <1>2, <1>8, <2>1, CreateFits
    <2> HIDE DEF p
    <2> QED
      BY <1>9, <2>1, <2>2
  <1>12. CASE q.at # "refind" /\ Goes(r, Remaking(q))
    <2>1. /\ Remaking(q) \in Progress /\ Onward(q, Remaking(q))
          /\ RequestFits(Remaking(q), item, madeFor)
      BY <1>2, <1>12, RemakingFits
    <2> QED
      BY <1>9, <1>12, <2>1
  <1> QED
    BY <1>3, <1>10, <1>11, <1>12

LEMMA GetAgainStep ==
    ASSUME IInv, NEW r \in Request, GetAgain(r)
    PROVE  IInv'
  <1> DEFINE q == req[r]
  <1>1. {"reget2"} \in SUBSET (Point \ {"lookup", "store", "over"}) /\ At(r, {"reget2"})
    BY DEF GetAgain, Point
  <1>2. /\ q \in Progress /\ RequestFits(q, item, madeFor) /\ q.stage # "serve"
        /\ q.at = "reget2" /\ UpsertFits(q, item, madeFor) /\ WorkFits(q, item)
        /\ q.calm => Calm(q)
    BY <1>1, UpsertFacts
  <1>3. /\ Keep
        /\ \/ Goes(r, Failed(q))
           \/ item[q.id] # None /\ \E p \in Finished(q, q.id, q.name) : Goes(r, p)
           \/ Goes(r, MovedTo(q, "reput"))
    BY DEF GetAgain, MovedTo
  <1>4. /\ UNCHANGED <<item, next, madeFor, stored>>
        /\ count' \in [calls : 0..MaxCalls, faults : 0..MaxFaults, admin : 0..MaxAdmin]
    BY <1>3, CountKept DEF Keep
  <1> HIDE DEF q
  <1>5. ~q.calm
    BY <1>2 DEF Calm
  <1>6. ASSUME NEW p \in Progress, RequestFits(p, item, madeFor),
               p.calm \in {q.calm, FALSE}, Goes(r, p)
        PROVE  IInv'
    BY <1>4, <1>5, <1>6, KeepStep
  <1>7. CASE Goes(r, Failed(q))
    BY <1>2, <1>6, <1>7, FailedFits, FailedCalm
  <1>8. CASE item[q.id] # None /\ \E p \in Finished(q, q.id, q.name) : Goes(r, p)
    <2>1. PICK p \in Finished(q, q.id, q.name) : Goes(r, p)
      BY <1>8
    <2>2. p \in Progress /\ RequestFits(p, item, madeFor) /\ p.calm \in {q.calm, FALSE}
      <3>1. /\ item \in [Id -> Item \cup {None}]
            /\ \A i \in Id : item[i] # None /\ item[i].kind = "conn" =>
                                item[item[i].parent] # None
        BY ConnsLive DEF IInv, TypeOK
      <3> QED
        BY <1>2, <1>8, <3>1, EndFits
    <2> QED
      BY <1>6, <2>1, <2>2
  <1>9. CASE Goes(r, MovedTo(q, "reput"))
    <2> DEFINE p == MovedTo(q, "reput")
    <2>1. p \in Progress /\ Onward(q, p) /\ RequestFits(p, item, madeFor)
      BY <1>2, MovedFits
    <2>2. Goes(r, p)
      BY <1>9
    <2> HIDE DEF p
    <2> QED
      BY <1>6, <2>1, <2>2 DEF Onward
  <1> QED
    BY <1>3, <1>7, <1>8, <1>9

LEMMA CallFailsStep ==
    ASSUME IInv, NEW r \in Request, CallFails(r)
    PROVE  IInv'
  <1> DEFINE q == req[r]
  <1>1. /\ q \in Progress /\ RequestFits(q, item, madeFor) /\ q.at # "over"
        /\ BaseFits(q, item, madeFor)
    BY ReqTyped DEF CallFails, At, RequestFits
  <1>2. /\ UNCHANGED <<item, next, madeFor, stored>>
        /\ count' \in [calls : 0..MaxCalls, faults : 0..MaxFaults, admin : 0..MaxAdmin]
    BY FaultTyped DEF CallFails
  <1>3. CASE Goes(r, [Failed(q) EXCEPT !.calm = FALSE])
    <2> DEFINE f == Failed(q)
               p == [f EXCEPT !.calm = FALSE]
    <2>1. f \in Progress /\ RequestFits(f, item, madeFor)
      BY <1>1, FailedFits
    <2> HIDE DEF f
    <2>2. p \in Progress /\ RequestFits(p, item, madeFor) /\ p.calm = FALSE
      BY <2>1, DisturbedRequest
    <2>3. Goes(r, p)
      BY <1>3 DEF f
    <2> HIDE DEF p
    <2> QED
      BY <1>2, <2>2, <2>3, KeepStep
  <1>4. CASE Goes(r, Over(q, None))
    <2> DEFINE p == Over(q, None)
    <2>1. p \in Progress /\ RequestFits(p, item, madeFor) /\ p.calm = FALSE
      BY <1>1, OverFits
    <2>2. Goes(r, p)
      BY <1>4
    <2> HIDE DEF p
    <2> QED
      BY <1>2, <2>1, <2>2, KeepStep
  <1> QED
    BY <1>3, <1>4 DEF CallFails

LEMMA ServeSessionStep ==
    ASSUME IInv, NEW r \in Request, ServeSession(r)
    PROVE  IInv'
  <1> DEFINE q == req[r]
             m == q.map
             groups == IF m.gid # None THEN {m.gid} ELSE Resolve("group", m.gcands, None)
             group == IF groups = {} THEN None ELSE CHOOSE g \in groups : TRUE
             candidates == Unique(m.ccands \o <<NumberOf(m.cid), m.cname, Host,
                                                AgentId(q.call.agent)>>)
             hits == Resolve("conn", candidates, group)
  <1>1. /\ q \in Progress /\ RequestFits(q, item, madeFor)
        /\ BaseFits(q, item, madeFor) /\ MappingFits(m, q.call.agent, item, madeFor)
    BY ReqTyped DEF ServeSession, At, RequestFits, BaseFits
  <1>2. Keep /\ \E i \in IF hits = {} THEN {None} ELSE hits : Goes(r, Over(q, i))
    BY DEF ServeSession
  <1>3. /\ UNCHANGED <<item, next, madeFor, stored>>
        /\ count' \in [calls : 0..MaxCalls, faults : 0..MaxFaults, admin : 0..MaxAdmin]
    BY <1>2, CountKept DEF Keep
  <1> HIDE DEF candidates, q
  <1>4. m.gid # None => group = m.gid
    OBVIOUS
  <1> HIDE DEF group
  <1>5. PICK i \in IF hits = {} THEN {None} ELSE hits : Goes(r, Over(q, i))
    BY <1>2
  <1>6. i \in Id \cup {None} /\ (i # None /\ m.gid # None => madeFor[i] = q.call.agent)
    <2>1. CASE i = None
      BY <2>1
    <2>2. CASE i # None
      <3>1. i \in hits
        BY <1>5, <2>2
      <3>2. /\ i \in Id /\ item[i] # None /\ item[i].kind = "conn"
            /\ group = None \/ item[i].parent = group
        BY <3>1, ResolveHits
      <3>3. madeFor[item[i].parent] = madeFor[i]
        BY <3>2, ItemFacts DEF IInv, ConnFits
      <3>4. m.gid # None => madeFor[m.gid] = q.call.agent
        BY <1>1 DEF MappingFits, Refers
      <3> QED
        BY <1>4, <3>2, <3>3, <3>4
    <2> QED
      BY <2>1, <2>2
  <1>7. /\ Over(q, i) \in Progress /\ RequestFits(Over(q, i), item, madeFor)
        /\ Over(q, i).calm = FALSE
    BY <1>1, <1>6, OverFits
  <1> QED
    BY <1>3, <1>5, <1>7, KeepStep

\* The access policy of a mapping is replaced.
WithFiles(m, f) == [m EXCEPT !.files = f]

LEMMA WithFilesFits ==
    ASSUME NEW it, NEW mf, NEW m \in Mapping, NEW a \in Agent, NEW f \in BOOLEAN,
           RowFits(m, a, it, mf)
    PROVE  WithFiles(m, f) \in Mapping /\ RowFits(WithFiles(m, f), a, it, mf)
  <1> DEFINE w == WithFiles(m, f)
  <1>1. w \in Mapping
    BY Zenon DEF Mapping, WithFiles
  <1>2. /\ w.gid = m.gid /\ w.gname = m.gname /\ w.cid = m.cid /\ w.gcands = m.gcands
    BY DEF Mapping, WithFiles
  <1> HIDE DEF w
  <1>3. RowFits(w, a, it, mf)
    BY <1>2 DEF RowFits, MappingFits, PairFits
  <1> QED
    BY <1>1, <1>3 DEF w

LEMMA StoreStep ==
    ASSUME IInv, NEW r \in Request, Store(r)
    PROVE  IInv'
  <1> DEFINE q == req[r]
             a == q.call.agent
             old == stored[a]
             w == IF q.call.kind = "deploy" /\ old # None THEN WithFiles(q.work, old.files)
                  ELSE q.work
  <1>1. /\ q \in Progress /\ RequestFits(q, item, madeFor) /\ q.at = "store"
        /\ UnderWay(q, item, madeFor) /\ BaseFits(q, item, madeFor)
    BY ReqTyped DEF Store, At, RequestFits
  <1>2. /\ stored' = [stored EXCEPT ![a] = w] /\ Goes(r, Over(q, None))
        /\ UNCHANGED <<item, next, madeFor, count>>
    BY DEF Store, WithFiles
  <1>3. count' \in [calls : 0..MaxCalls, faults : 0..MaxFaults, admin : 0..MaxAdmin]
    BY <1>2, CountKept
  <1>4. /\ stored \in [Agent -> Mapping \cup {None}]
        /\ \A b \in Agent : stored[b] # None => RowFits(stored[b], b, item, madeFor)
    BY DEF IInv, TypeOK, RowsFit
  <1> HIDE DEF q
  <1>5. a \in Agent /\ q.work \in Mapping
    BY <1>1, ProgressFields
  <1>6. RowFits(q.work, a, item, madeFor)
    <2>1. /\ q.stage = "main" /\ q.work.cid # None /\ PairFits(q.work, item)
          /\ UpsertFits(q, item, madeFor)
      BY <1>1 DEF UnderWay, WorkFits
    <2>2. q.work.gid # None
      BY <2>1 DEF UpsertFits, WantsGroup, InUse
    <2> QED
      BY <1>1, <2>1, <2>2 DEF RowFits, BaseFits
  <1>7. w \in Mapping /\ RowFits(w, a, item, madeFor)
    <2>1. old # None => old \in Mapping /\ old.files \in BOOLEAN
      BY <1>4, <1>5, MappingFields
    <2>2. ASSUME old # None
          PROVE  /\ WithFiles(q.work, old.files) \in Mapping
                 /\ RowFits(WithFiles(q.work, old.files), a, item, madeFor)
      <3> DEFINE f == old.files
      <3>1. f \in BOOLEAN
        BY <2>1, <2>2
      <3> HIDE DEF f
      <3>2. WithFiles(q.work, f) \in Mapping /\ RowFits(WithFiles(q.work, f), a, item, madeFor)
        BY <1>5, <1>6, <3>1, WithFilesFits
      <3> QED
        BY <3>2 DEF f
    <2> QED
      BY <1>5, <1>6, <2>2
  <1> HIDE DEF w, a
  <1>8. /\ stored' \in [Agent -> Mapping \cup {None}]
        /\ \A b \in Agent : stored'[b] # None => RowFits(stored'[b], b, item, madeFor)
    BY <1>2, <1>4, <1>5, <1>7
  <1>9. /\ Over(q, None) \in Progress /\ RequestFits(Over(q, None), item, madeFor)
        /\ Over(q, None).calm = FALSE
    BY <1>1, OverFits
  <1> DEFINE p == Over(q, None)
  <1>10. p \in Progress /\ RequestFits(p, item, madeFor) /\ p.calm = FALSE /\ Goes(r, p)
    BY <1>2, <1>9
  <1> HIDE DEF p
  <1> QED
    BY <1>2, <1>3, <1>8, <1>10, RequestStep

LEMMA DerivedFits ==
    ASSUME NEW a \in Agent, NEW it, NEW mf
    PROVE  LET Fit(m) == /\ m \in Mapping /\ MappingFits(m, a, it, mf)
                         /\ PairFits(m, it) /\ LeadsFit(m) /\ m.files = TRUE
           IN /\ Fit(Derived(a))
              /\ Fit([Derived(a) EXCEPT !.gname = AgentId(a), !.gcands = <<AgentId(a)>>])
  <1> DEFINE d == Derived(a)
             cc == <<Host, Display(a), AgentId(a)>>
             g1 == <<Display(a), AgentId(a)>>
             g2 == <<AgentId(a)>>
             e == [d EXCEPT !.gname = AgentId(a), !.gcands = g2]
  <1>1. /\ Host \in Candidate /\ Display(a) \in Candidate /\ AgentId(a) \in Candidate
        /\ Host \in Name /\ Display(a) \in Name /\ AgentId(a) \in Name
    BY NamesTyped, CandidatesTyped
  <1>2. cc \in Seq(Candidate) /\ cc # <<>> /\ cc[1] = Host
    BY <1>1
  <1>3. /\ Display(a) \in GroupName(a, mf) /\ AgentId(a) \in GroupName(a, mf)
    BY DEF GroupName
  <1>4. /\ g1 \in Seq(Candidate) /\ g1 # <<>> /\ \A k \in DOMAIN g1 : g1[k] \in GroupName(a, mf)
        /\ g2 \in Seq(Candidate) /\ g2 # <<>> /\ \A k \in DOMAIN g2 : g2[k] \in GroupName(a, mf)
    BY <1>1, <1>3
  <1>a. d = [gid |-> None, gname |-> Display(a), cid |-> None, cname |-> Host,
             gcands |-> g1, ccands |-> cc, files |-> TRUE]
    BY DEF Derived
  <1> HIDE DEF d, cc, g1, g2
  <1>5. d \in Mapping
    BY <1>1, <1>2, <1>4, <1>a DEF Mapping
  <1>6. e \in Mapping
    BY <1>1, <1>4, <1>5, Zenon DEF Mapping
  <1>7. /\ d.gid = None /\ d.gname = Display(a) /\ d.cid = None /\ d.gcands = g1
        /\ d.ccands = cc /\ d.files = TRUE
        /\ e.gid = None /\ e.gname = AgentId(a) /\ e.cid = None /\ e.gcands = g2
        /\ e.ccands = cc /\ e.files = TRUE
    BY <1>a
  <1> HIDE DEF e
  <1>8. /\ MappingFits(d, a, it, mf) /\ MappingFits(e, a, it, mf)
        /\ PairFits(d, it) /\ PairFits(e, it) /\ LeadsFit(d) /\ LeadsFit(e)
    BY <1>2, <1>3, <1>4, <1>7 DEF MappingFits, Refers, PairFits, LeadsFit
  <1> QED
    BY <1>5, <1>6, <1>7, <1>8 DEF d, e, g2

LEMMA ExtractedFits ==
    ASSUME IInv, NEW a \in Agent
    PROVE  /\ Extracted(a) \in Mapping /\ MappingFits(Extracted(a), a, item, madeFor)
           /\ PairFits(Extracted(a), item) /\ LeadsFit(Extracted(a))
           /\ Extracted(a).files = TRUE
  <1> DEFINE old == stored[a]
  <1>1. old # None => old \in Mapping /\ RowFits(old, a, item, madeFor)
    BY DEF IInv, TypeOK, RowsFit
  <1>2. CASE old = None
    <2>1. Extracted(a) = [Derived(a) EXCEPT !.gname = AgentId(a), !.gcands = <<AgentId(a)>>]
      BY <1>2 DEF Extracted
    <2> QED
      BY <2>1, DerivedFits
  <1>3. CASE old # None
    <2> DEFINE h == <<AgentId(a)>>
               num == <<NumberOf(old.cid)>>
               own == <<Host, Display(a), AgentId(a)>>
               G == Unique(h \o old.gcands)
               C == Unique(old.ccands \o num \o own)
               x == Extracted(a)
    <2>1. /\ old.gid \in Id \cup {None} /\ old.cid \in Id \cup {None}
          /\ old.gcands \in Seq(Candidate) /\ old.ccands \in Seq(Candidate)
          /\ old.gid # None /\ old.cid # None
          /\ MappingFits(old, a, item, madeFor) /\ PairFits(old, item)
      BY <1>1, <1>3, MappingFields DEF RowFits
    <2>2. /\ Host \in Candidate /\ Display(a) \in Candidate /\ AgentId(a) \in Candidate
          /\ Host \in Name /\ AgentId(a) \in Name /\ NumberOf(old.cid) \in Candidate
      BY <2>1, NamesTyped, CandidatesTyped DEF NumberOf
    <2>3. AgentId(a) \in GroupName(a, madeFor)
      BY DEF GroupName
    <2>4. G \in Seq(Candidate) /\ \A k \in DOMAIN G : G[k] \in GroupName(a, madeFor)
      <3>1. h \in Seq(Candidate) /\ \A k \in DOMAIN h : h[k] \in GroupName(a, madeFor)
        BY <2>2, <2>3
      <3>2. \A k \in DOMAIN old.gcands : old.gcands[k] \in GroupName(a, madeFor)
        BY <2>1 DEF MappingFits
      <3> DEFINE s == old.gcands
      <3>3. s \in Seq(Candidate) /\ \A k \in DOMAIN s : s[k] \in GroupName(a, madeFor)
        BY <2>1, <3>2
      <3> HIDE DEF h, s
      <3>4. /\ Unique(h \o s) \in Seq(Candidate)
            /\ \A k \in DOMAIN Unique(h \o s) : Unique(h \o s)[k] \in GroupName(a, madeFor)
        BY <3>1, <3>3, GatheredNames
      <3> QED
        BY <3>4 DEF s
    <2>5. C \in Seq(Candidate)
      <3>1. num \in Seq(Candidate) /\ own \in Seq(Candidate)
        BY <2>2
      <3> HIDE DEF num, own
      <3>2. old.ccands \o num \o own \in Seq(Candidate \cup {None})
        BY <2>1, <3>1
      <3> QED
        BY <3>2, UniqueEntries, NoRecordAssumption
    <2>6. x = [gid |-> old.gid, gname |-> AgentId(a), cid |-> old.cid, cname |-> Host,
               gcands |-> G, ccands |-> C, files |-> TRUE]
      BY <1>3 DEF Extracted
    <2> HIDE DEF G, C, x, old
    <2>7. x \in Mapping
      BY <2>1, <2>2, <2>4, <2>5, <2>6 DEF Mapping
    <2>8. /\ x.gid = old.gid /\ x.gname = AgentId(a) /\ x.cid = old.cid /\ x.gcands = G
          /\ x.files = TRUE
      BY <2>6
    <2>9. MappingFits(x, a, item, madeFor) /\ PairFits(x, item) /\ LeadsFit(x)
      BY <2>1, <2>3, <2>4, <2>8 DEF MappingFits, PairFits, LeadsFit
    <2> QED
      BY <2>7, <2>8, <2>9 DEF x
  <1> QED
    BY <1>2, <1>3

LEMMA MappingForFits ==
    ASSUME IInv, NEW c \in Call, c.kind = "patch" => stored[c.agent] # None
    PROVE  /\ MappingFor(c) \in Mapping
           /\ MappingFits(MappingFor(c), c.agent, item, madeFor)
           /\ PairFits(MappingFor(c), item) /\ LeadsFit(MappingFor(c))
           /\ c.kind # "patch" => MappingFor(c).files = TRUE
           /\ c.kind = "patch" => RowFits(MappingFor(c), c.agent, item, madeFor)
  <1>1. c.agent \in Agent /\ c.files \in BOOLEAN
    BY CallAssumption DEF CallType
  <1>2. CASE c.kind = "deploy"
    <2>1. MappingFor(c) = Derived(c.agent)
      BY <1>2 DEF MappingFor
    <2> QED
      BY <1>1, <1>2, <2>1, DerivedFits
  <1>3. CASE c.kind = "patch"
    <2>1. MappingFor(c) = WithFiles(stored[c.agent], c.files)
      BY <1>3 DEF MappingFor, WithFiles
    <2> DEFINE m == stored[c.agent]
               f == c.files
               a == c.agent
    <2>2. /\ m \in Mapping /\ RowFits(m, a, item, madeFor) /\ f \in BOOLEAN /\ a \in Agent
      BY <1>1, <1>3 DEF IInv, TypeOK, RowsFit
    <2> HIDE DEF m, f, a
    <2>3. WithFiles(m, f) \in Mapping /\ RowFits(WithFiles(m, f), a, item, madeFor)
      BY <2>2, WithFilesFits
    <2>4. MappingFor(c) \in Mapping /\ RowFits(MappingFor(c), c.agent, item, madeFor)
      BY <2>1, <2>3 DEF m, f, a
    <2> QED
      BY <1>3, <2>4 DEF RowFits, LeadsFit
  <1>4. CASE c.kind \notin {"deploy", "patch"}
    <2>1. MappingFor(c) = Extracted(c.agent)
      BY <1>4 DEF MappingFor
    <2> QED
      BY <1>1, <1>4, <2>1, ExtractedFits
  <1> QED
    BY <1>2, <1>3, <1>4

LEMMA BeginStep ==
    ASSUME IInv, NEW r \in Request, Begin(r)
    PROVE  IInv'
  <1>1. PICK c \in Call :
           LET m == MappingFor(c)
           IN /\ c.kind = "patch" => stored[c.agent] # None
              /\ stored' = IF c.kind = "patch" THEN [stored EXCEPT ![c.agent] = m] ELSE stored
              /\ Goes(r, [call |-> c, map |-> m, work |-> m, stage |-> "group",
                          at |-> "find", id |-> None, name |-> Host, payload |-> None,
                          user |-> None, left |-> SignedIn, answer |-> None,
                          calm |-> InPlace(c, m)])
    BY DEF Begin
  <1> DEFINE m == MappingFor(c)
             a == c.agent
             p == [call |-> c, map |-> m, work |-> m, stage |-> "group",
                   at |-> "find", id |-> None, name |-> Host, payload |-> None,
                   user |-> None, left |-> SignedIn, answer |-> None, calm |-> InPlace(c, m)]
  <1>2. /\ stored' = IF c.kind = "patch" THEN [stored EXCEPT ![a] = m] ELSE stored
        /\ Goes(r, p)
    BY <1>1
  <1>3. /\ m \in Mapping /\ MappingFits(m, a, item, madeFor)
        /\ PairFits(m, item) /\ LeadsFit(m)
        /\ c.kind # "patch" => m.files = TRUE
        /\ c.kind = "patch" => RowFits(m, a, item, madeFor)
    BY <1>1, MappingForFits
  <1>4. c \in CallType /\ a \in Agent
    BY CallAssumption DEF CallType
  <1>5. /\ UNCHANGED <<item, next, madeFor>>
        /\ count' \in [calls : 0..MaxCalls, faults : 0..MaxFaults, admin : 0..MaxAdmin]
    <2>1. count \in [calls : 0..MaxCalls, faults : 0..MaxFaults, admin : 0..MaxAdmin]
      BY DEF IInv, TypeOK
    <2>2. count.calls + 1 \in 0..MaxCalls
      BY <2>1, BoundsAssumption DEF Begin
    <2> QED
      BY <2>1, <2>2 DEF Begin
  <1> HIDE DEF m, a
  <1>6. /\ stored' \in [Agent -> Mapping \cup {None}]
        /\ \A b \in Agent : stored'[b] # None => RowFits(stored'[b], b, item, madeFor)
    <2>1. /\ stored \in [Agent -> Mapping \cup {None}]
          /\ \A b \in Agent : stored[b] # None => RowFits(stored[b], b, item, madeFor)
      BY DEF IInv, TypeOK, RowsFit
    <2> QED
      BY <1>2, <1>3, <1>4, <2>1
  <1>7. /\ InPlace(c, m) \in BOOLEAN /\ Host \in Name /\ SignedIn \in SUBSET VmUser
        /\ "group" \in Stage /\ "find" \in Point
    BY NamesTyped DEF InPlace, SignedIn, Stage, Point
  <1> DEFINE b == InPlace(c, m)
  <1>8. p \in Progress
    <2> HIDE DEF b
    <2> QED
      BY <1>3, <1>4, <1>7, Zenon DEF Progress
  <1>9. /\ p.call = c /\ p.map = m /\ p.work = m /\ p.stage = "group" /\ p.at = "find"
        /\ p.id = None /\ p.payload = None /\ p.left = SignedIn /\ p.answer = None
    OBVIOUS
  <1>10. p.calm => InPlace(c, m)
    BY Zenon
  <1> HIDE DEF p
  <1>11. BaseFits(p, item, madeFor)
    BY <1>3, <1>9 DEF BaseFits, a
  <1>12. UpsertFits(p, item, madeFor) /\ WorkFits(p, item)
    BY <1>3, <1>9 DEF UpsertFits, WorkFits, WantsGroup, Refers
  <1>13. RequestFits(p, item, madeFor)
    BY <1>9, <1>11, <1>12 DEF RequestFits, UnderWay
  <1>14. p.calm => Calm(p)
    <2>1. InPlace(c, m) => Awaits(p)
      BY <1>9 DEF Awaits
    <2> QED
      BY <1>9, <1>10, <2>1 DEF Calm
  <1> QED
    BY <1>2, <1>5, <1>6, <1>8, <1>13, <1>14, RequestStep

-----------------------------------------------------------------------------
(* The steps that change Guacamole                                         *)

\* Items and history that stay as they are, but for the agents' requests.
LEMMA ChangedStep ==
    ASSUME IInv, item' \in [Id -> Item \cup {None}], next' \in 1..(MaxId + 1),
           madeFor' \in [Id -> Agent \cup {None}],
           count' \in [calls : 0..MaxCalls, faults : 0..MaxFaults, admin : 0..MaxAdmin],
           UNCHANGED stored, ItemsFit', NamesDiffer',
           Steady(item, madeFor, item', madeFor'),
           NEW next2, req' = next2, next2 \in [Request -> Progress \cup {None}],
           \A s \in Request : next2[s] # None =>
               RequestFits(next2[s], item', madeFor') /\ ~next2[s].calm
    PROVE  IInv'
  <1>1. TypeOK'
    BY DEF IInv, TypeOK
  <1>2. RowsFit'
    <2> SUFFICES ASSUME NEW a \in Agent, stored[a] # None
                 PROVE  RowFits(stored[a], a, item', madeFor')
      BY DEF RowsFit
    <2>1. stored[a] \in Mapping /\ RowFits(stored[a], a, item, madeFor)
      BY DEF IInv, TypeOK, RowsFit
    <2> QED
      BY <2>1, SteadyMapping DEF RowFits
  <1>3. RequestsFit'
    BY DEF RequestsFit
  <1> QED
    BY <1>1, <1>2, <1>3 DEF IInv

\* The other requests, once they are disturbed.
LEMMA OthersDisturbed ==
    ASSUME IInv, NEW r, NEW jt, NEW nf, Steady(item, madeFor, jt, nf),
           NEW s \in Request, s # r
    PROVE  /\ Disturbed(r)[s] \in Progress \cup {None}
           /\ Disturbed(r)[s] # None =>
                 RequestFits(Disturbed(r)[s], jt, nf) /\ ~Disturbed(r)[s].calm
  <1>1. CASE req[s] = None
    BY <1>1 DEF Disturbed
  <1>2. CASE req[s] # None
    <2> DEFINE q == req[s]
    <2>1. Disturbed(r)[s] = [q EXCEPT !.calm = FALSE]
      BY <1>2 DEF Disturbed
    <2>2. q \in Progress /\ RequestFits(q, item, madeFor)
      BY <1>2, ReqTyped
    <2> HIDE DEF q
    <2>3. RequestFits(q, jt, nf)
      BY <2>2, SteadyRequest
    <2>4. /\ [q EXCEPT !.calm = FALSE] \in Progress
          /\ RequestFits([q EXCEPT !.calm = FALSE], jt, nf)
          /\ [q EXCEPT !.calm = FALSE].calm = FALSE
      BY <2>2, <2>3, DisturbedRequest
    <2> QED
      BY <2>1, <2>4
  <1> QED
    BY <1>1, <1>2

LEMMA DisturbedAll ==
    ASSUME IInv, NEW r \in Request, NEW p \in Progress, NEW jt, NEW nf,
           Steady(item, madeFor, jt, nf), RequestFits(p, jt, nf), ~p.calm
    PROVE  /\ [Disturbed(r) EXCEPT ![r] = p] \in [Request -> Progress \cup {None}]
           /\ \A s \in Request : [Disturbed(r) EXCEPT ![r] = p][s] # None =>
                 /\ RequestFits([Disturbed(r) EXCEPT ![r] = p][s], jt, nf)
                 /\ ~[Disturbed(r) EXCEPT ![r] = p][s].calm
  <1> DEFINE d == Disturbed(r)
             e == [d EXCEPT ![r] = p]
  <1>1. DOMAIN d = Request /\ d = [s \in Request |-> d[s]]
    BY DEF Disturbed
  <1>2. \A s \in Request : s # r =>
           /\ d[s] \in Progress \cup {None}
           /\ d[s] # None => RequestFits(d[s], jt, nf) /\ ~d[s].calm
    BY OthersDisturbed
  <1> HIDE DEF d
  <1>3. \A s \in Request : e[s] = IF s = r THEN p ELSE d[s]
    BY <1>1
  <1>4. e = [s \in Request |-> IF s = r THEN p ELSE d[s]]
    BY <1>1
  <1>5. e \in [Request -> Progress \cup {None}]
    BY <1>2, <1>4
  <1> HIDE DEF e
  <1>6. \A s \in Request : e[s] # None => RequestFits(e[s], jt, nf) /\ ~e[s].calm
    BY <1>2, <1>3
  <1> QED
    BY <1>5, <1>6 DEF e, d

\* Group names grow with the history.
LEMMA SteadyItem ==
    ASSUME NEW it, NEW mf, NEW jt, NEW nf, Steady(it, mf, jt, nf),
           NEW i \in Id, ItemFits(i, it, mf), jt[i] = it[i],
           it[i].kind = "conn" => jt[it[i].parent] # None
    PROVE  ItemFits(i, jt, nf)
  <1>1. mf[i] \in Agent /\ mf[i] # None
    BY NoneAssumption DEF ItemFits
  <1>2. nf[i] = mf[i]
    BY <1>1 DEF Steady
  <1>3. CASE GroupFits(it[i], mf[i], mf)
    BY <1>1, <1>2, <1>3, SteadyNames DEF GroupFits, ItemFits
  <1>4. CASE ConnFits(it[i], mf[i], it, mf)
    <2> DEFINE j == it[i].parent
    <2>1. /\ j \in Id /\ it[j] # None /\ it[j].kind = "group" /\ mf[j] = mf[i]
          /\ it[i].kind = "conn" /\ jt[j] # None
      BY <1>4 DEF ConnFits
    <2>2. nf[j] = mf[j] /\ jt[j].kind = it[j].kind
      BY <1>1, <2>1 DEF Steady
    <2> QED
      BY <1>1, <1>2, <2>1, <2>2 DEF ConnFits, ItemFits
  <1> QED
    BY <1>3, <1>4 DEF ItemFits

\* An item that fits is written, over itself or as a new one.
WithItem(it, i, pl) == [it EXCEPT ![i] = pl]

\* No other item has the name in the same place.
NameFree(pl, i, it) ==
    \A k \in Id : k # i /\ it[k] # None /\ it[k].kind = pl.kind /\ it[k].name = pl.name =>
                     it[k].parent # pl.parent

LEMMA Written ==
    ASSUME IInv, NEW i \in Id, NEW pl \in Item, NEW a \in Agent,
           NEW nf \in [Id -> Agent \cup {None}], nf[i] = a,
           \A k \in Id : k # i => nf[k] = madeFor[k],
           \/ item[i] # None /\ item[i].kind = pl.kind /\ item[i].parent = pl.parent
                             /\ madeFor[i] = a
           \/ item[i] = None /\ madeFor[i] = None,
           GroupFits(pl, a, madeFor) \/ ConnFits(pl, a, item, madeFor),
           NameFree(pl, i, item)
    PROVE  /\ WithItem(item, i, pl) \in [Id -> Item \cup {None}]
           /\ WithItem(item, i, pl)[i] = pl
           /\ Steady(item, madeFor, WithItem(item, i, pl), nf)
           /\ AllFit(WithItem(item, i, pl), nf)
           /\ Differ(WithItem(item, i, pl))
  <1> DEFINE jt == WithItem(item, i, pl)
  <1>1. /\ item \in [Id -> Item \cup {None}] /\ madeFor \in [Id -> Agent \cup {None}]
        /\ ItemsFit /\ NamesDiffer /\ TypeOK
    BY DEF IInv, TypeOK
  <1>2. /\ jt[i] = pl /\ \A k \in Id : k # i => jt[k] = item[k]
        /\ jt \in [Id -> Item \cup {None}]
    BY <1>1 DEF WithItem
  <1> HIDE DEF jt
  <1>3. pl # None /\ a # None
    BY NoRecordAssumption, NoneAssumption
  <1>4. Steady(item, madeFor, jt, nf)
    <2> SUFFICES ASSUME NEW k \in Id, madeFor[k] # None
                 PROVE  /\ nf[k] = madeFor[k]
                        /\ jt[k] # None => /\ item[k] # None /\ jt[k].kind = item[k].kind
                                           /\ jt[k].parent = item[k].parent
      BY DEF Steady
    <2>1. CASE k = i
      BY <1>2, <2>1
    <2>2. CASE k # i
      BY <1>2, <2>2
    <2> QED
      BY <2>1, <2>2
  <1>5. ASSUME NEW k \in Id, jt[k] # None PROVE ItemFits(k, jt, nf)
    <2>1. CASE k = i
      <3>1. CASE GroupFits(pl, a, madeFor)
        <4>1. GroupFits(pl, a, nf)
          BY <1>4, <3>1, SteadyNames DEF GroupFits
        <4> QED
          BY <1>2, <2>1, <4>1 DEF ItemFits
      <3>2. CASE ConnFits(pl, a, item, madeFor)
        <4>1. pl.parent # i
          BY <3>2 DEF ConnFits
        <4>2. /\ jt[pl.parent] = item[pl.parent] /\ nf[pl.parent] = a
          BY <1>2, <3>2, <4>1 DEF ConnFits
        <4>3. ConnFits(pl, a, jt, nf)
          BY <3>2, <4>2 DEF ConnFits
        <4> QED
          BY <1>2, <2>1, <4>3 DEF ItemFits
      <3> QED
        BY <3>1, <3>2
    <2>2. CASE k # i
      <3>1. jt[k] = item[k] /\ item[k] # None
        BY <1>2, <1>5, <2>2
      <3>2. ItemFits(k, item, madeFor)
        BY <1>1, <3>1 DEF ItemsFit, AllFit
      <3>3. item[k].kind = "conn" => jt[item[k].parent] # None
        <4>1. item[k].kind = "conn" => item[k].parent \in Id /\ item[item[k].parent] # None
          BY <1>1, <3>1, ItemFacts DEF ConnFits
        <4> QED
          BY <1>2, <1>3, <4>1
      <3> QED
        BY <1>4, <3>1, <3>2, <3>3, SteadyItem
    <2> QED
      BY <2>1, <2>2
  <1>6. ASSUME NEW k \in Id, NEW l \in Id,
               jt[k] # None, jt[l] # None, jt[k].kind = jt[l].kind,
               jt[k].name = jt[l].name, jt[k].parent = jt[l].parent
        PROVE  k = l
    <2>1. CASE k = i
      BY <1>2, <1>6, <2>1 DEF NameFree
    <2>2. CASE l = i
      BY <1>2, <1>6, <2>2 DEF NameFree
    <2>3. CASE k # i /\ l # i
      BY <1>1, <1>2, <1>6, <2>3 DEF NamesDiffer, Differ
    <2> QED
      BY <2>1, <2>2, <2>3
  <1> QED
    BY <1>2, <1>4, <1>5, <1>6 DEF jt, AllFit, Differ

\* What Guacamole does not refuse.
LEMMA NotRefused ==
    ASSUME IInv, NEW q \in Progress, RequestFits(q, item, madeFor),
           q.stage # "serve", q.at \in {"put", "reput", "post"},
           NEW i, ~Refused(q.payload, i)
    PROVE  /\ q.payload \in Item /\ NameFree(q.payload, i, item)
           /\ WantsGroup(q) => GroupFits(q.payload, q.call.agent, madeFor)
           /\ ~WantsGroup(q) => /\ ConnFits(q.payload, q.call.agent, item, madeFor)
                                /\ q.payload.parent = InUse(q).gid
  <1>1. /\ UpsertFits(q, item, madeFor) /\ InUse(q) \in Mapping
        /\ MappingFits(InUse(q), q.call.agent, item, madeFor)
    BY ProgressFields DEF RequestFits, UnderWay, BaseFits, InUse
  <1>2. q.payload \in Item /\ PayloadFits(q, madeFor)
    BY <1>1, ProgressFields DEF UpsertFits
  <1>3. NameFree(q.payload, i, item)
    BY DEF Refused, Live, NameFree
  <1>4. CASE WantsGroup(q)
    BY <1>2, <1>3, <1>4 DEF PayloadFits
  <1>5. CASE ~WantsGroup(q)
    <2> DEFINE g == InUse(q).gid
    <2>1. q.payload.kind = "conn" /\ q.payload.parent = g /\ g \in Id /\ g # None
      BY <1>1, <1>2, <1>5, MappingFields DEF PayloadFits, UpsertFits
    <2>2. g # Root
      BY <2>1, BoundsAssumption DEF Id, Root
    <2>3. item[g] # None
      BY <2>1, <2>2 DEF Refused
    <2>4. item[g].kind = "group" /\ madeFor[g] = q.call.agent
      BY <1>1, <2>1, <2>3 DEF MappingFits, Refers
    <2> QED
      BY <1>2, <1>3, <1>5, <2>1, <2>3, <2>4 DEF ConnFits
  <1> QED
    BY <1>4, <1>5

\* The connections of items that fit lie in groups.
LEMMA ParentsLive ==
    ASSUME NEW it, NEW mf, AllFit(it, mf)
    PROVE  \A k \in Id : it[k] # None /\ it[k].kind = "conn" => it[it[k].parent] # None
  BY DEF AllFit, ItemFits, GroupFits, ConnFits

LEMMA PutStep ==
    ASSUME IInv, NEW r \in Request, Put(r)
    PROVE  IInv'
  <1> DEFINE q == req[r]
  <1>1. {"put", "reput"} \in SUBSET (Point \ {"lookup", "store", "over"}) /\ At(r, {"put", "reput"})
    BY DEF Put, Point
  <1>2. /\ q \in Progress /\ RequestFits(q, item, madeFor) /\ q.stage # "serve"
        /\ q.at \in {"put", "reput"} /\ UpsertFits(q, item, madeFor) /\ WorkFits(q, item)
        /\ q.calm => Calm(q)
    BY <1>1, UpsertFacts
  <1>3. \/ item[q.id] = None /\ q.at = "put" /\ Goes(r, MovedTo(q, "refind2")) /\ Keep
        \/ Goes(r, Failed(q)) /\ Keep
        \/ /\ item[q.id] # None /\ ~Refused(q.payload, q.id)
           /\ item' = [item EXCEPT ![q.id] = q.payload]
           /\ \E p \in Finished(q, q.id, q.name) : req' = [Disturbed(r) EXCEPT ![r] = p]
           /\ UNCHANGED <<next, madeFor, count, stored>>
    BY DEF Put, MovedTo
  <1> HIDE DEF q
  <1>4. ~q.calm
    BY <1>2 DEF Calm
  <1>5. ASSUME NEW p \in Progress, RequestFits(p, item, madeFor), ~p.calm, Goes(r, p), Keep
        PROVE  IInv'
    BY <1>5, CountKept, KeepStep DEF Keep
  <1>6. CASE item[q.id] = None /\ q.at = "put" /\ Goes(r, MovedTo(q, "refind2")) /\ Keep
    <2> DEFINE p == MovedTo(q, "refind2")
    <2>1. p \in Progress /\ Onward(q, p) /\ RequestFits(p, item, madeFor)
      BY <1>2, <1>6, MovedFits
    <2>2. Goes(r, p)
      BY <1>6
    <2> HIDE DEF p
    <2> QED
      BY <1>4, <1>5, <1>6, <2>1, <2>2 DEF Onward
  <1>7. CASE Goes(r, Failed(q)) /\ Keep
    <2>1. Failed(q) \in Progress /\ RequestFits(Failed(q), item, madeFor) /\ ~Failed(q).calm
      BY <1>2, <1>4, FailedFits, FailedCalm
    <2> QED
      BY <1>5, <1>7, <2>1
  <1>8. CASE /\ item[q.id] # None /\ ~Refused(q.payload, q.id)
             /\ item' = [item EXCEPT ![q.id] = q.payload]
             /\ \E p \in Finished(q, q.id, q.name) : req' = [Disturbed(r) EXCEPT ![r] = p]
             /\ UNCHANGED <<next, madeFor, count, stored>>
    <2> DEFINE id == q.id
               pl == q.payload
               a == q.call.agent
    <2>1. /\ id \in Id /\ a \in Agent /\ madeFor[id] = a /\ item[id].kind = KindOf(q)
          /\ ~WantsGroup(q) => item[id].parent = InUse(q).gid
      BY <1>2, <1>8, ProgressFields DEF UpsertFits, Refers
    <2>2. /\ pl \in Item /\ NameFree(pl, id, item)
          /\ WantsGroup(q) => GroupFits(pl, a, madeFor)
          /\ ~WantsGroup(q) => ConnFits(pl, a, item, madeFor) /\ pl.parent = InUse(q).gid
      BY <1>2, <1>8, NotRefused
    <2>3. item[id].kind = pl.kind /\ item[id].parent = pl.parent
      <3>1. CASE WantsGroup(q)
        <4>1. item[id].parent = Root
          BY <1>8, <2>1, <3>1, ItemFacts DEF IInv, KindOf, GroupFits
        <4> QED
          BY <2>1, <2>2, <3>1, <4>1 DEF GroupFits, KindOf
      <3>2. CASE ~WantsGroup(q)
        BY <2>1, <2>2, <3>2 DEF KindOf, ConnFits
      <3> QED
        BY <3>1, <3>2
    <2>4. item' = WithItem(item, id, pl) /\ madeFor' = madeFor /\ item[id] # None
      BY <1>8 DEF WithItem
    <2>5. madeFor \in [Id -> Agent \cup {None}]
      BY DEF IInv, TypeOK
    <2> HIDE DEF id, pl, a
    <2>6. /\ item' \in [Id -> Item \cup {None}] /\ item'[id] = pl
          /\ Steady(item, madeFor, item', madeFor)
          /\ AllFit(item', madeFor) /\ Differ(item')
      BY <2>1, <2>2, <2>3, <2>4, <2>5, Written
    <2>7. ItemsFit' /\ NamesDiffer'
      BY <1>8, <2>6 DEF ItemsFit, NamesDiffer, IInv
    <2>8. PICK p \in Finished(q, q.id, q.name) : req' = [Disturbed(r) EXCEPT ![r] = p]
      BY <1>8
    <2>9. p \in Progress /\ RequestFits(p, item', madeFor) /\ ~p.calm
      <3>1. RequestFits(q, item', madeFor)
        BY <1>2, <2>6, SteadyRequest
      <3>2. item'[q.id] # None
        <4>1. item'[id] = pl /\ pl # None
          BY <2>2, <2>6, NoRecordAssumption
        <4> QED
          BY <4>1 DEF id
      <3>3. \A k \in Id : item'[k] # None /\ item'[k].kind = "conn" => item'[item'[k].parent] # None
        BY <2>6, ParentsLive
      <3>4. p \in Progress /\ RequestFits(p, item', madeFor) /\ p.calm \in {q.calm, FALSE}
        BY <1>2, <2>6, <3>1, <3>2, <3>3, EndFits
      <3> QED
        BY <1>4, <3>4
    <2> DEFINE e == [Disturbed(r) EXCEPT ![r] = p]
    <2>10. /\ e \in [Request -> Progress \cup {None}]
           /\ \A s \in Request : e[s] # None => RequestFits(e[s], item', madeFor) /\ ~e[s].calm
      BY <2>6, <2>9, DisturbedAll
    <2>11. req' = e
      BY <2>8
    <2> HIDE DEF e
    <2>12. /\ next' \in 1..(MaxId + 1) /\ madeFor' = madeFor /\ stored' = stored
           /\ count' \in [calls : 0..MaxCalls, faults : 0..MaxFaults, admin : 0..MaxAdmin]
           /\ madeFor' \in [Id -> Agent \cup {None}]
      BY <1>8 DEF IInv, TypeOK
    <2> QED
      BY <2>6, <2>7, <2>10, <2>11, <2>12, ChangedStep
  <1> QED
    BY <1>3, <1>6, <1>7, <1>8

LEMMA PostStep ==
    ASSUME IInv, NEW r \in Request, Post(r)
    PROVE  IInv'
  <1> DEFINE q == req[r]
             a == q.call.agent
             pl == q.payload
             nf == [madeFor EXCEPT ![next] = a]
  <1>1. {"post"} \in SUBSET (Point \ {"lookup", "store", "over"}) /\ At(r, {"post"})
    BY DEF Post, Point
  <1>2. /\ q \in Progress /\ RequestFits(q, item, madeFor) /\ q.stage # "serve"
        /\ q.at = "post" /\ UpsertFits(q, item, madeFor) /\ WorkFits(q, item)
        /\ q.calm => Calm(q)
    BY <1>1, UpsertFacts
  <1>3. \/ Goes(r, Failed(q)) /\ Keep
        \/ /\ ~Refused(pl, None) /\ next <= MaxId
           /\ item' = WithItem(item, next, pl) /\ next' = next + 1 /\ madeFor' = nf
           /\ \/ /\ \E p \in Finished(q, next, q.name) : req' = [Disturbed(r) EXCEPT ![r] = p]
                 /\ UNCHANGED count
              \/ /\ Fault
                 /\ req' = [Disturbed(r) EXCEPT ![r] = [Failed(q) EXCEPT !.calm = FALSE]]
           /\ UNCHANGED stored
    BY DEF Post, WithItem
  <1> HIDE DEF q
  <1>4. ~q.calm
    BY <1>2 DEF Calm
  <1>5. CASE Goes(r, Failed(q)) /\ Keep
    <2>1. Failed(q) \in Progress /\ RequestFits(Failed(q), item, madeFor) /\ ~Failed(q).calm
      BY <1>2, <1>4, FailedFits, FailedCalm
    <2> QED
      BY <1>5, <2>1, CountKept, KeepStep DEF Keep
  <1>6. CASE /\ ~Refused(pl, None) /\ next <= MaxId
             /\ item' = WithItem(item, next, pl) /\ next' = next + 1 /\ madeFor' = nf
             /\ \/ /\ \E p \in Finished(q, next, q.name) :
                         req' = [Disturbed(r) EXCEPT ![r] = p]
                   /\ UNCHANGED count
                \/ /\ Fault
                   /\ req' = [Disturbed(r) EXCEPT ![r] = [Failed(q) EXCEPT !.calm = FALSE]]
             /\ UNCHANGED stored
    <2>1. /\ TypeOK /\ ItemsFit /\ NamesDiffer
          /\ madeFor \in [Id -> Agent \cup {None}] /\ item \in [Id -> Item \cup {None}]
          /\ next \in 1..(MaxId + 1) /\ MaxId \in Nat
      BY BoundsAssumption DEF IInv, TypeOK
    <2>2. next \in Id /\ next # None /\ next' \in 1..(MaxId + 1)
      BY <1>6, <2>1, NoneAssumption DEF Id
    <2>3. madeFor[next] = None
      BY <2>1, <2>2 DEF ItemsFit
    <2>4. item[next] = None
      BY <2>1, <2>2, <2>3, NoneAssumption DEF ItemsFit, AllFit, ItemFits
    <2>5. a \in Agent /\ a # None
      BY <1>2, ProgressFields, NoneAssumption
    <2> HIDE DEF a, pl
    <2>6. /\ nf \in [Id -> Agent \cup {None}] /\ nf[next] = a
          /\ \A k \in Id : k # next => nf[k] = madeFor[k]
      BY <2>1, <2>2, <2>5
    <2> HIDE DEF nf
    <2>7. /\ pl \in Item /\ NameFree(pl, None, item)
          /\ WantsGroup(q) => GroupFits(pl, a, madeFor)
          /\ ~WantsGroup(q) => ConnFits(pl, a, item, madeFor) /\ pl.parent = InUse(q).gid
      BY <1>2, <1>6, NotRefused DEF a, pl
    <2>8. NameFree(pl, next, item)
      BY <2>7, NoneAssumption DEF NameFree, Id
    <2>9. /\ item' \in [Id -> Item \cup {None}] /\ item'[next] = pl
          /\ Steady(item, madeFor, item', nf) /\ AllFit(item', nf) /\ Differ(item')
      BY <1>6, <2>2, <2>3, <2>4, <2>5, <2>6, <2>7, <2>8, Written
    <2>10. ItemsFit' /\ NamesDiffer'
      <3>1. ASSUME NEW i \in Id PROVE i < next + 1 <=> nf[i] # None
        <4>1. i < next <=> madeFor[i] # None
          BY <2>1 DEF ItemsFit
        <4> QED
          BY <2>1, <2>2, <2>5, <2>6, <4>1 DEF Id
      <3> QED
        BY <1>6, <2>9, <3>1 DEF ItemsFit, NamesDiffer
    <2>11. RequestFits(q, item', nf)
      BY <1>2, <2>9, SteadyRequest
    <2>12. ASSUME NEW p \in Progress, RequestFits(p, item', nf), ~p.calm,
                  req' = [Disturbed(r) EXCEPT ![r] = p],
                  count' \in [calls : 0..MaxCalls, faults : 0..MaxFaults, admin : 0..MaxAdmin]
           PROVE  IInv'
      <3> DEFINE e == [Disturbed(r) EXCEPT ![r] = p]
      <3>1. /\ e \in [Request -> Progress \cup {None}]
            /\ \A s \in Request : e[s] # None => RequestFits(e[s], item', nf) /\ ~e[s].calm
        BY <2>9, <2>12, DisturbedAll
      <3>2. req' = e
        BY <2>12
      <3> HIDE DEF e
      <3>3. madeFor' = nf /\ stored' = stored /\ madeFor' \in [Id -> Agent \cup {None}]
        BY <1>6, <2>6
      <3> QED
        BY <2>2, <2>9, <2>10, <2>12, <3>1, <3>2, <3>3, ChangedStep
    <2>13. CASE /\ \E p \in Finished(q, next, q.name) : req' = [Disturbed(r) EXCEPT ![r] = p]
                /\ UNCHANGED count
      <3>1. PICK p \in Finished(q, next, q.name) : req' = [Disturbed(r) EXCEPT ![r] = p]
        BY <2>13
      <3>2. /\ item'[next] # None /\ item'[next].kind = KindOf(q) /\ nf[next] = q.call.agent
            /\ ~WantsGroup(q) => item'[next].parent = InUse(q).gid
        BY <2>6, <2>7, <2>9, NoRecordAssumption DEF KindOf, GroupFits, ConnFits, a
      <3>3. q.name \in Name /\ (WantsGroup(q) => q.name \in GroupName(q.call.agent, nf))
        <4>1. q.name \in Name /\ q.call.agent \in Agent
          BY <1>2, ProgressFields
        <4>2. UpsertFits(q, item', nf)
          BY <1>2, <2>11 DEF RequestFits, UnderWay
        <4> QED
          BY <1>2, <4>1, <4>2 DEF UpsertFits
      <3>4. q.stage = "group" /\ q.work.gid # None => item'[q.work.gid] = None
        <4>1. WorkFits(q, item')
          BY <1>2, <2>11 DEF RequestFits, UnderWay
        <4> QED
          BY <1>2, <4>1 DEF WorkFits
      <3>5. \A k \in Id : item'[k] # None /\ item'[k].kind = "conn" => item'[item'[k].parent] # None
        BY <2>9, ParentsLive
      <3>6. p \in Progress /\ RequestFits(p, item', nf) /\ p.calm \in {q.calm, FALSE}
        <4> DEFINE n == q.name
                   id == next
                   it == item'
        <4>1. /\ id \in Id /\ n \in Name /\ nf[id] = q.call.agent
              /\ it[id] # None /\ it[id].kind = KindOf(q)
              /\ WantsGroup(q) => n \in GroupName(q.call.agent, nf)
              /\ ~WantsGroup(q) => it[id].parent = InUse(q).gid
              /\ q.stage = "group" /\ q.work.gid # None => it[q.work.gid] = None
              /\ \A i \in Id : it[i] # None /\ it[i].kind = "conn" => it[it[i].parent] # None
              /\ p \in Finished(q, id, n) /\ q.at # "over" /\ q.stage # "serve"
              /\ q \in Progress /\ RequestFits(q, it, nf)
          BY <1>2, <2>2, <2>11, <3>1, <3>2, <3>3, <3>4, <3>5
        <4>2. p \in Progress /\ RequestFits(p, it, nf) /\ p.calm \in {q.calm, FALSE}
          <5> HIDE DEF n, id, it
          <5> QED
            BY ONLY <4>1, FinishedFits
        <4> QED
          BY <4>2
      <3>7. count' \in [calls : 0..MaxCalls, faults : 0..MaxFaults, admin : 0..MaxAdmin]
        BY <2>13 DEF IInv, TypeOK
      <3> QED
        BY <1>4, <2>12, <3>1, <3>6, <3>7
    <2>14. CASE /\ Fault
                /\ req' = [Disturbed(r) EXCEPT ![r] = [Failed(q) EXCEPT !.calm = FALSE]]
      <3> DEFINE f == Failed(q)
                 p == [f EXCEPT !.calm = FALSE]
      <3>1. f \in Progress /\ RequestFits(f, item', nf)
        BY <1>2, <2>11, FailedFits
      <3>2. req' = [Disturbed(r) EXCEPT ![r] = p]
        BY <2>14
      <3> HIDE DEF f
      <3>3. p \in Progress /\ RequestFits(p, item', nf) /\ ~p.calm
        BY <3>1, DisturbedRequest
      <3> HIDE DEF p
      <3> QED
        BY <2>12, <2>14, <3>2, <3>3, FaultTyped
    <2> QED
      BY <1>6, <2>13, <2>14
  <1> QED
    BY <1>3, <1>5, <1>6

\* A group that is deleted takes its connections with it, and no other item.
LEMMA Deleted ==
    ASSUME IInv, NEW i \in Id, Delete(i)
    PROVE  /\ item' \in [Id -> Item \cup {None}]
           /\ Steady(item, madeFor, item', madeFor)
           /\ AllFit(item', madeFor) /\ Differ(item')
  <1>1. TypeOK /\ ItemsFit /\ NamesDiffer /\ item \in [Id -> Item \cup {None}]
    BY DEF IInv, TypeOK
  <1>2. /\ item' \in [Id -> Item \cup {None}]
        /\ \A k \in Id : item'[k] =
              IF k = i \/ (item[k] # None /\ item[k].parent = i) THEN None ELSE item[k]
    BY <1>1 DEF Delete
  <1>3. Steady(item, madeFor, item', madeFor)
    BY <1>2 DEF Steady
  <1>4. ASSUME NEW k \in Id, item'[k] # None PROVE ItemFits(k, item', madeFor)
    <2>1. item'[k] = item[k] /\ item[k] # None /\ item[k].parent # i
      BY <1>2, <1>4
    <2>2. ItemFits(k, item, madeFor)
      BY <1>1, <2>1 DEF ItemsFit, AllFit
    <2>3. item[k].kind = "conn" => item'[item[k].parent] # None
      <3>1. SUFFICES ASSUME item[k].kind = "conn" PROVE item'[item[k].parent] # None
        OBVIOUS
      <3> DEFINE j == item[k].parent
      <3>2. j \in Id /\ item[j] # None /\ item[j].kind = "group"
        BY <1>1, <2>1, <3>1, ItemFacts DEF ConnFits
      <3>3. item[j].parent = Root
        BY <1>1, <3>2, ItemFacts DEF GroupFits
      <3>4. Root # i
        BY BoundsAssumption DEF Root, Id
      <3> QED
        BY <1>2, <2>1, <3>2, <3>3, <3>4
    <2> QED
      BY <1>3, <2>1, <2>2, <2>3, SteadyItem
  <1>5. Differ(item')
    BY <1>1, <1>2 DEF NamesDiffer, Differ
  <1> QED
    BY <1>2, <1>3, <1>4, <1>5 DEF AllFit

\* An item that is renamed stays where it is, under a name of its own agent.
LEMMA RenamedFits ==
    ASSUME IInv, NEW i \in Id, Rename(i)
    PROVE  /\ item' \in [Id -> Item \cup {None}]
           /\ Steady(item, madeFor, item', madeFor)
           /\ AllFit(item', madeFor) /\ Differ(item')
  <1> DEFINE old == item[i]
             pl == [old EXCEPT !.name = Renamed(i)]
             a == madeFor[i]
  <1>1. /\ TypeOK /\ ItemsFit /\ madeFor \in [Id -> Agent \cup {None}] /\ old # None
        /\ item \in [Id -> Item \cup {None}]
    BY DEF IInv, TypeOK, Rename
  <1>2. /\ old \in Item /\ a \in Agent /\ old.kind \in {"group", "conn"}
        /\ old.kind = "group" => GroupFits(old, a, madeFor)
        /\ old.kind = "conn" => ConnFits(old, a, item, madeFor)
    BY <1>1, ItemFacts
  <1>3. item' = WithItem(item, i, pl) /\ ~Refused(pl, i)
    BY <1>1 DEF Rename, WithItem
  <1>4. Renamed(i) \in Name /\ Renamed(i) \in GroupName(a, madeFor)
    <2>1. Renamed(i) \in GroupName(a, madeFor)
      BY DEF GroupName
    <2> QED
      BY <1>1, <1>2, <2>1, GroupNameType
  <1> HIDE DEF old
  <1>5. /\ pl \in Item /\ pl.kind = old.kind /\ pl.parent = old.parent /\ pl.name = Renamed(i)
        /\ pl.who = old.who /\ pl.owner = old.owner /\ pl.files = old.files
    BY <1>2, <1>4 DEF Item
  <1> HIDE DEF pl, a
  <1>6. GroupFits(pl, a, madeFor) \/ ConnFits(pl, a, item, madeFor)
    BY <1>2, <1>4, <1>5 DEF GroupFits, ConnFits
  <1>7. NameFree(pl, i, item)
    BY <1>3 DEF Refused, Live, NameFree
  <1>8. item[i] # None /\ item[i].kind = pl.kind /\ item[i].parent = pl.parent /\ madeFor[i] = a
    BY <1>1, <1>5 DEF old, a
  <1> QED
    BY <1>1, <1>2, <1>3, <1>5, <1>6, <1>7, <1>8, Written

LEMMA AdminStep ==
    ASSUME IInv, AdminActs
    PROVE  IInv'
  <1>1. PICK i \in Id : Delete(i) \/ Rename(i)
    BY DEF AdminActs
  <1>2. /\ item' \in [Id -> Item \cup {None}]
        /\ Steady(item, madeFor, item', madeFor)
        /\ AllFit(item', madeFor) /\ Differ(item')
    BY <1>1, Deleted, RenamedFits
  <1>3. /\ req' = Disturbed(None) /\ UNCHANGED <<next, madeFor, stored>>
        /\ next' \in 1..(MaxId + 1) /\ madeFor' \in [Id -> Agent \cup {None}]
    BY DEF AdminActs, IInv, TypeOK
  <1>4. count' \in [calls : 0..MaxCalls, faults : 0..MaxFaults, admin : 0..MaxAdmin]
    <2>1. count \in [calls : 0..MaxCalls, faults : 0..MaxFaults, admin : 0..MaxAdmin]
      BY DEF IInv, TypeOK
    <2>2. count.admin + 1 \in 0..MaxAdmin
      BY <2>1, BoundsAssumption DEF AdminActs
    <2> QED
      BY <2>1, <2>2 DEF AdminActs
  <1>5. ItemsFit' /\ NamesDiffer'
    BY <1>2, <1>3 DEF ItemsFit, NamesDiffer, IInv
  <1> DEFINE d == Disturbed(None)
  <1>6. \A s \in Request : /\ d[s] \in Progress \cup {None}
                           /\ d[s] # None => RequestFits(d[s], item', madeFor) /\ ~d[s].calm
    BY <1>2, OthersDisturbed, NoneAssumption
  <1>7. d = [s \in Request |-> d[s]] /\ req' = d
    BY <1>3 DEF Disturbed
  <1> HIDE DEF d
  <1>8. d \in [Request -> Progress \cup {None}]
    BY <1>6, <1>7
  <1>9. \A s \in Request : d[s] # None => RequestFits(d[s], item', madeFor') /\ ~d[s].calm
    BY <1>3, <1>6
  <1>10. Steady(item, madeFor, item', madeFor')
    BY <1>2, <1>3
  <1> QED
    BY <1>2, <1>3, <1>4, <1>5, <1>7, <1>8, <1>9, <1>10, ChangedStep

-----------------------------------------------------------------------------
(* The theorems                                                            *)

LEMMA InitFits == Init => IInv
  <1> SUFFICES ASSUME Init PROVE IInv
    OBVIOUS
  <1>1. TypeOK
    <2>1. /\ item \in [Id -> Item \cup {None}] /\ madeFor \in [Id -> Agent \cup {None}]
          /\ stored \in [Agent -> Mapping \cup {None}]
          /\ req \in [Request -> Progress \cup {None}]
      BY DEF Init
    <2>2. next \in 1..(MaxId + 1)
      BY BoundsAssumption DEF Init
    <2>3. count \in [calls : 0..MaxCalls, faults : 0..MaxFaults, admin : 0..MaxAdmin]
      BY BoundsAssumption DEF Init
    <2> QED
      BY <2>1, <2>2, <2>3 DEF TypeOK
  <1>2. ItemsFit
    <2>1. \A i \in Id : ~(i < 1)
      BY BoundsAssumption DEF Id
    <2> QED
      BY <2>1 DEF Init, ItemsFit, AllFit
  <1>3. NamesDiffer /\ RowsFit /\ RequestsFit
    BY DEF Init, NamesDiffer, Differ, RowsFit, RequestsFit
  <1> QED
    BY <1>1, <1>2, <1>3 DEF IInv

LEMMA NextFits == IInv /\ [Next]_vars => IInv'
  <1> SUFFICES ASSUME IInv, [Next]_vars PROVE IInv'
    OBVIOUS
  <1>1. CASE AdminActs
    BY <1>1, AdminStep
  <1>2. ASSUME NEW r \in Request, Step(r) PROVE IInv'
    BY <1>2, BeginStep, FindStep, GetStep, RefindStep, GetAgainStep, PutStep, PostStep,
       CallFailsStep, StoreStep, ServeSessionStep DEF Step
  <1>3. CASE UNCHANGED vars
    <2>1. /\ UNCHANGED item /\ UNCHANGED next /\ UNCHANGED madeFor /\ UNCHANGED count
          /\ UNCHANGED stored /\ UNCHANGED req
      BY <1>3 DEF vars
    <2>2. TypeOK' /\ ItemsFit' /\ NamesDiffer' /\ RowsFit'
      BY <2>1 DEF IInv, TypeOK, ItemsFit, NamesDiffer, RowsFit
    <2>3. RequestsFit'
      <3> SUFFICES ASSUME NEW s \in Request, req'[s] # None
                   PROVE  /\ RequestFits(req'[s], item', madeFor')
                          /\ req'[s].calm => Calm(req[s])'
        BY DEF RequestsFit
      <3> QED
        BY <2>1, ReqTyped, CalmKept
    <2> QED
      BY <2>2, <2>3 DEF IInv
  <1> QED
    BY <1>1, <1>2, <1>3 DEF Next

\* The inductive invariant: for every number of agents, users and requests, and
\* however the REST calls of their upserts, failed calls and Guacamole's
\* administrator interleave, every item belongs to the agent it was made for, no
\* two items share a name and a place, and every row, mapping and upsert refers
\* to items of its own agent (guacamole/bridge.py, guacamole/mapping.py).
THEOREM ProvisioningInvariant == Spec => []IInv
  BY InitFits, NextFits, PTL DEF Spec

\* What provisioning leaves behind is typed, and the connection an agent's row
\* names, as long as it exists, lies in the group the row names (upsert_agent
\* after provision_guacamole_agent_target_with_diagnostics).
THEOREM StoredOKCorrect == Spec => []StoredOK
  <1>1. IInv => StoredOK
    <2> SUFFICES ASSUME IInv PROVE StoredOK
      OBVIOUS
    <2>1. ASSUME NEW a \in Agent, stored[a] # None, stored[a].cid # None,
                 item[stored[a].cid] # None
          PROVE  item[stored[a].cid].parent = stored[a].gid
      BY <2>1 DEF IInv, RowsFit, RowFits, PairFits
    <2> QED
      BY <2>1 DEF StoredOK, StoredPairFits, IInv
  <1> QED
    BY <1>1, ProvisioningInvariant, PTL

\* Provisioning is idempotent: a request that found in Guacamole everything it is
\* to keep, and has met neither a failure nor another writer, never gets to a
\* write, a create or a second look (the "reused" answers of
\* _upsert_guacamole_group and _upsert_guacamole_connection).
THEOREM InPlaceIsReusedCorrect == Spec => []InPlaceIsReused
  <1>1. IInv => InPlaceIsReused
    BY DEF IInv, RequestsFit, Calm, InPlaceIsReused, At
  <1> QED
    BY <1>1, ProvisioningInvariant, PTL

\* A session whose mapping has a group is never answered with a connection that
\* was made for another agent (create_guacamole_client_session).
THEOREM AnswerIsOwnCorrect == Spec => []AnswerIsOwn
  <1>1. IInv => AnswerIsOwn
    BY DEF IInv, RequestsFit, RequestFits, AnswerIsOwn
  <1> QED
    BY <1>1, ProvisioningInvariant, PTL

\* Of the steps of a request, only a write of an item of its own agent changes an
\* item that exists.
LEMMA OwnChange ==
    ASSUME IInv, NEW r \in Request, Step(r),
           NEW i \in Id, item[i] # None, item'[i] # None, item'[i] # item[i]
    PROVE  req'[r] # req[r] /\ req[r].call.agent = madeFor[i]
  <1> DEFINE q == req[r]
  <1>1. \/ /\ At(r, {"put", "reput"})
           /\ item[q.id] # None /\ item' = [item EXCEPT ![q.id] = q.payload]
           /\ \E p \in Finished(q, q.id, q.name) : req' = [Disturbed(r) EXCEPT ![r] = p]
        \/ next <= MaxId /\ item' = [item EXCEPT ![next] = q.payload]
    <2>1. item' # item
      OBVIOUS
    <2>2. Put(r) \/ Post(r)
      BY <2>1 DEF Step, Begin, Find, Get, Refind, GetAgain, CallFails, Store, ServeSession, Keep
    <2>3. CASE Put(r)
      BY <2>1, <2>3 DEF Put, Keep
    <2>4. CASE Post(r)
      BY <2>1, <2>4 DEF Post, Keep
    <2> QED
      BY <2>2, <2>3, <2>4
  <1>2. item \in [Id -> Item \cup {None}] /\ req \in [Request -> Progress \cup {None}]
    BY DEF IInv, TypeOK
  <1>3. CASE next <= MaxId /\ item' = [item EXCEPT ![next] = q.payload]
    <2>1. next \in Id
      BY <1>3, BoundsAssumption DEF IInv, TypeOK, Id
    <2>2. madeFor[next] = None
      BY <2>1, BoundsAssumption DEF IInv, TypeOK, ItemsFit, Id
    <2>3. item[next] = None
      BY <2>1, <2>2, NoneAssumption DEF IInv, ItemsFit, AllFit, ItemFits
    <2> QED
      BY <1>2, <1>3, <2>1, <2>3
  <1>4. CASE /\ At(r, {"put", "reput"})
             /\ item[q.id] # None /\ item' = [item EXCEPT ![q.id] = q.payload]
             /\ \E p \in Finished(q, q.id, q.name) : req' = [Disturbed(r) EXCEPT ![r] = p]
    <2>1. {"put", "reput"} \in SUBSET (Point \ {"lookup", "store", "over"})
      BY DEF Point
    <2>2. /\ q \in Progress /\ RequestFits(q, item, madeFor) /\ q.stage # "serve"
          /\ q.at \in {"put", "reput"} /\ UpsertFits(q, item, madeFor)
      BY <1>4, <2>1, UpsertFacts
    <2>3. PICK p \in Finished(q, q.id, q.name) : req' = [Disturbed(r) EXCEPT ![r] = p]
      BY <1>4
    <2>4. req'[r] = p
      BY <2>3 DEF Disturbed
    <2> HIDE DEF q
    <2>5. \A k \in Id : item[k] # None /\ item[k].kind = "conn" => item[item[k].parent] # None
      BY ParentsLive DEF IInv, ItemsFit
    <2>6. p.at \in {"find", "lookup", "store", "over"}
      BY <1>2, <1>4, <2>2, <2>5, EndFits
    <2>7. i = q.id
      BY <1>2, <1>4
    <2>8. q.call.agent = madeFor[i]
      BY <2>2, <2>7, NoneAssumption DEF UpsertFits, Refers
    <2>9. p # q
      BY <2>2, <2>6
    <2> QED
      BY <2>4, <2>8, <2>9 DEF q
  <1> QED
    BY <1>1, <1>3, <1>4

\* Agents do not get into each other's way, though their machines may share a
\* host name: an item that exists is only changed by a request for the agent it
\* was made for, or by Guacamole's administrator (the parent passed to
\* _resolve_connection_identifier, the names of _resolve_connection_group_identifier).
THEOREM OwnItemsOnlyCorrect == Spec => OwnItemsOnly
  <1> DEFINE Own == \A i \in Id :
                       item[i] # None /\ item'[i] # None /\ item'[i] # item[i] =>
                          \/ count'.admin # count.admin
                          \/ \E r \in Request : req'[r] # req[r] /\ req[r].call.agent = madeFor[i]
  <1>1. IInv /\ [Next]_vars => [Own]_vars
    <2> SUFFICES ASSUME IInv, Next, NEW i \in Id,
                        item[i] # None, item'[i] # None, item'[i] # item[i]
                 PROVE  \/ count'.admin # count.admin
                        \/ \E r \in Request : req'[r] # req[r] /\ req[r].call.agent = madeFor[i]
      OBVIOUS
    <2>1. CASE AdminActs
      <3>1. count \in [calls : 0..MaxCalls, faults : 0..MaxFaults, admin : 0..MaxAdmin]
        BY DEF IInv, TypeOK
      <3>2. count.admin + 1 # count.admin
        BY <3>1, BoundsAssumption
      <3> QED
        BY <2>1, <3>1, <3>2 DEF AdminActs
    <2>2. CASE \E r \in Request : Step(r)
      BY <2>2, OwnChange
    <2> QED
      BY <2>1, <2>2 DEF Next
  <1> QED
    BY <1>1, ProvisioningInvariant, PTL DEF Spec, OwnItemsOnly

=============================================================================
