------------------------------ MODULE UserLogins ------------------------------
(***************************************************************************)
(* Logging in (users/service.py, api/routers/users_router.py): the local   *)
(* administrator's password, and Microsoft's authorization-code flow.  A   *)
(* Microsoft login leaves the server between its two halves: meanwhile the *)
(* settings may change, the provider's metadata, which is cached for an    *)
(* hour, may become another tenant's, the browser may bring the callback   *)
(* twice or late, and the server may be restarted.                         *)
(*                                                                         *)
(* Each half runs on the event loop without an await, network calls        *)
(* included, and is one step.  Of a token's claims the model keeps the     *)
(* tenant that issued it, the user and the groups.                         *)
(***************************************************************************)
EXTENDS Integers, FiniteSets

CONSTANTS
    State,       \* values of the state parameter, one for every login begun
    User,        \* users of Microsoft accounts
    Tenant,
    NoTenant,    \* tenant_id = ""
    PendingTtl,  \* a login may be finished before this time has passed (600 s)
    CacheTtl,    \* the metadata is kept as long (3600 s)
    SessionTtl,  \* session_ttl_seconds
    LastTime,    \* bound: the model's time ends
    None

Mode == {"allow_all", "allow_limited", "deny_unlisted"}

VARIABLES
    now,
    identity,  \* IdentitySettings: the tenant, whether the provider is locked, the
               \* access mode, the users of a group that is mapped to the
               \* admin role (which also lists them: allow_mapped_groups)
    cache,     \* _oidc_metadata_cache: whose metadata, and when it was fetched
    pending,   \* _pending_oidc: until when each login begun may be finished
    codes,     \* the codes the tenants have sent to a browser
    spent,     \* the codes exchanged for a token
    sessions,  \* _sessions
    finished   \* the logins that were finished with a session

vars == <<now, identity, cache, pending, codes, spent, sessions, finished>>

Code == [state : State, tenant : Tenant, user : User, n : 1..2]

Session == [user : User \cup {"local"}, tenant : Tenant \cup {None}, login : State \cup {None},
            role : {"admin", "viewer"}, sees : BOOLEAN, expires : Nat]

TypeOK ==
    /\ now \in 0..LastTime
    /\ identity \in [tenant : Tenant \cup {NoTenant}, locked : BOOLEAN, mode : Mode, mapped : SUBSET User]
    /\ cache \in [tenant : Tenant \cup {None}, at : 0..LastTime]
    /\ pending \in [State -> Nat \cup {None}]
    /\ codes \subseteq Code
    /\ spent \subseteq codes
    /\ sessions \subseteq Session
    /\ finished \in [State -> Nat]

NoCache == [tenant |-> None, at |-> 0]

Init ==
    /\ now = 0
    /\ identity \in [tenant : Tenant, locked : {FALSE}, mode : Mode, mapped : {{}}]
    /\ cache = NoCache
    /\ pending = [s \in State |-> None]
    /\ codes = {}
    /\ spent = {}
    /\ sessions = {}
    /\ finished = [s \in State |-> 0]

-----------------------------------------------------------------------------

\* _purge_expired_sessions
Live(set) == {x \in set : x.expires > now}

\* create_session
Opened(x) == Live(sessions) \cup {x}

\* evaluate_identity_access
MaySee(u) == identity.mode = "allow_all" \/ u \in identity.mapped

MayLogIn(u) == identity.mode # "deny_unlisted" \/ u \in identity.mapped

\* _get_oidc_metadata: the tenant whose metadata is used, None when the call
\* raises.  The cache does not know whose metadata it holds.
Metadata ==
    IF cache.tenant # None /\ now - cache.at < CacheTtl THEN cache.tenant
    ELSE IF identity.tenant = NoTenant THEN None ELSE identity.tenant

Cached == IF Metadata = None \/ (cache.tenant # None /\ now - cache.at < CacheTtl)
          THEN cache ELSE [tenant |-> Metadata, at |-> now]

\* PATCH /settings/server: the tenant until the provider is locked, and the policy.
ChangeTenant(t) ==
    /\ ~identity.locked
    /\ identity' = [identity EXCEPT !.tenant = t]
    /\ UNCHANGED <<now, cache, pending, codes, spent, sessions, finished>>

Activate ==
    /\ ~identity.locked /\ identity.tenant # NoTenant
    /\ identity' = [identity EXCEPT !.locked = TRUE]
    /\ UNCHANGED <<now, cache, pending, codes, spent, sessions, finished>>

MapUser(u) ==
    /\ u \notin identity.mapped
    /\ identity' = [identity EXCEPT !.mapped = @ \cup {u}]
    /\ UNCHANGED <<now, cache, pending, codes, spent, sessions, finished>>

\* authenticate_local_admin with the right password, until Azure is locked in.
LocalLogin ==
    /\ ~identity.locked
    /\ sessions' = Opened([user |-> "local", tenant |-> None, login |-> None, role |-> "admin",
                           sees |-> TRUE, expires |-> now + SessionTtl])
    /\ UNCHANGED <<now, identity, cache, pending, codes, spent, finished>>

\* begin_microsoft_login
BeginLogin(s) ==
    /\ pending[s] = None /\ finished[s] = 0 /\ \A c \in codes : c.state # s
    /\ Metadata # None
    /\ cache' = Cached
    /\ pending' = [pending EXCEPT ![s] = now + PendingTtl]
    /\ \E u \in User : codes' = codes \cup {[state |-> s, tenant |-> Metadata, user |-> u, n |-> 1]}
    /\ UNCHANGED <<now, identity, spent, sessions, finished>>

\* The user goes back to the tenant's page, and is sent off with another code.
AuthorizeAgain(c) ==
    /\ c.n = 1
    /\ codes' = codes \cup {[c EXCEPT !.n = 2]}
    /\ UNCHANGED <<now, identity, cache, pending, spent, sessions, finished>>

\* _purge_expired_pending_oidc
Unexpired == [s \in State |-> IF pending[s] # None /\ pending[s] <= now THEN None ELSE pending[s]]

\* The tenant whose metadata is used exchanges the codes it sent, once each.
Exchanges(c) == Metadata = c.tenant /\ c \notin spent

\* Faulty: any token is good enough.
AcceptsAnyIssuer(c) == MayLogIn(c.user)

\* _build_user_from_claims does not raise: the issuer is the tenant of the
\* settings, if they name one, and the policy lets the user in.
AcceptsClaims(c) ==
    /\ identity.tenant \in {NoTenant, c.tenant}
    /\ MayLogIn(c.user)

SessionOf(c) ==
    [user |-> c.user, tenant |-> c.tenant, login |-> c.state,
     role |-> IF c.user \in identity.mapped THEN "admin" ELSE "viewer",
     sees |-> MaySee(c.user), expires |-> now + SessionTtl]

\* finish_microsoft_login, for a callback the browser brings any number of times:
\* the pending login is taken out whether or not the rest succeeds.
FinishLogin(c) ==
    /\ pending' = [Unexpired EXCEPT ![c.state] = None]
    /\ IF Unexpired[c.state] = None
       THEN UNCHANGED <<cache, spent, sessions, finished>>
       ELSE /\ cache' = Cached
            /\ spent' = IF Exchanges(c) THEN spent \cup {c} ELSE spent
            /\ IF Exchanges(c) /\ AcceptsClaims(c)
               THEN /\ sessions' = Opened(SessionOf(c))
                    /\ finished' = [finished EXCEPT ![c.state] = @ + 1]
               ELSE UNCHANGED <<sessions, finished>>
    /\ UNCHANGED <<now, identity, codes>>

\* get_session, for a request to the API, and revoke_session, at logout.
UseSession ==
    /\ sessions' = Live(sessions)
    /\ UNCHANGED <<now, identity, cache, pending, codes, spent, finished>>

Logout(x) ==
    /\ x \in Live(sessions)
    /\ sessions' = Live(sessions) \ {x}
    /\ UNCHANGED <<now, identity, cache, pending, codes, spent, finished>>

TimePasses ==
    /\ now < LastTime
    /\ now' = now + 1
    /\ UNCHANGED <<identity, cache, pending, codes, spent, sessions, finished>>

\* Sessions, pending logins and the metadata are in memory only.
Restart ==
    /\ cache' = NoCache
    /\ pending' = [s \in State |-> None]
    /\ sessions' = {}
    /\ UNCHANGED <<now, identity, codes, spent, finished>>

Next ==
    \/ \E t \in Tenant \cup {NoTenant} : ChangeTenant(t)
    \/ \E u \in User : MapUser(u)
    \/ \E s \in State : BeginLogin(s)
    \/ \E c \in codes : AuthorizeAgain(c) \/ FinishLogin(c)
    \/ \E x \in sessions : Logout(x)
    \/ Activate \/ LocalLogin \/ UseSession \/ TimePasses \/ Restart

Spec == Init /\ [][Next]_vars

-----------------------------------------------------------------------------
(* Properties *)

\* A session opened by a Microsoft login is one of a user of the tenant that the
\* settings name at that moment, if they name one, although the login was begun,
\* and the metadata fetched, under another one: an administrator who corrects the
\* tenant does not let in users of the wrong one.
SessionFitsTenant ==
    [][\A x \in sessions' \ sessions :
          x.tenant # None /\ identity.tenant # NoTenant => x.tenant = identity.tenant]_vars

\* A login that was begun opens one session at most, however often its callback
\* comes, with the same code or with another one of the same user.
OneSessionPerLogin == \A s \in State : finished[s] <= 1
=============================================================================
