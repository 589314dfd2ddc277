------------------------- MODULE GuacamoleSessions -------------------------
(***************************************************************************)
(* The remote desktop sessions the server tracks                           *)
(* (services/guacamole_service.py, services/rdp_monitor_service.py and     *)
(* api/routers/guacamole_router.py).                                       *)
(*                                                                         *)
(* A user asks for a session on an agent and is given a Guacamole token,   *)
(* the one already tracked for the user or a new one, and an HTTP tunnel.  *)
(* Requests of one user are serialised by an asyncio lock; everything that *)
(* closes sessions runs without it: the idle sweep, a delayed close per    *)
(* closed browser tab, an administrator's kick, kill-all or revoke.  Every *)
(* call of Guacamole is an await, and the tunnels are opened by worker     *)
(* threads that bind them to whatever session is tracked by then.          *)
(*                                                                         *)
(* Time is abstracted: a session may become idle when nothing touches it,  *)
(* and a delayed close remembers only whether activity followed it.  Which *)
(* of a session's tunnels is preferred is left open.  The router refuses a *)
(* request without a signed-in user, so every session made here has an     *)
(* owner.  Guacamole, an external service, is the variables upstream and   *)
(* link: it may refuse any call, and gives each connect a new tunnel.      *)
(***************************************************************************)
EXTENDS FiniteSets

CONSTANTS
    Token,    \* Guacamole auth tokens
    Tunnel,   \* Guacamole HTTP tunnels
    Socket,   \* browser websockets of the websocket tunnel
    Owner,    \* signed-in users
    Agent,
    Request,  \* calls of create_client_session
    Close,    \* delayed closes (tasks made by schedule_session_close)
    None

ASSUME NoneAssumption ==
    None \notin Token \cup Tunnel \cup Owner \cup Agent \cup Request \cup Close

VARIABLES
    \* Guacamole: the state of each token and the agent it was made for.
    upstream,
    \* _sessions_by_token: None, or the session's agent, owner and whether its
    \* last activity is older than the idle timeout.
    sess,
    agentTokens,   \* _agent_tokens
    tunnels,       \* tunnel_uuids of the session tracked for each token
    tunnelToken,   \* _token_by_tunnel_uuid
    httpToken,     \* the tunnels in _http_tunnel_tokens
    \* Each tunnel: the token it was opened with, the request that opens it
    \* (None: the browser), and what the opening thread is about to do.
    link,
    sockets,       \* _websockets_by_auth_token, as the token of each socket
    req,           \* create_client_session of each request: the await it is at
    close,         \* the delayed closes
    pending,       \* _pending_close_tasks
    orphan,        \* tokens whose delayed close was cancelled while a thread revokes
    sweep,         \* expire_idle_sessions: tokens left, and the one being revoked
    admin          \* revoke, kick or kill-all: tokens left, and the one being revoked

registry == <<sess, agentTokens, tunnels, tunnelToken>>
vars == <<upstream, registry, httpToken, link, sockets, req, close, pending,
          orphan, sweep, admin>>

Session == [agent : Agent \cup {None}, owner : Owner \cup {None}, idle : BOOLEAN]

ASSUME NoSessionAssumption == None \notin Session

RequestPoint == {"none", "refresh", "create", "open", "answer", "over"}

ClosePoint == {"none", "made", "sleep", "revoke", "cancelled", "over"}

Closing == [left : SUBSET Token, at : Token \cup {None}]

TypeOK ==
    /\ upstream \in [Token -> [state : {"unissued", "live", "revoked"},
                               agent : Agent \cup {None}]]
    /\ sess \in [Token -> Session \cup {None}]
    /\ agentTokens \in [Agent -> SUBSET Token]
    /\ tunnels \in [Token -> SUBSET Tunnel]
    /\ tunnelToken \in [Tunnel -> Token \cup {None}]
    /\ httpToken \in SUBSET Tunnel
    /\ link \in [Tunnel -> [token : Token \cup {None}, by : Request \cup {None},
                            at : {"none", "connect", "bind", "stale", "up", "gone"}]]
    /\ sockets \in [Socket -> Token \cup {None}]
    /\ req \in [Request -> [at : RequestPoint, owner : Owner \cup {None},
                            agent : Agent \cup {None}, token : Token \cup {None},
                            tunnel : Tunnel \cup {None}, again : BOOLEAN]]
    /\ close \in [Close -> [at : ClosePoint, token : Token \cup {None},
                            quiet : BOOLEAN]]
    /\ pending \in [Token -> Close \cup {None}]
    /\ orphan \in SUBSET Token
    /\ sweep \in Closing
    /\ admin \in [left : SUBSET Token, at : Token \cup {None}, revoke : BOOLEAN]

Idle(at) == [at |-> at, owner |-> None, agent |-> None, token |-> None,
             tunnel |-> None, again |-> FALSE]

Init ==
    /\ upstream = [t \in Token |-> [state |-> "unissued", agent |-> None]]
    /\ sess = [t \in Token |-> None]
    /\ agentTokens = [a \in Agent |-> {}]
    /\ tunnels = [t \in Token |-> {}]
    /\ tunnelToken = [u \in Tunnel |-> None]
    /\ httpToken = {}
    /\ link = [u \in Tunnel |-> [token |-> None, by |-> None, at |-> "none"]]
    /\ sockets = [w \in Socket |-> None]
    /\ req = [r \in Request |-> Idle("none")]
    /\ close = [c \in Close |-> [at |-> "none", token |-> None, quiet |-> FALSE]]
    /\ pending = [t \in Token |-> None]
    /\ orphan = {}
    /\ sweep = [left |-> {}, at |-> None]
    /\ admin = [left |-> {}, at |-> None, revoke |-> FALSE]

-----------------------------------------------------------------------------
(* Operators on the tracked state.                                         *)

\* Which name a new request, token, tunnel or task gets does not matter.
New(S) == IF S = {} THEN {} ELSE {CHOOSE x \in S : TRUE}

Tracked == {t \in Token : sess[t] # None}

\* touch_auth_token, and the last_activity_at of register_session and
\* bind_tunnel: of a tracked session only.
TouchedSession(t) == IF t \in Tracked THEN [sess EXCEPT ![t].idle = FALSE] ELSE sess

Disturbed(t) ==
    [c \in Close |-> [close[c] EXCEPT !.quiet = @ /\ close[c].token # t]]

Touch(t) ==
    /\ sess' = TouchedSession(t)
    /\ close' = IF t \in Tracked THEN Disturbed(t) ELSE close

\* A cancelled task runs its finally clause later; one that never started ends
\* at once.  The thread of a revocation it waits for goes on.
Ended == [at |-> "over", token |-> None, quiet |-> FALSE]

Cancelled(c, f) ==
    IF c = None THEN f
    ELSE [f EXCEPT ![c] = IF @.at = "made" THEN Ended ELSE [@ EXCEPT !.at = "cancelled"]]

Orphaned(t) ==
    IF pending[t] # None /\ close[pending[t]].at = "revoke" THEN orphan \cup {t} ELSE orphan

CancelScheduled(t) ==
    /\ close' = Cancelled(pending[t], close)
    /\ orphan' = Orphaned(t)
    /\ pending' = [pending EXCEPT ![t] = None]

\* _mark_session_activity: the scheduled close is cancelled, the session touched.
MarkActivity(t) ==
    /\ sess' = TouchedSession(t)
    /\ close' = Cancelled(pending[t], IF t \in Tracked THEN Disturbed(t) ELSE close)
    /\ orphan' = Orphaned(t)
    /\ pending' = [pending EXCEPT ![t] = None]

\* remove_session.  A thread that has looked the session up keeps it.
RemoveSession(t) ==
    /\ sess' = [sess EXCEPT ![t] = None]
    /\ tunnels' = [tunnels EXCEPT ![t] = {}]
    /\ tunnelToken' =
          [u \in Tunnel |-> IF u \in tunnels[t] /\ tunnelToken[u] = t
                            THEN None ELSE tunnelToken[u]]
    /\ link' = [u \in Tunnel |-> IF link[u].at = "bind" /\ link[u].token = t
                                 THEN [link[u] EXCEPT !.at = "stale"] ELSE link[u]]

\* _websockets_by_auth_token without the token's sockets
SocketsClosed(t) == [w \in Socket |-> IF sockets[w] = t THEN None ELSE sockets[w]]

\* Faulty: the agent's index keeps the token.
ForgetKeepingIndex(t) ==
    RemoveSession(t) /\ sockets' = SocketsClosed(t) /\ UNCHANGED agentTokens

\* _forget_session.  The tunnels' tokens stay: remove_session has emptied
\* tunnel_uuids before the loop that would drop them.
Forget(t) ==
    /\ RemoveSession(t)
    /\ agentTokens' = [a \in Agent |-> agentTokens[a] \ {t}]
    /\ sockets' = SocketsClosed(t)

\* register_session of a token that is not tracked
Registered(t, a, o) == [sess EXCEPT ![t] = [agent |-> a, owner |-> o, idle |-> FALSE]]

\* release_tunnel, for each tunnel of U
Released(U) == [u \in Tunnel |-> IF u \in U THEN None ELSE tunnelToken[u]]

\* invalidate_guacamole_token: done, or refused.
Revoke(t, ok) ==
    upstream' = IF ok THEN [upstream EXCEPT ![t].state = "revoked"] ELSE upstream

-----------------------------------------------------------------------------
(* create_client_session.                                                  *)

\* Faulty: the lock is not held while a session is being created.
LockedUnlessCreating(o) ==
    \E r \in Request : req[r].owner = o /\ req[r].at \in {"refresh", "open", "answer"}

\* The lock under _build_session_lock_key is held.
Locked(o) ==
    \E r \in Request : req[r].owner = o /\ req[r].at \in {"refresh", "create", "open", "answer"}

OwnSessions(o) == {t \in Tracked : sess[t].owner = o}

\* Faulty: the agent of the session found is not compared.
MustRefreshIfAsked(t, a, fresh) == fresh

\* The session found is for another agent, or the request asks for a fresh, a
\* recorded or another connection.
MustRefresh(t, a, fresh) == fresh \/ sess[t].agent # a

\* _get_reusable_http_tunnel_uuid
Reusable(t) == {u \in tunnels[t] : u \in httpToken}

Asked(r, at, o, a, t, again) ==
    req' = [req EXCEPT ![r] = [at |-> at, owner |-> o, agent |-> a, token |-> t,
                               tunnel |-> None, again |-> again]]

\* The user has no session yet: one is made in a thread.
AskNew(r, o, a) ==
    /\ r \in New({x \in Request : req[x].at = "none"}) /\ ~Locked(o) /\ OwnSessions(o) = {}
    /\ Asked(r, "create", o, a, None, FALSE)
    /\ UNCHANGED <<upstream, registry, httpToken, link, sockets, close, pending,
                    orphan, sweep, admin>>

\* The old session goes first.
AskFresh(r, o, a, t, fresh) ==
    /\ r \in New({x \in Request : req[x].at = "none"}) /\ ~Locked(o) /\ t \in OwnSessions(o)
    /\ MustRefresh(t, a, fresh)
    /\ CancelScheduled(t)
    /\ Asked(r, "refresh", o, a, t, FALSE)
    /\ UNCHANGED <<upstream, registry, httpToken, link, sockets, sweep, admin>>

Refreshed(r, ok) ==
    /\ req[r].at = "refresh"
    /\ Revoke(req[r].token, ok)
    /\ Forget(req[r].token)
    /\ Asked(r, "create", req[r].owner, req[r].agent, None, FALSE)
    /\ UNCHANGED <<httpToken, close, pending, orphan, sweep, admin>>

\* The user's session is reclaimed: its scheduled close is cancelled, and a
\* tunnel it has is handed out unless there is none or a new one was asked for.
AskReuse(r, o, a, t, refresh) ==
    /\ r \in New({x \in Request : req[x].at = "none"}) /\ ~Locked(o) /\ t \in OwnSessions(o)
    /\ ~MustRefresh(t, a, FALSE)
    /\ MarkActivity(t)
    /\ \/ /\ refresh
          /\ tunnels' = [tunnels EXCEPT ![t] = {}]
          /\ tunnelToken' = Released(tunnels[t])
          /\ httpToken' = httpToken \ tunnels[t]
          /\ Asked(r, "open", o, a, t, TRUE)
       \/ /\ ~refresh /\ Reusable(t) = {}
          /\ Asked(r, "open", o, a, t, FALSE)
          /\ UNCHANGED <<tunnels, tunnelToken, httpToken>>
       \/ /\ ~refresh
          /\ \E u \in Reusable(t) :
                req' = [req EXCEPT ![r] = [at |-> "answer", owner |-> o, agent |-> a,
                                           token |-> t, tunnel |-> u, again |-> FALSE]]
          /\ UNCHANGED <<tunnels, tunnelToken, httpToken>>
    /\ UNCHANGED <<upstream, agentTokens, link, sockets, sweep, admin>>

Created(r, t) ==
    /\ req[r].at = "create" /\ t \in New({x \in Token : upstream[x].state = "unissued"})
    /\ upstream' = [upstream EXCEPT ![t] = [state |-> "live", agent |-> req[r].agent]]
    /\ agentTokens' = [agentTokens EXCEPT ![req[r].agent] = @ \cup {t}]
    /\ sess' = Registered(t, req[r].agent, req[r].owner)
    /\ req' = [req EXCEPT ![r].at = "open", ![r].token = t]
    /\ UNCHANGED <<tunnels, tunnelToken, httpToken, link, sockets, close, pending,
                    orphan, sweep, admin>>

\* Guacamole gives no usable token, or the thread raises: the lock is released.
CreateFails(r) ==
    /\ req[r].at = "create"
    /\ req' = [req EXCEPT ![r] = Idle("over")]
    /\ UNCHANGED <<upstream, registry, httpToken, link, sockets, close, pending,
                    orphan, sweep, admin>>

\* The response leaves, and the lock is released.
Answered(r) ==
    /\ req[r].at = "answer"
    /\ req' = [req EXCEPT ![r] = Idle("over")]
    /\ UNCHANGED <<upstream, registry, httpToken, link, sockets, close, pending,
                    orphan, sweep, admin>>

-----------------------------------------------------------------------------
(* Threads that open tunnels: _open_http_tunnel for a request, and the     *)
(* browser's own connect through proxy_tunnel_request.                     *)

\* bind_tunnel, first half: the session is looked up, and made, with neither
\* agent nor owner, if it has been forgotten in the meantime.
LookUp(u, t, r) ==
    /\ upstream[t].state = "live"
    /\ httpToken' = httpToken \cup {u}
    /\ link' = [link EXCEPT ![u] = [token |-> t, by |-> r, at |-> "bind"]]
    /\ sess' = IF t \in Tracked THEN sess
               ELSE Registered(t, None, None)
    /\ close' = IF t \in Tracked THEN close ELSE Disturbed(t)
    /\ UNCHANGED <<upstream, agentTokens, tunnels, tunnelToken, sockets, req, pending,
                    orphan, sweep, admin>>

Opened(r, u) ==
    /\ req[r].at = "open" /\ u \in New({x \in Tunnel : link[x].at = "none"})
    /\ \A v \in Tunnel : link[v].by = r => link[v].at \notin {"bind", "stale"}
    /\ LookUp(u, req[r].token, r)

\* A request whose first attempt was for a new tunnel falls back to one the
\* session has by now, or tries once more.
OpenFails(r) ==
    /\ req[r].at = "open"
    /\ \A v \in Tunnel : link[v].by = r => link[v].at \notin {"bind", "stale"}
    /\ IF ~req[r].again THEN req' = [req EXCEPT ![r].at = "answer"]
       ELSE IF Reusable(req[r].token) = {} THEN req' = [req EXCEPT ![r].again = FALSE]
       ELSE \E u \in Reusable(req[r].token) :
               req' = [req EXCEPT ![r].at = "answer", ![r].tunnel = u, ![r].again = FALSE]
    /\ UNCHANGED <<upstream, registry, httpToken, link, sockets, close, pending,
                    orphan, sweep, admin>>

BrowserConnects(u, t) ==
    /\ u \in New({x \in Tunnel : link[x].at = "none"}) /\ upstream[t].state # "unissued"
    /\ link' = [link EXCEPT ![u] = [token |-> t, by |-> None, at |-> "connect"]]
    /\ MarkActivity(t)
    /\ UNCHANGED <<upstream, agentTokens, tunnels, tunnelToken, httpToken, sockets, req,
                    sweep, admin>>

BrowserConnected(u) ==
    /\ link[u].at = "connect"
    /\ LookUp(u, link[u].token, None)

BrowserRefused(u) ==
    /\ link[u].at = "connect"
    /\ link' = [link EXCEPT ![u] = [token |-> None, by |-> None, at |-> "none"]]
    /\ UNCHANGED <<upstream, registry, httpToken, sockets, req, close, pending, orphan,
                    sweep, admin>>

\* bind_tunnel, second half: the thread writes to the session it looked up, even
\* if that has been forgotten since (at = "stale").
Bound(u) ==
    LET t == link[u].token
        r == link[u].by
    IN  /\ link[u].at \in {"bind", "stale"}
        /\ link' = [link EXCEPT ![u].at = "up"]
        /\ tunnelToken' = [tunnelToken EXCEPT ![u] = t]
        /\ IF link[u].at = "bind"
           THEN tunnels' = [tunnels EXCEPT ![t] = @ \cup {u}] /\ Touch(t)
           ELSE UNCHANGED <<tunnels, sess, close>>
        /\ req' = IF r = None THEN req
                  ELSE [req EXCEPT ![r].at = "answer", ![r].tunnel = u, ![r].again = FALSE]
        /\ UNCHANGED <<upstream, agentTokens, httpToken, sockets, pending, orphan, sweep,
                        admin>>

\* A read or write request, and each chunk read, touches the tunnel's session.
TunnelTraffic(u) ==
    /\ link[u].at = "up" /\ tunnelToken[u] # None
    /\ Touch(tunnelToken[u])
    /\ UNCHANGED <<upstream, agentTokens, tunnels, tunnelToken, httpToken, link, sockets,
                    req, pending, orphan, sweep, admin>>

\* Guacamole answers 404, 410 or an error status: release_tunnel.
TunnelGone(u) ==
    /\ link[u].at = "up"
    /\ link' = [link EXCEPT ![u].at = "gone"]
    /\ httpToken' = httpToken \ {u}
    /\ tunnelToken' = Released({u})
    /\ tunnels' = IF tunnelToken[u] = None THEN tunnels
                  ELSE [tunnels EXCEPT ![tunnelToken[u]] = @ \ {u}]
    /\ UNCHANGED <<upstream, sess, agentTokens, sockets, req, close, pending, orphan,
                    sweep, admin>>

-----------------------------------------------------------------------------
(* The websocket tunnel (server.py): its handler marks activity when it    *)
(* accepts the socket and with each message, and unregisters it at the end. *)

RegisterWebsocket(w, t) ==
    /\ sockets[w] = None /\ upstream[t].state # "unissued"
    /\ sockets' = [sockets EXCEPT ![w] = t]
    /\ MarkActivity(t)
    /\ UNCHANGED <<upstream, agentTokens, tunnels, tunnelToken, httpToken, link, req,
                    sweep, admin>>

TouchWebsocket(w) ==
    /\ sockets[w] # None
    /\ MarkActivity(sockets[w])
    /\ UNCHANGED <<upstream, agentTokens, tunnels, tunnelToken, httpToken, link, sockets,
                    req, sweep, admin>>

UnregisterWebsocket(w) ==
    /\ sockets[w] # None
    /\ sockets' = [sockets EXCEPT ![w] = None]
    /\ UNCHANGED <<upstream, registry, httpToken, link, req, close, pending, orphan,
                    sweep, admin>>

-----------------------------------------------------------------------------
(* schedule_session_close and its task close_later.                        *)

\* A browser tab announces that it is being closed.
ScheduleClose(c, t) ==
    /\ c \in New({x \in Close : close[x].at = "none"}) /\ upstream[t].state # "unissued"
    /\ close' = [Cancelled(pending[t], close) EXCEPT
                   ![c] = [at |-> "made", token |-> t, quiet |-> TRUE]]
    /\ orphan' = Orphaned(t)
    /\ pending' = [pending EXCEPT ![t] = c]
    /\ UNCHANGED <<upstream, registry, httpToken, link, sockets, req, sweep, admin>>

CloseStarts(c) ==
    /\ close[c].at = "made"
    /\ close' = [close EXCEPT ![c].at = "sleep"]
    /\ UNCHANGED <<upstream, registry, httpToken, link, sockets, req, pending, orphan,
                    sweep, admin>>

\* Faulty: the finally clause is missing.
CloseEndsSilently(c) == close' = [close EXCEPT ![c] = Ended] /\ UNCHANGED pending

\* The finally clause removes whatever close is registered for the token.
CloseEnds(c) ==
    /\ close' = [close EXCEPT ![c] = Ended]
    /\ pending' = [pending EXCEPT ![close[c].token] = None]

MayClose(c) ==
    LET t == close[c].token
    IN  t \in Tracked /\ close[c].quiet /\ \A w \in Socket : sockets[w] # t

CloseSkips(c) ==
    /\ close[c].at = "sleep" /\ ~MayClose(c)
    /\ CloseEnds(c)
    /\ UNCHANGED <<upstream, registry, httpToken, link, sockets, req, orphan, sweep, admin>>

CloseGoesOn(c) ==
    /\ close[c].at = "sleep" /\ MayClose(c)
    /\ close' = [close EXCEPT ![c].at = "revoke"]
    /\ UNCHANGED <<upstream, registry, httpToken, link, sockets, req, pending, orphan,
                    sweep, admin>>

CloseRevoked(c, ok) ==
    /\ close[c].at = "revoke"
    /\ Revoke(close[c].token, ok)
    /\ Forget(close[c].token)
    /\ CloseEnds(c)
    /\ UNCHANGED <<httpToken, req, orphan, sweep, admin>>

CloseCancelled(c) ==
    /\ close[c].at = "cancelled"
    /\ CloseEnds(c)
    /\ UNCHANGED <<upstream, registry, httpToken, link, sockets, req, orphan, sweep, admin>>

OrphanRevokes(t, ok) ==
    /\ t \in orphan
    /\ Revoke(t, ok)
    /\ orphan' = orphan \ {t}
    /\ UNCHANGED <<registry, httpToken, link, sockets, req, close, pending, sweep, admin>>

-----------------------------------------------------------------------------
(* expire_idle_sessions, run by _rdp_session_watchdog.                     *)

\* Nothing touched the session for the idle timeout.
GoIdle(t) ==
    /\ t \in Tracked /\ ~sess[t].idle
    /\ sess' = [sess EXCEPT ![t].idle = TRUE]
    /\ UNCHANGED <<upstream, agentTokens, tunnels, tunnelToken, httpToken, link, sockets,
                    req, close, pending, orphan, sweep, admin>>

IdleTokens == {t \in Tracked : sess[t].idle}

\* The loop over the idle tokens takes the first, or the next one.
Taken(S) ==
    IF S = {} THEN {[left |-> {}, at |-> None]}
    ELSE {[left |-> S \ {t}, at |-> t] : t \in S}

SweepStarts ==
    /\ sweep.at = None /\ IdleTokens # {}
    /\ sweep' \in Taken(IdleTokens)
    /\ UNCHANGED <<upstream, registry, httpToken, link, sockets, req, close, pending,
                    orphan, admin>>

\* The session is forgotten, whether it has been used meanwhile or not.
SweepRevoked(ok) ==
    /\ sweep.at # None
    /\ Revoke(sweep.at, ok)
    /\ Forget(sweep.at)
    /\ sweep' \in Taken(sweep.left)
    /\ UNCHANGED <<httpToken, req, close, pending, orphan, admin>>

-----------------------------------------------------------------------------
(* The router's kill-all, kick and delete.  One token after the other has  *)
(* its scheduled close cancelled and is revoked and forgotten.             *)

AdminTakes(S, isRevoke) ==
    \E todo \in Taken(S) :
        /\ admin' = [left |-> todo.left, at |-> todo.at, revoke |-> isRevoke]
        /\ IF todo.at = None THEN UNCHANGED <<close, pending, orphan>>
           ELSE CancelScheduled(todo.at)

AdminStarts(S, isRevoke) ==
    /\ admin.at = None /\ S # {}
    /\ AdminTakes(S, isRevoke)
    /\ UNCHANGED <<upstream, registry, httpToken, link, sockets, req, sweep>>

KillAll == AdminStarts(Tracked, FALSE)

\* close_agent_owner_session: one of the owner's sessions on the agent.
Kick(a, o) ==
    \E t \in OwnSessions(o) : sess[t].agent = a /\ AdminStarts({t}, FALSE)

\* revoke_client_session
RevokeSession(t) == upstream[t].state # "unissued" /\ AdminStarts({t}, TRUE)

\* A revocation that Guacamole refuses raises, and the session stays tracked; the
\* other two close it all the same.
AdminRevoked(ok) ==
    /\ admin.at # None
    /\ Revoke(admin.at, ok)
    /\ IF admin.revoke /\ ~ok THEN UNCHANGED <<registry, sockets, link>>
       ELSE Forget(admin.at)
    /\ AdminTakes(admin.left, FALSE)
    /\ UNCHANGED <<httpToken, req, sweep>>

-----------------------------------------------------------------------------
RequestStep(r) ==
    \/ \E ok \in BOOLEAN : Refreshed(r, ok)
    \/ \E t \in Token : Created(r, t)
    \/ CreateFails(r)
    \/ \E u \in Tunnel : Opened(r, u)
    \/ OpenFails(r)
    \/ Answered(r)

ThreadStep(u) == BrowserConnected(u) \/ BrowserRefused(u) \/ Bound(u)

CloseStep(c) ==
    \/ CloseStarts(c) \/ CloseSkips(c) \/ CloseGoesOn(c) \/ CloseCancelled(c)
    \/ \E ok \in BOOLEAN : CloseRevoked(c, ok)

SweepStep == SweepStarts \/ \E ok \in BOOLEAN : SweepRevoked(ok)

AdminStep == \E ok \in BOOLEAN : AdminRevoked(ok)

Next ==
    \/ \E r \in Request, o \in Owner, a \in Agent :
          \/ AskNew(r, o, a)
          \/ \E t \in Token, flag \in BOOLEAN :
                AskFresh(r, o, a, t, flag) \/ AskReuse(r, o, a, t, flag)
    \/ \E r \in Request : RequestStep(r)
    \/ \E u \in Tunnel :
          ThreadStep(u) \/ TunnelTraffic(u) \/ TunnelGone(u)
          \/ \E t \in Token : BrowserConnects(u, t)
    \/ \E w \in Socket :
          TouchWebsocket(w) \/ UnregisterWebsocket(w)
          \/ \E t \in Token : RegisterWebsocket(w, t)
    \/ \E c \in Close : CloseStep(c) \/ \E t \in Token : ScheduleClose(c, t)
    \/ \E t \in Token :
          GoIdle(t) \/ RevokeSession(t) \/ \E ok \in BOOLEAN : OrphanRevokes(t, ok)
    \/ SweepStep
    \/ KillAll
    \/ \E a \in Agent, o \in Owner : Kick(a, o)
    \/ AdminStep

Spec == Init /\ [][Next]_vars

-----------------------------------------------------------------------------
(* Properties.                                                             *)

\* A user has at most one tracked session, although a request that finds none
\* waits for Guacamole before it registers the new one, and one that finds a
\* session for another agent forgets it and waits again (create_client_session
\* under the owner's lock).
OwnerHasOneSession ==
    \A s, t \in Tracked : sess[s].owner = sess[t].owner /\ sess[s].owner # None => s = t

\* The two indexes agree, whatever order requests, sweeps, kicks and late threads
\* run in: _agent_tokens lists exactly the tracked sessions of each agent, of
\* which a session revived by a late bind_tunnel is none.
AgentTokensMatch ==
    \A a \in Agent : agentTokens[a] = {t \in Tracked : sess[t].agent = a}

\* A tunnel a session lists is indexed under that session, and no other, even if
\* the thread that binds it races with _forget_session.
SessionTunnelsIndexed ==
    \A t \in Token : \A u \in tunnels[t] : t \in Tracked /\ tunnelToken[u] = t

\* The registry of sessions is well formed: its tables have their types and agree
\* with each other (_forget_session, _register_session, bind_tunnel).
RegistryOK == TypeOK /\ AgentTokensMatch /\ SessionTunnelsIndexed

\* A request is answered with a token Guacamole made for the requested agent and a
\* tunnel opened with that token.
AnswerFitsRequest ==
    \A r \in Request : req[r].at = "answer" =>
        /\ upstream[req[r].token].agent = req[r].agent
        /\ req[r].tunnel # None => link[req[r].tunnel].token = req[r].token

\* A close that is registered for a token can still be cancelled: no entry of
\* _pending_close_tasks outlives its task.
PendingCanBeCancelled ==
    \A t \in Token : pending[t] # None =>
        close[pending[t]].token = t /\ close[pending[t]].at \in {"made", "sleep", "revoke"}
=============================================================================
