----------------------------- MODULE AgentLink -----------------------------
(***************************************************************************)
(* How one agent gets and keeps its credentials: the credentials row of    *)
(* the registry (persistence/agent_registry_db.py), the handshake handler  *)
(* of the server (agents/lifecycle_handler.py), and on the machine the     *)
(* agent's connection loop and its file agent.bootstrap.json.              *)
(*                                                                         *)
(* A deployment stores a bootstrap token and ships it in a package.  The   *)
(* agent's first handshake presents it and is given an access token (a     *)
(* JWT), bound to the row's token_version; the agent writes it to its file *)
(* and presents it from then on.  The bootstrap token is closed by the     *)
(* first handshake that presents the access token, not by the one that     *)
(* issues it.  Handlers of several connections of the agent interleave:    *)
(* reading the row and writing it are different awaits.                    *)
(*                                                                         *)
(* A bootstrap token is the number of its deployment, an access token is   *)
(* its version, 0 is none.  Time is two facts: the bootstrap token has     *)
(* expired; the last token was issued within the recovery window.  Access  *)
(* tokens do not expire (VM_AGENT_JWT_TTL_SECONDS unset), and no row has   *)
(* a secret of the scheme before access tokens.  The machine's host name   *)
(* fits the one the registry expects unless an administrator edits that.   *)
(***************************************************************************)
EXTENDS Naturals

CONSTANTS
    Conn,          \* connections of the agent that exist at once
    MaxDeploy,     \* bound: deployments prepared for the agent
    MaxVersion,    \* bound: token versions
    MaxDrops,      \* bound: broken connections and crashes of the agent
    None

Deployment == 1..MaxDeploy

Version == 0..MaxVersion

Config == [boot : 0..MaxDeploy, jwt : Version]

Row == [boot : 0..MaxDeploy, expired : BOOLEAN, used : BOOLEAN, ver : Version,
        recent : BOOLEAN]

ASSUME LinkAssumption ==
    /\ MaxDeploy \in Nat /\ MaxDrops \in Nat
    /\ MaxVersion \in Nat \ {0}
    /\ None \notin Conn \cup Row \cup Version

VARIABLES
    cred,      \* the agent's row of agent_credentials, or None
    latest,    \* its newest row of agent_deployments
    marked,    \* deployments marked expired_bootstrap
    prep,      \* prepare_deployment: stored the token of this deployment, not its row
    rotation,  \* rotate_agent_token_version: the version it is to write, or None
    hostFits,  \* the registry expects the host the agent runs on
    conn,      \* each connection: the token it brought and where its handler is
    agent,     \* the agent process: off, running, or stopped by an error
    mem,       \* the credentials of its connection
    disk,      \* agent.bootstrap.json
    link,      \* the connection it has open
    installed, \* the deployments whose package was installed
    drops

server == <<cred, latest, marked, prep, rotation, hostFits>>
machine == <<agent, mem, disk, link, installed, drops>>
vars == <<server, conn, machine>>

\* The points of a handler: the handshake came; the row was read; it is to be
\* refused; accepted, the host name is looked up; the answer goes out; it was
\* answered; it is over.  news is the answer on its way to the agent.
Handler == [at : {"none", "asked", "read", "refuse", "host", "answer", "online", "over"},
            token : Config, row : Row \cup {None}, expired : BOOLEAN,
            issued : Version, news : {"none", "ok", "error"}]

NoHandler == [at |-> "none", token |-> [boot |-> 0, jwt |-> 0], row |-> None,
              expired |-> FALSE, issued |-> 0, news |-> "none"]

TypeOK ==
    /\ cred \in Row \cup {None}
    /\ latest \in 0..MaxDeploy
    /\ marked \subseteq Deployment
    /\ prep \in 0..MaxDeploy
    /\ rotation \in Version \cup {None}
    /\ hostFits \in BOOLEAN
    /\ conn \in [Conn -> Handler]
    /\ agent \in {"off", "running", "error"}
    /\ mem \in Config
    /\ disk \in Config
    /\ link \in Conn \cup {None}
    /\ installed \subseteq Deployment
    /\ drops \in 0..MaxDrops

Init ==
    /\ cred = None
    /\ latest = 0
    /\ marked = {}
    /\ prep = 0
    /\ rotation = None
    /\ hostFits = TRUE
    /\ conn = [c \in Conn |-> NoHandler]
    /\ agent = "off"
    /\ mem = [boot |-> 0, jwt |-> 0]
    /\ disk = mem
    /\ link = None
    /\ installed = {}
    /\ drops = 0

-----------------------------------------------------------------------------
(* The registry *)

\* issue_agent_access_token and verify_agent_access_token: an access token is
\* bound to the version of the row at its issue.
IssueToken(row) == row.ver + 1

VerifyToken(row, jwt) == row.ver > 0 /\ jwt = row.ver

\* authorize_agent: what the row says of the token (the access token when the
\* agent has one).  Without a row every agent is let in.
Authorize(row, token) ==
    CASE row = None -> "legacy"
      [] row # None /\ token.jwt # 0 ->
           IF VerifyToken(row, token.jwt) THEN "jwt" ELSE "invalid"
      [] row # None /\ token.jwt = 0 /\ token.boot = 0 ->
           IF row.boot # 0 \/ row.ver > 0 THEN "missing" ELSE "legacy"
      [] OTHER ->
           LET same == token.boot = row.boot
           IN CASE same /\ ~row.used /\ ~row.expired -> "bootstrap"
                [] same /\ row.used /\ row.ver > 0 /\ row.recent -> "recovery"
                [] row.boot # 0 /\ row.expired /\ ~row.used -> "expired"
                [] same /\ row.used /\ ~(row.ver > 0 /\ row.recent) -> "used"
                [] OTHER -> "invalid"

Issues(mode) == mode \in {"bootstrap", "recovery"}

Accepts(mode) == mode \in {"legacy", "jwt", "bootstrap", "recovery"}

NewRow == [boot |-> 0, expired |-> FALSE, used |-> FALSE, ver |-> 0, recent |-> FALSE]

\* INSERT ... ON CONFLICT DO UPDATE: the row the values are put into.
StoredRow == IF cred = None THEN NewRow ELSE cred

\* prepare_deployment: set_bootstrap_token, and in a later step create_deployment.
SetBootstrapToken(d) ==
    /\ prep = 0 /\ d = latest + 1
    /\ prep' = d
    /\ cred' = [StoredRow EXCEPT !.boot = d, !.expired = FALSE, !.used = FALSE]
    /\ UNCHANGED <<latest, marked, rotation, hostFits, conn, machine>>

CreateDeployment ==
    /\ prep # 0
    /\ latest' = prep
    /\ prep' = 0
    /\ UNCHANGED <<cred, marked, rotation, hostFits, conn, machine>>

RotateReads ==
    /\ rotation = None
    /\ cred # None => cred.ver < MaxVersion
    /\ rotation' = IF cred = None THEN 1 ELSE cred.ver + 1
    /\ UNCHANGED <<cred, latest, marked, prep, hostFits, conn, machine>>

RotateWrites ==
    /\ rotation # None
    /\ cred' = [StoredRow EXCEPT !.ver = rotation, !.recent = TRUE]
    /\ rotation' = None
    /\ UNCHANGED <<latest, marked, prep, hostFits, conn, machine>>

\* api_update_agent_registry_item changes the expected host name; the model
\* lets it become wrong once.
PatchHostname ==
    /\ hostFits
    /\ hostFits' = FALSE
    /\ UNCHANGED <<cred, latest, marked, prep, rotation, conn, machine>>

TimePasses ==
    /\ cred # None
    /\ \/ cred.boot # 0 /\ ~cred.expired /\ cred' = [cred EXCEPT !.expired = TRUE]
       \/ cred.recent /\ cred' = [cred EXCEPT !.recent = FALSE]
    /\ UNCHANGED <<latest, marked, prep, rotation, hostFits, conn, machine>>

-----------------------------------------------------------------------------
(* The handshake handler *)

Handles(c, h) == conn' = [conn EXCEPT ![c] = h]

ReadCredentials(c) ==
    /\ conn[c].at = "asked"
    /\ Handles(c, [conn[c] EXCEPT !.at = "read", !.row = cred])
    /\ UNCHANGED <<server, machine>>

\* Faulty: closes the bootstrap token when the access token is issued.
DecideClosing(c) ==
    LET h == conn[c]
        mode == Authorize(h.row, h.token)
    IN /\ h.at = "read"
       /\ Issues(mode) => h.row.ver < MaxVersion
       /\ cred' = IF cred = None THEN None
                  ELSE IF Issues(mode) THEN [cred EXCEPT !.ver = IssueToken(h.row), !.recent = TRUE, !.used = TRUE]
                  ELSE IF mode = "jwt" /\ ~h.row.used THEN [cred EXCEPT !.used = TRUE]
                  ELSE cred
       /\ Handles(c, [NoHandler EXCEPT
                         !.at = IF Accepts(mode) THEN "host" ELSE "refuse",
                         !.expired = mode = "expired",
                         !.issued = IF Issues(mode) THEN IssueToken(h.row) ELSE 0])
       /\ UNCHANGED <<latest, marked, prep, rotation, hostFits, machine>>

\* The rest of authorize_agent: what it writes goes by the row it has read.
Decide(c) ==
    LET h == conn[c]
        mode == Authorize(h.row, h.token)
    IN /\ h.at = "read"
       /\ Issues(mode) => h.row.ver < MaxVersion
       /\ cred' = IF cred = None THEN None
                  ELSE IF Issues(mode) THEN [cred EXCEPT !.ver = IssueToken(h.row), !.recent = TRUE]
                  ELSE IF mode = "jwt" /\ ~h.row.used THEN [cred EXCEPT !.used = TRUE]
                  ELSE cred
       /\ Handles(c, [NoHandler EXCEPT
                         !.at = IF Accepts(mode) THEN "host" ELSE "refuse",
                         !.expired = mode = "expired",
                         !.issued = IF Issues(mode) THEN IssueToken(h.row) ELSE 0])
       /\ UNCHANGED <<latest, marked, prep, rotation, hostFits, machine>>

\* An answer reaches the agent only while the agent has the connection open;
\* otherwise sending raises, and the session is cleaned up.
Answered(c, h, news) ==
    IF link # c THEN [NoHandler EXCEPT !.at = "over"]
    ELSE IF news = "error" THEN [NoHandler EXCEPT !.at = "over", !.news = news]
    ELSE [h EXCEPT !.at = "online", !.news = news]

\* An expired token marks the newest deployment; then the answer and the close.
Refuse(c) ==
    LET h == conn[c]
    IN /\ h.at = "refuse"
       /\ marked' = IF h.expired /\ latest # 0 THEN marked \cup {latest} ELSE marked
       /\ Handles(c, Answered(c, h, "error"))
       /\ UNCHANGED <<cred, latest, prep, rotation, hostFits, machine>>

\* Faulty: a wrong host is refused without an answer.
CheckHostSilently(c) ==
    /\ conn[c].at = "host"
    /\ Handles(c, [conn[c] EXCEPT !.at = IF hostFits THEN "answer" ELSE "over"])
    /\ UNCHANGED <<server, machine>>

\* The expected host name, then the answer with the token, if one was issued.
CheckHost(c) ==
    LET h == conn[c]
    IN /\ h.at = "host"
       /\ Handles(c, IF hostFits THEN [h EXCEPT !.at = "answer"] ELSE Answered(c, h, "error"))
       /\ UNCHANGED <<server, machine>>

AnswerOk(c) ==
    /\ conn[c].at = "answer"
    /\ Handles(c, Answered(c, conn[c], "ok"))
    /\ UNCHANGED <<server, machine>>

\* cleanup_connection, once the socket is seen closed.
CleanUp(c) ==
    /\ link # c
    /\ conn[c].at \in {"online", "over"}
    /\ Handles(c, NoHandler)
    /\ UNCHANGED <<server, machine>>

-----------------------------------------------------------------------------
(* The agent *)

\* AgentConnection.open, the server's greeting and the agent's handshake.
Open(c) ==
    /\ agent = "running" /\ link = None
    /\ conn[c].at = "none"
    /\ link' = c
    /\ Handles(c, [NoHandler EXCEPT !.at = "asked",
                      !.token = IF mem.jwt # 0 THEN [boot |-> 0, jwt |-> mem.jwt] ELSE mem])
    /\ UNCHANGED <<server, agent, mem, disk, installed, drops>>

\* _handle_auth_result for an issued token: it is written to the file, then the
\* connection takes it over; when writing fails, neither happens.
TakeToken(c) ==
    LET h == conn[c]
    IN /\ link = c /\ h.news = "ok"
       /\ \/ /\ h.issued # 0
             /\ disk' = [boot |-> 0, jwt |-> h.issued]
             /\ mem' = disk'
          \/ UNCHANGED <<disk, mem>>
       /\ Handles(c, [NoHandler EXCEPT !.at = "online"])
       /\ UNCHANGED <<server, agent, link, installed, drops>>

\* A refusal, by message or by close code 4401 or 4403, ends the agent.
TakeRefusal(c) ==
    /\ link = c /\ conn[c].news = "error"
    /\ agent' = "error"
    /\ link' = None
    /\ Handles(c, [conn[c] EXCEPT !.news = "none"])
    /\ UNCHANGED <<server, mem, disk, installed, drops>>

\* The open connection is gone, and an answer that is under way with it.
Cut ==
    [c \in Conn |->
        IF c = link /\ conn[c].at = "online" THEN [NoHandler EXCEPT !.at = "over"]
        ELSE IF c = link THEN [conn[c] EXCEPT !.news = "none"]
        ELSE conn[c]]

\* The connection breaks: the agent's loop will open another one.
Drop(c) ==
    /\ link = c
    /\ drops < MaxDrops
    /\ drops' = drops + 1
    /\ link' = None
    /\ conn' = Cut
    /\ UNCHANGED <<server, agent, mem, disk, installed>>

Crash ==
    /\ agent = "running"
    /\ drops < MaxDrops
    /\ drops' = drops + 1
    /\ agent' = "off"
    /\ link' = None
    /\ conn' = Cut
    /\ UNCHANGED <<server, mem, disk, installed>>

\* load_agent_runtime_config.
Restart ==
    /\ agent # "running" /\ installed # {}
    /\ agent' = "running"
    /\ mem' = disk
    /\ UNCHANGED <<server, conn, disk, link, installed, drops>>

\* The package's install script: it replaces the file and restarts the service.
Install(d) ==
    /\ d \in Deployment \ installed
    /\ d = latest
    /\ installed' = installed \cup {d}
    /\ disk' = [boot |-> d, jwt |-> 0]
    /\ mem' = disk'
    /\ agent' = "running"
    /\ link' = None
    /\ conn' = Cut
    /\ UNCHANGED <<server, drops>>

-----------------------------------------------------------------------------

Handle(c) ==
    ReadCredentials(c) \/ Decide(c) \/ Refuse(c) \/ CheckHost(c) \/ AnswerOk(c) \/ CleanUp(c)

Take(c) == TakeToken(c) \/ TakeRefusal(c)

Next ==
    \/ \E d \in Deployment : SetBootstrapToken(d) \/ Install(d)
    \/ CreateDeployment \/ RotateReads \/ RotateWrites \/ PatchHostname \/ TimePasses
    \/ \E c \in Conn : Handle(c) \/ Open(c) \/ Take(c) \/ Drop(c)
    \/ Crash \/ Restart

Spec == Init /\ [][Next]_vars

\* The event loops of the server and of the agent keep running.
FairSpec ==
    Spec /\ \A c \in Conn : WF_vars(Handle(c)) /\ WF_vars(Take(c)) /\ WF_vars(Open(c))

-----------------------------------------------------------------------------
(* Properties *)

\* The token of a first deployment is closed only after the agent has its
\* access token in its file: a crash or a broken connection at any earlier
\* moment leaves the agent a token it can come back with (authorize_agent sets
\* bootstrap_used_at only for a presented access token).
UsedMeansPersisted ==
    [][cred # None /\ cred' # None /\ cred'.boot = 1 /\ ~cred.used /\ cred'.used
          => disk.jwt # 0]_vars

\* A handshake is not left unanswered, whatever the registry's row becomes
\* while it is handled: a running agent gets its session or is told to stop,
\* unless the connection breaks first (or the model is out of versions).
HandshakeAnswered ==
    (link # None /\ conn[link].at = "asked")
        ~> (link = None \/ conn[link].at = "online" \/ agent = "error"
              \/ (conn[link].row # None /\ conn[link].row.ver = MaxVersion))
=============================================================================
