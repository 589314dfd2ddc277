---------------------- MODULE GuacamoleSessionsProofs ----------------------
(***************************************************************************)
(* The invariants of GuacamoleSessions, for any number of users, requests, *)
(* tokens, tunnels and delayed closes.                                     *)
(*                                                                         *)
(* What they rest on: the requests that hold a user's lock are one at most *)
(* (LockExcludes); while one of them waits for a new session the user has  *)
(* none (OwnersFit), and nothing but a request makes a session that has an *)
(* owner; a thread that is about to bind a tunnel has a session to bind it *)
(* to, unless that was forgotten (TunnelsFit).                             *)
(***************************************************************************)
EXTENDS GuacamoleSessions, TLAPS

LinkRecord == [token : Token \cup {None}, by : Request \cup {None},
               at : {"none", "connect", "bind", "stale", "up", "gone"}]

RequestRecord == [at : RequestPoint, owner : Owner \cup {None}, agent : Agent \cup {None},
                  token : Token \cup {None}, tunnel : Tunnel \cup {None}, again : BOOLEAN]

CloseRecord == [at : ClosePoint, token : Token \cup {None}, quiet : BOOLEAN]

\* The request holds the lock of its owner.
Holds(r) == req[r].at \in {"refresh", "create", "open", "answer"}

LockExcludes ==
    \A r, q \in Request : Holds(r) /\ Holds(q) /\ req[r].owner = req[q].owner => r = q

\* A request knows who asks for which agent, and from some point on the token; the
\* token is one of that agent.
RequestsFit ==
    \A r \in Request :
        /\ Holds(r) => req[r].owner \in Owner /\ req[r].agent \in Agent
        /\ req[r].at \in {"refresh", "open", "answer"} => req[r].token \in Token
        /\ req[r].at \in {"open", "answer"} => upstream[req[r].token].agent = req[r].agent

\* The tunnel of an answer has been opened with the token of the answer.
TunnelsAnswered ==
    \A r \in Request : req[r].tunnel # None =>
        /\ req[r].at = "answer"
        /\ link[req[r].tunnel].token = req[r].token
        /\ link[req[r].tunnel].at \in {"up", "gone"}

\* A token that was not given out yet is not tracked, and a session that was made
\* for an agent has a token of that agent.
SessionsFit ==
    \A t \in Token :
        /\ upstream[t].state = "unissued" => sess[t] = None /\ upstream[t].agent = None
        /\ sess[t] # None /\ sess[t].agent # None => upstream[t].agent = sess[t].agent

\* Before a request makes a session its owner has none, or one it is about to end.
OwnersFit ==
    \A r \in Request :
        /\ req[r].at = "create" => OwnSessions(req[r].owner) = {}
        /\ req[r].at = "refresh" => OwnSessions(req[r].owner) \subseteq {req[r].token}

Binding(u) == link[u].at \in {"bind", "stale"}

\* A thread that binds a tunnel has its session and, if it works for a request, is
\* the only one that does; a tunnel that is listed is up.
TunnelsFit ==
    /\ \A u \in Tunnel :
          /\ link[u].at \in {"connect", "bind", "stale"} => link[u].token \in Token
          /\ link[u].at = "bind" => sess[link[u].token] # None
          /\ Binding(u) /\ link[u].by # None =>
                req[link[u].by].at = "open" /\ req[link[u].by].token = link[u].token
    /\ \A u, v \in Tunnel :
          Binding(u) /\ Binding(v) /\ link[u].by # None /\ link[u].by = link[v].by => u = v
    /\ \A t \in Token : \A u \in tunnels[t] : link[u].at = "up" /\ link[u].token = t

\* A close that is at work has a token.
ClosesFit == \A c \in Close : close[c].at \notin {"none", "over"} => close[c].token \in Token

SessionInv ==
    /\ LockExcludes /\ SessionsFit /\ OwnersFit
    /\ OwnerHasOneSession /\ AgentTokensMatch

IInv ==
    /\ TypeOK /\ RequestsFit /\ TunnelsAnswered /\ SessionInv
    /\ TunnelsFit /\ SessionTunnelsIndexed
    /\ ClosesFit /\ PendingCanBeCancelled

-----------------------------------------------------------------------------
(* What the operators do, as far as the invariants ask.                    *)

\* A new name is one of those that are free.
LEMMA NewIsFree == ASSUME NEW S, NEW x \in New(S) PROVE x \in S
  BY DEF New

\* A token Guacamole revokes, or fails to, stays one of its agent.
Revoked ==
    /\ upstream' \in [Token -> [state : {"unissued", "live", "revoked"}, agent : Agent \cup {None}]]
    /\ \A t \in Token :
          /\ upstream'[t].agent = upstream[t].agent
          /\ upstream'[t].state = "unissued" => upstream[t].state = "unissued"

LEMMA RevokeEffect ==
    ASSUME TypeOK, NEW t \in Token, NEW ok \in BOOLEAN, Revoke(t, ok)
    PROVE  Revoked
  BY DEF TypeOK, Revoke, Revoked

\* The sessions stay the same but for the time of their last activity.
SessionsKept ==
    /\ sess' \in [Token -> Session \cup {None}]
    /\ \A t \in Token :
          /\ sess'[t] = None <=> sess[t] = None
          /\ sess[t] # None => sess'[t].agent = sess[t].agent /\ sess'[t].owner = sess[t].owner

LEMMA IdleType ==
    ASSUME NEW x \in Session, NEW b \in BOOLEAN
    PROVE  /\ [x EXCEPT !.idle = b] \in Session
           /\ [x EXCEPT !.idle = b].agent = x.agent
           /\ [x EXCEPT !.idle = b].owner = x.owner
           /\ [x EXCEPT !.idle = b] # None
  BY NoSessionAssumption DEF Session

LEMMA IdleEffect ==
    ASSUME TypeOK, NEW t \in Tracked, NEW b \in BOOLEAN, sess' = [sess EXCEPT ![t].idle = b]
    PROVE  SessionsKept
  <1>1. t \in Token /\ sess[t] \in Session /\ sess[t] # None
    BY DEF TypeOK, Tracked
  <1>2. PICK y : y = [sess[t] EXCEPT !.idle = b]
    OBVIOUS
  <1>3. y \in Session /\ y.agent = sess[t].agent /\ y.owner = sess[t].owner /\ y # None
    BY <1>1, <1>2, IdleType
  <1>4. sess' = [sess EXCEPT ![t] = y]
    BY <1>2
  <1>5. sess \in [Token -> Session \cup {None}]
    BY DEF TypeOK
  <1>6. /\ sess' \in [Token -> Session \cup {None}]
        /\ sess'[t] = y /\ \A x \in Token : x # t => sess'[x] = sess[x]
    BY ONLY <1>1, <1>3, <1>4, <1>5
  <1>7. ASSUME NEW x \in Token
        PROVE  /\ sess'[x] = None <=> sess[x] = None
               /\ sess[x] # None => sess'[x].agent = sess[x].agent /\ sess'[x].owner = sess[x].owner
    <2>1. CASE x = t
      BY ONLY <1>1, <1>3, <1>6, <2>1
    <2>2. CASE x # t
      <3>1. sess'[x] = sess[x]
        BY ONLY <1>6, <1>7, <2>2
      <3> QED
        BY ONLY <3>1
    <2> QED
      BY ONLY <2>1, <2>2
  <1> QED
    BY ONLY <1>6, <1>7 DEF SessionsKept

LEMMA TouchEffect ==
    ASSUME TypeOK, NEW t \in Token, sess' = TouchedSession(t)
    PROVE  SessionsKept
  <1>1. PICK b \in BOOLEAN : b = FALSE
    BY Zenon
  <1>2. CASE t \in Tracked
    <2>1. sess' = [sess EXCEPT ![t].idle = b]
      BY <1>1, <1>2 DEF TouchedSession
    <2> QED
      BY <1>2, <2>1, IdleEffect
  <1>3. CASE t \notin Tracked
    BY <1>3 DEF TouchedSession, TypeOK, SessionsKept
  <1> QED
    BY <1>2, <1>3

LEMMA SameSessions == ASSUME TypeOK, UNCHANGED sess PROVE SessionsKept
  BY DEF TypeOK, SessionsKept

\* A session that is forgotten leaves the tables.
Forgotten(t) ==
    /\ sess' \in [Token -> Session \cup {None}] /\ agentTokens' \in [Agent -> SUBSET Token]
    /\ sess'[t] = None
    /\ \A x \in Token : x # t => sess'[x] = sess[x]
    /\ \A a \in Agent : agentTokens'[a] = agentTokens[a] \ {t}

\* ... and so do its tunnels.
TunnelsForgotten(t) ==
    /\ tunnels' \in [Token -> SUBSET Tunnel] /\ tunnelToken' \in [Tunnel -> Token \cup {None}]
    /\ link' \in [Tunnel -> LinkRecord]
    /\ tunnels'[t] = {}
    /\ \A x \in Token : x # t => tunnels'[x] = tunnels[x]
    /\ \A u \in Tunnel :
          /\ tunnelToken'[u] = tunnelToken[u] \/ tunnelToken[u] = t
          /\ link'[u].token = link[u].token /\ link'[u].by = link[u].by
          /\ link'[u].at = link[u].at \/ (link[u].at = "bind" /\ link'[u].at = "stale")
          /\ link'[u].at = "bind" => link[u].token # t

LEMMA ForgetEffect ==
    ASSUME TypeOK, NEW t \in Token, Forget(t)
    PROVE  /\ Forgotten(t) /\ TunnelsForgotten(t)
           /\ sockets' \in [Socket -> Token \cup {None}]
  <1>1. Forgotten(t)
    BY DEF TypeOK, Forget, RemoveSession, Forgotten
  <1>2. sockets' \in [Socket -> Token \cup {None}]
    BY DEF TypeOK, Forget, SocketsClosed
  <1>3. /\ tunnels' \in [Token -> SUBSET Tunnel] /\ tunnelToken' \in [Tunnel -> Token \cup {None}]
        /\ tunnels'[t] = {}
        /\ \A x \in Token : x # t => tunnels'[x] = tunnels[x]
        /\ \A u \in Tunnel : tunnelToken'[u] = tunnelToken[u] \/ tunnelToken[u] = t
    BY DEF TypeOK, Forget, RemoveSession
  <1>4. ASSUME NEW u \in Tunnel
        PROVE  /\ link'[u] \in LinkRecord
               /\ link'[u].token = link[u].token /\ link'[u].by = link[u].by
               /\ link'[u].at = link[u].at \/ (link[u].at = "bind" /\ link'[u].at = "stale")
               /\ link'[u].at = "bind" => link[u].token # t
    <2>1. link[u] \in LinkRecord
      BY DEF TypeOK, LinkRecord
    <2>2. link'[u] = IF link[u].at = "bind" /\ link[u].token = t
                     THEN [link[u] EXCEPT !.at = "stale"] ELSE link[u]
      BY DEF Forget, RemoveSession
    <2> QED
      BY <2>1, <2>2 DEF LinkRecord
  <1>5. link' \in [Tunnel -> LinkRecord]
    <2>1. link' = [u \in Tunnel |-> link'[u]]
      BY DEF Forget, RemoveSession
    <2> QED
      BY <1>4, <2>1
  <1> QED
    BY <1>1, <1>2, <1>3, <1>4, <1>5 DEF TunnelsForgotten

-----------------------------------------------------------------------------
(* The delayed closes.                                                     *)

ClosesInv ==
    /\ close \in [Close -> CloseRecord] /\ pending \in [Token -> Close \cup {None}]
    /\ orphan \subseteq Token
    /\ ClosesFit /\ PendingCanBeCancelled

\* The closes are where they were, whether they have been disturbed or not.
SamePlaces(f) ==
    /\ f \in [Close -> CloseRecord]
    /\ \A c \in Close : f[c].at = close[c].at /\ f[c].token = close[c].token

LEMMA DisturbedEffect ==
    ASSUME close \in [Close -> CloseRecord], NEW t
    PROVE  SamePlaces(Disturbed(t)) /\ SamePlaces(close)
  <1>1. ASSUME NEW c \in Close
        PROVE  /\ Disturbed(t)[c] \in CloseRecord
               /\ Disturbed(t)[c].at = close[c].at /\ Disturbed(t)[c].token = close[c].token
    <2>1. PICK b \in BOOLEAN : b = (close[c].quiet /\ close[c].token # t)
      BY Zenon
    <2>2. Disturbed(t)[c] = [close[c] EXCEPT !.quiet = b]
      BY <2>1 DEF Disturbed
    <2>3. close[c] \in CloseRecord
      OBVIOUS
    <2> QED
      BY ONLY <2>1, <2>2, <2>3 DEF CloseRecord
  <1>2. Disturbed(t) \in [Close -> CloseRecord]
    <2>1. Disturbed(t) = [c \in Close |-> Disturbed(t)[c]]
      BY DEF Disturbed
    <2> QED
      BY <1>1, <2>1
  <1> QED
    BY <1>1, <1>2 DEF SamePlaces

\* The record of a task that has ended.
LEMMA EndedType == Ended \in CloseRecord /\ Ended.at = "over"
  <1>1. PICK b \in BOOLEAN : b = FALSE
    BY Zenon
  <1>2. Ended = [at |-> "over", token |-> None, quiet |-> b]
    BY <1>1 DEF Ended
  <1> QED
    BY ONLY <1>1, <1>2 DEF CloseRecord, ClosePoint

\* A close that is cancelled goes to its finally clause or is over, and the others
\* stay where they are.
LEMMA CancelledEffect ==
    ASSUME ClosesInv, NEW f, SamePlaces(f), NEW k \in Close \cup {None}
    PROVE  /\ Cancelled(k, f) \in [Close -> CloseRecord]
           /\ \A c \in Close : c # k => Cancelled(k, f)[c] = f[c]
           /\ k # None => /\ Cancelled(k, f)[k].token \in {close[k].token, None}
                          /\ \/ Cancelled(k, f)[k].at = "over"
                             \/ /\ Cancelled(k, f)[k].at = "cancelled"
                                /\ Cancelled(k, f)[k].token = close[k].token
  <1>1. CASE k = None
    BY <1>1 DEF Cancelled, SamePlaces
  <1>2. CASE k # None
    <2>1. PICK y : y = IF f[k].at = "made" THEN Ended ELSE [f[k] EXCEPT !.at = "cancelled"]
      OBVIOUS
    <2>2. Cancelled(k, f) = [f EXCEPT ![k] = y]
      BY <1>2, <2>1 DEF Cancelled
    <2>3. f[k] \in CloseRecord /\ f[k].token = close[k].token
      BY <1>2 DEF SamePlaces
    <2>4. /\ y \in CloseRecord /\ y.token \in {close[k].token, None}
          /\ y.at = "over" \/ (y.at = "cancelled" /\ y.token = close[k].token)
      BY <2>1, <2>3, EndedType DEF CloseRecord, ClosePoint, Ended
    <2> QED
      BY <1>2, <2>2, <2>4 DEF SamePlaces
  <1> QED
    BY <1>1, <1>2

\* Cancelling what is scheduled for a token.
LEMMA CancelKeeps ==
    ASSUME ClosesInv, NEW f, SamePlaces(f), NEW t \in Token,
           close' = Cancelled(pending[t], f), orphan' = Orphaned(t),
           pending' = [pending EXCEPT ![t] = None]
    PROVE  ClosesInv'
  <1>1. pending[t] \in Close \cup {None}
    BY DEF ClosesInv
  <1>2. /\ close' \in [Close -> CloseRecord]
        /\ \A c \in Close : c # pending[t] => close'[c] = f[c]
        /\ pending[t] # None => \/ close'[pending[t]].at = "over"
                                \/ /\ close'[pending[t]].at = "cancelled"
                                   /\ close'[pending[t]].token = close[pending[t]].token
    BY <1>1, CancelledEffect
  <1>3. ClosesFit'
    <2> SUFFICES ASSUME NEW c \in Close, close'[c].at \notin {"none", "over"}
                 PROVE  close'[c].token \in Token
      BY DEF ClosesFit
    <2>1. CASE c = pending[t]
      <3>1. c # None
        BY NoneAssumption
      <3>2. close'[c].token = close[c].token /\ close[c].token = t
        BY <1>2, <2>1, <3>1 DEF ClosesInv, PendingCanBeCancelled
      <3> QED
        BY <3>2
    <2>2. CASE c # pending[t]
      BY <1>2, <2>2 DEF ClosesInv, ClosesFit, SamePlaces
    <2> QED
      BY <2>1, <2>2
  <1>4. PendingCanBeCancelled'
    <2> SUFFICES ASSUME NEW x \in Token, pending'[x] # None
                 PROVE  /\ close'[pending'[x]].token = x
                        /\ close'[pending'[x]].at \in {"made", "sleep", "revoke"}
      BY DEF PendingCanBeCancelled
    <2>1. x # t /\ pending'[x] = pending[x] /\ pending[x] \in Close
      BY DEF ClosesInv
    <2>2. close[pending[x]].token = x /\ close[pending[x]].at \in {"made", "sleep", "revoke"}
      BY <2>1 DEF ClosesInv, PendingCanBeCancelled
    <2>3. pending[x] # pending[t]
      BY <2>1, <2>2 DEF ClosesInv, PendingCanBeCancelled
    <2> QED
      BY <1>2, <2>1, <2>2, <2>3 DEF SamePlaces
  <1>5. orphan' \subseteq Token /\ pending' \in [Token -> Close \cup {None}]
    BY DEF ClosesInv, Orphaned
  <1> QED
    BY <1>2, <1>3, <1>4, <1>5 DEF ClosesInv

\* The closes are disturbed at most.
LEMMA SamePlacesKeeps ==
    ASSUME ClosesInv, SamePlaces(close'), UNCHANGED pending, orphan' \subseteq orphan
    PROVE  ClosesInv'
  <1>1. ClosesFit'
    BY DEF ClosesInv, ClosesFit, SamePlaces
  <1>2. PendingCanBeCancelled'
    BY DEF ClosesInv, PendingCanBeCancelled, SamePlaces
  <1> QED
    BY <1>1, <1>2 DEF ClosesInv, SamePlaces

LEMMA CloseEndsKeeps ==
    ASSUME ClosesInv, NEW c \in Close, close[c].at \notin {"none", "over"}, CloseEnds(c),
           UNCHANGED orphan
    PROVE  ClosesInv'
  <1>1. close[c].token \in Token
    BY DEF ClosesInv, ClosesFit
  <1>2. /\ close' \in [Close -> CloseRecord] /\ close'[c].at = "over"
        /\ \A k \in Close : k # c => close'[k] = close[k]
    BY EndedType DEF ClosesInv, CloseEnds
  <1>3. /\ pending' \in [Token -> Close \cup {None}] /\ pending'[close[c].token] = None
        /\ \A x \in Token : x # close[c].token => pending'[x] = pending[x]
    BY <1>1 DEF ClosesInv, CloseEnds
  <1>4. ClosesFit'
    BY <1>2 DEF ClosesInv, ClosesFit
  <1>5. PendingCanBeCancelled'
    BY <1>2, <1>3 DEF ClosesInv, PendingCanBeCancelled
  <1> QED
    BY <1>2, <1>3, <1>4, <1>5 DEF ClosesInv

\* A close goes on: it sleeps, or it revokes.
LEMMA CloseMoves ==
    ASSUME ClosesInv, NEW c \in Close, close[c].at \in {"made", "sleep"},
           NEW at \in {"sleep", "revoke"}, close' = [close EXCEPT ![c].at = at],
           UNCHANGED <<pending, orphan>>
    PROVE  ClosesInv'
  <1>1. close' = [close EXCEPT ![c] = [close[c] EXCEPT !.at = at]] /\ close[c] \in CloseRecord
    BY DEF ClosesInv
  <1>2. /\ [close[c] EXCEPT !.at = at] \in CloseRecord
        /\ [close[c] EXCEPT !.at = at].token = close[c].token
        /\ [close[c] EXCEPT !.at = at].at = at
    BY <1>1 DEF CloseRecord, ClosePoint
  <1>3. /\ close' \in [Close -> CloseRecord]
        /\ close'[c].at = at /\ close'[c].token = close[c].token
        /\ \A k \in Close : k # c => close'[k] = close[k]
    BY <1>1, <1>2 DEF ClosesInv
  <1>4. ClosesFit'
    BY <1>3 DEF ClosesInv, ClosesFit
  <1>5. PendingCanBeCancelled'
    BY <1>3 DEF ClosesInv, PendingCanBeCancelled
  <1> QED
    BY <1>3, <1>4, <1>5 DEF ClosesInv

LEMMA ScheduleKeeps ==
    ASSUME ClosesInv, NEW c \in Close, NEW t \in Token, ScheduleClose(c, t)
    PROVE  ClosesInv'
  <1>1. close[c].at = "none"
    BY NewIsFree DEF ScheduleClose
  <1>2. SamePlaces(close)
    BY DisturbedEffect DEF ClosesInv
  <1>3. pending[t] \in Close \cup {None} /\ pending[t] # c
    BY <1>1, NoneAssumption DEF ClosesInv, PendingCanBeCancelled
  <1>4. PICK g : g = Cancelled(pending[t], close)
    OBVIOUS
  <1>5. /\ g \in [Close -> CloseRecord]
        /\ \A k \in Close : k # pending[t] => g[k] = close[k]
        /\ pending[t] # None => \/ g[pending[t]].at = "over"
                                \/ /\ g[pending[t]].at = "cancelled"
                                   /\ g[pending[t]].token = close[pending[t]].token
    BY <1>2, <1>3, <1>4, CancelledEffect
  <1>6. PICK b \in BOOLEAN : b = TRUE
    BY Zenon
  <1>7. PICK y : y = [at |-> "made", token |-> t, quiet |-> b]
    OBVIOUS
  <1>8. y \in CloseRecord /\ y.at = "made" /\ y.token = t
    BY ONLY <1>6, <1>7, t \in Token DEF CloseRecord, ClosePoint
  <1>9. close' = [g EXCEPT ![c] = y]
    BY <1>4, <1>6, <1>7 DEF ScheduleClose
  <1>10. /\ close' \in [Close -> CloseRecord] /\ close'[c] = y
         /\ \A k \in Close : k # c => close'[k] = g[k]
    BY <1>5, <1>8, <1>9
  <1>11. /\ pending' \in [Token -> Close \cup {None}] /\ pending'[t] = c
         /\ \A x \in Token : x # t => pending'[x] = pending[x]
    BY DEF ScheduleClose, ClosesInv
  <1>12. orphan' \subseteq Token
    BY DEF ScheduleClose, ClosesInv, Orphaned
  <1>13. ClosesFit'
    <2> SUFFICES ASSUME NEW k \in Close, close'[k].at \notin {"none", "over"}
                 PROVE  close'[k].token \in Token
      BY DEF ClosesFit
    <2>1. CASE k = pending[t] /\ k # c
      <3>1. k # None
        BY NoneAssumption
      <3>2. close'[k].token = close[k].token /\ close[k].token = t
        BY <1>5, <1>10, <2>1, <3>1 DEF ClosesInv, PendingCanBeCancelled
      <3> QED
        BY <3>2
    <2>2. CASE k # pending[t] /\ k # c
      BY <1>5, <1>10, <2>2 DEF ClosesInv, ClosesFit
    <2> QED
      BY <1>8, <1>10, <2>1, <2>2
  <1>14. PendingCanBeCancelled'
    <2> SUFFICES ASSUME NEW x \in Token, pending'[x] # None
                 PROVE  /\ close'[pending'[x]].token = x
                        /\ close'[pending'[x]].at \in {"made", "sleep", "revoke"}
      BY DEF PendingCanBeCancelled
    <2>1. CASE x = t
      BY <1>8, <1>10, <1>11, <2>1
    <2>2. CASE x # t
      <3>1. pending'[x] = pending[x] /\ pending[x] \in Close
        BY <1>11, <2>2 DEF ClosesInv
      <3>2. close[pending[x]].token = x /\ close[pending[x]].at \in {"made", "sleep", "revoke"}
        BY <3>1 DEF ClosesInv, PendingCanBeCancelled
      <3>3. pending[x] # pending[t] /\ pending[x] # c
        BY <1>1, <2>2, <3>1, <3>2 DEF ClosesInv, PendingCanBeCancelled
      <3> QED
        BY <1>5, <1>10, <3>1, <3>2, <3>3
    <2> QED
      BY <2>1, <2>2
  <1> QED
    BY <1>10, <1>11, <1>12, <1>13, <1>14 DEF ClosesInv

\* What touching a session, marking activity and taking a token for a close do.
LEMMA TouchKeepsCloses ==
    ASSUME ClosesInv, NEW t, Touch(t), UNCHANGED <<pending, orphan>>
    PROVE  ClosesInv'
  <1>1. SamePlaces(close')
    BY DisturbedEffect DEF Touch, ClosesInv
  <1> QED
    BY <1>1, SamePlacesKeeps

LEMMA MarkKeepsCloses ==
    ASSUME ClosesInv, NEW t \in Token, MarkActivity(t)
    PROVE  ClosesInv'
  <1>1. PICK f : f = IF t \in Tracked THEN Disturbed(t) ELSE close
    OBVIOUS
  <1>2. SamePlaces(f)
    BY <1>1, DisturbedEffect DEF ClosesInv
  <1>3. close' = Cancelled(pending[t], f)
    BY <1>1 DEF MarkActivity
  <1> QED
    BY <1>2, <1>3, CancelKeeps DEF MarkActivity

LEMMA CancelScheduledKeeps ==
    ASSUME ClosesInv, NEW t \in Token, CancelScheduled(t)
    PROVE  ClosesInv'
  <1>1. SamePlaces(close)
    BY DisturbedEffect DEF ClosesInv
  <1> QED
    BY <1>1, CancelKeeps DEF CancelScheduled

LEMMA TakenType ==
    ASSUME NEW S \in SUBSET Token, NEW x \in Taken(S)
    PROVE  x \in Closing /\ x.left \subseteq Token /\ x.at \in S \cup {None}
  BY DEF Taken, Closing

LEMMA AdminTakesKeeps ==
    ASSUME ClosesInv, NEW S \in SUBSET Token, NEW b \in BOOLEAN, AdminTakes(S, b)
    PROVE  /\ ClosesInv'
           /\ admin' \in [left : SUBSET Token, at : Token \cup {None}, revoke : BOOLEAN]
  <1>1. PICK x \in Taken(S) :
           /\ admin' = [left |-> x.left, at |-> x.at, revoke |-> b]
           /\ IF x.at = None THEN UNCHANGED <<close, pending, orphan>> ELSE CancelScheduled(x.at)
    BY DEF AdminTakes
  <1>2. x.left \subseteq Token /\ x.at \in Token \cup {None}
    BY TakenType
  <1>3. admin' \in [left : SUBSET Token, at : Token \cup {None}, revoke : BOOLEAN]
    BY <1>1, <1>2
  <1>4. CASE x.at = None
    BY <1>1, <1>3, <1>4 DEF ClosesInv, ClosesFit, PendingCanBeCancelled
  <1>5. CASE x.at # None
    BY <1>1, <1>2, <1>3, <1>5, CancelScheduledKeeps
  <1> QED
    BY <1>4, <1>5

\* Kill-all, kick and revoke.
LEMMA AdminStartsKeeps ==
    ASSUME IInv, ClosesInv,
           \/ KillAll \/ \E a \in Agent, o \in Owner : Kick(a, o)
           \/ \E t \in Token : RevokeSession(t)
    PROVE  /\ ClosesInv'
           /\ admin' \in [left : SUBSET Token, at : Token \cup {None}, revoke : BOOLEAN]
           /\ UNCHANGED <<upstream, registry, httpToken, link, sockets, req, sweep>>
  <1>1. \E S \in SUBSET Token, b \in BOOLEAN : AdminStarts(S, b)
    <2>1. Tracked \subseteq Token /\ \A o : OwnSessions(o) \subseteq Token
      BY DEF Tracked, OwnSessions
    <2>2. CASE KillAll
      <3>1. PICK b \in BOOLEAN : b = FALSE
        BY Zenon
      <3> QED
        BY <2>1, <2>2, <3>1 DEF KillAll
    <2>3. CASE \E a \in Agent, o \in Owner : Kick(a, o)
      <3>1. PICK b \in BOOLEAN : b = FALSE
        BY Zenon
      <3> QED
        BY <2>1, <2>3, <3>1 DEF Kick
    <2>4. CASE \E t \in Token : RevokeSession(t)
      <3>1. PICK b \in BOOLEAN : b = TRUE
        BY Zenon
      <3> QED
        BY <2>4, <3>1 DEF RevokeSession
    <2> QED
      BY <2>2, <2>3, <2>4
  <1> QED
    BY <1>1, AdminTakesKeeps DEF AdminStarts

\* Each step keeps the closes' invariant.
LEMMA ClosesStep == ASSUME IInv, [Next]_vars PROVE ClosesInv'
  <1>i. ClosesInv
    BY DEF IInv, ClosesInv, TypeOK, CloseRecord
  <1>s. ASSUME SamePlaces(close'), UNCHANGED <<pending, orphan>> PROVE ClosesInv'
    BY <1>i, <1>s, SamePlacesKeeps
  <1>p. \A t : SamePlaces(Disturbed(t)) /\ SamePlaces(close)
    BY <1>i, DisturbedEffect DEF ClosesInv
  <1>u. ASSUME UNCHANGED <<close, pending, orphan>> PROVE ClosesInv'
    BY <1>u, <1>i DEF ClosesInv, ClosesFit, PendingCanBeCancelled
  <1>1. ASSUME NEW r \in Request, NEW o \in Owner, NEW a \in Agent, AskNew(r, o, a) PROVE ClosesInv'
    BY <1>1, <1>u DEF AskNew
  <1>2. ASSUME NEW r \in Request, NEW o \in Owner, NEW a \in Agent, NEW t \in Token,
               NEW b \in BOOLEAN, AskFresh(r, o, a, t, b) \/ AskReuse(r, o, a, t, b)
        PROVE  ClosesInv'
    BY <1>2, <1>i, MarkKeepsCloses, CancelScheduledKeeps DEF AskFresh, AskReuse
  <1>3. ASSUME NEW r \in Request, RequestStep(r) PROVE ClosesInv'
    <2>1. ASSUME NEW u \in Tunnel, Opened(r, u) PROVE ClosesInv'
      BY <2>1, <1>p, <1>s DEF Opened, LookUp
    <2> QED
      BY <1>3, <1>u, <2>1 DEF RequestStep, Refreshed, Created, CreateFails, OpenFails, Answered
  <1>4. ASSUME NEW u \in Tunnel, ThreadStep(u) \/ TunnelTraffic(u) \/ TunnelGone(u)
        PROVE  ClosesInv'
    <2>1. CASE BrowserConnected(u)
      BY <2>1, <1>p, <1>s DEF BrowserConnected, LookUp
    <2>2. CASE Bound(u)
      BY <2>2, <1>i, <1>u, TouchKeepsCloses DEF Bound
    <2>3. CASE TunnelTraffic(u)
      BY <2>3, <1>i, TouchKeepsCloses DEF TunnelTraffic
    <2>4. CASE BrowserRefused(u) \/ TunnelGone(u)
      BY <2>4, <1>u DEF BrowserRefused, TunnelGone
    <2> QED
      BY <1>4, <2>1, <2>2, <2>3, <2>4 DEF ThreadStep
  <1>5. ASSUME NEW u \in Tunnel, NEW t \in Token, BrowserConnects(u, t) PROVE ClosesInv'
    BY <1>5, <1>i, MarkKeepsCloses DEF BrowserConnects
  <1>6. ASSUME NEW w \in Socket, TouchWebsocket(w) PROVE ClosesInv'
    <2>1. sockets[w] \in Token
      BY <1>6 DEF TouchWebsocket, IInv, TypeOK
    <2> QED
      BY <1>6, <1>i, <2>1, MarkKeepsCloses DEF TouchWebsocket
  <1>7. ASSUME NEW w \in Socket, NEW t \in Token, RegisterWebsocket(w, t) PROVE ClosesInv'
    BY <1>7, <1>i, MarkKeepsCloses DEF RegisterWebsocket
  <1>8. ASSUME NEW w \in Socket, UnregisterWebsocket(w) PROVE ClosesInv'
    BY <1>8, <1>u DEF UnregisterWebsocket
  <1>9. ASSUME NEW c \in Close, CloseStep(c) PROVE ClosesInv'
    <2>1. CASE CloseStarts(c)
      BY <2>1, <1>i, CloseMoves DEF CloseStarts
    <2>2. CASE CloseGoesOn(c)
      BY <2>2, <1>i, CloseMoves DEF CloseGoesOn
    <2>3. CASE CloseSkips(c) \/ CloseCancelled(c) \/ \E ok \in BOOLEAN : CloseRevoked(c, ok)
      BY <2>3, <1>i, CloseEndsKeeps DEF CloseSkips, CloseCancelled, CloseRevoked
    <2> QED
      BY <1>9, <2>1, <2>2, <2>3 DEF CloseStep
  <1>10. ASSUME NEW c \in Close, NEW t \in Token, ScheduleClose(c, t) PROVE ClosesInv'
    BY <1>10, <1>i, ScheduleKeeps
  <1>11. ASSUME NEW t \in Token, GoIdle(t) PROVE ClosesInv'
    BY <1>11, <1>u DEF GoIdle
  <1>12. ASSUME NEW t \in Token, NEW ok \in BOOLEAN, OrphanRevokes(t, ok) PROVE ClosesInv'
    BY <1>12, <1>i, <1>p, SamePlacesKeeps DEF OrphanRevokes
  <1>13. CASE SweepStep
    BY <1>13, <1>u DEF SweepStep, SweepStarts, SweepRevoked
  <1>14. CASE \/ KillAll \/ \E a \in Agent, o \in Owner : Kick(a, o)
              \/ \E t \in Token : RevokeSession(t)
    BY <1>14, <1>i, AdminStartsKeeps
  <1>15. CASE AdminStep
    <2>1. admin.left \in SUBSET Token
      BY DEF IInv, TypeOK
    <2>2. PICK b \in BOOLEAN : b = FALSE
      BY Zenon
    <2>3. AdminTakes(admin.left, b)
      BY <1>15, <2>2 DEF AdminStep, AdminRevoked
    <2> QED
      BY <1>i, <2>1, <2>3, AdminTakesKeeps
  <1>16. CASE UNCHANGED vars
    BY <1>16, <1>u DEF vars
  <1> QED
    BY <1>1, <1>2, <1>3, <1>4, <1>5, <1>6, <1>7, <1>8, <1>9, <1>10, <1>11, <1>12, <1>13,
       <1>14, <1>15, <1>16 DEF Next

-----------------------------------------------------------------------------
(* Sessions and their owners.                                              *)

RegistryTypes ==
    /\ upstream \in [Token -> [state : {"unissued", "live", "revoked"}, agent : Agent \cup {None}]]
    /\ sess \in [Token -> Session \cup {None}]
    /\ agentTokens \in [Agent -> SUBSET Token]
    /\ tunnels \in [Token -> SUBSET Tunnel]
    /\ tunnelToken \in [Tunnel -> Token \cup {None}]
    /\ httpToken \in SUBSET Tunnel
    /\ link \in [Tunnel -> LinkRecord]
    /\ req \in [Request -> RequestRecord]

Core ==
    /\ RegistryTypes /\ RequestsFit /\ TunnelsAnswered /\ SessionInv
    /\ TunnelsFit /\ SessionTunnelsIndexed

LEMMA SameUpstream == ASSUME RegistryTypes, UNCHANGED upstream PROVE Revoked
  BY DEF RegistryTypes, Revoked

\* No request takes a lock, and none comes to need that its owner has no session.
Proceeds ==
    \A r \in Request : Holds(r)' =>
        /\ Holds(r) /\ req'[r].owner = req[r].owner /\ req'[r].agent = req[r].agent
        /\ req'[r].at = "create" => req[r].at = "create"
        /\ req'[r].at = "refresh" => req[r].at = "refresh" /\ req'[r].token = req[r].token

LEMMA SameRequests == ASSUME UNCHANGED req PROVE Proceeds
  BY DEF Proceeds, Holds

LEMMA KeptSessions ==
    ASSUME Core, Revoked, SessionsKept, UNCHANGED agentTokens, Proceeds
    PROVE  SessionInv'
  <1> USE DEF Core, SessionInv
  <1>1. LockExcludes'
    BY DEF LockExcludes, Proceeds
  <1>2. SessionsFit'
    BY DEF SessionsFit, Revoked, SessionsKept
  <1>3. OwnersFit'
    BY DEF OwnersFit, OwnSessions, Tracked, SessionsKept, Proceeds, Holds
  <1>4. OwnerHasOneSession'
    BY DEF OwnerHasOneSession, Tracked, SessionsKept
  <1>5. AgentTokensMatch'
    BY DEF AgentTokensMatch, Tracked, SessionsKept
  <1> QED
    BY <1>1, <1>2, <1>3, <1>4, <1>5

LEMMA ForgottenSessions ==
    ASSUME Core, Revoked, NEW t \in Token, Forgotten(t), Proceeds
    PROVE  SessionInv'
  <1> USE DEF Core, SessionInv
  <1>1. LockExcludes'
    BY DEF LockExcludes, Proceeds
  <1>2. SessionsFit'
    BY DEF SessionsFit, Revoked, Forgotten
  <1>3. OwnersFit'
    BY DEF OwnersFit, OwnSessions, Tracked, Forgotten, Proceeds, Holds
  <1>4. OwnerHasOneSession'
    BY DEF OwnerHasOneSession, Tracked, Forgotten
  <1>5. AgentTokensMatch'
    BY DEF AgentTokensMatch, Tracked, Forgotten
  <1> QED
    BY <1>1, <1>2, <1>3, <1>4, <1>5

\* A new session, of an owner and an agent or of neither.
Made(t, a, o) ==
    /\ sess' \in [Token -> Session \cup {None}]
    /\ sess'[t] # None /\ sess'[t].agent = a /\ sess'[t].owner = o
    /\ \A x \in Token : x # t => sess'[x] = sess[x]

LEMMA RegisteredEffect ==
    ASSUME RegistryTypes, NEW t \in Token, NEW a \in Agent \cup {None}, NEW o \in Owner \cup {None},
           sess' = Registered(t, a, o)
    PROVE  Made(t, a, o)
  <1>1. PICK b \in BOOLEAN : b = FALSE
    BY Zenon
  <1>2. PICK y : y = [agent |-> a, owner |-> o, idle |-> b]
    OBVIOUS
  <1>3. y \in Session /\ y # None /\ y.agent = a /\ y.owner = o
    BY <1>2, NoSessionAssumption DEF Session
  <1>4. sess' = [sess EXCEPT ![t] = y]
    BY <1>1, <1>2 DEF Registered
  <1> QED
    BY <1>3, <1>4 DEF RegistryTypes, Made

\* A thread revives a session that was forgotten: it belongs to nobody.
LEMMA RevivedSession ==
    ASSUME Core, NEW t \in Token, sess[t] = None, upstream[t].state # "unissued",
           Made(t, None, None), UNCHANGED <<upstream, agentTokens, req>>
    PROVE  SessionInv'
  <1> USE NoneAssumption DEF Core, SessionInv
  <1>1. LockExcludes'
    BY DEF LockExcludes, Holds
  <1>2. SessionsFit'
    BY DEF SessionsFit, Made
  <1>3. OwnersFit'
    <2> SUFFICES ASSUME NEW r \in Request, req[r].at \in {"create", "refresh"}
                 PROVE  OwnSessions(req[r].owner)' \subseteq OwnSessions(req[r].owner)
      BY DEF OwnersFit
    <2>1. req[r].owner # None
      BY DEF RequestsFit, Holds
    <2> QED
      BY <2>1 DEF OwnSessions, Tracked, Made
  <1>4. OwnerHasOneSession'
    BY DEF OwnerHasOneSession, Tracked, Made
  <1>5. AgentTokensMatch'
    BY DEF AgentTokensMatch, Tracked, Made
  <1> QED
    BY <1>1, <1>2, <1>3, <1>4, <1>5

\* A request comes to a point; the others stay where they are.
Begins(r, at, o, a, t, u) ==
    /\ req' \in [Request -> RequestRecord]
    /\ req'[r].at = at /\ req'[r].owner = o /\ req'[r].agent = a
    /\ req'[r].token = t /\ req'[r].tunnel = u
    /\ \A q \in Request : q # r => req'[q] = req[q]

LEMMA BeginsEffect ==
    ASSUME RegistryTypes, NEW r \in Request, NEW at \in RequestPoint, NEW o \in Owner \cup {None},
           NEW a \in Agent \cup {None}, NEW t \in Token \cup {None}, NEW u \in Tunnel \cup {None},
           NEW b \in BOOLEAN,
           req' = [req EXCEPT ![r] = [at |-> at, owner |-> o, agent |-> a, token |-> t,
                                      tunnel |-> u, again |-> b]]
    PROVE  Begins(r, at, o, a, t, u)
  <1>1. PICK y : y = [at |-> at, owner |-> o, agent |-> a, token |-> t, tunnel |-> u, again |-> b]
    OBVIOUS
  <1>2. /\ y \in RequestRecord
        /\ y.at = at /\ y.owner = o /\ y.agent = a /\ y.token = t /\ y.tunnel = u
    BY <1>1 DEF RequestRecord
  <1>3. req' = [req EXCEPT ![r] = y]
    BY <1>1
  <1> QED
    BY <1>2, <1>3 DEF RegistryTypes, Begins

LEMMA AskedEffect ==
    ASSUME RegistryTypes, NEW r \in Request, NEW at \in RequestPoint, NEW o \in Owner,
           NEW a \in Agent, NEW t \in Token \cup {None}, NEW b \in BOOLEAN,
           Asked(r, at, o, a, t, b)
    PROVE  Begins(r, at, o, a, t, None)
  BY BeginsEffect DEF Asked

\* A request takes the lock: its owner had no session, or one that is to go.
LEMMA LockTaken ==
    ASSUME Core, NEW r \in Request, NEW at, NEW o \in Owner, NEW a, NEW t, NEW u,
           req[r].at = "none", ~Locked(o), Begins(r, at, o, a, t, u),
           at = "create" => OwnSessions(o) = {},
           at = "refresh" => t \in OwnSessions(o),
           SessionsKept, UNCHANGED <<upstream, agentTokens>>
    PROVE  SessionInv'
  <1> USE DEF Core, SessionInv
  <1>0. Revoked
    BY SameUpstream
  <1>1. LockExcludes'
    <2> SUFFICES ASSUME NEW q1 \in Request, NEW q2 \in Request, Holds(q1)', Holds(q2)',
                        req'[q1].owner = req'[q2].owner
                 PROVE  q1 = q2
      BY DEF LockExcludes
    <2>1. \A q \in Request : q # r => ~(Holds(q) /\ req[q].owner = o)
      BY DEF Locked, Holds
    <2>2. \A q \in Request : q # r => (Holds(q)' => Holds(q)) /\ req'[q].owner = req[q].owner
      BY DEF Begins, Holds
    <2>3. req'[r].owner = o
      BY DEF Begins
    <2> QED
      BY <2>1, <2>2, <2>3 DEF LockExcludes
  <1>2. SessionsFit'
    BY <1>0 DEF SessionsFit, Revoked, SessionsKept
  <1>3. OwnersFit'
    <2> SUFFICES ASSUME NEW q \in Request, NEW y \in Token, sess'[y] # None,
                        sess'[y].owner = req'[q].owner
                 PROVE  req'[q].at # "create" /\ (req'[q].at = "refresh" => y = req'[q].token)
      BY DEF OwnersFit, OwnSessions, Tracked
    <2>1. sess[y] # None /\ sess[y].owner = req'[q].owner
      BY DEF SessionsKept
    <2>2. CASE q # r
      BY <2>1, <2>2 DEF OwnersFit, OwnSessions, Tracked, Begins
    <2>3. CASE q = r
      <3>1. y \in OwnSessions(o) /\ req'[r].at = at /\ req'[r].token = t
        BY <2>1, <2>3 DEF OwnSessions, Tracked, Begins
      <3>2. t \in OwnSessions(o) => y = t
        BY <3>1, NoneAssumption DEF OwnerHasOneSession, OwnSessions
      <3> QED
        BY <2>3, <3>1, <3>2
    <2> QED
      BY <2>2, <2>3
  <1>4. OwnerHasOneSession'
    BY DEF OwnerHasOneSession, Tracked, SessionsKept
  <1>5. AgentTokensMatch'
    BY DEF AgentTokensMatch, Tracked, SessionsKept
  <1> QED
    BY <1>1, <1>2, <1>3, <1>4, <1>5

\* The old session is gone, and its owner has none.
LEMMA OldSessionGone ==
    ASSUME Core, NEW r \in Request, req[r].at = "refresh", Revoked, Forgotten(req[r].token),
           Begins(r, "create", req[r].owner, req[r].agent, None, None)
    PROVE  SessionInv'
  <1> USE DEF Core, SessionInv
  <1>0. req[r].token \in Token
    BY DEF RequestsFit
  <1>1. LockExcludes'
    BY DEF LockExcludes, Begins, Holds
  <1>2. SessionsFit'
    BY <1>0 DEF SessionsFit, Revoked, Forgotten
  <1>3. OwnersFit'
    <2> SUFFICES ASSUME NEW q \in Request, NEW y \in Token, sess'[y] # None,
                        sess'[y].owner = req'[q].owner
                 PROVE  req'[q].at # "create" /\ (req'[q].at = "refresh" => y = req'[q].token)
      BY DEF OwnersFit, OwnSessions, Tracked
    <2>1. y # req[r].token /\ sess[y] # None /\ sess[y].owner = req'[q].owner
      BY <1>0 DEF Forgotten
    <2>2. CASE q # r
      BY <2>1, <2>2 DEF OwnersFit, OwnSessions, Tracked, Begins
    <2>3. CASE q = r
      <3>1. y \in OwnSessions(req[r].owner)
        BY <2>1, <2>3 DEF OwnSessions, Tracked, Begins
      <3> QED
        BY <2>1, <3>1 DEF OwnersFit
    <2> QED
      BY <2>2, <2>3
  <1>4. OwnerHasOneSession'
    BY <1>0 DEF OwnerHasOneSession, Tracked, Forgotten
  <1>5. AgentTokensMatch'
    BY <1>0 DEF AgentTokensMatch, Tracked, Forgotten
  <1> QED
    BY <1>1, <1>2, <1>3, <1>4, <1>5

\* The new session is the only one of its owner.
LEMMA NewSession ==
    ASSUME Core, NEW r \in Request, NEW t \in Token, req[r].at = "create",
           upstream[t].state = "unissued",
           Made(t, req[r].agent, req[r].owner),
           Begins(r, "open", req[r].owner, req[r].agent, t, None),
           upstream' = [upstream EXCEPT ![t] = [state |-> "live", agent |-> req[r].agent]],
           agentTokens' = [agentTokens EXCEPT ![req[r].agent] = @ \cup {t}]
    PROVE  SessionInv'
  <1> USE DEF Core, SessionInv
  <1>0. /\ req[r].owner \in Owner /\ req[r].agent \in Agent /\ Holds(r)
        /\ OwnSessions(req[r].owner) = {} /\ sess[t] = None
    BY DEF RequestsFit, Holds, OwnersFit, SessionsFit
  <1>1. LockExcludes'
    BY <1>0 DEF LockExcludes, Begins, Holds
  <1>2. SessionsFit'
    BY <1>0 DEF SessionsFit, Made, RegistryTypes
  <1>3. OwnersFit'
    <2> SUFFICES ASSUME NEW q \in Request, NEW y \in Token, sess'[y] # None,
                        sess'[y].owner = req'[q].owner
                 PROVE  req'[q].at # "create" /\ (req'[q].at = "refresh" => y = req'[q].token)
      BY DEF OwnersFit, OwnSessions, Tracked
    <2>1. CASE q = r
      BY <2>1 DEF Begins
    <2>2. CASE q # r /\ req[q].at \in {"create", "refresh"}
      <3>1. req[q].owner # req[r].owner
        BY <1>0, <2>2 DEF LockExcludes, Holds
      <3>2. y # t /\ sess[y] # None /\ sess[y].owner = req[q].owner
        BY <2>2, <3>1 DEF Begins, Made
      <3> QED
        BY <2>2, <3>2 DEF OwnersFit, OwnSessions, Tracked, Begins
    <2>3. CASE q # r /\ req[q].at \notin {"create", "refresh"}
      BY <2>3 DEF Begins
    <2> QED
      BY <2>1, <2>2, <2>3
  <1>4. OwnerHasOneSession'
    BY <1>0 DEF OwnerHasOneSession, OwnSessions, Tracked, Made
  <1>5. AgentTokensMatch'
    <2>1. ASSUME NEW a \in Agent
          PROVE  agentTokens'[a] = {x \in Tracked' : sess'[x].agent = a}
      BY <1>0 DEF AgentTokensMatch, Tracked, Made, RegistryTypes
    <2> QED
      BY <2>1 DEF AgentTokensMatch
  <1> QED
    BY <1>1, <1>2, <1>3, <1>4, <1>5

-----------------------------------------------------------------------------
(* Requests and their answers.                                             *)

\* Tunnels that are or were up keep their token, and tokens their agent.
Settled ==
    /\ \A u \in Tunnel : link[u].at \in {"up", "gone"} =>
          link'[u].at \in {"up", "gone"} /\ link'[u].token = link[u].token
    /\ \A t \in Token : upstream[t].agent # None => upstream'[t].agent = upstream[t].agent

LEMMA RequestsStay ==
    ASSUME Core, Settled, UNCHANGED req
    PROVE  RequestsFit' /\ TunnelsAnswered'
  <1>1. RequestsFit'
    <2>1. \A r \in Request : Holds(r)' <=> Holds(r)
      BY DEF Holds
    <2>2. ASSUME NEW r \in Request, req[r].at \in {"open", "answer"}
          PROVE  upstream'[req[r].token].agent = req[r].agent
      <3>1. req[r].token \in Token /\ upstream[req[r].token].agent \in Agent
        BY <2>2 DEF Core, RequestsFit, Holds
      <3> QED
        BY <2>2, <3>1, NoneAssumption DEF Core, RequestsFit, Settled
    <2> QED
      BY <2>1, <2>2 DEF Core, RequestsFit
  <1>2. TunnelsAnswered'
    BY DEF Core, TunnelsAnswered, Settled, RegistryTypes, RequestRecord
  <1> QED
    BY <1>1, <1>2

LEMMA RequestMoves ==
    ASSUME Core, Settled, NEW r \in Request, NEW at, NEW o, NEW a, NEW t, NEW u,
           Begins(r, at, o, a, t, u),
           at \in {"refresh", "create", "open", "answer"} => o \in Owner /\ a \in Agent,
           at \in {"refresh", "open", "answer"} => t \in Token,
           at \in {"open", "answer"} => upstream'[t].agent = a,
           u # None => at = "answer" /\ link'[u].token = t /\ link'[u].at \in {"up", "gone"}
    PROVE  RequestsFit' /\ TunnelsAnswered'
  <1>1. ASSUME NEW q \in Request, q # r
        PROVE  /\ Holds(q)' => req'[q].owner \in Owner /\ req'[q].agent \in Agent
               /\ req'[q].at \in {"refresh", "open", "answer"} => req'[q].token \in Token
               /\ req'[q].at \in {"open", "answer"} => upstream'[req'[q].token].agent = req'[q].agent
    <2>1. req'[q] = req[q] /\ (Holds(q)' <=> Holds(q))
      BY <1>1 DEF Begins, Holds
    <2>2. ASSUME req[q].at \in {"open", "answer"}
          PROVE  upstream'[req[q].token].agent = req[q].agent
      <3>1. req[q].token \in Token /\ upstream[req[q].token].agent \in Agent
        BY <2>2 DEF Core, RequestsFit, Holds
      <3> QED
        BY <2>2, <3>1, NoneAssumption DEF Core, RequestsFit, Settled
    <2> QED
      BY <2>1, <2>2 DEF Core, RequestsFit
  <1>2. RequestsFit'
    BY <1>1 DEF RequestsFit, Begins, Holds
  <1>3. ASSUME NEW q \in Request, q # r, req[q].tunnel # None
        PROVE  /\ req[q].at = "answer"
               /\ link'[req[q].tunnel].token = req[q].token
               /\ link'[req[q].tunnel].at \in {"up", "gone"}
    <2>1. req[q].tunnel \in Tunnel
      BY <1>3 DEF Core, RegistryTypes, RequestRecord
    <2> QED
      BY <1>3, <2>1 DEF Core, TunnelsAnswered, Settled
  <1>4. TunnelsAnswered'
    BY <1>3 DEF TunnelsAnswered, Begins
  <1> QED
    BY <1>2, <1>4

-----------------------------------------------------------------------------
(* Tunnels.                                                                *)

TunnelInv == TunnelsFit /\ SessionTunnelsIndexed

\* Requests that wait for a tunnel that is being bound go on waiting for it.
OpenStays ==
    \A r \in Request, u \in Tunnel :
        req[r].at = "open" /\ Binding(u) /\ link[u].by = r =>
            req'[r].at = "open" /\ req'[r].token = req[r].token

TrackedStays == \A t \in Token : sess[t] # None => sess'[t] # None

LEMMA TunnelsStay ==
    ASSUME Core, UNCHANGED <<tunnels, tunnelToken, link>>, TrackedStays, OpenStays
    PROVE  TunnelInv'
  <1>1. TunnelsFit'
    <2> USE DEF Core, TunnelsFit, Binding
    <2>1. ASSUME NEW u \in Tunnel, Binding(u), link[u].by # None
          PROVE  req'[link[u].by].at = "open" /\ req'[link[u].by].token = link[u].token
      <3>1. link[u].by \in Request
        BY <2>1 DEF RegistryTypes, LinkRecord
      <3> QED
        BY <2>1, <3>1 DEF OpenStays
    <2> QED
      BY <2>1 DEF TrackedStays
  <1>2. SessionTunnelsIndexed'
    BY DEF Core, SessionTunnelsIndexed, Tracked, TrackedStays
  <1> QED
    BY <1>1, <1>2 DEF TunnelInv

LEMMA TunnelsGo ==
    ASSUME Core, NEW t \in Token, Forgotten(t), TunnelsForgotten(t), OpenStays
    PROVE  TunnelInv'
  <1> USE DEF Core
  <1>1. \A u \in Tunnel : Binding(u)' <=> Binding(u)
    BY DEF Binding, TunnelsForgotten
  <1>2. ASSUME NEW u \in Tunnel
        PROVE  /\ link'[u].at \in {"connect", "bind", "stale"} => link'[u].token \in Token
               /\ link'[u].at = "bind" => sess'[link'[u].token] # None
               /\ Binding(u) /\ link[u].by # None =>
                     req'[link[u].by].at = "open" /\ req'[link[u].by].token = link[u].token
    <2>1. link[u].by \in Request \cup {None}
      BY DEF RegistryTypes, LinkRecord
    <2>2. Binding(u) /\ link[u].by # None =>
             req'[link[u].by].at = "open" /\ req'[link[u].by].token = link[u].token
      BY <2>1 DEF TunnelsFit, OpenStays
    <2>3. link'[u].at = "bind" => link[u].at = "bind" /\ link[u].token # t /\ link[u].token \in Token
      BY DEF TunnelsForgotten, TunnelsFit
    <2>4. link'[u].at = "bind" => sess'[link'[u].token] # None
      BY <2>3 DEF TunnelsForgotten, TunnelsFit, Forgotten
    <2>5. link'[u].at \in {"connect", "bind", "stale"} => link'[u].token \in Token
      BY DEF TunnelsForgotten, TunnelsFit
    <2> QED
      BY <2>2, <2>4, <2>5
  <1>3. ASSUME NEW u \in Tunnel, NEW v \in Tunnel, Binding(u)', Binding(v)', link'[u].by # None,
               link'[u].by = link'[v].by
        PROVE  u = v
    BY <1>1, <1>3 DEF TunnelsFit, TunnelsForgotten
  <1>4. ASSUME NEW x \in Token, NEW u \in tunnels'[x]
        PROVE  link'[u].at = "up" /\ link'[u].token = x /\ sess'[x] # None /\ tunnelToken'[u] = x
    <2>1. x # t /\ u \in tunnels[x] /\ u \in Tunnel
      BY DEF TunnelsForgotten, RegistryTypes
    <2> QED
      BY <2>1 DEF TunnelsFit, SessionTunnelsIndexed, TunnelsForgotten, Forgotten, Tracked
  <1>5. TunnelsFit'
    BY <1>1, <1>2, <1>3, <1>4 DEF TunnelsFit, TunnelsForgotten
  <1>6. SessionTunnelsIndexed'
    BY <1>4 DEF SessionTunnelsIndexed, Tracked
  <1> QED
    BY <1>5, <1>6 DEF TunnelInv

\* A tunnel moves on; the others stay.
LinkMoves(u, t, r, at) ==
    /\ link' \in [Tunnel -> LinkRecord]
    /\ link'[u].token = t /\ link'[u].by = r /\ link'[u].at = at
    /\ \A v \in Tunnel : v # u => link'[v] = link[v]

LEMMA LinkEffect ==
    ASSUME RegistryTypes, NEW u \in Tunnel, NEW t \in Token \cup {None},
           NEW r \in Request \cup {None},
           NEW at \in {"none", "connect", "bind", "stale", "up", "gone"},
           link' = [link EXCEPT ![u] = [token |-> t, by |-> r, at |-> at]]
    PROVE  LinkMoves(u, t, r, at)
  BY DEF RegistryTypes, LinkRecord, LinkMoves

\* A tunnel that is not up is listed nowhere.
LEMMA NotListed ==
    ASSUME Core, NEW u \in Tunnel, link[u].at # "up", NEW t \in Token
    PROVE  u \notin tunnels[t]
  BY DEF Core, TunnelsFit

\* A thread has looked its session up, or the browser's connect begins or fails.
LEMMA TunnelConnects ==
    ASSUME Core, NEW u \in Tunnel, NEW t, NEW r \in Request \cup {None}, NEW at,
           link[u].at \in {"none", "connect"}, LinkMoves(u, t, r, at),
           \/ at = "none"
           \/ at = "connect" /\ t \in Token
           \/ /\ at = "bind" /\ t \in Token /\ sess'[t] # None
              /\ r # None => /\ req[r].at = "open" /\ req[r].token = t
                             /\ \A v \in Tunnel : link[v].by = r => ~Binding(v),
           TrackedStays, UNCHANGED <<tunnels, tunnelToken, req>>
    PROVE  TunnelInv'
  <1> USE DEF Core
  <1>1. ASSUME NEW v \in Tunnel
        PROVE  /\ link'[v].at \in {"connect", "bind", "stale"} => link'[v].token \in Token
               /\ link'[v].at = "bind" => sess'[link'[v].token] # None
               /\ Binding(v)' /\ link'[v].by # None =>
                     req'[link'[v].by].at = "open" /\ req'[link'[v].by].token = link'[v].token
    <2>1. CASE v = u
      BY <2>1 DEF LinkMoves, Binding
    <2>2. CASE v # u
      BY <2>2 DEF LinkMoves, Binding, TunnelsFit, TrackedStays
    <2> QED
      BY <2>1, <2>2
  <1>2. ASSUME NEW v \in Tunnel, NEW w \in Tunnel, Binding(v)', Binding(w)', link'[v].by # None,
               link'[v].by = link'[w].by
        PROVE  v = w
    <2>1. \A x \in Tunnel : x # u => link'[x] = link[x] /\ (Binding(x)' <=> Binding(x))
      BY DEF LinkMoves, Binding
    <2>2. Binding(u)' => link'[u].by = r /\ \A x \in Tunnel : r # None /\ link[x].by = r => ~Binding(x)
      BY DEF LinkMoves, Binding
    <2> QED
      BY <1>2, <2>1, <2>2 DEF TunnelsFit
  <1>3. ASSUME NEW x \in Token, NEW v \in tunnels'[x]
        PROVE  link'[v].at = "up" /\ link'[v].token = x /\ sess'[x] # None /\ tunnelToken'[v] = x
    <2>1. v \in Tunnel /\ v # u
      BY NotListed DEF RegistryTypes
    <2> QED
      BY <2>1 DEF TunnelsFit, SessionTunnelsIndexed, LinkMoves, Tracked, TrackedStays
  <1>4. TunnelsFit'
    BY <1>1, <1>2, <1>3 DEF TunnelsFit
  <1>5. SessionTunnelsIndexed'
    BY <1>3 DEF SessionTunnelsIndexed, Tracked
  <1> QED
    BY <1>4, <1>5 DEF TunnelInv

-----------------------------------------------------------------------------
(* The steps.                                                              *)

\* Everything stays but for activity and revocations.
LEMMA CalmStep ==
    ASSUME Core, Revoked, SessionsKept,
           UNCHANGED <<agentTokens, tunnels, tunnelToken, httpToken, link, req>>
    PROVE  Core'
  <1>1. Settled /\ TrackedStays /\ OpenStays
    BY DEF Settled, Revoked, TrackedStays, SessionsKept, OpenStays
  <1>2. SessionInv'
    BY KeptSessions, SameRequests
  <1>3. RequestsFit' /\ TunnelsAnswered'
    BY <1>1, RequestsStay
  <1>4. TunnelInv'
    BY <1>1, TunnelsStay
  <1>5. RegistryTypes'
    BY DEF Core, RegistryTypes, Revoked, SessionsKept
  <1> QED
    BY <1>2, <1>3, <1>4, <1>5 DEF Core, TunnelInv

LEMMA ForgottenSettles ==
    ASSUME Revoked, NEW t, TunnelsForgotten(t)
    PROVE  Settled
  BY DEF Settled, Revoked, TunnelsForgotten

\* A session is forgotten.
LEMMA ForgetStep ==
    ASSUME Core, Revoked, NEW t \in Token, Forgotten(t), TunnelsForgotten(t),
           UNCHANGED <<httpToken, req>>
    PROVE  Core'
  <1>1. OpenStays
    BY DEF OpenStays
  <1>2. SessionInv'
    BY ForgottenSessions, SameRequests
  <1>3. RequestsFit' /\ TunnelsAnswered'
    BY ForgottenSettles, RequestsStay
  <1>4. TunnelInv'
    BY <1>1, TunnelsGo
  <1>5. RegistryTypes'
    BY DEF Core, RegistryTypes, Revoked, Forgotten, TunnelsForgotten
  <1> QED
    BY <1>2, <1>3, <1>4, <1>5 DEF Core, TunnelInv

\* A request is made, and finds no session or one that has to go.
LEMMA AskStep ==
    ASSUME Core, NEW r \in Request, NEW o \in Owner, NEW a \in Agent,
           \/ AskNew(r, o, a)
           \/ \E t \in Token, b \in BOOLEAN : AskFresh(r, o, a, t, b)
    PROVE  Core'
  <1> USE DEF Core
  <1>f. PICK f \in BOOLEAN : f = FALSE
    BY Zenon
  <1>0. /\ req[r].at = "none" /\ ~Locked(o)
        /\ UNCHANGED <<upstream, registry, httpToken, link>>
    BY NewIsFree DEF AskNew, AskFresh
  <1>1. PICK at \in {"create", "refresh"}, t \in Token \cup {None} :
           /\ at = "create" => OwnSessions(o) = {}
           /\ at = "refresh" => t \in OwnSessions(o)
           /\ Begins(r, at, o, a, t, None)
    <2>1. CASE AskNew(r, o, a)
      <3>1. Asked(r, "create", o, a, None, f)
        BY <1>f, <2>1 DEF AskNew
      <3>2. Begins(r, "create", o, a, None, None)
        BY <3>1, AskedEffect DEF RequestPoint
      <3> QED
        BY <2>1, <3>2 DEF AskNew
    <2>2. ASSUME NEW t \in Token, NEW b \in BOOLEAN, AskFresh(r, o, a, t, b)
          PROVE  t \in OwnSessions(o) /\ Begins(r, "refresh", o, a, t, None)
      <3>1. Asked(r, "refresh", o, a, t, f)
        BY <1>f, <2>2 DEF AskFresh
      <3>2. Begins(r, "refresh", o, a, t, None)
        BY <3>1, AskedEffect DEF RequestPoint
      <3> QED
        BY <2>2, <3>2 DEF AskFresh
    <2> QED
      BY <2>1, <2>2
  <1>2. SessionsKept /\ Settled /\ TrackedStays
    BY <1>0 DEF RegistryTypes, SessionsKept, Settled, TrackedStays, registry
  <1>3. OpenStays
    BY <1>0, <1>1 DEF OpenStays, Begins
  <1>4. SessionInv'
    BY <1>0, <1>1, <1>2, LockTaken DEF registry
  <1>5. t \in OwnSessions(o) => t \in Token
    BY DEF OwnSessions, Tracked
  <1>6. RequestsFit' /\ TunnelsAnswered'
    BY <1>1, <1>2, <1>5, RequestMoves
  <1>7. TunnelInv'
    BY <1>0, <1>2, <1>3, TunnelsStay DEF registry
  <1>8. RegistryTypes'
    BY <1>0, <1>1 DEF RegistryTypes, registry, Begins
  <1> QED
    BY <1>4, <1>6, <1>7, <1>8 DEF TunnelInv

\* The session that is in the way is gone.
LEMMA RefreshedStep ==
    ASSUME Core, TypeOK, NEW r \in Request, NEW ok \in BOOLEAN, Refreshed(r, ok)
    PROVE  Core'
  <1> USE DEF Core
  <1>f. PICK f \in BOOLEAN : f = FALSE
    BY Zenon
  <1>0. /\ req[r].at = "refresh" /\ req[r].token \in Token
        /\ req[r].owner \in Owner /\ req[r].agent \in Agent
    BY DEF Refreshed, RequestsFit, Holds
  <1>1. Revoked /\ Forgotten(req[r].token) /\ TunnelsForgotten(req[r].token)
    BY <1>0, RevokeEffect, ForgetEffect DEF Refreshed
  <1>2. Begins(r, "create", req[r].owner, req[r].agent, None, None)
    <2>1. Asked(r, "create", req[r].owner, req[r].agent, None, f)
      BY <1>f DEF Refreshed
    <2> QED
      BY <1>0, <2>1, AskedEffect DEF RequestPoint
  <1>3. OpenStays
    BY <1>0, <1>2 DEF OpenStays, Begins
  <1>4. SessionInv'
    BY <1>0, <1>1, <1>2, OldSessionGone
  <1>5. RequestsFit' /\ TunnelsAnswered'
    BY <1>0, <1>1, <1>2, ForgottenSettles, RequestMoves
  <1>6. TunnelInv'
    BY <1>0, <1>1, <1>3, TunnelsGo
  <1>7. RegistryTypes'
    BY <1>1, <1>2 DEF RegistryTypes, Revoked, Forgotten, TunnelsForgotten, Begins, Refreshed
  <1> QED
    BY <1>4, <1>5, <1>6, <1>7 DEF TunnelInv

\* The new session.
LEMMA CreatedStep ==
    ASSUME Core, NEW r \in Request, NEW t \in Token, Created(r, t)
    PROVE  Core'
  <1> USE DEF Core
  <1>0. /\ req[r].at = "create" /\ req[r].owner \in Owner /\ req[r].agent \in Agent
        /\ upstream[t].state = "unissued"
        /\ UNCHANGED <<tunnels, tunnelToken, httpToken, link>>
    BY NewIsFree DEF Created, RequestsFit, Holds
  <1>1. Made(t, req[r].agent, req[r].owner)
    BY <1>0, RegisteredEffect DEF Created
  <1>2. req[r].tunnel = None
    BY <1>0 DEF TunnelsAnswered
  <1>3. Begins(r, "open", req[r].owner, req[r].agent, t, None)
    <2>1. req[r] \in RequestRecord
      BY DEF RegistryTypes
    <2>2. PICK y : y = [req[r] EXCEPT !.at = "open", !.token = t]
      OBVIOUS
    <2>3. /\ y \in RequestRecord /\ y.at = "open" /\ y.token = t
          /\ y.owner = req[r].owner /\ y.agent = req[r].agent /\ y.tunnel = req[r].tunnel
      BY <2>1, <2>2 DEF RequestRecord, RequestPoint
    <2>4. req' = [req EXCEPT ![r] = y]
      BY <2>2 DEF Created
    <2> QED
      BY <1>2, <2>3, <2>4 DEF RegistryTypes, Begins
  <1>4. /\ upstream' = [upstream EXCEPT ![t] = [state |-> "live", agent |-> req[r].agent]]
        /\ agentTokens' = [agentTokens EXCEPT ![req[r].agent] = @ \cup {t}]
    BY DEF Created
  <1>5. SessionInv'
    BY <1>0, <1>1, <1>3, <1>4, NewSession
  <1>6. Settled /\ TrackedStays /\ OpenStays /\ upstream'[t].agent = req[r].agent
    BY <1>0, <1>1, <1>3, <1>4
       DEF Settled, RegistryTypes, SessionsFit, SessionInv, TrackedStays, Made, OpenStays, Begins
  <1>7. RequestsFit' /\ TunnelsAnswered'
    BY <1>0, <1>3, <1>6, RequestMoves
  <1>8. TunnelInv'
    BY <1>0, <1>6, TunnelsStay
  <1>9. RegistryTypes'
    BY <1>0, <1>1, <1>3, <1>4 DEF RegistryTypes, Made, Begins
  <1> QED
    BY <1>5, <1>7, <1>8, <1>9 DEF TunnelInv

\* A request ends.
LEMMA EndsStep ==
    ASSUME Core, NEW r \in Request, CreateFails(r) \/ Answered(r)
    PROVE  Core'
  <1> USE DEF Core
  <1>f. PICK f \in BOOLEAN : f = FALSE
    BY Zenon
  <1>0. /\ req[r].at # "open" /\ UNCHANGED <<upstream, registry, httpToken, link>>
    BY DEF CreateFails, Answered
  <1>1. Begins(r, "over", None, None, None, None)
    <2>1. req' = [req EXCEPT ![r] = [at |-> "over", owner |-> None, agent |-> None, token |-> None,
                                     tunnel |-> None, again |-> f]]
      BY <1>f DEF CreateFails, Answered, Idle
    <2> QED
      BY <2>1, BeginsEffect DEF RequestPoint
  <1>2. SessionsKept /\ Settled /\ TrackedStays /\ Revoked
    BY <1>0 DEF RegistryTypes, SessionsKept, Settled, TrackedStays, registry, Revoked
  <1>3. OpenStays /\ Proceeds
    BY <1>0, <1>1 DEF OpenStays, Begins, Proceeds, Holds
  <1>4. SessionInv'
    BY <1>0, <1>2, <1>3, KeptSessions DEF registry
  <1>5. RequestsFit' /\ TunnelsAnswered'
    BY <1>1, <1>2, RequestMoves
  <1>6. TunnelInv'
    BY <1>0, <1>2, <1>3, TunnelsStay DEF registry
  <1>7. RegistryTypes'
    BY <1>0, <1>1 DEF RegistryTypes, registry, Begins
  <1> QED
    BY <1>4, <1>5, <1>6, <1>7 DEF TunnelInv

\* The request's tunnel is not bound yet.
LEMMA OpenHasNoTunnel ==
    ASSUME Core, NEW r \in Request, req[r].at = "open"
    PROVE  /\ req[r].tunnel = None /\ req[r].token \in Token
           /\ req[r].owner \in Owner /\ req[r].agent \in Agent
           /\ upstream[req[r].token].agent = req[r].agent
  BY DEF Core, TunnelsAnswered, RequestsFit, Holds

\* A tunnel that can be handed out is one of the token.
LEMMA ReusableFits ==
    ASSUME Core, NEW t \in Token, NEW u \in Reusable(t)
    PROVE  u \in Tunnel /\ link[u].token = t /\ link[u].at = "up"
  BY DEF Core, Reusable, RegistryTypes, TunnelsFit

LEMMA OpenFailsStep ==
    ASSUME Core, NEW r \in Request, OpenFails(r)
    PROVE  Core'
  <1> USE DEF Core
  <1>f. PICK f \in BOOLEAN : f = FALSE
    BY Zenon
  <1>0. /\ req[r].at = "open" /\ UNCHANGED <<upstream, registry, httpToken, link>>
        /\ \A v \in Tunnel : link[v].by = r => ~Binding(v)
    BY DEF OpenFails, Binding
  <1>1. PICK at \in {"open", "answer"}, u \in Tunnel \cup {None} :
           /\ Begins(r, at, req[r].owner, req[r].agent, req[r].token, u)
           /\ u # None => at = "answer" /\ link[u].token = req[r].token /\ link[u].at = "up"
    <2>1. req[r] \in RequestRecord
      BY DEF RegistryTypes
    <2>2. CASE req' = [req EXCEPT ![r].at = "answer"]
      <3>1. PICK y : y = [req[r] EXCEPT !.at = "answer"]
        OBVIOUS
      <3>2. /\ y \in RequestRecord /\ y.at = "answer" /\ y.token = req[r].token
            /\ y.owner = req[r].owner /\ y.agent = req[r].agent /\ y.tunnel = req[r].tunnel
        BY <2>1, <3>1 DEF RequestRecord, RequestPoint
      <3>3. req' = [req EXCEPT ![r] = y]
        BY <2>2, <3>1
      <3>4. Begins(r, "answer", req[r].owner, req[r].agent, req[r].token, None)
        BY <1>0, <3>2, <3>3, OpenHasNoTunnel DEF RegistryTypes, Begins
      <3> QED
        BY <3>4
    <2>3. CASE req' = [req EXCEPT ![r].again = FALSE]
      <3>1. PICK y : y = [req[r] EXCEPT !.again = f]
        OBVIOUS
      <3>2. /\ y \in RequestRecord /\ y.at = "open" /\ y.token = req[r].token
            /\ y.owner = req[r].owner /\ y.agent = req[r].agent /\ y.tunnel = req[r].tunnel
        BY <1>0, <2>1, <3>1 DEF RequestRecord, RequestPoint
      <3>3. req' = [req EXCEPT ![r] = y]
        BY <1>f, <2>3, <3>1
      <3>4. Begins(r, "open", req[r].owner, req[r].agent, req[r].token, None)
        BY <1>0, <3>2, <3>3, OpenHasNoTunnel DEF RegistryTypes, Begins
      <3> QED
        BY <3>4
    <2>4. ASSUME NEW u \in Reusable(req[r].token),
                 req' = [req EXCEPT ![r].at = "answer", ![r].tunnel = u, ![r].again = FALSE]
          PROVE  /\ u \in Tunnel /\ link[u].token = req[r].token /\ link[u].at = "up"
                 /\ Begins(r, "answer", req[r].owner, req[r].agent, req[r].token, u)
      <3>0. u \in Tunnel /\ link[u].token = req[r].token /\ link[u].at = "up"
        BY <1>0, OpenHasNoTunnel, ReusableFits
      <3>1. PICK y : y = [req[r] EXCEPT !.at = "answer", !.tunnel = u, !.again = f]
        OBVIOUS
      <3>2. /\ y \in RequestRecord /\ y.at = "answer" /\ y.token = req[r].token
            /\ y.owner = req[r].owner /\ y.agent = req[r].agent /\ y.tunnel = u
        BY <2>1, <3>0, <3>1 DEF RequestRecord, RequestPoint
      <3>3. req' = [req EXCEPT ![r] = y]
        BY <1>f, <2>4, <3>1
      <3>4. Begins(r, "answer", req[r].owner, req[r].agent, req[r].token, u)
        BY <3>2, <3>3 DEF RegistryTypes, Begins
      <3> QED
        BY <3>0, <3>4
    <2> QED
      BY <2>2, <2>3, <2>4 DEF OpenFails
  <1>2. SessionsKept /\ Settled /\ TrackedStays /\ Revoked
    BY <1>0 DEF RegistryTypes, SessionsKept, Settled, TrackedStays, registry, Revoked
  <1>3. OpenStays /\ Proceeds
    BY <1>0, <1>1 DEF OpenStays, Begins, Proceeds, Holds
  <1>4. SessionInv'
    BY <1>0, <1>2, <1>3, KeptSessions DEF registry
  <1>5. RequestsFit' /\ TunnelsAnswered'
    BY <1>0, <1>1, <1>2, OpenHasNoTunnel, RequestMoves
  <1>6. TunnelInv'
    BY <1>0, <1>2, <1>3, TunnelsStay DEF registry
  <1>7. RegistryTypes'
    BY <1>0, <1>1 DEF RegistryTypes, registry, Begins
  <1> QED
    BY <1>4, <1>5, <1>6, <1>7 DEF TunnelInv

\* A session is reclaimed, with a tunnel it has, or to have one opened; all it has
\* are released first if a new one was asked for.
LEMMA ReuseStep ==
    ASSUME Core, TypeOK, NEW r \in Request, NEW o \in Owner, NEW a \in Agent, NEW t \in Token,
           NEW b \in BOOLEAN, AskReuse(r, o, a, t, b)
    PROVE  Core'
  <1> USE DEF Core
  <1>f. PICK f \in BOOLEAN : f = FALSE
    BY Zenon
  <1>g. PICK g \in BOOLEAN : g = TRUE
    BY Zenon
  <1>0. /\ req[r].at = "none" /\ ~Locked(o) /\ sess[t] # None /\ sess[t].agent = a
        /\ UNCHANGED <<upstream, agentTokens, link>>
    BY NewIsFree DEF AskReuse, MustRefresh, OwnSessions, Tracked
  <1>1. SessionsKept
    BY TouchEffect DEF AskReuse, MarkActivity
  <1>2. upstream[t].agent = a
    BY <1>0, NoneAssumption DEF SessionInv, SessionsFit
  <1>3. Settled /\ TrackedStays
    BY <1>0, <1>1 DEF Settled, TrackedStays, SessionsKept
  <1>4. PICK at \in {"open", "answer"}, u \in Tunnel \cup {None} :
           /\ Begins(r, at, o, a, t, u)
           /\ u # None => at = "answer" /\ link[u].token = t /\ link[u].at = "up"
           /\ httpToken' \subseteq httpToken
           /\ \/ UNCHANGED <<tunnels, tunnelToken>>
              \/ /\ tunnels' = [tunnels EXCEPT ![t] = {}]
                 /\ tunnelToken' = Released(tunnels[t])
    <2>1. CASE /\ tunnels' = [tunnels EXCEPT ![t] = {}]
               /\ tunnelToken' = Released(tunnels[t])
               /\ httpToken' = httpToken \ tunnels[t]
               /\ Asked(r, "open", o, a, t, g)
      <3>1. Begins(r, "open", o, a, t, None)
        BY <2>1, AskedEffect DEF RequestPoint
      <3> QED
        BY <2>1, <3>1
    <2>2. CASE Asked(r, "open", o, a, t, f) /\ UNCHANGED <<tunnels, tunnelToken, httpToken>>
      <3>1. Begins(r, "open", o, a, t, None)
        BY <2>2, AskedEffect DEF RequestPoint
      <3> QED
        BY <2>2, <3>1
    <2>3. ASSUME NEW u \in Reusable(t), UNCHANGED <<tunnels, tunnelToken, httpToken>>,
                 req' = [req EXCEPT ![r] = [at |-> "answer", owner |-> o, agent |-> a,
                                            token |-> t, tunnel |-> u, again |-> f]]
          PROVE  /\ u \in Tunnel /\ link[u].token = t /\ link[u].at = "up"
                 /\ Begins(r, "answer", o, a, t, u)
      BY <2>3, ReusableFits, BeginsEffect DEF RequestPoint
    <2> QED
      BY <1>f, <1>g, <2>1, <2>2, <2>3 DEF AskReuse
  <1>5. SessionInv'
    BY <1>0, <1>1, <1>4, LockTaken
  <1>6. RequestsFit' /\ TunnelsAnswered'
    BY <1>0, <1>2, <1>3, <1>4, RequestMoves
  <1>7. OpenStays
    BY <1>0, <1>4 DEF OpenStays, Begins
  <1>8. TunnelInv' /\ tunnels' \in [Token -> SUBSET Tunnel]
        /\ tunnelToken' \in [Tunnel -> Token \cup {None}]
    <2>1. CASE UNCHANGED <<tunnels, tunnelToken>>
      BY <1>0, <1>3, <1>7, <2>1, TunnelsStay DEF RegistryTypes
    <2>2. CASE tunnels' = [tunnels EXCEPT ![t] = {}] /\ tunnelToken' = Released(tunnels[t])
      <3>1. /\ tunnels' \in [Token -> SUBSET Tunnel] /\ tunnels'[t] = {}
            /\ \A x \in Token : x # t => tunnels'[x] = tunnels[x]
            /\ tunnelToken' \in [Tunnel -> Token \cup {None}]
            /\ \A u1 \in Tunnel : tunnelToken'[u1] = tunnelToken[u1] \/ u1 \in tunnels[t]
        BY <2>2 DEF RegistryTypes, Released
      <3>2. ASSUME NEW u1 \in Tunnel, Binding(u1), link[u1].by # None
            PROVE  req'[link[u1].by].at = "open" /\ req'[link[u1].by].token = link[u1].token
        <4>1. link[u1].by \in Request
          BY <3>2 DEF RegistryTypes, LinkRecord
        <4> QED
          BY <1>7, <3>2, <4>1 DEF OpenStays, TunnelsFit
      <3>3. ASSUME NEW x \in Token, NEW u1 \in tunnels'[x]
            PROVE  /\ link[u1].at = "up" /\ link[u1].token = x /\ sess'[x] # None
                   /\ tunnelToken'[u1] = x
        <4>1. x # t /\ u1 \in tunnels[x] /\ u1 \in Tunnel
          BY <3>1 DEF RegistryTypes
        <4>2. link[u1].at = "up" /\ link[u1].token = x /\ sess[x] # None /\ tunnelToken[u1] = x
          BY <4>1 DEF TunnelsFit, SessionTunnelsIndexed, Tracked
        <4>3. u1 \notin tunnels[t]
          BY <4>1, <4>2 DEF TunnelsFit
        <4> QED
          BY <1>3, <3>1, <4>1, <4>2, <4>3 DEF TrackedStays
      <3>4. TunnelsFit'
        BY <1>0, <1>3, <3>2, <3>3 DEF TunnelsFit, Binding, TrackedStays
      <3>5. SessionTunnelsIndexed'
        BY <3>3 DEF SessionTunnelsIndexed, Tracked
      <3> QED
        BY <3>1, <3>4, <3>5 DEF TunnelInv
    <2> QED
      BY <1>4, <2>1, <2>2
  <1>9. RegistryTypes'
    BY <1>0, <1>1, <1>4, <1>8 DEF RegistryTypes, SessionsKept, Begins
  <1> QED
    BY <1>5, <1>6, <1>8, <1>9 DEF TunnelInv

\* A thread has a tunnel and looks the session up.
LEMMA LookUpStep ==
    ASSUME Core, NEW u \in Tunnel, NEW t \in Token, NEW r \in Request \cup {None},
           link[u].at \in {"none", "connect"}, LookUp(u, t, r),
           r # None => /\ req[r].at = "open" /\ req[r].token = t
                       /\ \A v \in Tunnel : link[v].by = r => ~Binding(v)
    PROVE  Core'
  <1> USE DEF Core
  <1>0. /\ upstream[t].state # "unissued"
        /\ UNCHANGED <<upstream, agentTokens, tunnels, tunnelToken, req>>
    BY DEF LookUp
  <1>1. LinkMoves(u, t, r, "bind")
    BY LinkEffect DEF LookUp
  <1>2. Settled
    BY <1>0, <1>1 DEF Settled, LinkMoves
  <1>3. /\ SessionInv' /\ TrackedStays /\ sess'[t] # None
        /\ sess' \in [Token -> Session \cup {None}]
    <2>1. CASE sess[t] # None
      <3>1. UNCHANGED sess
        BY <2>1 DEF LookUp, Tracked
      <3>2. SessionsKept /\ Revoked
        BY <1>0, <3>1 DEF SessionsKept, RegistryTypes, Revoked
      <3> QED
        BY <1>0, <2>1, <3>1, <3>2, KeptSessions, SameRequests DEF TrackedStays, RegistryTypes
    <2>2. CASE sess[t] = None
      <3>1. Made(t, None, None)
        BY <2>2, RegisteredEffect DEF LookUp, Tracked
      <3> QED
        BY <1>0, <2>2, <3>1, RevivedSession DEF TrackedStays, Made
    <2> QED
      BY <2>1, <2>2
  <1>4. RequestsFit' /\ TunnelsAnswered'
    BY <1>0, <1>2, RequestsStay
  <1>5. TunnelInv'
    BY <1>0, <1>1, <1>3, TunnelConnects
  <1>6. RegistryTypes'
    BY <1>0, <1>1, <1>3 DEF RegistryTypes, LinkMoves, LookUp
  <1> QED
    BY <1>3, <1>4, <1>5, <1>6 DEF TunnelInv

\* The browser's own connect.
LEMMA BrowserStep ==
    ASSUME Core, TypeOK, NEW u \in Tunnel,
           \/ \E t \in Token : BrowserConnects(u, t)
           \/ BrowserRefused(u)
    PROVE  Core'
  <1> USE DEF Core
  <1>1. PICK t \in Token \cup {None}, at \in {"none", "connect"} :
           /\ link[u].at \in {"none", "connect"}
           /\ LinkMoves(u, t, None, at) /\ (at = "connect" => t \in Token)
           /\ SessionsKept
           /\ UNCHANGED <<upstream, agentTokens, tunnels, tunnelToken, httpToken, req>>
    <2>1. ASSUME NEW t \in Token, BrowserConnects(u, t)
          PROVE  /\ link[u].at = "none" /\ LinkMoves(u, t, None, "connect") /\ SessionsKept
                 /\ UNCHANGED <<upstream, agentTokens, tunnels, tunnelToken, httpToken, req>>
      BY <2>1, NewIsFree, LinkEffect, TouchEffect DEF BrowserConnects, MarkActivity
    <2>2. CASE BrowserRefused(u)
      <3>1. /\ link[u].at = "connect" /\ LinkMoves(u, None, None, "none") /\ SessionsKept
            /\ UNCHANGED <<upstream, agentTokens, tunnels, tunnelToken, httpToken, req>>
        BY <2>2, LinkEffect, SameSessions DEF BrowserRefused, registry
      <3> QED
        BY <3>1
    <2> QED
      BY <2>1, <2>2
  <1>2. Settled /\ TrackedStays /\ Revoked
    BY <1>1 DEF Settled, LinkMoves, TrackedStays, SessionsKept, Revoked, RegistryTypes
  <1>3. SessionInv'
    BY <1>1, <1>2, KeptSessions, SameRequests
  <1>4. RequestsFit' /\ TunnelsAnswered'
    BY <1>1, <1>2, RequestsStay
  <1>5. TunnelInv'
    BY <1>1, <1>2, TunnelConnects
  <1>6. RegistryTypes'
    BY <1>1 DEF RegistryTypes, LinkMoves, SessionsKept
  <1> QED
    BY <1>3, <1>4, <1>5, <1>6 DEF TunnelInv

\* A thread has bound its tunnel, to the session it looked up or to nothing.
LEMMA BoundStep ==
    ASSUME Core, TypeOK, NEW u \in Tunnel, Bound(u)
    PROVE  Core'
  <1> USE DEF Core
  <1>f. PICK f \in BOOLEAN : f = FALSE
    BY Zenon
  <1>a. PICK t : t = link[u].token
    OBVIOUS
  <1>b. PICK r : r = link[u].by
    OBVIOUS
  <1>0. /\ Binding(u) /\ t \in Token /\ r \in Request \cup {None}
        /\ link[u] \in LinkRecord
        /\ r # None => req[r].at = "open" /\ req[r].token = t
        /\ UNCHANGED <<upstream, agentTokens, httpToken>>
    BY <1>a, <1>b DEF Bound, Binding, TunnelsFit, RegistryTypes, LinkRecord
  <1>1. LinkMoves(u, t, r, "up")
    <2>1. link' = [link EXCEPT ![u] = [link[u] EXCEPT !.at = "up"]]
      BY DEF Bound
    <2> QED
      BY <1>0, <1>a, <1>b, <2>1 DEF LinkMoves, LinkRecord, RegistryTypes
  <1>2. /\ tunnelToken' = [tunnelToken EXCEPT ![u] = t]
        /\ \/ tunnels' = [tunnels EXCEPT ![t] = @ \cup {u}] /\ link[u].at = "bind"
           \/ UNCHANGED tunnels
        /\ sess' = TouchedSession(t) \/ UNCHANGED sess
    BY <1>a DEF Bound, Touch
  <1>3. SessionsKept
    BY <1>0, <1>2, TouchEffect, SameSessions
  <1>4. Settled /\ TrackedStays /\ Revoked
    BY <1>0, <1>1, <1>3
       DEF Settled, LinkMoves, TrackedStays, SessionsKept, Revoked, RegistryTypes, Binding
  <1>5. \/ r = None /\ UNCHANGED req
        \/ /\ r # None
           /\ Begins(r, "answer", req[r].owner, req[r].agent, t, u)
    <2>1. CASE r = None
      BY <1>b, <2>1 DEF Bound
    <2>2. CASE r # None
      <3>0. req[r] \in RequestRecord
        BY <1>0, <2>2 DEF RegistryTypes
      <3>1. PICK y : y = [req[r] EXCEPT !.at = "answer", !.tunnel = u, !.again = f]
        OBVIOUS
      <3>2. /\ y \in RequestRecord /\ y.at = "answer" /\ y.token = req[r].token
            /\ y.owner = req[r].owner /\ y.agent = req[r].agent /\ y.tunnel = u
        BY <3>0, <3>1 DEF RequestRecord, RequestPoint
      <3>3. req' = [req EXCEPT ![r] = y]
        BY <1>b, <1>f, <2>2, <3>1 DEF Bound
      <3> QED
        BY <1>0, <2>2, <3>2, <3>3 DEF RegistryTypes, Begins
    <2> QED
      BY <2>1, <2>2
  <1>6. Proceeds
    <2>1. CASE UNCHANGED req
      BY <2>1, SameRequests
    <2>2. CASE r # None /\ Begins(r, "answer", req[r].owner, req[r].agent, t, u)
      BY <1>0, <2>2 DEF Proceeds, Holds, Begins
    <2> QED
      BY <1>5, <2>1, <2>2
  <1>7. SessionInv'
    BY <1>0, <1>3, <1>4, <1>6, KeptSessions
  <1>8. RequestsFit' /\ TunnelsAnswered'
    <2>1. CASE UNCHANGED req
      BY <1>4, <2>1, RequestsStay
    <2>2. CASE r # None /\ Begins(r, "answer", req[r].owner, req[r].agent, t, u)
      <3>1. /\ r \in Request /\ req[r].owner \in Owner /\ req[r].agent \in Agent
            /\ upstream'[t].agent = req[r].agent
        BY <1>0, <2>2, OpenHasNoTunnel
      <3>2. link'[u].token = t /\ link'[u].at \in {"up", "gone"}
        BY <1>1 DEF LinkMoves
      <3> QED
        BY <1>0, <1>4, <2>2, <3>1, <3>2, RequestMoves
    <2> QED
      BY <1>5, <2>1, <2>2
  <1>9. ASSUME NEW v \in Tunnel, Binding(v)'
        PROVE  /\ v # u /\ link'[v] = link[v] /\ Binding(v)
               /\ link[v].by # None =>
                     req'[link[v].by].at = "open" /\ req'[link[v].by].token = link[v].token
    <2>1. v # u /\ link'[v] = link[v] /\ Binding(v)
      BY <1>1, <1>9 DEF LinkMoves, Binding
    <2>2. ASSUME link[v].by # None
          PROVE  req'[link[v].by].at = "open" /\ req'[link[v].by].token = link[v].token
      <3>1. link[v].by \in Request /\ link[v].by # r
        BY <1>0, <1>b, <2>1, <2>2 DEF TunnelsFit, RegistryTypes, LinkRecord
      <3>2. req'[link[v].by] = req[link[v].by]
        BY <1>5, <3>1 DEF Begins
      <3> QED
        BY <2>1, <2>2, <3>2 DEF TunnelsFit
    <2> QED
      BY <2>1, <2>2
  <1>10. /\ tunnels' \in [Token -> SUBSET Tunnel] /\ tunnelToken' \in [Tunnel -> Token \cup {None}]
         /\ tunnelToken'[u] = t /\ \A v \in Tunnel : v # u => tunnelToken'[v] = tunnelToken[v]
         /\ \A x \in Token : \A v \in tunnels'[x] :
               v \in tunnels[x] \/ (v = u /\ x = t /\ link[u].at = "bind")
    BY <1>0, <1>2 DEF RegistryTypes
  <1>11. ASSUME NEW x \in Token, NEW v \in tunnels'[x]
         PROVE  link'[v].at = "up" /\ link'[v].token = x /\ sess'[x] # None /\ tunnelToken'[v] = x
    <2>1. CASE v = u /\ x = t /\ link[u].at = "bind"
      BY <1>1, <1>4, <1>10, <1>a, <1>0, <2>1 DEF LinkMoves, TunnelsFit, TrackedStays
    <2>2. CASE v \in tunnels[x]
      <3>1. v \in Tunnel /\ v # u
        BY <1>0, <2>2, NotListed DEF RegistryTypes, Binding
      <3> QED
        BY <1>1, <1>4, <1>10, <2>2, <3>1
           DEF LinkMoves, TunnelsFit, SessionTunnelsIndexed, Tracked, TrackedStays
    <2> QED
      BY <1>10, <2>1, <2>2
  <1>12. ASSUME NEW v \in Tunnel
         PROVE  /\ link'[v].at \in {"connect", "bind", "stale"} => link'[v].token \in Token
                /\ link'[v].at = "bind" => sess'[link'[v].token] # None
    <2>1. CASE v = u
      BY <1>1, <2>1 DEF LinkMoves
    <2>2. CASE v # u
      BY <1>1, <1>4, <2>2 DEF LinkMoves, TunnelsFit, TrackedStays
    <2> QED
      BY <2>1, <2>2
  <1>13. TunnelsFit'
    BY <1>9, <1>11, <1>12 DEF TunnelsFit
  <1>14. SessionTunnelsIndexed'
    BY <1>11 DEF SessionTunnelsIndexed, Tracked
  <1>15. req' \in [Request -> RequestRecord]
    BY <1>5 DEF Begins, RegistryTypes
  <1>16. RegistryTypes'
    BY <1>0, <1>1, <1>3, <1>10, <1>15 DEF RegistryTypes, LinkMoves, SessionsKept
  <1> QED
    BY <1>7, <1>8, <1>13, <1>14, <1>16

\* Guacamole has closed a tunnel: it is released.
LEMMA GoneStep ==
    ASSUME Core, NEW u \in Tunnel, TunnelGone(u)
    PROVE  Core'
  <1> USE DEF Core
  <1>0. /\ link[u].at = "up" /\ link[u] \in LinkRecord
        /\ UNCHANGED <<upstream, sess, agentTokens, req>>
    BY DEF TunnelGone, RegistryTypes
  <1>1. LinkMoves(u, link[u].token, link[u].by, "gone")
    <2>1. link' = [link EXCEPT ![u] = [link[u] EXCEPT !.at = "gone"]]
      BY DEF TunnelGone
    <2> QED
      BY <1>0, <2>1 DEF LinkMoves, LinkRecord, RegistryTypes
  <1>2. /\ tunnelToken' \in [Tunnel -> Token \cup {None}] /\ httpToken' \in SUBSET Tunnel
        /\ \A v \in Tunnel : v # u => tunnelToken'[v] = tunnelToken[v]
    BY DEF TunnelGone, Released, RegistryTypes
  <1>3. /\ tunnels' \in [Token -> SUBSET Tunnel]
        /\ \A x \in Token : \A v \in tunnels'[x] : v \in tunnels[x] /\ v # u
    <2>1. tunnelToken[u] \in Token \cup {None}
      BY DEF RegistryTypes
    <2>2. \A x \in Token : u \in tunnels[x] => x = tunnelToken[u]
      BY DEF SessionTunnelsIndexed
    <2>3. CASE tunnelToken[u] = None
      BY <2>2, <2>3, NoneAssumption DEF TunnelGone, RegistryTypes
    <2>4. CASE tunnelToken[u] # None
      BY <2>1, <2>2, <2>4 DEF TunnelGone, RegistryTypes
    <2> QED
      BY <2>3, <2>4
  <1>4. SessionsKept /\ Revoked /\ TrackedStays /\ Settled
    BY <1>0, <1>1 DEF SessionsKept, Revoked, TrackedStays, Settled, RegistryTypes, LinkMoves
  <1>5. SessionInv'
    BY <1>0, <1>4, KeptSessions, SameRequests
  <1>6. RequestsFit' /\ TunnelsAnswered'
    BY <1>0, <1>4, RequestsStay
  <1>7. ASSUME NEW x \in Token, NEW v \in tunnels'[x]
        PROVE  link'[v].at = "up" /\ link'[v].token = x /\ sess'[x] # None /\ tunnelToken'[v] = x
    <2>1. v \in tunnels[x] /\ v # u /\ v \in Tunnel
      BY <1>3 DEF RegistryTypes
    <2> QED
      BY <1>0, <1>1, <1>2, <2>1 DEF LinkMoves, TunnelsFit, SessionTunnelsIndexed, Tracked
  <1>8. \A v \in Tunnel : link'[v] = link[v] \/ (v = u /\ link'[v].at = "gone")
    BY <1>1 DEF LinkMoves
  <1>9. TunnelsFit'
    BY <1>0, <1>7, <1>8 DEF TunnelsFit, Binding
  <1>10. SessionTunnelsIndexed'
    BY <1>7 DEF SessionTunnelsIndexed, Tracked
  <1>11. RegistryTypes'
    BY <1>0, <1>1, <1>2, <1>3 DEF RegistryTypes, LinkMoves
  <1> QED
    BY <1>5, <1>6, <1>9, <1>10, <1>11

\* Every step keeps what is said of the registry.
LEMMA CoreStep == ASSUME IInv, [Next]_vars PROVE Core'
  <1>i. Core /\ TypeOK
    BY DEF IInv, Core, RegistryTypes, TypeOK, LinkRecord, RequestRecord
  <1>k. ASSUME SessionsKept, UNCHANGED <<upstream, agentTokens, tunnels, tunnelToken, httpToken, link, req>>
        PROVE  Core'
    BY <1>i, <1>k, CalmStep, SameUpstream DEF Core
  <1>u. ASSUME UNCHANGED <<upstream, registry, httpToken, link, req>> PROVE Core'
    BY <1>i, <1>u, <1>k, SameSessions DEF registry
  <1>t. ASSUME NEW t \in Token, sess' = TouchedSession(t),
               UNCHANGED <<upstream, agentTokens, tunnels, tunnelToken, httpToken, link, req>>
        PROVE  Core'
    BY <1>i, <1>t, <1>k, TouchEffect
  <1>r. ASSUME NEW t \in Token, NEW ok \in BOOLEAN, Revoke(t, ok), Forget(t), UNCHANGED <<httpToken, req>>
        PROVE  Core'
    BY <1>i, <1>r, RevokeEffect, ForgetEffect, ForgetStep
  <1>q. ASSUME NEW t \in Token, NEW ok \in BOOLEAN, Revoke(t, ok),
               UNCHANGED <<registry, httpToken, link, req>>
        PROVE  Core'
    BY <1>i, <1>q, RevokeEffect, SameSessions, CalmStep DEF registry
  <1>1. ASSUME NEW r \in Request, NEW o \in Owner, NEW a \in Agent, AskNew(r, o, a) PROVE Core'
    BY <1>i, <1>1, AskStep
  <1>2. ASSUME NEW r \in Request, NEW o \in Owner, NEW a \in Agent, NEW t \in Token,
               NEW b \in BOOLEAN, AskFresh(r, o, a, t, b) \/ AskReuse(r, o, a, t, b)
        PROVE  Core'
    BY <1>i, <1>2, AskStep, ReuseStep
  <1>3. ASSUME NEW r \in Request, RequestStep(r) PROVE Core'
    <2>1. ASSUME NEW u \in Tunnel, Opened(r, u) PROVE Core'
      <3>1. /\ link[u].at = "none" /\ req[r].at = "open" /\ LookUp(u, req[r].token, r)
            /\ \A v \in Tunnel : link[v].by = r => ~Binding(v)
        BY <2>1, NewIsFree DEF Opened, Binding
      <3>2. req[r].token \in Token
        BY <1>i, <3>1, OpenHasNoTunnel
      <3> QED
        BY <1>i, <3>1, <3>2, LookUpStep
    <2> QED
      BY <1>i, <1>3, <2>1, RefreshedStep, CreatedStep, EndsStep, OpenFailsStep DEF RequestStep
  <1>4. ASSUME NEW u \in Tunnel, ThreadStep(u) \/ TunnelTraffic(u) \/ TunnelGone(u)
        PROVE  Core'
    <2>1. CASE BrowserConnected(u)
      <3>1. link[u].at = "connect" /\ link[u].token \in Token
        BY <1>i, <2>1 DEF BrowserConnected, Core, TunnelsFit
      <3> QED
        BY <1>i, <2>1, <3>1, LookUpStep DEF BrowserConnected
    <2>2. CASE TunnelTraffic(u)
      <3>1. tunnelToken[u] \in Token
        BY <1>i, <2>2 DEF TunnelTraffic, TypeOK
      <3> QED
        BY <1>t, <2>2, <3>1 DEF TunnelTraffic, Touch
    <2> QED
      BY <1>i, <1>4, <2>1, <2>2, BrowserStep, BoundStep, GoneStep DEF ThreadStep
  <1>5. ASSUME NEW u \in Tunnel, NEW t \in Token, BrowserConnects(u, t) PROVE Core'
    BY <1>i, <1>5, BrowserStep
  <1>6. ASSUME NEW w \in Socket, TouchWebsocket(w) PROVE Core'
    <2>1. sockets[w] \in Token
      BY <1>i, <1>6 DEF TouchWebsocket, TypeOK
    <2> QED
      BY <1>t, <1>6, <2>1 DEF TouchWebsocket, MarkActivity
  <1>7. ASSUME NEW w \in Socket, NEW t \in Token, RegisterWebsocket(w, t) PROVE Core'
    BY <1>t, <1>7 DEF RegisterWebsocket, MarkActivity
  <1>8. ASSUME NEW w \in Socket, UnregisterWebsocket(w) PROVE Core'
    BY <1>8, <1>u DEF UnregisterWebsocket
  <1>9. ASSUME NEW c \in Close, CloseStep(c) PROVE Core'
    <2>1. ASSUME NEW ok \in BOOLEAN, CloseRevoked(c, ok) PROVE Core'
      <3>1. close[c].token \in Token
        BY <2>1 DEF CloseRevoked, IInv, ClosesFit
      <3> QED
        BY <1>r, <2>1, <3>1 DEF CloseRevoked
    <2> QED
      BY <1>9, <1>u, <2>1 DEF CloseStep, CloseStarts, CloseSkips, CloseGoesOn, CloseCancelled
  <1>10. ASSUME NEW c \in Close, NEW t \in Token, ScheduleClose(c, t) PROVE Core'
    BY <1>10, <1>u DEF ScheduleClose
  <1>11. ASSUME NEW t \in Token, GoIdle(t) PROVE Core'
    <2>1. PICK b \in BOOLEAN : b = TRUE
      BY Zenon
    <2>2. t \in Tracked /\ sess' = [sess EXCEPT ![t].idle = b]
      BY <1>11, <2>1 DEF GoIdle
    <2>3. SessionsKept
      BY <1>i, <2>2, IdleEffect
    <2> QED
      BY <1>k, <1>11, <2>3 DEF GoIdle
  <1>12. ASSUME NEW t \in Token, NEW ok \in BOOLEAN, OrphanRevokes(t, ok) PROVE Core'
    BY <1>12, <1>q DEF OrphanRevokes
  <1>13. CASE SweepStep
    <2>1. ASSUME NEW ok \in BOOLEAN, SweepRevoked(ok) PROVE Core'
      <3>1. sweep.at \in Token
        BY <1>i, <2>1 DEF SweepRevoked, TypeOK, Closing
      <3> QED
        BY <1>r, <2>1, <3>1 DEF SweepRevoked
    <2> QED
      BY <1>13, <1>u, <2>1 DEF SweepStep, SweepStarts
  <1>14. CASE \/ KillAll \/ \E a \in Agent, o \in Owner : Kick(a, o)
              \/ \E t \in Token : RevokeSession(t)
    BY <1>14, <1>u DEF KillAll, Kick, RevokeSession, AdminStarts
  <1>15. CASE AdminStep
    <2>1. PICK ok \in BOOLEAN : AdminRevoked(ok)
      BY <1>15 DEF AdminStep
    <2>2. admin.at \in Token
      BY <1>i, <2>1 DEF AdminRevoked, TypeOK
    <2> QED
      BY <1>q, <1>r, <2>1, <2>2 DEF AdminRevoked
  <1>16. CASE UNCHANGED vars
    BY <1>16, <1>u DEF vars
  <1> QED
    BY <1>1, <1>2, <1>3, <1>4, <1>5, <1>6, <1>7, <1>8, <1>9, <1>10, <1>11, <1>12, <1>13,
       <1>14, <1>15, <1>16 DEF Next

\* Every step keeps the sockets and the tokens still to be closed.
LEMMA ClosersStep ==
    ASSUME IInv, [Next]_vars
    PROVE  /\ sockets' \in [Socket -> Token \cup {None}] /\ sweep' \in Closing
           /\ admin' \in [left : SUBSET Token, at : Token \cup {None}, revoke : BOOLEAN]
  <1> DEFINE AdminType == [left : SUBSET Token, at : Token \cup {None}, revoke : BOOLEAN]
  <1> DEFINE G == sockets' \in [Socket -> Token \cup {None}] /\ sweep' \in Closing
                  /\ admin' \in AdminType
  <1>i. /\ TypeOK /\ ClosesInv
        /\ sockets \in [Socket -> Token \cup {None}] /\ sweep \in Closing /\ admin \in AdminType
    BY DEF IInv, TypeOK, ClosesInv, CloseRecord
  <1>u. ASSUME UNCHANGED <<sockets, sweep, admin>> PROVE G
    BY <1>i, <1>u
  <1>f. ASSUME NEW t \in Token, Forget(t) PROVE sockets' \in [Socket -> Token \cup {None}]
    BY <1>i, <1>f, ForgetEffect
  <1>1. ASSUME NEW r \in Request, RequestStep(r) PROVE G
    <2>1. ASSUME NEW ok \in BOOLEAN, Refreshed(r, ok) PROVE G
      <3>1. req[r].token \in Token
        BY <2>1 DEF Refreshed, IInv, RequestsFit
      <3> QED
        BY <1>i, <1>f, <2>1, <3>1 DEF Refreshed
    <2> QED
      BY <1>1, <1>u, <2>1
         DEF RequestStep, Created, CreateFails, Opened, LookUp, OpenFails, Answered
  <1>2. ASSUME NEW w \in Socket, UnregisterWebsocket(w) \/ \E t \in Token : RegisterWebsocket(w, t)
        PROVE  G
    BY <1>i, <1>2 DEF UnregisterWebsocket, RegisterWebsocket
  <1>3. ASSUME NEW c \in Close, CloseStep(c) PROVE G
    <2>1. ASSUME NEW ok \in BOOLEAN, CloseRevoked(c, ok) PROVE G
      <3>1. close[c].token \in Token
        BY <2>1 DEF CloseRevoked, IInv, ClosesFit
      <3> QED
        BY <1>i, <1>f, <2>1, <3>1 DEF CloseRevoked
    <2> QED
      BY <1>3, <1>u, <2>1 DEF CloseStep, CloseStarts, CloseSkips, CloseGoesOn, CloseCancelled
  <1>4. CASE SweepStep
    <2>1. ASSUME SweepStarts PROVE G
      <3>1. IdleTokens \in SUBSET Token
        BY DEF IdleTokens, Tracked
      <3> QED
        BY <1>i, <2>1, <3>1, TakenType DEF SweepStarts
    <2>2. ASSUME NEW ok \in BOOLEAN, SweepRevoked(ok) PROVE G
      <3>1. sweep.at \in Token /\ sweep.left \in SUBSET Token
        BY <1>i, <2>2 DEF SweepRevoked, Closing
      <3> QED
        BY <1>i, <1>f, <2>2, <3>1, TakenType DEF SweepRevoked
    <2> QED
      BY <1>4, <2>1, <2>2 DEF SweepStep
  <1>5. CASE \/ KillAll \/ \E a \in Agent, o \in Owner : Kick(a, o)
             \/ \E t \in Token : RevokeSession(t)
    BY <1>i, <1>5, AdminStartsKeeps
  <1>6. CASE AdminStep
    <2>1. PICK ok \in BOOLEAN : AdminRevoked(ok)
      BY <1>6 DEF AdminStep
    <2>2. admin.at \in Token /\ admin.left \in SUBSET Token
      BY <1>i, <2>1 DEF AdminRevoked
    <2>3. sockets' \in [Socket -> Token \cup {None}] /\ UNCHANGED sweep
      BY <1>i, <1>f, <2>1, <2>2 DEF AdminRevoked
    <2>4. PICK b \in BOOLEAN : b = FALSE
      BY Zenon
    <2>5. AdminTakes(admin.left, b)
      BY <2>1, <2>4 DEF AdminRevoked
    <2>6. admin' \in AdminType
      BY <1>i, <2>2, <2>5, AdminTakesKeeps
    <2> QED
      BY <1>i, <2>3, <2>6
  <1>7. CASE \/ \E r \in Request, o \in Owner, a \in Agent :
                   \/ AskNew(r, o, a)
                   \/ \E t \in Token, b \in BOOLEAN :
                         AskFresh(r, o, a, t, b) \/ AskReuse(r, o, a, t, b)
             \/ \E u \in Tunnel :
                   ThreadStep(u) \/ TunnelTraffic(u) \/ TunnelGone(u)
                   \/ \E t \in Token : BrowserConnects(u, t)
    <2>1. ASSUME NEW r \in Request, NEW o \in Owner, NEW a \in Agent, AskNew(r, o, a)
          PROVE  UNCHANGED <<sockets, sweep, admin>>
      BY <2>1 DEF AskNew
    <2>2. ASSUME NEW r \in Request, NEW o \in Owner, NEW a \in Agent, NEW t \in Token,
                 NEW b \in BOOLEAN, AskFresh(r, o, a, t, b) \/ AskReuse(r, o, a, t, b)
          PROVE  UNCHANGED <<sockets, sweep, admin>>
      BY <2>2 DEF AskFresh, AskReuse
    <2>3. ASSUME NEW u \in Tunnel, ThreadStep(u)
          PROVE  UNCHANGED <<sockets, sweep, admin>>
      BY <2>3 DEF ThreadStep, BrowserConnected, LookUp, BrowserRefused, Bound
    <2>4. ASSUME NEW u \in Tunnel, NEW t \in Token, BrowserConnects(u, t)
          PROVE  UNCHANGED <<sockets, sweep, admin>>
      BY <2>4 DEF BrowserConnects
    <2>5. ASSUME NEW u \in Tunnel, TunnelTraffic(u) \/ TunnelGone(u)
          PROVE  UNCHANGED <<sockets, sweep, admin>>
      BY <2>5 DEF TunnelTraffic, TunnelGone
    <2>6. UNCHANGED <<sockets, sweep, admin>>
      BY <1>7, <2>1, <2>2, <2>3, <2>4, <2>5
    <2> QED
      BY <1>u, <2>6
  <1>8. CASE \/ \E w \in Socket : TouchWebsocket(w)
             \/ \E c \in Close, t \in Token : ScheduleClose(c, t)
             \/ \E t \in Token : GoIdle(t) \/ \E ok \in BOOLEAN : OrphanRevokes(t, ok)
             \/ UNCHANGED vars
    BY <1>8, <1>u DEF TouchWebsocket, ScheduleClose, GoIdle, OrphanRevokes, vars
  <1> QED
    BY <1>1, <1>2, <1>3, <1>4, <1>5, <1>6, <1>7, <1>8 DEF Next

\* Nothing is tracked at the start.
LEMMA InitIInv == Init => IInv
  <1> SUFFICES ASSUME Init PROVE IInv
    OBVIOUS
  <1>f. PICK f \in BOOLEAN : f = FALSE
    BY Zenon
  <1>1. req \in [Request -> RequestRecord] /\ \A r \in Request : req[r].at = "none" /\ req[r].tunnel = None
    <2>1. req = [r \in Request |-> [at |-> "none", owner |-> None, agent |-> None, token |-> None,
                                    tunnel |-> None, again |-> f]]
      BY <1>f DEF Init, Idle
    <2> QED
      BY ONLY <1>f, <2>1 DEF RequestRecord, RequestPoint
  <1>2. close \in [Close -> CloseRecord] /\ \A c \in Close : close[c].at = "none"
    <2>1. close = [c \in Close |-> [at |-> "none", token |-> None, quiet |-> f]]
      BY <1>f DEF Init
    <2> QED
      BY ONLY <1>f, <2>1 DEF CloseRecord, ClosePoint
  <1>3. admin \in [left : SUBSET Token, at : Token \cup {None}, revoke : BOOLEAN]
    <2>1. admin = [left |-> {}, at |-> None, revoke |-> f]
      BY <1>f DEF Init
    <2> QED
      BY ONLY <1>f, <2>1
  <1>4. link \in [Tunnel -> LinkRecord] /\ \A u \in Tunnel : link[u].at = "none"
    BY DEF Init, LinkRecord
  <1>5. TypeOK
    BY <1>1, <1>2, <1>3, <1>4 DEF Init, TypeOK, RequestRecord, CloseRecord, LinkRecord, Closing
  <1>6. RequestsFit /\ TunnelsAnswered /\ LockExcludes /\ OwnersFit
    BY <1>1 DEF RequestsFit, TunnelsAnswered, LockExcludes, OwnersFit, Holds
  <1>7. SessionsFit /\ OwnerHasOneSession /\ AgentTokensMatch
    BY DEF Init, SessionsFit, OwnerHasOneSession, AgentTokensMatch, Tracked
  <1>8. TunnelsFit /\ SessionTunnelsIndexed
    BY <1>4 DEF Init, TunnelsFit, Binding, SessionTunnelsIndexed
  <1>9. ClosesFit /\ PendingCanBeCancelled
    BY <1>2 DEF Init, ClosesFit, PendingCanBeCancelled
  <1> QED
    BY <1>5, <1>6, <1>7, <1>8, <1>9 DEF IInv, SessionInv

\* Every step preserves the invariant.
LEMMA NextIInv == ASSUME IInv, [Next]_vars PROVE IInv'
  <1>1. TypeOK'
    BY CoreStep, ClosesStep, ClosersStep
       DEF TypeOK, Core, RegistryTypes, ClosesInv, LinkRecord, RequestRecord, CloseRecord
  <1> QED
    BY <1>1, CoreStep, ClosesStep DEF IInv, Core, ClosesInv

\* The inductive invariant.
THEOREM GuacamoleInvariant == Spec => []IInv
  BY InitIInv, NextIInv, PTL DEF Spec

\* The tables of sessions, agents and tunnels have their types and agree with each
\* other, whatever sweeps, kicks and late threads do (guacamole_service.py
\* _forget_session, bind_tunnel).
THEOREM RegistryCorrect == Spec => []RegistryOK
  <1>1. IInv => RegistryOK
    BY DEF IInv, SessionInv, RegistryOK
  <1> QED
    BY <1>1, GuacamoleInvariant, PTL

\* A user has at most one tracked session (create_client_session under the lock of
\* _build_session_lock_key).
THEOREM OwnerHasOneSessionCorrect == Spec => []OwnerHasOneSession
  <1>1. IInv => OwnerHasOneSession
    BY DEF IInv, SessionInv
  <1> QED
    BY <1>1, GuacamoleInvariant, PTL

\* A request is answered with a token of the agent it asked for and a tunnel opened
\* with that token, although sessions are forgotten and revived between its awaits.
THEOREM AnswerFitsRequestCorrect == Spec => []AnswerFitsRequest
  <1>1. IInv => AnswerFitsRequest
    BY DEF IInv, RequestsFit, TunnelsAnswered, AnswerFitsRequest
  <1> QED
    BY <1>1, GuacamoleInvariant, PTL

\* A registered close is one that has not ended: its task's finally clause takes it
\* out (schedule_session_close, close_later).
THEOREM PendingCanBeCancelledCorrect == Spec => []PendingCanBeCancelled
  <1>1. IInv => PendingCanBeCancelled
    BY DEF IInv
  <1> QED
    BY <1>1, GuacamoleInvariant, PTL
=============================================================================
