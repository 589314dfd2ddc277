--------------------------- MODULE AgentLinkProofs ---------------------------
(***************************************************************************)
(* The agent's link stays well typed, and a bootstrap token of a first     *)
(* deployment is closed only once the agent has its access token on disk.  *)
(* The second needs to know where an access token that a handshake brings  *)
(* can have come from, and when an installation can take it off the disk.  *)
(***************************************************************************)
EXTENDS AgentLink, TLAPS

\* The row holds the token of the newest preparation: the one whose deployment
\* is still to be recorded, or the newest recorded one.
RowIsNewest ==
    /\ prep # 0 => prep = latest + 1
    /\ IF cred = None THEN prep = 0 /\ latest = 0
       ELSE cred.boot = IF prep # 0 THEN prep ELSE latest

\* The access tokens the agent presents.
NoTokenPresented == mem.jwt = 0 /\ \A c \in Conn : conn[c].token.jwt = 0

\* Before a package is installed there is no agent, and no token.
NothingBeforeInstall ==
    /\ installed \subseteq 1..latest
    /\ installed = {} => /\ agent = "off" /\ link = None
                         /\ NoTokenPresented

\* Up to the first deployment, an access token that is presented is on disk.
PresentedIsOnDisk == latest <= 1 => disk.jwt # 0 \/ NoTokenPresented

Inv == TypeOK /\ RowIsNewest /\ NothingBeforeInstall /\ PresentedIsOnDisk

-----------------------------------------------------------------------------
(* Types *)

LEMMA NoHandlerType == NoHandler \in Handler
BY LinkAssumption DEF NoHandler, Handler, Config, Version

LEMMA StoredRowType == ASSUME TypeOK PROVE StoredRow \in Row
BY LinkAssumption DEF TypeOK, StoredRow, NewRow, Row, Version

\* A row whose bootstrap token is replaced.
LEMMA BootSet ==
  ASSUME NEW r \in Row, NEW d \in 0..MaxDeploy
  PROVE  LET s == [r EXCEPT !.boot = d, !.expired = FALSE, !.used = FALSE]
         IN s \in Row /\ s.boot = d
BY DEF Row

\* What a handler writes keeps the row's bootstrap token.
LEMMA DecideRow ==
  ASSUME TypeOK, NEW c \in Conn, Decide(c), cred # None
  PROVE  cred' \in Row /\ cred'.boot = cred.boot
<1> USE LinkAssumption
<1> DEFINE h == conn[c]
           mode == Authorize(h.row, h.token)
<1>1. Issues(mode) => h.row \in Row /\ IssueToken(h.row) \in Version
  <2> SUFFICES ASSUME Issues(mode) PROVE h.row \in Row /\ IssueToken(h.row) \in Version
    OBVIOUS
  <2>1. h.row # None
    BY DEF Authorize, Issues
  <2>2. h.row \in Row
    <3>1. conn[c] \in Handler
      BY DEF TypeOK
    <3> QED BY <2>1, <3>1 DEF Handler
  <2>3. h.row.ver < MaxVersion
    BY DEF Decide
  <2> QED BY <2>2, <2>3 DEF Row, Version, IssueToken
<1>2. cred \in Row
  BY DEF TypeOK
<1>3. LET s == [cred EXCEPT !.used = TRUE] IN s \in Row /\ s.boot = cred.boot
  BY <1>2 DEF Row
<1>4. Issues(mode) => LET s == [cred EXCEPT !.ver = IssueToken(h.row), !.recent = TRUE]
                      IN s \in Row /\ s.boot = cred.boot
  BY <1>1, <1>2 DEF Row
<1> HIDE DEF mode
<1>5. \/ cred' = cred
      \/ cred' = [cred EXCEPT !.used = TRUE]
      \/ Issues(mode) /\ cred' = [cred EXCEPT !.ver = IssueToken(h.row), !.recent = TRUE]
  BY DEF Decide, mode
<1> QED BY <1>2, <1>3, <1>4, <1>5

LEMMA CutType == ASSUME TypeOK PROVE Cut \in [Conn -> Handler]
<1>1. [NoHandler EXCEPT !.at = "over"] \in Handler
  BY NoHandlerType DEF Handler
<1>2. ASSUME NEW c \in Conn PROVE [conn[c] EXCEPT !.news = "none"] \in Handler
  <2>1. conn[c] \in Handler
    BY DEF TypeOK
  <2> QED BY <2>1 DEF Handler
<1> QED BY <1>1, <1>2 DEF Cut, TypeOK

\* What handling leads to is a handler again.
LEMMA HandlesType ==
  ASSUME TypeOK, NEW c \in Conn, NEW h \in Handler, Handles(c, h)
  PROVE  conn' \in [Conn -> Handler]
BY DEF TypeOK, Handles

LEMMA AnsweredType ==
  ASSUME NEW c \in Conn, NEW h \in Handler, NEW news \in {"ok", "error"}
  PROVE  Answered(c, h, news) \in Handler
BY NoHandlerType DEF Answered, Handler

LEMMA TypeInit == Init => TypeOK
<1> SUFFICES ASSUME Init PROVE TypeOK
  OBVIOUS
<1>1. conn \in [Conn -> Handler]
  BY NoHandlerType DEF Init
<1> QED BY <1>1, LinkAssumption DEF Init, TypeOK, Config, Version

LEMMA TypeStep == TypeOK /\ [Next]_vars => TypeOK'
<1> SUFFICES ASSUME TypeOK, [Next]_vars PROVE TypeOK'
  OBVIOUS
<1> USE LinkAssumption
<1>1. ASSUME NEW d \in Deployment, SetBootstrapToken(d) PROVE TypeOK'
  <2>1. StoredRow \in Row /\ d \in 0..MaxDeploy
    BY StoredRowType DEF Deployment
  <2>2. [StoredRow EXCEPT !.boot = d, !.expired = FALSE, !.used = FALSE] \in Row
    BY <2>1, BootSet
  <2>3. cred' \in Row
    BY <1>1, <2>2 DEF SetBootstrapToken
  <2> QED BY <1>1, <2>3 DEF SetBootstrapToken, TypeOK, Deployment, machine
<1>2. CASE CreateDeployment
  BY <1>2 DEF CreateDeployment, TypeOK, machine
<1>3. CASE RotateReads
  <2>1. rotation' \in Version
    <3>1. CASE cred = None
      BY <1>3, <3>1 DEF RotateReads, Version
    <3>2. CASE cred # None
      BY <1>3, <3>2 DEF RotateReads, TypeOK, Row, Version
    <3> QED BY <3>1, <3>2
  <2> QED BY <1>3, <2>1 DEF RotateReads, TypeOK, machine
<1>4. CASE RotateWrites
  <2>1. cred' \in Row
    BY <1>4, StoredRowType DEF RotateWrites, Row, TypeOK
  <2> QED BY <1>4, <2>1 DEF RotateWrites, TypeOK, machine
<1>5. CASE PatchHostname
  BY <1>5 DEF PatchHostname, TypeOK, machine
<1>6. CASE TimePasses
  <2>1. cred' \in Row
    <3>1. cred \in Row
      BY <1>6 DEF TimePasses, TypeOK
    <3> QED BY <1>6, <3>1 DEF TimePasses, Row
  <2> QED BY <1>6, <2>1 DEF TimePasses, TypeOK, machine
<1>7. ASSUME NEW c \in Conn, Handle(c) PROVE TypeOK'
  <2>0. conn[c] \in Handler
    BY DEF TypeOK
  <2>1. CASE ReadCredentials(c)
    <3>1. [conn[c] EXCEPT !.at = "read", !.row = cred] \in Handler
      BY <2>0 DEF Handler, TypeOK
    <3>2. conn' \in [Conn -> Handler]
      BY <2>1, <3>1, HandlesType DEF ReadCredentials
    <3> QED BY <2>1, <3>2 DEF ReadCredentials, TypeOK, server, machine
  <2>2. CASE Decide(c)
    <3> DEFINE h == conn[c]
               mode == Authorize(h.row, h.token)
    <3>1. Issues(mode) => h.row \in Row /\ IssueToken(h.row) \in Version
      <4> SUFFICES ASSUME Issues(mode) PROVE h.row \in Row /\ IssueToken(h.row) \in Version
        OBVIOUS
      <4>1. h.row # None
        BY DEF Authorize, Issues
      <4>2. h.row \in Row
        BY <2>0, <4>1 DEF Handler
      <4>3. h.row.ver < MaxVersion
        BY <2>2 DEF Decide
      <4> QED BY <4>2, <4>3 DEF Row, Version, IssueToken
    <3>2. cred' \in Row \cup {None}
      BY <2>2, DecideRow DEF Decide
    <3>3. [NoHandler EXCEPT
              !.at = IF Accepts(mode) THEN "host" ELSE "refuse",
              !.expired = mode = "expired",
              !.issued = IF Issues(mode) THEN IssueToken(h.row) ELSE 0] \in Handler
      <4>1. (IF Issues(mode) THEN IssueToken(h.row) ELSE 0) \in Version
        BY <3>1 DEF Version
      <4>2. (mode = "expired") \in BOOLEAN
        OBVIOUS
      <4> HIDE DEF mode
      <4> QED BY <4>1, <4>2, NoHandlerType DEF Handler
    <3>4. conn' \in [Conn -> Handler]
      BY <2>2, <3>3, HandlesType DEF Decide
    <3> QED BY <2>2, <3>2, <3>4 DEF Decide, TypeOK, machine
  <2>3. CASE Refuse(c)
    <3>1. conn' \in [Conn -> Handler]
      BY <2>0, <2>3, AnsweredType, HandlesType DEF Refuse
    <3>2. marked' \subseteq Deployment
      BY <2>3 DEF Refuse, TypeOK, Deployment
    <3> QED BY <2>3, <3>1, <3>2 DEF Refuse, TypeOK, machine
  <2>4. CASE CheckHost(c)
    <3>1. [conn[c] EXCEPT !.at = "answer"] \in Handler
      BY <2>0 DEF Handler
    <3>2. conn' \in [Conn -> Handler]
      BY <2>0, <2>4, <3>1, AnsweredType, HandlesType DEF CheckHost
    <3> QED BY <2>4, <3>2 DEF CheckHost, TypeOK, server, machine
  <2>5. CASE AnswerOk(c)
    <3>1. conn' \in [Conn -> Handler]
      BY <2>0, <2>5, AnsweredType, HandlesType DEF AnswerOk
    <3> QED BY <2>5, <3>1 DEF AnswerOk, TypeOK, server, machine
  <2>6. CASE CleanUp(c)
    <3>1. conn' \in [Conn -> Handler]
      BY <2>6, NoHandlerType, HandlesType DEF CleanUp
    <3> QED BY <2>6, <3>1 DEF CleanUp, TypeOK, server, machine
  <2> QED BY <1>7, <2>1, <2>2, <2>3, <2>4, <2>5, <2>6 DEF Handle
<1>8. ASSUME NEW c \in Conn, Open(c) PROVE TypeOK'
  <2>1. (IF mem.jwt # 0 THEN [boot |-> 0, jwt |-> mem.jwt] ELSE mem) \in Config
    BY DEF TypeOK, Config
  <2>2. [NoHandler EXCEPT !.at = "asked",
            !.token = IF mem.jwt # 0 THEN [boot |-> 0, jwt |-> mem.jwt] ELSE mem] \in Handler
    BY <2>1, NoHandlerType DEF Handler
  <2>3. conn' \in [Conn -> Handler]
    BY <1>8, <2>2, HandlesType DEF Open
  <2> QED BY <1>8, <2>3 DEF Open, TypeOK, server
<1>9. ASSUME NEW c \in Conn, TakeToken(c) PROVE TypeOK'
  <2>0. conn[c] \in Handler
    BY DEF TypeOK
  <2>1. [NoHandler EXCEPT !.at = "online"] \in Handler
    BY NoHandlerType DEF Handler
  <2>2. conn' \in [Conn -> Handler]
    BY <1>9, <2>1, HandlesType DEF TakeToken
  <2>3. disk' \in Config /\ mem' \in Config
    BY <1>9, <2>0 DEF TakeToken, TypeOK, Config, Handler
  <2> QED BY <1>9, <2>2, <2>3 DEF TakeToken, TypeOK, server
<1>10. ASSUME NEW c \in Conn, TakeRefusal(c) PROVE TypeOK'
  <2>0. conn[c] \in Handler
    BY DEF TypeOK
  <2>1. [conn[c] EXCEPT !.news = "none"] \in Handler
    BY <2>0 DEF Handler
  <2>2. conn' \in [Conn -> Handler]
    BY <1>10, <2>1, HandlesType DEF TakeRefusal
  <2> QED BY <1>10, <2>2 DEF TakeRefusal, TypeOK, server
<1>11. ASSUME NEW c \in Conn, Drop(c) PROVE TypeOK'
  BY <1>11, CutType DEF Drop, TypeOK, server
<1>12. CASE Crash
  BY <1>12, CutType DEF Crash, TypeOK, server
<1>13. CASE Restart
  BY <1>13 DEF Restart, TypeOK, server
<1>14. ASSUME NEW d \in Deployment, Install(d) PROVE TypeOK'
  <2>1. disk' \in Config /\ mem' \in Config
    BY <1>14 DEF Install, Config, Deployment, Version
  <2> QED BY <1>14, <2>1, CutType DEF Install, TypeOK, server
<1>15. CASE UNCHANGED vars
  BY <1>15 DEF vars, server, machine, TypeOK
<1> QED
  BY <1>1, <1>2, <1>3, <1>4, <1>5, <1>6, <1>7, <1>8, <1>9, <1>10, <1>11, <1>12, <1>13,
     <1>14, <1>15 DEF Next, Take

\* The records of the agent's link, of the registry's row and of the handlers
\* stay well typed: no handler writes a version or a token beyond the row's.
THEOREM TypeCorrect == Spec => []TypeOK
BY TypeInit, TypeStep, PTL DEF Spec

-----------------------------------------------------------------------------
(* Where access tokens come from *)

\* A broken connection brings no token.
LEMMA CutTokens ==
  ASSUME TypeOK, NEW c \in Conn
  PROVE  conn[c].token.jwt = 0 => Cut[c].token.jwt = 0
<1>1. conn[c] \in Handler
  BY DEF TypeOK
<1>2. [conn[c] EXCEPT !.news = "none"].token = conn[c].token
  BY <1>1 DEF Handler
<1>3. [NoHandler EXCEPT !.at = "over"].token.jwt = 0
  BY DEF NoHandler
<1> QED BY <1>2, <1>3 DEF Cut

\* A handler brings the token it brought before, or none.
LEMMA HandleTokens ==
  ASSUME TypeOK, NEW c \in Conn, Handle(c), NEW d \in Conn, conn[d].token.jwt = 0
  PROVE  conn'[d].token.jwt = 0
<1>0. conn[c] \in Handler
  BY DEF TypeOK
<1>1. ASSUME NEW news \in {"ok", "error"} PROVE Answered(c, conn[c], news).token \in {conn[c].token, NoHandler.token}
  BY <1>0 DEF Answered, Handler, NoHandler
<1>2. \E h : /\ Handles(c, h)
             /\ h.token = conn[c].token \/ h.token = NoHandler.token
  <2>1. CASE ReadCredentials(c)
    <3>1. [conn[c] EXCEPT !.at = "read", !.row = cred].token = conn[c].token
      BY <1>0 DEF Handler
    <3> QED BY <2>1, <3>1 DEF ReadCredentials
  <2>2. CASE Decide(c)
    <3> DEFINE mode == Authorize(conn[c].row, conn[c].token)
               h == [NoHandler EXCEPT
                        !.at = IF Accepts(mode) THEN "host" ELSE "refuse",
                        !.expired = mode = "expired",
                        !.issued = IF Issues(mode) THEN IssueToken(conn[c].row) ELSE 0]
    <3>1. Handles(c, h)
      BY <2>2 DEF Decide
    <3>2. h.token = NoHandler.token
      BY DEF NoHandler
    <3> QED BY <3>1, <3>2
  <2>3. CASE Refuse(c)
    BY <1>1, <2>3 DEF Refuse
  <2>4. CASE CheckHost(c)
    BY <1>0, <1>1, <2>4 DEF CheckHost, Handler
  <2>5. CASE AnswerOk(c)
    BY <1>1, <2>5 DEF AnswerOk
  <2>6. CASE CleanUp(c)
    BY <2>6 DEF CleanUp
  <2> QED BY <2>1, <2>2, <2>3, <2>4, <2>5, <2>6 DEF Handle
<1>3. PICK h : /\ Handles(c, h)
               /\ h.token = conn[c].token \/ h.token = NoHandler.token
  BY <1>2
<1>4. NoHandler.token.jwt = 0
  BY DEF NoHandler
<1>5. conn'[d] = IF d = c THEN h ELSE conn[d]
  BY <1>3 DEF Handles, TypeOK
<1> QED BY <1>3, <1>4, <1>5

LEMMA InvInit == Init => Inv
<1> SUFFICES ASSUME Init PROVE Inv
  OBVIOUS
<1>1. TypeOK
  BY TypeInit
<1>2. NoTokenPresented
  BY DEF Init, NoTokenPresented, NoHandler
<1> QED BY <1>1, <1>2 DEF Init, Inv, RowIsNewest, NothingBeforeInstall, PresentedIsOnDisk

\* Only a preparation and the record of its deployment change what is newest.
LEMMA RowStep == Inv /\ [Next]_vars => RowIsNewest'
<1> SUFFICES ASSUME Inv, [Next]_vars PROVE RowIsNewest'
  OBVIOUS
<1> USE LinkAssumption
<1> USE DEF Inv, RowIsNewest
<1>0. prep \in Nat /\ latest \in Nat /\ TypeOK
  BY DEF TypeOK
<1>1. ASSUME NEW d \in Deployment, SetBootstrapToken(d) PROVE RowIsNewest'
  <2>1. StoredRow \in Row /\ d \in 0..MaxDeploy /\ d # 0
    BY <1>0, StoredRowType DEF Deployment
  <2>4. cred' \in Row /\ cred'.boot = d
    BY <1>1, <2>1, BootSet DEF SetBootstrapToken
  <2> QED BY <1>0, <1>1, <2>1, <2>4 DEF SetBootstrapToken
<1>2. CASE CreateDeployment
  BY <1>0, <1>2 DEF CreateDeployment
<1>3. CASE RotateWrites
  <2>1. StoredRow \in Row /\ rotation \in Version
    BY <1>0, <1>3, StoredRowType DEF RotateWrites, TypeOK
  <2>2. [StoredRow EXCEPT !.ver = rotation, !.recent = TRUE] \in Row
    BY <2>1 DEF Row
  <2>3. [StoredRow EXCEPT !.ver = rotation, !.recent = TRUE].boot = StoredRow.boot
    BY <2>1 DEF Row
  <2>4. cred' # None /\ cred'.boot = StoredRow.boot /\ prep' = prep /\ latest' = latest
    BY <1>3, <2>2, <2>3 DEF RotateWrites
  <2>5. StoredRow.boot = IF cred = None THEN 0 ELSE cred.boot
    BY DEF StoredRow, NewRow
  <2> QED BY <1>0, <2>4, <2>5
<1>4. CASE TimePasses
  <2>1. cred \in Row
    BY <1>4 DEF TimePasses, TypeOK
  <2>2. [cred EXCEPT !.expired = TRUE] \in Row /\ [cred EXCEPT !.recent = FALSE] \in Row
    BY <2>1 DEF Row
  <2>3. [cred EXCEPT !.expired = TRUE].boot = cred.boot /\ [cred EXCEPT !.recent = FALSE].boot = cred.boot
    BY <2>1 DEF Row
  <2>4. cred' # None /\ cred'.boot = cred.boot /\ prep' = prep /\ latest' = latest
    BY <1>4, <2>2, <2>3 DEF TimePasses
  <2> QED BY <2>4, <1>4 DEF TimePasses
<1>5. ASSUME NEW c \in Conn, Decide(c) PROVE RowIsNewest'
  <2>1. prep' = prep /\ latest' = latest
    BY <1>5 DEF Decide
  <2>2. cred = None => cred' = None
    BY <1>5 DEF Decide
  <2>3. cred # None => cred' \in Row /\ cred'.boot = cred.boot
    BY <1>0, <1>5, DecideRow
  <2> QED BY <2>1, <2>2, <2>3
<1>6. CASE UNCHANGED <<cred, prep, latest>>
  BY <1>6
<1>7. ASSUME NEW c \in Conn, Handle(c), ~Decide(c) PROVE UNCHANGED <<cred, prep, latest>>
  BY <1>7 DEF Handle, ReadCredentials, Refuse, CheckHost, AnswerOk, CleanUp, server
<1>8. ASSUME NEW c \in Conn, Open(c) \/ Take(c) \/ Drop(c) PROVE UNCHANGED <<cred, prep, latest>>
  BY <1>8 DEF Open, Take, TakeToken, TakeRefusal, Drop, server
<1>9. ASSUME Crash \/ Restart \/ RotateReads \/ PatchHostname \/ UNCHANGED vars
      PROVE  UNCHANGED <<cred, prep, latest>>
  BY <1>9 DEF Crash, Restart, RotateReads, PatchHostname, vars, server
<1>10. ASSUME NEW d \in Deployment, Install(d) PROVE UNCHANGED <<cred, prep, latest>>
  BY <1>10 DEF Install, server
<1> QED BY <1>1, <1>2, <1>3, <1>4, <1>5, <1>6, <1>7, <1>8, <1>9, <1>10 DEF Next

\* Steps that leave the machine, and the tokens its connections bring, alone.
LEMMA ServerStep ==
  ASSUME Inv, RowIsNewest',
         UNCHANGED <<agent, mem, disk, link, installed>>,
         latest' \in Nat, latest <= latest',
         \A c \in Conn : conn[c].token.jwt = 0 => conn'[c].token.jwt = 0
  PROVE  NothingBeforeInstall' /\ PresentedIsOnDisk'
<1>1. NoTokenPresented => NoTokenPresented'
  BY DEF NoTokenPresented
<1>2. latest \in Nat
  BY LinkAssumption DEF Inv, TypeOK
<1>3. installed \subseteq 1..latest'
  BY <1>2 DEF Inv, NothingBeforeInstall
<1>4. NothingBeforeInstall'
  BY <1>1, <1>3 DEF Inv, NothingBeforeInstall
<1>5. PresentedIsOnDisk'
  BY <1>1, <1>2 DEF Inv, PresentedIsOnDisk
<1> QED BY <1>4, <1>5

LEMMA TokenStep == Inv /\ [Next]_vars => NothingBeforeInstall' /\ PresentedIsOnDisk'
<1> SUFFICES ASSUME Inv, [Next]_vars PROVE NothingBeforeInstall' /\ PresentedIsOnDisk'
  OBVIOUS
<1> USE LinkAssumption
<1>a. TypeOK /\ TypeOK' /\ RowIsNewest /\ RowIsNewest'
  BY TypeStep, RowStep DEF Inv
<1>b. latest \in Nat /\ latest' \in Nat
  BY <1>a DEF TypeOK
<1>1. ASSUME NEW d \in Deployment, SetBootstrapToken(d)
      PROVE  NothingBeforeInstall' /\ PresentedIsOnDisk'
  BY <1>1, <1>a, <1>b, ServerStep DEF SetBootstrapToken, machine
<1>2. CASE CreateDeployment
  <2>1. latest <= latest'
    BY <1>2, <1>a, <1>b DEF CreateDeployment, RowIsNewest
  <2> QED BY <1>2, <1>a, <1>b, <2>1, ServerStep DEF CreateDeployment, machine
<1>3. CASE RotateReads \/ RotateWrites \/ PatchHostname \/ TimePasses
  BY <1>3, <1>a, <1>b, ServerStep DEF RotateReads, RotateWrites, PatchHostname, TimePasses, machine
<1>4. ASSUME NEW c \in Conn, Handle(c) PROVE NothingBeforeInstall' /\ PresentedIsOnDisk'
  <2>1. \A d \in Conn : conn[d].token.jwt = 0 => conn'[d].token.jwt = 0
    BY <1>a, <1>4, HandleTokens
  <2>2. UNCHANGED <<machine, latest>>
    BY <1>4 DEF Handle, ReadCredentials, Decide, Refuse, CheckHost, AnswerOk, CleanUp, server
  <2> QED BY <1>a, <1>b, <2>1, <2>2, ServerStep DEF machine
<1>5. ASSUME NEW c \in Conn, Open(c) PROVE NothingBeforeInstall' /\ PresentedIsOnDisk'
  <2>1. installed # {} /\ UNCHANGED <<installed, latest, disk, mem>>
    BY <1>5 DEF Inv, NothingBeforeInstall, Open, server
  <2>2. NoTokenPresented => NoTokenPresented'
    <3> SUFFICES ASSUME NoTokenPresented, NEW d \in Conn PROVE conn'[d].token.jwt = 0
      BY <2>1 DEF NoTokenPresented
    <3>1. conn'[c].token.jwt = 0
      <4>1. conn'[c].token = mem
        <5>1. conn'[c] = [NoHandler EXCEPT !.at = "asked", !.token = mem]
          BY <1>5, <1>a DEF Open, Handles, NoTokenPresented, TypeOK
        <5> QED BY <5>1 DEF NoHandler
      <4> QED BY <4>1 DEF NoTokenPresented
    <3>2. d # c => conn'[d] = conn[d]
      BY <1>5, <1>a DEF Open, Handles, TypeOK
    <3> QED BY <3>1, <3>2 DEF NoTokenPresented
  <2> QED BY <2>1, <2>2 DEF Inv, NothingBeforeInstall, PresentedIsOnDisk
<1>6. ASSUME NEW c \in Conn, TakeToken(c) PROVE NothingBeforeInstall' /\ PresentedIsOnDisk'
  <2>1. installed # {} /\ UNCHANGED <<installed, latest>>
    BY <1>6 DEF Inv, NothingBeforeInstall, TakeToken, server
  <2>2. disk'.jwt # 0 \/ UNCHANGED <<disk, mem>>
    BY <1>6 DEF TakeToken
  <2>3. \A d \in Conn : conn[d].token.jwt = 0 => conn'[d].token.jwt = 0
    <3>1. [NoHandler EXCEPT !.at = "online"].token.jwt = 0
      BY DEF NoHandler
    <3>2. conn' = [conn EXCEPT ![c] = [NoHandler EXCEPT !.at = "online"]]
      BY <1>6 DEF TakeToken, Handles
    <3> QED BY <1>a, <3>1, <3>2 DEF TypeOK
  <2> QED BY <2>1, <2>2, <2>3 DEF Inv, NothingBeforeInstall, PresentedIsOnDisk, NoTokenPresented
<1>7. ASSUME NEW c \in Conn, TakeRefusal(c) PROVE NothingBeforeInstall' /\ PresentedIsOnDisk'
  <2>1. installed # {} /\ UNCHANGED <<installed, latest, disk, mem>>
    BY <1>7 DEF Inv, NothingBeforeInstall, TakeRefusal, server
  <2>2. \A d \in Conn : conn[d].token.jwt = 0 => conn'[d].token.jwt = 0
    <3>1. [conn[c] EXCEPT !.news = "none"].token = conn[c].token
      <4>1. conn[c] \in Handler
        BY <1>a DEF TypeOK
      <4> QED BY <4>1 DEF Handler
    <3>2. conn' = [conn EXCEPT ![c] = [conn[c] EXCEPT !.news = "none"]]
      BY <1>7 DEF TakeRefusal, Handles
    <3> QED BY <1>a, <3>1, <3>2 DEF TypeOK
  <2> QED BY <2>1, <2>2 DEF Inv, NothingBeforeInstall, PresentedIsOnDisk, NoTokenPresented
<1>c. ASSUME conn' = Cut
      PROVE  \A d \in Conn : conn[d].token.jwt = 0 => conn'[d].token.jwt = 0
  BY <1>a, <1>c, CutTokens
<1>8. ASSUME NEW c \in Conn, Drop(c) PROVE NothingBeforeInstall' /\ PresentedIsOnDisk'
  <2>1. installed # {} /\ UNCHANGED <<installed, latest, disk, mem>> /\ conn' = Cut
    BY <1>8 DEF Inv, NothingBeforeInstall, Drop, server
  <2> QED BY <1>c, <2>1 DEF Inv, NothingBeforeInstall, PresentedIsOnDisk, NoTokenPresented
<1>9. CASE Crash
  <2>1. installed # {} /\ UNCHANGED <<installed, latest, disk, mem>> /\ conn' = Cut
    BY <1>9 DEF Inv, NothingBeforeInstall, Crash, server
  <2> QED BY <1>c, <2>1 DEF Inv, NothingBeforeInstall, PresentedIsOnDisk, NoTokenPresented
<1>10. CASE Restart
  <2>1. installed # {} /\ UNCHANGED <<installed, latest, disk, conn>> /\ mem' = disk
    BY <1>10 DEF Restart, server
  <2> QED BY <2>1 DEF Inv, NothingBeforeInstall, PresentedIsOnDisk, NoTokenPresented
<1>11. ASSUME NEW d \in Deployment, Install(d) PROVE NothingBeforeInstall' /\ PresentedIsOnDisk'
  <2>1. /\ installed' = installed \cup {d} /\ d = latest /\ d \notin installed
        /\ UNCHANGED latest /\ conn' = Cut /\ mem'.jwt = 0 /\ d \in 1..MaxDeploy
    BY <1>11 DEF Install, server, Deployment
  <2>2. installed' \subseteq 1..latest' /\ installed' # {}
    BY <1>b, <2>1 DEF Inv, NothingBeforeInstall
  <2>3. ASSUME latest <= 1 PROVE NoTokenPresented'
    <3>1. installed = {}
      <4>1. installed \subseteq 1..latest /\ latest = 1 /\ 1 \notin installed
        BY <1>b, <2>1, <2>3 DEF Inv, NothingBeforeInstall
      <4> QED BY <4>1
    <3>2. NoTokenPresented
      BY <3>1 DEF Inv, NothingBeforeInstall
    <3> QED BY <1>c, <2>1, <3>2 DEF NoTokenPresented
  <2> QED BY <2>1, <2>2, <2>3 DEF NothingBeforeInstall, PresentedIsOnDisk
<1>12. CASE UNCHANGED vars
  BY <1>12, <1>a, <1>b, ServerStep DEF vars, server, machine
<1> QED
  BY <1>1, <1>2, <1>3, <1>4, <1>5, <1>6, <1>7, <1>8, <1>9, <1>10, <1>11, <1>12 DEF Next, Take

-----------------------------------------------------------------------------
(* Theorems *)

\* The inductive invariant: what the row holds, and where a presented access
\* token is, in every state the deployments, handshakes and crashes lead to.
THEOREM LinkInvariant == Spec => []Inv
<1>1. Inv /\ [Next]_vars => Inv'
  BY TypeStep, RowStep, TokenStep DEF Inv
<1> QED BY InvInit, <1>1, PTL DEF Spec

\* The bootstrap token of a first deployment is closed only when the agent has
\* an access token in its file, for any connections, versions, rotations, crashes
\* and broken connections: authorize_agent's rule never locks a new agent out.
THEOREM UsedMeansPersistedCorrect == Spec => UsedMeansPersisted
<1>1. Inv /\ Inv' /\ [Next]_vars =>
        [cred # None /\ cred' # None /\ cred'.boot = 1 /\ ~cred.used /\ cred'.used
            => disk.jwt # 0]_vars
  <2> SUFFICES ASSUME Inv, Inv', [Next]_vars,
                      cred # None, cred' # None, cred'.boot = 1, ~cred.used, cred'.used
               PROVE  disk.jwt # 0
    OBVIOUS
  <2>a. TypeOK /\ RowIsNewest /\ cred \in Row /\ prep \in Nat /\ latest \in Nat
    BY LinkAssumption DEF Inv, TypeOK
  <2>1. \A c \in Conn : ~Decide(c) => ~Handle(c) \/ cred' = cred
    BY DEF Handle, ReadCredentials, Refuse, CheckHost, AnswerOk, CleanUp, server
  <2>2. PICK c \in Conn : Decide(c)
    <3>1. \A d \in Deployment : ~SetBootstrapToken(d)
      <4> SUFFICES ASSUME NEW d \in Deployment, SetBootstrapToken(d) PROVE FALSE
        OBVIOUS
      <4>1. cred' = [cred EXCEPT !.boot = d, !.expired = FALSE, !.used = FALSE]
        BY DEF SetBootstrapToken, StoredRow
      <4>2. cred'.used = FALSE
        BY <2>a, <4>1 DEF Row
      <4> QED BY <4>2
    <3>2. ~RotateWrites
      <4> SUFFICES ASSUME RotateWrites PROVE FALSE
        OBVIOUS
      <4>1. cred' = [cred EXCEPT !.ver = rotation, !.recent = TRUE]
        BY DEF RotateWrites, StoredRow
      <4>2. cred'.used = cred.used
        BY <2>a, <4>1 DEF Row
      <4> QED BY <4>2
    <3>3. ~TimePasses
      <4> SUFFICES ASSUME TimePasses PROVE FALSE
        OBVIOUS
      <4>1. cred'.used = cred.used
        BY <2>a DEF TimePasses, Row
      <4> QED BY <4>1
    <3>4. ASSUME cred' = cred PROVE FALSE
      BY <3>4
    <3>5. ~CreateDeployment /\ ~RotateReads /\ ~PatchHostname /\ ~Crash /\ ~Restart
      BY <3>4 DEF CreateDeployment, RotateReads, PatchHostname, Crash, Restart, server
    <3>6. \A d \in Deployment : ~Install(d)
      BY <3>4 DEF Install, server
    <3>7. \A c \in Conn : ~Open(c) /\ ~Take(c) /\ ~Drop(c)
      BY <3>4 DEF Open, Take, TakeToken, TakeRefusal, Drop, server
    <3>8. ~UNCHANGED vars
      BY <3>4 DEF vars, server
    <3> QED BY <2>1, <3>1, <3>2, <3>3, <3>4, <3>5, <3>6, <3>7, <3>8 DEF Next
  <2> DEFINE h == conn[c]
             mode == Authorize(h.row, h.token)
  <2>3. mode = "jwt"
    <3>1. ASSUME mode # "jwt" PROVE cred'.used = cred.used
      <4> HIDE DEF mode
      <4>1. cred' = cred \/ cred' = [cred EXCEPT !.ver = IssueToken(h.row), !.recent = TRUE]
        BY <2>2, <3>1 DEF Decide, mode
      <4> QED BY <2>a, <4>1 DEF Row
    <3> QED BY <3>1
  <2>4. h.token.jwt # 0
    BY <2>3 DEF Authorize
  <2>5. latest <= 1
    <3>1. cred.boot = 1
      BY <2>a, <2>2, DecideRow
    <3> QED BY <2>a, <3>1 DEF RowIsNewest
  <2> QED BY <2>4, <2>5 DEF Inv, PresentedIsOnDisk, NoTokenPresented
<1> QED BY LinkInvariant, <1>1, PTL DEF Spec, UsedMeansPersisted
=============================================================================
