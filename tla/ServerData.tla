----------------------------- MODULE ServerData -----------------------------
(***************************************************************************)
(* The server's records side by side: the tasks and pipeline runs, whose   *)
(* module is extended, the telemetry store, the settings, the cached       *)
(* release artifacts and the logins.  They share no state, and their steps *)
(* interleave.                                                             *)
(***************************************************************************)
EXTENDS TaskPipeline

CONSTANTS
    Hour, Day, Keep, KeepHourly, LastMinute, MaxStoreFaults,   \* see TelemetryStore
    Request, Tenant, NoTenant, None,                           \* see ServerSettings
    Chunks, MaxVersion, MaxDownloadFaults,                     \* see ReleaseArtifacts
    Login, User, PendingTtl, CacheTtl, SessionTtl, LastTime    \* see UserLogins

\* An hour has minutes, and a row is summarised before its retention ends.
ASSUME StoreAssumption ==
    /\ Hour \in Nat \ {0} /\ Day \in Nat /\ Keep \in Nat /\ KeepHourly \in Nat
    /\ LastMinute \in Nat /\ MaxStoreFaults \in Nat
    /\ Day <= Keep

\* None is nothing of what it is used beside.
ASSUME NoneAssumption ==
    /\ None \notin Request /\ None \notin Nat
    /\ None \notin [1..Chunks -> (1..MaxVersion) \cup {None}]

\* A download has parts, and there is a version to download.
ASSUME DownloadAssumption ==
    Chunks \in Nat \ {0} /\ MaxVersion \in Nat \ {0} /\ MaxDownloadFaults \in Nat

ASSUME TimesAssumption ==
    PendingTtl \in Nat /\ CacheTtl \in Nat /\ SessionTtl \in Nat /\ LastTime \in Nat

VARIABLES
    minute, ring, loop, wake, at, work, disk, written, storeFaults,
    settings, stored, holder, edit,
    github, releaseRow, file, download, downloadFaults,
    clock, identity, cache, pending, codes, spent, sessions, finished

Store == INSTANCE TelemetryStore WITH MaxFaults <- MaxStoreFaults, now <- minute, faults <- storeFaults

Settings == INSTANCE ServerSettings WITH req <- edit

Artifacts == INSTANCE ReleaseArtifacts
    WITH MaxFaults <- MaxDownloadFaults, row <- releaseRow, req <- download,
         faults <- downloadFaults

Logins == INSTANCE UserLogins WITH State <- Login, now <- clock

storeVars == <<minute, ring, loop, wake, at, work, disk, written, storeFaults>>
settingsVars == <<settings, stored, holder, edit>>
artifactVars == <<github, releaseRow, file, download, downloadFaults>>
loginVars == <<clock, identity, cache, pending, codes, spent, sessions, finished>>

dataVars == <<vars, storeVars, settingsVars, artifactVars, loginVars>>

DataInit == Init /\ Store!Init /\ Settings!Init /\ Artifacts!Init /\ Logins!Init

TasksAct == Next /\ UNCHANGED <<storeVars, settingsVars, artifactVars, loginVars>>

StoreActs == Store!Next /\ UNCHANGED <<vars, settingsVars, artifactVars, loginVars>>

SettingsAct == Settings!Next /\ UNCHANGED <<vars, storeVars, artifactVars, loginVars>>

ArtifactsAct == Artifacts!Next /\ UNCHANGED <<vars, storeVars, settingsVars, loginVars>>

LoginsAct == Logins!Next /\ UNCHANGED <<vars, storeVars, settingsVars, artifactVars>>

DataNext == TasksAct \/ StoreActs \/ SettingsAct \/ ArtifactsAct \/ LoginsAct

DataSpec == DataInit /\ [][DataNext]_dataVars

-----------------------------------------------------------------------------
(* The properties of the instances, by the names their modules give them.  *)

\* The server's records are well formed: those of every part have their types; a
\* verdict ends an execution; the flush loop finds no row of the minute it writes
\* (telemetry_db.py); the settings in memory are the stored ones outside an
\* update (settings/service.py); a login opens one session at most
\* (users/service.py).
ServerDataInv ==
    /\ TypeOK /\ Store!TypeOK /\ Settings!TypeOK /\ Artifacts!TypeOK /\ Logins!TypeOK
    /\ ExecutorTypeOK /\ VerdictEndsExecution
    /\ Store!LoopReplacesNothing
    /\ Settings!MemoryIsStored
    /\ Logins!OneSessionPerLogin

\* See TelemetryStore: a minute is deleted when its hour has been summarised.
DeletedIsSummarised == Store!DeletedIsSummarised

\* See ServerSettings: an update changes the fields it names and no other.
UpdateIsConfined == Settings!UpdateIsConfined

\* See ReleaseArtifacts: a request without company is sent the whole binary.
AloneServesWhole == Artifacts!AloneServesWhole

\* See UserLogins: a session is one of the tenant the settings name.
SessionFitsTenant == Logins!SessionFitsTenant
=============================================================================
