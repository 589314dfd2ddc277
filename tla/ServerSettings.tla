---------------------------- MODULE ServerSettings ----------------------------
(***************************************************************************)
(* The server's settings: ServerSettingsService keeps them in memory under *)
(* a lock and ServerSettingsDB in one row; PATCH /settings/server          *)
(* (api/routers/settings_router.py) has two ways to change them.  Without  *)
(* an identity part the patch is merged under the lock (update); with one  *)
(* the new settings are made from the ones read when the request came, and *)
(* put in place of the current ones (replace).                             *)
(*                                                                         *)
(* Of the settings the model keeps one field of deployment and one of      *)
(* guacamole, the Azure tenant ("" is NoTenant) and whether the provider   *)
(* is locked to Azure.  A patch names the fields it sets.                  *)
(***************************************************************************)
CONSTANTS
    Request,     \* PATCH requests of administrators
    Tenant,      \* tenant ids other than ""
    NoTenant,
    None

Settings == [deployment : BOOLEAN, guacamole : BOOLEAN,
             tenant : Tenant \cup {NoTenant}, locked : BOOLEAN]

\* Of each part what it sets, None for nothing; identity is left out by None, and
\* otherwise may set the tenant and may activate Azure.
Identity == [tenant : Tenant \cup {NoTenant, None}, activate : BOOLEAN]

Patch == [deployment : BOOLEAN \cup {None}, guacamole : BOOLEAN \cup {None},
          identity : Identity \cup {None}]

VARIABLES
    settings,  \* ServerSettingsService._settings
    stored,    \* the row of server_settings
    holder,    \* who has ServerSettingsService._lock
    req        \* each request: where it is, its patch, the settings it is to write

vars == <<settings, stored, holder, req>>

\* next of an update is made once it has the lock.
Handler == [at : {"new", "waiting", "saving", "saved", "done"},
            patch : Patch \cup {None}, next : Settings \cup {None}]

New == [at |-> "new", patch |-> None, next |-> None]

Done == [New EXCEPT !.at = "done"]

TypeOK ==
    /\ settings \in Settings
    /\ stored \in Settings
    /\ holder \in Request \cup {None}
    /\ req \in [Request -> Handler]

Defaults == [deployment |-> FALSE, guacamole |-> FALSE, tenant |-> NoTenant, locked |-> FALSE]

Init ==
    /\ settings = Defaults
    /\ stored = Defaults
    /\ holder = None
    /\ req = [r \in Request |-> New]

-----------------------------------------------------------------------------

Set(value, old) == IF value = None THEN old ELSE value

\* prepare_identity_patch: the tenant of a locked provider does not change, and
\* activating needs a tenant (an empty one in the patch counts as none).
ValidIdentity(current, p) ==
    /\ current.locked => p.tenant \in {None, current.tenant}
    /\ p.activate => \/ p.tenant \in Tenant
                     \/ current.tenant # NoTenant

\* build_identity_payload_after_update.
IdentityAfter(current, p) ==
    [current EXCEPT !.tenant = Set(p.tenant, @), !.locked = @ \/ p.activate]

\* What replace is given: the deployment part and the identity part, on top of
\* the settings read; the guacamole part is not looked at.
ReplacementFor(current, p) ==
    IdentityAfter([current EXCEPT !.deployment = Set(p.deployment, @)], p.identity)

\* Faulty: the patch is put on top of the defaults.
MergedOnDefaults(current, p) ==
    [Defaults EXCEPT !.deployment = Set(p.deployment, @), !.guacamole = Set(p.guacamole, @)]

\* _deep_merge of a patch without an identity part.
Merged(current, p) ==
    [current EXCEPT !.deployment = Set(p.deployment, @), !.guacamole = Set(p.guacamole, @)]

Moves(r, to) == req' = [req EXCEPT ![r] = to]

\* The handler up to the lock: it reads a snapshot, and refuses a bad patch.
Receive(r, p) ==
    /\ req[r].at = "new"
    /\ IF p.identity # None /\ ~ValidIdentity(settings, p.identity)
       THEN Moves(r, Done)
       ELSE Moves(r, [at |-> "waiting", patch |-> p,
                      next |-> IF p.identity = None THEN None ELSE ReplacementFor(settings, p)])
    /\ UNCHANGED <<settings, stored, holder>>

\* The lock is taken: update makes its settings from the ones in memory now, and
\* returns at once when the patch is empty.
Lock(r) ==
    /\ req[r].at = "waiting" /\ holder = None
    /\ LET p == req[r].patch
       IN IF p.identity # None
          THEN holder' = r /\ Moves(r, [req[r] EXCEPT !.at = "saving"])
          ELSE IF p.deployment = None /\ p.guacamole = None
          THEN Moves(r, Done) /\ UNCHANGED holder
          ELSE holder' = r /\ Moves(r, [req[r] EXCEPT !.at = "saving",
                                           !.next = Merged(settings, p)])
    /\ UNCHANGED <<settings, stored>>

\* ServerSettingsDB.save commits, or raises and the request fails.
Save(r) ==
    /\ req[r].at = "saving"
    /\ \/ stored' = req[r].next /\ Moves(r, [req[r] EXCEPT !.at = "saved"]) /\ UNCHANGED holder
       \/ Moves(r, Done) /\ holder' = None /\ UNCHANGED stored
    /\ UNCHANGED settings

\* Back in the service: the settings in memory follow, the lock is released.
Finish(r) ==
    /\ req[r].at = "saved"
    /\ settings' = req[r].next
    /\ holder' = None
    /\ Moves(r, Done)
    /\ UNCHANGED stored

\* The server goes down and starts again: initialize loads the row.
Restart ==
    /\ settings' = stored
    /\ holder' = None
    /\ req' = [r \in Request |-> IF req[r].at = "new" THEN New ELSE Done]
    /\ UNCHANGED stored

Next ==
    \/ \E r \in Request :
          \/ \E p \in Patch : Receive(r, p)
          \/ Lock(r) \/ Save(r) \/ Finish(r)
    \/ Restart

Spec == Init /\ [][Next]_vars

-----------------------------------------------------------------------------
(* Properties *)

\* A request without an identity part changes the fields it names and no other,
\* in memory and in the row, although others are changed by other requests while
\* it waits for the lock and while it saves.
UpdateIsConfined ==
    [][\A r \in Request :
          req[r].at = "saved" /\ req[r].patch.identity = None /\ settings' # settings
            => /\ settings'.deployment = Set(req[r].patch.deployment, settings.deployment)
               /\ settings'.guacamole = Set(req[r].patch.guacamole, settings.guacamole)
               /\ settings'.tenant = settings.tenant
               /\ settings'.locked = settings.locked]_vars

\* What the server answers from is never ahead of what a restart would load.
MemoryIsStored ==
    settings = stored \/ \E r \in Request : req[r].at = "saved" /\ req[r].next = stored
=============================================================================
