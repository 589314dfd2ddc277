--------------------------- MODULE ReleaseArtifacts ---------------------------
(***************************************************************************)
(* Serving the agent's binary of a release (deployment_service.py,         *)
(* get_release_artifact_proxy).  A request first brings the release's row  *)
(* up to date from GitHub, then serves the cached file if its hash is the  *)
(* published one, and otherwise downloads the binary into that same file.  *)
(* Nothing keeps two requests apart: one may truncate the file the other   *)
(* is writing, hashing or about to send.                                   *)
(*                                                                         *)
(* One release is modelled: rows and cached files of different releases    *)
(* never meet.  A binary is a version of the asset and comes in Chunks     *)
(* parts; its hash is its version.                                         *)
(***************************************************************************)
EXTENDS Integers

CONSTANTS
    Request,    \* GET /deployments/releases/{id}/artifact
    Chunks,     \* parts of a download
    MaxVersion, \* bound: uploads of the asset
    MaxFaults,  \* bound: crashes of the server and failures of the network
    None

Version == 1..MaxVersion

Sum == Version \cup {None}

VARIABLES
    github,   \* the release upstream: asset, checksum file, whether it is listed
    row,      \* the row of agent_releases: artifact_sha256, None without the row
    file,     \* the cached file: the parts written, None without the file
    req,      \* each request
    faults

vars == <<github, row, file, req, faults>>

\* A row without a checksum: artifact_sha256 = "".
NoSum == 0

Part == Version \cup {None}

\* expected and got: the sums to compare; pos: parts written; linked: the handle
\* is of the file that has the cached path; alone: no other request was at work
\* since this one came.
Handler == [at : {"idle", "fetch", "upsert", "readback", "resolve", "check", "hash", "open", "write", "serve"},
            sum : Sum \cup {NoSum}, version : Sum, pos : 0..Chunks,
            linked : BOOLEAN, alone : BOOLEAN]

TypeOK ==
    /\ github \in [asset : Version, sum : Version \cup {NoSum}, listed : BOOLEAN]
    /\ row \in Version \cup {NoSum, None}
    /\ file = None \/ file \in [1..Chunks -> Part]
    /\ req \in [Request -> Handler]
    /\ faults \in 0..MaxFaults

Idle == [at |-> "idle", sum |-> None, version |-> None, pos |-> 0, linked |-> FALSE, alone |-> TRUE]

Init ==
    /\ github \in [asset : {1}, sum : {NoSum, 1}, listed : {TRUE}]
    /\ row = None
    /\ file = None
    /\ req = [r \in Request |-> Idle]
    /\ faults = 0

-----------------------------------------------------------------------------

Busy(r) == req[r].at # "idle"

Sets(r, to) == req' = [req EXCEPT ![r] = to]

Goes(r, place) == Sets(r, [req[r] EXCEPT !.at = place])

\* The request is answered with an error, or its answer is sent.
Ends(r) == Sets(r, Idle)

Fault == faults < MaxFaults /\ faults' = faults + 1

\* The hash of a whole file is its version.
Hash(f) == IF \E v \in Version : \A i \in 1..Chunks : f[i] = v THEN f[1] ELSE None

\* Upstream: a new binary, then its checksum file; the release leaves the page of
\* the twenty newest.
Upload ==
    /\ github.asset < MaxVersion
    /\ github' = [github EXCEPT !.asset = @ + 1]
    /\ UNCHANGED <<row, file, req, faults>>

PublishSum ==
    /\ github.sum # github.asset
    /\ github' = [github EXCEPT !.sum = github.asset]
    /\ UNCHANGED <<row, file, req, faults>>

Unlist ==
    /\ github.listed
    /\ github' = [github EXCEPT !.listed = FALSE]
    /\ UNCHANGED <<row, file, req, faults>>

\* A request comes; whoever is at work is no longer alone.
Arrive(r) ==
    /\ ~Busy(r)
    /\ LET others == {q \in Request \ {r} : Busy(q)}
       IN req' = [q \in Request |->
                    IF q = r THEN [Idle EXCEPT !.at = "fetch", !.alone = others = {}]
                    ELSE [req[q] EXCEPT !.alone = @ /\ q \notin others]]
    /\ UNCHANGED <<github, row, file, faults>>

\* sync_release_metadata_from_github in its thread: the releases of one page, the
\* checksum from the release's checksum file; or it fails, and the rows are used.
FetchReleases(r) ==
    /\ req[r].at = "fetch"
    /\ \/ github.listed /\ Sets(r, [req[r] EXCEPT !.at = "upsert", !.sum = github.sum])
          /\ UNCHANGED faults
       \/ ~github.listed /\ Goes(r, "resolve") /\ UNCHANGED faults
       \/ Fault /\ Goes(r, "resolve")
    /\ UNCHANGED <<github, row, file>>

\* upsert_release_from_source commits what was fetched, however old it is by now.
UpsertRelease(r) ==
    /\ req[r].at = "upsert"
    /\ row' = req[r].sum
    /\ Goes(r, "readback")
    /\ UNCHANGED <<github, file, faults>>

\* The row is read back, or found by its id when the sync did not return it.
ResolveRelease(r) ==
    /\ req[r].at \in {"readback", "resolve"}
    /\ IF row = None
       THEN Ends(r)
       ELSE Sets(r, [req[r] EXCEPT !.at = "check", !.sum = row])
    /\ UNCHANGED <<github, row, file, faults>>

\* Faulty: serves any cached file.
CheckCacheOnly(r) ==
    /\ req[r].at = "check"
    /\ Goes(r, IF file = None THEN "open" ELSE "serve")
    /\ UNCHANGED <<github, row, file, faults>>

\* A cached file is hashed if there is a checksum, and served as it is if not.
CheckCache(r) ==
    /\ req[r].at = "check"
    /\ Goes(r, CASE file = None -> "open"
                 [] file # None /\ req[r].sum = NoSum -> "serve"
                 [] OTHER -> "hash")
    /\ UNCHANGED <<github, row, file, faults>>

\* _hash_file_sha256; the file may be gone by now (the request fails).
HashCache(r) ==
    /\ req[r].at = "hash"
    /\ IF file = None THEN Ends(r)
       ELSE Goes(r, IF Hash(file) = req[r].sum THEN "serve" ELSE "open")
    /\ UNCHANGED <<github, row, file, faults>>

\* urlopen, and then the file is opened for writing, which empties it.
OpenDownload(r) ==
    /\ req[r].at = "open"
    /\ \/ /\ file' = [i \in 1..Chunks |-> None]
          /\ Sets(r, [req[r] EXCEPT !.at = "write", !.version = github.asset, !.pos = 0, !.linked = TRUE])
          /\ UNCHANGED faults
       \/ Fault /\ Ends(r) /\ UNCHANGED file
    /\ UNCHANGED <<github, row>>

WriteChunk(r) ==
    /\ req[r].at = "write" /\ req[r].pos < Chunks
    /\ Sets(r, [req[r] EXCEPT !.pos = @ + 1])
    /\ file' = IF req[r].linked THEN [file EXCEPT ![req[r].pos + 1] = req[r].version] ELSE file
    /\ UNCHANGED <<github, row, faults>>

\* The connection breaks: the read raises and the request fails, with what was
\* written left in the file.
BreakDownload(r) ==
    /\ req[r].at = "write" /\ req[r].pos < Chunks
    /\ Fault
    /\ Ends(r)
    /\ UNCHANGED <<github, row, file>>

\* The response has ended, possibly early.  The hash of what was read is compared,
\* and after a mismatch the cached path is removed, whosever file it is.
FinishDownload(r) ==
    /\ req[r].at = "write"
    /\ \/ req[r].pos = Chunks /\ UNCHANGED faults
       \/ req[r].pos < Chunks /\ Fault
    /\ LET got == IF req[r].pos = Chunks THEN req[r].version ELSE None
       IN IF req[r].sum # NoSum /\ got # req[r].sum
          THEN /\ file' = None
               /\ req' = [q \in Request |-> IF q = r THEN Idle ELSE [req[q] EXCEPT !.linked = FALSE]]
          ELSE Goes(r, "serve") /\ UNCHANGED file
    /\ UNCHANGED <<github, row>>

\* The router sends the file that has the path, if there still is one.
Serve(r) ==
    /\ req[r].at = "serve"
    /\ Ends(r)
    /\ UNCHANGED <<github, row, file, faults>>

Crash ==
    /\ Fault
    /\ req' = [r \in Request |-> Idle]
    /\ UNCHANGED <<github, row, file>>

Next ==
    \/ \E r \in Request :
          \/ Arrive(r) \/ FetchReleases(r) \/ UpsertRelease(r) \/ ResolveRelease(r)
          \/ CheckCache(r) \/ HashCache(r) \/ OpenDownload(r) \/ WriteChunk(r)
          \/ BreakDownload(r) \/ FinishDownload(r) \/ Serve(r)
    \/ Upload \/ PublishSum \/ Unlist \/ Crash

Spec == Init /\ [][Next]_vars

-----------------------------------------------------------------------------
(* Properties *)

\* A request that no other one accompanied sends the whole binary with the hash
\* its release had when the request read it: nothing that earlier requests,
\* overlapping ones included, broken downloads, crashes and new uploads left in
\* the cached file reaches it.
AloneServesWhole ==
    \A r \in Request :
        req[r].at = "serve" /\ req[r].alone /\ req[r].sum # NoSum
          => file # None /\ Hash(file) = req[r].sum
=============================================================================
