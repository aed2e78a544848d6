---------------------------- MODULE RemoteSource ----------------------------
(***************************************************************************)
(* The download client's side of the signed source list:                   *)
(* RemoteSourceManager and RemoteSourceRefreshWorker                       *)
(* (steam_pumper/remote_sources.py), with what PumperController.tick does  *)
(* with their results, the two files of /data, and a server that may       *)
(* answer with an older release.                                           *)
(*                                                                         *)
(* A refresh runs on the worker's thread; the process may die between any  *)
(* two of its file operations.  An envelope is named by its revision; 0    *)
(* stands for none.                                                        *)
(***************************************************************************)
EXTENDS Integers

CONSTANTS MaxRevision,  \* bound: the newest revision that is published
          ListOf,       \* the URLs of each revision; of 0: the local list
          MaxFaults     \* bound: restarts, bad answers and failed calls

Revisions == 0..MaxRevision

ASSUME RemoteSourceAssumption ==
    /\ MaxRevision \in Nat \ {0}
    /\ DOMAIN ListOf = Revisions
    /\ MaxFaults \in Nat

VARIABLES
    published,    \* the newest revision on the server
    expired,      \* revisions up to this one are past their expires_at
    manifest,     \* manager.manifest and envelope_bytes
    etag,         \* snapshot.etag: the envelope the server gave it to
    waiting,      \* snapshot.next_refresh_at lies ahead
    stateFile,    \* source-list-state.json
    envelopeFile, \* source-list-envelope.json
    workerPc,     \* the refresh worker
    candidate,    \* what a refresh has accepted and not yet committed
    result,       \* _result
    known,        \* the revision the controller knows of
    applied,      \* the revision whose list it took over last
    faults        \* faults so far

memory == <<manifest, etag, waiting>>
disk   == <<stateFile, envelopeFile>>
worker == <<workerPc, candidate, result>>
vars   == <<published, expired, memory, disk, worker, known, applied, faults>>

NoCandidate == [revision |-> 0, notModified |-> FALSE]
NoResult    == [kind |-> "none", changed |-> FALSE, revision |-> 0]

TypeOK ==
    /\ published \in Revisions /\ expired \in 0..published
    /\ manifest \in Revisions /\ etag \in Revisions /\ waiting \in BOOLEAN
    /\ stateFile \in [revision : Revisions, etag : Revisions]
    /\ envelopeFile \in Revisions
    /\ workerPc \in {"idle", "queued", "fetch", "save", "commit"}
    /\ candidate \in [revision : Revisions, notModified : BOOLEAN]
    /\ result \in [kind : {"none", "ok", "failed", "raised"}, changed : BOOLEAN,
                   revision : Revisions]
    /\ known \in Revisions /\ applied \in Revisions
    /\ faults \in 0..MaxFaults

Fault(n) == faults + n <= MaxFaults /\ faults' = faults + n

-----------------------------------------------------------------------------
(* load_last_known_good, at the start of the process.                      *)

\* Mutant: the state file is believed whatever revision it belongs to.
AnyState(revision) == TRUE

\* The state file describes the envelope that was found.
MatchingState(revision) == stateFile.revision = revision

\* The new manager, and the refresh worker, which the controller starts with a
\* request.  The state file is written again when it did not match, if it can be.
Load(verified) ==
    LET found == IF verified THEN envelopeFile ELSE 0
    IN  /\ manifest' = found
        /\ IF MatchingState(found)
           THEN /\ etag' = stateFile.etag
                /\ waiting' \in BOOLEAN
                /\ UNCHANGED stateFile
           ELSE /\ etag' = 0
                /\ waiting' = FALSE
                /\ stateFile' \in {stateFile} \cup
                     (IF found # 0 THEN {[revision |-> found, etag |-> 0]} ELSE {})
        /\ workerPc' = "queued"
        /\ candidate' = NoCandidate
        /\ result' = NoResult
        /\ known' = found
        /\ applied' = found

\* The process dies and starts again; the verifier of the envelope may fail.
Restart ==
    /\ \E verified \in BOOLEAN : Fault(IF verified THEN 1 ELSE 2) /\ Load(verified)
    /\ UNCHANGED <<published, expired, envelopeFile>>

-----------------------------------------------------------------------------
(* The refresh worker: _run and manager.refresh.                           *)

Begin ==
    /\ workerPc = "queued"
    /\ workerPc' = "fetch"
    /\ UNCHANGED <<published, expired, memory, disk, candidate, result, known, applied,
                   faults>>

\* The except clause: what was accepted before stays, the failure is recorded, the
\* next attempt is put off.  Saving the state may fail.
Failure(state) ==
    /\ stateFile' \in {state, [revision |-> manifest, etag |-> etag]}
    /\ waiting' = TRUE
    /\ workerPc' = "idle"
    /\ candidate' = NoCandidate
    /\ result' = [kind |-> "failed", changed |-> FALSE, revision |-> manifest]
    /\ UNCHANGED <<manifest, etag>>

\* Mutant: without the rollback check.
AcceptableUnordered(revision) == expired < revision

\* What parse_manifest_payload and refresh ask of a new envelope.
Acceptable(revision) == expired < revision /\ manifest <= revision

\* The server answers with a release, the newest one or, for once, an older one:
\* 304 when it is the one the etag names.
Fetch ==
    /\ workerPc = "fetch"
    /\ \E served \in 1..published :
          /\ Fault(IF served = published THEN 0 ELSE 1)
          /\ IF etag = served
             THEN IF manifest = 0
                  THEN Failure(stateFile)
                  ELSE /\ candidate' = [revision |-> manifest, notModified |-> TRUE]
                       /\ workerPc' = "save"
                       /\ UNCHANGED <<memory, stateFile, result>>
             ELSE IF Acceptable(served)
                  THEN /\ candidate' = [revision |-> served, notModified |-> FALSE]
                       /\ workerPc' = "save"
                       /\ UNCHANGED <<memory, stateFile, result>>
                  ELSE Failure(stateFile)
    /\ UNCHANGED <<published, expired, envelopeFile, known, applied>>

\* No answer, a bad one, a signature that does not verify, or an equal revision in
\* another envelope.
FetchFails ==
    /\ workerPc = "fetch"
    /\ \/ Fault(1)
       \/ published = 0 /\ UNCHANGED faults
    /\ Failure(stateFile)
    /\ UNCHANGED <<published, expired, envelopeFile, known, applied>>

\* An exception that refresh does not catch, such as http.client.HTTPException for
\* a truncated answer: only _run catches it.
FetchRaises ==
    /\ workerPc = "fetch"
    /\ Fault(1)
    /\ workerPc' = "idle"
    /\ result' = [kind |-> "raised", changed |-> FALSE, revision |-> 0]
    /\ UNCHANGED <<published, expired, memory, disk, candidate, known, applied>>

\* The server's ETag, or after a 304 the one that was sent.
CandidateEtag == IF candidate.notModified THEN etag ELSE candidate.revision

CandidateState == [revision |-> candidate.revision, etag |-> CandidateEtag]

\* _save_state, before the envelope.  A failed write may have replaced the file.
Save ==
    /\ workerPc = "save"
    /\ \/ /\ stateFile' = CandidateState
          /\ workerPc' = "commit"
          /\ UNCHANGED <<memory, candidate, result, faults>>
       \/ /\ Fault(1)
          /\ \E state \in {stateFile, CandidateState} : Failure(state)
    /\ UNCHANGED <<published, expired, envelopeFile, known, applied>>

\* Mutant: the envelope is only written when the list itself has changed.
IsNewList == ListOf[candidate.revision] # ListOf[manifest] /\ ~candidate.notModified

\* The envelope has to be written.
IsNewRevision == ~candidate.notModified /\ candidate.revision # manifest

\* What the caller of refresh is told.
Changed == manifest = 0 \/ ListOf[candidate.revision] # ListOf[manifest]

\* The envelope is written, then the memory is updated and the result posted.
Commit ==
    /\ workerPc = "commit"
    /\ \/ /\ envelopeFile' = IF IsNewRevision THEN candidate.revision ELSE envelopeFile
          /\ manifest' = candidate.revision
          /\ etag' = CandidateEtag
          /\ waiting' = TRUE
          /\ workerPc' = "idle"
          /\ candidate' = NoCandidate
          /\ result' = [kind |-> "ok", changed |-> Changed, revision |-> candidate.revision]
          /\ UNCHANGED <<stateFile, faults>>
       \/ /\ IsNewRevision
          /\ Fault(1)
          /\ envelopeFile' \in {envelopeFile, candidate.revision}
          /\ Failure(stateFile)
    /\ UNCHANGED <<published, expired, known, applied>>

Refresh == Begin \/ Fetch \/ FetchFails \/ FetchRaises \/ Save \/ Commit

-----------------------------------------------------------------------------
(* The controller's thread.                                                *)

\* tick: the result is taken and consumed, then a refresh is requested if one is
\* due.
Tick ==
    /\ result' = NoResult
    /\ IF result.kind = "ok"
       THEN /\ known' = result.revision
            /\ applied' = IF result.changed THEN result.revision ELSE applied
       ELSE UNCHANGED <<known, applied>>
    /\ workerPc' = IF workerPc = "idle" /\ ~waiting THEN "queued" ELSE workerPc
    /\ UNCHANGED <<published, expired, memory, disk, candidate, faults>>

\* Mutant: request does not look at the result that is waiting.
MayQueueOverResult == workerPc = "idle"

MayQueue == workerPc = "idle" /\ result = NoResult

\* POST /api/source-list/refresh: request, whether or not a refresh is due.
Request ==
    /\ MayQueue
    /\ workerPc' = "queued"
    /\ UNCHANGED <<published, expired, memory, disk, candidate, result, known, applied,
                   faults>>

-----------------------------------------------------------------------------
(* The environment.                                                        *)

Publish ==
    /\ published < MaxRevision
    /\ published' = published + 1
    /\ UNCHANGED <<expired, memory, disk, worker, known, applied, faults>>

Expire ==
    /\ expired < published
    /\ expired' = expired + 1
    /\ UNCHANGED <<published, memory, disk, worker, known, applied, faults>>

\* next_refresh_at passes: five minutes or more after the result, which a tick
\* has taken by then.
Elapse ==
    /\ waiting /\ result = NoResult
    /\ waiting' = FALSE
    /\ UNCHANGED <<published, expired, manifest, etag, disk, worker, known, applied, faults>>

Init ==
    /\ published \in {0, 1} /\ expired = 0
    /\ manifest = 0 /\ etag = 0 /\ waiting = FALSE
    /\ stateFile = [revision |-> 0, etag |-> 0] /\ envelopeFile = 0
    /\ workerPc = "queued" /\ candidate = NoCandidate /\ result = NoResult
    /\ known = 0 /\ applied = 0
    /\ faults = 0

Next == Refresh \/ Tick \/ Request \/ Restart \/ Publish \/ Expire \/ Elapse

Spec == Init /\ [][Next]_vars

\* The worker's thread and the ticks go on, the clock runs.
FairSpec == Spec /\ WF_vars(Refresh) /\ WF_vars(Tick) /\ WF_vars(Elapse)

-----------------------------------------------------------------------------
(* Properties.                                                             *)

\* Whatever crashes, fails or is served late, the controller never goes back to an
\* older revision; without a readable envelope it falls back to the local list.
NeverRollsBack == [][known' >= known \/ known' = 0]_known

\* A revision that the controller has been told of is on disk: no crash loses it.
DurableBeforeUse == known <= envelopeFile

\* The list the downloads use is the manager's, or the change is on its way.
ControllerFollows ==
    ListOf[applied] = ListOf[manifest]
      \/ (result.kind = "ok" /\ result.changed /\ result.revision = manifest)

\* The etag sent with a request names the envelope held, so that a 304 confirms
\* the list in use.
EtagNamesEnvelope == etag \in {0, manifest}

\* A refresh that failed is not due again at once (docs/aliyun-oss-source-list.md:9:
\* "Retry failures after 5 minutes, 30 minutes, 2 hours, and then every 6 hours").
FailedRefreshWaits == result.kind \in {"failed", "raised"} => waiting

\* A published revision reaches the controller, unless it expires first.
RevisionsArrive == \A r \in 1..MaxRevision :
    published >= r ~> (known >= r \/ expired >= r)

=============================================================================
