------------------------ MODULE RemoteSource_proofs -------------------------
(***************************************************************************)
(* The safety properties of RemoteSource, for every number of revisions,   *)
(* every assignment of lists to them and every number of faults.           *)
(*                                                                         *)
(* They follow from one order, which no step and no crash disturbs:        *)
(*     known <= manifest <= envelopeFile,  manifest <= candidate.          *)
(***************************************************************************)
EXTENDS RemoteSource, TLAPS

Ordered == known <= manifest /\ manifest <= envelopeFile

\* Between Fetch and Commit the candidate is at least the accepted revision, and
\* is that revision after a 304.
CandidateOk == workerPc \in {"save", "commit"} =>
    /\ manifest <= candidate.revision
    /\ candidate.notModified => candidate.revision = manifest

\* A result that waits is the last thing the worker did.
ResultOk == result.kind = "ok" => workerPc = "idle" /\ result.revision = manifest

\* Each etag, in memory and on disk, belongs to the revision beside it.
EtagsOk == etag \in {0, manifest} /\ stateFile.etag \in {0, stateFile.revision}

IInv == TypeOK /\ Ordered /\ CandidateOk /\ ResultOk /\ EtagsOk /\ ControllerFollows

Candidates == [revision : Revisions, notModified : BOOLEAN]
Results    == [kind : {"none", "ok", "failed", "raised"}, changed : BOOLEAN,
               revision : Revisions]

LEMMA NothingTyped == 0 \in Revisions => NoCandidate \in Candidates /\ NoResult \in Results
BY Zenon DEF NoCandidate, NoResult, Candidates, Results

LEMMA InitInductive == Init => IInv
<1> SUFFICES ASSUME Init PROVE IInv
  OBVIOUS
<1>1. TypeOK
  <2>1. 0 \in Revisions
    BY RemoteSourceAssumption DEF Revisions
  <2>2. candidate \in Candidates /\ result \in Results
    BY <2>1, NothingTyped DEF Init
  <2>3. published \in Revisions /\ expired \in 0..published /\ faults \in 0..MaxFaults
    BY RemoteSourceAssumption DEF Init, Revisions
  <2>4. stateFile \in [revision : Revisions, etag : Revisions]
    BY <2>1 DEF Init
  <2> QED
    BY <2>1, <2>2, <2>3, <2>4 DEF Init, TypeOK, Candidates, Results
<1>2. Ordered /\ CandidateOk /\ ResultOk /\ EtagsOk /\ ControllerFollows
  BY DEF Init, Ordered, CandidateOk, ResultOk, EtagsOk, ControllerFollows, NoResult
<1> QED
  BY <1>1, <1>2 DEF IInv

\* What the except clause leaves behind, whatever the state file was.
LEMMA FailureInductive ==
    ASSUME IInv, NEW state, state \in [revision : Revisions, etag : Revisions],
           state.etag \in {0, state.revision},
           Failure(state), workerPc # "idle",
           envelopeFile' \in Revisions, manifest <= envelopeFile',
           faults' \in 0..MaxFaults,
           UNCHANGED <<published, expired, known, applied>>
    PROVE  IInv'
<1>1. TypeOK'
  <2>1. manifest \in Revisions /\ etag \in Revisions /\ 0 \in Revisions
    BY RemoteSourceAssumption DEF IInv, TypeOK, Revisions
  <2>2. stateFile' \in [revision : Revisions, etag : Revisions]
    BY <2>1 DEF Failure
  <2>3. candidate' \in Candidates
    BY <2>1, NothingTyped DEF Failure
  <2>4. result' \in Results
    BY <2>1, Zenon DEF Failure, Results
  <2> QED
    BY <2>2, <2>3, <2>4 DEF IInv, TypeOK, Failure, Candidates, Results
<1>2. Ordered'
  BY DEF IInv, TypeOK, Ordered, Failure, Revisions
<1>3. CandidateOk' /\ ResultOk'
  BY DEF CandidateOk, ResultOk, Failure
<1>4. EtagsOk'
  BY DEF IInv, TypeOK, EtagsOk, Failure
<1>5. ControllerFollows'
  <2>1. ListOf[applied] = ListOf[manifest]
    BY DEF IInv, ControllerFollows, ResultOk, Failure
  <2> QED
    BY <2>1 DEF ControllerFollows, Failure
<1> QED
  BY <1>1, <1>2, <1>3, <1>4, <1>5 DEF IInv

LEMMA FetchInductive == IInv /\ Fetch => IInv'
<1> SUFFICES ASSUME IInv, Fetch PROVE IInv'
  OBVIOUS
<1>1. PICK served \in 1..published :
        /\ Fault(IF served = published THEN 0 ELSE 1)
        /\ IF etag = served
           THEN IF manifest = 0
                THEN Failure(stateFile)
                ELSE /\ candidate' = [revision |-> manifest, notModified |-> TRUE]
                     /\ workerPc' = "save"
                     /\ UNCHANGED <<memory, stateFile, result>>
           ELSE IF Acceptable(served)
                THEN /\ candidate' = [revision |-> served, notModified |-> FALSE]
                     /\ workerPc' = "save"
                     /\ UNCHANGED <<memory, stateFile, result>>
                ELSE Failure(stateFile)
  BY DEF Fetch
<1>2. UNCHANGED <<published, expired, envelopeFile, known, applied>> /\ workerPc = "fetch"
  BY DEF Fetch
<1>3. faults' \in 0..MaxFaults
  BY <1>1, RemoteSourceAssumption DEF Fault, IInv, TypeOK
<1>4. CASE Failure(stateFile)
  <2>1. stateFile \in [revision : Revisions, etag : Revisions]
          /\ stateFile.etag \in {0, stateFile.revision}
    BY DEF IInv, TypeOK, EtagsOk
  <2>2. envelopeFile' \in Revisions /\ manifest <= envelopeFile'
    BY <1>2 DEF IInv, TypeOK, Ordered, Revisions
  <2> QED
    BY <1>2, <1>3, <1>4, <2>1, <2>2, FailureInductive
<1>5. CASE \E revision \in Revisions, same \in BOOLEAN :
             /\ candidate' = [revision |-> revision, notModified |-> same]
             /\ manifest <= revision /\ (same => revision = manifest)
             /\ workerPc' = "save"
             /\ UNCHANGED <<memory, stateFile, result>>
  <2>1. PICK revision \in Revisions, same \in BOOLEAN :
             /\ candidate' = [revision |-> revision, notModified |-> same]
             /\ manifest <= revision /\ (same => revision = manifest)
             /\ workerPc' = "save"
             /\ UNCHANGED <<memory, stateFile, result>>
    BY <1>5
  <2>2. candidate' \in Candidates
    BY <2>1, Zenon DEF Candidates
  <2>3. TypeOK'
    BY <1>2, <1>3, <2>1, <2>2 DEF IInv, TypeOK, memory, Candidates
  <2>4. CandidateOk'
    BY <2>1 DEF CandidateOk, memory
  <2>5. Ordered' /\ ResultOk' /\ EtagsOk' /\ ControllerFollows'
    BY <1>2, <2>1 DEF IInv, Ordered, ResultOk, EtagsOk, ControllerFollows, memory
  <2> QED
    BY <2>3, <2>4, <2>5 DEF IInv
<1>6. manifest \in Revisions /\ served \in Revisions
  BY RemoteSourceAssumption DEF IInv, TypeOK, Revisions
<1>7. CASE etag = served /\ manifest # 0
  <2>1. manifest <= manifest
    BY <1>6 DEF Revisions
  <2>2. candidate' = [revision |-> manifest, notModified |-> TRUE]
    BY <1>1, <1>7
  <2> QED
    BY <1>1, <1>5, <1>6, <1>7, <2>1, <2>2, Zenon
<1>8. CASE etag # served /\ Acceptable(served)
  <2>1. manifest <= served
    BY <1>8 DEF Acceptable
  <2> QED
    BY <1>1, <1>5, <1>6, <1>8, <2>1
<1> QED
  BY <1>1, <1>4, <1>7, <1>8

LEMMA FetchFailsInductive == IInv /\ FetchFails => IInv'
<1> SUFFICES ASSUME IInv, FetchFails PROVE IInv'
  OBVIOUS
<1>1. stateFile \in [revision : Revisions, etag : Revisions]
        /\ stateFile.etag \in {0, stateFile.revision}
  BY DEF IInv, TypeOK, EtagsOk
<1>2. envelopeFile' \in Revisions /\ manifest <= envelopeFile'
  BY DEF IInv, TypeOK, Ordered, Revisions, FetchFails
<1>3. faults' \in 0..MaxFaults
  BY RemoteSourceAssumption DEF FetchFails, Fault, IInv, TypeOK
<1> QED
  BY <1>1, <1>2, <1>3, FailureInductive DEF FetchFails

LEMMA FetchRaisesInductive == IInv /\ FetchRaises => IInv'
<1> SUFFICES ASSUME IInv, FetchRaises PROVE IInv'
  OBVIOUS
<1>1. result' \in Results
  <2>1. 0 \in Revisions
    BY RemoteSourceAssumption DEF Revisions
  <2> QED
    BY <2>1, Zenon DEF FetchRaises, Results
<1>2. faults' \in 0..MaxFaults
  BY RemoteSourceAssumption DEF FetchRaises, Fault, IInv, TypeOK
<1>3. TypeOK'
  BY <1>1, <1>2 DEF FetchRaises, IInv, TypeOK, memory, disk, Results
<1>4. ControllerFollows'
  BY DEF FetchRaises, IInv, ResultOk, ControllerFollows, memory
<1>5. Ordered' /\ CandidateOk' /\ ResultOk' /\ EtagsOk'
  BY DEF FetchRaises, IInv, Ordered, CandidateOk, ResultOk, EtagsOk, memory, disk
<1> QED
  BY <1>3, <1>4, <1>5 DEF IInv

LEMMA SaveInductive == IInv /\ Save => IInv'
<1> SUFFICES ASSUME IInv, Save PROVE IInv'
  OBVIOUS
<1>1. /\ UNCHANGED <<published, expired, envelopeFile, known, applied>>
      /\ workerPc = "save"
  BY DEF Save
<1>2. candidate \in Candidates /\ candidate.revision \in Revisions
        /\ manifest \in Revisions /\ etag \in Revisions
  BY DEF IInv, TypeOK, Candidates
<1>3. CandidateEtag \in Revisions /\ CandidateEtag \in {0, candidate.revision}
  BY <1>1, <1>2 DEF IInv, CandidateOk, EtagsOk, CandidateEtag
<1>4. CandidateState \in [revision : Revisions, etag : Revisions]
        /\ CandidateState.etag \in {0, CandidateState.revision}
  BY <1>2, <1>3 DEF CandidateState
<1>5. CASE /\ stateFile' = CandidateState
           /\ workerPc' = "commit"
           /\ UNCHANGED <<memory, candidate, result, faults>>
  <2>1. TypeOK'
    BY <1>1, <1>4, <1>5 DEF IInv, TypeOK, memory
  <2>2. EtagsOk'
    BY <1>4, <1>5 DEF IInv, EtagsOk, memory
  <2>3. Ordered' /\ CandidateOk' /\ ResultOk' /\ ControllerFollows'
    BY <1>1, <1>5 DEF IInv, Ordered, CandidateOk, ResultOk, ControllerFollows, memory
  <2> QED
    BY <2>1, <2>2, <2>3 DEF IInv
<1>6. CASE Fault(1) /\ \E state \in {stateFile, CandidateState} : Failure(state)
  <2>1. PICK state \in {stateFile, CandidateState} : Failure(state)
    BY <1>6
  <2>2. state \in [revision : Revisions, etag : Revisions] /\ state.etag \in {0, state.revision}
    BY <1>4, <2>1 DEF IInv, TypeOK, EtagsOk
  <2>3. envelopeFile' \in Revisions /\ manifest <= envelopeFile'
    BY <1>1 DEF IInv, TypeOK, Ordered, Revisions
  <2>4. faults' \in 0..MaxFaults
    BY <1>6, RemoteSourceAssumption DEF Fault, IInv, TypeOK
  <2> QED
    BY <1>1, <2>1, <2>2, <2>3, <2>4, FailureInductive
<1> QED
  BY <1>5, <1>6 DEF Save

LEMMA CommitInductive == IInv /\ Commit => IInv'
<1> SUFFICES ASSUME IInv, Commit PROVE IInv'
  OBVIOUS
<1>1. UNCHANGED <<published, expired, known, applied>> /\ workerPc = "commit"
  BY DEF Commit
<1>2. /\ candidate \in Candidates /\ candidate.revision \in Revisions
      /\ manifest \in Revisions /\ etag \in Revisions /\ envelopeFile \in Revisions
      /\ manifest <= candidate.revision
  BY <1>1 DEF IInv, TypeOK, CandidateOk, Candidates
<1>3. CandidateEtag \in Revisions /\ CandidateEtag \in {0, candidate.revision}
  BY <1>1, <1>2 DEF IInv, CandidateOk, EtagsOk, CandidateEtag
<1>4. CASE /\ envelopeFile' = IF IsNewRevision THEN candidate.revision ELSE envelopeFile
           /\ manifest' = candidate.revision
           /\ etag' = CandidateEtag
           /\ waiting' = TRUE
           /\ workerPc' = "idle"
           /\ candidate' = NoCandidate
           /\ result' = [kind |-> "ok", changed |-> Changed, revision |-> candidate.revision]
           /\ UNCHANGED <<stateFile, faults>>
  <2>1. TypeOK'
    <3>1. Changed \in BOOLEAN
      BY Zenon DEF Changed
    <3>2. result' \in Results
      BY <1>2, <1>4, <3>1, Zenon DEF Results
    <3>3. candidate' \in Candidates
      BY <1>4, NothingTyped, RemoteSourceAssumption DEF Revisions
    <3>4. envelopeFile' \in Revisions
      BY <1>2, <1>4
    <3> QED
      BY <1>1, <1>2, <1>3, <1>4, <3>2, <3>3, <3>4 DEF IInv, TypeOK, Candidates, Results
  <2>2. Ordered'
    \* A revision that is not written is the one in memory, which is on disk.
    <3>1. CASE IsNewRevision
      BY <1>1, <1>2, <1>4, <3>1 DEF IInv, TypeOK, Ordered, Revisions
    <3>2. CASE ~IsNewRevision
      BY <1>1, <1>2, <1>4, <3>2 DEF IInv, TypeOK, Ordered, CandidateOk, IsNewRevision, Revisions
    <3> QED
      BY <3>1, <3>2
  <2>3. CandidateOk' /\ EtagsOk'
    BY <1>3, <1>4 DEF IInv, CandidateOk, EtagsOk
  <2>4. ResultOk'
    BY <1>4 DEF ResultOk
  <2>5. ControllerFollows'
    <3>1. ListOf[applied] = ListOf[manifest]
      BY <1>1 DEF IInv, ResultOk, ControllerFollows
    <3>2. CASE Changed
      BY <1>4, <3>2 DEF ControllerFollows
    <3>3. CASE ~Changed
      BY <1>1, <1>4, <3>1, <3>3 DEF ControllerFollows, Changed
    <3> QED
      BY <3>2, <3>3
  <2> QED
    BY <2>1, <2>2, <2>3, <2>4, <2>5 DEF IInv
<1>5. CASE /\ IsNewRevision
           /\ Fault(1)
           /\ envelopeFile' \in {envelopeFile, candidate.revision}
           /\ Failure(stateFile)
  <2>1. stateFile \in [revision : Revisions, etag : Revisions]
          /\ stateFile.etag \in {0, stateFile.revision}
    BY DEF IInv, TypeOK, EtagsOk
  <2>2. faults' \in 0..MaxFaults
    BY <1>5, RemoteSourceAssumption DEF Fault, IInv, TypeOK
  <2>3. envelopeFile' \in Revisions
    BY <1>2, <1>5
  <2>4. manifest <= envelopeFile'
    BY <1>2, <1>5 DEF IInv, Ordered
  <2> QED
    BY <1>1, <1>5, <2>1, <2>2, <2>3, <2>4, FailureInductive
<1> QED
  BY <1>4, <1>5 DEF Commit

\* A restart finds the envelope on disk, or nothing.
LEMMA RestartInductive == IInv /\ Restart => IInv'
<1> SUFFICES ASSUME IInv, Restart PROVE IInv'
  OBVIOUS
<1>1. PICK verified \in BOOLEAN : Fault(IF verified THEN 1 ELSE 2) /\ Load(verified)
  BY DEF Restart
<1>2. UNCHANGED <<published, expired, envelopeFile>>
  BY DEF Restart
<1>3. faults' \in 0..MaxFaults
  BY <1>1, RemoteSourceAssumption DEF Fault, IInv, TypeOK
<1> DEFINE found == IF verified THEN envelopeFile ELSE 0
<1>4. 0 \in Revisions /\ found \in Revisions /\ found <= envelopeFile
  BY RemoteSourceAssumption DEF IInv, TypeOK, Revisions
<1>5. /\ manifest' = found /\ known' = found /\ applied' = found
      /\ workerPc' = "queued" /\ candidate' = NoCandidate /\ result' = NoResult
      /\ IF MatchingState(found)
         THEN /\ etag' = stateFile.etag
              /\ waiting' \in BOOLEAN
              /\ UNCHANGED stateFile
         ELSE /\ etag' = 0
              /\ waiting' = FALSE
              /\ stateFile' \in {stateFile} \cup
                   (IF found # 0 THEN {[revision |-> found, etag |-> 0]} ELSE {})
  BY <1>1 DEF Load
<1> HIDE DEF found
<1>6. /\ stateFile' \in [revision : Revisions, etag : Revisions]
      /\ stateFile'.etag \in {0, stateFile'.revision}
      /\ etag' \in {0, found} /\ waiting' \in BOOLEAN
  <2>1. stateFile \in [revision : Revisions, etag : Revisions]
          /\ stateFile.etag \in {0, stateFile.revision}
    BY DEF IInv, TypeOK, EtagsOk
  <2>2. CASE MatchingState(found)
    BY <1>5, <2>1, <2>2 DEF MatchingState
  <2>3. CASE ~MatchingState(found)
    <3>1. [revision |-> found, etag |-> 0] \in [revision : Revisions, etag : Revisions]
            /\ [revision |-> found, etag |-> 0].etag = 0
      BY <1>4
    <3> QED
      BY <1>5, <2>1, <2>3, <3>1
  <2> QED
    BY <2>2, <2>3
<1>7. candidate' \in Candidates /\ result' \in Results
  BY <1>4, <1>5, NothingTyped
<1>8. etag' \in Revisions
  BY <1>4, <1>6
<1>9. TypeOK'
  BY <1>2, <1>3, <1>4, <1>5, <1>6, <1>7, <1>8 DEF IInv, TypeOK, Candidates, Results
<1>10. Ordered' /\ EtagsOk'
  BY <1>2, <1>4, <1>5, <1>6 DEF Ordered, EtagsOk, Revisions
<1>11. CandidateOk' /\ ResultOk' /\ ControllerFollows'
  BY <1>5 DEF CandidateOk, ResultOk, ControllerFollows, NoResult
<1> QED
  BY <1>9, <1>10, <1>11 DEF IInv

LEMMA TickInductive == IInv /\ Tick => IInv' /\ known <= known'
<1> SUFFICES ASSUME IInv, Tick PROVE IInv' /\ known <= known'
  OBVIOUS
<1>1. result' \in Results
  BY NothingTyped, RemoteSourceAssumption DEF Tick, Revisions
<1>2. known' \in Revisions /\ applied' \in Revisions
  BY DEF Tick, IInv, TypeOK
<1>3. workerPc' \in {"idle", "queued", "fetch", "save", "commit"}
  BY DEF Tick, IInv, TypeOK
<1>4. TypeOK'
  BY <1>1, <1>2, <1>3 DEF Tick, IInv, TypeOK, memory, disk, Results
<1>5. known <= known' /\ known' <= manifest
  BY DEF Tick, IInv, TypeOK, Ordered, ResultOk, Revisions
<1>6. Ordered'
  BY <1>5 DEF Tick, IInv, Ordered, memory, disk
<1>7. CandidateOk' /\ EtagsOk'
  BY DEF Tick, IInv, CandidateOk, EtagsOk, memory, disk
<1>8. ResultOk' /\ ControllerFollows'
  BY DEF Tick, IInv, ResultOk, ControllerFollows, memory, NoResult
<1> QED
  BY <1>4, <1>5, <1>6, <1>7, <1>8 DEF IInv

\* The steps that touch only the worker's place, the server or the clock.
LEMMA OtherInductive ==
    IInv /\ (Begin \/ Request \/ Publish \/ Expire \/ Elapse \/ UNCHANGED vars) => IInv'
<1> SUFFICES ASSUME IInv,
                    Begin \/ Request \/ Publish \/ Expire \/ Elapse \/ UNCHANGED vars
             PROVE  IInv'
  OBVIOUS
<1>1. UNCHANGED <<manifest, etag, stateFile, envelopeFile, candidate, result, known,
                  applied, faults>>
  BY DEF Begin, Request, Publish, Expire, Elapse, vars, memory, disk, worker
<1>2. waiting' \in BOOLEAN
  BY DEF IInv, TypeOK, Begin, Request, Publish, Expire, Elapse, vars, memory
<1>3. workerPc' = workerPc \/ (workerPc' \in {"queued", "fetch"} /\ result.kind # "ok")
  <2>1. CASE Begin
    BY <2>1 DEF Begin, IInv, ResultOk
  <2>2. CASE Request
    BY <2>2 DEF Request, MayQueue, NoResult
  <2>3. CASE UNCHANGED workerPc
    BY <2>3
  <2> QED
    BY <2>1, <2>2, <2>3 DEF Publish, Expire, Elapse, vars, worker
<1>4. published' \in Revisions /\ expired' \in 0..published'
  <2>1. published \in 0..MaxRevision /\ expired \in 0..published
    BY DEF IInv, TypeOK, Revisions
  <2>2. CASE Publish
    BY <2>1, <2>2, RemoteSourceAssumption DEF Publish, Revisions
  <2>3. CASE Expire
    BY <2>1, <2>3, RemoteSourceAssumption DEF Expire, Revisions
  <2>4. CASE UNCHANGED <<published, expired>>
    BY <2>1, <2>4 DEF Revisions
  <2> QED
    BY <2>2, <2>3, <2>4 DEF Begin, Request, Elapse, vars
<1>5. TypeOK'
  BY <1>1, <1>2, <1>3, <1>4 DEF IInv, TypeOK
<1>6. Ordered' /\ EtagsOk' /\ ControllerFollows'
  BY <1>1 DEF IInv, Ordered, EtagsOk, ControllerFollows
<1>7. CandidateOk' /\ ResultOk'
  BY <1>1, <1>3 DEF IInv, CandidateOk, ResultOk
<1> QED
  BY <1>5, <1>6, <1>7 DEF IInv

LEMMA NextInductive == IInv /\ [Next]_vars => IInv'
BY FetchInductive, FetchFailsInductive, FetchRaisesInductive, SaveInductive,
   CommitInductive, RestartInductive, TickInductive, OtherInductive
   DEF Next, Refresh

LEMMA Inductive == Spec => []IInv
<1> QED
  BY InitInductive, NextInductive, PTL DEF Spec

-----------------------------------------------------------------------------
\* Every variable keeps its type, whatever the bounds.
THEOREM TypeCorrect == Spec => []TypeOK
<1>1. IInv => TypeOK
  BY DEF IInv
<1> QED
  BY <1>1, Inductive, PTL

\* The envelope is written before its revision is used: no crash loses a revision
\* that the controller has been told of.
THEOREM DurableBeforeUseHolds == Spec => []DurableBeforeUse
<1>1. IInv => DurableBeforeUse
  BY DEF IInv, TypeOK, Ordered, DurableBeforeUse, Revisions
<1> QED
  BY <1>1, Inductive, PTL

\* No change of the list is lost between the worker's thread and the controller's.
THEOREM ControllerFollowsHolds == Spec => []ControllerFollows
<1>1. IInv => ControllerFollows
  BY DEF IInv
<1> QED
  BY <1>1, Inductive, PTL

\* A 304 can only confirm the list that is held, after any crash.
THEOREM EtagHolds == Spec => []EtagNamesEnvelope
<1>1. IInv => EtagNamesEnvelope
  BY DEF IInv, EtagsOk, EtagNamesEnvelope
<1> QED
  BY <1>1, Inductive, PTL

\* The controller's revision never goes back, except to none.
THEOREM NoRollback == Spec => NeverRollsBack
<1>1. IInv /\ [Next]_vars => [known' >= known \/ known' = 0]_known
  <2> SUFFICES ASSUME IInv, [Next]_vars PROVE known' >= known \/ known' = 0
    OBVIOUS
  <2>1. known \in Revisions /\ known <= envelopeFile
    BY DEF IInv, TypeOK, Ordered, Revisions
  <2>2. CASE Tick
    BY <2>1, <2>2, TickInductive DEF Revisions, IInv, TypeOK
  <2>3. CASE Restart
    BY <2>1, <2>3 DEF Restart, Load
  <2>4. CASE UNCHANGED known
    BY <2>1, <2>4 DEF Revisions
  <2>5. Refresh \/ Request \/ Publish \/ Expire \/ Elapse \/ UNCHANGED vars => UNCHANGED known
    BY DEF Refresh, Begin, Fetch, FetchFails, FetchRaises, Save, Commit, Request, Publish,
           Expire, Elapse, vars
  <2> QED
    BY <2>2, <2>3, <2>4, <2>5 DEF Next
<1> QED
  BY <1>1, Inductive, PTL DEF Spec, NeverRollsBack

=============================================================================
