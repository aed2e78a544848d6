------------------------- MODULE Publisher_proofs --------------------------
(***************************************************************************)
(* What the bucket holds, for all lists, lengths of the day, publish       *)
(* times, retry delays and any number of faults.                           *)
(*                                                                         *)
(* An attempt checks the bucket once, in Recover, and relies on what it    *)
(* saw until it has replaced latest.json.  StepSound says what an attempt  *)
(* may rely on at each of its steps.                                       *)
(***************************************************************************)
EXTENDS Publisher, TLAPS

\* The bucket has no list of the day on which the attempt began.
NotYetPublished == latest # NoList => Day(latest.generated) # Day(now)

StepSound ==
    /\ pc \in Working => now \in Times
    /\ pc = "recover" => previous <= latest.revision
    /\ pc = "probe" => latest.revision <= previous /\ NotYetPublished
    /\ pc \in {"release", "verify", "latest"} =>
          /\ latest.revision < payload.revision /\ payload.generated = now
          /\ NotYetPublished
    /\ pc = "latest" => Verified(payload)
    /\ pc \in {"confirm", "save"} => latest = payload

IInv == TypeOK /\ BucketBacksClaims /\ StepSound

-----------------------------------------------------------------------------
(* The operators.                                                          *)

LEMMA TimesAreNat == Times \subseteq Nat \ {0} /\ MaxTime \in Nat /\ Grace \in Nat
BY PublisherAssumption DEF Times

LEMMA DayType == ASSUME NEW t \in Nat PROVE Day(t) \in Nat
BY PublisherAssumption DEF Day

LEMMA StampType == ASSUME NEW t \in Nat PROVE Stamp(t) \in Nat
BY PublisherAssumption DEF Stamp

\* A revision is above the one before, whatever the clock shows.
LEMMA RevisionGrows ==
    ASSUME NEW t \in Nat, NEW before \in Nat
    PROVE  Revision(t, before) \in Nat \ {0} /\ before < Revision(t, before)
BY StampType DEF Revision

LEMMA DueOnType ==
    ASSUME NEW d \in Nat
    PROVE  DueOn(d) \in Nat /\ DueOn(d - 1) + DayLength = DueOn(d) /\ DueOn(d - 1) \in Int
BY PublisherAssumption DEF DueOn

LEMMA NextDueType ==
    ASSUME NEW t \in Nat, NEW last \in Nat
    PROVE  NextDue(t, last) \in Nat
<1>1. Day(t) \in Nat /\ DayLength \in Nat
  BY DayType, PublisherAssumption
<1>2. DueOn(Day(t)) \in Nat /\ DueOn(Day(t) - 1) + DayLength = DueOn(Day(t))
  BY <1>1, DueOnType
<1> QED
  BY <1>1, <1>2 DEF NextDue

LEMMA RetryDelayType == ASSUME NEW n \in Nat PROVE RetryDelay(n + 1) \in Nat
<1>1. RetrySeconds \in Seq(Nat \ {0}) /\ Len(RetrySeconds) = 3
  BY PublisherAssumption
<1>2. \A i \in 1..3 : RetrySeconds[i] \in Nat \ {0}
  <2>1. RetrySeconds \in [1..3 -> Nat \ {0}]
    BY <1>1
  <2> QED
    BY <2>1
<1>3. (IF n + 1 < 3 THEN n + 1 ELSE 3) \in 1..3
  OBVIOUS
<1>4. RetryDelay(n + 1) = RetrySeconds[IF n + 1 < 3 THEN n + 1 ELSE 3]
  BY <1>1 DEF RetryDelay
<1> QED
  BY <1>2, <1>3, <1>4

LEMMA LargerType ==
    ASSUME NEW a \in Nat, NEW b \in Nat
    PROVE  Larger(a, b) \in Nat /\ a <= Larger(a, b) /\ b <= Larger(a, b)
BY DEF Larger

LEMMA FirstDueType == ASSUME TypeOK PROVE FirstDue(clock) \in Nat
BY NextDueType, LargerType, TimesAreNat DEF FirstDue, TypeOK

\* No list is never the list of a release.
LEMMA Payloads ==
    /\ NoList \notin Payload /\ NoList.revision = 0
    /\ \A p \in Payload : p.revision \in Nat \ {0} /\ p.generated \in Times
BY DEF Payload, NoList

LEMMA LatestType == ASSUME TypeOK PROVE latest.revision \in Nat
BY Payloads DEF TypeOK

\* What GiveUp and Exit leave of the process.
LEMMA EndedAttempt ==
    ASSUME IInv, \/ GiveUp
                 \/ Exit
    PROVE  /\ pc' \in {"down", "failed"} /\ runner' \in {"none", "scheduler"}
           /\ previous' \in Nat /\ payload' = NoList /\ due' \in Nat /\ failures' \in Nat
BY DEF IInv, TypeOK, GiveUp, Exit

\* The end of an attempt that has left the bucket as it was, and state.json too.
LEMMA EndedSound ==
    ASSUME IInv, GiveUp \/ Exit, UNCHANGED <<clock, candidates, changes, now, bucket, file>>,
           faults' \in 0..MaxFaults
    PROVE  IInv'
BY EndedAttempt
   DEF IInv, bucket, TypeOK, BucketBacksClaims, Verified, StepSound, Working, NoList

LEMMA FaultType == ASSUME TypeOK, Fault PROVE faults' \in 0..MaxFaults
BY PublisherAssumption DEF TypeOK, Fault

-----------------------------------------------------------------------------
(* The invariant.                                                          *)

LEMMA InitEstablishesIInv == Init => IInv
BY PublisherAssumption, TimesAreNat
   DEF Init, IInv, TypeOK, BucketBacksClaims, StepSound, Times, NoList, NoState, Never,
       Working

\* An attempt begins, of whoever holds the lock.
LEMMA BeginKeepsIInv ==
    ASSUME IInv, Begin, runner' \in {"none", "scheduler", "once"}
    PROVE  IInv'
BY TimesAreNat
   DEF IInv, TypeOK, BucketBacksClaims, Verified, StepSound, Working, Begin, Quiet, world,
       bucket

LEMMA BootKeepsIInv == ASSUME IInv, Boot PROVE IInv'
<1>1. due' \in Nat /\ failures' \in Nat
  BY FirstDueType DEF Boot, IInv, TypeOK
<1> QED
  BY <1>1 DEF IInv, TypeOK, BucketBacksClaims, Verified, StepSound, Working, Boot, Quiet,
              world, bucket

LEMMA RecoverKeepsIInv == ASSUME IInv, Recover PROVE IInv'
<1> USE DEF Recover, Quiet, world
<1>1. CASE GiveUp
  BY <1>1, EndedSound DEF IInv, TypeOK
<1>2. CASE PublishedToday /\ pc' = "save" /\ payload' = latest
           /\ UNCHANGED <<runner, previous, due, failures>>
  BY <1>2 DEF PublishedToday, IInv, TypeOK, BucketBacksClaims, Verified, StepSound, Working,
              bucket
<1>3. CASE ~PublishedToday /\ pc' = "probe" /\ previous' = Larger(previous, latest.revision)
           /\ UNCHANGED <<runner, payload, due, failures>>
  <2>1. previous \in Nat /\ latest.revision \in Nat /\ previous <= latest.revision
    BY LatestType DEF IInv, TypeOK, StepSound
  <2>2. previous' \in Nat /\ latest.revision <= previous'
    BY <1>3, <2>1, LargerType
  <2>3. NotYetPublished
    BY <1>3, <2>1 DEF PublishedToday, NotYetPublished
  <2>4. pc = "recover" /\ now \in Times /\ UNCHANGED <<now, releases, latest, file>>
    BY DEF IInv, StepSound, Working, bucket
  <2> QED
    BY <1>3, <2>2, <2>3, <2>4
       DEF IInv, TypeOK, BucketBacksClaims, Verified, StepSound, Working, NotYetPublished
<1> QED
  BY <1>1, <1>2, <1>3

LEMMA ProbeKeepsIInv == ASSUME IInv, Probe PROVE IInv'
<1> USE DEF Probe, Quiet, world, bucket
<1>1. now \in Times /\ now \in Nat /\ previous \in Nat /\ latest.revision <= previous
  BY TimesAreNat DEF IInv, StepSound, Working, TypeOK
<1>2. latest.revision \in Nat
  BY LatestType DEF IInv
<1>3. Revision(now, previous) \in Nat \ {0} /\ latest.revision < Revision(now, previous)
  <2>1. Revision(now, previous) \in Nat \ {0} /\ previous < Revision(now, previous)
    BY <1>1, RevisionGrows
  <2> QED
    BY <1>1, <1>2, <2>1
<1>4. /\ payload' \in Payload /\ payload'.generated = now
      /\ latest.revision < payload'.revision
  BY <1>1, <1>3 DEF Payload, IInv, TypeOK
<1>5. NotYetPublished
  BY DEF IInv, StepSound
<1> QED
  BY <1>1, <1>4, <1>5, Payloads
     DEF IInv, TypeOK, BucketBacksClaims, Verified, StepSound, Working, NotYetPublished

\* A release with a new number is stored and no other one is touched.
LEMMA UploadKeepsReleases ==
    ASSUME IInv, pc = "release", payload.revision \notin DOMAIN releases,
           Upload(payload.revision), UNCHANGED <<latest, payload, file>>
    PROVE  /\ \A r \in DOMAIN releases' : releases'[r] \in Payload
           /\ \A r \in DOMAIN releases : r \in DOMAIN releases' /\ releases'[r] = releases[r]
           /\ Verified(payload)' /\ BucketBacksClaims'
<1>1. payload \in Payload
  BY DEF IInv, TypeOK, Working
<1>2. \A r \in DOMAIN releases : r \in DOMAIN releases' /\ releases'[r] = releases[r]
  BY DEF Upload
<1>3. payload.revision \in DOMAIN releases' /\ releases'[payload.revision] = payload
  BY DEF Upload
<1>4. DOMAIN releases' = DOMAIN releases \union {payload.revision}
  BY DEF Upload
<1>5. \A r \in DOMAIN releases' : releases'[r] \in Payload
  BY <1>1, <1>2, <1>3, <1>4 DEF IInv, TypeOK
<1> QED
  BY <1>2, <1>3, <1>5 DEF IInv, BucketBacksClaims, Verified

LEMMA PutReleaseKeepsIInv == ASSUME IInv, PutRelease PROVE IInv'
<1> USE DEF PutRelease, Quiet, world, bucket
<1>1. CASE UNCHANGED releases /\ GiveUp
  BY <1>1, EndedSound DEF IInv, TypeOK
<1>2. CASE UNCHANGED releases /\ GoTo("verify")
  BY <1>2 DEF GoTo, IInv, TypeOK, BucketBacksClaims, Verified, StepSound, Working,
              NotYetPublished
<1>3. CASE payload.revision \notin DOMAIN releases /\ Upload(payload.revision)
           /\ GoTo("verify")
  BY <1>3, UploadKeepsReleases
     DEF GoTo, IInv, TypeOK, StepSound, Working, NotYetPublished
<1> QED
  BY <1>1, <1>2, <1>3

LEMMA VerifyReleaseKeepsIInv == ASSUME IInv, VerifyRelease PROVE IInv'
<1> USE DEF VerifyRelease, Quiet, world, bucket
<1>1. CASE GiveUp
  BY <1>1, EndedSound DEF IInv, TypeOK
<1>2. CASE Verified(payload) /\ GoTo("latest")
  BY <1>2 DEF GoTo, IInv, TypeOK, BucketBacksClaims, Verified, StepSound, Working,
              NotYetPublished
<1> QED
  BY <1>1, <1>2

\* latest.json is replaced by a copy of a release that is out, with a larger revision.
LEMMA LatestReplaced ==
    ASSUME IInv, pc = "latest", latest' = payload, UNCHANGED <<releases, file>>
    PROVE  /\ BucketBacksClaims' /\ latest' \in Payload
           /\ latest.revision < latest'.revision
           /\ latest # NoList => Day(latest'.generated) # Day(latest.generated)
<1>1. payload \in Payload /\ Verified(payload) /\ payload.generated = now
      /\ latest.revision < payload.revision /\ NotYetPublished
  BY DEF IInv, TypeOK, StepSound, Working
<1>2. file.revision \in Nat /\ latest.revision \in Nat /\ file.revision <= latest.revision
  BY LatestType DEF IInv, TypeOK, BucketBacksClaims
<1>3. payload.revision \in Nat
  BY <1>1, Payloads
<1> QED
  BY <1>1, <1>2, <1>3 DEF BucketBacksClaims, Verified, NotYetPublished

LEMMA PutLatestKeepsIInv == ASSUME IInv, PutLatest PROVE IInv'
BY LatestReplaced
   DEF PutLatest, Quiet, world, bucket, GoTo, IInv, TypeOK, StepSound, Working

LEMMA ConfirmLatestKeepsIInv == ASSUME IInv, ConfirmLatest PROVE IInv'
<1> USE DEF ConfirmLatest, Quiet, world, bucket
<1>1. CASE GiveUp
  BY <1>1, EndedSound DEF IInv, TypeOK
<1>2. CASE latest = payload /\ GoTo("save")
  BY <1>2 DEF GoTo, IInv, TypeOK, BucketBacksClaims, Verified, StepSound, Working,
              NotYetPublished
<1> QED
  BY <1>1, <1>2

LEMMA SaveKeepsIInv == ASSUME IInv, Save PROVE IInv'
<1> USE DEF Save, Quiet, world, bucket
<1>1. payload \in Payload /\ latest = payload /\ now \in Nat
  BY TimesAreNat DEF IInv, TypeOK, StepSound, Working
<1>2. /\ file' \in [revision : Nat, success : Nat, failures : Nat, retry : Nat]
      /\ file'.revision = latest.revision
  BY <1>1, Payloads DEF Never
<1>3. BucketBacksClaims'
  BY <1>1, <1>2, Payloads DEF IInv, BucketBacksClaims, Verified
<1>4. CASE Exit
  BY <1>2, <1>3, <1>4, EndedAttempt DEF IInv, TypeOK, StepSound, Working
<1>5. CASE GoTo("note")
  BY <1>2, <1>3, <1>5 DEF GoTo, IInv, TypeOK, StepSound, Working
<1> QED
  BY <1>4, <1>5

LEMMA NoteSuccessKeepsIInv == ASSUME IInv, NoteSuccess PROVE IInv'
<1> USE DEF NoteSuccess, Quiet, world, bucket
<1>1. clock \in Nat /\ due' \in Nat
  BY TimesAreNat, NextDueType DEF IInv, TypeOK
<1>2. /\ file' \in [revision : Nat, success : Nat, failures : Nat, retry : Nat]
      /\ file'.revision = file.revision
  BY <1>1 DEF IInv, TypeOK, Never
<1> QED
  BY <1>1, <1>2 DEF IInv, TypeOK, BucketBacksClaims, Verified, StepSound, Working, NoList

LEMMA NoteFailureKeepsIInv == ASSUME IInv, NoteFailure PROVE IInv'
<1> USE DEF NoteFailure, Quiet, world, bucket
<1>1. failures' \in Nat /\ due' \in Nat
  BY TimesAreNat, RetryDelayType DEF IInv, TypeOK
<1>2. /\ file' \in [revision : Nat, success : Nat, failures : Nat, retry : Nat]
      /\ file'.revision = file.revision
  BY <1>1 DEF IInv, TypeOK
<1> QED
  BY <1>1, <1>2 DEF IInv, TypeOK, BucketBacksClaims, Verified, StepSound, Working

LEMMA UploadFailsKeepsIInv == ASSUME IInv, UploadFails PROVE IInv'
<1> USE DEF UploadFails, world
<1>1. /\ faults' \in 0..MaxFaults
      /\ pc' \in {"down", "failed"} /\ runner' \in {"none", "scheduler"}
      /\ previous' \in Nat /\ payload' = NoList /\ due' \in Nat /\ failures' \in Nat
  BY FaultType, EndedAttempt DEF IInv
<1>2. /\ BucketBacksClaims' /\ latest' \in Payload \union {NoList}
      /\ \A r \in DOMAIN releases' : releases'[r] \in Payload
  <2>1. CASE pc = "release"
    <3>1. payload.revision \notin DOMAIN releases /\ Upload(payload.revision)
          /\ UNCHANGED <<latest, file>>
      BY <2>1
    <3>2. payload \in Payload
      BY <2>1 DEF IInv, TypeOK, Working
    <3>3. \A r \in DOMAIN releases' :
             releases'[r] = IF r = payload.revision THEN payload ELSE releases[r]
      BY <3>1 DEF Upload
    <3>4. DOMAIN releases' = DOMAIN releases \union {payload.revision}
      BY <3>1 DEF Upload
    <3> QED
      BY <3>1, <3>2, <3>3, <3>4 DEF IInv, TypeOK, BucketBacksClaims, Verified
  <2>2. CASE pc = "latest"
    <3>1. latest' = payload /\ UNCHANGED <<releases, file>>
      BY <2>2
    <3> QED
      BY <2>2, <3>1, LatestReplaced DEF IInv, TypeOK
  <2> QED
    BY <2>1, <2>2
<1> QED
  BY <1>1, <1>2 DEF IInv, TypeOK, StepSound, Working

LEMMA CallFailsKeepsIInv == ASSUME IInv, CallFails PROVE IInv'
BY EndedSound, FaultType DEF CallFails, world, IInv

LEMMA DieKeepsIInv == ASSUME IInv, Die PROVE IInv'
BY EndedSound, FaultType DEF Die, world, IInv

LEMMA LoseStateKeepsIInv == ASSUME IInv, LoseState PROVE IInv'
<1> USE DEF LoseState, world, process, bucket
<1>1. faults' \in 0..MaxFaults /\ latest.revision \in Nat
  BY FaultType, LatestType DEF IInv
<1>2. /\ file' \in [revision : Nat, success : Nat, failures : Nat, retry : Nat]
      /\ file'.revision = 0
  BY DEF NoState, Never
<1> QED
  BY <1>1, <1>2
     DEF IInv, TypeOK, BucketBacksClaims, Verified, StepSound, NotYetPublished

\* The steps of the world, which change clock, candidates and changes only.
LEMMA WorldKeepsIInv ==
    ASSUME IInv, Tick \/ SetBack \/ Edit \/ UNCHANGED vars
    PROVE  IInv'
<1>1. UNCHANGED <<process, now, bucket, file, faults>>
  BY DEF Tick, SetBack, Edit, vars
<1>2. clock' \in Times /\ candidates' \in Lists /\ changes' \in SUBSET Changes
  <2>1. CASE Tick
    BY <2>1, TimesAreNat DEF Tick, IInv, TypeOK, Times
  <2>2. CASE SetBack
    <3>1. changes' \in SUBSET Changes
      BY <2>2 DEF SetBack, Change, Changes, IInv, TypeOK
    <3>2. PICK t \in 1..(clock - 1) : clock' = t
      BY <2>2 DEF SetBack
    <3>3. clock' \in Times
      BY <3>2, TimesAreNat DEF IInv, TypeOK, Times
    <3> QED
      BY <2>2, <3>1, <3>3 DEF SetBack, IInv, TypeOK
  <2>3. CASE Edit
    BY <2>3 DEF Edit, Change, Changes, IInv, TypeOK
  <2>4. CASE UNCHANGED vars
    BY <2>4 DEF vars, world, IInv, TypeOK
  <2> QED
    BY <2>1, <2>2, <2>3, <2>4
<1> QED
  BY <1>1, <1>2
     DEF process, bucket, IInv, TypeOK, BucketBacksClaims, Verified, StepSound,
         NotYetPublished

LEMMA StepKeepsIInv == ASSUME IInv, [Next]_vars PROVE IInv'
<1>1. CASE Boot
  BY <1>1, BootKeepsIInv
<1>2. CASE PublishOnce
  BY <1>2, BeginKeepsIInv DEF PublishOnce
<1>3. CASE Wake
  BY <1>3, BeginKeepsIInv DEF Wake, IInv, TypeOK
<1>4. CASE Recover
  BY <1>4, RecoverKeepsIInv
<1>5. CASE Probe
  BY <1>5, ProbeKeepsIInv
<1>6. CASE PutRelease
  BY <1>6, PutReleaseKeepsIInv
<1>7. CASE VerifyRelease
  BY <1>7, VerifyReleaseKeepsIInv
<1>8. CASE PutLatest
  BY <1>8, PutLatestKeepsIInv
<1>9. CASE ConfirmLatest
  BY <1>9, ConfirmLatestKeepsIInv
<1>10. CASE Save
  BY <1>10, SaveKeepsIInv
<1>11. CASE NoteSuccess
  BY <1>11, NoteSuccessKeepsIInv
<1>12. CASE NoteFailure
  BY <1>12, NoteFailureKeepsIInv
<1>13. CASE CallFails
  BY <1>13, CallFailsKeepsIInv
<1>14. CASE UploadFails
  BY <1>14, UploadFailsKeepsIInv
<1>15. CASE Die
  BY <1>15, DieKeepsIInv
<1>16. CASE LoseState
  BY <1>16, LoseStateKeepsIInv
<1>17. CASE Tick \/ SetBack \/ Edit \/ UNCHANGED vars
  BY <1>17, WorldKeepsIInv
<1> QED
  BY <1>1, <1>2, <1>3, <1>4, <1>5, <1>6, <1>7, <1>8, <1>9, <1>10, <1>11, <1>12, <1>13,
     <1>14, <1>15, <1>16, <1>17 DEF Next, Run, Rest

LEMMA Invariance == Spec => []IInv
<1>1. Init => IInv
  BY InitEstablishesIInv
<1>2. IInv /\ [Next]_vars => IInv'
  BY StepKeepsIInv
<1> QED
  BY <1>1, <1>2, PTL DEF Spec

\* Every variable keeps its type (service.py, scheduler.py).
THEOREM TypeCorrect == Spec => []TypeOK
<1>1. IInv => TypeOK
  BY DEF IInv
<1> QED
  BY <1>1, Invariance, PTL

\* latest.json is a copy of a release that is out, and state.json claims no success
\* that latest.json does not show, whatever failed in between (service.py, run).
THEOREM BucketBacks == Spec => []BucketBacksClaims
<1>1. IInv => BucketBacksClaims
  BY DEF IInv
<1> QED
  BY <1>1, Invariance, PTL

-----------------------------------------------------------------------------
(* The bucket moves forward, from day to day.                              *)

LEMMA DayBounds ==
    ASSUME NEW t \in Nat
    PROVE  Day(t) \in Nat /\ Day(t) * DayLength <= t /\ t < Day(t) * DayLength + DayLength
BY PublisherAssumption DEF Day

LEMMA ProductGrows ==
    ASSUME NEW a \in Int, NEW b \in Int, a <= b, NEW n \in Nat
    PROVE  a * n <= b * n
OBVIOUS

\* A day begins before t if it is not after the day of t, and conversely.
LEMMA DayOfTime ==
    ASSUME NEW t \in Nat, NEW d \in Nat, d * DayLength <= t
    PROVE  d <= Day(t)
<1>1. DayLength \in Nat \ {0}
  BY PublisherAssumption
<1>2. Day(t) \in Nat /\ t < Day(t) * DayLength + DayLength
  BY DayBounds
<1> SUFFICES ASSUME Day(t) + 1 <= d PROVE FALSE
  BY <1>2
<1>3. (Day(t) + 1) * DayLength <= d * DayLength
  BY <1>1, <1>2, ProductGrows
<1>4. (Day(t) + 1) * DayLength = Day(t) * DayLength + DayLength
  BY <1>1, <1>2
<1>5. d * DayLength \in Int /\ Day(t) * DayLength \in Int
  BY <1>1, <1>2
<1> QED
  BY <1>1, <1>2, <1>3, <1>4, <1>5

LEMMA DayGrows ==
    ASSUME NEW t \in Nat, NEW u \in Nat, t <= u
    PROVE  Day(t) <= Day(u)
<1>1. Day(t) \in Nat /\ Day(t) * DayLength <= t
  BY DayBounds
<1>2. Day(t) * DayLength \in Int
  BY <1>1, PublisherAssumption
<1> QED
  BY <1>1, <1>2, DayOfTime

\* Unless the clock is set back, no list is from the future of the attempt that goes on.
ClockSound ==
    "set back" \notin changes =>
        /\ now <= clock /\ (pc \in Working => now = clock)
        /\ latest # NoList => latest.generated <= now

LEMMA OrderOfTimes ==
    ASSUME NEW a \in Nat, NEW b \in Nat
    PROVE  /\ a <= a
           /\ a <= b => a <= b + 1
           /\ a # b /\ a <= b => a < b
OBVIOUS

LEMMA OrderIsTransitive ==
    ASSUME NEW a \in Nat, NEW b \in Nat, NEW c \in Nat, a <= b, b <= c
    PROVE  a <= c
OBVIOUS

LEMMA ClocksAreNat ==
    ASSUME IInv
    PROVE  clock \in Nat /\ now \in Nat /\ (latest # NoList => latest.generated \in Nat)
<1>1. /\ clock \in Times /\ now \in Times \union {Never}
      /\ latest \in Payload \union {NoList}
  BY DEF IInv, TypeOK
<1>2. clock \in Nat /\ now \in Nat
  BY <1>1, TimesAreNat DEF Never
<1>3. latest # NoList => latest \in Payload
  BY <1>1
<1>4. latest \in Payload => latest.generated \in Times
  BY DEF Payload
<1> QED
  BY <1>2, <1>3, <1>4, TimesAreNat

LEMMA StepKeepsClockSound == ASSUME IInv, ClockSound, [Next]_vars PROVE ClockSound'
<1> SUFFICES ASSUME "set back" \notin changes'
             PROVE  /\ now' <= clock' /\ (pc' \in Working => now' = clock')
                    /\ latest' # NoList => latest'.generated <= now'
  BY DEF ClockSound
<1>1. clock \in Nat /\ now \in Nat /\ (latest # NoList => latest.generated \in Nat)
  BY ClocksAreNat
<1>2. CASE PutLatest \/ (UploadFails /\ latest' # latest)
  <2>1. /\ latest' = payload /\ pc = "latest" /\ now' = now
        /\ clock' = clock /\ changes' = changes /\ pc \in Working
    BY <1>2 DEF PutLatest, UploadFails, Quiet, world, Working
  <2>2. payload.generated = now
    BY <2>1 DEF IInv, StepSound
  <2> QED
    BY <1>1, <2>1, <2>2 DEF ClockSound
<1>3. CASE PublishOnce \/ Wake
  <2>1. now' = clock /\ clock' = clock /\ changes' = changes /\ latest' = latest
    BY <1>3 DEF PublishOnce, Wake, Begin, bucket, Quiet, world
  <2>2. now <= clock /\ (latest # NoList => latest.generated <= now)
    BY <2>1 DEF ClockSound
  <2>3. latest # NoList => latest.generated <= clock
    BY <1>1, <2>2, OrderIsTransitive, Zenon
  <2>4. clock <= clock
    BY <1>1, OrderOfTimes, Zenon
  <2> QED
    BY <2>1, <2>3, <2>4, Zenon
<1>4. CASE Tick
  <2>1. /\ now' = now /\ clock' = clock + 1 /\ changes' = changes /\ latest' = latest
        /\ pc' \notin Working
    BY <1>4 DEF Tick, bucket, process
  <2>2. now <= clock /\ (latest # NoList => latest.generated <= now)
    BY <2>1 DEF ClockSound
  <2>3. now <= clock + 1
    BY <1>1, <2>2, OrderOfTimes, Zenon
  <2> QED
    BY <2>1, <2>2, <2>3, Zenon
<1>5. CASE SetBack
  BY <1>5 DEF SetBack, Change
<1>6. CASE Edit
  <2>1. /\ now' = now /\ clock' = clock /\ latest' = latest /\ pc' = pc
        /\ "set back" \notin changes
    BY <1>6 DEF Edit, Change, bucket, process
  <2> QED
    BY <2>1 DEF ClockSound
<1>7. CASE /\ UNCHANGED <<now, clock, changes, latest>>
           /\ pc \in Working \/ pc' \notin Working
  BY <1>7 DEF ClockSound
<1> QED
  <2>1. CASE Recover \/ Probe \/ PutRelease \/ VerifyRelease \/ ConfirmLatest \/ Save
    <3>1. pc \in Working
      BY <2>1 DEF Recover, Probe, PutRelease, VerifyRelease, ConfirmLatest, Save, Working
    <3>2. UNCHANGED <<now, clock, changes, latest>>
      BY <2>1 DEF Recover, Probe, PutRelease, VerifyRelease, ConfirmLatest, Save, Quiet,
                  world, bucket
    <3> QED
      BY <1>7, <3>1, <3>2
  <2>2. CASE Boot \/ NoteSuccess \/ NoteFailure \/ Die \/ LoseState
    <3>1. UNCHANGED <<now, clock, changes, latest>>
      BY <2>2 DEF Boot, NoteSuccess, NoteFailure, Die, LoseState, Quiet, world, bucket
    <3>2. pc' \notin Working \/ pc' = pc
      BY <2>2 DEF Boot, NoteSuccess, NoteFailure, Die, LoseState, Exit, Working, process
    <3> QED
      BY <1>7, <3>1, <3>2
  <2>3. CASE CallFails
    <3>1. UNCHANGED <<now, clock, changes, latest>> /\ pc \in Working
      BY <2>3 DEF CallFails, world, bucket
    <3> QED
      BY <1>7, <3>1
  <2>4. CASE UploadFails /\ latest' = latest
    <3>1. UNCHANGED <<now, clock, changes, latest>> /\ pc \in Working
      BY <2>4 DEF UploadFails, world, Working
    <3> QED
      BY <1>7, <3>1
  <2>5. CASE UNCHANGED vars
    <3>1. UNCHANGED <<now, clock, changes, latest, pc>>
      BY <2>5 DEF vars, world, bucket, process
    <3> QED
      BY <1>7, <3>1
  <2> QED
    BY <1>2, <1>3, <1>4, <1>5, <1>6, <2>1, <2>2, <2>3, <2>4, <2>5 DEF Next, Run, Rest

LEMMA ClockInvariance == Spec => []ClockSound
<1>1. Init => ClockSound
  BY DEF Init, ClockSound, Never, Working
<1>2. IInv /\ ClockSound /\ [Next]_vars => ClockSound'
  BY StepKeepsClockSound
<1> QED
  BY <1>1, <1>2, Invariance, PTL DEF Spec

\* A list is published by an attempt that found none of its day.
LEMMA LatestAnotherDay ==
    ASSUME IInv, ClockSound, pc = "latest", latest' = payload
    PROVE  AnotherDay
<1> SUFFICES ASSUME latest # NoList
             PROVE  /\ Day(latest'.generated) # Day(latest.generated)
                    /\ "set back" \notin changes => Day(latest.generated) < Day(latest'.generated)
  BY DEF AnotherDay
<1>1. latest'.generated = now /\ Day(latest.generated) # Day(now)
  BY DEF IInv, StepSound, NotYetPublished
<1>2. now \in Nat /\ latest.generated \in Nat
  BY ClocksAreNat
<1>3. Day(latest.generated) \in Nat /\ Day(now) \in Nat
  BY <1>2, DayType
<1>4. "set back" \notin changes => Day(latest.generated) <= Day(now)
  BY <1>2, DayGrows DEF ClockSound
<1>5. Day(latest'.generated) = Day(now)
  BY <1>1
<1> DEFINE before == Day(latest.generated)
           after  == Day(now)
<1>6. before # after /\ before \in Nat /\ after \in Nat
      /\ ("set back" \notin changes => before <= after)
  BY <1>1, <1>3, <1>4
<1> HIDE DEF before, after
<1>7. before <= after => before < after
  BY <1>6, OrderOfTimes, Zenon
<1>8. after # before /\ ("set back" \notin changes => before < after)
  BY <1>6, <1>7, Zenon
<1> QED
  BY <1>5, <1>8 DEF before, after

\* How a step may change the bucket.
LEMMA BucketStep ==
    ASSUME IInv, ClockSound, [Next]_vars
    PROVE  BucketGrows /\ AnotherDay
<1> USE DEF BucketGrows, AnotherDay
<1>1. CASE UNCHANGED bucket
  BY <1>1 DEF bucket
<1>2. CASE PutLatest
  BY <1>2, LatestReplaced, LatestAnotherDay DEF PutLatest, IInv, TypeOK
<1>3. CASE PutRelease
  <2>1. UNCHANGED latest
    BY <1>3 DEF PutRelease
  <2>2. CASE UNCHANGED releases
    BY <2>1, <2>2
  <2>3. CASE payload.revision \notin DOMAIN releases /\ Upload(payload.revision)
    BY <2>1, <2>3 DEF Upload
  <2> QED
    BY <1>3, <2>2, <2>3 DEF PutRelease
<1>4. CASE UploadFails
  <2>1. CASE UNCHANGED latest /\ payload.revision \notin DOMAIN releases
             /\ Upload(payload.revision)
    BY <2>1 DEF Upload
  <2>2. CASE pc = "latest" /\ latest' = payload /\ UNCHANGED releases
    <3>1. UNCHANGED file
      BY <1>4 DEF UploadFails
    <3> QED
      BY <2>2, <3>1, LatestReplaced, LatestAnotherDay DEF IInv, TypeOK
  <2> QED
    BY <1>4, <2>1, <2>2 DEF UploadFails
<1>5. \/ UNCHANGED bucket
      \/ PutLatest \/ PutRelease \/ UploadFails
  BY Zenon
     DEF Next, Run, Boot, PublishOnce, Wake, Begin, Recover, Probe, VerifyRelease,
         ConfirmLatest, Save, NoteSuccess, NoteFailure, CallFails, Die, LoseState, Tick,
         SetBack, Edit, Rest, vars, bucket
<1> QED
  BY <1>1, <1>2, <1>3, <1>4, <1>5

\* The revision of latest.json only grows and no release is changed or removed, through
\* lost state files and clocks that are set back (service.py, _recover_remote_commit).
THEOREM BucketForward == Spec => BucketMovesForward
<1>1. IInv /\ ClockSound /\ [Next]_vars => [BucketGrows]_vars
  BY BucketStep
<1> QED
  BY <1>1, Invariance, ClockInvariance, PTL DEF Spec, BucketMovesForward

\* The days of the published lists follow one another, so that each day gets at most one,
\* also after an attempt that died before it could record its success; a clock that is
\* set back only allows a list of another day in between (service.py, run).
THEOREM OneListForADay == Spec => OneListADay
<1>1. IInv /\ ClockSound /\ [Next]_vars => [AnotherDay]_vars
  BY BucketStep
<1> QED
  BY <1>1, Invariance, ClockInvariance, PTL DEF Spec, OneListADay

-----------------------------------------------------------------------------
(* No day is missed.                                                       *)

\* The clock has not been set back, and the publish time is not midnight.
Steady == "set back" \notin changes /\ 0 < PublishAt

\* Every day whose publish time is not after t has its list, or that of a later day.
Covered(t) ==
    \A d \in Nat : DueOn(d) <= t => latest # NoList /\ d <= Day(latest.generated)

\* A sleep without failures covers the days until its end.
SleepCovers ==
    pc = "sleep" /\ failures = 0 /\ clock < due =>
        \A d \in Nat : Day(clock) <= d /\ DueOn(d) < due =>
            latest # NoList /\ d <= Day(latest.generated)

\* What is published carries the time of its attempt, and successes are recorded of
\* days that have their list.
SteadySound ==
    /\ now <= clock /\ (latest # NoList => latest.generated <= now)
    /\ pc = "confirm" => latest.generated = now
    /\ pc \in {"save", "note"} => latest # NoList /\ Day(latest.generated) = Day(now)
    /\ pc = "note" => clock <= now + 1
    /\ file.success # Never => Covered(file.success)
    /\ SleepCovers

DayInv == /\ pc \in Working => clock = now
          /\ Steady => SteadySound

\* Publish times follow each other as their days do.
LEMMA DueGrows ==
    ASSUME NEW d \in Nat, NEW e \in Nat, d <= e
    PROVE  DueOn(d) <= DueOn(e)
<1>1. d * DayLength <= e * DayLength
  BY PublisherAssumption, ProductGrows
<1> QED
  BY <1>1, PublisherAssumption DEF DueOn

LEMMA NextDay ==
    ASSUME NEW d \in Nat
    PROVE  DueOn(d) + DayLength = DueOn(d + 1)
BY PublisherAssumption DEF DueOn

\* A publish time that has come belongs to this day or one before; one that comes with
\* the next tick too, unless it is midnight.
LEMMA DueBelongs ==
    ASSUME NEW t \in Nat, NEW d \in Nat,
           DueOn(d) <= t \/ (0 < PublishAt /\ DueOn(d) <= t + 1)
    PROVE  d <= Day(t)
<1>1. d * DayLength \in Int /\ PublishAt \in Nat
  BY PublisherAssumption
<1>2. d * DayLength <= t
  BY <1>1 DEF DueOn
<1> QED
  BY <1>2, DayOfTime

\* Until the next due time there is no day but those that are covered already.
LEMMA NextDueCovers ==
    ASSUME IInv, NEW t \in Nat, NEW last \in Nat,
           last # Never => Covered(last), t < NextDue(t, last)
    PROVE  \A d \in Nat : Day(t) <= d /\ DueOn(d) < NextDue(t, last) =>
               latest # NoList /\ d <= Day(latest.generated)
<1> SUFFICES ASSUME NEW d \in Nat, Day(t) <= d, DueOn(d) < NextDue(t, last)
             PROVE  latest # NoList /\ d <= Day(latest.generated)
  OBVIOUS
<1>1. Day(t) \in Nat /\ DayLength \in Nat
  BY DayType, PublisherAssumption
<1>2. /\ DueOn(Day(t)) \in Nat /\ DueOn(d) \in Nat
      /\ DueOn(Day(t) - 1) \in Int /\ DueOn(Day(t) - 1) + DayLength = DueOn(Day(t))
  BY <1>1, DueOnType
<1>3. DueOn(Day(t)) <= DueOn(d)
  BY <1>1, DueGrows
<1>4. CASE t < DueOn(Day(t))
  <2>1. NextDue(t, last) = DueOn(Day(t))
    BY <1>2, <1>4 DEF NextDue
  <2> QED
    BY <1>2, <1>3, <2>1
<1>5. CASE DueOn(Day(t)) <= t
  <2>1. /\ last # Never /\ DueOn(Day(t)) <= last
        /\ NextDue(t, last) = DueOn(Day(t)) + DayLength
    BY <1>2, <1>5 DEF NextDue
  <2>2. d <= Day(t)
    <3> SUFFICES ASSUME Day(t) + 1 <= d PROVE FALSE
      BY <1>1
    <3>1. DueOn(Day(t) + 1) <= DueOn(d)
      BY <1>1, DueGrows
    <3>2. DueOn(Day(t) + 1) = DueOn(Day(t)) + DayLength
      BY <1>1, NextDay
    <3> QED
      BY <1>1, <1>2, <2>1, <3>1, <3>2
  <2>3. DueOn(d) <= last
    BY <1>1, <1>2, <2>1, <2>2, DueGrows
  <2> QED
    BY <2>1, <2>3 DEF Covered
<1> QED
  BY <1>2, <1>4, <1>5

\* What is covered stays covered while the list stays or gives way to a later one.
LEMMA CoverStays ==
    ASSUME IInv, IInv', SteadySound, NEW t, Covered(t),
           \/ UNCHANGED latest
           \/ latest' \in Payload /\ latest'.generated = now
    PROVE  Covered(t)'
<1>1. CASE UNCHANGED latest
  BY <1>1 DEF Covered
<1>2. CASE latest' \in Payload /\ latest'.generated = now
  <2> SUFFICES ASSUME NEW d \in Nat, DueOn(d) <= t, latest # NoList,
                      d <= Day(latest.generated)
               PROVE  latest' # NoList /\ d <= Day(latest'.generated)
    BY DEF Covered
  <2>1. latest \in Payload /\ latest.generated \in Nat /\ latest.generated <= now
    BY Payloads, TimesAreNat DEF IInv, TypeOK, SteadySound
  <2>2. latest'.generated \in Nat
    BY <1>2, Payloads, TimesAreNat
  <2>3. /\ Day(latest.generated) <= Day(latest'.generated)
        /\ Day(latest.generated) \in Nat /\ Day(latest'.generated) \in Nat
    BY <1>2, <2>1, <2>2, DayGrows, DayType
  <2> QED
    BY <1>2, <2>3, Payloads
<1> QED
  BY <1>1, <1>2

\* A step of an attempt that goes on or ends without a success.
LEMMA AttemptKeepsDayInv ==
    ASSUME IInv, IInv', DayInv, pc \in Working, UNCHANGED <<clock, changes, now, file>>,
           pc' \in Working \union {"failed", "down"},
           \/ UNCHANGED latest
           \/ latest' \in Payload /\ latest'.generated = now,
           pc' = "confirm" => latest'.generated = now,
           Steady /\ pc' = "save" =>
               latest' # NoList /\ Day(latest'.generated) = Day(now)
    PROVE  DayInv'
<1>1. clock' = now'
  BY DEF DayInv
<1> SUFFICES ASSUME Steady' PROVE SteadySound'
  BY <1>1 DEF DayInv
<1>2. Steady /\ SteadySound
  BY DEF DayInv, Steady
<1>3. now \in Nat
  BY TimesAreNat DEF IInv, StepSound
<1>4. latest' # NoList => latest'.generated <= now
  BY <1>2, <1>3 DEF SteadySound
<1>5. pc' \notin {"note", "sleep"}
  BY DEF Working
<1>6. file.success # Never => Covered(file.success)'
  BY <1>2, CoverStays DEF SteadySound
<1>7. file'.success # Never => Covered(file.success)'
  BY <1>6
<1> QED
  BY <1>1, <1>2, <1>4, <1>5, <1>7 DEF SteadySound, SleepCovers

LEMMA ReadsKeepDayInv ==
    ASSUME IInv, IInv', DayInv, Recover \/ Probe \/ VerifyRelease \/ ConfirmLatest
    PROVE  DayInv'
<1>1. UNCHANGED <<clock, changes, now, file, latest>> /\ pc \in Working
  BY DEF Recover, Probe, VerifyRelease, ConfirmLatest, Quiet, world, bucket, Working
<1>2. CASE Recover
  <2>1. \/ pc' \in {"failed", "down", "probe"}
        \/ pc' = "save" /\ latest # NoList /\ Day(latest.generated) = Day(now)
    BY <1>2 DEF Recover, GiveUp, Exit, PublishedToday
  <2> QED
    BY <1>1, <2>1, AttemptKeepsDayInv DEF Working
<1>3. CASE Probe
  BY <1>1, <1>3, AttemptKeepsDayInv DEF Probe, Working
<1>4. CASE VerifyRelease
  <2>1. pc' \in {"failed", "down", "latest"}
    BY <1>4 DEF VerifyRelease, GiveUp, Exit, GoTo
  <2> QED
    BY <1>1, <2>1, AttemptKeepsDayInv DEF Working
<1>5. CASE ConfirmLatest
  <2>1. CASE pc' = "save" /\ latest = payload
    <3>1. latest # NoList
      BY <1>5, Payloads DEF ConfirmLatest, IInv, TypeOK, Working, StepSound
    <3>2. Steady => Day(latest.generated) = Day(now)
      BY <1>5 DEF ConfirmLatest, DayInv, SteadySound
    <3> QED
      BY <1>1, <2>1, <3>1, <3>2, AttemptKeepsDayInv DEF Working
  <2>2. CASE pc' \in {"failed", "down"}
    BY <1>1, <2>2, AttemptKeepsDayInv DEF Working
  <2> QED
    BY <1>5, <2>1, <2>2 DEF ConfirmLatest, GiveUp, Exit, GoTo
<1> QED
  BY <1>2, <1>3, <1>4, <1>5

LEMMA WritesKeepDayInv ==
    ASSUME IInv, IInv', DayInv, PutRelease \/ PutLatest
    PROVE  DayInv'
<1>1. UNCHANGED <<clock, changes, now, file>> /\ pc \in Working
  BY DEF PutRelease, PutLatest, Quiet, world, Working
<1>2. CASE PutRelease
  <2>1. UNCHANGED latest /\ pc' \in {"failed", "down", "verify"}
    BY <1>2 DEF PutRelease, GiveUp, Exit, GoTo
  <2> QED
    BY <1>1, <2>1, AttemptKeepsDayInv DEF Working
<1>3. CASE PutLatest
  <2>1. /\ latest' = payload /\ pc' = "confirm"
        /\ payload \in Payload /\ payload.generated = now
    BY <1>3 DEF PutLatest, GoTo, IInv, TypeOK, StepSound, Working
  <2> QED
    BY <1>1, <2>1, AttemptKeepsDayInv DEF Working
<1> QED
  BY <1>2, <1>3

LEMMA FailuresKeepDayInv ==
    ASSUME IInv, IInv', DayInv, CallFails \/ UploadFails
    PROVE  DayInv'
<1>1. UNCHANGED <<clock, changes, now, file>> /\ pc \in Working /\ pc' \in {"failed", "down"}
  BY DEF CallFails, UploadFails, world, Working, GiveUp, Exit
<1>2. CASE UNCHANGED latest
  BY <1>1, <1>2, AttemptKeepsDayInv DEF Working
<1>3. CASE pc = "latest" /\ latest' = payload
  <2>1. payload \in Payload /\ payload.generated = now
    BY <1>3 DEF IInv, TypeOK, StepSound, Working
  <2> QED
    BY <1>1, <1>3, <2>1, AttemptKeepsDayInv DEF Working
<1>4. UNCHANGED latest \/ (pc = "latest" /\ latest' = payload)
  BY DEF CallFails, UploadFails, bucket
<1> QED
  BY <1>2, <1>3, <1>4

\* A success is recorded of a day that has its list.
LEMMA SaveKeepsDayInv == ASSUME IInv, IInv', DayInv, Save PROVE DayInv'
<1>1. /\ UNCHANGED <<clock, changes, now, latest>> /\ pc \in Working
      /\ file'.success = now /\ pc' \in {"down", "note"}
  BY DEF Save, Quiet, world, bucket, Working, Exit, GoTo
<1>2. clock = now /\ now \in Nat
  BY <1>1, TimesAreNat DEF DayInv, IInv, StepSound
<1> SUFFICES ASSUME Steady' PROVE SteadySound'
  BY <1>1 DEF DayInv, Working
<1>3. SteadySound /\ latest # NoList /\ Day(latest.generated) = Day(now)
  BY <1>1 DEF DayInv, Steady, SteadySound, Save
<1>4. Covered(now)
  BY <1>2, <1>3, DueBelongs DEF Covered
<1>5. Covered(file.success)'
  BY <1>1, <1>4 DEF Covered
<1> QED
  BY <1>1, <1>2, <1>3, <1>5 DEF SteadySound, SleepCovers

LEMMA NoteSuccessKeepsDayInv == ASSUME IInv, IInv', DayInv, NoteSuccess PROVE DayInv'
<1>1. /\ UNCHANGED <<clock, changes, now, latest>> /\ pc = "note" /\ pc' = "sleep"
      /\ file'.success = clock /\ due' = NextDue(clock, clock)
  BY DEF NoteSuccess, Quiet, world, bucket, IInv, TypeOK
<1> SUFFICES ASSUME Steady' PROVE SteadySound'
  BY <1>1 DEF DayInv, Working
<1>2. /\ SteadySound /\ latest # NoList /\ Day(latest.generated) = Day(now)
      /\ clock <= now + 1 /\ now <= clock /\ 0 < PublishAt
  BY <1>1 DEF DayInv, Steady, SteadySound
<1>3. clock \in Nat /\ now \in Nat
  BY TimesAreNat DEF IInv, TypeOK, Never
<1>4. Covered(clock)
  <2> SUFFICES ASSUME NEW d \in Nat, DueOn(d) <= clock
               PROVE  latest # NoList /\ d <= Day(latest.generated)
    BY DEF Covered
  <2>1. DueOn(d) \in Nat
    BY DueOnType
  <2>2. DueOn(d) <= now + 1
    BY <1>2, <1>3, <2>1
  <2> QED
    BY <1>2, <1>3, <2>2, DueBelongs
<1>5. clock < due' => \A d \in Nat : Day(clock) <= d /\ DueOn(d) < due' =>
                          latest # NoList /\ d <= Day(latest.generated)
  BY <1>1, <1>3, <1>4, NextDueCovers
<1>6. SleepCovers'
  BY <1>1, <1>5 DEF SleepCovers
<1>7. Covered(file.success)'
  BY <1>1, <1>4 DEF Covered
<1> QED
  BY <1>1, <1>2, <1>6, <1>7 DEF SteadySound

LEMMA NoteFailureKeepsDayInv == ASSUME IInv, IInv', DayInv, NoteFailure PROVE DayInv'
<1>1. /\ UNCHANGED <<clock, changes, now, latest>> /\ pc' = "sleep"
      /\ file'.success = file.success /\ failures' # 0
  BY DEF NoteFailure, Quiet, world, bucket, IInv, TypeOK
<1> QED
  BY <1>1 DEF DayInv, Steady, SteadySound, SleepCovers, Covered, Working

\* Steps after which nothing sleeps or publishes.
LEMMA DownKeepsDayInv == ASSUME IInv, IInv', DayInv, Die \/ LoseState PROVE DayInv'
<1>1. CASE Die
  <2>1. UNCHANGED <<clock, changes, now, latest, file>> /\ pc' = "down"
    BY <1>1 DEF Die, Exit, world, bucket
  <2> QED
    BY <2>1 DEF DayInv, Steady, SteadySound, SleepCovers, Covered, Working
<1>2. CASE LoseState
  <2>1. UNCHANGED <<clock, changes, now, latest, pc, due, failures>>
        /\ file'.success = Never
    BY <1>2 DEF LoseState, world, process, bucket, NoState
  <2> QED
    BY <2>1 DEF DayInv, Steady, SteadySound, SleepCovers, Covered, Working
<1> QED
  BY <1>1, <1>2

LEMMA BootKeepsDayInv == ASSUME IInv, IInv', DayInv, Boot PROVE DayInv'
<1>1. /\ UNCHANGED <<clock, changes, now, latest, file>> /\ pc' = "sleep"
      /\ failures' = file.failures /\ due' = FirstDue(clock)
  BY DEF Boot, Quiet, world, bucket
<1> SUFFICES ASSUME Steady' PROVE SteadySound'
  BY <1>1 DEF DayInv, Working
<1>2. SteadySound
  BY <1>1 DEF DayInv, Steady
<1>3. SleepCovers'
  <2> SUFFICES ASSUME failures' = 0, clock < due'
               PROVE  \A d \in Nat : Day(clock) <= d /\ DueOn(d) < due' =>
                          latest # NoList /\ d <= Day(latest.generated)
    BY <1>1 DEF SleepCovers
  <2>1. due' = NextDue(clock, file.success)
    BY <1>1 DEF FirstDue
  <2>2. clock \in Nat /\ file.success \in Nat
    BY TimesAreNat DEF IInv, TypeOK
  <2>3. file.success # Never => Covered(file.success)
    BY <1>2 DEF SteadySound
  <2> QED
    BY <2>1, <2>2, <2>3, NextDueCovers
<1>4. file'.success # Never => Covered(file.success)'
  BY <1>1, <1>2 DEF SteadySound, Covered
<1> QED
  BY <1>1, <1>2, <1>3, <1>4 DEF SteadySound

LEMMA BeginKeepsDayInv == ASSUME IInv, IInv', DayInv, Begin PROVE DayInv'
<1>1. UNCHANGED <<clock, changes, latest, file>> /\ pc' = "recover" /\ now' = clock
  BY DEF Begin, Quiet, world, bucket
<1> SUFFICES ASSUME Steady' PROVE SteadySound'
  BY <1>1 DEF DayInv
<1>2. SteadySound
  BY <1>1 DEF DayInv, Steady
<1>3. clock \in Nat /\ now \in Nat /\ (latest # NoList => latest.generated \in Nat)
  <2>1. clock \in Nat /\ now \in Nat
    BY TimesAreNat DEF IInv, TypeOK, Never
  <2>2. latest # NoList => latest \in Payload
    BY DEF IInv, TypeOK
  <2> QED
    BY <2>1, <2>2, TimesAreNat, Payloads
<1>4. latest # NoList => latest.generated <= clock
  BY <1>2, <1>3 DEF SteadySound
<1>5. file'.success # Never => Covered(file.success)'
  BY <1>1, <1>2 DEF SteadySound, Covered
<1> QED
  BY <1>1, <1>3, <1>4, <1>5 DEF SteadySound, SleepCovers

LEMMA WorldKeepsDayInv ==
    ASSUME IInv, IInv', DayInv, Tick \/ SetBack \/ Edit \/ UNCHANGED vars
    PROVE  DayInv'
<1>1. UNCHANGED <<now, latest, file, pc, due, failures>>
  BY DEF Tick, SetBack, Edit, vars, process, bucket
<1>2. CASE Tick
  <2>1. /\ pc \notin Working /\ clock' = clock + 1 /\ changes' = changes
        /\ pc = "note" => clock <= now
    BY <1>2 DEF Tick
  <2> SUFFICES ASSUME Steady' PROVE SteadySound'
    BY <1>1, <2>1 DEF DayInv
  <2>2. SteadySound
    BY <2>1 DEF DayInv, Steady
  <2>3. clock \in Nat /\ now \in Nat /\ due \in Nat
    BY TimesAreNat DEF IInv, TypeOK, Never
  <2>4. SleepCovers'
    <3> SUFFICES ASSUME pc = "sleep", failures = 0, clock + 1 < due,
                        NEW d \in Nat, Day(clock + 1) <= d, DueOn(d) < due
                 PROVE  latest # NoList /\ d <= Day(latest.generated)
      BY <1>1, <2>1 DEF SleepCovers
    <3>1. Day(clock) <= Day(clock + 1) /\ Day(clock) \in Nat /\ Day(clock + 1) \in Nat
      BY <2>3, DayGrows, DayType
    <3>2. Day(clock) <= d /\ clock < due
      BY <2>3, <3>1
    <3> QED
      BY <2>2, <3>2 DEF SteadySound, SleepCovers
  <2>5. file'.success # Never => Covered(file.success)'
    BY <1>1, <2>2 DEF SteadySound, Covered
  <2> QED
    BY <1>1, <2>1, <2>2, <2>3, <2>4, <2>5 DEF SteadySound, Working
<1>3. CASE SetBack
  BY <1>1, <1>3 DEF SetBack, Change, DayInv, Steady
<1>4. CASE Edit
  <2>1. clock' = clock /\ pc \notin Working /\ (Steady' => Steady)
    BY <1>4 DEF Edit, Change, Steady, Working
  <2> QED
    BY <1>1, <2>1 DEF DayInv, SteadySound, SleepCovers, Covered
<1>5. CASE UNCHANGED vars
  <2>1. clock' = clock /\ changes' = changes
    BY <1>5 DEF vars, world
  <2> QED
    BY <1>1, <2>1 DEF DayInv, Steady, SteadySound, SleepCovers, Covered
<1> QED
  BY <1>2, <1>3, <1>4, <1>5

LEMMA StepKeepsDayInv == ASSUME IInv, DayInv, [Next]_vars PROVE DayInv'
<1>1. IInv'
  BY StepKeepsIInv
<1>2. CASE Recover \/ Probe \/ VerifyRelease \/ ConfirmLatest
  BY <1>1, <1>2, ReadsKeepDayInv
<1>3. CASE PutRelease \/ PutLatest
  BY <1>1, <1>3, WritesKeepDayInv
<1>4. CASE CallFails \/ UploadFails
  BY <1>1, <1>4, FailuresKeepDayInv
<1>5. CASE Save
  BY <1>1, <1>5, SaveKeepsDayInv
<1>6. CASE NoteSuccess
  BY <1>1, <1>6, NoteSuccessKeepsDayInv
<1>7. CASE NoteFailure
  BY <1>1, <1>7, NoteFailureKeepsDayInv
<1>8. CASE Die \/ LoseState
  BY <1>1, <1>8, DownKeepsDayInv
<1>9. CASE Boot
  BY <1>1, <1>9, BootKeepsDayInv
<1>10. CASE PublishOnce \/ Wake
  BY <1>1, <1>10, BeginKeepsDayInv DEF PublishOnce, Wake
<1>11. CASE Tick \/ SetBack \/ Edit \/ UNCHANGED vars
  BY <1>1, <1>11, WorldKeepsDayInv
<1> QED
  BY <1>2, <1>3, <1>4, <1>5, <1>6, <1>7, <1>8, <1>9, <1>10, <1>11 DEF Next, Run, Rest

\* A scheduler that has nothing to retry never sleeps through a day whose list is not out
\* (scheduler.py, _next_due and run_scheduler).
THEOREM NoDaySleptThrough == Spec => []NoDayMissed
<1>1. Init => DayInv
  BY PublisherAssumption
     DEF Init, DayInv, Steady, SteadySound, SleepCovers, Working, Never, NoState
<1>2. IInv /\ DayInv /\ [Next]_vars => DayInv'
  BY StepKeepsDayInv
<1>3. IInv /\ DayInv => NoDayMissed
  <2> SUFFICES ASSUME IInv, SteadySound, pc = "sleep", failures = 0,
                      DueOn(Day(clock)) <= clock, clock < due
               PROVE  latest # NoList /\ Day(clock) <= Day(latest.generated)
    BY DEF NoDayMissed, DayInv, Steady
  <2>1. Day(clock) \in Nat /\ clock \in Nat /\ due \in Nat
    BY TimesAreNat, DayType DEF IInv, TypeOK
  <2>2. DueOn(Day(clock)) \in Nat
    BY <2>1, DueOnType
  <2>3. DueOn(Day(clock)) < due
    BY <2>1, <2>2
  <2> QED
    BY <2>1, <2>3 DEF SteadySound, SleepCovers
<1> QED
  BY <1>1, <1>2, <1>3, Invariance, PTL DEF Spec

=============================================================================
