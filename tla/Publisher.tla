----------------------------- MODULE Publisher -----------------------------
(***************************************************************************)
(* The source publisher (source_publisher/service.py, scheduler.py,        *)
(* main.py): a process that once a day probes the candidates, builds and   *)
(* signs a list, uploads it as an immutable release, reads it back, and    *)
(* only then replaces latest.json and records the success in state.json.   *)
(*                                                                         *)
(* Either the scheduler or one publish-once holds the lock file; every     *)
(* read, upload and write is a step of its own and may fail, an upload     *)
(* also after the object was stored, and the process may die between any   *)
(* two.  An envelope stands for the payload it signs: Ed25519 signatures   *)
(* are deterministic.                                                      *)
(***************************************************************************)
EXTENDS Integers, Sequences, FiniteSets

CONSTANTS Lists,         \* what probing the candidates may find
          DayLength,     \* ticks of a day
          PublishAt,     \* config.publish_time: a tick of the day
          MinuteLength,  \* ticks that a revision counts before it carries
          RetrySeconds,  \* config.retry_seconds
          MaxTime,       \* bound: faults and manual runs happen until then
          Grace,         \* bound: how much longer the clock runs
          MaxFaults,     \* bound: failed calls, deaths and lost volumes
          MaxChanges     \* bound: how many of the Changes happen, each once

ASSUME PublisherAssumption ==
    /\ Lists # {}
    /\ DayLength \in Nat \ {0} /\ PublishAt \in 0..(DayLength - 1)
    /\ MinuteLength \in 1..99
    /\ RetrySeconds \in Seq(Nat \ {0}) /\ Len(RetrySeconds) = 3
    /\ MaxTime \in Nat \ {0} /\ Grace \in Nat
    /\ MaxFaults \in Nat /\ MaxChanges \in Nat

VARIABLES
    clock,       \* datetime.now
    candidates,  \* what the candidate file would be found to hold
    runner,      \* who holds publish.lock
    pc,          \* where it is
    now,         \* when the last attempt began
    previous,    \* previous_revision of the attempt
    payload,     \* what the attempt publishes
    due,         \* run_scheduler: due
    failures,    \* run_scheduler: failures
    releases,    \* the bucket: releases/<revision>.json
    latest,      \* the bucket: latest.json
    file,        \* state.json
    faults,      \* faults so far
    changes      \* which of the Changes have happened

world   == <<clock, candidates, changes>>
process == <<runner, pc, previous, payload, due, failures>>
bucket  == <<releases, latest>>
vars    == <<world, process, now, bucket, file, faults>>

Never   == 0
Times   == 1..(MaxTime + Grace)
NoList  == [revision |-> 0, generated |-> Never]
Payload == [revision : Nat \ {0}, generated : Times, list : Lists]
Changes == {"set back", "edited"}
NoState == [revision |-> 0, success |-> Never, failures |-> 0, retry |-> Never]
Working == {"recover", "probe", "release", "verify", "latest", "confirm", "save"}

TypeOK ==
    /\ clock \in Times /\ candidates \in Lists
    /\ runner \in {"none", "scheduler", "once"}
    /\ pc \in {"down", "sleep", "failed", "note"} \union Working
    /\ now \in Times \union {Never} /\ previous \in Nat
    /\ payload \in Payload \union {NoList}
    /\ pc \in Working \ {"recover", "probe"} => payload # NoList
    /\ due \in Nat /\ failures \in Nat
    /\ \A r \in DOMAIN releases : releases[r] \in Payload
    /\ latest \in Payload \union {NoList}
    /\ file \in [revision : Nat, success : Nat, failures : Nat, retry : Nat]
    /\ faults \in 0..MaxFaults /\ changes \in SUBSET Changes

Larger(a, b) == IF a < b THEN b ELSE a

-----------------------------------------------------------------------------
(* Days, revisions and due times.                                          *)

Day(t) == t \div DayLength

\* strftime: the seconds never reach 60, so stamps have gaps.
Stamp(t) == 100 * (t \div MinuteLength) + (t % MinuteLength)

\* Mutant: the clock alone numbers the revisions.
StampOnly(t, before) == Stamp(t)

\* Mutant: the revisions are counted.
RevisionCounted(t, before) == before + 1

Revision(t, before) == IF Stamp(t) <= before THEN before + 1 ELSE Stamp(t)

DueOn(d) == d * DayLength + PublishAt

\* Mutant: a success is taken for the one of the next day as well.
NextDueSkipping(t, last) ==
    IF last = Never /\ t >= DueOn(Day(t)) THEN t ELSE DueOn(Day(t) + 2)

\* A start before the first publish time waits for it; a publish time that was
\* missed is made up for at once.
NextDue(t, last) ==
    LET recent == IF t < DueOn(Day(t)) THEN DueOn(Day(t) - 1) ELSE DueOn(Day(t))
    IN  IF IF last = Never THEN t >= DueOn(Day(t)) ELSE last < recent
        THEN t
        ELSE recent + DayLength

RetryDelay(n) == RetrySeconds[IF n < Len(RetrySeconds) THEN n ELSE Len(RetrySeconds)]

FirstDue(t) ==
    IF file.failures > 0 /\ file.retry # Never
    THEN Larger(t, file.retry)
    ELSE NextDue(t, file.success)

-----------------------------------------------------------------------------
(* How an attempt ends.                                                    *)

\* The process is gone, and with it the lock and all it had in memory.
Exit ==
    /\ runner' = "none" /\ pc' = "down"
    /\ previous' = 0 /\ payload' = NoList /\ due' = 0 /\ failures' = 0

\* service.run raises: publish-once ends, the scheduler handles the exception.
GiveUp ==
    \/ runner = "once" /\ Exit
    \/ /\ runner = "scheduler" /\ pc' = "failed"
       /\ previous' = 0 /\ payload' = NoList
       /\ UNCHANGED <<runner, due, failures>>

GoTo(step) == pc' = step /\ UNCHANGED <<runner, previous, payload, due, failures>>

Fault == clock <= MaxTime /\ faults < MaxFaults /\ faults' = faults + 1

Quiet == UNCHANGED <<world, faults>>

-----------------------------------------------------------------------------
(* Processes start.                                                        *)

\* run_scheduler reads state.json and works out when the first attempt is due.
Boot ==
    /\ runner = "none"
    /\ runner' = "scheduler" /\ pc' = "sleep"
    /\ failures' = file.failures /\ due' = FirstDue(clock)
    /\ UNCHANGED <<previous, payload, now, bucket, file>> /\ Quiet

\* An attempt reads the revision of the last success.  Two attempts never begin
\* in the same second: it takes longer to read the network in between.
Begin ==
    /\ clock # now
    /\ pc' = "recover" /\ now' = clock /\ previous' = file.revision
    /\ UNCHANGED <<payload, due, failures, bucket, file>> /\ Quiet

PublishOnce ==
    /\ runner = "none" /\ clock <= MaxTime
    /\ runner' = "once"
    /\ Begin

Wake ==
    /\ pc = "sleep" /\ due <= clock
    /\ UNCHANGED runner
    /\ Begin

-----------------------------------------------------------------------------
(* PublicationService.run.                                                 *)

\* The list that the public endpoint offers, with the release it is a copy of.
Verified(list) ==
    list.revision \in DOMAIN releases /\ releases[list.revision] = list

\* Mutant: an empty bucket is not told from a published list.
PublishedOrEmpty == latest.revision >= previous /\ Day(latest.generated) = Day(now)

\* Mutant: a list whose revision is recorded already does not count.
PublishedUnrecorded ==
    /\ latest # NoList
    /\ latest.revision > previous
    /\ Day(latest.generated) = Day(now)

\* The day's list is out already: an attempt died after it had committed.
PublishedToday ==
    /\ latest # NoList
    /\ latest.revision >= previous
    /\ Day(latest.generated) = Day(now)

\* _recover_remote_commit, and what run makes of its answer.
Recover ==
    /\ pc = "recover"
    /\ IF latest # NoList /\ ~Verified(latest)
       THEN GiveUp
       ELSE \/ /\ PublishedToday
               /\ pc' = "save" /\ payload' = latest
               /\ UNCHANGED <<runner, previous, due, failures>>
            \/ /\ ~PublishedToday
               /\ pc' = "probe" /\ previous' = Larger(previous, latest.revision)
               /\ UNCHANGED <<runner, payload, due, failures>>
    /\ UNCHANGED <<now, bucket, file>> /\ Quiet

\* Probing, signing, the local verification and the two staging files.
Probe ==
    /\ pc = "probe"
    /\ pc' = "release"
    /\ payload' = [revision  |-> Revision(now, previous),
                   generated |-> now,
                   list      |-> candidates]
    /\ UNCHANGED <<runner, previous, due, failures, now, bucket, file>> /\ Quiet

Upload(r) ==
    releases' = [x \in DOMAIN releases \union {r} |->
                    IF x = r THEN payload ELSE releases[x]]

\* Mutant: no release is uploaded, and latest.json follows at once.
PutReleaseNot ==
    /\ pc = "release"
    /\ GoTo("latest")
    /\ UNCHANGED <<now, bucket, file>> /\ Quiet

\* A release with this number is there already: it is the same one, or the
\* attempt fails.  Otherwise it is uploaded, and never over another one.
PutRelease ==
    /\ pc = "release"
    /\ \/ /\ payload.revision \in DOMAIN releases
          /\ IF Verified(payload) THEN GoTo("verify") ELSE GiveUp
          /\ UNCHANGED releases
       \/ /\ payload.revision \notin DOMAIN releases
          /\ Upload(payload.revision) /\ GoTo("verify")
    /\ UNCHANGED <<now, latest, file>> /\ Quiet

VerifyRelease ==
    /\ pc = "verify"
    /\ IF Verified(payload) THEN GoTo("latest") ELSE GiveUp
    /\ UNCHANGED <<now, bucket, file>> /\ Quiet

PutLatest ==
    /\ pc = "latest"
    /\ latest' = payload /\ GoTo("confirm")
    /\ UNCHANGED <<now, releases, file>> /\ Quiet

ConfirmLatest ==
    /\ pc = "confirm"
    /\ IF latest = payload THEN GoTo("save") ELSE GiveUp
    /\ UNCHANGED <<now, bucket, file>> /\ Quiet

\* _write_success_state; the scheduler has more to do, publish-once has not.
Save ==
    /\ pc = "save"
    /\ file' = [revision |-> payload.revision, success |-> now,
                failures |-> 0, retry |-> Never]
    /\ \/ runner = "once" /\ Exit
       \/ runner = "scheduler" /\ GoTo("note")
    /\ UNCHANGED <<now, bucket>> /\ Quiet

-----------------------------------------------------------------------------
(* What the scheduler does with the outcome.                               *)

NoteSuccess ==
    /\ pc = "note"
    /\ pc' = "sleep" /\ previous' = 0 /\ payload' = NoList
    /\ failures' = 0 /\ due' = NextDue(clock, clock)
    /\ file' = [file EXCEPT !.success = clock, !.failures = 0, !.retry = Never]
    /\ UNCHANGED <<runner, now, bucket>> /\ Quiet

NoteFailure ==
    /\ pc = "failed"
    /\ pc' = "sleep"
    /\ failures' = failures + 1 /\ due' = clock + RetryDelay(failures + 1)
    /\ file' = [file EXCEPT !.failures = failures', !.retry = due']
    /\ UNCHANGED <<runner, previous, payload, now, bucket>> /\ Quiet

-----------------------------------------------------------------------------
(* What goes wrong.                                                        *)

\* A read, a signature, a write or an upload that stored nothing fails, the
\* sources are too few, or the deadline passes.
CallFails ==
    /\ pc \in Working /\ Fault
    /\ GiveUp
    /\ UNCHANGED <<world, now, bucket, file>>

\* An upload stores the object and reports an error.
UploadFails ==
    /\ pc \in {"release", "latest"} /\ Fault
    /\ IF pc = "release"
       THEN payload.revision \notin DOMAIN releases /\ Upload(payload.revision)
            /\ UNCHANGED latest
       ELSE latest' = payload /\ UNCHANGED releases
    /\ GiveUp
    /\ UNCHANGED <<world, now, file>>

\* SIGKILL or SIGTERM, or the scheduler cannot write state.json.  What an
\* upload may still store, UploadFails and the next steps cover.
Die ==
    /\ runner # "none" /\ Fault
    /\ Exit
    /\ UNCHANGED <<world, now, bucket, file>>

\* The volume with state.json is lost while nothing runs.
LoseState ==
    /\ runner = "none" /\ file # NoState /\ Fault
    /\ file' = NoState
    /\ UNCHANGED <<world, process, now, bucket>>

-----------------------------------------------------------------------------
(* The world.                                                              *)

\* The scheduler is never late by more than its sleep of a minute, and no
\* attempt lasts longer than its deadline: both are shorter than a tick.  The
\* steps of an attempt do not read the clock, so that it need not move before
\* the attempt ends.
Tick ==
    /\ pc \notin Working /\ clock < MaxTime + Grace
    /\ pc = "sleep" => clock < due \/ clock = now
    /\ pc \in {"failed", "note"} => clock <= now
    /\ clock' = clock + 1
    /\ UNCHANGED <<candidates, changes, process, now, bucket, file, faults>>

Change(kind) ==
    /\ clock <= MaxTime /\ kind \notin changes /\ Cardinality(changes) < MaxChanges
    /\ changes' = changes \union {kind}

SetBack ==
    /\ pc \notin Working /\ Change("set back")
    /\ \E t \in 1..(clock - 1) : clock' = t
    /\ UNCHANGED <<candidates, process, now, bucket, file, faults>>

\* An operator edits the candidates, between two attempts.
Edit ==
    /\ pc \in {"down", "sleep"} /\ Change("edited")
    /\ candidates' \in Lists \ {candidates}
    /\ UNCHANGED <<clock, process, now, bucket, file, faults>>

\* The clock of the model ends here.
Rest == clock = MaxTime + Grace /\ UNCHANGED vars

-----------------------------------------------------------------------------
Init ==
    /\ clock = 1 /\ candidates \in Lists
    /\ runner = "none" /\ pc = "down" /\ now = Never
    /\ previous = 0 /\ payload = NoList /\ due = 0 /\ failures = 0
    /\ releases = [r \in {} |-> NoList] /\ latest = NoList
    /\ file = NoState
    /\ faults = 0 /\ changes = {}

Run ==
    \/ Wake \/ Recover \/ Probe \/ PutRelease \/ VerifyRelease \/ PutLatest
    \/ ConfirmLatest \/ Save \/ NoteSuccess \/ NoteFailure

Next ==
    \/ Boot \/ PublishOnce \/ Run
    \/ CallFails \/ UploadFails \/ Die \/ LoseState
    \/ Tick \/ SetBack \/ Edit \/ Rest

Spec == Init /\ [][Next]_vars

\* Calls return or time out, the scheduler's loop runs, and time passes.
FairSpec == Spec /\ WF_vars(Run) /\ WF_vars(Tick)

-----------------------------------------------------------------------------
(* Properties.                                                             *)

\* The bucket backs what refers to it, whatever failed in between: latest.json is a
\* copy of a release that is out, so that a client which follows it finds the
\* immutable object (service.py:232), and state.json claims no success that
\* latest.json does not show (service.py:267).
BucketBacksClaims ==
    /\ latest # NoList => Verified(latest)
    /\ file.revision <= latest.revision

BucketGrows ==
    /\ latest' # latest => latest.revision < latest'.revision
    /\ \A r \in DOMAIN releases : r \in DOMAIN releases' /\ releases'[r] = releases[r]

\* Every list is of a later day than the one it replaces; with a clock that has been set
\* back it is of another day.
AnotherDay ==
    latest' # latest /\ latest # NoList =>
        /\ Day(latest'.generated) # Day(latest.generated)
        /\ "set back" \notin changes => Day(latest.generated) < Day(latest'.generated)

\* The bucket only moves forward, through lost state files and clocks that are set
\* back: the revision of latest.json grows, since clients refuse a smaller one, and
\* no release is changed or removed.
BucketMovesForward == [][BucketGrows]_vars

\* The days of the lists follow one another, so that each day gets at most one, not even
\* a second one when the first attempt died before it could record its success.  A clock
\* that is set back can give a day two lists, with one of an earlier day in between
\* (service.py:144 compares with latest.json only); even then no list replaces one of
\* its own day.
OneListADay == [][AnotherDay]_vars

\* A scheduler that has nothing to retry never sleeps through a day whose list
\* is not out (scheduler.py:138, 215), unless its clock is set back, or the
\* publish time is so close to midnight that one attempt lasts from the day
\* before until after it.
NoDayMissed ==
    runner = "scheduler" /\ pc = "sleep" /\ failures = 0 /\ "set back" \notin changes
    /\ 0 < PublishAt /\ DueOn(Day(clock)) <= clock /\ clock < due
    => latest # NoList /\ Day(clock) <= Day(latest.generated)

\* While the scheduler stays up, a day whose publish time has come gets its
\* list or that of a later day, also when a failed attempt has left a release
\* behind that the next one collides with.
DaysArePublished ==
    \A d \in 0..Day(MaxTime) :
        (runner = "scheduler" /\ DueOn(d) <= clock /\ clock <= MaxTime)
        ~> (runner # "scheduler"
            \/ (latest # NoList /\ d <= Day(latest.generated)))

=============================================================================
