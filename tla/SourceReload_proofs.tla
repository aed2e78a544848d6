------------------------ MODULE SourceReload_proofs ------------------------
(***************************************************************************)
(* The revisions and lists of SourceReload, for all lines, revisions,      *)
(* lists, faults and operator actions.                                     *)
(*                                                                         *)
(* An engine whose file could not be staged and whose helper then restarts *)
(* writes a file that pairs the pending generation with its old list, so   *)
(* that no file or helper can be trusted by its generation alone.  What    *)
(* makes the answers trustworthy is where they can come from: only a       *)
(* helper that runs since the file was staged handles the signal.          *)
(* LineSound follows a generation from the staged file to the answer.      *)
(***************************************************************************)
EXTENDS SourceReload, FiniteSetTheorems, TLAPS

Exact(r) == [generation |-> r, list |-> ListOf[r]]

\* Lists that are in force or about to be.
Current(list) ==
    \/ list = ListOf[active]
    \/ pending # 0 /\ \E r \in (active + 1)..pending : list = ListOf[r]

\* The accepted, the pending and the active revision, and the lists they stand for.
Ordered ==
    /\ active <= latest
    /\ pending # 0 => active < pending /\ pending <= latest
    /\ ListOf[latest] = ListOf[IF pending = 0 THEN active ELSE pending]

\* The engine does not wait for an answer that would change its generation.
Done(l) == pendingGen[l] \in {0, confirmed[l]}

\* The engine has confirmed what the controller wants.
Settled(l) == pending = 0 \/ confirmed[l] = pending

\* What the helper has, or will load, is the list of revision r.
Carries(l, r) == /\ Alive(l) => file[l] = Exact(r)
                 /\ Up(l) => helper[l] = Exact(r)

\* The helper can have answered for the pending revision.
HasAnswered(l) == pending # 0 /\ \E i \in 1..Len(pipe[l]) : pipe[l][i] = pending

MayAnswer(l) == /\ process[l] = "running" /\ hups[l] # 0
                /\ pending # 0 /\ file[l].generation = pending

\* No generation is newer than the accepted revision.
Known(l) == /\ file[l].generation <= latest /\ confirmed[l] <= latest
            /\ \A i \in 1..Len(pipe[l]) : pipe[l][i] <= latest

EngineSound(l) ==
    /\ Done(l) => sources[l] = ListOf[confirmed[l]]
    /\ ~Done(l) => pending # 0 /\ pendingGen[l] = pending
    /\ pending = 0 => ListOf[confirmed[l]] = ListOf[active]

\* A helper has signals and output only once it has its handler.
HelperSound(l) ==
    process[l] \in {"none", "booting", "loaded"} => hups[l] = 0 /\ pipe[l] = << >>

\* A file or a helper with the confirmed generation has the list of that generation.
Honest(l) ==
    /\ Alive(l) /\ file[l].generation = confirmed[l] => file[l].list = ListOf[confirmed[l]]
    /\ Up(l) /\ helper[l].generation = confirmed[l] => helper[l].list = ListOf[confirmed[l]]

AnswerSound(l) ==
    /\ Settled(l) => Done(l) /\ Carries(l, confirmed[l])
    /\ HasAnswered(l) => sources[l] = ListOf[pending] /\ Carries(l, pending)
    /\ MayAnswer(l) => sources[l] = ListOf[pending] /\ file[l] = Exact(pending)

ListsCurrent(l) ==
    /\ Current(sources[l])
    /\ Alive(l) => Current(file[l].list)
    /\ Up(l) => Current(helper[l].list)

LineSound(l) == /\ Known(l) /\ EngineSound(l) /\ HelperSound(l)
                /\ Honest(l) /\ AnswerSound(l) /\ ListsCurrent(l)

IInv == TypeOK /\ Ordered /\ \A l \in Lines : LineSound(l)

-----------------------------------------------------------------------------
(* Types.                                                                  *)

LEMMA Constants ==
    /\ Revisions \subseteq Nat /\ 0 \in Revisions /\ 1 \in Lines /\ Lines \subseteq Nat
    /\ \A r \in Revisions : ListOf[r] \in Lists
    /\ \A r \in Revisions : Exact(r) \in Config
BY SourceReloadAssumption DEF Revisions, Lines, Lists, Config, Exact

LEMMA SpendType ==
    ASSUME TypeOK, NEW failing \in SUBSET Lines, Spend(failing)
    PROVE  faults' \in 0..MaxFaults
<1>1. IsFiniteSet(Lines)
  BY SourceReloadAssumption, FS_Interval DEF Lines
<1>2. Cardinality(failing) \in Nat
  BY <1>1, FS_Subset, FS_CardinalityType
<1> QED
  BY <1>2, SourceReloadAssumption DEF TypeOK, Spend

LEMMA SpendOne == ASSUME TypeOK, NEW l \in Lines, Spend({l}) PROVE faults' \in 0..MaxFaults
BY SpendType

\* What EngineProcess.start writes to the file of a line.
Written(l, src, pend, conf) ==
    [generation |-> IF pend[l] # 0 THEN pend[l] ELSE conf[l], list |-> src[l]]

LEMMA StartType ==
    ASSUME TypeOK, NEW S \in SUBSET Lines, NEW src \in [Lines -> Lists],
           NEW pend \in [Lines -> Revisions], NEW conf \in [Lines -> Revisions],
           Start(S, src, pend, conf)
    PROVE  /\ file' \in [Lines -> Config]
           /\ process' \in [Lines -> {"none", "booting", "loaded", "running", "exited"}]
           /\ waiting' \in [Lines -> BOOLEAN] /\ stopRequested' \in [Lines -> BOOLEAN]
           /\ faults' \in 0..MaxFaults
<1>1. PICK unwritten \in SUBSET S, unspawned \in SUBSET S :
         /\ Spend(unwritten \cup unspawned)
         /\ file' = [l \in Lines |->
                       IF l \in S \ unwritten THEN Written(l, src, pend, conf) ELSE file[l]]
         /\ process' = [l \in Lines |->
                          IF l \notin S THEN process[l]
                          ELSE IF l \in unwritten \cup unspawned THEN "none"
                          ELSE "booting"]
         /\ waiting' = [l \in Lines |-> IF l \in S THEN l \in unwritten \cup unspawned
                                        ELSE waiting[l]]
         /\ stopRequested' = [l \in Lines |-> l \notin S /\ stopRequested[l]]
  BY Zenon DEF Start, Written
<1>2. faults' \in 0..MaxFaults
  <2>1. unwritten \cup unspawned \in SUBSET Lines
    OBVIOUS
  <2> QED
    BY <1>1, <2>1, SpendType
<1>3. \A l \in Lines : Written(l, src, pend, conf) \in Config
  BY DEF Written, Config
<1>4. file' \in [Lines -> Config]
  BY <1>1, <1>3 DEF TypeOK
<1>5. process' \in [Lines -> {"none", "booting", "loaded", "running", "exited"}]
  BY <1>1 DEF TypeOK
<1>6. waiting' \in [Lines -> BOOLEAN] /\ stopRequested' \in [Lines -> BOOLEAN]
  <2>1. \A l \in Lines : (IF l \in S THEN l \in unwritten \cup unspawned ELSE waiting[l])
                            \in BOOLEAN
    <3> SUFFICES ASSUME NEW l \in Lines
                 PROVE  (IF l \in S THEN l \in unwritten \cup unspawned ELSE waiting[l])
                            \in BOOLEAN
      OBVIOUS
    <3>1. CASE l \in S
      <4>1. (l \in unwritten \cup unspawned) \in BOOLEAN
        OBVIOUS
      <4> QED
        BY <3>1, <4>1, Zenon
    <3>2. CASE l \notin S
      <4>1. waiting[l] \in BOOLEAN
        BY DEF TypeOK
      <4> QED
        BY <3>2, <4>1, Zenon
    <3> QED
      BY <3>1, <3>2
  <2>2. waiting' \in [Lines -> BOOLEAN]
    BY <1>1, <2>1
  <2>3. \A l \in Lines : (l \notin S /\ stopRequested[l]) \in BOOLEAN
    BY Zenon
  <2>4. stopRequested' \in [Lines -> BOOLEAN]
    BY <1>1, <2>3
  <2> QED
    BY <2>2, <2>4
<1> QED
  BY <1>2, <1>4, <1>5, <1>6

\* What a start does to a line: a failed one leaves no helper, another one a helper that
\* will load what was written.
LEMMA StartLine ==
    ASSUME NEW S \in SUBSET Lines, NEW src, NEW pend, NEW conf,
           Start(S, src, pend, conf), NEW l \in Lines
    PROVE  /\ l \notin S => file'[l] = file[l] /\ process'[l] = process[l]
           /\ l \in S => /\ file'[l] \in {file[l], Written(l, src, pend, conf)}
                         /\ \/ process'[l] = "none"
                            \/ /\ process'[l] = "booting"
                               /\ file'[l] = Written(l, src, pend, conf)
BY DEF Start, Written

LEMMA StageType ==
    ASSUME TypeOK, NEW revision \in Revisions, Stage(revision)
    PROVE  /\ file' \in [Lines -> Config] /\ sources' \in [Lines -> Lists]
           /\ pendingGen' \in [Lines -> Revisions] /\ confirmed' \in [Lines -> Revisions]
           /\ process' \in [Lines -> {"none", "booting", "loaded", "running", "exited"}]
           /\ hups' \in [Lines -> 0..MaxHups]
           /\ retryDue' = FALSE /\ faults' \in 0..MaxFaults
<1>1. PICK unwritten \in SUBSET Lines, unsignalled \in SUBSET {l \in Lines : Alive(l)} :
         LET written   == Lines \ unwritten
             confirms  == ConfirmedAtOnce(written)
             signalled == {l \in written \ unsignalled : Alive(l)}
         IN  /\ Spend(unwritten \cup unsignalled)
             /\ file' = [l \in Lines |-> IF l \in written THEN Exact(revision) ELSE file[l]]
             /\ sources' = [l \in Lines |-> IF l \in written THEN ListOf[revision]
                                            ELSE sources[l]]
             /\ pendingGen' = [l \in Lines |-> IF l \in confirms THEN 0 ELSE revision]
             /\ confirmed' = [l \in Lines |-> IF l \in confirms THEN revision
                                              ELSE confirmed[l]]
             /\ process' = [l \in Lines |->
                              IF l \in signalled /\ process[l] # "running"
                              THEN "exited" ELSE process[l]]
             /\ hups' = [l \in Lines |->
                           IF l \in signalled /\ process[l] = "running"
                           THEN IF hups[l] < MaxHups THEN hups[l] + 1 ELSE MaxHups
                           ELSE hups[l]]
  BY Zenon DEF Stage, Exact
<1>2. faults' \in 0..MaxFaults
  <2>1. unwritten \cup unsignalled \in SUBSET Lines
    OBVIOUS
  <2> QED
    BY <1>1, <2>1, SpendType
<1>3. file' \in [Lines -> Config]
  BY <1>1, Constants DEF TypeOK
<1>4. sources' \in [Lines -> Lists]
  BY <1>1, Constants DEF TypeOK
<1>5. pendingGen' \in [Lines -> Revisions]
  BY <1>1, Constants DEF TypeOK
<1>6. confirmed' \in [Lines -> Revisions]
  BY <1>1 DEF TypeOK
<1>7. process' \in [Lines -> {"none", "booting", "loaded", "running", "exited"}]
  BY <1>1 DEF TypeOK
<1>8. hups' \in [Lines -> 0..MaxHups]
  <2>1. \A n \in 0..MaxHups : (IF n < MaxHups THEN n + 1 ELSE MaxHups) \in 0..MaxHups
    BY DEF MaxHups
  <2> QED
    BY <1>1, <2>1 DEF TypeOK
<1>9. retryDue' = FALSE
  BY DEF Stage
<1> QED
  BY <1>2, <1>3, <1>4, <1>5, <1>6, <1>7, <1>8, <1>9

\* What stage_sources does to a line.
LEMMA StageLine ==
    ASSUME TypeOK, NEW revision, Stage(revision), NEW l \in Lines
    PROVE  \/ /\ file'[l] = file[l] /\ sources'[l] = sources[l]
              /\ pendingGen'[l] = revision /\ confirmed'[l] = confirmed[l]
              /\ process'[l] = process[l] /\ hups'[l] = hups[l]
           \/ /\ ~Alive(l)
              /\ file'[l] = Exact(revision) /\ sources'[l] = ListOf[revision]
              /\ pendingGen'[l] = 0 /\ confirmed'[l] = revision
              /\ process'[l] = process[l] /\ hups'[l] = hups[l]
           \/ /\ Alive(l)
              /\ file'[l] = Exact(revision) /\ sources'[l] = ListOf[revision]
              /\ pendingGen'[l] = revision /\ confirmed'[l] = confirmed[l]
              /\ \/ process'[l] = process[l]
                 \/ process[l] # "running" /\ process'[l] = "exited" /\ hups'[l] = hups[l]
              /\ hups'[l] = hups[l] \/ process[l] = "running"
BY DEF Stage, Exact, ConfirmedAtOnce, TypeOK

LEMMA EmptyOutput == << >> \in Seq(Revisions)
OBVIOUS

LEMMA OutputType ==
    ASSUME NEW output \in Seq(Revisions)
    PROVE  \A i \in 1..Len(output) : output[i] \in Nat
<1>1. \A i \in 1..Len(output) : output[i] \in Revisions
  OBVIOUS
<1> QED
  BY <1>1, Constants

LEMMA InitType == Init => TypeOK
<1> SUFFICES ASSUME Init PROVE TypeOK
  OBVIOUS
<1>1. active \in Revisions /\ latest \in Revisions /\ pending \in Revisions
  BY Constants DEF Init
<1>2. /\ sources \in [Lines -> Lists] /\ pendingGen \in [Lines -> Revisions]
      /\ confirmed \in [Lines -> Revisions]
  BY <1>1, Constants DEF Init
<1>3. file \in [Lines -> Config] /\ helper \in [Lines -> Config]
  BY Constants DEF Init, Config
<1>4. hups \in [Lines -> 0..MaxHups] /\ pipe \in [Lines -> Seq(Revisions)]
  BY DEF Init, MaxHups
<1>5. faults \in 0..MaxFaults /\ switches \in 0..MaxSwitches
  BY SourceReloadAssumption DEF Init
<1> QED
  BY <1>1, <1>2, <1>3, <1>4, <1>5, Constants DEF Init, TypeOK

LEMMA KilledType ==
    ASSUME KillHelpers
    PROVE  hups' \in [Lines -> 0..MaxHups] /\ pipe' \in [Lines -> Seq(Revisions)]
BY DEF KillHelpers, MaxHups

LEMMA TickType == ASSUME TypeOK, Tick PROVE TypeOK'
<1>1. CASE NoResult
  BY <1>1 DEF NoResult, TypeOK, controllerVars, engineVars, helperVars, bounds
<1>2. CASE NewList
  <2>1. latest + 1 \in Revisions /\ Stage(latest + 1)
    BY <1>2, SourceReloadAssumption DEF NewList, TypeOK, Revisions
  <2> QED
    BY <1>2, <2>1, StageType DEF NewList, TypeOK
<1>3. ASSUME NEW revision \in Revisions, SameList(revision) PROVE TypeOK'
  BY <1>3 DEF SameList, TypeOK, engineVars, helperVars, bounds
<1>4. CASE Advance
  <2> USE <1>4 DEF Advance
  <2>1. CASE pending # 0 /\ AllConfirmed
    BY <2>1, Constants DEF TypeOK
  <2>2. CASE ~(pending # 0 /\ AllConfirmed) /\ Stage(pending)
    BY <2>2, StageType DEF TypeOK
  <2>3. CASE ~(pending # 0 /\ AllConfirmed)
             /\ UNCHANGED <<retryDue, sources, pendingGen, confirmed, file, process, hups,
                            faults>>
    BY <2>3 DEF TypeOK
  <2> QED
    BY <2>1, <2>2, <2>3
<1>5. CASE Schedule
  <2> USE <1>5 DEF Schedule, controllerVars
  <2>1. CASE Start(Lines, sources, pendingGen, confirmed) /\ KillHelpers
             /\ UNCHANGED <<sources, pendingGen, confirmed>>
    BY <2>1, StartType, KilledType DEF TypeOK
  <2>2. CASE /\ KillHelpers /\ process' = [l \in Lines |-> "none"]
             /\ stopRequested' = [l \in Lines |-> TRUE]
             /\ UNCHANGED <<sources, pendingGen, confirmed, waiting, file, faults>>
    BY <2>2, KilledType DEF TypeOK
  <2>3. CASE UNCHANGED <<engineVars, file, process, hups, pipe, faults>>
    BY <2>3 DEF TypeOK, engineVars
  <2> QED
    BY <2>1, <2>2, <2>3
<1>6. CASE Drain
  <2>1. pipe' \in [Lines -> Seq(Revisions)]
    BY <1>6, EmptyOutput DEF Drain, TypeOK
  <2>2. confirmed' \in [Lines -> Revisions] /\ pendingGen' \in [Lines -> Revisions]
    BY <1>6, Constants DEF Drain, TypeOK
  <2> QED
    BY <1>6, <2>1, <2>2 DEF Drain, TypeOK, controllerVars, bounds
<1>7. CASE PollExit
  <2> USE <1>7 DEF PollExit, controllerVars
  <2>1. at' \in Lines /\ tickPc' \in {"drain", "result"}
    <3>1. at \in Nat /\ 1 <= at /\ LineCount \in Nat /\ 1 <= LineCount
      BY SourceReloadAssumption DEF TypeOK, Lines
    <3>2. CASE at < LineCount
      BY <3>1, <3>2 DEF NextLine, Lines
    <3>3. CASE ~(at < LineCount)
      BY <3>1, <3>3 DEF NextLine, Lines
    <3> QED
      BY <3>2, <3>3
  <2>2. CASE process[at] = "exited" /\ hups' = [hups EXCEPT ![at] = 0]
             /\ process' = [process EXCEPT ![at] = "none"]
             /\ waiting' = [waiting EXCEPT ![at] = TRUE]
             /\ pipe' = [pipe EXCEPT ![at] = << >>]
             /\ UNCHANGED <<stopRequested, file, faults>>
    <3>1. hups' \in [Lines -> 0..MaxHups] /\ pipe' \in [Lines -> Seq(Revisions)]
      BY <2>2, EmptyOutput DEF TypeOK, MaxHups
    <3>2. /\ process' \in [Lines -> {"none", "booting", "loaded", "running", "exited"}]
          /\ waiting' \in [Lines -> BOOLEAN]
      BY <2>2 DEF TypeOK
    <3> QED
      BY <2>1, <2>2, <3>1, <3>2 DEF TypeOK
  <2>3. CASE Start({at}, sources, pendingGen, confirmed) /\ UNCHANGED <<hups, pipe>>
    <3>1. {at} \in SUBSET Lines
      BY DEF TypeOK
    <3> QED
      BY <2>1, <2>3, <3>1, StartType DEF TypeOK
  <2>4. CASE UNCHANGED <<stopRequested, waiting, file, process, hups, pipe, faults>>
    BY <2>1, <2>4 DEF TypeOK
  <2> QED
    BY <2>2, <2>3, <2>4
<1> QED
  BY <1>1, <1>2, <1>3, <1>4, <1>5, <1>6, <1>7 DEF Tick

LEMMA RebuildType == ASSUME TypeOK, Rebuild PROVE TypeOK'
<1> USE DEF Rebuild
<1>1. /\ sources' \in [Lines -> Lists] /\ pendingGen' \in [Lines -> Revisions]
      /\ confirmed' \in [Lines -> Revisions]
  BY Constants DEF EffectivePool, TypeOK
<1>2. switches' \in 0..MaxSwitches /\ UNCHANGED <<tickPc, at, controllerVars, helper>>
  BY SourceReloadAssumption DEF Operator, TypeOK
<1>3. hups' \in [Lines -> 0..MaxHups] /\ pipe' \in [Lines -> Seq(Revisions)]
  BY KilledType
<1>4. CASE Start(Lines, sources', pendingGen', confirmed')
  BY <1>1, <1>2, <1>3, <1>4, StartType DEF TypeOK, controllerVars
<1>5. CASE /\ process' = [l \in Lines |-> "none"] /\ stopRequested' = [l \in Lines |-> TRUE]
           /\ waiting' = [l \in Lines |-> FALSE] /\ UNCHANGED <<file, faults>>
  BY <1>1, <1>2, <1>3, <1>5 DEF TypeOK, controllerVars
<1> QED
  BY <1>4, <1>5

LEMMA HelperStepType ==
    ASSUME TypeOK, NEW l \in Lines,
           \/ RestartElapses(l) \/ LoadList(l) \/ InstallHandler(l) \/ HandleHup(l)
           \/ Crash(l)
    PROVE  TypeOK'
<1> USE DEF controllerVars, engineVars, bounds
<1>1. CASE RestartElapses(l)
  BY <1>1 DEF RestartElapses, helperVars, TypeOK
<1>2. CASE LoadList(l)
  BY <1>2 DEF LoadList, TypeOK
<1>3. CASE InstallHandler(l)
  BY <1>3 DEF InstallHandler, TypeOK
<1>4. CASE HandleHup(l)
  <2>1. hups' \in [Lines -> 0..MaxHups]
    <3>1. \A n \in 0..MaxHups : n > 0 => n - 1 \in 0..MaxHups
      BY DEF MaxHups
    <3> QED
      BY <1>4, <3>1 DEF HandleHup, TypeOK
  <2>2. faults' \in 0..MaxFaults
    BY <1>4, SpendOne DEF HandleHup, TypeOK
  <2>3. helper' \in [Lines -> Config]
    BY <1>4 DEF HandleHup, TypeOK
  <2>4. pipe' \in [Lines -> Seq(Revisions)]
    <3>1. file[l].generation \in Revisions /\ pipe[l] \in Seq(Revisions)
      BY DEF TypeOK, Config
    <3>2. Append(pipe[l], file[l].generation) \in Seq(Revisions)
      BY <3>1
    <3> QED
      BY <1>4, <3>2 DEF HandleHup, TypeOK
  <2> QED
    BY <1>4, <2>1, <2>2, <2>3, <2>4 DEF HandleHup, TypeOK
<1>5. CASE Crash(l)
  BY <1>5, SpendOne DEF Crash, TypeOK
<1> QED
  BY <1>1, <1>2, <1>3, <1>4, <1>5

LEMMA StepType == ASSUME TypeOK, [Next]_vars PROVE TypeOK'
<1>1. CASE Tick
  BY <1>1, TickType
<1>2. CASE Switch
  BY <1>2, SourceReloadAssumption
     DEF Switch, Operator, TypeOK, engineVars, helperVars
<1>3. CASE Rebuild
  BY <1>3, RebuildType
<1>4. CASE RetryElapses
  BY <1>4 DEF RetryElapses, TypeOK, engineVars, helperVars, bounds
<1>5. CASE \E l \in Lines : \/ RestartElapses(l) \/ LoadList(l) \/ InstallHandler(l)
                            \/ HandleHup(l) \/ Crash(l)
  BY <1>5, HelperStepType
<1>6. CASE UNCHANGED vars
  BY <1>6 DEF vars, TypeOK, controllerVars, engineVars, helperVars, bounds
<1> QED
  BY <1>1, <1>2, <1>3, <1>4, <1>5, <1>6 DEF Next

-----------------------------------------------------------------------------
(* A line whose engine and helper a step changes, or does not.             *)

LEMMA LineTypes ==
    ASSUME TypeOK, NEW l \in Lines
    PROVE  /\ file[l] \in Config /\ helper[l] \in Config
           /\ confirmed[l] \in Nat /\ pendingGen[l] \in Nat
           /\ pipe[l] \in Seq(Revisions) /\ Len(pipe[l]) \in Nat
           /\ latest \in Nat /\ active \in Nat /\ pending \in Nat
<1>1. file[l] \in Config /\ helper[l] \in Config /\ pipe[l] \in Seq(Revisions)
  BY DEF TypeOK
<1>2. confirmed[l] \in Nat /\ pendingGen[l] \in Nat
  BY Constants DEF TypeOK
<1>3. latest \in Nat /\ active \in Nat /\ pending \in Nat
  BY Constants DEF TypeOK
<1>4. Len(pipe[l]) \in Nat
  BY <1>1
<1> QED
  BY <1>1, <1>2, <1>3, <1>4

\* Nothing that the line depends on has changed.
LEMMA KeptSound ==
    ASSUME NEW l \in Lines, LineSound(l), UNCHANGED <<latest, active, pending>>,
           sources'[l] = sources[l], pendingGen'[l] = pendingGen[l],
           confirmed'[l] = confirmed[l], file'[l] = file[l], process'[l] = process[l],
           helper'[l] = helper[l], hups'[l] = hups[l], pipe'[l] = pipe[l]
    PROVE  LineSound(l)'
<1>1. Known(l)' /\ EngineSound(l)' /\ HelperSound(l)'
  BY DEF LineSound, Known, EngineSound, HelperSound, Done
<1>2. Honest(l)'
  BY DEF LineSound, Honest, Alive, Up
<1>3. AnswerSound(l)'
  BY DEF LineSound, AnswerSound, Settled, Done, Carries, HasAnswered, MayAnswer, Alive, Up,
         Exact
<1>4. ListsCurrent(l)'
  BY DEF LineSound, ListsCurrent, Current, Alive, Up
<1> QED
  BY <1>1, <1>2, <1>3, <1>4 DEF LineSound

\* The helper of the line is gone, with its signals and its output.
LEMMA StoppedSound ==
    ASSUME NEW l \in Lines, TypeOK', Known(l)', EngineSound(l)', Current(sources[l])',
           process'[l] = "none", hups'[l] = 0, pipe'[l] = << >>
    PROVE  LineSound(l)'
<1>1. ~Alive(l)' /\ ~Up(l)' /\ ~HasAnswered(l)' /\ ~MayAnswer(l)'
  BY DEF Alive, Up, HasAnswered, MayAnswer
<1>2. Settled(l)' => Done(l)'
  BY DEF Settled, EngineSound, Done
<1> QED
  BY <1>1, <1>2
     DEF LineSound, HelperSound, Honest, AnswerSound, Carries, ListsCurrent

\* A helper has been started with the sources and generations that the engine has now.
LEMMA StartedSound ==
    ASSUME NEW l \in Lines, TypeOK', Known(l)', EngineSound(l)', Current(sources[l])',
           process'[l] = "booting", hups'[l] = 0, pipe'[l] = << >>,
           file'[l] = Written(l, sources', pendingGen', confirmed')
    PROVE  LineSound(l)'
<1>1. Alive(l)' /\ ~Up(l)' /\ ~HasAnswered(l)' /\ ~MayAnswer(l)'
  BY DEF Alive, Up, HasAnswered, MayAnswer
<1>2. Settled(l)' => Done(l)'
  BY DEF Settled, EngineSound, Done
<1>3. file'[l].generation = confirmed'[l] => Done(l)'
  BY DEF Written, Done
<1>4. Done(l)' => file'[l] = Exact(confirmed'[l])
  BY DEF Written, Done, EngineSound, Exact
<1>5. file'[l].list = sources'[l]
  BY DEF Written
<1>6. Honest(l)'
  BY <1>1, <1>3, <1>4 DEF Honest, Exact
<1>7. AnswerSound(l)'
  BY <1>1, <1>2, <1>4 DEF AnswerSound, Carries, Exact
<1> QED
  BY <1>1, <1>5, <1>6, <1>7 DEF LineSound, HelperSound, ListsCurrent

\* A start on lines that have nothing of an earlier helper left.
LEMMA StartSound ==
    ASSUME TypeOK, TypeOK', Ordered, NEW S \in SUBSET Lines, NEW src, NEW pend, NEW conf,
           src = sources', pend = pendingGen', conf = confirmed',
           Start(S, src, pend, conf), NEW l \in Lines, l \in S,
           Known(l), UNCHANGED <<latest, active, pending>>,
           EngineSound(l)', Current(sources[l])', confirmed'[l] <= latest,
           hups'[l] = 0, pipe'[l] = << >>
    PROVE  LineSound(l)'
<1>1. /\ file'[l] \in {file[l], Written(l, src, pend, conf)}
      /\ \/ process'[l] = "none"
         \/ /\ process'[l] = "booting"
            /\ file'[l] = Written(l, src, pend, conf)
  BY StartLine
<1>2. pend[l] # 0 => pend[l] <= latest
  <2>1. pend[l] # conf[l] /\ pend[l] # 0 => pending # 0 /\ pend[l] = pending
    BY DEF EngineSound, Done
  <2> QED
    BY <2>1 DEF Ordered
<1>3. Written(l, src, pend, conf).generation <= latest
  BY <1>2 DEF Written
<1>4. Known(l)'
  <2>1. file'[l].generation <= latest
    BY <1>1, <1>3 DEF Known
  <2>2. Len(pipe'[l]) = 0
    OBVIOUS
  <2>3. \A i \in 1..Len(pipe'[l]) : pipe'[l][i] <= latest'
    BY <2>2
  <2> QED
    BY <2>1, <2>3 DEF Known
<1>5. CASE process'[l] = "none"
  BY <1>4, <1>5, StoppedSound
<1>6. CASE process'[l] = "booting" /\ file'[l] = Written(l, src, pend, conf)
  <2>1. file'[l] = Written(l, sources', pendingGen', confirmed')
    BY <1>6
  <2> QED
    BY <1>4, <1>6, <2>1, StartedSound
<1> QED
  BY <1>1, <1>5, <1>6

\* A staging: of the revision that is pending, or of the one after the newest.
LEMMA StageSound ==
    ASSUME TypeOK, TypeOK', Ordered, NEW l \in Lines, LineSound(l),
           NEW revision \in Revisions, revision # 0, Stage(revision),
           UNCHANGED <<active, helper, pipe>>, pending' = revision,
           \/ revision = pending /\ latest' = latest
           \/ revision = latest + 1 /\ latest' = revision
    PROVE  LineSound(l)'
<1> USE DEF LineSound
<1>0. /\ file[l].generation \in Nat /\ confirmed[l] \in Nat /\ pendingGen[l] \in Nat
      /\ latest \in Nat /\ active \in Nat /\ pending \in Nat /\ revision \in Nat
      /\ pipe[l] \in Seq(Revisions) /\ Len(pipe[l]) \in Nat
      /\ \A i \in 1..Len(pipe[l]) : pipe[l][i] \in Nat
      /\ helper[l] \in Config /\ file[l] \in Config
  BY LineTypes, Constants DEF Config
<1>1. latest <= latest' /\ revision <= latest' /\ active < revision
  BY <1>0 DEF Ordered
<1>2. \A list : Current(list) => Current(list)'
  <2> SUFFICES ASSUME NEW list, Current(list) PROVE Current(list)'
    OBVIOUS
  <2>1. pending # 0 => pending <= revision
    BY <1>0 DEF Ordered
  <2>2. CASE list = ListOf[active]
    BY <2>2 DEF Current
  <2>3. CASE pending # 0 /\ \E r \in (active + 1)..pending : list = ListOf[r]
    <3>1. PICK r \in (active + 1)..pending : list = ListOf[r]
      BY <2>3
    <3>2. r \in (active + 1)..revision
      BY <1>0, <2>1, <2>3, <3>1
    <3> QED
      BY <3>1, <3>2 DEF Current
  <2> QED
    BY <2>2, <2>3 DEF Current
<1>3. Current(ListOf[revision])'
  <2>1. revision \in (active + 1)..revision
    BY <1>0, <1>1
  <2> QED
    BY <2>1 DEF Current
<1>n. confirmed[l] = revision \/ HasAnswered(l)' \/ file[l].generation = revision
         => revision = pending
  BY <1>0 DEF Known, HasAnswered
<1>s. Settled(l)' => confirmed'[l] = revision
  BY DEF Settled
<1>4. CASE /\ file'[l] = file[l] /\ sources'[l] = sources[l]
           /\ pendingGen'[l] = revision /\ confirmed'[l] = confirmed[l]
           /\ process'[l] = process[l] /\ hups'[l] = hups[l]
  <2> USE <1>4
  <2>1. Known(l)'
    BY <1>0, <1>1 DEF Known
  <2>2. confirmed[l] = revision => Settled(l)
    BY <1>n DEF Settled
  <2>3. EngineSound(l)'
    BY <2>2 DEF EngineSound, Done, AnswerSound
  <2>4. HelperSound(l)' /\ Honest(l)'
    BY DEF HelperSound, Honest, Alive, Up
  <2>5. AnswerSound(l)'
    <3>1. Settled(l)' => Done(l)' /\ Carries(l, confirmed[l])'
      BY <1>s, <2>2 DEF AnswerSound, Carries, Done, Alive, Up, Exact
    <3>2. HasAnswered(l)' => sources'[l] = ListOf[revision] /\ Carries(l, revision)'
      BY <1>n DEF AnswerSound, HasAnswered, Carries, Alive, Up, Exact
    <3>3. MayAnswer(l)' => sources'[l] = ListOf[revision] /\ file'[l] = Exact(revision)
      BY <1>n DEF AnswerSound, MayAnswer, Exact
    <3> QED
      BY <3>1, <3>2, <3>3 DEF AnswerSound, Carries, Exact
  <2>6. ListsCurrent(l)'
    BY <1>2 DEF ListsCurrent, Alive, Up
  <2> QED
    BY <2>1, <2>3, <2>4, <2>5, <2>6
<1>5. CASE /\ ~Alive(l)
           /\ file'[l] = Exact(revision) /\ sources'[l] = ListOf[revision]
           /\ pendingGen'[l] = 0 /\ confirmed'[l] = revision
           /\ process'[l] = process[l] /\ hups'[l] = hups[l]
  <2> USE <1>5
  <2>1. Known(l)'
    BY <1>0, <1>1 DEF Known, Exact
  <2>2. EngineSound(l)'
    BY DEF EngineSound, Done
  <2>3. ~Alive(l)' /\ ~Up(l)' /\ ~MayAnswer(l)'
    BY DEF Alive, Up, MayAnswer
  <2>4. HelperSound(l)' /\ Honest(l)' /\ ListsCurrent(l)'
    BY <1>3, <2>3 DEF HelperSound, Honest, ListsCurrent
  <2>5. AnswerSound(l)'
    BY <2>3 DEF AnswerSound, Done, Carries
  <2> QED
    BY <2>1, <2>2, <2>4, <2>5
<1>6. CASE /\ Alive(l)
           /\ file'[l] = Exact(revision) /\ sources'[l] = ListOf[revision]
           /\ pendingGen'[l] = revision /\ confirmed'[l] = confirmed[l]
           /\ \/ process'[l] = process[l]
              \/ process[l] # "running" /\ process'[l] = "exited" /\ hups'[l] = hups[l]
           /\ hups'[l] = hups[l] \/ process[l] = "running"
  <2> USE <1>6
  <2>1. Known(l)'
    BY <1>0, <1>1 DEF Known, Exact
  <2>2. confirmed[l] = revision => Settled(l)
    BY <1>n DEF Settled
  <2>3. EngineSound(l)'
    BY DEF EngineSound, Done
  <2>4. HelperSound(l)'
    BY DEF HelperSound, Alive
  <2>5. Up(l)' => Up(l)
    BY DEF Up
  <2>6. Honest(l)'
    BY <2>5 DEF Honest, Exact
  <2>7. AnswerSound(l)'
    <3>1. Settled(l)' => Done(l)' /\ Carries(l, confirmed[l])'
      BY <1>s, <2>2, <2>5 DEF AnswerSound, Carries, Done, Exact
    <3>2. HasAnswered(l)' => sources'[l] = ListOf[revision] /\ Carries(l, revision)'
      BY <1>n, <2>5 DEF AnswerSound, HasAnswered, Carries, Exact
    <3> QED
      BY <3>1, <3>2 DEF AnswerSound, Carries, Exact
  <2>8. ListsCurrent(l)'
    BY <1>2, <1>3, <2>5 DEF ListsCurrent, Exact
  <2> QED
    BY <2>1, <2>3, <2>4, <2>6, <2>7, <2>8
<1> QED
  BY <1>4, <1>5, <1>6, StageLine

-----------------------------------------------------------------------------
(* The steps of the helper of a line.                                      *)

\* Nothing but lines changes.
LEMMA OrderedKept == ASSUME Ordered, UNCHANGED <<latest, active, pending>> PROVE Ordered'
BY DEF Ordered

LEMMA LoadListSound ==
    ASSUME TypeOK, NEW l \in Lines, LineSound(l), LoadList(l)
    PROVE  LineSound(l)'
<1> USE DEF LineSound, LoadList, controllerVars, engineVars
<1>1. /\ process'[l] = "loaded" /\ helper'[l] = file[l]
      /\ Alive(l) /\ Alive(l)' /\ ~Up(l) /\ Up(l)' /\ ~MayAnswer(l)'
  BY DEF TypeOK, Alive, Up, MayAnswer
<1>2. Known(l)' /\ EngineSound(l)' /\ HelperSound(l)'
  BY <1>1 DEF Known, EngineSound, HelperSound, Done
<1>3. Honest(l)'
  BY <1>1 DEF Honest
<1>4. AnswerSound(l)'
  BY <1>1 DEF AnswerSound, Settled, Done, Carries, HasAnswered, Exact
<1>5. ListsCurrent(l)'
  BY <1>1 DEF ListsCurrent, Current
<1> QED
  BY <1>2, <1>3, <1>4, <1>5

LEMMA InstallHandlerSound ==
    ASSUME TypeOK, NEW l \in Lines, LineSound(l), InstallHandler(l)
    PROVE  LineSound(l)'
<1> USE DEF LineSound, InstallHandler, controllerVars, engineVars
<1>1. /\ process'[l] = "running" /\ hups'[l] = 0
      /\ Alive(l) /\ Alive(l)' /\ Up(l) /\ Up(l)' /\ ~MayAnswer(l)'
  BY DEF TypeOK, Alive, Up, MayAnswer, HelperSound
<1>2. Known(l)' /\ EngineSound(l)' /\ HelperSound(l)'
  BY <1>1 DEF Known, EngineSound, HelperSound, Done
<1>3. Honest(l)'
  BY <1>1 DEF Honest
<1>4. AnswerSound(l)'
  BY <1>1 DEF AnswerSound, Settled, Done, Carries, HasAnswered, Exact
<1>5. ListsCurrent(l)'
  BY <1>1 DEF ListsCurrent, Current
<1> QED
  BY <1>2, <1>3, <1>4, <1>5

LEMMA HandleHupSound ==
    ASSUME TypeOK, NEW l \in Lines, LineSound(l), HandleHup(l)
    PROVE  LineSound(l)'
<1> USE DEF LineSound, HandleHup, controllerVars, engineVars
<1>1. /\ process[l] = "running" /\ process'[l] = "running" /\ hups[l] # 0
      /\ Alive(l) /\ Alive(l)' /\ Up(l) /\ Up(l)'
      /\ MayAnswer(l)' => MayAnswer(l)
  BY DEF TypeOK, Alive, Up, MayAnswer
<1>2. EngineSound(l)' /\ HelperSound(l)'
  BY <1>1 DEF EngineSound, HelperSound, Done
<1>3. CASE helper'[l] = file[l] /\ pipe'[l] = Append(pipe[l], file[l].generation)
  <2>1. \A i \in 1..Len(pipe'[l]) :
            \/ i \in 1..Len(pipe[l]) /\ pipe'[l][i] = pipe[l][i]
            \/ pipe'[l][i] = file[l].generation
    <3>1. pipe[l] \in Seq(Revisions)
      BY DEF TypeOK
    <3> QED
      BY <1>3, <3>1
  <2>2. Known(l)'
    BY <2>1 DEF Known
  <2>3. Honest(l)'
    BY <1>1, <1>3 DEF Honest
  <2>4. HasAnswered(l)' => HasAnswered(l) \/ MayAnswer(l)
    BY <1>1, <2>1 DEF HasAnswered, MayAnswer
  <2>5. HasAnswered(l)' => sources[l] = ListOf[pending] /\ file[l] = Exact(pending)
    BY <1>1, <2>4 DEF AnswerSound, Carries
  <2>6. AnswerSound(l)'
    <3>1. Settled(l)' => Done(l)' /\ Carries(l, confirmed[l])'
      BY <1>1, <1>3 DEF AnswerSound, Settled, Done, Carries, Exact
    <3>2. HasAnswered(l)' => sources'[l] = ListOf[pending] /\ Carries(l, pending)'
      BY <1>1, <1>3, <2>5 DEF Carries, Exact
    <3>3. MayAnswer(l)' => sources'[l] = ListOf[pending] /\ file'[l] = Exact(pending)
      BY <1>1 DEF AnswerSound
    <3> QED
      BY <3>1, <3>2, <3>3 DEF AnswerSound, Carries, Exact
  <2>7. ListsCurrent(l)'
    BY <1>1, <1>3 DEF ListsCurrent, Current
  <2> QED
    BY <1>2, <2>2, <2>3, <2>6, <2>7
<1>4. CASE UNCHANGED <<helper, pipe>>
  <2>1. Known(l)' /\ Honest(l)' /\ ListsCurrent(l)'
    BY <1>1, <1>4 DEF Known, Honest, ListsCurrent, Current
  <2>2. AnswerSound(l)'
    BY <1>1, <1>4 DEF AnswerSound, Settled, Done, Carries, HasAnswered, Exact
  <2> QED
    BY <1>2, <2>1, <2>2
<1>5. \/ helper'[l] = file[l] /\ pipe'[l] = Append(pipe[l], file[l].generation)
      \/ UNCHANGED <<helper, pipe>>
  BY DEF TypeOK
<1> QED
  BY <1>3, <1>4, <1>5

LEMMA CrashSound ==
    ASSUME TypeOK, NEW l \in Lines, LineSound(l), Crash(l)
    PROVE  LineSound(l)'
<1> USE DEF LineSound, Crash, controllerVars, engineVars
<1>1. process'[l] = "exited" /\ ~Alive(l)' /\ ~Up(l)' /\ ~MayAnswer(l)'
  BY DEF TypeOK, Alive, Up, MayAnswer
<1>2. Known(l)' /\ EngineSound(l)' /\ HelperSound(l)'
  BY <1>1 DEF Known, EngineSound, HelperSound, Done
<1>3. Honest(l)' /\ ListsCurrent(l)'
  BY <1>1 DEF Honest, ListsCurrent, Current
<1>4. AnswerSound(l)'
  BY <1>1 DEF AnswerSound, Settled, Done, Carries, HasAnswered, Exact
<1> QED
  BY <1>2, <1>3, <1>4

LEMMA HelperStepSound ==
    ASSUME IInv, NEW k \in Lines,
           \/ RestartElapses(k) \/ LoadList(k) \/ InstallHandler(k) \/ HandleHup(k)
           \/ Crash(k)
    PROVE  Ordered' /\ \A l \in Lines : LineSound(l)'
<1> USE DEF IInv, controllerVars, engineVars
<1>1. Ordered'
  BY OrderedKept DEF RestartElapses, LoadList, InstallHandler, HandleHup, Crash
<1>2. ASSUME NEW l \in Lines, l # k PROVE LineSound(l)'
  <2>1. /\ UNCHANGED <<latest, active, pending>>
        /\ sources'[l] = sources[l] /\ pendingGen'[l] = pendingGen[l]
        /\ confirmed'[l] = confirmed[l] /\ file'[l] = file[l] /\ process'[l] = process[l]
        /\ helper'[l] = helper[l] /\ hups'[l] = hups[l] /\ pipe'[l] = pipe[l]
    BY <1>2 DEF RestartElapses, LoadList, InstallHandler, HandleHup, Crash, helperVars, TypeOK
  <2> QED
    BY <2>1, KeptSound
<1>3. LineSound(k)'
  <2>1. CASE RestartElapses(k)
    BY <2>1, KeptSound DEF RestartElapses, helperVars
  <2> QED
    BY <2>1, LoadListSound, InstallHandlerSound, HandleHupSound, CrashSound
<1> QED
  BY <1>1, <1>2, <1>3

-----------------------------------------------------------------------------
(* The steps of the controller.                                            *)

LEMMA NewListSound ==
    ASSUME IInv, TypeOK', NewList PROVE Ordered' /\ \A l \in Lines : LineSound(l)'
<1> USE DEF IInv
<1>1. /\ latest \in Nat /\ active \in Nat /\ latest + 1 \in Revisions /\ latest + 1 # 0
      /\ latest' = latest + 1 /\ pending' = latest + 1 /\ UNCHANGED <<active, helper, pipe>>
      /\ Stage(latest + 1)
  BY Constants, SourceReloadAssumption DEF NewList, TypeOK, Revisions
<1>2. Ordered'
  BY <1>1 DEF Ordered
<1>3. ASSUME NEW l \in Lines PROVE LineSound(l)'
  BY <1>1, StageSound
<1> QED
  BY <1>2, <1>3

LEMMA SameListSound ==
    ASSUME IInv, TypeOK', NEW revision \in Revisions, SameList(revision)
    PROVE  Ordered' /\ \A l \in Lines : LineSound(l)'
<1> USE DEF IInv, SameList, engineVars, helperVars
<1>1. /\ latest \in Nat /\ active \in Nat /\ pending \in Nat /\ revision \in Nat
      /\ latest' = revision /\ latest <= revision /\ ListOf[revision] = ListOf[latest]
  BY Constants DEF TypeOK
<1>2. /\ active' = active \/ (pending = 0 /\ active' = revision)
      /\ ListOf[active'] = ListOf[active] /\ pending' = pending
  BY <1>1 DEF Ordered
<1>3. Ordered'
  BY <1>1, <1>2 DEF Ordered
<1>4. ASSUME NEW l \in Lines PROVE LineSound(l)'
  <2> USE DEF LineSound
  <2>1. Known(l)'
    <3>1. /\ file[l].generation \in Nat /\ confirmed[l] \in Nat
      BY LineTypes, Constants DEF Config
    <3>2. pipe[l] \in Seq(Revisions)
      BY LineTypes
    <3>3. \A i \in 1..Len(pipe[l]) : pipe[l][i] \in Nat
      BY <3>2, OutputType
    <3> QED
      BY <1>1, <3>1, <3>3 DEF Known
  <2>2. EngineSound(l)' /\ HelperSound(l)' /\ Honest(l)'
    BY <1>2 DEF EngineSound, HelperSound, Done, Honest, Alive, Up
  <2>3. AnswerSound(l)'
    BY <1>2 DEF AnswerSound, Settled, Done, Carries, HasAnswered, MayAnswer, Alive, Up,
                Exact
  <2>4. \A list : Current(list) => Current(list)'
    BY <1>2 DEF Current
  <2>5. ListsCurrent(l)'
    BY <2>4 DEF ListsCurrent, Alive, Up
  <2> QED
    BY <2>1, <2>2, <2>3, <2>5
<1> QED
  BY <1>3, <1>4

LEMMA AdvanceSound ==
    ASSUME IInv, TypeOK', Advance PROVE Ordered' /\ \A l \in Lines : LineSound(l)'
<1> USE DEF IInv, Advance
<1>1. CASE pending # 0 /\ AllConfirmed
  <2>1. /\ active' = pending /\ pending' = 0
        /\ UNCHANGED <<latest, sources, pendingGen, confirmed, file, process, helper, hups,
                       pipe>>
    BY <1>1
  <2>2. Ordered'
    BY <1>1, <2>1 DEF Ordered
  <2>3. ASSUME NEW l \in Lines PROVE LineSound(l)'
    <3> USE <2>1 DEF LineSound
    <3>1. /\ Done(l) /\ confirmed[l] = pending /\ Carries(l, confirmed[l])
          /\ sources[l] = ListOf[pending]
      BY <1>1 DEF AllConfirmed, AnswerSound, Settled, EngineSound
    <3>2. Known(l)' /\ EngineSound(l)' /\ HelperSound(l)'
      BY <3>1 DEF Known, EngineSound, HelperSound, Done
    <3>3. Honest(l)'
      BY DEF Honest, Alive, Up
    <3>4. ~HasAnswered(l)' /\ ~MayAnswer(l)' /\ Done(l)' /\ Carries(l, confirmed[l])'
      BY <3>1 DEF HasAnswered, MayAnswer, Done, Carries, Alive, Up, Exact
    <3>5. ListsCurrent(l)'
      BY <3>1 DEF ListsCurrent, Current, Carries, Exact, Alive, Up
    <3> QED
      BY <3>2, <3>3, <3>4, <3>5 DEF AnswerSound
  <2> QED
    BY <2>2, <2>3
<1>2. CASE ~(pending # 0 /\ AllConfirmed) /\ pending # 0 /\ Stage(pending)
  <2>1. UNCHANGED <<latest, active, pending, helper, pipe>>
    BY <1>2
  <2>2. pending \in Revisions
    BY DEF TypeOK
  <2>3. ASSUME NEW l \in Lines PROVE LineSound(l)'
    BY <1>2, <2>1, <2>2, StageSound
  <2> QED
    BY <2>1, <2>3, OrderedKept
<1>3. CASE /\ ~(pending # 0 /\ AllConfirmed)
           /\ UNCHANGED <<retryDue, sources, pendingGen, confirmed, file, process, hups,
                          faults>>
  <2>1. UNCHANGED <<latest, active, pending, sources, pendingGen, confirmed, file, process,
                    helper, hups, pipe>>
    BY <1>3
  <2> QED
    BY <2>1, OrderedKept, KeptSound
<1> QED
  BY <1>1, <1>2, <1>3

\* Killed helpers have neither signals nor output.
LEMMA Killed ==
    ASSUME KillHelpers, NEW l \in Lines PROVE hups'[l] = 0 /\ pipe'[l] = << >>
BY DEF KillHelpers

LEMMA EmptyKnown ==
    ASSUME NEW l \in Lines, Known(l), latest' = latest, file'[l] = file[l],
           confirmed'[l] <= latest, pipe'[l] = << >>
    PROVE  Known(l)'
<1>1. Len(pipe'[l]) = 0
  OBVIOUS
<1>2. \A i \in 1..Len(pipe'[l]) : pipe'[l][i] <= latest'
  BY <1>1
<1> QED
  BY <1>2 DEF Known

LEMMA ScheduleSound ==
    ASSUME IInv, TypeOK', Schedule PROVE Ordered' /\ \A l \in Lines : LineSound(l)'
<1> USE DEF IInv, Schedule, controllerVars
<1>1. Ordered' /\ UNCHANGED <<latest, active, pending, helper>>
  BY OrderedKept
<1>2. CASE /\ Start(Lines, sources, pendingGen, confirmed) /\ KillHelpers
           /\ UNCHANGED <<sources, pendingGen, confirmed>>
  <2>1. ASSUME NEW l \in Lines PROVE LineSound(l)'
    <3>1. hups'[l] = 0 /\ pipe'[l] = << >>
      BY <1>2, Killed
    <3>2. EngineSound(l)' /\ Current(sources[l])' /\ confirmed'[l] <= latest /\ Known(l)
      BY <1>1, <1>2
         DEF LineSound, EngineSound, Done, ListsCurrent, Current, Known
    <3>3. Lines \in SUBSET Lines
      OBVIOUS
    <3> QED
      BY <1>1, <1>2, <3>1, <3>2, <3>3, StartSound
  <2> QED
    BY <1>1, <2>1
<1>3. CASE /\ KillHelpers /\ process' = [l \in Lines |-> "none"]
           /\ UNCHANGED <<sources, pendingGen, confirmed, waiting, file, faults>>
  <2>1. ASSUME NEW l \in Lines PROVE LineSound(l)'
    <3>1. hups'[l] = 0 /\ pipe'[l] = << >> /\ process'[l] = "none"
      BY <1>3, Killed
    <3>2. EngineSound(l)' /\ Current(sources[l])'
      BY <1>1, <1>3 DEF LineSound, EngineSound, Done, ListsCurrent, Current
    <3>3. Known(l) /\ confirmed'[l] <= latest
      BY <1>3 DEF LineSound, Known
    <3>4. Known(l)'
      BY <1>1, <1>3, <3>1, <3>3, EmptyKnown
    <3> QED
      BY <3>1, <3>2, <3>4, StoppedSound
  <2> QED
    BY <1>1, <2>1
<1>4. CASE UNCHANGED <<engineVars, file, process, hups, pipe, faults>>
  BY <1>1, <1>4, KeptSound DEF engineVars
<1> QED
  BY <1>2, <1>3, <1>4

\* A drained line keeps its confirmed generation, or takes the pending one: an answer that
\* counts was given by a helper that has the list of the pending revision.
LEMMA DrainedSound ==
    ASSUME IInv, Drain PROVE LineSound(at)'
<1> USE DEF IInv, Drain, controllerVars, bounds, LineSound
<1>1. /\ at \in Lines /\ pipe'[at] = << >> /\ at' = at
      /\ UNCHANGED <<latest, active, pending, sources, file, process, helper, hups>>
  BY DEF TypeOK
<1>2. ~HasAnswered(at)' /\ HelperSound(at)'
  BY <1>1 DEF HasAnswered, HelperSound
<1>3. ListsCurrent(at)'
  BY <1>1 DEF ListsCurrent, Current, Alive, Up
<1>4. CASE /\ confirmed'[at] = confirmed[at]
           /\ \/ pendingGen'[at] = pendingGen[at]
              \/ Done(at) /\ pendingGen'[at] = 0
  <2>1. Known(at)'
    BY <1>1, <1>4, EmptyKnown DEF Known
  <2>2. Done(at)' <=> Done(at)
    BY <1>1, <1>4 DEF Done
  <2>3. EngineSound(at)' /\ Honest(at)'
    BY <1>1, <1>4, <2>2 DEF EngineSound, Honest, Done, Alive, Up
  <2>4. AnswerSound(at)'
    BY <1>1, <1>2, <1>4, <2>2
       DEF AnswerSound, Settled, Carries, MayAnswer, Alive, Up, Exact
  <2> QED
    BY <1>1, <1>2, <1>3, <2>1, <2>3, <2>4
<1>5. CASE HasAnswered(at) /\ confirmed'[at] = pending /\ pendingGen'[at] = 0
  <2>1. pending <= latest /\ pending # 0
    BY <1>5 DEF HasAnswered, Ordered
  <2>2. Known(at)'
    BY <1>1, <1>5, <2>1, EmptyKnown
  <2>3. sources[at] = ListOf[pending] /\ Carries(at, pending)
    BY <1>1, <1>5 DEF AnswerSound
  <2>4. EngineSound(at)'
    BY <1>1, <1>5, <2>1, <2>3 DEF EngineSound, Done
  <2>5. Carries(at, confirmed[at])' /\ Done(at)'
    BY <1>1, <1>5, <2>3 DEF Carries, Exact, Alive, Up, Done
  <2>6. Honest(at)'
    BY <2>5 DEF Honest, Carries, Exact
  <2>7. AnswerSound(at)'
    BY <1>1, <1>2, <2>5 DEF AnswerSound, MayAnswer, Exact
  <2> QED
    BY <1>1, <1>2, <1>3, <2>2, <2>4, <2>6, <2>7
<1>6. CASE Answered(at)
  <2>1. confirmed'[at] = pendingGen[at] /\ pendingGen'[at] = 0
    BY <1>1, <1>6 DEF TypeOK
  <2>2. CASE Done(at)
    BY <1>4, <1>6, <2>1, <2>2 DEF Done, Answered
  <2>3. CASE ~Done(at)
    <3>1. pending # 0 /\ pendingGen[at] = pending
      BY <1>1, <2>3 DEF EngineSound
    <3> QED
      BY <1>5, <1>6, <2>1, <3>1 DEF Answered, HasAnswered
  <2> QED
    BY <2>2, <2>3
<1> QED
  BY <1>4, <1>6

LEMMA DrainSound ==
    ASSUME IInv, Drain PROVE Ordered' /\ \A l \in Lines : LineSound(l)'
<1> USE DEF IInv, Drain, controllerVars, bounds
<1>1. Ordered'
  BY OrderedKept
<1>2. ASSUME NEW l \in Lines, l # at PROVE LineSound(l)'
  <2>1. /\ UNCHANGED <<latest, active, pending, sources, file, process, helper, hups>>
        /\ pendingGen'[l] = pendingGen[l] /\ confirmed'[l] = confirmed[l]
        /\ pipe'[l] = pipe[l]
    BY <1>2 DEF TypeOK
  <2> QED
    BY <2>1, KeptSound
<1>3. at' = at /\ at \in Lines /\ LineSound(at)'
  BY DrainedSound DEF TypeOK
<1>4. ASSUME NEW l \in Lines, l = at PROVE LineSound(l)'
  BY <1>3, <1>4
<1> QED
  BY <1>1, <1>2, <1>4

LEMMA PollExitSound ==
    ASSUME IInv, TypeOK', PollExit PROVE Ordered' /\ \A l \in Lines : LineSound(l)'
<1> USE DEF IInv, PollExit, controllerVars
<1>0. at \in Lines /\ {at} \in SUBSET Lines
  BY DEF TypeOK
<1>1. Ordered' /\ UNCHANGED <<latest, active, pending, sources, pendingGen, confirmed, helper>>
  BY OrderedKept
<1>2. CASE /\ process' = [process EXCEPT ![at] = "none"] /\ hups' = [hups EXCEPT ![at] = 0]
           /\ pipe' = [pipe EXCEPT ![at] = << >>] /\ UNCHANGED <<stopRequested, file, faults>>
  <2>1. ASSUME NEW l \in Lines, l = at PROVE LineSound(l)'
    <3>1. hups'[l] = 0 /\ pipe'[l] = << >> /\ process'[l] = "none"
      BY <1>2, <2>1 DEF TypeOK
    <3>2. EngineSound(l)' /\ Current(sources[l])'
      BY <1>1, <1>2 DEF LineSound, EngineSound, Done, ListsCurrent, Current
    <3>3. Known(l) /\ confirmed'[l] <= latest
      BY <1>1 DEF LineSound, Known
    <3>4. Known(l)'
      BY <1>1, <1>2, <3>1, <3>3, EmptyKnown
    <3> QED
      BY <3>1, <3>2, <3>4, StoppedSound
  <2>2. ASSUME NEW l \in Lines, l # at PROVE LineSound(l)'
    <3>1. file'[l] = file[l] /\ process'[l] = process[l] /\ hups'[l] = hups[l]
          /\ pipe'[l] = pipe[l]
      BY <1>2, <2>2 DEF TypeOK
    <3> QED
      BY <1>1, <3>1, KeptSound
  <2> QED
    BY <1>1, <2>1, <2>2
<1>3. CASE /\ RestartDue(at) /\ Start({at}, sources, pendingGen, confirmed)
           /\ UNCHANGED <<hups, pipe>>
  <2>1. ASSUME NEW l \in Lines, l = at PROVE LineSound(l)'
    <3>1. hups'[l] = 0 /\ pipe'[l] = << >>
      BY <1>3, <2>1 DEF RestartDue, LineSound, HelperSound
    <3>2. EngineSound(l)' /\ Current(sources[l])' /\ confirmed'[l] <= latest /\ Known(l)
      BY <1>1 DEF LineSound, EngineSound, Done, ListsCurrent, Current, Known
    <3>3. l \in {at}
      BY <2>1
    <3> QED
      BY <1>0, <1>1, <1>3, <3>1, <3>2, <3>3, StartSound
  <2>2. ASSUME NEW l \in Lines, l # at PROVE LineSound(l)'
    <3>1. file'[l] = file[l] /\ process'[l] = process[l]
      <4>1. l \notin {at}
        BY <2>2
      <4> QED
        BY <1>0, <1>3, <4>1, StartLine
    <3>2. hups'[l] = hups[l] /\ pipe'[l] = pipe[l]
      BY <1>3
    <3> QED
      BY <1>1, <3>1, <3>2, KeptSound
  <2> QED
    BY <1>1, <2>1, <2>2
<1>4. CASE UNCHANGED <<stopRequested, waiting, file, process, hups, pipe, faults>>
  BY <1>1, <1>4, KeptSound
<1> QED
  BY <1>2, <1>3, <1>4

LEMMA RebuildSound ==
    ASSUME IInv, TypeOK', Rebuild PROVE Ordered' /\ \A l \in Lines : LineSound(l)'
<1> USE DEF IInv, Rebuild, controllerVars
<1>1. Ordered' /\ UNCHANGED <<latest, active, pending, helper>>
  BY OrderedKept
<1>2. ASSUME NEW l \in Lines
      PROVE  /\ EngineSound(l)' /\ Current(sources[l])' /\ confirmed'[l] <= latest /\ Known(l)
             /\ hups'[l] = 0 /\ pipe'[l] = << >>
  <2>1. sources'[l] = ListOf[active] /\ pendingGen'[l] = 0 /\ confirmed'[l] = active
    BY DEF EffectivePool
  <2>2. hups'[l] = 0 /\ pipe'[l] = << >>
    BY Killed
  <2>3. EngineSound(l)' /\ Current(sources[l])'
    BY <1>1, <2>1 DEF EngineSound, Done, Current
  <2> QED
    BY <2>1, <2>2, <2>3 DEF LineSound, Ordered
<1>3. CASE Start(Lines, sources', pendingGen', confirmed')
  <2>1. ASSUME NEW l \in Lines PROVE LineSound(l)'
    <3>1. Lines \in SUBSET Lines
      OBVIOUS
    <3> QED
      BY <1>1, <1>2, <1>3, <3>1, StartSound
  <2> QED
    BY <1>1, <2>1
<1>4. CASE process' = [l \in Lines |-> "none"] /\ UNCHANGED <<file, faults>>
  <2>1. ASSUME NEW l \in Lines PROVE LineSound(l)'
    <3>1. Known(l)'
      BY <1>1, <1>2, <1>4, EmptyKnown
    <3> QED
      BY <1>2, <1>4, <3>1, StoppedSound
  <2> QED
    BY <1>1, <2>1
<1> QED
  BY <1>3, <1>4

-----------------------------------------------------------------------------
(* The theorems.                                                           *)

LEMMA InitSound == Init => IInv
<1> SUFFICES ASSUME Init PROVE IInv
  OBVIOUS
<1> USE DEF Init
<1>1. TypeOK
  BY InitType
<1>2. Ordered
  BY <1>1, Constants DEF Ordered, TypeOK
<1>3. ASSUME NEW l \in Lines PROVE LineSound(l)
  <2>1. /\ process[l] = "none" /\ hups[l] = 0 /\ pipe[l] = << >> /\ pendingGen[l] = 0
        /\ confirmed[l] = active /\ sources[l] = ListOf[active]
        /\ file[l].generation = 0 /\ Len(pipe[l]) = 0
    OBVIOUS
  <2>2. ~Alive(l) /\ ~Up(l) /\ ~HasAnswered(l) /\ ~MayAnswer(l) /\ Done(l)
    BY <2>1 DEF Alive, Up, HasAnswered, MayAnswer, Done
  <2>3. Known(l)
    <3>1. 0 <= latest /\ active <= latest
      BY <1>1, Constants DEF TypeOK
    <3>2. \A i \in 1..Len(pipe[l]) : pipe[l][i] <= latest
      BY <2>1
    <3> QED
      BY <2>1, <3>1, <3>2 DEF Known
  <2>4. EngineSound(l) /\ HelperSound(l)
    BY <2>1, <2>2 DEF EngineSound, HelperSound
  <2>5. Honest(l) /\ AnswerSound(l)
    BY <2>2 DEF Honest, AnswerSound, Carries
  <2>6. ListsCurrent(l)
    BY <2>1, <2>2 DEF ListsCurrent, Current
  <2> QED
    BY <2>3, <2>4, <2>5, <2>6 DEF LineSound
<1> QED
  BY <1>1, <1>2, <1>3 DEF IInv

LEMMA StepSound == IInv /\ [Next]_vars => IInv'
<1> SUFFICES ASSUME IInv, [Next]_vars PROVE IInv'
  OBVIOUS
<1>1. TypeOK'
  BY StepType DEF IInv
<1>2. Ordered' /\ \A l \in Lines : LineSound(l)'
  <2>1. CASE NoResult \/ Switch \/ RetryElapses \/ UNCHANGED vars
    <3>1. UNCHANGED <<latest, active, pending, sources, pendingGen, confirmed, file, process,
                      helper, hups, pipe>>
      BY <2>1 DEF NoResult, Switch, RetryElapses, vars, controllerVars, engineVars, helperVars
    <3> QED
      BY <3>1, OrderedKept, KeptSound DEF IInv
  <2>2. CASE NewList
    BY <1>1, <2>2, NewListSound
  <2>3. CASE \E revision \in Revisions : SameList(revision)
    BY <1>1, <2>3, SameListSound
  <2>4. CASE Advance
    BY <1>1, <2>4, AdvanceSound
  <2>5. CASE Schedule
    BY <1>1, <2>5, ScheduleSound
  <2>6. CASE Drain
    BY <2>6, DrainSound
  <2>7. CASE PollExit
    BY <1>1, <2>7, PollExitSound
  <2>8. CASE Rebuild
    BY <1>1, <2>8, RebuildSound
  <2>9. CASE \E l \in Lines : \/ RestartElapses(l) \/ LoadList(l) \/ InstallHandler(l)
                              \/ HandleHup(l) \/ Crash(l)
    BY <2>9, HelperStepSound
  <2> QED
    BY <2>1, <2>2, <2>3, <2>4, <2>5, <2>6, <2>7, <2>8, <2>9 DEF Next, Tick
<1> QED
  BY <1>1, <1>2 DEF IInv

LEMMA Inductive == Spec => []IInv
BY InitSound, StepSound, PTL DEF Spec

\* Every variable keeps its type: no line ever has a generation beyond the newest revision,
\* and no engine more than MaxHups waiting signals.
THEOREM TypeCorrect == Spec => []TypeOK
<1>1. IInv => TypeOK
  BY DEF IInv
<1> QED
  BY <1>1, Inductive, PTL

\* A helper that carries the confirmed generation of its engine has loaded the list of that
\* generation, and without a pending revision every helper carries it: whatever is staged,
\* restarted, crashed or rebuilt in between, an accepted source event is about the source it
\* names (engine.py:375).
THEOREM GenerationsHold == Spec => []GenerationsAgree
<1>1. IInv => GenerationsAgree
  <2> SUFFICES ASSUME IInv, NEW l \in Lines, Up(l)
               PROVE  /\ helper[l].generation = confirmed[l]
                           => helper[l].list = ListOf[confirmed[l]]
                      /\ pending = 0 => helper[l].generation = confirmed[l]
    BY DEF GenerationsAgree
  <2>1. pending = 0 => helper[l] = Exact(confirmed[l])
    BY DEF IInv, LineSound, AnswerSound, Settled, Carries
  <2> QED
    BY <2>1 DEF IInv, LineSound, Honest, Exact
<1> QED
  BY <1>1, Inductive, PTL

\* A running helper has the active list or one between the active and the pending revision:
\* no retry, crash, restart or reconfiguration brings back a list that was replaced, and a
\* revision becomes active only when every helper has its list.
THEOREM NoListForgotten == Spec => []NoForgottenList
<1>1. IInv => NoForgottenList
  BY DEF IInv, LineSound, ListsCurrent, Current, NoForgottenList
<1> QED
  BY <1>1, Inductive, PTL

=============================================================================
