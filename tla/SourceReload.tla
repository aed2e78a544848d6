---------------------------- MODULE SourceReload ----------------------------
(***************************************************************************)
(* How a revision of the signed source list reaches the downloads: the     *)
(* pending revision of PumperController (steam_pumper/controller.py), one  *)
(* EngineProcess per line (steam_pumper/engine.py), the sources file each  *)
(* of them writes, and the discarder helper that reads the file when it    *)
(* starts and on SIGHUP and answers on its output pipe                     *)
(* (cmd/discarder/main.go).                                                *)
(*                                                                         *)
(* Python is one thread: a tick runs through its parts in order, and the   *)
(* HTTP handlers run between ticks.  The helpers run by themselves.        *)
(* Revision 0 and generation 0 stand for "none", the empty string.         *)
(***************************************************************************)
EXTENDS Integers, Sequences, FiniteSets

CONSTANTS LineCount,     \* logical lines
          MaxRevision,   \* bound: the newest revision that is published
          ListOf,        \* the source list of each revision; 0: the local one
          MaxFaults,     \* bound: crashes and failed system calls
          MaxSwitches    \* bound: operator actions

Lines     == 1..LineCount
Revisions == 0..MaxRevision
Lists     == {ListOf[r] : r \in Revisions}

ASSUME SourceReloadAssumption ==
    /\ LineCount \in Nat \ {0}
    /\ MaxRevision \in Nat
    /\ DOMAIN ListOf = Revisions
    /\ MaxFaults \in Nat
    /\ MaxSwitches \in Nat

VARIABLES
    tickPc,        \* the part of PumperController.tick that runs next
    at,            \* the line whose poll runs next
    latest,        \* the manager's accepted revision
    active,        \* active_source_revision, whose list is the effective pool
    pending,       \* _pending_source_revision
    retryDue,      \* _source_apply_retry_at has passed
    wanted,        \* manual_enabled and inside the schedule window
    sources,       \* per engine: its sources
    pendingGen,    \* its state.pending_source_generation
    confirmed,     \* its state.confirmed_source_generation
    stopRequested, \* its stop_requested
    waiting,       \* its next_restart_at lies ahead
    file,          \* its sources file: generation and list
    process,       \* its helper: none, booting, loaded, running or exited
    helper,        \* what the helper has loaded: generation and list
    hups,          \* SIGHUPs the helper has not handled
    pipe,          \* its output that has not been drained
    faults,        \* faults so far
    switches       \* operator actions so far

controllerVars == <<latest, active, pending, retryDue, wanted>>
engineVars     == <<sources, pendingGen, confirmed, stopRequested, waiting>>
helperVars     == <<process, helper, hups, pipe>>
bounds         == <<faults, switches>>
vars == <<tickPc, at, controllerVars, engineVars, file, helperVars, bounds>>

Config  == [generation : Revisions, list : Lists]
MaxHups == 2   \* bound: a further SIGHUP merges with the waiting ones

TypeOK ==
    /\ tickPc \in {"result", "advance", "schedule", "drain", "exit"}
    /\ at \in Lines
    /\ latest \in Revisions /\ active \in Revisions /\ pending \in Revisions
    /\ retryDue \in BOOLEAN /\ wanted \in BOOLEAN
    /\ sources \in [Lines -> Lists]
    /\ pendingGen \in [Lines -> Revisions]
    /\ confirmed \in [Lines -> Revisions]
    /\ stopRequested \in [Lines -> BOOLEAN]
    /\ waiting \in [Lines -> BOOLEAN]
    /\ file \in [Lines -> Config]
    /\ process \in [Lines -> {"none", "booting", "loaded", "running", "exited"}]
    /\ helper \in [Lines -> Config]
    /\ hups \in [Lines -> 0..MaxHups]
    /\ pipe \in [Lines -> Seq(Revisions)]
    /\ faults \in 0..MaxFaults
    /\ switches \in 0..MaxSwitches

Alive(l) == process[l] \in {"booting", "loaded", "running"}

\* A step in which each call of failing raises spends that many faults.
Spend(failing) == /\ faults + Cardinality(failing) <= MaxFaults
                  /\ faults' = faults + Cardinality(failing)

-----------------------------------------------------------------------------
(* The calls of the controller on its engines.                             *)

\* EngineProcess.start on the lines of S, whose engines have these sources and
\* generations: the file is written, the helper is spawned.  A start that fails
\* schedules a restart.
Start(S, src, pend, conf) ==
    \E unwritten, unspawned \in SUBSET S :
        /\ unwritten \cap unspawned = {}
        /\ Spend(unwritten \cup unspawned)
        /\ file' = [l \in Lines |->
                      IF l \in S \ unwritten
                      THEN [generation |-> IF pend[l] # 0 THEN pend[l] ELSE conf[l],
                            list |-> src[l]]
                      ELSE file[l]]
        /\ process' = [l \in Lines |->
                         IF l \notin S THEN process[l]
                         ELSE IF l \in unwritten \cup unspawned THEN "none"
                         ELSE "booting"]
        /\ waiting' = [l \in Lines |-> IF l \in S THEN l \in unwritten \cup unspawned
                                       ELSE waiting[l]]
        /\ stopRequested' = [l \in Lines |-> l \notin S /\ stopRequested[l]]

\* EngineProcess.stop on every line, as far as the helpers are concerned.
KillHelpers ==
    /\ hups' = [l \in Lines |-> 0]
    /\ pipe' = [l \in Lines |-> << >>]

\* The lines whose generation stage_sources confirms by itself.
ConfirmedAtOnce(written) == {l \in written : ~Alive(l)}

\* stage_sources on every line.  Without a live helper the generation counts as
\* confirmed; a SIGHUP that finds the helper still without its handler kills it.
Stage(revision) ==
    \E unwritten \in SUBSET Lines, unsignalled \in SUBSET {l \in Lines : Alive(l)} :
        LET written   == Lines \ unwritten
            confirms  == ConfirmedAtOnce(written)
            signalled == {l \in written \ unsignalled : Alive(l)}
        IN  /\ unwritten \cap unsignalled = {}
            /\ Spend(unwritten \cup unsignalled)
            /\ file' = [l \in Lines |->
                          IF l \in written
                          THEN [generation |-> revision, list |-> ListOf[revision]]
                          ELSE file[l]]
            /\ sources' = [l \in Lines |-> IF l \in written THEN ListOf[revision]
                                           ELSE sources[l]]
            /\ pendingGen' = [l \in Lines |-> IF l \in confirms THEN 0 ELSE revision]
            /\ confirmed' = [l \in Lines |-> IF l \in confirms THEN revision
                                             ELSE confirmed[l]]
            /\ process' = [l \in Lines |->
                             IF l \in signalled /\ process[l] # "running"
                             THEN "exited" ELSE process[l]]
            /\ hups' = [l \in Lines |->
                          IF l \in signalled /\ process[l] = "running"
                          THEN IF hups[l] < MaxHups THEN hups[l] + 1 ELSE MaxHups
                          ELSE hups[l]]
            /\ retryDue' = FALSE

-----------------------------------------------------------------------------
(* PumperController.tick, part by part.                                    *)

\* No refresh result, or a failed one.
NoResult ==
    /\ tickPc = "result"
    /\ tickPc' = "advance"
    /\ UNCHANGED <<at, controllerVars, engineVars, file, helperVars, bounds>>

\* The manager has accepted a revision with another list: it becomes pending and
\* is staged, whatever was pending before.
NewList ==
    /\ tickPc = "result"
    /\ latest < MaxRevision
    /\ ListOf[latest + 1] # ListOf[latest] \/ latest = 0
    /\ latest' = latest + 1
    /\ pending' = latest + 1
    /\ Stage(latest + 1)
    /\ tickPc' = "advance"
    /\ UNCHANGED <<at, active, wanted, stopRequested, waiting, helper, pipe, switches>>

\* The accepted revision has the same list as the one before: not changed.
SameList(revision) ==
    /\ tickPc = "result"
    /\ revision # 0
    /\ \/ revision = latest
       \/ revision = latest + 1 /\ latest # 0 /\ ListOf[revision] = ListOf[latest]
    /\ latest' = revision
    /\ active' = IF pending = 0 THEN revision ELSE active
    /\ tickPc' = "advance"
    /\ UNCHANGED <<at, pending, retryDue, wanted, engineVars, file, helperVars, bounds>>

\* Mutant: the first line that confirms is enough.
SomeConfirmed == \E l \in Lines : confirmed[l] = pending

AllConfirmed  == \A l \in Lines : confirmed[l] = pending

\* Mutant: running lines are left to confirm by themselves.
RetryOfStopped == retryDue /\ \A l \in Lines : stopRequested[l]

RetryIsDue == retryDue

\* _advance_pending_source_update
Advance ==
    /\ tickPc = "advance"
    /\ tickPc' = "schedule"
    /\ IF pending # 0 /\ AllConfirmed
       THEN /\ active' = pending
            /\ pending' = 0
            /\ UNCHANGED <<retryDue, sources, pendingGen, confirmed, file, process,
                           hups, faults>>
       ELSE /\ IF pending # 0 /\ RetryIsDue
               THEN Stage(pending)
               ELSE UNCHANGED <<retryDue, sources, pendingGen, confirmed, file,
                                process, hups, faults>>
            /\ UNCHANGED <<active, pending>>
    /\ UNCHANGED <<at, latest, wanted, stopRequested, waiting, helper, pipe, switches>>

Running == \E l \in Lines : ~stopRequested[l]

\* The schedule check, which is not due in every tick.  The polls after it are
\* due every second; a tick without them is not told apart from the next one.
Schedule ==
    /\ tickPc = "schedule"
    /\ tickPc' = "drain"
    /\ \/ /\ wanted /\ ~Running
          /\ Start(Lines, sources, pendingGen, confirmed)
          /\ KillHelpers
          /\ UNCHANGED <<sources, pendingGen, confirmed>>
       \/ /\ ~wanted /\ Running
          /\ KillHelpers
          /\ process' = [l \in Lines |-> "none"]
          /\ stopRequested' = [l \in Lines |-> TRUE]
          /\ UNCHANGED <<sources, pendingGen, confirmed, waiting, file, faults>>
       \/ UNCHANGED <<engineVars, file, process, hups, pipe, faults>>
    /\ UNCHANGED <<at, controllerVars, helper, switches>>

\* Mutant: the generation that an answer names is not compared.
AnsweredAnything(l) == pendingGen[l] # 0 /\ pipe[l] # << >>

\* _confirm_source_generation: an answer counts when it names the generation that
\* is pending.
Answered(l) == pendingGen[l] # 0 /\ \E i \in 1..Len(pipe[l]) : pipe[l][i] = pendingGen[l]

\* EngineProcess.poll begins with _drain_output.
Drain ==
    /\ tickPc = "drain"
    /\ tickPc' = "exit"
    /\ IF Answered(at)
       THEN /\ confirmed' = [confirmed EXCEPT ![at] = pendingGen[at]]
            /\ pendingGen' = [pendingGen EXCEPT ![at] = 0]
       ELSE UNCHANGED <<confirmed, pendingGen>>
    /\ pipe' = [pipe EXCEPT ![at] = << >>]
    /\ UNCHANGED <<at, controllerVars, sources, stopRequested, waiting, file, process,
                   helper, hups, bounds>>

\* Mutant: the loop over the lines ends one step too late.
NextLineTooFar == IF at <= LineCount THEN tickPc' = "drain" /\ at' = at + 1
                                     ELSE tickPc' = "result" /\ at' = 1

\* The next engine of sample_metrics, or the end of the tick.
NextLine == IF at < LineCount THEN tickPc' = "drain" /\ at' = at + 1
                              ELSE tickPc' = "result" /\ at' = 1

\* Mutant: the test of stop_requested is the wrong way round.
RestartDueOnceStopped(l) == process[l] = "none" /\ stopRequested[l] /\ ~waiting[l]

RestartDue(l) == process[l] = "none" /\ ~stopRequested[l] /\ ~waiting[l]

\* poll goes on to the exit code, and starts a helper that is due.  What the
\* helper wrote after the drain is lost with its pipe.
PollExit ==
    /\ tickPc = "exit"
    /\ NextLine
    /\ \/ /\ process[at] = "exited"
          /\ process' = [process EXCEPT ![at] = "none"]
          /\ waiting' = [waiting EXCEPT ![at] = TRUE]
          /\ hups' = [hups EXCEPT ![at] = 0]
          /\ pipe' = [pipe EXCEPT ![at] = << >>]
          /\ UNCHANGED <<stopRequested, file, faults>>
       \/ /\ RestartDue(at)
          /\ Start({at}, sources, pendingGen, confirmed)
          /\ UNCHANGED <<hups, pipe>>
       \/ /\ process[at] # "exited" /\ ~RestartDue(at)
          /\ UNCHANGED <<stopRequested, waiting, file, process, hups, pipe, faults>>
    /\ UNCHANGED <<controllerVars, sources, pendingGen, confirmed, helper, switches>>

Tick == \/ NoResult \/ NewList \/ (\E revision \in Revisions : SameList(revision))
        \/ Advance \/ Schedule \/ Drain \/ PollExit

-----------------------------------------------------------------------------
(* Between ticks: the operator, and time.                                  *)

Operator == /\ tickPc = "result"
            /\ switches < MaxSwitches
            /\ switches' = switches + 1

\* The window opens or closes, or downloads are enabled or disabled by hand.
Switch ==
    /\ Operator
    /\ wanted' = ~wanted
    /\ UNCHANGED <<tickPc, at, latest, active, pending, retryDue, engineVars, file,
                   helperVars, faults>>

EffectivePool == ListOf[active]

\* update_config with a field that needs a restart: every engine is replaced by
\* a new one for the effective pool; the pending revision stays pending.
Rebuild ==
    /\ Operator
    /\ sources' = [l \in Lines |-> EffectivePool]
    /\ pendingGen' = [l \in Lines |-> 0]
    /\ confirmed' = [l \in Lines |-> active]
    /\ KillHelpers
    /\ IF Running /\ wanted
       THEN Start(Lines, sources', pendingGen', confirmed')
       ELSE /\ process' = [l \in Lines |-> "none"]
            /\ stopRequested' = [l \in Lines |-> TRUE]
            /\ waiting' = [l \in Lines |-> FALSE]
            /\ UNCHANGED <<file, faults>>
    /\ UNCHANGED <<tickPc, at, controllerVars, helper>>

\* Five seconds since the last staging.
RetryElapses ==
    /\ pending # 0 /\ ~retryDue
    /\ retryDue' = TRUE
    /\ UNCHANGED <<tickPc, at, latest, active, pending, wanted, engineVars, file,
                   helperVars, bounds>>

\* The restart delay of an engine is over.
RestartElapses(l) ==
    /\ waiting[l]
    /\ waiting' = [waiting EXCEPT ![l] = FALSE]
    /\ UNCHANGED <<tickPc, at, controllerVars, sources, pendingGen, confirmed,
                   stopRequested, file, helperVars, bounds>>

-----------------------------------------------------------------------------
(* The helper of a line, as far as its source list goes.                   *)

\* run: the file is loaded first, the signal handler is installed later.
LoadList(l) ==
    /\ process[l] = "booting"
    /\ process' = [process EXCEPT ![l] = "loaded"]
    /\ helper' = [helper EXCEPT ![l] = file[l]]
    /\ UNCHANGED <<tickPc, at, controllerVars, engineVars, file, hups, pipe, bounds>>

InstallHandler(l) ==
    /\ process[l] = "loaded"
    /\ process' = [process EXCEPT ![l] = "running"]
    /\ UNCHANGED <<tickPc, at, controllerVars, engineVars, file, helper, hups, pipe,
                   bounds>>

HandleHup(l) ==
    /\ process[l] = "running" /\ hups[l] > 0
    /\ hups' = [hups EXCEPT ![l] = @ - 1]
    /\ \/ /\ helper' = [helper EXCEPT ![l] = file[l]]
          /\ pipe' = [pipe EXCEPT ![l] = Append(@, file[l].generation)]
          /\ UNCHANGED faults
       \/ /\ Spend({l})   \* the file cannot be read
          /\ UNCHANGED <<helper, pipe>>
    /\ UNCHANGED <<tickPc, at, controllerVars, engineVars, file, process, switches>>

Crash(l) ==
    /\ Alive(l)
    /\ Spend({l})
    /\ process' = [process EXCEPT ![l] = "exited"]
    /\ UNCHANGED <<tickPc, at, controllerVars, engineVars, file, helper, hups, pipe,
                   switches>>

-----------------------------------------------------------------------------
Init ==
    /\ tickPc = "result" /\ at = 1
    /\ active \in {0, 1} \cap Revisions   \* without or with a last-known-good list
    /\ latest = active /\ pending = 0
    /\ retryDue = FALSE /\ wanted = TRUE
    /\ sources = [l \in Lines |-> ListOf[active]]
    /\ pendingGen = [l \in Lines |-> 0]
    /\ confirmed = [l \in Lines |-> active]
    /\ stopRequested = [l \in Lines |-> TRUE]
    /\ waiting = [l \in Lines |-> FALSE]
    /\ file = [l \in Lines |-> [generation |-> 0, list |-> ListOf[0]]]
    /\ process = [l \in Lines |-> "none"]
    /\ helper = file
    /\ hups = [l \in Lines |-> 0]
    /\ pipe = [l \in Lines |-> << >>]
    /\ faults = 0 /\ switches = 0

Next == \/ Tick \/ Switch \/ Rebuild \/ RetryElapses
        \/ \E l \in Lines : \/ RestartElapses(l) \/ LoadList(l) \/ InstallHandler(l)
                            \/ HandleHup(l) \/ Crash(l)

Spec == Init /\ [][Next]_vars

\* service_actions keeps ticking, timers run out, and a helper that is up boots
\* and handles its signals.  The retry does not find a booting helper for ever:
\* it comes every five seconds, and the restart delay doubles.  Faults and
\* operator actions need not happen.
Fairness ==
    /\ WF_vars(Tick)
    /\ WF_vars(RetryElapses)
    /\ \A l \in Lines : /\ WF_vars(RestartElapses(l))
                       /\ WF_vars(HandleHup(l))
                       /\ SF_vars(LoadList(l))
                       /\ SF_vars(InstallHandler(l))

FairSpec == Spec /\ Fairness

-----------------------------------------------------------------------------
(* Properties.                                                             *)

\* A helper that has loaded its file.
Up(l) == process[l] \in {"loaded", "running"}

\* The engine accepts source events by their generation alone (engine.py:375).  So a
\* helper that carries the confirmed generation has loaded the list of that
\* generation; and when no revision is pending every helper carries it: no line
\* goes silent for the console.
GenerationsAgree == \A l \in Lines : Up(l) =>
    /\ helper[l].generation = confirmed[l] => helper[l].list = ListOf[confirmed[l]]
    /\ pending = 0 => helper[l].generation = confirmed[l]

\* No crash, restart, failed write or reconfiguration takes a helper back to a
\* list that is neither in force nor about to be.  In particular, when no revision is
\* pending every running helper has the active list: "applied" is never reported
\* early, by one line for another.
NoForgottenList == \A l \in Lines :
    Up(l) => helper[l].list = ListOf[active]
               \/ (pending # 0 /\ \E r \in (active + 1)..pending : helper[l].list = ListOf[r])

\* A revision, once accepted, is applied or superseded: lost signals, lost
\* answers and crashes of helpers only delay it.
PendingIsApplied == pending # 0 ~> pending = 0

\* When the faults stop, every line has its helper again, or was stopped.
EnginesComeBack ==
    <>[](\A l \in Lines : process[l] = IF stopRequested[l] THEN "none" ELSE "running")

=============================================================================
