------------------------------ MODULE ProbePool ------------------------------
(***************************************************************************)
(* Probing of candidate sources (source_publisher/probe.py).               *)
(*                                                                         *)
(* probe_candidates runs a few probe threads for each of its calls and     *)
(* returns at its deadline without waiting for them.  All calls of the     *)
(* process share one _ResolverPool of daemon threads, since a DNS query    *)
(* cannot be interrupted: a probe that gives up leaves its task behind, in *)
(* the queue or in the hands of a resolver.                                *)
(***************************************************************************)
EXTENDS Naturals, FiniteSets, Sequences

CONSTANTS MaxCalls,       \* bound: calls of probe_candidates
          Sizes,          \* how many candidates each of them is given
          ProbeWorkers,   \* workers of the executor of a call
          Resolvers,      \* _ResolverPool: its threads, and places in its queue
          MaxRedirects

ASSUME ProbePoolAssumption ==
    /\ MaxCalls \in Nat /\ Sizes \in [1..MaxCalls -> Nat]
    /\ ProbeWorkers \in Nat \ {0} /\ Resolvers \in Nat \ {0} /\ MaxRedirects \in Nat

Calls      == 1..MaxCalls
Indices(c) == IF c = 0 THEN {} ELSE 1..Sizes[c]
Probes     == UNION {{c} \X Indices(c) : c \in Calls}   \* the futures
Repeats    == 2   \* measurements of one probe_source

VARIABLES
    call,       \* the call that is being made, or was made last
    callerPc,   \* probe_candidates: idle, check, wait or returned
    results,    \* its results, by index
    over,       \* per call: its deadline has passed, or its cancel_event is set
    pc,         \* per probe: where probe_source is, or how it ended
    measured,   \* per probe: how many _probe_once have succeeded
    hops,       \* per probe: redirects followed in this one
    outcome,    \* per probe: what is in the outcome queue of its task
    tasks,      \* _ResolverPool.tasks
    resolver    \* per resolver: the task it works on, or idle

callerVars == <<call, callerPc, results>>
probeVars  == <<pc, measured, hops>>
vars == <<callerVars, over, probeVars, outcome, tasks, resolver>>

Idle == <<>>

Running == {"submit", "await", "fetch"}
Ended   == {"good", "bad", "dropped"}

TypeOK ==
    /\ call \in 0..MaxCalls
    /\ callerPc \in {"idle", "check", "wait", "returned"}
    /\ results \in [Indices(call) -> {"none", "good", "bad"}]
    /\ over \in [Calls -> BOOLEAN]
    /\ pc \in [Probes -> {"unborn", "queued"} \cup Running \cup Ended]
    /\ measured \in [Probes -> 0..Repeats]
    /\ hops \in [Probes -> 0..MaxRedirects]
    /\ outcome \in [Probes -> {"none", "resolved", "failed"}]
    /\ tasks \in Seq(Probes) /\ Len(tasks) <= Resolvers
    /\ resolver \in [1..Resolvers -> Probes \cup {Idle}]

-----------------------------------------------------------------------------
(* The caller.                                                             *)

Of(c) == {p \in Probes : p[1] = c}

\* probe_candidates submits all URLs to a new executor.
Begin ==
    /\ callerPc \in {"idle", "returned"} /\ call < MaxCalls
    /\ call' = call + 1
    /\ callerPc' = "check"
    /\ results' = [i \in Indices(call') |-> "none"]
    /\ pc' = [p \in Probes |-> IF p \in Of(call') THEN "queued" ELSE pc[p]]
    /\ UNCHANGED <<over, measured, hops, outcome, tasks, resolver>>

\* The future of candidate i is still in the set pending.
Pending(i) == results[i] = "none"

\* The loop ends without pending futures, or at the deadline; then those that have
\* no thread are dropped, and what has not been collected counts as failed.
Return ==
    /\ callerPc = "check"
    /\ over[call] \/ \A i \in Indices(call) : ~Pending(i)
    /\ callerPc' = "returned"
    /\ results' = [i \in Indices(call) |-> IF Pending(i) THEN "bad" ELSE results[i]]
    /\ pc' = [p \in Probes |-> IF p \in Of(call) /\ pc[p] = "queued" THEN "dropped"
                                                                   ELSE pc[p]]
    /\ UNCHANGED <<call, over, measured, hops, outcome, tasks, resolver>>

Wait ==
    /\ callerPc = "check"
    /\ ~over[call] /\ \E i \in Indices(call) : Pending(i)
    /\ callerPc' = "wait"
    /\ UNCHANGED <<call, results, over, probeVars, outcome, tasks, resolver>>

\* The futures that wait() finds done.
Completed == {i \in Indices(call) : Pending(i) /\ pc[<<call, i>>] \in {"good", "bad"}}

\* Mutant: results are stored in the order in which the futures complete.
InOrder(i) ==
    LET place(j) == Cardinality({k \in Indices(call) : ~Pending(k)}) +
                    Cardinality({k \in Completed : k <= j})
        here     == {j \in Completed : place(j) = i}
    IN  IF here = {} THEN results[i] ELSE pc[<<call, CHOOSE j \in here : TRUE>>]

\* What becomes of the result of index i when the completed futures are read.
Collected(i) == IF i \in Completed THEN pc[<<call, i>>] ELSE results[i]

\* wait() returns with completed futures, or with none after 50 ms.
Collect ==
    /\ callerPc = "wait"
    /\ callerPc' = "check"
    /\ results' = [i \in Indices(call) |-> Collected(i)]
    /\ UNCHANGED <<call, over, probeVars, outcome, tasks, resolver>>

\* The deadline passes, or the publisher is told to stop.
Expire(c) ==
    /\ c <= call /\ ~over[c]
    /\ over' = [over EXCEPT ![c] = TRUE]
    /\ UNCHANGED <<callerVars, probeVars, outcome, tasks, resolver>>

-----------------------------------------------------------------------------
(* A probe thread: probe_source with its two _probe_once.                  *)

\* The probe fails, and its thread forgets what it knew.
Fail(p) ==
    /\ pc' = [pc EXCEPT ![p] = "bad"]
    /\ measured' = [measured EXCEPT ![p] = 0]
    /\ hops' = [hops EXCEPT ![p] = 0]
    /\ outcome' = [outcome EXCEPT ![p] = "none"]
    /\ UNCHANGED <<callerVars, over, tasks, resolver>>

\* A worker of the executor takes the first URL that is left.
Take(p) ==
    /\ pc[p] = "queued"
    /\ \A q \in Of(p[1]) : pc[q] = "queued" => p[2] <= q[2]
    /\ Cardinality({q \in Of(p[1]) : pc[q] \in Running}) < ProbeWorkers
    /\ pc' = [pc EXCEPT ![p] = "submit"]
    /\ UNCHANGED <<callerVars, over, measured, hops, outcome, tasks, resolver>>

\* Mutant: the queue takes every task.
SubmitUnbounded(p) ==
    /\ pc[p] = "submit" /\ ~over[p[1]]
    /\ pc' = [pc EXCEPT ![p] = "await"]
    /\ tasks' = Append(tasks, p)
    /\ UNCHANGED <<callerVars, over, measured, hops, outcome, resolver>>

\* _ResolverPool.submit: a new task, when the queue has a place before the deadline.
Submit(p) ==
    /\ pc[p] = "submit" /\ ~over[p[1]] /\ Len(tasks) < Resolvers
    /\ pc' = [pc EXCEPT ![p] = "await"]
    /\ tasks' = Append(tasks, p)
    /\ UNCHANGED <<callerVars, over, measured, hops, outcome, resolver>>

\* Mutant: submit waits for a place as long as it takes.
GiveUpInFlight(p) ==
    /\ pc[p] \in {"await", "fetch"} /\ over[p[1]] /\ Fail(p)

\* _check_deadline, wherever the thread is: while it waits for a place or for an
\* answer it looks every 50 ms, and a request is aborted by its watcher.
GiveUp(p) ==
    /\ pc[p] \in Running /\ over[p[1]] /\ Fail(p)

\* The outcome is there: the addresses are public, or the probe has failed.
Resolved(p) ==
    /\ pc[p] = "await" /\ ~over[p[1]]
    /\ \/ outcome[p] = "failed" /\ Fail(p)
       \/ /\ outcome[p] = "resolved"
          /\ outcome' = [outcome EXCEPT ![p] = "none"]
          /\ pc' = [pc EXCEPT ![p] = "fetch"]
          /\ UNCHANGED <<callerVars, over, measured, hops, tasks, resolver>>

\* The server redirects: the new host is resolved too, up to the limit.
Redirected(p) ==
    /\ pc[p] = "fetch" /\ ~over[p[1]]
    /\ IF hops[p] < MaxRedirects
       THEN /\ pc' = [pc EXCEPT ![p] = "submit"]
            /\ hops' = [hops EXCEPT ![p] = @ + 1]
            /\ UNCHANGED <<callerVars, over, measured, outcome, tasks, resolver>>
       ELSE Fail(p)

\* It delivers enough bytes: one more measurement, and after the last the median.
Delivered(p) ==
    /\ pc[p] = "fetch" /\ ~over[p[1]]
    /\ measured' = [measured EXCEPT ![p] = @ + 1]
    /\ hops' = [hops EXCEPT ![p] = 0]
    /\ pc' = [pc EXCEPT ![p] = IF measured'[p] = Repeats THEN "good" ELSE "submit"]
    /\ UNCHANGED <<callerVars, over, outcome, tasks, resolver>>

\* It answers anything else, or too little, or the connection breaks.
Refused(p) == pc[p] = "fetch" /\ Fail(p)

Probe(p) == Take(p) \/ Submit(p) \/ GiveUp(p) \/ Resolved(p)

Server(p) == Redirected(p) \/ Delivered(p) \/ Refused(p)

-----------------------------------------------------------------------------
(* The resolver threads.                                                   *)

\* _resolve_with_deadline sets cancelled when the probe no longer waits.
Cancelled(p) == pc[p] # "await"

\* Mutant: a resolver leaves a cancelled task where it is.
TakeLiveTask(r) ==
    /\ resolver[r] = Idle /\ tasks # <<>> /\ ~Cancelled(Head(tasks))
    /\ tasks' = Tail(tasks)
    /\ resolver' = [resolver EXCEPT ![r] = Head(tasks)]
    /\ UNCHANGED <<callerVars, over, probeVars, outcome>>

\* A resolver skips the tasks that were cancelled while they were queued.
TakeTask(r) ==
    /\ resolver[r] = Idle /\ tasks # <<>>
    /\ tasks' = Tail(tasks)
    /\ resolver' = [resolver EXCEPT ![r] = IF Cancelled(Head(tasks)) THEN Idle
                                                                    ELSE Head(tasks)]
    /\ UNCHANGED <<callerVars, over, probeVars, outcome>>

\* The resolver function returns or raises, if it ever does; nobody reads the outcome
\* of a cancelled task.
Answer(r) ==
    /\ resolver[r] # Idle
    /\ resolver' = [resolver EXCEPT ![r] = Idle]
    /\ \E o \in {"resolved", "failed"} :
          outcome' = IF Cancelled(resolver[r]) THEN outcome
                     ELSE [outcome EXCEPT ![resolver[r]] = o]
    /\ UNCHANGED <<callerVars, over, probeVars, tasks>>

-----------------------------------------------------------------------------
Init ==
    /\ call = 0 /\ callerPc = "idle"
    /\ results = [i \in Indices(0) |-> "none"]
    /\ over = [c \in Calls |-> FALSE]
    /\ pc = [p \in Probes |-> "unborn"]
    /\ measured = [p \in Probes |-> 0]
    /\ hops = [p \in Probes |-> 0]
    /\ outcome = [p \in Probes |-> "none"]
    /\ tasks = <<>>
    /\ resolver = [r \in 1..Resolvers |-> Idle]

Next ==
    \/ Begin \/ Return \/ Wait \/ Collect
    \/ \E c \in Calls : Expire(c)
    \/ \E p \in Probes : Probe(p) \/ Server(p)
    \/ \E r \in 1..Resolvers : TakeTask(r) \/ Answer(r)

Spec == Init /\ [][Next]_vars

\* The threads of the publisher run.  Nothing is assumed of the DNS and of the servers,
\* which may never answer, nor of the deadline.
Fairness ==
    /\ WF_callerVars(Return) /\ WF_callerVars(Wait) /\ WF_callerVars(Collect)
    /\ \A p \in Probes : WF_vars(Probe(p))
    /\ \A r \in 1..Resolvers : WF_vars(TakeTask(r))

FairSpec == Spec /\ Fairness

-----------------------------------------------------------------------------
(* Properties.                                                             *)

\* A candidate is reported as good only if it was measured twice within this call,
\* and is so reported unless the deadline came first: threads and answers that an
\* earlier call left behind do not count.
ReportIsTrue ==
    callerPc = "returned" => \A i \in Indices(call) :
        LET p == <<call, i>>
        IN  /\ results[i] = "good" => pc[p] = "good" /\ measured[p] = Repeats
            /\ pc[p] = "good" => results[i] = "good" \/ over[call]

\* test_publisher_probe.py:246: blocked DNS workers do not hold up a call.  Once its
\* deadline has passed it returns and its threads end, though no query is answered and
\* no server.
CallEnds ==
    \A c \in Calls : over[c] ~>
        /\ call > c \/ callerPc = "returned"
        /\ \A p \in Of(c) : pc[p] \in Ended

\* The tasks that were left behind do not use the pool up: as long as no query blocks
\* for ever, each probe gets its turn and its answer, or gives up at its deadline.
Served ==
    (\A r \in 1..Resolvers : []<>(resolver[r] = Idle)) =>
        \A p \in Probes : pc[p] \in {"submit", "await"} ~> pc[p] \notin {"submit", "await"}

=============================================================================
