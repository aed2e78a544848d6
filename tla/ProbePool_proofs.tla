-------------------------- MODULE ProbePool_proofs --------------------------
(***************************************************************************)
(* Theorems about ProbePool, for any number of calls, candidates, workers, *)
(* resolvers and redirects.                                                *)
(*                                                                         *)
(* What probe_candidates reports is read from its futures in pieces, while *)
(* the threads of this and of earlier calls go on.  The report is true     *)
(* because a future that is done stays as it is (ReportSound), and because *)
(* a thread ends well only with its last measurement (ProbesSound).        *)
(***************************************************************************)
EXTENDS ProbePool, TLAPS

\* A thread that has not ended has a measurement left, one that ended well has none, and
\* none is there before its call.
ProbesSound == \A p \in Probes :
    /\ p[1] > call => pc[p] = "unborn"
    /\ pc[p] \in {"unborn", "queued"} \cup Running => measured[p] < Repeats
    /\ pc[p] = "good" => measured[p] = Repeats

\* What has been collected is what the threads came to, but for those the deadline cut off.
ReportSound ==
    /\ callerPc # "idle" => call \in Calls
    /\ \A i \in Indices(call) :
          /\ results[i] = "good" => pc[<<call, i>>] = "good"
          /\ results[i] = "bad" => pc[<<call, i>>] = "bad" \/ over[call]
          /\ callerPc = "returned" => results[i] # "none"

IInv == TypeOK /\ ProbesSound /\ ReportSound

-----------------------------------------------------------------------------
(* Probes.                                                                 *)

LEMMA ProbeOf ==
    ASSUME NEW c \in 0..MaxCalls, NEW i \in Indices(c) PROVE <<c, i>> \in Probes
<1>1. c \in Calls
  BY ProbePoolAssumption DEF Calls, Indices
<1> QED
  BY <1>1 DEF Probes

LEMMA ProbeCall == ASSUME NEW p \in Probes PROVE p[1] \in Calls
BY DEF Probes

\* A step that leaves the threads that are done, and the report, alone.
LEMMA ReportKept ==
    ASSUME TypeOK, ReportSound, UNCHANGED callerVars,
           \A c \in Calls : over[c] => over'[c],
           \A p \in Probes : pc[p] \in {"good", "bad"} => pc'[p] = pc[p]
    PROVE  ReportSound'
<1> USE DEF callerVars
<1>1. call \in 0..MaxCalls /\ (callerPc # "idle" => call \in Calls)
  BY DEF TypeOK, ReportSound
<1>2. ASSUME NEW i \in Indices(call)
      PROVE  /\ results[i] = "good" => pc'[<<call, i>>] = "good"
             /\ results[i] = "bad" => pc'[<<call, i>>] = "bad" \/ over'[call]
             /\ callerPc = "returned" => results[i] # "none"
  <2>1. <<call, i>> \in Probes
    BY <1>1, ProbeOf
  <2>2. call \in Calls
    BY <1>1, ProbePoolAssumption DEF Indices, Calls
  <2> QED
    BY <2>1, <2>2 DEF ReportSound
<1> QED
  BY <1>1, <1>2 DEF ReportSound

LEMMA FailSound ==
    ASSUME IInv, NEW p \in Probes, pc[p] \in Running, Fail(p)
    PROVE  IInv'
<1> USE DEF IInv, Fail, callerVars
<1>1. TypeOK'
  <2>1. pc' \in [Probes -> {"unborn", "queued"} \cup Running \cup Ended]
    BY DEF TypeOK, Ended
  <2>2. measured' \in [Probes -> 0..Repeats] /\ hops' \in [Probes -> 0..MaxRedirects]
    BY ProbePoolAssumption DEF TypeOK, Repeats
  <2>3. outcome' \in [Probes -> {"none", "resolved", "failed"}]
    BY DEF TypeOK
  <2> QED
    BY <2>1, <2>2, <2>3 DEF TypeOK
<1>2. ProbesSound'
  <2>1. \A q \in Probes : q # p => pc'[q] = pc[q] /\ measured'[q] = measured[q]
    BY DEF TypeOK
  <2>2. pc'[p] = "bad"
    BY DEF TypeOK
  <2> QED
    BY <2>1, <2>2 DEF ProbesSound, Running
<1>3. ReportSound'
  <2>1. \A q \in Probes : pc[q] \in {"good", "bad"} => pc'[q] = pc[q]
    BY DEF TypeOK, Running
  <2> QED
    BY <2>1, ReportKept
<1> QED
  BY <1>1, <1>2, <1>3

\* A step of a probe thread that goes on.
LEMMA GoesOnSound ==
    ASSUME IInv, NEW p \in Probes, NEW next \in Running, pc[p] \in {"queued"} \cup Running,
           pc' = [pc EXCEPT ![p] = next], hops' \in [Probes -> 0..MaxRedirects],
           outcome' \in [Probes -> {"none", "resolved", "failed"}],
           tasks' \in Seq(Probes) /\ Len(tasks') <= Resolvers,
           UNCHANGED <<callerVars, over, measured, resolver>>
    PROVE  IInv'
<1> USE DEF IInv, callerVars
<1>1. TypeOK'
  BY DEF TypeOK
<1>2. ProbesSound'
  BY DEF TypeOK, ProbesSound, Running
<1>3. ReportSound'
  <2>1. \A q \in Probes : pc[q] \in {"good", "bad"} => pc'[q] = pc[q]
    BY DEF TypeOK, Running
  <2> QED
    BY <2>1, ReportKept
<1> QED
  BY <1>1, <1>2, <1>3

LEMMA DeliveredSound ==
    ASSUME IInv, NEW p \in Probes, Delivered(p)
    PROVE  IInv'
<1> USE DEF IInv, Delivered, callerVars
<1>1. measured[p] \in 0..1 /\ measured'[p] = measured[p] + 1
  BY DEF TypeOK, ProbesSound, Running, Repeats
<1>2. pc'[p] = IF measured'[p] = Repeats THEN "good" ELSE "submit"
  BY DEF TypeOK
<1>3. \A q \in Probes : q # p => pc'[q] = pc[q] /\ measured'[q] = measured[q]
  BY DEF TypeOK
<1>4. TypeOK'
  <2>1. measured' \in [Probes -> 0..Repeats]
    BY <1>1 DEF TypeOK, Repeats
  <2>2. hops' \in [Probes -> 0..MaxRedirects]
    BY ProbePoolAssumption DEF TypeOK
  <2>3. pc' \in [Probes -> {"unborn", "queued"} \cup Running \cup Ended]
    BY DEF TypeOK, Running, Ended
  <2> QED
    BY <2>1, <2>2, <2>3 DEF TypeOK
<1>5. ProbesSound'
  <2>1. /\ pc'[p] \in {"unborn", "queued"} \cup Running => measured'[p] < Repeats
        /\ pc'[p] = "good" => measured'[p] = Repeats
    BY <1>1, <1>2 DEF Running, Repeats
  <2> QED
    BY <1>3, <2>1 DEF ProbesSound
<1>6. ReportSound'
  <2>1. \A q \in Probes : pc[q] \in {"good", "bad"} => pc'[q] = pc[q]
    BY DEF TypeOK
  <2> QED
    BY <2>1, ReportKept
<1> QED
  BY <1>4, <1>5, <1>6

LEMMA ProbeSound ==
    ASSUME IInv, NEW p \in Probes, Probe(p) \/ Server(p)
    PROVE  IInv'
<1> USE DEF IInv, callerVars
<1>0. /\ hops \in [Probes -> 0..MaxRedirects]
      /\ outcome \in [Probes -> {"none", "resolved", "failed"}]
      /\ tasks \in Seq(Probes) /\ Len(tasks) <= Resolvers
      /\ "submit" \in Running /\ "await" \in Running /\ "fetch" \in Running
  BY DEF TypeOK, Running
<1>1. CASE Take(p)
  BY <1>0, <1>1, GoesOnSound DEF Take
<1>2. CASE Submit(p)
  <2>1. tasks' \in Seq(Probes) /\ Len(tasks') <= Resolvers
    BY <1>0, <1>2, ProbePoolAssumption DEF Submit
  <2> QED
    BY <1>0, <1>2, <2>1, GoesOnSound DEF Submit
<1>3. CASE (GiveUp(p) \/ Resolved(p) \/ Redirected(p) \/ Refused(p)) /\ Fail(p)
  <2>1. pc[p] \in Running
    BY <1>3 DEF GiveUp, Resolved, Redirected, Refused, Running
  <2> QED
    BY <1>3, <2>1, FailSound
<1>4. CASE Resolved(p) /\ outcome[p] = "resolved" /\ ~Fail(p)
  <2>1. outcome' \in [Probes -> {"none", "resolved", "failed"}]
    BY <1>0, <1>4 DEF Resolved
  <2> QED
    BY <1>0, <1>4, <2>1, GoesOnSound DEF Resolved
<1>5. CASE Redirected(p) /\ hops[p] < MaxRedirects
  <2>1. hops' \in [Probes -> 0..MaxRedirects]
    <3>1. hops[p] + 1 \in 0..MaxRedirects
      BY <1>0, <1>5, ProbePoolAssumption
    <3> QED
      BY <1>0, <1>5, <3>1 DEF Redirected
  <2> QED
    BY <1>0, <1>5, <2>1, GoesOnSound DEF Redirected
<1>6. CASE Delivered(p)
  BY <1>6, DeliveredSound
<1> QED
  BY <1>1, <1>2, <1>3, <1>4, <1>5, <1>6
     DEF Probe, Server, GiveUp, Resolved, Redirected, Refused

-----------------------------------------------------------------------------
(* The caller and the resolvers.                                           *)

LEMMA CallerSound ==
    ASSUME IInv, Begin \/ Return \/ Wait \/ Collect \/ \E c \in Calls : Expire(c)
    PROVE  IInv'
<1> USE DEF IInv, callerVars, probeVars
<1>1. CASE Begin
  <2>1. call' \in Calls /\ call' \in 0..MaxCalls
    BY <1>1, ProbePoolAssumption DEF Begin, TypeOK, Calls
  <2>2. TypeOK'
    BY <1>1, <2>1 DEF Begin, TypeOK, Running, Ended
  <2>3. ProbesSound'
    <3> SUFFICES ASSUME NEW p \in Probes
                 PROVE  /\ p[1] > call' => pc'[p] = "unborn"
                        /\ pc'[p] \in {"unborn", "queued"} \cup Running => measured[p] < Repeats
                        /\ pc'[p] = "good" => measured[p] = Repeats
      BY <1>1 DEF Begin, ProbesSound
    <3>1. p[1] \in Nat /\ call \in Nat /\ call' = call + 1
      BY <1>1, ProbeCall, ProbePoolAssumption DEF Begin, TypeOK, Calls
    <3>2. CASE p[1] = call'
      <4>1. pc'[p] = "queued" /\ pc[p] = "unborn"
        BY <1>1, <3>1, <3>2 DEF Begin, Of, ProbesSound
      <4> QED
        BY <3>1, <3>2, <4>1 DEF ProbesSound
    <3>3. CASE p[1] # call'
      <4>1. pc'[p] = pc[p]
        BY <1>1, <3>3 DEF Begin, Of
      <4> QED
        BY <3>1, <3>3, <4>1 DEF ProbesSound
    <3> QED
      BY <3>2, <3>3
  <2>4. ReportSound'
    BY <1>1, <2>1 DEF Begin, ReportSound
  <2> QED
    BY <2>2, <2>3, <2>4
<1>2. CASE Return
  <2> USE <1>2 DEF Return
  <2>1. call \in Calls /\ call \in 0..MaxCalls
    BY DEF TypeOK, ReportSound
  <2>2. \A p \in Probes : pc'[p] = pc[p] \/ (pc[p] = "queued" /\ pc'[p] = "dropped")
    OBVIOUS
  <2>3. TypeOK'
    <3>1. pc' \in [Probes -> {"unborn", "queued"} \cup Running \cup Ended]
      BY DEF TypeOK, Ended
    <3>2. results' \in [Indices(call') -> {"none", "good", "bad"}]
      BY DEF TypeOK
    <3> QED
      BY <3>1, <3>2 DEF TypeOK
  <2>4. ProbesSound'
    BY <2>2 DEF ProbesSound, Running
  <2>5. ReportSound'
    <3> SUFFICES ASSUME NEW i \in Indices(call)
                 PROVE  /\ results'[i] = "good" => pc'[<<call, i>>] = "good"
                        /\ results'[i] = "bad" => pc'[<<call, i>>] = "bad" \/ over[call]
                        /\ results'[i] # "none"
      BY <2>1 DEF ReportSound
    <3>1. <<call, i>> \in Probes
      BY <2>1, ProbeOf
    <3>2. results'[i] = IF Pending(i) THEN "bad" ELSE results[i]
      OBVIOUS
    <3>3. Pending(i) => over[call]
      OBVIOUS
    <3> QED
      BY <2>2, <3>1, <3>2, <3>3 DEF ReportSound, Pending
  <2> QED
    BY <2>3, <2>4, <2>5
<1>3. CASE Wait
  <2>1. TypeOK' /\ ProbesSound'
    BY <1>3 DEF Wait, TypeOK, ProbesSound
  <2>2. ReportSound'
    BY <1>3 DEF Wait, ReportSound
  <2> QED
    BY <2>1, <2>2
<1>4. CASE Collect
  <2> USE <1>4 DEF Collect
  <2>1. \A i \in Indices(call) :
           \/ results'[i] = results[i]
           \/ results'[i] = pc[<<call, i>>] /\ pc[<<call, i>>] \in {"good", "bad"}
    BY DEF Collected, Completed
  <2>2. TypeOK'
    <3>1. results' \in [Indices(call') -> {"none", "good", "bad"}]
      BY <2>1 DEF TypeOK
    <3> QED
      BY <3>1 DEF TypeOK
  <2>3. ProbesSound'
    BY DEF ProbesSound
  <2>4. ReportSound'
    BY <2>1 DEF ReportSound
  <2> QED
    BY <2>2, <2>3, <2>4
<1>5. CASE \E c \in Calls : Expire(c)
  <2>1. PICK c \in Calls : Expire(c)
    BY <1>5
  <2>2. TypeOK' /\ \A d \in Calls : over[d] => over'[d]
    BY <2>1 DEF Expire, TypeOK
  <2>3. ProbesSound' /\ \A p \in Probes : pc'[p] = pc[p]
    BY <2>1 DEF Expire, ProbesSound
  <2>4. ReportSound'
    BY <2>1, <2>2, <2>3, ReportKept DEF Expire
  <2> QED
    BY <2>2, <2>3, <2>4
<1> QED
  BY <1>1, <1>2, <1>3, <1>4, <1>5

LEMMA ResolverSound ==
    ASSUME IInv, NEW r \in 1..Resolvers, TakeTask(r) \/ Answer(r)
    PROVE  IInv'
<1> USE DEF IInv, callerVars, probeVars
<1>1. UNCHANGED <<callerVars, over, probeVars>>
  BY DEF TakeTask, Answer
<1>2. ProbesSound' /\ ReportSound'
  BY <1>1 DEF ProbesSound, ReportSound
<1>3. TypeOK'
  <2>1. CASE TakeTask(r)
    <3>1. Head(tasks) \in Probes /\ tasks' \in Seq(Probes) /\ Len(tasks') <= Resolvers
      BY <2>1, ProbePoolAssumption DEF TakeTask, TypeOK
    <3>2. resolver' \in [1..Resolvers -> Probes \cup {Idle}]
      BY <2>1, <3>1 DEF TakeTask, TypeOK
    <3> QED
      BY <1>1, <2>1, <3>1, <3>2 DEF TakeTask, TypeOK
  <2>2. CASE Answer(r)
    <3>1. resolver' \in [1..Resolvers -> Probes \cup {Idle}]
      BY <2>2 DEF Answer, TypeOK
    <3>2. outcome' \in [Probes -> {"none", "resolved", "failed"}]
      BY <2>2 DEF Answer, TypeOK
    <3> QED
      BY <1>1, <2>2, <3>1, <3>2 DEF Answer, TypeOK
  <2> QED
    BY <2>1, <2>2
<1> QED
  BY <1>2, <1>3

-----------------------------------------------------------------------------
(* The theorems.                                                           *)

LEMMA InitSound == Init => IInv
<1> SUFFICES ASSUME Init PROVE IInv
  OBVIOUS
<1> USE DEF Init
<1>1. TypeOK
  BY ProbePoolAssumption DEF TypeOK, Indices, Repeats
<1>2. ProbesSound /\ ReportSound
  BY DEF ProbesSound, ReportSound, Indices, Repeats
<1> QED
  BY <1>1, <1>2 DEF IInv

LEMMA StepSound == IInv /\ [Next]_vars => IInv'
<1>1. ASSUME IInv, Next PROVE IInv'
  BY <1>1, CallerSound, ProbeSound, ResolverSound DEF Next
<1>2. ASSUME IInv, UNCHANGED vars PROVE IInv'
  BY <1>2 DEF IInv, TypeOK, ProbesSound, ReportSound, vars, callerVars, probeVars
<1> QED
  BY <1>1, <1>2

LEMMA Inductive == Spec => []IInv
BY InitSound, StepSound, PTL DEF Spec

\* The queue of the resolver pool never holds more tasks than it has places, no probe
\* follows more redirects than it may, and no result is anything but good or bad.
THEOREM TypeCorrect == Spec => []TypeOK
<1>1. IInv => TypeOK
  BY DEF IInv
<1> QED
  BY <1>1, Inductive, PTL

\* A candidate that is reported as good was measured twice within its own call, and one
\* that was is so reported unless the deadline came first, whatever threads and tasks
\* earlier calls have left behind.
THEOREM ReportsAreTrue == Spec => []ReportIsTrue
<1>1. IInv => ReportIsTrue
  <2> SUFFICES ASSUME IInv, callerPc = "returned", NEW i \in Indices(call)
               PROVE  /\ results[i] = "good" => pc[<<call, i>>] = "good"
                                                 /\ measured[<<call, i>>] = Repeats
                      /\ pc[<<call, i>>] = "good" => results[i] = "good" \/ over[call]
    BY DEF ReportIsTrue
  <2>1. <<call, i>> \in Probes
    BY ProbeOf DEF IInv, TypeOK
  <2>2. results[i] \in {"good", "bad"}
    BY DEF IInv, TypeOK, ReportSound
  <2> QED
    BY <2>1, <2>2 DEF IInv, ProbesSound, ReportSound
<1> QED
  BY <1>1, Inductive, PTL

=============================================================================
