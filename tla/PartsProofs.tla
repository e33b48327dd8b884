------------------------------ MODULE PartsProofs ------------------------------
(***************************************************************************)
(* Theorems about the components of Parts, for every value of their        *)
(* constants.  Each theorem is about the specification of one component.   *)
(***************************************************************************)
EXTENDS Parts, FiniteSets, SubsequenceProofs, FiniteSetTheorems, SequenceTheorems

-----------------------------------------------------------------------------
(* The stop of the engine *)

Serving == {"serving", "draining"}

CallTypes ==
    /\ submitPC \in [Submissions -> {"new", "checked", "logged", "admitted", "found",
                         "queued", "answered", "done"}]
    /\ outcome \in [Submissions -> {"none", "refused", "timeout", "ok"}]
    /\ logged \subseteq Submissions

\* Nothing is taken apart while the server may still have calls.
Whole ==
    phase \in Serving => running /\ ~ctxDone /\ ~actorsNil /\ ~chansNil /\ ~closed

\* A server that is stopped gracefully has no call under way once the engine is
\* being taken apart; what a call answers agrees with what has become of it.
CallsSettled ==
    graceful =>
        /\ ~panicked
        /\ phase \notin Serving => \A c \in Submissions : submitPC[c] \in {"new", "done"}
        /\ \A c \in Submissions :
            /\ outcome[c] # "refused"
            /\ c \in logged => submitPC[c] \notin {"new", "checked"}
            /\ submitPC[c] = "answered" \/ outcome[c] = "ok" => c \in engineExecuted
            /\ submitPC[c] = "done" => outcome[c] \in {"timeout", "ok"}

StopInv == CallTypes /\ Whole /\ CallsSettled

\* What the steps that are not a call's do to what StopInv is about.
LEMMA StopFrame ==
    ASSUME StopInv, UNCHANGED <<graceful, submitPC, outcome, logged, panicked>>,
           engineExecuted \subseteq engineExecuted',
           \/ UNCHANGED <<phase, running, ctxDone, actorsNil, chansNil, closed>>
           \/ /\ phase' \notin Serving
              /\ \/ phase \notin Serving
                 \/ graceful => \A c \in Submissions : submitPC[c] \in {"new", "done"}
    PROVE  StopInv'
BY DEF StopInv, CallTypes, Whole, CallsSettled

\* The steps of a call; a server that is being stopped gracefully has calls only
\* while the engine is whole.
LEMMA StopCallStep ==
    ASSUME StopInv, ~panicked, NEW c \in Submissions,
           Stop!CallStep(c) \/ \E s \in Symbols : Stop!Arrive(c, s)
    PROVE  StopInv'
<1> USE DEF StopInv, CallTypes, Whole
<1>1. ASSUME NEW s \in Symbols, Stop!Arrive(c, s)
      PROVE  StopInv'
  <2>1. graceful => phase = "serving" /\ running
    BY <1>1 DEF Stop!Arrive, Serving
  <2>2. UNCHANGED <<graceful, phase, running, ctxDone, actorsNil, chansNil, closed,
                    logged, engineExecuted>>
    BY <1>1 DEF Stop!Arrive, Stop!engineVars
  <2>3. CASE running
    <3>1. Stop!Goes(c, "checked") /\ submitPC[c] = "new"
      BY <1>1, <2>3 DEF Stop!Arrive
    <3> QED
      BY <2>1, <2>2, <3>1 DEF Stop!Goes, CallsSettled, Serving
  <2>4. CASE ~running
    <3>1. Stop!Ends(c, "refused") /\ ~graceful
      BY <1>1, <2>1, <2>4 DEF Stop!Arrive
    <3> QED
      BY <2>2, <3>1 DEF Stop!Ends, CallsSettled
  <2> QED
    BY <2>3, <2>4
<1>2. ASSUME submitPC[c] \notin {"new", "done"}
      PROVE  graceful => phase \in Serving /\ running /\ ~actorsNil /\ ~chansNil /\ ~closed
  BY <1>2 DEF CallsSettled
<1>3. CASE Stop!Log(c)
  BY <1>2, <1>3 DEF Stop!Log, Stop!Goes, Stop!engineVars, CallsSettled
<1>4. CASE Stop!Check(c)
  BY <1>2, <1>4 DEF Stop!Check, Stop!Goes, Stop!Ends, Stop!engineVars, CallsSettled
<1>5. CASE Stop!FindActor(c) \/ Stop!CreateActor(c) \/ Stop!Put(c)
  BY <1>2, <1>5
     DEF Stop!FindActor, Stop!CreateActor, Stop!Put, Stop!Goes, Stop!engineVars,
         CallsSettled
<1>6. CASE Stop!CreateInNil(c) \/ Stop!NotifyClosed(c)
  BY <1>2, <1>6
     DEF Stop!CreateInNil, Stop!NotifyClosed, Stop!Panics, Stop!engineVars,
         CallsSettled
<1>7. CASE Stop!TimeOut(c)
  BY <1>2, <1>7 DEF Stop!TimeOut, Stop!Ends, Stop!engineVars, CallsSettled
<1>8. CASE Stop!Receive(c)
  BY <1>2, <1>8 DEF Stop!Receive, Stop!Goes, Stop!engineVars, CallsSettled
<1>9. CASE Stop!Notify(c)
  BY <1>2, <1>9 DEF Stop!Notify, Stop!Ends, Stop!engineVars, CallsSettled
<1> QED
  BY <1>1, <1>3, <1>4, <1>5, <1>6, <1>7, <1>8, <1>9 DEF Stop!CallStep

LEMMA StopStep == StopInv /\ [Stop!Next]_Stop!vars => StopInv'
<1> SUFFICES ASSUME StopInv, [Stop!Next]_Stop!vars PROVE StopInv'
  OBVIOUS
<1> USE DEF Stop!callVars, Stop!engineVars
<1>1. ASSUME ~panicked, NEW c \in Submissions,
             Stop!CallStep(c) \/ \E s \in Symbols : Stop!Arrive(c, s)
      PROVE  StopInv'
  BY <1>1, StopCallStep
<1>2. ASSUME NEW s \in Symbols, Stop!Handle(s) \/ Stop!Exit(s)
      PROVE  StopInv'
  BY <1>2, StopFrame DEF Stop!Handle, Stop!Exit
<1>3. CASE Stop!TakeResult \/ Stop!Process \/ Stop!NotifierGoes
  BY <1>3, StopFrame DEF Stop!TakeResult, Stop!Process, Stop!NotifierGoes
<1>4. CASE Stop!Signal
  BY <1>4 DEF Stop!Signal, Stop!Stops, StopInv, CallTypes, Whole, CallsSettled, Serving
<1>5. CASE Stop!SwapRunning
  BY <1>5, StopFrame DEF Stop!SwapRunning, Stop!ServerStopped, Stop!Stops, Serving
<1>6. CASE Stop!Cancel \/ Stop!TakeChans \/ Stop!DropActors \/ Stop!CloseNotify
  BY <1>6, StopFrame
     DEF Stop!Cancel, Stop!TakeChans, Stop!DropActors, Stop!CloseNotify, Stop!Stops,
         Serving
<1>7. CASE UNCHANGED Stop!vars
  BY <1>7, StopFrame DEF Stop!vars
<1> QED
  BY <1>1, <1>2, <1>3, <1>4, <1>5, <1>6, <1>7 DEF Stop!Next, Stop!Shutdown

\* Whatever calls and symbols there are: once main has let the server finish its
\* calls, no call meets an engine that is being taken apart, so none panics, none
\* is logged and then refused, and of the logged commands that were not executed
\* the callers have been told of a time-out.
THEOREM ShutdownIsClean == Stop!Spec => []StopIsClean
<1>1. Stop!Init => StopInv
  BY DEF Stop!Init, StopInv, CallTypes, Whole, CallsSettled, Serving
<1>2. StopInv => StopIsClean
  BY DEF StopInv, CallTypes, CallsSettled, StopIsClean, Stop!StopIsClean, Serving
<1> QED
  BY <1>1, <1>2, StopStep, PTL DEF Stop!Spec

-----------------------------------------------------------------------------
(* The notification consumers *)

Events == 1..MaxEvents

GroupTypes ==
    /\ published \in 0..MaxEvents /\ delivered \in 0..published
    /\ batch \in [Consumers -> Seq(Nat)]
    /\ verdict \in [Consumers -> {"none", "ok", "failed"}]
    /\ tried \in [Events -> Nat]

\* What a consumer has in its hands was given out to it alone, and only the first
\* of it may have been handled.
InHandOf(c) ==
    /\ batch[c] = <<>> => verdict[c] = "none"
    /\ \A i \in DOMAIN batch[c] :
        /\ batch[c][i] \in 1..delivered
        /\ \A j \in DOMAIN batch[c] : i < j => batch[c][i] < batch[c][j]
        /\ i # 1 \/ verdict[c] = "none" => tried[batch[c][i]] = 0
    /\ verdict[c] = "ok" => batch[c][1] \in done

NotShared(c, d) ==
    \A i \in DOMAIN batch[c], j \in DOMAIN batch[d] : batch[c][i] # batch[d][j]

GivenOut ==
    /\ \A e \in Events : tried[e] <= 1 /\ (e > delivered => tried[e] = 0)
    /\ \A e \in 1..delivered : e \in pendingEvents \/ e \in done
    /\ pendingEvents \subseteq 1..delivered
    /\ \A c, d \in Consumers : c # d => NotShared(c, d)

GroupInv == GroupTypes /\ (\A c \in Consumers : InHandOf(c)) /\ GivenOut

GroupBounds == MaxEvents \in Nat /\ BatchSize \in Nat

\* What the group gives out next.
LEMMA NewEventsAre ==
    ASSUME GroupTypes, MaxEvents \in Nat, BatchSize \in Nat, Group!NewEvents # <<>>
    PROVE  LET new == Group!NewEvents
               last == new[Len(new)]
           IN  /\ new \in Seq(Nat) /\ last \in 0..published /\ last > delivered
               /\ \A i \in DOMAIN new :
                    /\ new[i] \in 1..last /\ new[i] > delivered
                    /\ \A j \in DOMAIN new : i < j => new[i] < new[j]
               /\ \A e \in (delivered + 1)..last : \E i \in DOMAIN new : new[i] = e
  <1> DEFINE new == Group!NewEvents
             n == published - delivered
             m == IF n < BatchSize THEN n ELSE BatchSize
  <1>1. new = [i \in 1..m |-> delivered + i]
    BY DEF Group!NewEvents
  <1>2. n \in Nat /\ m \in Nat /\ m <= n /\ delivered \in Nat /\ published \in Nat
    BY DEF GroupTypes
  <1> HIDE DEF new, n, m
  <1>3. /\ new \in Seq(Nat) /\ Len(new) = m /\ DOMAIN new = 1..m /\ m # 0
        /\ \A i \in 1..m : new[i] = delivered + i
    <2>1. new \in Seq(Nat) /\ Len(new) = m /\ DOMAIN new = 1..m
          /\ \A i \in 1..m : new[i] = delivered + i
      BY <1>1, <1>2
    <2>2. new # <<>>
      BY DEF new
    <2> QED
      BY <2>1, <2>2
  <1>4. new[Len(new)] = delivered + m /\ delivered + m <= published
    BY <1>2, <1>3 DEF n
  <1>5. \A e \in (delivered + 1)..(delivered + m) : \E i \in DOMAIN new : new[i] = e
    <2>1. ASSUME NEW e \in (delivered + 1)..(delivered + m)
          PROVE  \E i \in DOMAIN new : new[i] = e
      <3>1. e - delivered \in 1..m /\ delivered + (e - delivered) = e
        BY <1>2
      <3> QED
        BY <1>3, <3>1
    <2> QED
      BY <2>1
  <1>6. \A i \in DOMAIN new :
            /\ new[i] \in 1..(delivered + m) /\ new[i] > delivered
            /\ \A j \in DOMAIN new : i < j => new[i] < new[j]
    BY <1>2, <1>3
  <1>7. delivered + m \in 0..published /\ delivered + m > delivered
    BY <1>2, <1>3, <1>4
  <1> QED
    BY <1>3, <1>4, <1>5, <1>6, <1>7 DEF new

LEMMA GroupRead ==
    ASSUME GroupBounds, GroupInv, NEW c \in Consumers, NEW answered \in BOOLEAN,
           Group!Read(c, answered)
    PROVE  GroupInv'
  <1> DEFINE new == Group!NewEvents
             last == new[Len(new)]
  <1>1. /\ batch[c] = <<>> /\ new # <<>> /\ delivered' = last
        /\ pendingEvents' = pendingEvents \cup {new[i] : i \in DOMAIN new}
        /\ batch' = IF answered THEN [batch EXCEPT ![c] = new] ELSE batch
        /\ UNCHANGED <<published, verdict, tried, done>>
    BY DEF Group!Read
  <1>2. GroupTypes /\ (\A d \in Consumers : InHandOf(d)) /\ GivenOut
    BY DEF GroupInv
  <1>3. /\ new \in Seq(Nat) /\ last \in 0..published /\ last > delivered
        /\ \A i \in DOMAIN new :
            /\ new[i] \in 1..last /\ new[i] > delivered
            /\ \A j \in DOMAIN new : i < j => new[i] < new[j]
        /\ \A e \in (delivered + 1)..last : \E i \in DOMAIN new : new[i] = e
    BY <1>1, <1>2, NewEventsAre DEF GroupBounds
  <1> HIDE DEF new, last
  <1>4. /\ delivered \in Nat /\ published \in Nat /\ published <= MaxEvents
        /\ last \in Nat /\ 1..delivered \subseteq 1..last /\ 1..last \subseteq Events
    BY <1>2, <1>3 DEF GroupBounds, GroupTypes, Events
  <1>5. /\ \A d \in Consumers \ {c} : batch'[d] = batch[d]
        /\ batch'[c] = new \/ batch'[c] = <<>>
        /\ batch' \in [Consumers -> Seq(Nat)]
    BY <1>1, <1>2, <1>3 DEF GroupTypes
  <1>6. GroupTypes'
    BY <1>1, <1>2, <1>3, <1>5 DEF GroupTypes
  <1>7. \A i \in DOMAIN new : tried[new[i]] = 0
    BY <1>2, <1>3, <1>4 DEF GivenOut
  <1>8. ASSUME NEW d \in Consumers
        PROVE  InHandOf(d)'
    <2>1. CASE batch'[d] = batch[d]
      BY <1>1, <1>2, <1>4, <2>1 DEF InHandOf
    <2>2. CASE d = c
      <3>1. verdict'[c] = "none"
        BY <1>1, <1>2 DEF InHandOf
      <3>2. DOMAIN batch'[c] = {} \/ batch'[c] = new
        BY <1>5
      <3> QED
        BY <1>1, <1>3, <1>7, <2>2, <3>1, <3>2 DEF InHandOf
    <2> QED
      BY <1>5, <2>1, <2>2
  <1>9. ASSUME NEW d \in Consumers \ {c}
        PROVE  NotShared(c, d)' /\ NotShared(d, c)'
    <2>1. \A i \in DOMAIN batch[d] : batch[d][i] \in 1..delivered
      BY <1>2 DEF InHandOf
    <2>2. \A i \in DOMAIN new, j \in DOMAIN batch[d] : new[i] # batch[d][j]
      BY <1>3, <1>4, <2>1
    <2>3. batch'[d] = batch[d] /\ (batch'[c] = new \/ DOMAIN batch'[c] = {})
      BY <1>5
    <2> QED
      BY <2>2, <2>3 DEF NotShared
  <1>10. \A d, f \in Consumers : d # f => NotShared(d, f)'
    <2>1. ASSUME NEW d \in Consumers \ {c}, NEW f \in Consumers \ {c}, d # f
          PROVE  NotShared(d, f)'
      <3>1. NotShared(d, f) /\ batch'[d] = batch[d] /\ batch'[f] = batch[f]
        BY <1>2, <1>5, <2>1 DEF GivenOut
      <3> QED
        BY <3>1 DEF NotShared
    <2> QED
      BY <1>9, <2>1
  <1>11. \A e \in 1..last : e \in pendingEvents' \/ e \in done
    <2>1. ASSUME NEW e \in 1..last
          PROVE  e \in pendingEvents' \/ e \in done
      <3>1. CASE e \in 1..delivered
        BY <1>1, <1>2, <3>1 DEF GivenOut
      <3>2. CASE e \in (delivered + 1)..last
        BY <1>1, <1>3, <3>2
      <3> QED
        BY <1>4, <3>1, <3>2
    <2> QED
      BY <2>1
  <1>12. pendingEvents' \subseteq 1..last
    BY <1>1, <1>2, <1>3, <1>4 DEF GivenOut
  <1>13. \A e \in Events : tried'[e] <= 1 /\ (e > delivered' => tried'[e] = 0)
    BY <1>1, <1>2, <1>3, <1>4 DEF GivenOut, Events
  <1> QED
    BY <1>1, <1>6, <1>8, <1>10, <1>11, <1>12, <1>13 DEF GroupInv, GivenOut

LEMMA GroupProcess ==
    ASSUME GroupBounds, GroupInv, NEW c \in Consumers, NEW succeeds \in BOOLEAN,
           Group!Process(c, succeeds)
    PROVE  GroupInv'
  <1> DEFINE e == Head(batch[c])
             ok == succeeds \/ e \notin Handled
  <1>1. /\ batch[c] # <<>> /\ verdict[c] = "none"
        /\ tried' = IF e \in Handled THEN [tried EXCEPT ![e] = @ + 1] ELSE tried
        /\ done' = IF ok THEN done \cup {e} ELSE done
        /\ verdict' = [verdict EXCEPT ![c] = IF ok THEN "ok" ELSE "failed"]
        /\ UNCHANGED <<published, delivered, pendingEvents, batch>>
    BY DEF Group!Process
  <1>2. GroupTypes /\ (\A d \in Consumers : InHandOf(d)) /\ GivenOut
    BY DEF GroupInv
  <1>3. 1 \in DOMAIN batch[c] /\ e = batch[c][1] /\ \A i \in DOMAIN batch[c] : i \in Nat /\ i >= 1
    <2>1. batch[c] \in Seq(Nat)
      BY <1>2 DEF GroupTypes
    <2> QED
      BY <1>1, <2>1
  <1> HIDE DEF e
  <1>4. e \in 1..delivered /\ tried[e] = 0 /\ e \in Events
    <2>1. e \in 1..delivered /\ tried[e] = 0
      BY <1>1, <1>2, <1>3 DEF InHandOf
    <2> QED
      BY <1>2, <2>1 DEF GroupTypes, Events, GroupBounds
  <1>5. /\ tried' \in [Events -> Nat] /\ (tried'[e] = 0 \/ tried'[e] = 1)
        /\ \A x \in Events \ {e} : tried'[x] = tried[x]
    BY <1>1, <1>2, <1>4 DEF GroupTypes
  <1>6. /\ \A d \in Consumers \ {c} : verdict'[d] = verdict[d]
        /\ verdict'[c] \in {"ok", "failed"} /\ (verdict'[c] = "ok" => e \in done')
        /\ verdict' \in [Consumers -> {"none", "ok", "failed"}]
    <2>1. CASE ok
      BY <1>1, <1>2, <2>1 DEF GroupTypes
    <2>2. CASE ~ok
      BY <1>1, <1>2, <2>2 DEF GroupTypes
    <2> QED
      BY <2>1, <2>2
  <1>7. \A d \in Consumers : \A i \in DOMAIN batch[d] : batch[d][i] \in Events
    BY <1>2 DEF InHandOf, GroupTypes, Events, GroupBounds
  <1>8. ASSUME NEW d \in Consumers
        PROVE  InHandOf(d)'
    <2>1. CASE d = c
      <3>1. \A i \in DOMAIN batch[c] : i # 1 => batch[c][i] # e
        BY <1>2, <1>3 DEF InHandOf
      <3> QED
        BY <1>1, <1>2, <1>3, <1>5, <1>6, <1>7, <2>1, <3>1 DEF InHandOf
    <2>2. CASE d # c
      <3>1. \A i \in DOMAIN batch[d] : batch[d][i] # e
        BY <1>2, <1>3, <2>2 DEF GivenOut, NotShared
      <3>2. done \subseteq done'
        BY <1>1
      <3>3. \A i \in DOMAIN batch[d] : tried'[batch[d][i]] = tried[batch[d][i]]
        BY <1>5, <1>7, <3>1
      <3> QED
        BY <1>1, <1>2, <1>6, <2>2, <3>2, <3>3 DEF InHandOf
    <2> QED
      BY <2>1, <2>2
  <1>9. GivenOut'
    <2>1. \A x \in Events : tried'[x] <= 1 /\ (x > delivered' => tried'[x] = 0)
      <3>1. ASSUME NEW x \in Events
            PROVE  tried'[x] <= 1 /\ (x > delivered' => tried'[x] = 0)
        <4>1. CASE x = e
          BY <1>1, <1>2, <1>4, <1>5, <4>1 DEF GroupTypes
        <4>2. CASE x # e
          BY <1>1, <1>2, <1>5, <4>2 DEF GivenOut
        <4> QED
          BY <4>1, <4>2
      <3> QED
        BY <3>1
    <2>2. done \subseteq done'
      BY <1>1
    <2> QED
      BY <1>1, <1>2, <2>1, <2>2 DEF GivenOut, NotShared
  <1> QED
    BY <1>1, <1>2, <1>5, <1>6, <1>8, <1>9 DEF GroupInv, GroupTypes

\* The rest of what is in its hands, or nothing.
LEMMA GroupGoesOn ==
    ASSUME GroupInv, NEW c \in Consumers,
           \/ batch[c] # <<>> /\ batch' = [batch EXCEPT ![c] = Tail(@)]
           \/ batch' = [batch EXCEPT ![c] = <<>>],
           verdict' = [verdict EXCEPT ![c] = "none"],
           UNCHANGED <<published, delivered, tried, done>>,
           pendingEvents' \subseteq pendingEvents, \A e \in pendingEvents : e \in pendingEvents' \/ e \in done
    PROVE  GroupInv'
  <1>1. GroupTypes /\ (\A d \in Consumers : InHandOf(d)) /\ GivenOut
    BY DEF GroupInv
  <1>2. /\ batch' \in [Consumers -> Seq(Nat)]
        /\ \A d \in Consumers \ {c} : batch'[d] = batch[d]
        /\ \A i \in DOMAIN batch'[c] :
            i \in Nat /\ i + 1 \in DOMAIN batch[c] /\ i + 1 # 1 /\ batch'[c][i] = batch[c][i + 1]
    <2>1. batch[c] \in Seq(Nat)
      BY <1>1 DEF GroupTypes
    <2>2. CASE batch' = [batch EXCEPT ![c] = Tail(@)] /\ batch[c] # <<>>
      <3>1. batch'[c] = Tail(batch[c]) /\ \A d \in Consumers \ {c} : batch'[d] = batch[d]
        BY <1>1, <2>2 DEF GroupTypes
      <3>2. /\ Tail(batch[c]) \in Seq(Nat)
            /\ \A i \in DOMAIN Tail(batch[c]) :
                i \in Nat /\ i + 1 \in DOMAIN batch[c] /\ i + 1 # 1
                /\ Tail(batch[c])[i] = batch[c][i + 1]
        BY <2>1, <2>2
      <3>3. batch' \in [Consumers -> Seq(Nat)]
        BY <1>1, <2>2, <3>2 DEF GroupTypes
      <3> QED
        BY <3>1, <3>2, <3>3
    <2>3. CASE batch' = [batch EXCEPT ![c] = <<>>]
      <3>1. batch'[c] = <<>> /\ DOMAIN batch'[c] = {}
            /\ \A d \in Consumers \ {c} : batch'[d] = batch[d]
        BY <1>1, <2>3 DEF GroupTypes
      <3>2. batch' \in [Consumers -> Seq(Nat)]
        BY <1>1, <2>3 DEF GroupTypes
      <3> QED
        BY <3>1, <3>2
    <2> QED
      BY <2>2, <2>3
  <1>3. /\ verdict'[c] = "none" /\ \A d \in Consumers \ {c} : verdict'[d] = verdict[d]
        /\ verdict' \in [Consumers -> {"none", "ok", "failed"}]
    BY <1>1 DEF GroupTypes
  <1>4. ASSUME NEW d \in Consumers
        PROVE  InHandOf(d)'
    <2>1. CASE d = c
      <3>1. \A i, j \in DOMAIN batch'[c] : i < j => batch'[c][i] < batch'[c][j]
        <4>1. ASSUME NEW i \in DOMAIN batch'[c], NEW j \in DOMAIN batch'[c], i < j
              PROVE  batch'[c][i] < batch'[c][j]
          <5>1. i + 1 < j + 1
            BY <1>2, <4>1
          <5> QED
            BY <1>1, <1>2, <5>1 DEF InHandOf
        <4> QED
          BY <4>1
      <3>2. \A i \in DOMAIN batch'[c] : batch'[c][i] \in 1..delivered /\ tried[batch'[c][i]] = 0
        BY <1>1, <1>2 DEF InHandOf
      <3> QED
        BY <1>3, <2>1, <3>1, <3>2 DEF InHandOf
    <2>2. CASE d # c
      BY <1>1, <1>2, <1>3, <2>2 DEF InHandOf
    <2> QED
      BY <2>1, <2>2
  <1>5. \A d \in Consumers : \A i \in DOMAIN batch'[d] : \E j \in DOMAIN batch[d] :
            batch'[d][i] = batch[d][j]
    BY <1>2
  <1>6. \A d, f \in Consumers : d # f => NotShared(d, f)'
    BY <1>1, <1>5 DEF GivenOut, NotShared
  <1> QED
    BY <1>1, <1>2, <1>3, <1>4, <1>6 DEF GroupInv, GroupTypes, GivenOut

LEMMA GroupNext == GroupBounds /\ GroupInv /\ [Group!Next]_Group!vars => GroupInv'
  <1> SUFFICES ASSUME GroupBounds, GroupInv, [Group!Next]_Group!vars PROVE GroupInv'
    OBVIOUS
  <1>1. ASSUME UNCHANGED <<delivered, pendingEvents, batch, verdict, tried, done>>,
               published' = published \/ (published < MaxEvents /\ published' = published + 1)
        PROVE  GroupInv'
    <2>1. GroupTypes'
      BY <1>1 DEF GroupInv, GroupTypes, GroupBounds
    <2>2. (\A c \in Consumers : InHandOf(c)') /\ GivenOut'
      BY <1>1 DEF GroupInv, InHandOf, GivenOut, NotShared
    <2> QED
      BY <2>1, <2>2 DEF GroupInv
  <1>2. ASSUME NEW c \in Consumers,
               Group!Start(c) \/ Group!Stop(c) \/ Group!Stopped(c)
        PROVE  GroupInv'
    BY <1>1, <1>2 DEF Group!Start, Group!Stop, Group!Stopped
  <1>3. CASE Group!Publish \/ UNCHANGED Group!vars
    BY <1>1, <1>3 DEF Group!Publish, Group!vars
  <1>4. ASSUME NEW c \in Consumers, Group!LeavePending(c) \/ Group!Die(c)
        PROVE  GroupInv'
    <2>1. verdict[c] # "none" => batch[c] # <<>>
      BY DEF GroupInv, InHandOf
    <2> QED
      BY <1>4, <2>1, GroupGoesOn DEF Group!LeavePending, Group!GoOn, Group!Die
  <1>5. ASSUME NEW c \in Consumers, Group!Acknowledge(c)
        PROVE  GroupInv'
    <2>1. /\ verdict[c] = "ok" /\ pendingEvents' = pendingEvents \ {Head(batch[c])}
          /\ batch' = [batch EXCEPT ![c] = Tail(@)]
          /\ verdict' = [verdict EXCEPT ![c] = "none"]
          /\ UNCHANGED <<published, delivered, tried, done>>
      BY <1>5 DEF Group!Acknowledge, Group!Acknowledges, Group!GoOn
    <2>2. batch[c] # <<>> /\ batch[c][1] \in done /\ batch[c] \in Seq(Nat)
      BY <2>1 DEF GroupInv, InHandOf, GroupTypes
    <2>3. Head(batch[c]) \in done
      BY <2>2
    <2>4. pendingEvents' \subseteq pendingEvents /\ \A e \in pendingEvents : e \in pendingEvents' \/ e \in done
      BY <2>1, <2>3
    <2> QED
      BY <2>1, <2>2, <2>4, GroupGoesOn
  <1> QED
    BY <1>2, <1>3, <1>4, <1>5, GroupRead, GroupProcess DEF Group!Next, Group!Work

\* However many consumers there are and however large a batch is, whoever stops, dies or
\* comes back: an event is handled once at most, an event that the group has given out
\* is pending or was handled with success, and no two consumers hold the same one.
THEOREM EventsHandledOnce ==
    ASSUME MaxEvents \in Nat, BatchSize \in Nat
    PROVE  Group!Spec => []EventsAccounted
  <1>1. GroupBounds
    BY DEF GroupBounds
  <1>2. Group!Init => GroupInv
    BY <1>1 DEF GroupBounds, Group!Init, GroupInv, GroupTypes, InHandOf, GivenOut, NotShared,
                Group!Events, Events
  <1>3. GroupInv => EventsAccounted
    <2> SUFFICES ASSUME GroupInv PROVE Group!EventsAccounted
      BY DEF EventsAccounted
    <2>1. Group!InHand \subseteq 1..delivered
      BY DEF GroupInv, InHandOf, Group!InHand
    <2>2. /\ \A e \in Group!Events : tried[e] <= 1
          /\ \A e \in 1..delivered : e \in pendingEvents \/ e \in done
          /\ pendingEvents \subseteq 1..delivered
      BY DEF GroupInv, GivenOut, Group!Events, Events
    <2>3. \A c, d \in Consumers : c # d =>
            \A i \in DOMAIN batch[c], j \in DOMAIN batch[d] : batch[c][i] # batch[d][j]
      BY DEF GroupInv, GivenOut, NotShared
    <2> QED
      BY <2>1, <2>2, <2>3 DEF Group!EventsAccounted
  <1> QED
    BY <1>1, <1>2, <1>3, GroupNext, PTL DEF Group!Spec

-----------------------------------------------------------------------------
(* The worker pool *)

\* A worker that has none, or is gone, has no task; the pool is finite.
PoolBounds ==
    IsFiniteSet(Workers) /\ IsFiniteSet(Tasks) /\ {Pool!NoTask, Pool!Gone} \cap Tasks = {}

TaskStates == {"new", "sent", "accepted", "ended early", "ended", "cancelled", "full"}

Metrics == [submitted : Int, running : Int, completed : Int, failed : Int]

PoolTypes ==
    /\ taskQueue \in Seq(Tasks) /\ worker \in [Workers -> Tasks \cup {Pool!NoTask, Pool!Gone}]
    /\ started \subseteq Workers /\ task \in [Tasks -> TaskStates]
    /\ metrics \in Metrics /\ waits \subseteq Stoppers
    /\ stopper \in [Stoppers -> {"idle", "flagged", "cancelled", "closed", "returned",
                                 "turned away"}]

\* A task that was sent and has not ended is in one place.
Placed ==
    /\ \A i, j \in DOMAIN taskQueue : i # j => taskQueue[i] # taskQueue[j]
    /\ \A v, w \in Workers : v # w /\ worker[v] \in Tasks => worker[v] # worker[w]
    /\ \A i \in DOMAIN taskQueue, w \in Workers : taskQueue[i] # worker[w]
    /\ \A t \in Tasks : task[t] \in {"sent", "accepted"} <=>
            \/ \E i \in DOMAIN taskQueue : taskQueue[i] = t
            \/ \E w \in Workers : worker[w] = t
    /\ \A w \in started : worker[w] \in Tasks

In(f, states) == {t \in Tasks : f[t] \in states}

MetricsRight ==
    /\ metrics.running = Cardinality(started)
    /\ metrics.completed + metrics.failed = Cardinality(In(task, {"ended", "ended early"}))
    /\ metrics.submitted = Cardinality(In(task, {"accepted", "ended"}))

NobodyLeft ==
    \A s \in Stoppers :
        s \in waits /\ stopper[s] = "returned" => \A w \in Workers : worker[w] = Pool!Gone

PoolInv == PoolTypes /\ Placed /\ MetricsRight /\ NobodyLeft

LEMMA PoolQueue ==
    ASSUME PoolTypes
    PROVE  /\ taskQueue \in Seq(Tasks) /\ Len(taskQueue) \in Nat /\ DOMAIN taskQueue = 1..Len(taskQueue)
           /\ \A i \in DOMAIN taskQueue : taskQueue[i] \in Tasks
           /\ metrics \in Metrics /\ task \in [Tasks -> TaskStates]
           /\ worker \in [Workers -> Tasks \cup {Pool!NoTask, Pool!Gone}]
  <1>1. taskQueue \in Seq(Tasks)
    BY Zenon DEF PoolTypes
  <1>2. Len(taskQueue) \in Nat /\ DOMAIN taskQueue = 1..Len(taskQueue) /\ \A i \in DOMAIN taskQueue : taskQueue[i] \in Tasks
    BY <1>1
  <1> QED
    BY <1>1, <1>2, Zenon DEF PoolTypes

LEMMA MetricsCount ==
    ASSUME NEW m \in Metrics
    PROVE  /\ LET n == [m EXCEPT !.submitted = @ + 1] IN
                /\ n \in Metrics /\ n.submitted = m.submitted + 1
                /\ n.running = m.running /\ n.completed = m.completed /\ n.failed = m.failed
           /\ LET n == [m EXCEPT !.running = @ + 1] IN
                /\ n \in Metrics /\ n.running = m.running + 1
                /\ n.submitted = m.submitted
                /\ n.completed = m.completed /\ n.failed = m.failed
           /\ LET n == [m EXCEPT !.running = @ - 1, !.failed = @ + 1] IN
                /\ n \in Metrics /\ n.running = m.running - 1
                /\ n.submitted = m.submitted /\ n.completed + n.failed = m.completed + m.failed + 1
           /\ LET n == [m EXCEPT !.running = @ - 1, !.completed = @ + 1] IN
                /\ n \in Metrics /\ n.running = m.running - 1
                /\ n.submitted = m.submitted /\ n.completed + n.failed = m.completed + m.failed + 1
  <1>1. m.submitted \in Int /\ m.running \in Int /\ m.completed \in Int /\ m.failed \in Int
    BY DEF Metrics
  <1>2. LET n == [m EXCEPT !.submitted = @ + 1] IN
                /\ n \in Metrics /\ n.submitted = m.submitted + 1
                /\ n.running = m.running /\ n.completed = m.completed /\ n.failed = m.failed
    BY <1>1 DEF Metrics
  <1>3. LET n == [m EXCEPT !.running = @ + 1] IN
                /\ n \in Metrics /\ n.running = m.running + 1
                /\ n.submitted = m.submitted
                /\ n.completed = m.completed /\ n.failed = m.failed
    BY <1>1 DEF Metrics
  <1>4. LET n == [m EXCEPT !.running = @ - 1, !.failed = @ + 1] IN
                /\ n \in Metrics /\ n.running = m.running - 1
                /\ n.submitted = m.submitted /\ n.completed = m.completed
                /\ n.failed = m.failed + 1
    <2> DEFINE r == [m EXCEPT !.running = m.running - 1]
    <2>1. /\ r \in Metrics /\ r.running = m.running - 1 /\ r.submitted = m.submitted
          /\ r.completed = m.completed /\ r.failed = m.failed
      BY <1>1 DEF Metrics
    <2> DEFINE n == [r EXCEPT !.failed = r.failed + 1]
    <2>2. [m EXCEPT !.running = @ - 1, !.failed = @ + 1] = n
      BY <2>1
    <2> HIDE DEF r
    <2>3. /\ r.submitted \in Int /\ r.running \in Int /\ r.completed \in Int /\ r.failed \in Int
      BY <2>1 DEF Metrics
    <2>4. /\ n \in Metrics /\ n.running = r.running /\ n.submitted = r.submitted
          /\ n.failed = r.failed + 1 /\ n.completed = r.completed
      BY <2>1, <2>3 DEF Metrics
    <2> HIDE DEF n
    <2> QED
      BY <2>1, <2>2, <2>4
  <1>5. LET n == [m EXCEPT !.running = @ - 1, !.completed = @ + 1] IN
                /\ n \in Metrics /\ n.running = m.running - 1
                /\ n.submitted = m.submitted /\ n.completed = m.completed + 1
                /\ n.failed = m.failed
    <2> DEFINE r == [m EXCEPT !.running = m.running - 1]
    <2>1. /\ r \in Metrics /\ r.running = m.running - 1 /\ r.submitted = m.submitted
          /\ r.completed = m.completed /\ r.failed = m.failed
      BY <1>1 DEF Metrics
    <2> DEFINE n == [r EXCEPT !.completed = r.completed + 1]
    <2>2. [m EXCEPT !.running = @ - 1, !.completed = @ + 1] = n
      BY <2>1
    <2> HIDE DEF r
    <2>3. /\ r.submitted \in Int /\ r.running \in Int /\ r.completed \in Int /\ r.failed \in Int
      BY <2>1 DEF Metrics
    <2>4. /\ n \in Metrics /\ n.running = r.running /\ n.submitted = r.submitted
          /\ n.completed = r.completed + 1 /\ n.failed = r.failed
      BY <2>1, <2>3 DEF Metrics
    <2> HIDE DEF n
    <2> QED
      BY <2>1, <2>2, <2>4
  <1> QED
    BY <1>1, <1>2, <1>3, <1>4, <1>5

LEMMA PoolStays ==
    ASSUME PoolInv, UNCHANGED <<taskQueue, worker, started, task, stopper, waits, metrics>>
    PROVE  PoolInv'
  <1>1. PoolTypes'
    BY Zenon DEF PoolInv, PoolTypes
  <1>2. Placed'
    BY DEF PoolInv, Placed
  <1>3. MetricsRight' /\ NobodyLeft'
    BY Zenon DEF PoolInv, MetricsRight, NobodyLeft
  <1> QED
    BY <1>1, <1>2, <1>3 DEF PoolInv

LEMMA InChanges ==
    ASSUME NEW f \in [Tasks -> TaskStates], NEW t \in Tasks, NEW what, NEW states
    PROVE  In([f EXCEPT ![t] = what], states) =
                IF what \in states THEN In(f, states) \cup {t} ELSE In(f, states) \ {t}
BY DEF In

\* A task goes on, and the number of those that are in some states with it.
LEMMA InCounts ==
    ASSUME PoolBounds, PoolTypes, NEW t \in Tasks, NEW what \in TaskStates, NEW states,
           task' = [task EXCEPT ![t] = what]
    PROVE  /\ Cardinality(In(task, states)) \in Int
           /\ (task[t] \in states <=> what \in states) =>
                Cardinality(In(task', states)) = Cardinality(In(task, states))
           /\ task[t] \notin states /\ what \in states =>
                Cardinality(In(task', states)) = Cardinality(In(task, states)) + 1
  <1>1. In(task', states) =
            IF what \in states THEN In(task, states) \cup {t} ELSE In(task, states) \ {t}
    <2>1. task \in [Tasks -> TaskStates]
      BY Zenon DEF PoolTypes
    <2>2. In([task EXCEPT ![t] = what], states) =
            IF what \in states THEN In(task, states) \cup {t} ELSE In(task, states) \ {t}
      BY <2>1 DEF In
    <2> QED
      BY <2>2
  <1>2. t \in In(task, states) <=> task[t] \in states
    BY DEF In
  <1>3. In(task, states) \in SUBSET Tasks
    BY DEF In
  <1>4. IsFiniteSet(In(task, states))
    BY <1>3, FS_Subset DEF PoolBounds
  <1>5. Cardinality(In(task, states)) \in Nat
    BY <1>4, FS_CardinalityType
  <1>6. /\ t \notin In(task, states) =>
                Cardinality(In(task, states) \cup {t}) = Cardinality(In(task, states)) + 1
        /\ t \in In(task, states) => In(task, states) \cup {t} = In(task, states)
        /\ t \notin In(task, states) => In(task, states) \ {t} = In(task, states)
    <2>1. t \notin In(task, states) =>
                Cardinality(In(task, states) \cup {t}) = Cardinality(In(task, states)) + 1
      BY <1>4, FS_AddElement
    <2> QED
      BY <2>1
  <1> QED
    BY <1>1, <1>2, <1>5, <1>6

\* A task that nobody has seen yet is sent, or turned away.
LEMMA PoolSubmits ==
    ASSUME PoolBounds, PoolInv, NEW t \in Tasks,
           \/ Pool!Send(t) \/ Pool!TurnAway(t) \/ Pool!Full(t) \/ Pool!SendOnClosed(t)
           \/ Pool!CountSubmitted(t)
    PROVE  PoolInv'
  <1>1. PoolTypes /\ Placed /\ MetricsRight /\ NobodyLeft
    BY DEF PoolInv
  <1>2. CASE Pool!Send(t)
    <2>1. /\ task[t] = "new" /\ taskQueue' = Append(taskQueue, t) /\ task' = [task EXCEPT ![t] = "sent"]
          /\ UNCHANGED <<worker, started, stopper, waits, metrics>>
      BY <1>2 DEF Pool!Send, Pool!TaskBecomes
    <2>2. PoolTypes'
      <3>1. taskQueue' \in Seq(Tasks) /\ task' \in [Tasks -> TaskStates]
        BY <1>1, <2>1, PoolQueue, AppendProperties, Zenon DEF TaskStates
      <3> QED
        BY <1>1, <2>1, <3>1, Zenon DEF PoolTypes
    <2>3. Placed'
      <3>1. /\ DOMAIN taskQueue' = DOMAIN taskQueue \cup {Len(taskQueue) + 1}
            /\ Len(taskQueue) + 1 \notin DOMAIN taskQueue /\ taskQueue'[Len(taskQueue) + 1] = t
            /\ \A i \in DOMAIN taskQueue : taskQueue'[i] = taskQueue[i]
        BY <1>1, <2>1, PoolQueue
      <3>2. (\A i \in DOMAIN taskQueue : taskQueue[i] # t) /\ (\A w \in Workers : worker[w] # t)
        BY <1>1, <2>1 DEF Placed
      <3>3. task'[t] = "sent" /\ \A x \in Tasks \ {t} : task'[x] = task[x]
        BY <1>1, <2>1, Zenon DEF PoolTypes
      <3>4. /\ \A i, j \in DOMAIN taskQueue' : i # j => taskQueue'[i] # taskQueue'[j]
            /\ \A i \in DOMAIN taskQueue', w \in Workers : taskQueue'[i] # worker'[w]
        BY <1>1, <2>1, <3>1, <3>2 DEF Placed
      <3>5. \A x \in Tasks : task'[x] \in {"sent", "accepted"} <=>
                \/ \E i \in DOMAIN taskQueue' : taskQueue'[i] = x
                \/ \E w \in Workers : worker'[w] = x
        <4>1. ASSUME NEW x \in Tasks
              PROVE  task'[x] \in {"sent", "accepted"} <=>
                        \/ \E i \in DOMAIN taskQueue' : taskQueue'[i] = x
                        \/ \E w \in Workers : worker'[w] = x
          <5>1. CASE x = t
            BY <3>1, <3>3, <5>1
          <5>2. CASE x # t
            BY <1>1, <2>1, <3>1, <3>3, <5>2 DEF Placed
          <5> QED
            BY <5>1, <5>2
        <4> QED
          BY <4>1
      <3> QED
        BY <1>1, <2>1, <3>4, <3>5 DEF Placed
    <2>4. MetricsRight'
      <3>1. /\ In(task', {"ended", "ended early"}) = In(task, {"ended", "ended early"})
            /\ In(task', {"accepted", "ended"}) = In(task, {"accepted", "ended"})
        BY <1>1, <2>1, PoolQueue, InChanges, Zenon DEF In
      <3> QED
        BY <1>1, <2>1, <3>1, Zenon DEF MetricsRight
    <2>5. NobodyLeft'
      BY <1>1, <2>1 DEF NobodyLeft
    <2> QED
      BY <2>2, <2>3, <2>4, <2>5 DEF PoolInv
  <1>3. ASSUME NEW what \in {"cancelled", "full"}, task[t] = "new", Pool!Turned(t, what)
        PROVE  PoolInv'
    <2>1. /\ task' = [task EXCEPT ![t] = what] /\ what \in TaskStates
          /\ UNCHANGED <<taskQueue, worker, started, stopper, waits, metrics>>
      BY <1>3, Zenon DEF Pool!Turned, Pool!TaskBecomes, TaskStates
    <2>2. PoolTypes'
      BY <1>1, <2>1, Zenon DEF PoolTypes
    <2>3. task'[t] = what /\ \A x \in Tasks \ {t} : task'[x] = task[x]
      BY <1>1, <2>1, Zenon DEF PoolTypes
    <2>4. Placed'
      BY <1>1, <1>3, <2>1, <2>3 DEF Placed
    <2>5. MetricsRight'
      BY <1>1, <1>3, <2>1, InCounts, Zenon DEF MetricsRight
    <2>6. NobodyLeft'
      BY <1>1, <2>1 DEF NobodyLeft
    <2> QED
      BY <2>2, <2>4, <2>5, <2>6 DEF PoolInv
  <1>4. CASE Pool!SendOnClosed(t)
    <2>1. UNCHANGED <<taskQueue, worker, started, task, stopper, waits, metrics>>
      BY <1>4 DEF Pool!SendOnClosed
    <2> QED
      BY <2>1, PoolStays
  <1>5. CASE Pool!CountSubmitted(t)
    <2> DEFINE what == IF task[t] = "sent" THEN "accepted" ELSE "ended"
    <2>1. /\ task[t] \in {"sent", "ended early"} /\ task' = [task EXCEPT ![t] = what]
          /\ metrics' = [metrics EXCEPT !.submitted = @ + 1] /\ what \in TaskStates
          /\ UNCHANGED <<taskQueue, worker, started, stopper, waits>>
      BY <1>5, Zenon DEF Pool!CountSubmitted, Pool!TaskBecomes, TaskStates
    <2>2. /\ metrics' \in Metrics
          /\ metrics'.submitted = metrics.submitted + 1 /\ metrics'.running = metrics.running
          /\ metrics'.completed = metrics.completed /\ metrics'.failed = metrics.failed
      BY <1>1, <2>1, PoolQueue, MetricsCount, Zenon
    <2>3. PoolTypes'
      BY <1>1, <2>1, <2>2, Zenon DEF PoolTypes
    <2>4. task'[t] = what /\ \A x \in Tasks \ {t} : task'[x] = task[x]
      BY <1>1, <2>1, Zenon DEF PoolTypes
    <2>5. Placed'
      <3>1. \A x \in Tasks :
                task'[x] \in {"sent", "accepted"} <=> task[x] \in {"sent", "accepted"}
        <4>1. what \in {"sent", "accepted"} <=> task[t] \in {"sent", "accepted"}
          BY <2>1, Zenon
        <4>2. ASSUME NEW x \in Tasks
              PROVE  task'[x] \in {"sent", "accepted"} <=> task[x] \in {"sent", "accepted"}
          <5>1. CASE x = t
            BY <2>4, <4>1, <5>1
          <5>2. CASE x # t
            BY <2>4, <5>2
          <5> QED
            BY <5>1, <5>2
        <4> QED
          BY <4>2
      <3>2. Placed /\ UNCHANGED <<taskQueue, worker, started>>
        BY <1>1, <2>1, Zenon
      <3> QED
        BY <3>1, <3>2 DEF Placed
    <2>6. MetricsRight'
      <3>1. Cardinality(In(task', {"ended", "ended early"}))
                = Cardinality(In(task, {"ended", "ended early"}))
        <4>1. task[t] \in {"ended", "ended early"} <=> what \in {"ended", "ended early"}
          BY <2>1, Zenon
        <4> HIDE DEF what
        <4> QED
          BY <1>1, <2>1, <4>1, InCounts, Zenon
      <3>2. Cardinality(In(task', {"accepted", "ended"}))
                = Cardinality(In(task, {"accepted", "ended"})) + 1
        BY <1>1, <2>1, InCounts, Zenon
      <3> QED
        BY <1>1, <2>1, <2>2, <3>1, <3>2, Zenon DEF MetricsRight
    <2>7. NobodyLeft'
      BY <1>1, <2>1, Zenon DEF NobodyLeft
    <2> QED
      BY <2>3, <2>5, <2>6, <2>7 DEF PoolInv
  <1> QED
    BY <1>2, <1>3, <1>4, <1>5 DEF Pool!TurnAway, Pool!Full

\* A worker takes a task, begins it, ends it or returns.
LEMMA PoolWorks ==
    ASSUME PoolBounds, PoolInv, NEW w \in Workers, Pool!WorkerSteps(w)
    PROVE  PoolInv'
  <1>1. PoolTypes /\ Placed /\ MetricsRight /\ NobodyLeft
    BY DEF PoolInv
  <1>2. CASE Pool!Take(w)
    <2>1. /\ worker[w] = Pool!NoTask /\ taskQueue # <<>> /\ worker' = [worker EXCEPT ![w] = Head(taskQueue)]
          /\ taskQueue' = Tail(taskQueue) /\ UNCHANGED <<started, task, stopper, waits, metrics>>
      BY <1>2 DEF Pool!Take, Pool!WorkerBecomes
    <2>2. /\ 1 \in DOMAIN taskQueue /\ Head(taskQueue) = taskQueue[1] /\ Head(taskQueue) \in Tasks
          /\ taskQueue' \in Seq(Tasks)
          /\ \A i \in DOMAIN taskQueue' :
                i \in Nat /\ i + 1 \in DOMAIN taskQueue /\ i + 1 # 1 /\ taskQueue'[i] = taskQueue[i + 1]
          /\ \A i \in DOMAIN taskQueue : i # 1 => i - 1 \in DOMAIN taskQueue' /\ taskQueue'[i - 1] = taskQueue[i]
      <3>1. taskQueue \in Seq(Tasks)
        BY <1>1, Zenon DEF PoolTypes
      <3> QED
        BY <2>1, <3>1
    <2>3. worker'[w] = taskQueue[1] /\ \A v \in Workers \ {w} : worker'[v] = worker[v]
      BY <1>1, <2>1, <2>2, Zenon DEF PoolTypes
    <2>4. PoolTypes'
      BY <1>1, <2>1, <2>2, Zenon DEF PoolTypes
    <2>5. Pool!NoTask \notin Tasks
      BY DEF PoolBounds
    <2>6. Placed'
      <3>1. \A i, j \in DOMAIN taskQueue' : i # j => taskQueue'[i] # taskQueue'[j]
        <4>1. ASSUME NEW i \in DOMAIN taskQueue', NEW j \in DOMAIN taskQueue', i # j
              PROVE  taskQueue'[i] # taskQueue'[j]
          <5>1. i + 1 # j + 1
            BY <2>2, <4>1
          <5> QED
            BY <1>1, <2>2, <5>1 DEF Placed
        <4> QED
          BY <4>1
      <3>2. \A u, v \in Workers : u # v /\ worker'[u] \in Tasks => worker'[u] # worker'[v]
        BY <1>1, <2>2, <2>3 DEF Placed
      <3>3. \A i \in DOMAIN taskQueue', v \in Workers : taskQueue'[i] # worker'[v]
        <4>1. ASSUME NEW i \in DOMAIN taskQueue', NEW v \in Workers
              PROVE  taskQueue'[i] # worker'[v]
          <5>1. i + 1 \in DOMAIN taskQueue /\ i + 1 # 1 /\ taskQueue'[i] = taskQueue[i + 1]
            BY <2>2
          <5>2. CASE v = w
            BY <1>1, <2>2, <2>3, <5>1, <5>2 DEF Placed
          <5>3. CASE v # w
            BY <1>1, <2>3, <5>1, <5>3 DEF Placed
          <5> QED
            BY <5>2, <5>3
        <4> QED
          BY <4>1
      <3>4. ASSUME NEW x \in Tasks
            PROVE  task'[x] \in {"sent", "accepted"} <=>
                    \/ \E i \in DOMAIN taskQueue' : taskQueue'[i] = x
                    \/ \E v \in Workers : worker'[v] = x
        <4>1. task[x] \in {"sent", "accepted"} <=>
                    \/ \E i \in DOMAIN taskQueue : taskQueue[i] = x
                    \/ \E v \in Workers : worker[v] = x
          BY <1>1 DEF Placed
        <4>2. (\E i \in DOMAIN taskQueue' : taskQueue'[i] = x) <=> \E i \in DOMAIN taskQueue \ {1} : taskQueue[i] = x
          BY <2>2
        <4>3. (\E v \in Workers : worker'[v] = x)
                <=> taskQueue[1] = x \/ \E v \in Workers \ {w} : worker[v] = x
          BY <2>3
        <4>4. (\E v \in Workers : worker[v] = x) <=> \E v \in Workers \ {w} : worker[v] = x
          BY <2>1, <2>5
        <4> QED
          BY <2>1, <2>2, <4>1, <4>2, <4>3, <4>4
      <3>5. \A v \in started' : worker'[v] \in Tasks
        BY <1>1, <2>1, <2>2, <2>3, Zenon DEF Placed, PoolTypes
      <3> QED
        BY <3>1, <3>2, <3>3, <3>4, <3>5 DEF Placed
    <2>7. MetricsRight'
      BY <1>1, <2>1, Zenon DEF MetricsRight
    <2>8. NobodyLeft'
      <3>1. Pool!NoTask # Pool!Gone
        BY DEF Pool!NoTask, Pool!Gone
      <3> QED
        BY <1>1, <2>1, <3>1 DEF NobodyLeft
    <2> QED
      BY <2>4, <2>6, <2>7, <2>8 DEF PoolInv
  <1>3. CASE Pool!Run(w)
    <2>1. /\ worker[w] \in Tasks /\ w \notin started /\ started' = started \cup {w}
          /\ metrics' = [metrics EXCEPT !.running = @ + 1]
          /\ UNCHANGED <<taskQueue, worker, task, stopper, waits>>
      BY <1>3 DEF Pool!Run
    <2>2. /\ metrics' \in Metrics
          /\ metrics'.submitted = metrics.submitted /\ metrics'.running = metrics.running + 1
          /\ metrics'.completed = metrics.completed /\ metrics'.failed = metrics.failed
      BY <1>1, <2>1, PoolQueue, MetricsCount, Zenon
    <2>3. Cardinality(started') = Cardinality(started) + 1
      <3>1. IsFiniteSet(started)
        BY <1>1, FS_Subset, Zenon DEF PoolBounds, PoolTypes
      <3> QED
        BY <2>1, <3>1, FS_AddElement
    <2>4. PoolTypes' /\ Placed' /\ NobodyLeft'
      <3>1. PoolTypes'
        BY <1>1, <2>1, <2>2, Zenon DEF PoolTypes
      <3>2. Placed' /\ NobodyLeft'
        BY <1>1, <2>1 DEF Placed, NobodyLeft
      <3> QED
        BY <3>1, <3>2
    <2>5. MetricsRight'
      BY <1>1, <2>1, <2>2, <2>3, Zenon DEF MetricsRight
    <2> QED
      BY <2>4, <2>5 DEF PoolInv
  <1>4. ASSUME NEW fails \in BOOLEAN, Pool!Finish(w, fails)
        PROVE  PoolInv'
    <2> DEFINE t == worker[w]
               what == IF task[t] = "sent" THEN "ended early" ELSE "ended"
    <2>1. /\ w \in started /\ started' = started \ {w}
          /\ worker' = [worker EXCEPT ![w] = Pool!NoTask]
          /\ metrics' = Pool!Counted(metrics, fails) /\ task' = [task EXCEPT ![t] = what]
          /\ UNCHANGED <<taskQueue, stopper, waits>>
      BY <1>4, Zenon DEF Pool!Finish, Pool!WorkerBecomes, Pool!TaskBecomes
    <2>2. t \in Tasks /\ task[t] \in {"sent", "accepted"}
      BY <1>1, <2>1, Zenon DEF Placed
    <2>3. /\ metrics' \in Metrics
          /\ metrics'.submitted = metrics.submitted /\ metrics'.running = metrics.running - 1
          /\ metrics'.completed + metrics'.failed = metrics.completed + metrics.failed + 1
      <3>1. metrics \in Metrics
        BY <1>1, PoolQueue
      <3>2. CASE fails
        BY <2>1, <3>1, <3>2, MetricsCount, Zenon DEF Pool!Counted
      <3>3. CASE ~fails
        BY <2>1, <3>1, <3>3, MetricsCount, Zenon DEF Pool!Counted
      <3> QED
        BY <3>2, <3>3
    <2>4. what \in {"ended early", "ended"} /\ what \in TaskStates
      BY DEF TaskStates
    <2>5. /\ Cardinality(In(task', {"ended", "ended early"}))
                = Cardinality(In(task, {"ended", "ended early"})) + 1
          /\ Cardinality(In(task', {"accepted", "ended"}))
                = Cardinality(In(task, {"accepted", "ended"}))
      <3>1. Cardinality(In(task', {"ended", "ended early"}))
                = Cardinality(In(task, {"ended", "ended early"})) + 1
        BY <1>1, <2>1, <2>2, <2>4, InCounts, Zenon
      <3>2. Cardinality(In(task', {"accepted", "ended"}))
                = Cardinality(In(task, {"accepted", "ended"}))
        <4>1. task[t] \in {"accepted", "ended"} <=> what \in {"accepted", "ended"}
          BY <2>2
        <4> QED
          BY <1>1, <2>1, <2>2, <2>4, <4>1, InCounts, ZenonT(30)
      <3> QED
        BY <3>1, <3>2, Zenon
    <2>6. task'[t] = what /\ \A x \in Tasks \ {t} : task'[x] = task[x]
      BY <1>1, <2>1, <2>2, Zenon DEF PoolTypes
    <2>7. worker'[w] = Pool!NoTask /\ \A v \in Workers \ {w} : worker'[v] = worker[v]
      BY <1>1, <2>1, Zenon DEF PoolTypes
    <2>8. Pool!NoTask \notin Tasks /\ Pool!NoTask # Pool!Gone /\ Pool!Gone \notin Tasks
      BY DEF PoolBounds, Pool!NoTask, Pool!Gone
    <2>9. worker[w] = t
      OBVIOUS
    <2> HIDE DEF t, what
    <2>10. PoolTypes'
      BY <1>1, <2>1, <2>3, <2>4, Zenon DEF PoolTypes
    <2>11. Placed'
      <3>1. (\A i \in DOMAIN taskQueue : taskQueue[i] # t) /\ (\A v \in Workers \ {w} : worker[v] # t)
        BY <1>1, <2>2, <2>9 DEF Placed
      <3>2. \A u, v \in Workers : u # v /\ worker'[u] \in Tasks => worker'[u] # worker'[v]
        BY <1>1, <2>7, <2>8 DEF Placed
      <3>3. \A i \in DOMAIN taskQueue', v \in Workers : taskQueue'[i] # worker'[v]
        <4>1. \A i \in DOMAIN taskQueue : taskQueue[i] \in Tasks
          BY <1>1, PoolQueue
        <4> QED
          BY <1>1, <2>1, <2>7, <2>8, <4>1 DEF Placed
      <3>4. ASSUME NEW x \in Tasks
            PROVE  task'[x] \in {"sent", "accepted"} <=>
                    \/ \E i \in DOMAIN taskQueue' : taskQueue'[i] = x
                    \/ \E v \in Workers : worker'[v] = x
        <4>1. CASE x = t
          BY <2>1, <2>2, <2>4, <2>6, <2>7, <2>8, <3>1, <4>1, Zenon
        <4>2. CASE x # t
          <5>1. task[x] \in {"sent", "accepted"} <=>
                    \/ \E i \in DOMAIN taskQueue : taskQueue[i] = x
                    \/ \E v \in Workers : worker[v] = x
            BY <1>1 DEF Placed
          <5>2. (\E v \in Workers : worker'[v] = x) <=> \E v \in Workers : worker[v] = x
            BY <2>7, <2>8, <2>9, <4>2
          <5> QED
            BY <2>1, <2>6, <4>2, <5>1, <5>2
        <4> QED
          BY <4>1, <4>2
      <3>5. \A v \in started' : worker'[v] \in Tasks
        BY <1>1, <2>1, <2>7, Zenon DEF Placed, PoolTypes
      <3> QED
        BY <1>1, <2>1, <3>2, <3>3, <3>4, <3>5 DEF Placed
    <2>12. MetricsRight'
      <3>1. IsFiniteSet(started)
        BY <1>1, FS_Subset, Zenon DEF PoolBounds, PoolTypes
      <3>2. Cardinality(started') = Cardinality(started) - 1
        BY <2>1, <3>1, FS_RemoveElement
      <3> QED
        BY <1>1, <2>3, <2>5, <3>2, Zenon DEF MetricsRight
    <2>13. NobodyLeft'
      <3>1. worker[w] # Pool!Gone
        BY <2>2, <2>8, <2>9
      <3> QED
        BY <1>1, <2>1, <3>1 DEF NobodyLeft
    <2> QED
      BY <2>10, <2>11, <2>12, <2>13 DEF PoolInv
  <1>5. CASE Pool!Return(w)
    <2>1. /\ worker[w] = Pool!NoTask /\ worker' = [worker EXCEPT ![w] = Pool!Gone]
          /\ UNCHANGED <<taskQueue, started, task, stopper, waits, metrics>>
      BY <1>5 DEF Pool!Return, Pool!WorkerBecomes
    <2>2. worker'[w] = Pool!Gone /\ \A v \in Workers \ {w} : worker'[v] = worker[v]
      BY <1>1, <2>1, Zenon DEF PoolTypes
    <2>3. Pool!NoTask \notin Tasks /\ Pool!NoTask # Pool!Gone /\ Pool!Gone \notin Tasks
      BY DEF PoolBounds, Pool!NoTask, Pool!Gone
    <2>4. PoolTypes'
      BY <1>1, <2>1, Zenon DEF PoolTypes
    <2>5. Placed'
      <3>1. \A x \in Tasks :
                (\E v \in Workers : worker'[v] = x) <=> \E v \in Workers : worker[v] = x
        BY <2>1, <2>2, <2>3
      <3>2. \A u, v \in Workers : u # v /\ worker'[u] \in Tasks => worker'[u] # worker'[v]
        BY <1>1, <2>2, <2>3 DEF Placed
      <3>3. \A i \in DOMAIN taskQueue', v \in Workers : taskQueue'[i] # worker'[v]
        <4>1. \A i \in DOMAIN taskQueue : taskQueue[i] \in Tasks
          BY <1>1, PoolQueue
        <4> QED
          BY <1>1, <2>1, <2>2, <2>3, <4>1 DEF Placed
      <3>4. \A v \in started' : worker'[v] \in Tasks
        BY <1>1, <2>1, <2>2, <2>3, Zenon DEF Placed, PoolTypes
      <3> QED
        BY <1>1, <2>1, <3>1, <3>2, <3>3, <3>4 DEF Placed
    <2>6. MetricsRight' /\ NobodyLeft'
      BY <1>1, <2>1, <2>2, Zenon DEF MetricsRight, NobodyLeft
    <2> QED
      BY <2>4, <2>5, <2>6 DEF PoolInv
  <1> QED
    BY <1>2, <1>3, <1>4, <1>5 DEF Pool!WorkerSteps

\* The pool is stopped.
LEMMA PoolStops ==
    ASSUME PoolBounds, PoolInv, NEW s \in Stoppers,
           Pool!StopSteps(s) \/ \E wait \in BOOLEAN : Pool!Stop(s, wait)
    PROVE  PoolInv'
  <1>1. UNCHANGED <<taskQueue, worker, started, task, metrics>>
    BY Zenon DEF Pool!StopSteps, Pool!Stop, Pool!CancelContext, Pool!CloseQueue, Pool!StopReturns,
           Pool!StopperGoes
  <1>2. PICK pc1 \in {"flagged", "turned away", "cancelled", "closed", "returned"} :
            /\ stopper' = [stopper EXCEPT ![s] = pc1]
            /\ pc1 = "returned" => (s \in waits => Pool!WorkersDone) /\ waits' = waits
            /\ waits' \subseteq waits \cup {s}
    BY Zenon DEF Pool!StopSteps, Pool!Stop, Pool!CancelContext, Pool!CloseQueue, Pool!StopReturns,
           Pool!StopperGoes
  <1>3. PoolTypes' /\ Placed' /\ MetricsRight'
    <2>1. PoolTypes'
      BY <1>1, <1>2, Zenon DEF PoolInv, PoolTypes
    <2>2. Placed'
      BY <1>1, Zenon DEF PoolInv, Placed
    <2>3. MetricsRight'
      BY <1>1, Zenon DEF PoolInv, MetricsRight, In
    <2> QED
      BY <2>1, <2>2, <2>3, Zenon
  <1>4. NobodyLeft'
    <2>1. stopper'[s] = pc1 /\ \A r \in Stoppers \ {s} : stopper'[r] = stopper[r]
      BY <1>2, Zenon DEF PoolInv, PoolTypes
    <2> QED
      BY <1>1, <1>2, <2>1, Zenon DEF PoolInv, NobodyLeft, Pool!WorkersDone
  <1> QED
    BY <1>3, <1>4, Zenon DEF PoolInv

LEMMA PoolNext == ASSUME PoolBounds, PoolInv, [Pool!Next]_Pool!vars PROVE PoolInv'
  <1>1. CASE UNCHANGED Pool!vars
    BY <1>1, PoolStays DEF Pool!vars
  <1>2. CASE Pool!Next
    <2>1. \/ \E t \in Tasks :
                \/ Pool!Send(t) \/ Pool!TurnAway(t) \/ Pool!Full(t) \/ Pool!SendOnClosed(t)
                \/ Pool!CountSubmitted(t)
          \/ \E w \in Workers : Pool!WorkerSteps(w)
          \/ \E s \in Stoppers :
                Pool!StopSteps(s) \/ \E wait \in BOOLEAN : Pool!Stop(s, wait)
      BY <1>2 DEF Pool!Next
    <2> QED
      BY <2>1, PoolSubmits, PoolWorks, PoolStops
  <1> QED
    BY <1>1, <1>2

LEMMA PoolBegins == ASSUME PoolBounds, Pool!Init PROVE PoolInv
  <1>1. /\ taskQueue = <<>> /\ DOMAIN taskQueue = {} /\ worker = [w \in Workers |-> Pool!NoTask]
        /\ started = {} /\ task = [t \in Tasks |-> "new"] /\ waits = {}
        /\ stopper = [s \in Stoppers |-> "idle"]
        /\ metrics = [submitted |-> 0, running |-> 0, completed |-> 0, failed |-> 0]
    BY DEF Pool!Init
  <1>2. PoolTypes
    <2>1. metrics \in Metrics
      BY <1>1 DEF Metrics
    <2> QED
      BY <1>1, <2>1 DEF PoolTypes, TaskStates
  <1>3. Placed
    BY <1>1 DEF Placed, PoolBounds
  <1>4. MetricsRight
    <2>1. /\ In(task, {"ended", "ended early"}) = {} /\ In(task, {"accepted", "ended"}) = {}
          /\ started = {}
      BY <1>1, Zenon DEF In
    <2>2. Cardinality({}) = 0
      BY FS_EmptySet
    <2>3. metrics.submitted = 0 /\ metrics.running = 0 /\ metrics.completed = 0 /\ metrics.failed = 0
      BY <1>1
    <2>4. /\ Cardinality(started) = 0 /\ Cardinality(In(task, {"ended", "ended early"})) = 0
          /\ Cardinality(In(task, {"accepted", "ended"})) = 0
      BY <2>1, <2>2, Zenon
    <2>5. /\ metrics.running = Cardinality(started)
          /\ metrics.submitted = Cardinality(In(task, {"accepted", "ended"}))
      BY <2>3, <2>4, Zenon
    <2>6. metrics.completed + metrics.failed = Cardinality(In(task, {"ended", "ended early"}))
      <3>1. metrics.completed + metrics.failed = 0
        BY <2>3
      <3> QED
        BY <3>1, <2>4, Zenon
    <2> QED
      BY <2>5, <2>6, Zenon DEF MetricsRight
  <1>5. NobodyLeft
    BY <1>1 DEF NobodyLeft
  <1> QED
    BY <1>2, <1>3, <1>4, <1>5 DEF PoolInv

\* What each of a finite set's elements has, when no two have the same, is as
\* many as they are.
LEMMA SameNumber ==
    ASSUME NEW S, NEW T, NEW h \in [S -> T], IsFiniteSet(S),
           \A t \in T : \E x \in S : h[x] = t, \A x, y \in S : x # y => h[x] # h[y]
    PROVE  Cardinality(T) = Cardinality(S) /\ IsFiniteSet(T)
  <1>1. h \in Surjection(S, T)
    BY DEF Surjection
  <1>2. h \in Injection(S, T)
    BY DEF Injection, IsInjective
  <1> QED
    BY <1>1, <1>2, FS_Surjection

LEMMA ApartAddUp ==
    ASSUME NEW S, NEW T, IsFiniteSet(S), IsFiniteSet(T), S \cap T = {}
    PROVE  IsFiniteSet(S \cup T) /\ Cardinality(S \cup T) = Cardinality(S) + Cardinality(T)
  <1>1. /\ IsFiniteSet(S \cup T)
        /\ Cardinality(S \cup T) = Cardinality(S) + Cardinality(T) - Cardinality(S \cap T)
    BY FS_Union
  <1>2. Cardinality(S \cap T) = 0
    BY FS_EmptySet
  <1>3. Cardinality(S) \in Nat /\ Cardinality(T) \in Nat
    BY FS_CardinalityType
  <1> QED
    BY <1>1, <1>2, <1>3

Sent == {t \in Tasks : task[t] \in {"sent", "accepted", "ended", "ended early"}}

LEMMA PoolCounts ==
    ASSUME PoolBounds, PoolInv
    PROVE  /\ Pool!InQueue \cup Pool!InHand \cup Pool!Ended = Sent
           /\ Len(taskQueue) + Cardinality({w \in Workers : worker[w] \in Tasks})
                    + Cardinality(Pool!Ended) = Cardinality(Sent)
  <1>1. PoolTypes /\ Placed
    BY DEF PoolInv
  <1> DEFINE Busy == {w \in Workers : worker[w] \in Tasks}
  <1>2. /\ Len(taskQueue) \in Nat /\ DOMAIN taskQueue = 1..Len(taskQueue)
        /\ \A i \in DOMAIN taskQueue : taskQueue[i] \in Tasks
    BY <1>1, PoolQueue
  <1>3. Pool!InQueue = {t \in Tasks : \E i \in DOMAIN taskQueue : taskQueue[i] = t}
    BY <1>2 DEF Pool!InQueue
  <1>4. Pool!InHand = {t \in Tasks : \E w \in Workers : worker[w] = t}
    BY DEF Pool!InHand
  <1>5. /\ Pool!InQueue \cup Pool!InHand = In(task, {"sent", "accepted"})
        /\ Pool!InQueue \cap Pool!InHand = {}
    <2>1. Pool!InQueue \cap Pool!InHand = {}
      BY <1>1, <1>3, <1>4 DEF Placed
    <2>2. \A t \in Tasks : t \in Pool!InQueue \cup Pool!InHand <=> task[t] \in {"sent", "accepted"}
      BY <1>1, <1>3, <1>4 DEF Placed
    <2> QED
      BY <1>3, <1>4, <2>1, <2>2 DEF In
  <1>6. Cardinality(Pool!InQueue) = Len(taskQueue) /\ IsFiniteSet(Pool!InQueue)
    <2>1. IsFiniteSet(1..Len(taskQueue)) /\ Cardinality(1..Len(taskQueue)) = Len(taskQueue)
      <3>1. 1 \in Int /\ Len(taskQueue) \in Int
        BY <1>2
      <3>2. /\ IsFiniteSet(1..Len(taskQueue))
            /\ Cardinality(1..Len(taskQueue)) =
                    IF 1 > Len(taskQueue) THEN 0 ELSE Len(taskQueue) - 1 + 1
        BY ONLY <3>1, FS_Interval
      <3> QED
        BY ONLY <1>2, <3>2
    <2> DEFINE h == [i \in 1..Len(taskQueue) |-> taskQueue[i]]
    <2>2. h \in [1..Len(taskQueue) -> Pool!InQueue]
      BY <1>2 DEF Pool!InQueue
    <2>3. \A t \in Pool!InQueue : \E i \in 1..Len(taskQueue) : h[i] = t
      BY <1>2 DEF Pool!InQueue
    <2>4. \A i, j \in 1..Len(taskQueue) : i # j => h[i] # h[j]
      BY <1>1, <1>2 DEF Placed
    <2> HIDE DEF h
    <2> QED
      BY <2>1, <2>2, <2>3, <2>4, SameNumber
  <1>7. Cardinality(Pool!InHand) = Cardinality(Busy) /\ IsFiniteSet(Pool!InHand)
    <2>1. IsFiniteSet(Busy)
      BY FS_Subset DEF PoolBounds
    <2> DEFINE h == [w \in Busy |-> worker[w]]
    <2>2. h \in [Busy -> Pool!InHand]
      BY DEF Pool!InHand
    <2>3. \A t \in Pool!InHand : \E w \in Busy : h[w] = t
      BY DEF Pool!InHand
    <2>4. \A v, w \in Busy : v # w => h[v] # h[w]
      BY <1>1 DEF Placed
    <2> HIDE DEF h, Busy
    <2> QED
      BY <2>1, <2>2, <2>3, <2>4, SameNumber
  <1>8. IsFiniteSet(Pool!Ended)
    BY FS_Subset, Zenon DEF Pool!Ended, PoolBounds
  <1>9. Sent = (Pool!InQueue \cup Pool!InHand) \cup Pool!Ended
    BY <1>5, Zenon DEF In, Sent, Pool!Ended
  <1>10. (Pool!InQueue \cup Pool!InHand) \cap Pool!Ended = {}
    BY <1>5, Zenon DEF In, Pool!Ended
  <1>11. /\ IsFiniteSet(Pool!InQueue \cup Pool!InHand)
         /\ Cardinality(Pool!InQueue \cup Pool!InHand)
                = Cardinality(Pool!InQueue) + Cardinality(Pool!InHand)
    <2> DEFINE q == Pool!InQueue
               h == Pool!InHand
    <2>1. IsFiniteSet(q) /\ IsFiniteSet(h) /\ q \cap h = {}
      BY <1>5, <1>6, <1>7
    <2> HIDE DEF q, h
    <2>2. IsFiniteSet(q \cup h) /\ Cardinality(q \cup h) = Cardinality(q) + Cardinality(h)
      BY <2>1, ApartAddUp
    <2> QED
      BY <2>2 DEF q, h
  <1>12. Cardinality(Sent)
            = Cardinality(Pool!InQueue \cup Pool!InHand) + Cardinality(Pool!Ended)
    BY <1>8, <1>9, <1>10, <1>11, ApartAddUp
  <1> QED
    BY <1>6, <1>7, <1>9, <1>11, <1>12

LEMMA PoolCardinality == ASSUME NEW S PROVE Pool!Cardinality(S) = Cardinality(S)
BY Zenon DEF Pool!Cardinality, Cardinality

LEMMA PoolAccounts == ASSUME PoolBounds, PoolInv PROVE TasksAccounted
  <1>1. PoolTypes /\ Placed /\ MetricsRight /\ NobodyLeft
    BY DEF PoolInv
  <1>2. /\ Pool!InQueue \cup Pool!InHand \cup Pool!Ended = Sent
        /\ Len(taskQueue) + Cardinality({w \in Workers : worker[w] \in Tasks})
                + Cardinality(Pool!Ended) = Cardinality(Sent)
    BY PoolCounts
  <1>3. Pool!Ended = In(task, {"ended", "ended early"})
    BY DEF Pool!Ended, In
  <1>4. (\A t \in Tasks : task[t] \notin {"sent", "ended early"}) =>
            metrics.submitted = Cardinality(Sent)
    <2>1. ASSUME \A t \in Tasks : task[t] \notin {"sent", "ended early"}
          PROVE  Sent = In(task, {"accepted", "ended"})
      BY <2>1, Zenon DEF Sent, In
    <2> QED
      BY <1>1, <2>1, Zenon DEF MetricsRight
  <1>5. \A s \in waits : stopper[s] = "returned" => Pool!InHand = {}
    <2>1. Pool!Gone \notin Tasks
      BY DEF PoolBounds
    <2>2. waits \subseteq Stoppers
      BY <1>1, Zenon DEF PoolTypes
    <2> QED
      BY <1>1, <2>1, <2>2 DEF NobodyLeft, Pool!InHand
  <1>6. /\ metrics.running = Cardinality(started)
        /\ metrics.completed + metrics.failed = Cardinality(Pool!Ended)
    BY <1>1, <1>3, Zenon DEF MetricsRight
  <1> DEFINE all == Pool!InQueue \cup Pool!InHand \cup Pool!Ended
  <1>7. all = {t \in Tasks : task[t] \in {"sent", "accepted", "ended", "ended early"}}
    BY <1>2, Zenon DEF Sent
  <1>8. Len(taskQueue) + Cardinality({w \in Workers : worker[w] \in Tasks}) + Cardinality(Pool!Ended)
            = Cardinality(all)
    BY <1>2
  <1>9. (\A t \in Tasks : task[t] \notin {"sent", "ended early"}) =>
            metrics.submitted = Cardinality(all)
    BY <1>2, <1>4, Zenon
  <1> QED
    BY <1>5, <1>6, <1>7, <1>8, <1>9, PoolCardinality, Zenon DEF TasksAccounted, Pool!TasksAccounted

\* For every finite number of workers, tasks and stoppers and every capacity of
\* the channel: a task that Submit has sent is in the channel, in the hands of
\* one worker or ended, the counters say how many are where, and when Shutdown
\* has returned no worker has one (workerpool.go, Submit, worker, Shutdown and
\* ShutdownNow).
THEOREM TasksAreAccounted ==
    ASSUME IsFiniteSet(Workers), IsFiniteSet(Tasks), {Pool!NoTask, Pool!Gone} \cap Tasks = {}
    PROVE  Pool!Spec => []TasksAccounted
  <1>1. PoolBounds
    BY DEF PoolBounds
  <1>2. Pool!Init => PoolInv
    BY <1>1, PoolBegins
  <1>3. PoolInv /\ [Pool!Next]_Pool!vars => PoolInv'
    BY <1>1, PoolNext
  <1>4. PoolInv => TasksAccounted
    BY <1>1, PoolAccounts
  <1> QED
    BY <1>2, <1>3, <1>4, PTL DEF Pool!Spec

-----------------------------------------------------------------------------
(* A service's client: what is executed *)

ClientBounds == MaxRetries \in Nat \ {0} /\ MaxCalls \in Nat

Clients == {Client!OrderClient, Client!UserClient, Client!MatchingClient, Client!UpdateClient}

CallStates == {"new", "sent", "backoff", "done"}

ClientTypes ==
    /\ client \in Clients
    /\ callPC \in [Client!Calls -> CallStates]
    /\ attempt \in [Client!Calls -> Nat] /\ executed \in [Client!Calls -> Nat]
    /\ callResult \in [Client!Calls -> {"none", "refused", "ok", "error"}]
    /\ IsFiniteSet(wire)

\* The requests of a call that the service has not taken.
OnWire(c, w) == {m \in w : m[1] = c}

\* Every attempt of a call is on the wire or has been executed.
Accounted(c) ==
    /\ executed[c] + Cardinality(OnWire(c, wire)) = attempt[c]
    /\ attempt[c] <= client.attempts
    /\ \A m \in OnWire(c, wire) : \E a \in Nat : m = <<c, a>> /\ a <= attempt[c]

\* A call that has been sent and is not on the wire has been executed.
Progressed(c) ==
    /\ callPC[c] = "new" \/ callResult[c] = "refused" => attempt[c] = 0
    /\ callPC[c] = "sent" => attempt[c] > 0
    /\ callPC[c] = "backoff" => attempt[c] < client.attempts
    /\ attempt[c] > 0 /\ <<c, attempt[c]>> \notin wire => executed[c] > 0
    /\ callResult[c] = "ok" => executed[c] > 0
    /\ callResult[c] # "none" => callPC[c] = "done"

ClientInv ==
    /\ ClientTypes
    /\ \A c \in Client!Calls : Accounted(c) /\ Progressed(c)

LEMMA Attempts ==
    ASSUME ClientBounds, client \in Clients
    PROVE  client.attempts \in Nat /\ client.attempts >= 1 /\ client.guarded \in BOOLEAN
  <1>1. CASE client = Client!OrderClient
    BY <1>1 DEF ClientBounds, Client!OrderClient
  <1>2. CASE client = Client!UserClient
    BY <1>2 DEF Client!UserClient
  <1>3. CASE client = Client!MatchingClient
    BY <1>3 DEF Client!MatchingClient
  <1>4. CASE client = Client!UpdateClient
    BY <1>4 DEF ClientBounds, Client!UpdateClient
  <1> QED
    BY <1>1, <1>2, <1>3, <1>4 DEF Clients

LEMMA WireFinite ==
    ASSUME ClientTypes, NEW c
    PROVE  IsFiniteSet(OnWire(c, wire)) /\ Cardinality(OnWire(c, wire)) \in Nat
  <1>1. OnWire(c, wire) \in SUBSET wire
    BY DEF OnWire
  <1> QED
    BY <1>1, FS_Subset, FS_CardinalityType DEF ClientTypes

\* A call sends a request.
LEMMA ClientSends ==
    ASSUME ClientBounds, ClientInv, NEW c \in Client!Calls, callPC[c] \in {"new", "backoff"},
           Client!Send(c), UNCHANGED <<client, executed, callResult>>
    PROVE  ClientInv'
  <1>1. ClientTypes /\ Accounted(c) /\ Progressed(c)
    BY DEF ClientInv
  <1>2. /\ attempt' = [attempt EXCEPT ![c] = @ + 1] /\ wire' = wire \cup {<<c, attempt[c] + 1>>}
        /\ callPC' = [callPC EXCEPT ![c] = "sent"]
    BY DEF Client!Send
  <1>3. attempt[c] \in Nat /\ executed[c] \in Nat
    BY <1>1 DEF ClientTypes
  <1>4. /\ attempt'[c] = attempt[c] + 1 /\ callPC'[c] = "sent"
        /\ \A d \in Client!Calls \ {c} : attempt'[d] = attempt[d] /\ callPC'[d] = callPC[d]
    BY <1>1, <1>2 DEF ClientTypes
  <1>5. ClientTypes'
    <2>1. IsFiniteSet(wire')
      BY <1>1, <1>2, FS_AddElement DEF ClientTypes
    <2>2. attempt' \in [Client!Calls -> Nat]
      BY <1>1, <1>2, <1>3 DEF ClientTypes
    <2> QED
      BY <1>1, <1>2, <2>1, <2>2 DEF ClientTypes, CallStates
  <1>6. Accounted(c)'
    <2>1. <<c, attempt[c] + 1>> \notin OnWire(c, wire)
      BY <1>1, <1>3 DEF Accounted
    <2>2. OnWire(c, wire') = OnWire(c, wire) \cup {<<c, attempt[c] + 1>>}
      BY <1>2 DEF OnWire
    <2>3. Cardinality(OnWire(c, wire')) = Cardinality(OnWire(c, wire)) + 1
      BY <1>1, <2>1, <2>2, WireFinite, FS_AddElement
    <2>4. attempt[c] < client.attempts
      BY <1>1, Attempts DEF Progressed, ClientTypes
    <2>5. attempt'[c] <= client'.attempts
      BY <1>1, <1>3, <1>4, <2>4, Attempts DEF ClientTypes
    <2>6. executed'[c] + Cardinality(OnWire(c, wire')) = attempt'[c]
      BY <1>1, <1>3, <1>4, <2>3, WireFinite DEF Accounted
    <2>7. \A m \in OnWire(c, wire') : \E a \in Nat : m = <<c, a>> /\ a <= attempt'[c]
      BY <1>1, <1>3, <1>4, <2>2 DEF Accounted
    <2> QED
      BY <2>5, <2>6, <2>7 DEF Accounted
  <1>7. Progressed(c)'
    <2>1. callResult[c] = "none"
      BY <1>1 DEF Progressed, ClientTypes
    <2> QED
      BY <1>2, <1>3, <1>4, <2>1 DEF Progressed
  <1>8. ASSUME NEW d \in Client!Calls, d # c
        PROVE  Accounted(d)' /\ Progressed(d)'
    <2>1. OnWire(d, wire') = OnWire(d, wire)
      BY <1>2, <1>8 DEF OnWire
    <2>2. <<d, attempt[d]>> \in wire' <=> <<d, attempt[d]>> \in wire
      BY <1>2, <1>8
    <2>3. Accounted(d) /\ Progressed(d)
      BY DEF ClientInv
    <2> QED
      BY <1>4, <1>8, <2>1, <2>2, <2>3 DEF Accounted, Progressed
  <1> QED
    BY <1>5, <1>6, <1>7, <1>8 DEF ClientInv

\* The service takes a request.
LEMMA ClientExecutes ==
    ASSUME ClientBounds, ClientInv, NEW c \in Client!Calls, NEW a \in Nat, Client!Execute(c, a)
    PROVE  ClientInv'
  <1>1. ClientTypes /\ Accounted(c) /\ Progressed(c)
    BY DEF ClientInv
  <1>2. /\ <<c, a>> \in wire /\ wire' = wire \ {<<c, a>>}
        /\ executed' = [executed EXCEPT ![c] = @ + 1]
        /\ UNCHANGED <<client, callPC, attempt, callResult>>
    BY DEF Client!Execute
  <1>3. attempt[c] \in Nat /\ executed[c] \in Nat
    BY <1>1 DEF ClientTypes
  <1>4. /\ executed'[c] = executed[c] + 1
        /\ \A d \in Client!Calls \ {c} : executed'[d] = executed[d]
    BY <1>1, <1>2 DEF ClientTypes
  <1>5. ClientTypes'
    <2>1. IsFiniteSet(wire')
      BY <1>1, <1>2, FS_RemoveElement DEF ClientTypes
    <2>2. executed' \in [Client!Calls -> Nat]
      BY <1>1, <1>2, <1>3 DEF ClientTypes
    <2> QED
      BY <1>1, <1>2, <2>1, <2>2 DEF ClientTypes
  <1>6. Accounted(c)'
    <2>1. <<c, a>> \in OnWire(c, wire) /\ OnWire(c, wire') = OnWire(c, wire) \ {<<c, a>>}
      BY <1>2 DEF OnWire
    <2>2. Cardinality(OnWire(c, wire')) = Cardinality(OnWire(c, wire)) - 1
      BY <1>1, <2>1, WireFinite, FS_RemoveElement
    <2>3. executed'[c] + Cardinality(OnWire(c, wire')) = attempt'[c]
      BY <1>1, <1>2, <1>3, <1>4, <2>2, WireFinite DEF Accounted
    <2> QED
      BY <1>1, <1>2, <2>1, <2>3 DEF Accounted
  <1>7. Progressed(c)'
    BY <1>1, <1>2, <1>3, <1>4 DEF Progressed
  <1>8. ASSUME NEW d \in Client!Calls, d # c
        PROVE  Accounted(d)' /\ Progressed(d)'
    <2>1. OnWire(d, wire') = OnWire(d, wire)
      BY <1>2, <1>8 DEF OnWire
    <2>2. <<d, attempt[d]>> \in wire' <=> <<d, attempt[d]>> \in wire
      BY <1>2, <1>8
    <2>3. Accounted(d) /\ Progressed(d)
      BY DEF ClientInv
    <2> QED
      BY <1>2, <1>4, <1>8, <2>1, <2>2, <2>3 DEF Accounted, Progressed
  <1> QED
    BY <1>5, <1>6, <1>7, <1>8 DEF ClientInv

\* A call goes on without a request: it is refused, waits to retry or returns.
LEMMA ClientGoesOn ==
    ASSUME ClientBounds, ClientInv, NEW c \in Client!Calls, NEW to \in {"backoff", "done"},
           NEW r \in {"none", "refused", "ok", "error"},
           callPC' = [callPC EXCEPT ![c] = to], callResult' = [callResult EXCEPT ![c] = r],
           UNCHANGED <<client, attempt, wire, executed>>,
           to = "backoff" => attempt[c] < client.attempts /\ r = callResult[c] /\ callPC[c] # "done",
           r = "refused" => callPC[c] = "new",
           r = "ok" => callPC[c] = "sent" /\ <<c, attempt[c]>> \notin wire
    PROVE  ClientInv'
  <1>1. ClientTypes /\ Accounted(c) /\ Progressed(c)
    BY DEF ClientInv
  <1>2. /\ callPC'[c] = to /\ callResult'[c] = r
        /\ \A d \in Client!Calls \ {c} : callPC'[d] = callPC[d] /\ callResult'[d] = callResult[d]
    BY <1>1 DEF ClientTypes
  <1>3. ClientTypes'
    BY <1>1 DEF ClientTypes, CallStates
  <1>4. Progressed(c)'
    <2>1. to = "backoff" => r = "none"
      BY <1>1 DEF Progressed, ClientTypes
    <2>2. r = "ok" => executed[c] > 0
      BY <1>1 DEF Progressed
    <2>3. r = "refused" => attempt[c] = 0
      BY <1>1 DEF Progressed
    <2> QED
      BY <1>1, <1>2, <2>1, <2>2, <2>3 DEF Progressed
  <1>5. \A d \in Client!Calls : Accounted(d)'
    BY DEF ClientInv, Accounted
  <1>6. ASSUME NEW d \in Client!Calls, d # c
        PROVE  Progressed(d)'
    BY <1>2, <1>6 DEF ClientInv, Progressed
  <1> QED
    BY <1>3, <1>4, <1>5, <1>6 DEF ClientInv

LEMMA ClientNext == ClientBounds /\ ClientInv /\ [Client!Next]_Client!vars => ClientInv'
  <1> SUFFICES ASSUME ClientBounds, ClientInv, [Client!Next]_Client!vars
               PROVE  ClientInv'
    OBVIOUS
  <1>1. CASE UNCHANGED <<client, callPC, attempt, wire, executed, callResult>>
    <2>1. ClientTypes'
      BY <1>1 DEF ClientInv, ClientTypes
    <2>2. \A c \in Client!Calls : Accounted(c)' /\ Progressed(c)'
      BY <1>1 DEF ClientInv, Accounted, Progressed
    <2> QED
      BY <2>1, <2>2 DEF ClientInv
  <1>2. ASSUME NEW c \in Client!Calls, Client!Enter(c) \/ Client!Retry(c)
        PROVE  ClientInv'
    <2>1. callPC[c] \in {"new", "backoff"} /\ Client!Send(c) /\ UNCHANGED <<client, executed, callResult>>
      BY <1>2 DEF Client!Enter, Client!Retry, Client!Comes
    <2> QED
      BY <2>1, ClientSends
  <1>3. ASSUME NEW c \in Client!Calls, NEW a \in 1..MaxRetries, Client!Execute(c, a)
        PROVE  ClientInv'
    <2>1. a \in Nat
      BY DEF ClientBounds
    <2> QED
      BY <1>3, <2>1, ClientExecutes
  <1>4. ASSUME NEW c \in Client!Calls, NEW r \in {"ok", "error"}, callPC[c] # "new",
               r = "ok" => callPC[c] = "sent" /\ <<c, attempt[c]>> \notin wire, Client!Return(c, r)
        PROVE  ClientInv'
    <2>1. /\ callPC' = [callPC EXCEPT ![c] = "done"] /\ callResult' = [callResult EXCEPT ![c] = r]
          /\ UNCHANGED <<client, attempt, wire, executed>>
      BY <1>4 DEF Client!Return
    <2> QED
      BY <1>4, <2>1, ClientGoesOn
  <1>5. ASSUME NEW c \in Client!Calls, Client!Refuse(c)
        PROVE  ClientInv'
    <2>1. /\ callPC[c] = "new" /\ callPC' = [callPC EXCEPT ![c] = "done"]
          /\ callResult' = [callResult EXCEPT ![c] = "refused"]
          /\ UNCHANGED <<client, attempt, wire, executed>>
      BY <1>5 DEF Client!Refuse, Client!Comes
    <2> QED
      BY <2>1, ClientGoesOn
  <1>6. ASSUME NEW c \in Client!Calls, Client!Break(c)
        PROVE  ClientInv'
    <2>1. /\ callPC[c] = "sent" /\ attempt[c] < client.attempts /\ callPC' = [callPC EXCEPT ![c] = "backoff"]
          /\ UNCHANGED <<client, attempt, wire, executed, callResult>>
      BY <1>6 DEF Client!Break, Client!MayRetry
    <2>2. callResult' = [callResult EXCEPT ![c] = callResult[c]]
          /\ callResult[c] \in {"none", "refused", "ok", "error"}
      BY <2>1 DEF ClientInv, ClientTypes
    <2>3. callResult[c] = "none"
      BY <2>1, <2>2 DEF ClientInv, Progressed
    <2> QED
      BY <2>1, <2>2, <2>3, ClientGoesOn
  <1>7. CASE Client!Next
    <2>1. CASE Client!Expire
      BY <1>1, <2>1 DEF Client!Expire
    <2>2. ASSUME NEW c \in Client!Calls,
                 \/ Client!Enter(c) \/ Client!Refuse(c)
                 \/ \E a \in 1..MaxRetries : Client!Execute(c, a)
                 \/ Client!Break(c) \/ Client!Retry(c)
          PROVE  ClientInv'
      BY <1>2, <1>3, <1>5, <1>6, <2>2
    <2>3. ASSUME NEW c \in Client!Calls, NEW r \in {"ok", "error"}, Client!Answer(c, r)
          PROVE  ClientInv'
      BY <1>4, <2>3 DEF Client!Answer
    <2>4. ASSUME NEW c \in Client!Calls,
                 Client!GiveUp(c) \/ Client!Deadline(c) \/ Client!Cancel(c)
          PROVE  ClientInv'
      BY <1>4, <2>4 DEF Client!GiveUp, Client!Deadline, Client!Cancel, Client!HasDeadline
    <2> QED
      BY <1>7, <2>1, <2>2, <2>3, <2>4 DEF Client!Next
  <1> QED
    BY <1>1, <1>7 DEF Client!vars

LEMMA ClientBegins == ClientBounds /\ Client!Init => ClientInv
  <1> SUFFICES ASSUME ClientBounds, Client!Init
               PROVE  ClientInv
    OBVIOUS
  <1>1. /\ client \in Clients /\ callPC = [c \in Client!Calls |-> "new"]
        /\ attempt = [c \in Client!Calls |-> 0] /\ wire = {}
        /\ executed = [c \in Client!Calls |-> 0] /\ callResult = [c \in Client!Calls |-> "none"]
    BY DEF Client!Init, Clients
  <1>2. ClientTypes
    BY <1>1, FS_EmptySet DEF ClientTypes, CallStates
  <1>3. ASSUME NEW c \in Client!Calls
        PROVE  Accounted(c) /\ Progressed(c)
    <2>1. OnWire(c, wire) = {} /\ Cardinality({}) = 0
      BY <1>1, FS_EmptySet DEF OnWire
    <2>2. 0 <= client.attempts
      BY <1>1, Attempts
    <2> QED
      BY <1>1, <2>1, <2>2 DEF Accounted, Progressed
  <1> QED
    BY <1>2, <1>3 DEF ClientInv

LEMMA ClientCardinality == ASSUME NEW S PROVE Client!Cardinality(S) = Cardinality(S)
BY Zenon DEF Client!Cardinality, Cardinality

\* For every number of attempts a client may make and of calls at a time: the
\* service executes no call more often, a call the breaker has refused never,
\* and one that came back with success at least once, however late a request is
\* taken and whether or not its caller still waits (order_client.go, clients.go).
THEOREM ExecutionsAreAccounted ==
    ASSUME MaxRetries \in Nat \ {0}, MaxCalls \in Nat
    PROVE  Client!Spec => []ExecutionsAccounted
  <1>1. ClientBounds
    BY DEF ClientBounds
  <1>2. ClientInv => ExecutionsAccounted
    <2>1. ASSUME ClientInv, NEW c \in Client!Calls
          PROVE  /\ executed[c] + Client!Cardinality({m \in wire : m[1] = c}) <= client.attempts
                 /\ callResult[c] = "refused" =>
                        executed[c] = 0 /\ \A m \in wire : m[1] # c
                 /\ callResult[c] = "ok" => executed[c] > 0
      <3>1. ClientTypes /\ Accounted(c) /\ Progressed(c)
        BY <2>1 DEF ClientInv
      <3>2. Client!Cardinality({m \in wire : m[1] = c}) = Cardinality(OnWire(c, wire))
        BY ClientCardinality DEF OnWire
      <3>3. executed[c] \in Nat /\ Cardinality(OnWire(c, wire)) \in Nat
        BY <3>1, WireFinite DEF ClientTypes
      <3>4. executed[c] + Cardinality(OnWire(c, wire)) <= client.attempts
        BY <3>1 DEF Accounted
      <3>5. callResult[c] = "refused" => executed[c] = 0 /\ Cardinality(OnWire(c, wire)) = 0
        BY <3>1, <3>3 DEF Accounted, Progressed
      <3>6. Cardinality(OnWire(c, wire)) = 0 => OnWire(c, wire) = {}
        BY <3>1, WireFinite, FS_EmptySet
      <3>7. callResult[c] = "refused" => \A m \in wire : m[1] # c
        BY <3>5, <3>6 DEF OnWire
      <3> QED
        BY <3>1, <3>2, <3>4, <3>5, <3>7 DEF Progressed
    <2> QED
      BY <2>1 DEF ExecutionsAccounted, Client!ExecutionsAccounted
  <1> QED
    BY <1>1, <1>2, ClientBegins, ClientNext, PTL DEF Client!Spec

-----------------------------------------------------------------------------
(* A service's client: its breaker *)

ProbeBounds == MaxCalls \in Nat /\ MaxProbes \in Nat

Breakers == Client!Breaker(Client!Calls)

\* An open breaker has let nobody in, a half-open one no more than it counted.
Probing(b) ==
    /\ b.state = "open" => b.inside = {}
    /\ b.state = "half-open" =>
            ~b.due /\ Cardinality(b.inside) <= b.requests /\ b.requests <= MaxProbes

\* While it is not closed, who is in flight was there when it opened or was let in.
LetIn(b, flight, before) == b.state # "closed" => flight \ before \subseteq b.inside

ProbeInv ==
    /\ client \in Clients /\ callPC \in [Client!Calls -> CallStates]
    /\ client.guarded =>
            clientBreaker \in Breakers /\ Probing(clientBreaker) /\ LetIn(clientBreaker, Client!InFlight, late)

LEMMA CallsFinite ==
    ASSUME ProbeBounds, NEW S, S \subseteq Client!Calls
    PROVE  IsFiniteSet(S) /\ Cardinality(S) \in Nat
  <1>1. IsFiniteSet(Client!Calls)
    BY FS_Interval DEF Client!Calls, ProbeBounds
  <1> QED
    BY <1>1, FS_Subset, FS_CardinalityType

LEMMA BreakerFields ==
    ASSUME NEW b \in Breakers
    PROVE  /\ b.state \in {"closed", "open", "half-open"} /\ b.requests \in Nat
           /\ b.due \in BOOLEAN /\ b.inside \subseteq Client!Calls
BY DEF Breakers, Client!Breaker

LEMMA NewGenerationIs ==
    ASSUME NEW s \in {"closed", "open", "half-open"}
    PROVE  LET b == Client!NewGeneration(s) IN
            /\ b \in Breakers /\ b.state = s /\ b.requests = 0 /\ b.inside = {} /\ b.due = FALSE
BY DEF Client!NewGeneration, Breakers, Client!Breaker

\* Whoever asks the breaker finds it sound, and misses nobody in it.
LEMMA CurrentIs ==
    ASSUME ProbeBounds, NEW b \in Breakers, Probing(b)
    PROVE  LET present == Client!Current(b) IN
            /\ present \in Breakers /\ Probing(present) /\ ~present.due
            /\ \A flight, before : LetIn(b, flight, before) => LetIn(present, flight, before)
  <1>1. CASE ~b.due
    BY <1>1 DEF Client!Current
  <1>2. CASE b.due
    <2> DEFINE s == IF b.state = "open" THEN "half-open" ELSE "closed"
    <2>1. Client!Current(b) = Client!NewGeneration(s) /\ s \in {"closed", "open", "half-open"}
      BY <1>2 DEF Client!Current
    <2>2. s = "half-open" => b.state = "open" /\ b.inside = {}
      BY DEF Probing
    <2>3. s # "open"
      OBVIOUS
    <2> HIDE DEF s
    <2> DEFINE present == Client!NewGeneration(s)
    <2>4. /\ present \in Breakers /\ present.state = s /\ present.requests = 0 /\ present.inside = {}
          /\ present.due = FALSE
      BY <2>1, NewGenerationIs
    <2> HIDE DEF present
    <2>5. Probing(present)
      <3>1. Cardinality({}) = 0 /\ 0 <= MaxProbes
        BY FS_EmptySet DEF ProbeBounds
      <3> QED
        BY <2>3, <2>4, <3>1 DEF Probing
    <2>6. \A flight, before : LetIn(b, flight, before) => LetIn(present, flight, before)
      <3>1. present.state = "closed" \/ (b.state # "closed" /\ b.inside = {})
        BY <2>1, <2>2, <2>3, <2>4
      <3> QED
        BY <2>4, <3>1 DEF LetIn
    <2>7. Client!Current(b) = present
      BY <2>1 DEF present
    <2> QED
      BY <2>4, <2>5, <2>6, <2>7
  <1> QED
    BY <1>1, <1>2

LEMMA EnteredIs ==
    ASSUME ProbeBounds, NEW b \in Breakers, Probing(b), NEW c \in Client!Calls, Client!Admits(b)
    PROVE  LET present == Client!Entered(b, c) IN
            /\ present \in Breakers /\ Probing(present)
            /\ \A flight, before :
                    LetIn(b, flight, before) => LetIn(present, flight \cup {c}, before)
  <1> DEFINE present == Client!Entered(b, c)
  <1>1. /\ present \in Breakers /\ present.state = b.state /\ present.requests = b.requests + 1
        /\ present.inside = b.inside \cup {c} /\ present.due = b.due
    <2> DEFINE more == [b EXCEPT !.requests = b.requests + 1]
    <2>1. b.requests \in Nat /\ b.inside \subseteq Client!Calls
      BY BreakerFields
    <2>2. /\ more \in Breakers /\ more.state = b.state /\ more.requests = b.requests + 1
          /\ more.inside = b.inside /\ more.due = b.due
      BY <2>1 DEF Breakers, Client!Breaker
    <2>3. present = [more EXCEPT !.inside = more.inside \cup {c}]
      BY <2>2 DEF Client!Entered
    <2> HIDE DEF more, present
    <2>4. more.inside \cup {c} \in SUBSET Client!Calls
      BY <2>1, <2>2
    <2> QED
      BY <2>2, <2>3, <2>4 DEF Breakers, Client!Breaker
  <1> HIDE DEF present
  <1>2. b.state = "closed" \/ (b.state = "half-open" /\ b.requests < MaxProbes)
    BY DEF Client!Admits
  <1>3. Cardinality(b.inside \cup {c}) <= Cardinality(b.inside) + 1
    <2>1. IsFiniteSet(b.inside) /\ Cardinality(b.inside) \in Nat
      BY BreakerFields, CallsFinite
    <2>2. CASE c \notin b.inside
      <3>1. Cardinality(b.inside \cup {c}) = Cardinality(b.inside) + 1
        BY <2>1, <2>2, FS_AddElement
      <3> QED
        BY <2>1, <3>1
    <2>3. CASE c \in b.inside
      <3>1. b.inside \cup {c} = b.inside
        BY <2>3
      <3>2. Cardinality(b.inside \cup {c}) = Cardinality(b.inside)
        BY <3>1
      <3> QED
        BY <2>1, <3>2
    <2> QED
      BY <2>2, <2>3
  <1>4. Probing(present)
    <2>1. b.requests \in Nat /\ Cardinality(b.inside) \in Nat /\ Cardinality(b.inside \cup {c}) \in Nat
      <3>1. b.inside \cup {c} \subseteq Client!Calls
        BY BreakerFields
      <3> QED
        BY <3>1, BreakerFields, CallsFinite
    <2>2. CASE b.state = "closed"
      BY <1>1, <2>2 DEF Probing
    <2>3. CASE b.state = "half-open"
      <3>1. ~b.due /\ Cardinality(b.inside) <= b.requests /\ b.requests < MaxProbes
        BY <1>2, <2>3 DEF Probing
      <3>2. Cardinality(present.inside) <= present.requests /\ present.requests <= MaxProbes
        BY <1>1, <1>3, <2>1, <3>1 DEF ProbeBounds
      <3> QED
        BY <1>1, <2>3, <3>1, <3>2 DEF Probing
    <2> QED
      BY <1>2, <2>2, <2>3
  <1>5. \A flight, before : LetIn(b, flight, before) => LetIn(present, flight \cup {c}, before)
    BY <1>1 DEF LetIn
  <1> QED
    BY <1>1, <1>4, <1>5 DEF present

\* A request is answered: who asked is out of the breaker, unless it opens.
LEMMA LeftIs ==
    ASSUME ProbeBounds, NEW b \in Breakers, Probing(b), NEW c \in Client!Calls,
           NEW present \in Breakers, present.state = b.state, present.requests = b.requests,
           present.due = b.due, present.inside = b.inside \ {c}
    PROVE  /\ Probing(present)
           /\ \A flight, before : LetIn(b, flight, before) => LetIn(present, flight \ {c}, before)
  <1>1. \A flight, before : LetIn(b, flight, before) => LetIn(present, flight \ {c}, before)
    BY DEF LetIn
  <1>2. Cardinality(b.inside \ {c}) <= Cardinality(b.inside)
    <2>1. IsFiniteSet(b.inside) /\ b.inside \ {c} \in SUBSET b.inside
      BY BreakerFields, CallsFinite
    <2> QED
      BY <2>1, FS_Subset
  <1>3. /\ Cardinality(b.inside) \in Nat /\ Cardinality(b.inside \ {c}) \in Nat
        /\ b.requests \in Nat
    <2>1. b.inside \ {c} \subseteq Client!Calls
      BY BreakerFields
    <2> QED
      BY <2>1, BreakerFields, CallsFinite
  <1>4. b.state = "half-open" =>
            Cardinality(present.inside) <= present.requests /\ present.requests <= MaxProbes /\ ~present.due
    <2>1. ASSUME b.state = "half-open"
          PROVE  Cardinality(b.inside) <= b.requests /\ b.requests <= MaxProbes /\ ~b.due
      BY <2>1 DEF Probing
    <2> QED
      BY <1>2, <1>3, <2>1
  <1>5. present.state = "open" => present.inside = {}
    BY DEF Probing
  <1>6. Probing(present)
    BY <1>4, <1>5 DEF Probing
  <1> QED
    BY <1>1, <1>6

LEMMA SucceededIs ==
    ASSUME ProbeBounds, NEW b \in Breakers, Probing(b), NEW c \in Client!Calls
    PROVE  LET present == Client!Succeeded(b, c) IN
            /\ present \in Breakers /\ Probing(present)
            /\ \A flight, before : LetIn(b, flight, before) => LetIn(present, flight \ {c}, before)
  <1>1. CASE c \notin b.inside
    <2>1. Client!Succeeded(b, c) = b
      BY <1>1 DEF Client!Succeeded
    <2>2. \A flight, before : LetIn(b, flight, before) => LetIn(b, flight \ {c}, before)
      BY DEF LetIn
    <2> QED
      BY <2>1, <2>2
  <1>2. CASE c \in b.inside
    <2> DEFINE out == [b EXCEPT !.succeeding = @ + 1, !.failing = 0, !.inside = @ \ {c}]
    <2>1. /\ out \in Breakers /\ out.state = b.state /\ out.requests = b.requests
          /\ out.due = b.due /\ out.inside = b.inside \ {c}
      <3> DEFINE one == [b EXCEPT !.succeeding = b.succeeding + 1]
                 two == [one EXCEPT !.failing = 0]
                 three == [two EXCEPT !.inside = two.inside \ {c}]
      <3>1. b.succeeding \in Nat /\ b.inside \in SUBSET Client!Calls
        BY DEF Breakers, Client!Breaker
      <3>2. /\ one \in Breakers /\ one.state = b.state /\ one.requests = b.requests
            /\ one.due = b.due /\ one.inside = b.inside /\ one.failing = b.failing
        BY <3>1 DEF Breakers, Client!Breaker
      <3>3. out = [[one EXCEPT !.failing = 0] EXCEPT !.inside = b.inside \ {c}]
        BY <3>1
      <3> HIDE DEF one
      <3>4. /\ two \in Breakers /\ two.state = b.state /\ two.requests = b.requests
            /\ two.due = b.due /\ two.inside = b.inside
        BY <3>2 DEF Breakers, Client!Breaker
      <3>5. out = three
        BY <3>3, <3>4
      <3> HIDE DEF two
      <3>6. two.inside \ {c} \in SUBSET Client!Calls
        BY <3>1, <3>4
      <3>7. /\ three \in Breakers /\ three.state = b.state /\ three.requests = b.requests
            /\ three.due = b.due /\ three.inside = b.inside \ {c}
        BY <3>4, <3>6 DEF Breakers, Client!Breaker
      <3> HIDE DEF three, out
      <3> QED
        BY <3>5, <3>7
    <2>2. Client!Succeeded(b, c)
            = IF b.state = "half-open" /\ out.succeeding >= MaxProbes THEN Client!Closed ELSE out
      BY <1>2 DEF Client!Succeeded
    <2> HIDE DEF out
    <2>3. CASE Client!Succeeded(b, c) = out
      BY <2>1, <2>3, LeftIs
    <2>4. CASE Client!Succeeded(b, c) = Client!Closed
      <3> DEFINE present == Client!Closed
      <3>1. present \in Breakers /\ present.state = "closed"
        BY NewGenerationIs DEF Client!Closed
      <3> HIDE DEF present
      <3>2. Probing(present) /\ \A flight, before : LetIn(present, flight \ {c}, before)
        BY <3>1 DEF Probing, LetIn
      <3>3. Client!Succeeded(b, c) = present
        BY <2>4 DEF present
      <3> QED
        BY <3>1, <3>2, <3>3
    <2> QED
      BY <2>2, <2>3, <2>4
  <1> QED
    BY <1>1, <1>2

LEMMA FailedIs ==
    ASSUME ProbeBounds, NEW b \in Breakers, Probing(b), NEW c \in Client!Calls, NEW trips
    PROVE  LET present == Client!Failed(b, c, trips) IN
            /\ present \in Breakers /\ Probing(present)
            /\ \/ present.state = "open" /\ b.state # "open" /\ present.inside = {}
               \/ \A flight, before : LetIn(b, flight, before) => LetIn(present, flight \ {c}, before)
  <1>1. CASE c \notin b.inside
    <2>1. Client!Failed(b, c, trips) = b
      BY <1>1 DEF Client!Failed
    <2>2. \A flight, before : LetIn(b, flight, before) => LetIn(b, flight \ {c}, before)
      BY DEF LetIn
    <2> QED
      BY <2>1, <2>2
  <1>2. CASE c \in b.inside
    <2> DEFINE out == Client!Counted(b, c)
    <2>1. /\ out \in Breakers /\ out.state = b.state /\ out.requests = b.requests
          /\ out.due = b.due /\ out.inside = b.inside \ {c}
      <3> DEFINE one == [b EXCEPT !.failures = b.failures + 1]
                 two == [one EXCEPT !.failing = b.failing + 1]
                 three == [two EXCEPT !.succeeding = 0]
                 four == [three EXCEPT !.inside = b.inside \ {c}]
      <3>1. b.failures \in Nat /\ b.failing \in Nat /\ b.inside \in SUBSET Client!Calls
        BY DEF Breakers, Client!Breaker
      <3>2. /\ one \in Breakers /\ one.state = b.state /\ one.requests = b.requests
            /\ one.due = b.due /\ one.inside = b.inside /\ one.failing = b.failing
        BY <3>1 DEF Breakers, Client!Breaker
      <3>3. out = [[[one EXCEPT !.failing = b.failing + 1] EXCEPT !.succeeding = 0]
                        EXCEPT !.inside = b.inside \ {c}]
        BY <3>1 DEF Client!Counted
      <3> HIDE DEF one
      <3>4. /\ two \in Breakers /\ two.state = b.state /\ two.requests = b.requests
            /\ two.due = b.due /\ two.inside = b.inside
        BY <3>1, <3>2 DEF Breakers, Client!Breaker
      <3>5. out = four
        BY <3>3
      <3> HIDE DEF two
      <3>6. /\ three \in Breakers /\ three.state = b.state /\ three.requests = b.requests
            /\ three.due = b.due /\ three.inside = b.inside
        BY <3>4 DEF Breakers, Client!Breaker
      <3> HIDE DEF three
      <3>7. b.inside \ {c} \in SUBSET Client!Calls
        BY <3>1
      <3>8. /\ four \in Breakers /\ four.state = b.state /\ four.requests = b.requests
            /\ four.due = b.due /\ four.inside = b.inside \ {c}
        BY <3>6, <3>7 DEF Breakers, Client!Breaker
      <3> HIDE DEF four, out
      <3> QED
        BY <3>5, <3>8
    <2>2. Client!Failed(b, c, trips)
            = IF b.state = "half-open" \/ trips THEN Client!NewGeneration("open") ELSE out
      BY <1>2 DEF Client!Failed
    <2> HIDE DEF out
    <2>3. CASE Client!Failed(b, c, trips) = out
      BY <2>1, <2>3, LeftIs
    <2>4. CASE Client!Failed(b, c, trips) = Client!NewGeneration("open")
      <3> DEFINE present == Client!NewGeneration("open")
      <3>1. present \in Breakers /\ present.state = "open" /\ present.inside = {}
        BY NewGenerationIs
      <3> HIDE DEF present
      <3>2. Probing(present) /\ b.state # "open"
        BY <1>2, <3>1 DEF Probing
      <3>3. Client!Failed(b, c, trips) = present
        BY <2>4 DEF present
      <3> QED
        BY <3>1, <3>2, <3>3
    <2> QED
      BY <2>2, <2>3, <2>4
  <1> QED
    BY <1>1, <1>2

\* A call goes elsewhere: who is in flight then.
LEMMA FlightIs ==
    ASSUME callPC \in [Client!Calls -> CallStates], NEW c \in Client!Calls, NEW to \in CallStates,
           callPC' = [callPC EXCEPT ![c] = to]
    PROVE  /\ callPC' \in [Client!Calls -> CallStates]
           /\ to \in {"sent", "backoff"} => Client!InFlight' = Client!InFlight \cup {c}
           /\ to \notin {"sent", "backoff"} => Client!InFlight' = Client!InFlight \ {c}
  <1>1. callPC'[c] = to /\ \A d \in Client!Calls \ {c} : callPC'[d] = callPC[d]
    OBVIOUS
  <1> QED
    BY <1>1 DEF Client!InFlight

\* A call comes to the breaker or returns through it.
LEMMA ProbeEnters ==
    ASSUME ProbeBounds, ProbeInv, NEW c \in Client!Calls, Client!Enter(c) \/ Client!Refuse(c)
    PROVE  ProbeInv'
  <1> DEFINE b == Client!Current(clientBreaker)
  <1>1. CASE ~client.guarded
    <2>1. \E to \in CallStates : callPC' = [callPC EXCEPT ![c] = to] /\ client' = client
      BY DEF Client!Enter, Client!Refuse, Client!Send, CallStates
    <2> QED
      BY <1>1, <2>1, FlightIs DEF ProbeInv
  <1>2. CASE client.guarded
    <2>1. clientBreaker \in Breakers /\ Probing(clientBreaker) /\ LetIn(clientBreaker, Client!InFlight, late)
      BY <1>2 DEF ProbeInv
    <2>2. b \in Breakers /\ Probing(b) /\ LetIn(b, Client!InFlight, late)
      BY <2>1, CurrentIs
    <2>3. callPC \in [Client!Calls -> CallStates] /\ client \in Clients
      BY DEF ProbeInv
    <2>4. CASE Client!Enter(c)
      <3>1. /\ Client!Admits(b) /\ clientBreaker' = Client!Entered(b, c)
            /\ callPC' = [callPC EXCEPT ![c] = "sent"] /\ UNCHANGED <<client, late>>
        BY <1>2, <2>4 DEF Client!Enter, Client!Send
      <3> HIDE DEF b
      <3>2. /\ clientBreaker' \in Breakers /\ Probing(clientBreaker')
            /\ LetIn(clientBreaker', Client!InFlight \cup {c}, late)
        BY <2>2, <3>1, EnteredIs
      <3>3. callPC' \in [Client!Calls -> CallStates] /\ Client!InFlight' = Client!InFlight \cup {c}
        BY <2>3, <3>1, FlightIs DEF CallStates
      <3> QED
        BY <2>3, <3>1, <3>2, <3>3 DEF ProbeInv
    <2>5. CASE Client!Refuse(c)
      <3>1. /\ callPC[c] = "new" /\ clientBreaker' = b /\ callPC' = [callPC EXCEPT ![c] = "done"]
            /\ UNCHANGED <<client, late>>
        BY <2>5 DEF Client!Refuse, Client!Comes
      <3> HIDE DEF b
      <3>2. callPC' \in [Client!Calls -> CallStates] /\ Client!InFlight' = Client!InFlight \ {c}
        BY <2>3, <3>1, FlightIs DEF CallStates
      <3>3. c \notin Client!InFlight
        BY <3>1 DEF Client!InFlight
      <3>4. Client!InFlight' = Client!InFlight
        BY <3>2, <3>3
      <3> QED
        BY <2>2, <2>3, <3>1, <3>2, <3>4 DEF ProbeInv
    <2> QED
      BY <2>4, <2>5
  <1> QED
    BY <1>1, <1>2, Attempts DEF ProbeInv

LEMMA ProbeReturns ==
    ASSUME ProbeBounds, ProbeInv, NEW c \in Client!Calls, NEW r \in {"ok", "error"},
           Client!Return(c, r)
    PROVE  ProbeInv'
  <1> DEFINE b == Client!Current(clientBreaker)
  <1>1. callPC' = [callPC EXCEPT ![c] = "done"] /\ client' = client
    BY DEF Client!Return
  <1>2. callPC \in [Client!Calls -> CallStates] /\ client \in Clients
    BY DEF ProbeInv
  <1>3. callPC' \in [Client!Calls -> CallStates] /\ Client!InFlight' = Client!InFlight \ {c}
    BY <1>1, <1>2, FlightIs DEF CallStates
  <1>4. CASE client.guarded
    <2>1. clientBreaker \in Breakers /\ Probing(clientBreaker) /\ LetIn(clientBreaker, Client!InFlight, late)
      BY <1>4 DEF ProbeInv
    <2>2. b \in Breakers /\ Probing(b) /\ LetIn(b, Client!InFlight, late)
      BY <2>1, CurrentIs
    <2>3. /\ r = "ok" => clientBreaker' = Client!Succeeded(b, c)
          /\ r = "error" => clientBreaker' = Client!Failed(b, c, Client!ReadyToTrip(Client!Counted(b, c)))
          /\ late' = IF clientBreaker'.state = "open" /\ b.state # "open"
                     THEN Client!InFlight \ {c} ELSE late
      BY <1>4 DEF Client!Return, Client!AfterRequest
    <2> HIDE DEF b
    <2>4. /\ clientBreaker' \in Breakers /\ Probing(clientBreaker')
          /\ \/ clientBreaker'.state = "open" /\ b.state # "open" /\ clientBreaker'.inside = {}
             \/ LetIn(clientBreaker', Client!InFlight \ {c}, late)
      <3>1. CASE r = "ok"
        BY <2>2, <2>3, <3>1, SucceededIs
      <3>2. CASE r = "error"
        <4> DEFINE trips == Client!ReadyToTrip(Client!Counted(b, c))
        <4>1. clientBreaker' = Client!Failed(b, c, trips)
          BY <2>3, <3>2
        <4> HIDE DEF trips
        <4> QED
          BY <2>2, <4>1, FailedIs
      <3> QED
        BY <3>1, <3>2
    <2>5. LetIn(clientBreaker', Client!InFlight \ {c}, late')
      <3>1. CASE clientBreaker'.state = "open" /\ b.state # "open"
        <4>1. late' = Client!InFlight \ {c}
          BY <2>3, <3>1
        <4> QED
          BY <4>1 DEF LetIn
      <3>2. CASE ~(clientBreaker'.state = "open" /\ b.state # "open")
        <4>1. late' = late
          BY <2>3, <3>2
        <4> QED
          BY <2>4, <3>2, <4>1
      <3> QED
        BY <3>1, <3>2
    <2> QED
      BY <1>1, <1>2, <1>3, <2>4, <2>5 DEF ProbeInv
  <1> QED
    BY <1>1, <1>2, <1>3, <1>4 DEF ProbeInv

LEMMA ProbeNext == ProbeBounds /\ ProbeInv /\ [Client!Next]_Client!vars => ProbeInv'
  <1> SUFFICES ASSUME ProbeBounds, ProbeInv, [Client!Next]_Client!vars
               PROVE  ProbeInv'
    OBVIOUS
  <1>1. CASE UNCHANGED <<client, clientBreaker, callPC, late>>
    BY <1>1 DEF ProbeInv, Client!InFlight
  <1>2. CASE Client!Expire
    <2>1. /\ client.guarded /\ clientBreaker.state \in {"open", "closed"}
          /\ clientBreaker' = [clientBreaker EXCEPT !.due = TRUE] /\ UNCHANGED <<client, callPC, late>>
      BY <1>2 DEF Client!Expire, Client!Ticks
    <2>2. clientBreaker \in Breakers /\ Probing(clientBreaker) /\ LetIn(clientBreaker, Client!InFlight, late)
      BY <2>1 DEF ProbeInv
    <2>3. /\ clientBreaker' \in Breakers /\ clientBreaker'.state = clientBreaker.state
          /\ clientBreaker'.inside = clientBreaker.inside
      BY <2>1, <2>2 DEF Breakers, Client!Breaker
    <2>4. Probing(clientBreaker')
      BY <2>1, <2>2, <2>3 DEF Probing
    <2>5. Client!InFlight' = Client!InFlight
      BY <2>1 DEF Client!InFlight
    <2> QED
      BY <2>1, <2>2, <2>3, <2>4, <2>5 DEF ProbeInv, LetIn
  <1>3. ASSUME NEW c \in Client!Calls, Client!Break(c) \/ Client!Retry(c)
        PROVE  ProbeInv'
    <2>1. /\ callPC[c] \in {"sent", "backoff"} /\ UNCHANGED <<client, clientBreaker, late>>
          /\ \E to \in {"sent", "backoff"} : callPC' = [callPC EXCEPT ![c] = to]
      BY <1>3 DEF Client!Break, Client!Retry, Client!Send
    <2>2. Client!InFlight' = Client!InFlight \cup {c} /\ callPC' \in [Client!Calls -> CallStates]
      BY <2>1, FlightIs DEF ProbeInv, CallStates
    <2>3. Client!InFlight' = Client!InFlight
      BY <2>1, <2>2 DEF Client!InFlight
    <2> QED
      BY <2>1, <2>2, <2>3 DEF ProbeInv
  <1>4. ASSUME NEW c \in Client!Calls, NEW r \in {"ok", "error"}, Client!Return(c, r)
        PROVE  ProbeInv'
    BY <1>4, ProbeReturns
  <1>5. CASE Client!Next
    <2>1. ASSUME NEW c \in Client!Calls,
                 \/ Client!Enter(c) \/ Client!Refuse(c)
                 \/ \E a \in 1..MaxRetries : Client!Execute(c, a)
                 \/ \E r \in {"ok", "error"} : Client!Answer(c, r)
                 \/ Client!Break(c) \/ Client!GiveUp(c) \/ Client!Retry(c)
                 \/ Client!Deadline(c) \/ Client!Cancel(c)
          PROVE  ProbeInv'
      <3>1. CASE Client!Enter(c) \/ Client!Refuse(c)
        BY <3>1, ProbeEnters
      <3>2. CASE \E a \in 1..MaxRetries : Client!Execute(c, a)
        BY <1>1, <3>2 DEF Client!Execute
      <3>3. CASE Client!Break(c) \/ Client!Retry(c)
        BY <1>3, <3>3
      <3>4. CASE \/ \E r \in {"ok", "error"} : Client!Answer(c, r)
                 \/ Client!GiveUp(c) \/ Client!Deadline(c) \/ Client!Cancel(c)
        BY <1>4, <3>4 DEF Client!Answer, Client!GiveUp, Client!Deadline, Client!Cancel
      <3> QED
        BY <2>1, <3>1, <3>2, <3>3, <3>4
    <2> QED
      BY <1>2, <1>5, <2>1 DEF Client!Next
  <1> QED
    BY <1>1, <1>5 DEF Client!vars

\* For every number of probes and of calls at a time: while a client's breaker
\* is open or half open no more than MaxProbes calls are in flight but those
\* that were when it opened, whatever answers come late (clients.go,
\* circuitBreakerInterceptor).
THEOREM ProbesAreBounded ==
    ASSUME MaxCalls \in Nat, MaxProbes \in Nat
    PROVE  Client!Spec => []ProbesBounded
  <1>1. ProbeBounds
    BY DEF ProbeBounds
  <1>2. Client!Init => ProbeInv
    <2> SUFFICES ASSUME Client!Init
                 PROVE  ProbeInv
      OBVIOUS
    <2>1. clientBreaker = Client!NewGeneration("closed")
      BY DEF Client!Init, Client!Closed
    <2>2. clientBreaker \in Breakers /\ clientBreaker.state = "closed"
      BY <2>1, NewGenerationIs
    <2>3. client \in Clients /\ callPC \in [Client!Calls -> CallStates]
      BY DEF Client!Init, Clients, CallStates
    <2> QED
      BY <2>2, <2>3 DEF ProbeInv, Probing, LetIn
  <1>3. ProbeInv => ProbesBounded
    <2> SUFFICES ASSUME ProbeInv, client.guarded, clientBreaker.state # "closed"
                 PROVE  Client!Cardinality(Client!InFlight \ late) <= MaxProbes
      BY DEF ProbesBounded, Client!ProbesBounded
    <2>1. clientBreaker \in Breakers /\ Probing(clientBreaker) /\ Client!InFlight \ late \subseteq clientBreaker.inside
      BY DEF ProbeInv, LetIn
    <2>2. /\ IsFiniteSet(clientBreaker.inside) /\ Cardinality(clientBreaker.inside) \in Nat
          /\ clientBreaker.requests \in Nat
          /\ clientBreaker.state \in {"open", "half-open"}
      BY <1>1, <2>1, BreakerFields, CallsFinite
    <2>3. Cardinality(clientBreaker.inside) <= MaxProbes
      <3>1. CASE clientBreaker.state = "open"
        BY <1>1, <2>1, <3>1, FS_EmptySet DEF Probing, ProbeBounds
      <3>2. CASE clientBreaker.state = "half-open"
        <4>1. Cardinality(clientBreaker.inside) <= clientBreaker.requests /\ clientBreaker.requests <= MaxProbes
          BY <2>1, <3>2 DEF Probing
        <4> QED
          BY <1>1, <2>2, <4>1 DEF ProbeBounds
      <3> QED
        BY <2>2, <3>1, <3>2
    <2>4. /\ Cardinality(Client!InFlight \ late) <= Cardinality(clientBreaker.inside)
          /\ Cardinality(Client!InFlight \ late) \in Nat
      BY <2>1, <2>2, FS_Subset, FS_CardinalityType
    <2>5. Cardinality(Client!InFlight \ late) <= MaxProbes
      BY <1>1, <2>2, <2>3, <2>4 DEF ProbeBounds
    <2> QED
      BY <2>5, ClientCardinality
  <1> QED
    BY <1>1, <1>2, <1>3, ProbeNext, PTL DEF Client!Spec

-----------------------------------------------------------------------------
(* The write-ahead log *)

LogRecords == [lsn : Nat, entry : Entries \cup {Torn}]

LogTypes ==
    /\ lsn \in Nat /\ log \in Seq(LogRecords) /\ synced \in 0..Len(log)
    /\ appender \in [Appenders -> [pc : {"idle", "write", "sync"}, lsn : Nat,
                                   entry : Entries \cup {NoEntry}]]
    /\ \A a \in Appenders : appender[a].pc # "idle" => appender[a].entry \in Entries
    /\ truncator \in [Truncators -> [pc : {"idle", "captured", "rewrite"}, upTo : Nat,
                                     kept : Seq(LogRecords)]]

LEMMA LogKept == ASSUME NEW s, NEW S PROVE Log!Kept(s, S) = Kept(s, S)
BY Zenon DEF Log!Kept, Kept

LEMMA TailOf ==
    ASSUME NEW T, NEW s \in Seq(T), NEW n \in 0..Len(s)
    PROVE  /\ SubSeq(s, n + 1, Len(s)) \in Seq(T)
           /\ Len(SubSeq(s, n + 1, Len(s))) = Len(s) - n
           /\ \A i \in 1..(Len(s) - n) : SubSeq(s, n + 1, Len(s))[i] = s[n + i]
OBVIOUS

\* What NewWAL makes of the file is a beginning of it, without what was cut short.
LEMMA LogReadableIsPrefix ==
    ASSUME NEW file \in Seq(LogRecords)
    PROVE  /\ \E n \in 0..Len(file) : Log!Readable(file) = SubSeq(file, 1, n)
           /\ Log!Readable(file) \in Seq(LogRecords)
  <1> DEFINE torn == {i \in DOMAIN file : file[i].entry = Torn}
             m == CHOOSE i \in torn : \A j \in torn : i <= j
  <1>1. Log!Readable(file) = IF torn = {} THEN file ELSE SubSeq(file, 1, m - 1)
    BY DEF Log!Readable
  <1>2. DOMAIN file = 1..Len(file) /\ Len(file) \in Nat
    OBVIOUS
  <1>3. CASE torn = {}
    <2>1. file = SubSeq(file, 1, Len(file)) /\ Len(file) \in 0..Len(file)
      OBVIOUS
    <2> QED
      BY <1>1, <1>3, <2>1
  <1>4. CASE torn # {}
    <2>1. m \in torn
      <3>1. torn \in SUBSET Nat
        BY <1>2
      <3>2. \E i \in torn : \A j \in torn : i <= j
        BY <1>4, <3>1, LeastNumber
      <3> QED
        BY <3>2
    <2>2. m - 1 \in 0..Len(file)
      BY <1>2, <2>1
    <2>3. Log!Readable(file) = SubSeq(file, 1, m - 1)
      BY <1>1, <1>4
    <2> HIDE DEF m, torn
    <2>4. SubSeq(file, 1, m - 1) \in Seq(LogRecords)
      BY <2>2
    <2> QED
      BY <2>2, <2>3, <2>4
  <1> QED
    BY <1>3, <1>4

LEMMA LogCleanIsPrefix ==
    ASSUME Log!AloneAssumption, NEW file \in Seq(LogRecords)
    PROVE  \E n \in 0..Len(file) : Log!Clean(file) = SubSeq(file, 1, n)
  <1> DEFINE r == Log!Readable(file)
             k == IF Len(r) < BufferRecords THEN Len(r) ELSE BufferRecords
  <1>1. PICK n \in 0..Len(file) : r = SubSeq(file, 1, n)
    BY LogReadableIsPrefix
  <1>2. Len(r) = n /\ n \in Nat
    BY <1>1
  <1>3. k \in 0..n
    BY <1>2 DEF Log!AloneAssumption
  <1>4. Log!Clean(file) = SubSeq(r, 1, k)
    BY DEF Log!Clean
  <1> HIDE DEF r, k
  <1>5. SubSeq(r, 1, k) = SubSeq(file, 1, k)
    BY <1>1, <1>3
  <1> QED
    BY <1>3, <1>4, <1>5

\* Replay and Truncate find what their buffer holds, and leave out what they
\* like of the rest.
LEMMA LogReadingsHold ==
    ASSUME Log!AloneAssumption, NEW file \in Seq(LogRecords), NEW reading \in Log!Readings(file)
    PROVE  /\ reading \in Seq(LogRecords)
           /\ Log!Range(Log!Clean(file)) \subseteq Log!Range(reading)
  <1> DEFINE clean == Log!Clean(file)
             rest == SubSeq(file, Len(clean) + 1, Len(file))
  <1>1. PICK n \in 0..Len(file) : clean = SubSeq(file, 1, n)
    BY LogCleanIsPrefix
  <1>2. /\ Len(clean) = n /\ n \in Nat /\ clean \in Seq(LogRecords) /\ DOMAIN clean = 1..n
        /\ \A i \in 1..n : clean[i] = file[i] /\ i \in DOMAIN file
    BY <1>1
  <1>3. rest \in Seq(LogRecords)
    <2>1. rest = SubSeq(file, n + 1, Len(file))
      BY <1>2
    <2> QED
      BY <2>1, TailOf
  <1>4. \/ rest = <<>> /\ reading = file
        \/ /\ rest # <<>>
           /\ \E r \in {rest} \cup Log!Misread(rest) : \E S : reading = clean \o Log!Kept(r, S)
    BY DEF Log!Readings
  <1> HIDE DEF clean, rest
  <1>5. CASE rest = <<>> /\ reading = file
    <2>1. \A i \in DOMAIN clean : i \in DOMAIN reading /\ reading[i] = clean[i]
      BY <1>2, <1>5
    <2> QED
      BY <1>5, <2>1 DEF Log!Range, clean
  <1>6. ASSUME rest # <<>>, NEW r \in {rest} \cup Log!Misread(rest), NEW S,
               reading = clean \o Log!Kept(r, S)
        PROVE  /\ reading \in Seq(LogRecords)
               /\ Log!Range(clean) \subseteq Log!Range(reading)
    <2>1. r \in Seq(LogRecords)
      <3>1. CASE r \in Log!Misread(rest)
        <4>1. PICK m \in ScrapLSNs \cup {rest[1].lsn} :
                r = <<[lsn |-> m, entry |-> Torn]>> \o Tail(rest)
          BY <3>1 DEF Log!Misread
        <4>2. rest[1] \in LogRecords
          BY <1>3, <1>6
        <4>3. m \in Nat
          BY <4>2 DEF Log!AloneAssumption, LogRecords
        <4> DEFINE first == [lsn |-> m, entry |-> Torn]
        <4>4. first \in LogRecords
          BY <4>3 DEF LogRecords
        <4>5. r = <<first>> \o Tail(rest)
          BY <4>1
        <4> HIDE DEF first
        <4>6. Tail(rest) \in Seq(LogRecords)
          BY <1>3, <1>6
        <4> QED
          BY <4>4, <4>5, <4>6
      <3> QED
        BY <1>3, <1>6, <3>1
    <2> DEFINE k == Log!Kept(r, S)
    <2>2. k \in Seq(LogRecords)
      BY <2>1, LogKept, KeptOf
    <2>3. reading = clean \o k
      BY <1>6
    <2> HIDE DEF k
    <2>4. reading \in Seq(LogRecords)
      BY <1>2, <2>2, <2>3
    <2>5. \A i \in DOMAIN clean : i \in DOMAIN reading /\ reading[i] = clean[i]
      BY <1>2, <2>2, <2>3
    <2> QED
      BY <2>4, <2>5 DEF Log!Range
  <1>7. Log!Range(clean) = Log!Range(Log!Clean(file))
    BY DEF clean
  <1> QED
    BY <1>4, <1>5, <1>6, <1>7

LEMMA LogLastOfType ==
    ASSUME NEW file \in Seq(LogRecords)
    PROVE  Log!LastOf(file) \in Nat /\ Log!LastLSNs(file) \subseteq Nat
  <1>1. ASSUME NEW f \in Seq(LogRecords)
        PROVE  Log!LastOf(f) \in Nat
    <2>1. f # <<>> => f[Len(f)] \in LogRecords
      OBVIOUS
    <2> QED
      BY <2>1 DEF Log!LastOf, LogRecords
  <1>2. PICK n \in 0..Len(file) : Log!Readable(file) = SubSeq(file, 1, n)
    BY LogReadableIsPrefix
  <1>3. Log!Readable(file) \in Seq(LogRecords) /\ Len(Log!Readable(file)) = n
    BY <1>2, LogReadableIsPrefix
  <1>4. \A i \in (n + 1)..Len(file) : file[i].lsn \in Nat
    <2>1. TAKE i \in (n + 1)..Len(file)
    <2>2. file[i] \in LogRecords
      BY <1>2
    <2> QED
      BY <2>2 DEF LogRecords
  <1> QED
    BY <1>1, <1>3, <1>4 DEF Log!LastLSNs

\* What a write, cut short or not, leaves behind the first n records.
LEMMA LogBeginningsAre ==
    ASSUME NEW file \in Seq(LogRecords), NEW n \in 0..Len(file), NEW left \in Log!Beginnings(file, n)
    PROVE  /\ left \in Seq(LogRecords) /\ Len(left) >= n
           /\ \E m \in n..Len(file) :
                \/ left = SubSeq(file, 1, m)
                \/ /\ m < Len(file)
                   /\ left = Append(SubSeq(file, 1, m), [lsn |-> file[m + 1].lsn, entry |-> Torn])
  <1>1. Len(file) \in Nat /\ n \in Nat
    OBVIOUS
  <1>2. PICK m \in n..Len(file) :
            \/ left = SubSeq(file, 1, m)
            \/ /\ m < Len(file)
               /\ left = Append(SubSeq(file, 1, m), [lsn |-> file[m + 1].lsn, entry |-> Torn])
    <2>1. \/ \E m \in n..Len(file) : left = SubSeq(file, 1, m)
          \/ \E m \in n..(Len(file) - 1) :
                left = Append(SubSeq(file, 1, m), [lsn |-> file[m + 1].lsn, entry |-> Torn])
      BY DEF Log!Beginnings
    <2>2. n..(Len(file) - 1) \subseteq n..Len(file) /\ \A m \in n..(Len(file) - 1) : m < Len(file)
      BY <1>1
    <2> QED
      BY <2>1, <2>2
  <1>3. SubSeq(file, 1, m) \in Seq(LogRecords) /\ Len(SubSeq(file, 1, m)) = m
    BY <1>1
  <1>4. CASE left = SubSeq(file, 1, m)
    BY <1>1, <1>2, <1>3, <1>4
  <1>5. CASE /\ m < Len(file)
             /\ left = Append(SubSeq(file, 1, m), [lsn |-> file[m + 1].lsn, entry |-> Torn])
    <2> DEFINE torn == [lsn |-> file[m + 1].lsn, entry |-> Torn]
    <2>1. file[m + 1] \in LogRecords
      BY <1>1, <1>5
    <2>2. torn \in LogRecords
      BY <2>1 DEF LogRecords
    <2> HIDE DEF torn
    <2>3. left = Append(SubSeq(file, 1, m), torn)
      BY <1>5 DEF torn
    <2>4. left \in Seq(LogRecords) /\ Len(left) = m + 1
      BY <1>3, <2>2, <2>3
    <2>5. Len(left) >= n
      BY <1>1, <2>4
    <2> QED
      BY <1>2, <2>4, <2>5
  <1> QED
    BY <1>2, <1>4, <1>5

LEMMA BeginningsKeep ==
    ASSUME NEW file \in Seq(LogRecords), NEW n \in 0..Len(file),
           NEW left \in Log!Beginnings(file, n)
    PROVE  \A i \in 1..n : left[i] = file[i]
  <1>1. PICK m \in n..Len(file) :
            \/ left = SubSeq(file, 1, m)
            \/ \E e : left = Append(SubSeq(file, 1, m), e)
    <2>1. PICK m \in n..Len(file) :
            \/ left = SubSeq(file, 1, m)
            \/ /\ m < Len(file)
               /\ left = Append(SubSeq(file, 1, m), [lsn |-> file[m + 1].lsn, entry |-> Torn])
      BY LogBeginningsAre
    <2> QED
      BY <2>1, Zenon
  <1>2. /\ n \in Nat /\ m \in Nat /\ n <= m /\ Len(SubSeq(file, 1, m)) = m
        /\ \A i \in 1..m : SubSeq(file, 1, m)[i] = file[i]
    BY <1>1
  <1>3. CASE left = SubSeq(file, 1, m)
    BY <1>2, <1>3
  <1>4. ASSUME NEW e, left = Append(SubSeq(file, 1, m), e)
        PROVE  \A i \in 1..n : left[i] = file[i]
    <2> DEFINE part == SubSeq(file, 1, m)
    <2>1. part \in Seq(LogRecords)
      BY <1>1, <1>2
    <2>2. Len(part) = m /\ \A i \in 1..m : part[i] = file[i]
      BY <1>2
    <2>3. left = Append(part, e)
      BY <1>4
    <2> HIDE DEF part
    <2>4. \A i \in 1..m : left[i] = part[i]
      BY <2>1, <2>2, <2>3
    <2> QED
      BY <1>2, <2>2, <2>4
  <1> QED
    BY <1>1, <1>3, <1>4

LEMMA LogNewRecordType ==
    ASSUME LogTypes, NEW a \in Appenders, appender[a].pc # "idle"
    PROVE  Log!NewRecord(a) \in LogRecords
  <1>1. appender[a].lsn \in Nat /\ appender[a].entry \in Entries
    BY DEF LogTypes
  <1> QED
    BY <1>1 DEF LogRecords, Log!NewRecord

\* A record is added, or not.
LEMMA LogWriteTypes ==
    ASSUME LogTypes, NEW a \in Appenders, Log!AppendStep(a) \/ Log!WriteFails(a)
    PROVE  LogTypes' /\ UNCHANGED <<lsn, truncator>>
  <1>1. CASE Log!Write(a)
    <2>1. appender[a].entry \in Entries /\ Log!NewRecord(a) \in LogRecords
      BY <1>1, LogNewRecordType DEF LogTypes, Log!Write
    <2>3. log' \in Seq(LogRecords) /\ Len(log') = Len(log) + 1
      BY <1>1, <2>1 DEF LogTypes, Log!Write
    <2>4. UNCHANGED <<lsn, synced, truncator>>
      BY <1>1 DEF Log!Write
    <2>5. PICK sync \in Log!ShouldSync(pending + 1) :
            appender' = [appender EXCEPT ![a] =
                            IF sync THEN [@ EXCEPT !.pc = "sync"] ELSE Log!NoAppend]
      BY <1>1 DEF Log!Write
    <2>6. /\ appender' \in [Appenders -> [pc : {"idle", "write", "sync"}, lsn : Nat,
                                          entry : Entries \cup {NoEntry}]]
          /\ \A b \in Appenders : appender'[b].pc # "idle" => appender'[b].entry \in Entries
      <3>0. appender[a] \in
                [pc : {"idle", "write", "sync"}, lsn : Nat, entry : Entries \cup {NoEntry}]
        BY DEF LogTypes
      <3>1. [appender[a] EXCEPT !.pc = "sync"] \in
                [pc : {"idle", "write", "sync"}, lsn : Nat, entry : Entries \cup {NoEntry}]
        BY <3>0
      <3>2. [appender[a] EXCEPT !.pc = "sync"].entry \in Entries
        BY <2>1, <3>0
      <3>3. Log!NoAppend \in [pc : {"idle", "write", "sync"}, lsn : Nat,
                          entry : Entries \cup {NoEntry}] /\ Log!NoAppend.pc = "idle"
        BY DEF Log!NoAppend
      <3>4. PICK v : /\ appender' = [appender EXCEPT ![a] = v]
                     /\ v \in {[appender[a] EXCEPT !.pc = "sync"], Log!NoAppend}
        BY <2>5
      <3> QED
        BY <3>1, <3>2, <3>3, <3>4 DEF LogTypes
    <2>7. synced' \in 0..Len(log')
      BY <2>3, <2>4 DEF LogTypes
    <2> QED
      BY <2>3, <2>4, <2>6, <2>7 DEF LogTypes
  <1>2. CASE Log!Sync(a)
    <2>1. UNCHANGED <<lsn, log, truncator>> /\ synced' \in {Len(log), synced}
      BY <1>2 DEF Log!Sync
    <2>2. synced' \in 0..Len(log')
      BY <2>1 DEF LogTypes
    <2>3. appender' = [appender EXCEPT ![a] = Log!NoAppend]
      BY <1>2 DEF Log!Sync
    <2> QED
      BY <2>1, <2>2, <2>3 DEF LogTypes, Log!NoAppend
  <1>3. CASE Log!WriteFails(a)
    <2>1. /\ UNCHANGED <<lsn, synced, truncator>>
          /\ appender' = [appender EXCEPT ![a] = Log!NoAppend]
      BY <1>3 DEF Log!WriteFails
    <2>2. log' = log \/ log' \in Log!Beginnings(Append(log, Log!NewRecord(a)), Len(log))
      BY <1>3 DEF Log!WriteFails
    <2>3. log' \in Seq(LogRecords) /\ Len(log') >= Len(log)
      <3>1. CASE log' = log
        BY <3>1 DEF LogTypes
      <3>2. CASE log' \in Log!Beginnings(Append(log, Log!NewRecord(a)), Len(log))
        <4>1. Log!NewRecord(a) \in LogRecords /\ log \in Seq(LogRecords)
          BY <1>3, LogNewRecordType DEF Log!WriteFails, LogTypes
        <4>2. Append(log, Log!NewRecord(a)) \in Seq(LogRecords)
              /\ Len(log) \in 0..Len(Append(log, Log!NewRecord(a)))
          BY <4>1
        <4> QED
          BY <3>2, <4>2, LogBeginningsAre
      <3> QED
        BY <2>2, <3>1, <3>2
    <2>4. synced' \in 0..Len(log')
      BY <2>1, <2>3 DEF LogTypes
    <2> QED
      BY <2>1, <2>3, <2>4 DEF LogTypes, Log!NoAppend
  <1> QED
    BY <1>1, <1>2, <1>3 DEF Log!AppendStep

Cuts(t) ==
    \/ Log!SnapshotLSN(t) \/ Log!Truncate(t) \/ Log!FlushPart(t) \/ Log!Rewrite(t)
    \/ Log!TruncateRefused(t) \/ Log!RewriteFails(t) \/ Log!ReopenFails(t)

\* What is cut.
LEMMA LogCutTypes ==
    ASSUME Log!AloneAssumption, LogTypes, NEW t \in Truncators, Cuts(t)
    PROVE  LogTypes' /\ \A u \in Truncators \ {t} : truncator'[u] = truncator[u]
  <1> DEFINE Cut == [pc : {"idle", "captured", "rewrite"}, upTo : Nat, kept : Seq(LogRecords)]
  <1>0. /\ lsn \in Nat /\ log \in Seq(LogRecords) /\ synced \in 0..Len(log)
        /\ truncator \in [Truncators -> Cut] /\ truncator[t] \in Cut
    BY DEF LogTypes
  <1>1. Log!NoTruncation \in Cut
    BY DEF Log!NoTruncation
  <1>2. ASSUME NEW v \in Cut, truncator' = [truncator EXCEPT ![t] = v]
        PROVE  /\ truncator' \in [Truncators -> Cut] /\ truncator'[t] = v
               /\ \A u \in Truncators \ {t} : truncator'[u] = truncator[u]
    BY <1>0, <1>2
  <1>3. CASE Log!SnapshotLSN(t)
    <2> DEFINE c == truncator[t]
               v == [c EXCEPT !.pc = "captured", !.upTo = lsn]
    <2>1. UNCHANGED <<lsn, log, synced, appender>> /\ truncator' = [truncator EXCEPT ![t] = v]
      BY <1>0, <1>3 DEF Log!SnapshotLSN
    <2>2. v \in Cut /\ v.pc = "captured"
      <3>1. c \in Cut
        BY <1>0
      <3> HIDE DEF c
      <3> QED
        BY <1>0, <3>1
    <2> HIDE DEF v
    <2>3. LogTypes
      OBVIOUS
    <2> QED
      BY <1>2, <2>1, <2>2, <2>3 DEF LogTypes
  <1>4. CASE Log!Truncate(t)
    <2>1. PICK reading \in Log!Readings(log) :
            truncator' = [truncator EXCEPT ![t].pc = "rewrite",
                                ![t].kept = Log!NewerThan(reading, truncator[t].upTo)]
      BY <1>4 DEF Log!Truncate
    <2> DEFINE kept == Log!NewerThan(reading, truncator[t].upTo)
               c == truncator[t]
               v == [c EXCEPT !.pc = "rewrite", !.kept = kept]
    <2>2. kept \in Seq(LogRecords)
      BY <1>0, LogReadingsHold, LogKept, KeptOf DEF Log!NewerThan
    <2>3. log' = <<>> /\ synced' = 0 /\ UNCHANGED <<lsn, appender>>
      BY <1>4 DEF Log!Truncate
    <2> HIDE DEF kept
    <2>4. truncator' = [truncator EXCEPT ![t] = v]
      BY <1>0, <2>1 DEF kept
    <2>5. v \in Cut
      <3>1. c \in Cut
        BY <1>0
      <3> HIDE DEF c
      <3> QED
        BY <2>2, <3>1
    <2> HIDE DEF v
    <2>6. log' \in Seq(LogRecords) /\ synced' \in 0..Len(log')
      BY <2>3
    <2> QED
      BY <1>2, <2>3, <2>4, <2>5, <2>6 DEF LogTypes
  <1>5. CASE Log!FlushPart(t)
    <2>1. /\ UNCHANGED <<lsn, synced, appender, truncator>> /\ log = <<>>
          /\ log' \in Log!Beginnings(truncator[t].kept, 0)
      BY <1>5 DEF Log!FlushPart
    <2>2. log' \in Seq(LogRecords)
      <3>1. truncator[t].kept \in Seq(LogRecords)
        BY <1>0
      <3>2. 0 \in 0..Len(truncator[t].kept)
        BY <3>1
      <3> QED
        BY <2>1, <3>1, <3>2, LogBeginningsAre
    <2>3. synced' \in 0..Len(log')
      BY <1>0, <2>1, <2>2
    <2> QED
      BY <2>1, <2>2, <2>3 DEF LogTypes
  <1>6. CASE Log!Rewrite(t) \/ Log!TruncateRefused(t) \/ Log!RewriteFails(t) \/ Log!ReopenFails(t)
    <2>1. truncator' = [truncator EXCEPT ![t] = Log!NoTruncation] /\ UNCHANGED appender
      BY <1>6 DEF Log!Rewrite, Log!TruncateRefused, Log!RewriteFails, Log!ReopenFails
    <2>2. truncator[t].kept \in Seq(LogRecords)
      BY <1>0
    <2>3. \/ log' = log /\ synced' = synced
          \/ log' = truncator[t].kept /\ synced' = Len(log')
      BY <1>6 DEF Log!Rewrite, Log!TruncateRefused, Log!RewriteFails, Log!ReopenFails
    <2>4. log' \in Seq(LogRecords) /\ synced' \in 0..Len(log')
      BY <1>0, <2>2, <2>3
    <2>5. lsn' \in Nat
      BY <1>0, <1>6, <2>4, LogLastOfType DEF Log!Rewrite, Log!TruncateRefused, Log!RewriteFails, Log!ReopenFails
    <2> QED
      BY <1>1, <1>2, <2>1, <2>4, <2>5 DEF LogTypes
  <1> QED
    BY <1>3, <1>4, <1>5, <1>6 DEF Cuts

LEMMA LogCrashTypes ==
    ASSUME LogTypes, Log!WALCrash \/ Log!PowerFails
    PROVE  LogTypes'
  <1>1. lsn' = lsn /\ log' \in Seq(LogRecords) /\ synced' \in 0..Len(log')
    <2>1. CASE Log!WALCrash
      BY <2>1 DEF Log!WALCrash, LogTypes
    <2>2. CASE Log!PowerFails
      <3>1. log' \in Log!Beginnings(log, synced) /\ synced' = Len(log') /\ lsn' = lsn
        BY <2>2 DEF Log!PowerFails
      <3>2. log' \in Seq(LogRecords)
        BY <3>1, LogBeginningsAre DEF LogTypes
      <3> QED
        BY <3>1, <3>2
    <2> QED
      BY <2>1, <2>2
  <1>2. /\ appender' = [a \in Appenders |-> Log!NoAppend]
        /\ truncator' = [t \in Truncators |-> Log!NoTruncation]
    BY DEF Log!WALCrash, Log!PowerFails
  <1>3. Log!NoTruncation \in [pc : {"idle", "captured", "rewrite"}, upTo : Nat, kept : Seq(LogRecords)]
    BY DEF Log!NoTruncation
  <1> QED
    BY <1>1, <1>2, <1>3 DEF LogTypes, Log!NoAppend

\* A process that is down has no call; while a file is written back none of it
\* is on disk for good, and nobody else has the mutex.
LogCalls ==
    /\ up \in BOOLEAN /\ appends \in Nat
    /\ ~up => /\ \A a \in Appenders : appender[a].pc = "idle"
              /\ \A t \in Truncators : truncator[t].pc = "idle"
    /\ \A t \in Truncators :
        /\ truncator[t].pc = "rewrite" => synced = 0
        /\ truncator[t].pc # "rewrite" => truncator[t].kept = <<>>
    /\ \A t, u \in Truncators :
            truncator[t].pc = "rewrite" /\ truncator[u].pc = "rewrite" => t = u
    /\ \A t \in Truncators, a \in Appenders :
            truncator[t].pc = "rewrite" => appender[a].pc # "sync"

LogInv == LogTypes /\ LogCalls

\* A truncator that is done.
Finishes(t) ==
    Log!Rewrite(t) \/ Log!TruncateRefused(t) \/ Log!RewriteFails(t) \/ Log!ReopenFails(t)

\* What each step does to a truncator.
LEMMA TruncatorSteps ==
    ASSUME LogTypes, NEW t \in Truncators
    PROVE  /\ Log!SnapshotLSN(t) => truncator'[t].pc = "captured" /\ truncator'[t].kept = truncator[t].kept
           /\ Log!Truncate(t) =>
                /\ truncator'[t].pc = "rewrite"
                /\ \E reading \in Log!Readings(log) :
                    truncator'[t].kept = Log!NewerThan(reading, truncator[t].upTo)
           /\ Log!FlushPart(t) => truncator' = truncator
           /\ Finishes(t) => truncator'[t].pc = "idle" /\ truncator'[t].kept = <<>>
  <1>1. Log!SnapshotLSN(t) => truncator'[t].pc = "captured" /\ truncator'[t].kept = truncator[t].kept
    BY DEF LogTypes, Log!SnapshotLSN
  <1>2. ASSUME Log!Truncate(t)
        PROVE  /\ truncator'[t].pc = "rewrite"
               /\ \E reading \in Log!Readings(log) :
                    truncator'[t].kept = Log!NewerThan(reading, truncator[t].upTo)
    <2>1. PICK reading \in Log!Readings(log) :
            truncator' = [truncator EXCEPT ![t].pc = "rewrite",
                                ![t].kept = Log!NewerThan(reading, truncator[t].upTo)]
      BY <1>2 DEF Log!Truncate
    <2>2. /\ truncator'[t].pc = "rewrite"
          /\ truncator'[t].kept = Log!NewerThan(reading, truncator[t].upTo)
      BY <2>1 DEF LogTypes
    <2> QED
      BY <2>2
  <1>3. Log!FlushPart(t) => truncator' = truncator
    BY DEF Log!FlushPart
  <1>4. Finishes(t) => truncator'[t].pc = "idle" /\ truncator'[t].kept = <<>>
    <2>1. Finishes(t) => truncator' = [truncator EXCEPT ![t] = Log!NoTruncation]
      BY DEF Finishes, Log!Rewrite, Log!TruncateRefused, Log!RewriteFails, Log!ReopenFails
    <2> QED
      BY <2>1 DEF LogTypes, Log!NoTruncation
  <1> QED
    BY <1>1, <1>2, <1>3, <1>4

LEMMA LogNext ==
    ASSUME Log!AloneAssumption, LogInv, [Log!Next]_Log!vars
    PROVE  LogInv'
  <1>1. LogTypes /\ LogCalls
    BY DEF LogInv
  <1>2. CASE UNCHANGED Log!vars
    <2>1. UNCHANGED <<lsn, log, synced, appender, truncator, up, appends>>
      BY <1>2 DEF Log!vars, Log!walVars
    <2> QED
      BY <1>1, <2>1 DEF LogInv, LogTypes, LogCalls
  <1>3. ASSUME NEW a \in Appenders, Log!AppendCalled(a)
        PROVE  LogInv'
    <2>1. /\ appends \in Nat /\ MaxAppends \in Nat /\ appends < MaxAppends /\ Entries = 1..MaxAppends
          /\ up /\ appends' = appends + 1 /\ up' = up
      BY <1>1, <1>3 DEF Log!AppendCalled, Log!AloneAssumption, LogCalls
    <2>2. appends + 1 \in Entries /\ appends' \in Nat
      BY <2>1
    <2>3. /\ lsn' = lsn + 1 /\ UNCHANGED <<log, synced, truncator>>
          /\ appender' = [appender EXCEPT ![a] =
                            [pc |-> "write", lsn |-> lsn + 1, entry |-> appends + 1]]
      BY <1>3 DEF Log!AppendCalled, Log!Reserve
    <2>4. LogTypes'
      BY <1>1, <2>2, <2>3 DEF LogTypes
    <2>5. \A b \in Appenders : appender'[b].pc = "sync" => appender[b].pc = "sync"
      BY <1>1, <2>3 DEF LogTypes
    <2> QED
      BY <1>1, <2>1, <2>2, <2>3, <2>4, <2>5 DEF LogInv, LogCalls
  <1>4. ASSUME NEW a \in Appenders, Log!AppendRuns(a)
        PROVE  LogInv'
    <2>1. (Log!AppendStep(a) \/ Log!WriteFails(a)) /\ UNCHANGED <<up, appends>>
      BY <1>4 DEF Log!AppendRuns
    <2>2. LogTypes' /\ UNCHANGED truncator
      BY <1>1, <2>1, LogWriteTypes
    <2>3. up
      BY <1>1, <2>1 DEF LogCalls, Log!AppendStep, Log!Write, Log!Sync, Log!WriteFails
    <2>4. \A b \in Appenders \ {a} : appender'[b] = appender[b]
      BY <1>1, <2>1 DEF LogTypes, Log!AppendStep, Log!Write, Log!Sync, Log!WriteFails
    <2>5. CASE Log!Sync(a)
      <3>1. \A t \in Truncators : truncator[t].pc # "rewrite"
        BY <1>1, <2>5 DEF LogCalls, Log!Sync
      <3> QED
        BY <1>1, <2>1, <2>2, <2>3, <3>1 DEF LogInv, LogCalls
    <2>6. CASE Log!Write(a) \/ Log!WriteFails(a)
      <3>1. \A t \in Truncators : truncator[t].pc # "rewrite"
        BY <2>6 DEF Log!Write, Log!WriteFails, Log!Unlocked
      <3> QED
        BY <1>1, <2>1, <2>2, <2>3, <3>1 DEF LogInv, LogCalls
    <2> QED
      BY <2>1, <2>5, <2>6 DEF Log!AppendStep
  <1>5. ASSUME NEW t \in Truncators, Log!TruncatorRuns(t)
        PROVE  LogInv'
    <2>1. up /\ up' = up /\ appends' = appends /\ Cuts(t)
      BY <1>5 DEF Log!TruncatorRuns, Cuts
    <2>2. LogTypes' /\ \A u \in Truncators \ {t} : truncator'[u] = truncator[u]
      BY <1>1, <2>1, LogCutTypes
    <2>3. appender' = appender
      BY <2>1 DEF Cuts, Log!SnapshotLSN, Log!Truncate, Log!FlushPart, Log!Rewrite,
                  Log!TruncateRefused, Log!RewriteFails, Log!ReopenFails
    <2>4. CASE Log!SnapshotLSN(t)
      <3>1. /\ truncator[t].pc = "idle" /\ truncator'[t].pc = "captured"
            /\ truncator'[t].kept = truncator[t].kept /\ synced' = synced
        BY <1>1, <2>4, TruncatorSteps DEF Log!SnapshotLSN
      <3> QED
        BY <1>1, <2>1, <2>2, <2>3, <3>1 DEF LogInv, LogCalls
    <2>5. CASE Log!Truncate(t)
      <3>1. /\ \A u \in Truncators : truncator[u].pc # "rewrite"
            /\ \A a \in Appenders : appender[a].pc # "sync"
            /\ truncator'[t].pc = "rewrite" /\ synced' = 0
        BY <1>1, <2>5, TruncatorSteps DEF Log!Truncate, Log!Unlocked
      <3> QED
        BY <1>1, <2>1, <2>2, <2>3, <3>1 DEF LogInv, LogCalls
    <2>6. CASE Log!FlushPart(t)
      <3>1. truncator' = truncator /\ synced' = synced
        BY <2>6 DEF Log!FlushPart
      <3> QED
        BY <1>1, <2>1, <2>2, <2>3, <3>1 DEF LogInv, LogCalls
    <2>7. CASE Log!TruncateRefused(t)
      <3>1. truncator'[t].pc = "idle" /\ truncator'[t].kept = <<>> /\ synced' = synced
        BY <1>1, <2>7, TruncatorSteps DEF Finishes, Log!TruncateRefused
      <3> QED
        BY <1>1, <2>1, <2>2, <2>3, <3>1 DEF LogInv, LogCalls
    <2>8. CASE Log!Rewrite(t) \/ Log!RewriteFails(t) \/ Log!ReopenFails(t)
      <3>1. truncator[t].pc = "rewrite" /\ truncator'[t].pc = "idle" /\ truncator'[t].kept = <<>>
        BY <1>1, <2>8, TruncatorSteps DEF Finishes, Log!Rewrite, Log!RewriteFails, Log!ReopenFails
      <3>2. \A u \in Truncators \ {t} : truncator[u].pc # "rewrite"
        BY <1>1, <3>1 DEF LogCalls
      <3> QED
        BY <1>1, <2>1, <2>2, <2>3, <3>1, <3>2 DEF LogInv, LogCalls
    <2> QED
      BY <2>1, <2>4, <2>5, <2>6, <2>7, <2>8 DEF Cuts
  <1>6. CASE Log!Crash
    <2>1. /\ Log!WALCrash \/ Log!PowerFails
          /\ up' = FALSE /\ appends' = appends
      BY <1>6 DEF Log!Crash
    <2>2. LogTypes'
      BY <1>1, <2>1, LogCrashTypes
    <2>3. /\ appender' = [a \in Appenders |-> Log!NoAppend]
          /\ truncator' = [t \in Truncators |-> Log!NoTruncation]
      BY <2>1 DEF Log!WALCrash, Log!PowerFails
    <2>4. /\ \A a \in Appenders : appender'[a].pc = "idle"
          /\ \A t \in Truncators : truncator'[t].pc = "idle" /\ truncator'[t].kept = <<>>
      BY <2>3 DEF Log!NoAppend, Log!NoTruncation
    <2> QED
      BY <1>1, <2>1, <2>2, <2>4 DEF LogInv, LogCalls
  <1>7. CASE Log!Restart
    <2>1. /\ lsn' \in Log!LastLSNs(log) \/ lsn' = 0
          /\ up' = TRUE /\ UNCHANGED <<log, synced, appender, truncator, appends>>
      BY <1>7 DEF Log!Restart, Log!Reopen
    <2>2. lsn' \in Nat
      BY <1>1, <2>1, LogLastOfType DEF LogTypes
    <2>3. LogTypes'
      BY <1>1, <2>1, <2>2 DEF LogTypes
    <2> QED
      BY <1>1, <2>1, <2>3 DEF LogInv, LogCalls
  <1> QED
    BY <1>2, <1>3, <1>4, <1>5, <1>6, <1>7 DEF Log!Next

LEMMA LogBegins == Log!Init => LogInv
  <1> SUFFICES ASSUME Log!Init
               PROVE  LogInv
    OBVIOUS
  <1>1. /\ lsn = 0 /\ log = <<>> /\ synced = 0 /\ up = TRUE /\ appends = 0
        /\ appender = [a \in Appenders |-> Log!NoAppend]
        /\ truncator = [t \in Truncators |-> Log!NoTruncation]
    BY DEF Log!Init, Log!WALInit
  <1>2. LogTypes
    BY <1>1 DEF LogTypes, Log!NoAppend, Log!NoTruncation
  <1>3. LogCalls
    BY <1>1 DEF LogCalls, Log!NoAppend, Log!NoTruncation
  <1> QED
    BY <1>2, <1>3 DEF LogInv

LossBounds ==
    Log!AloneAssumption /\ SyncMode = "bycount" /\ SyncEvery \in Nat \ {0}

Unsynced == Len(log) - synced

\* What earlier processes forgot to count, what failed to be synced and what a
\* write or a rewriting cut short has left.
Forgotten == crashes * SyncEvery + failures

LossInv ==
    /\ pending \in Nat /\ crashes \in Nat /\ failures \in Nat
    /\ ~Log!Rewriting =>
        /\ Unsynced <= pending + Forgotten
        /\ Unsynced <= Forgotten + SyncEvery
        /\ Log!Unlocked => Unsynced < Forgotten + SyncEvery
        /\ ~up => Unsynced <= Forgotten

LEMMA LossTypes ==
    ASSUME LossBounds, LogInv, LossInv
    PROVE  /\ Len(log) \in Nat /\ synced \in Nat /\ Unsynced \in Nat
           /\ pending \in Nat /\ failures \in Nat /\ crashes \in Nat
           /\ SyncEvery \in Nat /\ SyncEvery > 0 /\ Forgotten \in Nat
  <1>1. /\ Len(log) \in Nat /\ synced \in 0..Len(log) /\ crashes \in Nat /\ failures \in Nat
        /\ pending \in Nat /\ SyncEvery \in Nat \ {0}
    BY DEF LossBounds, LogInv, LogTypes, LossInv
  <1>2. crashes * SyncEvery \in Nat
    BY <1>1
  <1> QED
    BY <1>1, <1>2 DEF Unsynced, Forgotten

\* What one more crash makes of the product.
LEMMA OneMoreBatch ==
    ASSUME LossBounds, LogInv, LossInv
    PROVE  /\ crashes * SyncEvery \in Nat
           /\ (crashes + 1) * SyncEvery = crashes * SyncEvery + SyncEvery
  <1>1. crashes \in Nat /\ SyncEvery \in Nat
    BY LossTypes
  <1> QED
    BY <1>1

LEMMA Sums ==
    \A m, n \in Nat : m + n \in Nat /\ 0 <= m + n /\ 0 <= m /\ (n > 0 => 0 < m + n)
OBVIOUS

LEMMA Bounds ==
    \A u, f, p, n \in Nat : u <= f => u <= p + f /\ u <= f + n /\ (n > 0 => u < f + n)
OBVIOUS

LEMMA Included == \A m, f, u \in Nat : u <= m + (f + u)
OBVIOUS

LEMMA Products == \A m, n \in Nat : m * n \in Nat
OBVIOUS

\* Everything that is in the file is synced.
LEMMA NothingUnsynced ==
    ASSUME LossBounds, Unsynced' = 0, pending' \in Nat, crashes' \in Nat, failures' \in Nat
    PROVE  LossInv'
  <1>1. SyncEvery \in Nat /\ SyncEvery > 0
    BY DEF LossBounds
  <1>2. Forgotten' \in Nat
    <2>1. crashes' * SyncEvery \in Nat
      BY <1>1, Products
    <2> QED
      BY <2>1 DEF Forgotten
  <1>3. /\ 0 <= pending' + Forgotten' /\ 0 <= Forgotten' + SyncEvery
        /\ 0 < Forgotten' + SyncEvery /\ 0 <= Forgotten'
    BY <1>1, <1>2, Sums
  <1> QED
    BY <1>3 DEF LossInv

\* No more is unsynced than what is counted twice: among the pending records, and
\* among those forgotten.
LEMMA AllForgotten ==
    ASSUME LossBounds, LogInv', Unsynced' <= Forgotten', pending' \in Nat, crashes' \in Nat,
           failures' \in Nat
    PROVE  LossInv'
  <1>1. SyncEvery \in Nat /\ SyncEvery > 0
    BY DEF LossBounds
  <1>2. Forgotten' \in Nat
    <2>1. crashes' * SyncEvery \in Nat
      BY <1>1, Products
    <2> QED
      BY <2>1 DEF Forgotten
  <1>3. Unsynced' \in Nat
    BY DEF LogInv, LogTypes, Unsynced
  <1>4. /\ Unsynced' <= pending' + Forgotten' /\ Unsynced' <= Forgotten' + SyncEvery
        /\ Unsynced' < Forgotten' + SyncEvery
    BY <1>1, <1>2, <1>3, Bounds
  <1> QED
    BY <1>4 DEF LossInv

LEMMA LossAppends ==
    ASSUME LossBounds, LogInv, LogInv', LossInv, NEW a \in Appenders, Log!AppendRuns(a)
    PROVE  LossInv'
  <1>1. /\ UNCHANGED <<up, crashes, truncator>> /\ up
    BY DEF Log!AppendRuns, LogInv, LogCalls, Log!AppendStep, Log!Write, Log!Sync, Log!WriteFails
  <1>2. ~Log!Rewriting
    <2>1. Log!Unlocked \/ appender[a].pc = "sync"
      BY DEF Log!AppendRuns, Log!AppendStep, Log!Write, Log!Sync, Log!WriteFails
    <2> QED
      BY <2>1 DEF LogInv, LogCalls, Log!Unlocked, Log!Rewriting
  <1>3. /\ Unsynced <= pending + Forgotten /\ Unsynced <= Forgotten + SyncEvery
        /\ Log!Unlocked => Unsynced < Forgotten + SyncEvery
    BY <1>2 DEF LossInv
  <1>4. CASE Log!Write(a)
    <2>1. /\ appender[a].pc = "write" /\ Log!Unlocked /\ pending' = pending + 1 /\ synced' = synced
          /\ \E r : log' = Append(log, r)
      BY <1>4 DEF Log!Write
    <2>2. Len(log') = Len(log) + 1
      BY <2>1 DEF LogInv, LogTypes
    <2>3. failures' = failures
      BY <1>4, <2>2 DEF Log!AppendRuns, Log!Write, Log!WriteFails, LogInv, LogTypes
    <2>4. /\ Unsynced' = Unsynced + 1 /\ Forgotten' = Forgotten
      BY <1>1, <2>1, <2>2, <2>3, LossTypes DEF Unsynced, Forgotten
    <2>5. Log!Unlocked' => pending + 1 < SyncEvery
      <3>1. CASE pending + 1 >= SyncEvery
        <4>1. Log!ShouldSync(pending + 1) = {TRUE}
          BY <3>1 DEF Log!ShouldSync, LossBounds
        <4>2. appender' = [appender EXCEPT ![a] = [@ EXCEPT !.pc = "sync"]]
          BY <1>4, <4>1 DEF Log!Write
        <4>3. appender'[a].pc = "sync"
          BY <4>2 DEF LogInv, LogTypes
        <4> QED
          BY <4>3 DEF Log!Unlocked
      <3>2. CASE pending + 1 < SyncEvery
        BY <3>2
      <3> QED
        BY <3>1, <3>2, LossTypes
    <2>6. /\ Unsynced' <= pending' + Forgotten' /\ Unsynced' <= Forgotten' + SyncEvery
          /\ Log!Unlocked' => Unsynced' < Forgotten' + SyncEvery
      <3>1. /\ pending' = pending + 1 /\ pending \in Nat /\ Unsynced \in Nat
            /\ Forgotten \in Nat /\ SyncEvery \in Nat
        BY <2>1, LossTypes
      <3>2. Unsynced < Forgotten + SyncEvery
        BY <1>3, <2>1
      <3> QED
        BY <1>3, <2>4, <2>5, <3>1, <3>2
    <2> QED
      BY <1>1, <2>1, <2>3, <2>6, LossTypes DEF LossInv
  <1>5. CASE Log!Sync(a)
    <2>1. appender[a].pc = "sync" /\ log' = log
      BY <1>5 DEF Log!Sync
    <2>2. failures' = IF synced' < Len(log) THEN failures + 1 ELSE failures
      BY <2>1 DEF Log!AppendRuns, Log!WriteFails
    <2>3. CASE synced' = Len(log) /\ pending' \in Nat
      <3>1. Unsynced' = 0 /\ failures' = failures
        BY <2>1, <2>2, <2>3, LossTypes DEF Unsynced
      <3>2. failures' \in Nat /\ crashes' \in Nat /\ pending' \in Nat
        BY <1>1, <2>3, <3>1, LossTypes
      <3> QED
        BY <2>3, <3>1, <3>2, NothingUnsynced
    <2>4. CASE UNCHANGED <<synced, pending>> /\ synced # Len(log)
      <3>1. synced < Len(log)
        BY <2>4 DEF LogInv, LogTypes
      <3>2. failures' = failures + 1 /\ Unsynced' = Unsynced
        BY <2>1, <2>2, <2>4, <3>1 DEF Unsynced
      <3>3. Forgotten' = Forgotten + 1
        BY <1>1, <3>2, LossTypes DEF Forgotten
      <3>4. /\ failures' \in Nat /\ pending' = pending
            /\ pending \in Nat /\ Unsynced \in Nat /\ Forgotten \in Nat /\ SyncEvery \in Nat
        BY <2>4, <3>2, LossTypes
      <3>5. /\ Unsynced' <= pending' + Forgotten' /\ Unsynced' < Forgotten' + SyncEvery
            /\ Unsynced' <= Forgotten' + SyncEvery
        BY <1>3, <3>2, <3>3, <3>4
      <3> QED
        BY <1>1, <2>4, <3>4, <3>5, LossTypes DEF LossInv
    <2> QED
      BY <1>5, <2>3, <2>4, LossTypes DEF Log!Sync
  <1>6. CASE Log!WriteFails(a)
    <2>1. appender[a].pc = "write" /\ Log!Unlocked /\ UNCHANGED <<synced, pending>>
      BY <1>6 DEF Log!WriteFails
    <2>2. failures' = failures + Len(log') - Len(log) /\ Len(log') >= Len(log)
      <3>1. Len(log') >= Len(log)
        <4>1. \/ log' = log
              \/ log' \in Log!Beginnings(Append(log, Log!NewRecord(a)), Len(log))
          BY <1>6 DEF Log!WriteFails
        <4>2. log \in Seq(LogRecords) /\ Log!NewRecord(a) \in LogRecords
          BY <2>1, LogNewRecordType DEF LogInv, LogTypes
        <4> DEFINE all == Append(log, Log!NewRecord(a))
                   n == Len(log)
        <4>3. all \in Seq(LogRecords) /\ n \in 0..Len(all) /\ n \in Nat
          BY <4>2
        <4> HIDE DEF all
        <4>4. CASE log' = log
          BY <4>3, <4>4
        <4>5. CASE log' \in Log!Beginnings(all, n)
          <5> HIDE DEF n
          <5>1. Len(log') >= n
            BY <4>3, <4>5, LogBeginningsAre
          <5> QED
            BY <5>1 DEF n
        <4> QED
          BY <4>1, <4>4, <4>5 DEF all
      <3>2. ~Log!AppendStep(a) \/ failures' = failures + Len(log') - Len(log)
        <4>1. CASE Log!Write(a)
          <5>1. log' = Append(log, Log!NewRecord(a)) /\ ~broken
            BY <4>1 DEF Log!Write
          <5> QED
            BY <1>6, <5>1 DEF Log!WriteFails
        <4>2. ~Log!Sync(a)
          BY <2>1 DEF Log!Sync
        <4> QED
          BY <4>1, <4>2 DEF Log!AppendStep
      <3> QED
        BY <3>1, <3>2 DEF Log!AppendRuns
    <2> DEFINE more == Len(log') - Len(log)
    <2>3. /\ more \in Nat /\ failures' = failures + more /\ failures' \in Nat
          /\ Unsynced' = Unsynced + more
      <3>1. Len(log) \in Nat /\ Len(log') \in Nat /\ failures \in Nat /\ synced \in Nat
        BY LossTypes DEF LogInv, LogTypes
      <3> QED
        BY <2>1, <2>2, <3>1 DEF Unsynced
    <2> HIDE DEF more
    <2>4. Forgotten' = Forgotten + more
      <3> DEFINE was == crashes * SyncEvery
      <3>1. was \in Nat /\ failures \in Nat /\ crashes' = crashes
        BY <1>1, LossTypes, OneMoreBatch
      <3>2. Forgotten' = was + (failures + more) /\ Forgotten = was + failures
        BY <2>3, <3>1 DEF Forgotten
      <3> HIDE DEF was
      <3> QED
        BY <2>3, <3>1, <3>2
    <2>5. /\ Unsynced' <= pending' + Forgotten' /\ Unsynced' <= Forgotten' + SyncEvery
          /\ Unsynced' < Forgotten' + SyncEvery
      <3>1. /\ pending' = pending /\ pending \in Nat /\ Unsynced \in Nat
            /\ Forgotten \in Nat /\ SyncEvery \in Nat
        BY <2>1, LossTypes
      <3>2. Unsynced < Forgotten + SyncEvery /\ Unsynced <= pending + Forgotten
        BY <1>3, <2>1
      <3> QED
        BY <2>3, <2>4, <3>1, <3>2
    <2> QED
      BY <1>1, <2>1, <2>3, <2>5, LossTypes DEF LossInv
  <1> QED
    BY <1>4, <1>5, <1>6 DEF Log!AppendRuns, Log!AppendStep

\* What has been written back when a rewriting ends early is not forgotten.
LEMMA LeftBehind ==
    ASSUME LossBounds, LogInv, LogInv', LossInv,
           failures' = failures + Len(log') - synced', crashes' \in Nat
    PROVE  failures' \in Nat /\ Unsynced' <= Forgotten'
  <1>1. /\ failures \in Nat /\ SyncEvery \in Nat
        /\ Len(log') \in Nat /\ synced' \in 0..Len(log')
    BY LossTypes DEF LogInv, LogTypes
  <1>2. failures' \in Nat /\ Unsynced' \in Nat /\ failures' = failures + Unsynced'
    BY <1>1 DEF Unsynced
  <1> DEFINE was == crashes' * SyncEvery
  <1>3. was \in Nat /\ Forgotten' = was + failures'
    BY <1>1, Products DEF Forgotten
  <1> HIDE DEF was
  <1> QED
    BY <1>1, <1>2, <1>3, Included

LEMMA LossCuts ==
    ASSUME LossBounds, LogInv, LogInv', LossInv, NEW t \in Truncators, Log!TruncatorRuns(t)
    PROVE  LossInv'
  <1>1. UNCHANGED <<up, crashes, pending>> /\ Cuts(t)
    BY DEF Log!TruncatorRuns, Log!SnapshotLSN, Log!Truncate, Log!FlushPart, Log!Rewrite,
           Log!TruncateRefused, Log!RewriteFails, Log!ReopenFails, Cuts
  <1>2. /\ failures \in Nat /\ crashes' \in Nat /\ pending' \in Nat /\ LogTypes
        /\ Len(log') \in Nat
    <2>1. failures \in Nat /\ crashes' \in Nat /\ pending' \in Nat
      BY <1>1, LossTypes
    <2>2. log' \in Seq(LogRecords)
      BY DEF LogInv, LogTypes
    <2>3. LogTypes
      BY DEF LogInv
    <2> QED
      BY <2>1, <2>2, <2>3
  <1>3. ASSUME truncator[t].pc # "rewrite" PROVE failures' = failures
    BY <1>3 DEF Log!TruncatorRuns, Log!RewriteFails
  <1>4. CASE Log!SnapshotLSN(t) \/ Log!TruncateRefused(t)
    <2>1. UNCHANGED <<log, synced, appender>> /\ truncator[t].pc # "rewrite" /\ Log!Unlocked
      BY <1>4 DEF Log!SnapshotLSN, Log!TruncateRefused
    <2>2. failures' = failures /\ ~Log!Rewriting
      BY <1>3, <2>1 DEF Log!Unlocked, Log!Rewriting
    <2> QED
      BY <1>1, <2>1, <2>2 DEF LossInv, Unsynced, Forgotten
  <1>5. CASE Log!Truncate(t) \/ Log!FlushPart(t)
    <2>1. Log!Rewriting'
      <3>1. truncator'[t].pc = "rewrite"
        BY <1>2, <1>5, TruncatorSteps DEF Log!FlushPart
      <3> QED
        BY <3>1 DEF Log!Rewriting
    <2>2. failures' \in Nat
      <3>1. ~Log!RewriteFails(t)
        <4>1. CASE Log!Truncate(t)
          BY <4>1 DEF Log!Truncate, Log!RewriteFails
        <4>2. CASE Log!FlushPart(t)
          <5>1. truncator'[t].pc = "rewrite"
            BY <4>2 DEF Log!FlushPart
          <5>2. Log!RewriteFails(t) => truncator'[t].pc = "idle"
            BY <1>2, TruncatorSteps DEF Finishes
          <5> QED
            BY <5>1, <5>2
        <4> QED
          BY <1>5, <4>1, <4>2
      <3> QED
        BY <1>2, <3>1 DEF Log!TruncatorRuns
    <2> QED
      BY <1>2, <2>1, <2>2 DEF LossInv
  <1>6. CASE Log!Rewrite(t) \/ Log!ReopenFails(t)
    <2>1. synced' = Len(log')
      BY <1>6 DEF Log!Rewrite, Log!ReopenFails
    <2>2. Unsynced' = 0
      BY <1>2, <2>1 DEF Unsynced
    <2>3. failures' \in Nat
      <3>1. failures' = failures \/ failures' = failures + Len(log)
        BY DEF Log!TruncatorRuns
      <3> QED
        BY <1>2, <3>1, LossTypes
    <2> QED
      BY <1>2, <2>2, <2>3, NothingUnsynced
  <1>7. CASE Log!RewriteFails(t)
    <2>1. truncator[t].pc = "rewrite" /\ UNCHANGED <<log, synced>>
      BY <1>7 DEF Log!RewriteFails
    <2>2. synced' = 0
      BY <2>1 DEF LogInv, LogCalls
    <2>3. CASE failures' = failures + Len(log)
      <3>1. failures' = failures + Len(log') - synced'
        BY <1>2, <2>1, <2>2, <2>3
      <3> QED
        BY <1>2, <3>1, LeftBehind, AllForgotten
    <2>4. CASE failures' # failures + Len(log)
      <3>1. Log!Rewrite(t) \/ Log!ReopenFails(t) \/ Log!FlushPart(t)
        BY <2>1, <2>4 DEF Log!TruncatorRuns, Log!SnapshotLSN, Log!Truncate, Log!TruncateRefused
      <3> QED
        BY <1>5, <1>6, <3>1
    <2> QED
      BY <2>3, <2>4
  <1> QED
    BY <1>1, <1>4, <1>5, <1>6, <1>7 DEF Cuts

LEMMA LossNext ==
    ASSUME LossBounds, LogInv, LogInv', LossInv, [Log!Next]_Log!vars
    PROVE  LossInv'
  <1>1. ASSUME UNCHANGED <<log, synced, pending, crashes, failures, up, truncator>>,
               Log!Unlocked' => Log!Unlocked
        PROVE  LossInv'
    BY <1>1 DEF LossInv, Unsynced, Forgotten, Log!Rewriting
  <1>2. CASE UNCHANGED Log!vars
    <2>1. UNCHANGED <<log, synced, pending, appender, truncator, up, crashes, failures>>
      BY <1>2 DEF Log!vars, Log!walVars
    <2> QED
      BY <1>1, <2>1 DEF Log!Unlocked
  <1>3. ASSUME NEW a \in Appenders, Log!AppendCalled(a)
        PROVE  LossInv'
    <2>1. /\ UNCHANGED <<log, synced, pending, truncator, up, crashes, failures>>
          /\ appender[a].pc = "idle"
          /\ appender' = [appender EXCEPT ![a] =
                            [pc |-> "write", lsn |-> lsn + 1, entry |-> appends + 1]]
      BY <1>3 DEF Log!AppendCalled, Log!Reserve
    <2>2. \A b \in Appenders : appender[b].pc = "sync" => appender'[b].pc = "sync"
      BY <2>1 DEF LogInv, LogTypes
    <2> QED
      BY <1>1, <2>1, <2>2 DEF Log!Unlocked
  <1>4. ASSUME NEW a \in Appenders, Log!AppendRuns(a)
        PROVE  LossInv'
    BY <1>4, LossAppends
  <1>5. ASSUME NEW t \in Truncators, Log!TruncatorRuns(t)
        PROVE  LossInv'
    BY <1>5, LossCuts
  <1>6. CASE Log!Crash
    <2>1. /\ Log!WALCrash \/ Log!PowerFails
          /\ up /\ up' = FALSE /\ crashes' = crashes + 1
          /\ failures' = IF Log!Rewriting THEN failures + Len(log') - synced' ELSE failures
      BY <1>6 DEF Log!Crash
    <2>2. crashes' \in Nat /\ pending' = pending /\ pending \in Nat
      BY <2>1, LossTypes DEF Log!WALCrash, Log!PowerFails
    <2>3. CASE Log!Rewriting
      BY <2>1, <2>2, <2>3, LeftBehind, AllForgotten
    <2>4. CASE ~Log!Rewriting
      <3>1. failures' = failures /\ failures \in Nat
        BY <2>1, <2>4, LossTypes
      <3>2. CASE Log!PowerFails
        <4>1. Len(log') \in Nat /\ synced' = Len(log')
          BY <3>2 DEF Log!PowerFails, LogInv, LogTypes
        <4>2. Unsynced' = 0
          BY <4>1 DEF Unsynced
        <4> QED
          BY <2>2, <3>1, <4>2, NothingUnsynced
      <3>3. CASE Log!WALCrash
        <4>1. UNCHANGED <<log, synced>>
          BY <3>3 DEF Log!WALCrash
        <4>2. Unsynced' = Unsynced /\ Forgotten' = Forgotten + SyncEvery
          <5> DEFINE was == crashes * SyncEvery
          <5>1. /\ was \in Nat /\ failures \in Nat /\ SyncEvery \in Nat
                /\ crashes' * SyncEvery = was + SyncEvery
            BY <2>1, LossTypes, OneMoreBatch
          <5>2. Forgotten' = (was + SyncEvery) + failures /\ Forgotten = was + failures
            BY <3>1, <5>1 DEF Forgotten
          <5> HIDE DEF was
          <5>3. Forgotten' = Forgotten + SyncEvery
            BY <5>1, <5>2
          <5> QED
            BY <4>1, <5>3 DEF Unsynced
        <4>3. Unsynced <= Forgotten + SyncEvery
          BY <2>4 DEF LossInv
        <4>4. Unsynced' <= Forgotten'
          BY <4>2, <4>3
        <4> QED
          BY <2>2, <3>1, <4>4, AllForgotten
      <3> QED
        BY <2>1, <3>2, <3>3
    <2> QED
      BY <2>3, <2>4
  <1>7. CASE Log!Restart
    <2>1. /\ ~up /\ pending' = 0 /\ UNCHANGED <<log, synced, crashes, failures>>
      BY <1>7 DEF Log!Restart, Log!Reopen
    <2>2. ~Log!Rewriting
      BY <2>1 DEF LogInv, LogCalls, Log!Rewriting
    <2>3. Unsynced' <= Forgotten'
      BY <2>1, <2>2 DEF LossInv, Unsynced, Forgotten
    <2>4. pending' \in Nat /\ crashes' \in Nat /\ failures' \in Nat
      BY <2>1, LossTypes
    <2> QED
      BY <2>3, <2>4, AllForgotten
  <1> QED
    BY <1>2, <1>3, <1>4, <1>5, <1>6, <1>7 DEF Log!Next

\* For every number of appenders, truncators and crashes, every threshold and any
\* errors of the disk: with fsync by count, the records that are in the file and not
\* on disk are fewer than the threshold, once more for each crash, and the fsyncs that
\* have failed and the records that a write or a rewriting cut short has left (wal.go,
\* Append, shouldSync and Truncate).
THEOREM LossBounded ==
    ASSUME Log!AloneAssumption, SyncMode = "bycount", SyncEvery \in Nat \ {0}
    PROVE  Log!Spec => []LossIsBounded
  <1>1. LossBounds
    BY DEF LossBounds
  <1>2. Log!Init => LogInv /\ LossInv
    <2> SUFFICES ASSUME Log!Init
                 PROVE  LogInv /\ LossInv
      OBVIOUS
    <2>1. /\ log = <<>> /\ synced = 0 /\ pending = 0 /\ up = TRUE /\ crashes = 0 /\ failures = 0
      BY DEF Log!Init, Log!WALInit
    <2>2. SyncEvery \in Nat /\ SyncEvery > 0
      BY <1>1 DEF LossBounds
    <2>3. Unsynced = 0 /\ Forgotten = 0
      BY <2>1, <2>2 DEF Unsynced, Forgotten
    <2> QED
      BY <2>1, <2>2, <2>3, LogBegins DEF LossInv
  <1>3. LogInv /\ LossInv /\ [Log!Next]_Log!vars => LogInv' /\ LossInv'
    BY <1>1, LogNext, LossNext
  <1>4. LogInv /\ LossInv => LossIsBounded
    <2> SUFFICES ASSUME LogInv, LossInv, Log!Unlocked
                 PROVE  Len(log) - synced < (crashes + 1) * SyncEvery + failures
      BY DEF LossIsBounded, Log!LossIsBounded
    <2>1. Unsynced < Forgotten + SyncEvery
      BY DEF LossInv, Log!Unlocked, Log!Rewriting
    <2>2. Forgotten + SyncEvery = (crashes + 1) * SyncEvery + failures
      <3> DEFINE was == crashes * SyncEvery
      <3>1. /\ was \in Nat /\ failures \in Nat /\ SyncEvery \in Nat
            /\ (crashes + 1) * SyncEvery = was + SyncEvery /\ Forgotten = was + failures
        BY <1>1, LossTypes, OneMoreBatch DEF Forgotten
      <3> HIDE DEF was
      <3> QED
        BY <3>1
    <2> QED
      BY <2>1, <2>2 DEF Unsynced
  <1> QED
    BY <1>2, <1>3, <1>4, PTL DEF Log!Spec

Synced == {log[i] : i \in 1..synced}

KeptBy(t) == {truncator[t].kept[i] : i \in DOMAIN truncator[t].kept}

LEMMA HeldIs ==
    ASSUME LogTypes
    PROVE  /\ \A r : r \in Log!Held <=> r \in Synced \/ \E t \in Truncators : r \in KeptBy(t)
           /\ synced \in Nat /\ Len(log) \in Nat /\ synced <= Len(log)
  <1>1. synced \in Nat /\ Len(log) \in Nat /\ synced <= Len(log)
    BY DEF LogTypes
  <1> QED
    BY <1>1 DEF Log!Held, Log!Range, Synced, KeptBy

\* What is held stays, is cut away, is overlooked, or is lost with a rewriting that
\* does not come to its end.
LEMMA HeldStays ==
    ASSUME Log!AloneAssumption, LogInv, LogInv', NEW r \in Log!Held, Log!Next
    PROVE  r \in Log!Held' \/ Log!CutAway(r) \/ Log!Overlooked(r) \/ Log!Interrupted
  <1>1. LogTypes /\ LogCalls /\ LogTypes'
    BY DEF LogInv
  <1>2. r \in Synced \/ \E t \in Truncators : r \in KeptBy(t)
    BY <1>1, HeldIs
  <1>3. r \in Synced' \/ (\E t \in Truncators : r \in KeptBy(t)') => r \in Log!Held'
    <2>1. Log!Held' = Synced' \cup UNION {KeptBy(t)' : t \in Truncators}
      BY DEF Log!Held, Log!Range, Synced, KeptBy
    <2> QED
      BY <2>1
  <1>4. ASSUME NEW a \in Appenders, Log!AppendCalled(a)
        PROVE  r \in Log!Held'
    <2>1. UNCHANGED <<log, synced, truncator>>
      BY <1>4 DEF Log!AppendCalled, Log!Reserve
    <2> QED
      BY <1>2, <1>3, <2>1 DEF Synced, KeptBy
  <1>5. ASSUME NEW a \in Appenders, Log!AppendRuns(a)
        PROVE  r \in Log!Held'
    <2>1. /\ Log!Write(a) \/ Log!Sync(a) \/ Log!WriteFails(a)
          /\ truncator' = truncator
      BY <1>5 DEF Log!AppendRuns, Log!AppendStep, Log!Write, Log!Sync, Log!WriteFails
    <2>2. synced' \in Nat /\ synced <= synced' /\ \A i \in 1..synced : log'[i] = log[i]
      <3>1. log \in Seq(LogRecords) /\ synced \in Nat /\ Len(log) \in Nat /\ synced <= Len(log)
        BY <1>1, HeldIs DEF LogTypes
      <3>2. CASE Log!Sync(a)
        BY <3>1, <3>2 DEF Log!Sync
      <3>3. CASE Log!Write(a)
        <4>1. synced' = synced /\ \E e : log' = Append(log, e)
          BY <3>3 DEF Log!Write
        <4> QED
          BY <3>1, <4>1
      <3>4. CASE Log!WriteFails(a)
        <4> DEFINE all == Append(log, Log!NewRecord(a))
        <4>1. synced' = synced /\ (log' = log \/ log' \in Log!Beginnings(all, Len(log)))
          BY <3>4 DEF Log!WriteFails
        <4>2. Log!NewRecord(a) \in LogRecords
          BY <1>1, <3>4, LogNewRecordType DEF Log!WriteFails
        <4>3. /\ all \in Seq(LogRecords) /\ Len(log) \in 0..Len(all)
              /\ \A i \in 1..Len(log) : all[i] = log[i]
          BY <3>1, <4>2
        <4> HIDE DEF all
        <4>4. log' \in Log!Beginnings(all, Len(log)) => \A i \in 1..Len(log) : log'[i] = log[i]
          BY <4>3, BeginningsKeep
        <4> QED
          BY <3>1, <4>1, <4>4
      <3> QED
        BY <2>1, <3>2, <3>3, <3>4
    <2>3. synced \in Nat
      BY <1>1, HeldIs
    <2>4. Synced \subseteq Synced'
      BY <2>2, <2>3 DEF Synced
    <2> QED
      BY <1>2, <1>3, <2>1, <2>4 DEF KeptBy
  <1>6. ASSUME NEW t \in Truncators, Log!TruncatorRuns(t)
        PROVE  r \in Log!Held' \/ Log!CutAway(r) \/ Log!Overlooked(r) \/ Log!Interrupted
    <2>1. Cuts(t)
      BY <1>6 DEF Log!TruncatorRuns, Cuts
    <2>2. \A u \in Truncators \ {t} : KeptBy(u)' = KeptBy(u)
      BY <1>1, <2>1, LogCutTypes DEF KeptBy
    <2>3. CASE Log!SnapshotLSN(t)
      <3>1. UNCHANGED <<log, synced>> /\ truncator'[t].kept = truncator[t].kept
        BY <1>1, <2>3, TruncatorSteps DEF Log!SnapshotLSN
      <3> QED
        BY <1>2, <1>3, <2>2, <3>1 DEF Synced, KeptBy
    <2>4. CASE Log!Truncate(t)
      <3>1. /\ truncator[t].pc = "captured" /\ truncator'[t].pc = "rewrite"
            /\ truncator[t].kept = <<>> /\ truncator[t].upTo \in Nat
        <4>1. truncator[t].pc = "captured" /\ truncator[t].upTo \in Nat
          BY <1>1, <2>4 DEF LogTypes, Log!Truncate
        <4>2. truncator[t].kept = <<>>
          BY <1>1, <4>1 DEF LogCalls
        <4> QED
          BY <1>1, <2>4, <4>1, <4>2, TruncatorSteps
      <3>2. KeptBy(t) = {}
        BY <3>1 DEF KeptBy
      <3>3. CASE \E u \in Truncators : r \in KeptBy(u)
        BY <1>3, <2>2, <3>2, <3>3
      <3>4. CASE r \in Synced
        <4>1. PICK reading \in Log!Readings(log) :
                truncator'[t].kept = Log!NewerThan(reading, truncator[t].upTo)
          BY <1>1, <2>4, TruncatorSteps
        <4>2. /\ log \in Seq(LogRecords) /\ reading \in Seq(LogRecords)
              /\ Log!Range(Log!Clean(log)) \subseteq Log!Range(reading)
          BY <1>1, LogReadingsHold DEF LogTypes
        <4>3. CASE r \notin Log!Range(Log!Clean(log))
          BY <3>1, <4>3 DEF Log!Overlooked, Log!Emptying
        <4>4. CASE r \in Log!Range(Log!Clean(log))
          <5>0. r \in Log!Range(reading) /\ DOMAIN reading = 1..Len(reading)
            BY <4>2, <4>4
          <5>1. PICK i \in 1..Len(reading) : reading[i] = r
            BY <5>0 DEF Log!Range
          <5>2. r \in LogRecords /\ r \in Log!Range(reading)
            BY <4>2, <5>0, <5>1
          <5>3. r.lsn \in Nat
            BY <5>2 DEF LogRecords
          <5>4. CASE r.lsn <= truncator[t].upTo
            BY <3>1, <5>4 DEF Log!CutAway, Log!Emptying
          <5>5. CASE r.lsn > truncator[t].upTo
            <6> DEFINE S == {record \in Log!Range(reading) : record.lsn > truncator[t].upTo}
            <6>1. truncator'[t].kept = Kept(reading, S)
              BY <4>1, LogKept DEF Log!NewerThan
            <6>2. reading[i] \in S
              BY <5>1, <5>2, <5>5
            <6> HIDE DEF S
            <6>3. IsPart(Kept(reading, S), reading, Len(reading), S)
              BY <4>2, KeptIsPart
            <6>4. \E j \in DOMAIN Kept(reading, S) : Kept(reading, S)[j] = reading[i]
              BY <5>1, <6>2, <6>3 DEF IsPart
            <6>5. r \in KeptBy(t)'
              BY <5>1, <6>1, <6>4 DEF KeptBy
            <6> QED
              BY <1>3, <6>5
          <5> QED
            BY <3>1, <5>3, <5>4, <5>5
        <4> QED
          BY <4>3, <4>4
      <3> QED
        BY <1>2, <3>3, <3>4
    <2>5. CASE Log!Rewrite(t) \/ Log!ReopenFails(t)
      <3>1. truncator[t].pc = "rewrite" /\ log' = truncator[t].kept /\ synced' = Len(log')
        BY <2>5 DEF Log!Rewrite, Log!ReopenFails
      <3>2. Synced = {}
        <4>1. synced = 0
          BY <1>1, <3>1 DEF LogCalls
        <4> QED
          BY <4>1 DEF Synced
      <3>3. KeptBy(t) \subseteq Synced'
        <4>1. truncator[t].kept \in Seq(LogRecords)
          BY <1>1 DEF LogTypes
        <4> QED
          BY <3>1, <4>1 DEF KeptBy, Synced
      <3> QED
        BY <1>2, <1>3, <2>2, <3>2, <3>3
    <2>6. CASE Log!FlushPart(t)
      <3>1. truncator' = truncator /\ synced' = synced /\ synced = 0
        BY <1>1, <2>6 DEF Log!FlushPart, LogCalls
      <3> QED
        BY <1>2, <1>3, <3>1 DEF Synced, KeptBy
    <2>7. CASE Log!TruncateRefused(t)
      <3>1. UNCHANGED <<log, synced>> /\ truncator[t].kept = <<>>
        BY <1>1, <2>7 DEF Log!TruncateRefused, LogCalls
      <3>2. KeptBy(t) = {} /\ Synced' = Synced
        BY <3>1 DEF KeptBy, Synced
      <3> QED
        BY <1>2, <1>3, <2>2, <3>2
    <2>8. CASE Log!RewriteFails(t)
      <3>1. truncator[t].pc = "rewrite"
        BY <2>8 DEF Log!RewriteFails
      <3> QED
        BY <2>8, <3>1 DEF Log!Interrupted
    <2> QED
      BY <2>1, <2>3, <2>4, <2>5, <2>6, <2>7, <2>8 DEF Cuts
  <1>7. CASE Log!Crash
    <2>1. /\ up' = FALSE
          /\ Log!WALCrash \/ Log!PowerFails
      BY <1>7 DEF Log!Crash
    <2>2. CASE \E t \in Truncators : r \in KeptBy(t)
      <3>1. PICK t \in Truncators : r \in KeptBy(t)
        BY <2>2
      <3>2. truncator[t].kept # <<>>
        BY <3>1 DEF KeptBy
      <3>3. truncator[t].pc = "rewrite"
        BY <1>1, <3>2 DEF LogCalls
      <3> QED
        BY <2>1, <3>3 DEF Log!Interrupted
    <2>3. CASE r \in Synced
      <3>1. synced' \in Nat /\ synced <= synced' /\ \A i \in 1..synced : log'[i] = log[i]
        <4>1. log \in Seq(LogRecords) /\ synced \in Nat /\ Len(log) \in Nat /\ synced <= Len(log)
          BY <1>1, HeldIs DEF LogTypes
        <4>2. CASE Log!WALCrash
          BY <4>1, <4>2 DEF Log!WALCrash
        <4>3. CASE Log!PowerFails
          <5>1. log' \in Log!Beginnings(log, synced) /\ synced' = Len(log')
            BY <4>3 DEF Log!PowerFails
          <5>2. Len(log') >= synced /\ Len(log') \in Nat
            BY <1>1, <4>1, <5>1, LogBeginningsAre DEF LogTypes
          <5>3. \A i \in 1..synced : log'[i] = log[i]
            BY <4>1, <5>1, BeginningsKeep
          <5> QED
            BY <5>1, <5>2, <5>3
        <4> QED
          BY <2>1, <4>2, <4>3
      <3>2. synced \in Nat
        BY <1>1, HeldIs
      <3>3. r \in Synced'
        BY <2>3, <3>1, <3>2 DEF Synced
      <3> QED
        BY <1>3, <3>3
    <2> QED
      BY <1>2, <2>2, <2>3
  <1>8. CASE Log!Restart
    <2>1. UNCHANGED <<log, synced, truncator>>
      BY <1>8 DEF Log!Restart, Log!Reopen
    <2> QED
      BY <1>2, <1>3, <2>1 DEF Synced, KeptBy
  <1> QED
    BY <1>4, <1>5, <1>6, <1>7, <1>8 DEF Log!Next

HeldKept ==
    \A record \in Log!Held :
        \/ record \in Log!Held'
        \/ Log!CutAway(record) \/ Log!Overlooked(record) \/ Log!Interrupted

\* For every number of appenders, truncators and crashes, any buffer and sync mode,
\* whatever fails and whatever a power failure leaves: what is on disk stays in the
\* file or with the truncator that writes it back, but for what is at or below the LSN
\* of a cut, what lies where the buffered reader does not find it, and what is in a
\* truncator's memory when its rewriting fails or the process dies (wal.go, Truncate).
THEOREM TruncationKeeps ==
    ASSUME Log!AloneAssumption
    PROVE  Log!Spec => TruncationKeepsNewer
  <1>1. LogInv /\ [Log!Next]_Log!vars => LogInv'
    BY LogNext
  <1>2. LogInv /\ LogInv' /\ [Log!Next]_Log!vars =>
            [HeldKept]_Log!vars
    BY HeldStays DEF HeldKept
  <1> QED
    BY <1>1, <1>2, LogBegins, PTL DEF Log!Spec, TruncationKeepsNewer, Log!TruncationKeepsNewer,
       HeldKept

-----------------------------------------------------------------------------
(* The ends of a saga *)

EndBounds == MaxHandlers \in Nat /\ Qty \in Nat /\ Fills \subseteq 0..Qty

Rows == [status : Ends!Final \cup {"created", "frozen", "pending", "submitted",
                                   "partial_filled", "none"},
         filled : 0..Qty]

EndCalls ==
    [op : {"none", "result", "cancel", "failure", "submit", "fill", "gateway"},
     pc : {"new", "read", "write", "compensate", "get", "unfreeze", "judge", "refund",
           "overwrite", "done"},
     seen : Rows, fill : 0..Qty, complete : BOOLEAN]

EndEntries == [saga : {"cancel", "order"}, amount : Int,
               status : {"pending", "done", "dead_letter"}]

\* Who asks before it writes has been let through on what it saw.
Fits(c) ==
    /\ c.pc = "read" => c.op \in {"result", "cancel"}
    /\ c.pc = "write" =>
            /\ c.op \notin {"none", "gateway"}
            /\ c.op \in {"result", "cancel"} => Ends!Judged(c.op, c.seen)
    /\ c.pc \in {"get", "unfreeze", "judge", "refund", "overwrite"} => c.op = "gateway"
    /\ c.pc \in {"refund", "overwrite"} => Ends!Judged("gateway", c.seen)

\* Who is about to write in the gateway's name has given the rest back.
Paid(c, amount) == c.pc = "overwrite" => amount >= Qty - c.seen.filled

HandlersFit ==
    /\ handler \in [Ends!Handlers -> EndCalls]
    /\ \A h \in Ends!Handlers : Fits(handler[h]) /\ Paid(handler[h], given)

EndTypes ==
    /\ row \in Rows /\ copy \in Rows
    /\ given \in Nat /\ entries \in Seq(EndEntries) /\ blind \in BOOLEAN

NoCancel == \A i \in DOMAIN entries : entries[i].saga # "cancel"

OneCancel(amount) ==
    \E i \in DOMAIN entries :
        /\ entries[i].saga = "cancel" /\ entries[i].amount = amount
        /\ \A j \in DOMAIN entries : j # i => entries[j].saga # "cancel"

GivenBack ==
    ~blind =>
        /\ row.status # "cancelled" => NoCancel
        /\ row.status = "cancelled" =>
                (NoCancel /\ given >= Qty - row.filled) \/ OneCancel(Qty - row.filled)

EndInv == EndTypes /\ HandlersFit /\ GivenBack

LEMMA NoCopyIs == EndBounds => Ends!NoCopy \in Rows
BY DEF EndBounds, Ends!NoCopy, Rows

LEMMA OverIs ==
    ASSUME EndBounds
    PROVE  /\ Ends!Over \in EndCalls /\ Ends!Over.pc = "done"
           /\ Fits(Ends!Over) /\ \A amount : Paid(Ends!Over, amount)
  <1>1. Ends!Idle \in EndCalls /\ Ends!Idle.op = "none"
    BY NoCopyIs DEF Ends!Idle, EndCalls, EndBounds
  <1>2. Ends!Over \in EndCalls /\ Ends!Over.pc = "done" /\ Ends!Over.op = "none"
    BY <1>1 DEF Ends!Over, EndCalls
  <1> QED
    BY <1>2 DEF Fits, Paid

LEMMA PaidStays ==
    ASSUME NEW q \in Nat, NEW f \in Nat, NEW old \in Nat, NEW new \in Nat,
           old >= q - f, new >= old
    PROVE  new >= q - f
OBVIOUS

\* A call goes on in a way that fits.
LEMMA HandlerGoes ==
    ASSUME EndBounds, HandlersFit, EndTypes, NEW h \in Ends!Handlers, NEW c \in EndCalls,
           Fits(c), Paid(c, given'), handler' = [handler EXCEPT ![h] = c],
           given' \in Nat, given' >= given
    PROVE  HandlersFit' /\ handler'[h] = c
  <1>1. /\ handler' \in [Ends!Handlers -> EndCalls] /\ handler'[h] = c
        /\ \A g \in Ends!Handlers \ {h} : handler'[g] = handler[g]
    BY DEF HandlersFit
  <1>2. ASSUME NEW g \in Ends!Handlers
        PROVE  Fits(handler'[g]) /\ Paid(handler'[g], given')
    <2>1. CASE g = h
      BY <1>1, <2>1
    <2>2. CASE g # h
      <3>1. Fits(handler[g]) /\ Paid(handler[g], given) /\ handler'[g] = handler[g]
        BY <1>1, <2>2 DEF HandlersFit
      <3>2. handler[g].seen.filled \in Nat /\ given \in Nat /\ Qty \in Nat
        BY DEF HandlersFit, EndCalls, Rows, EndTypes, EndBounds
      <3>3. Paid(handler[g], given')
        BY <3>1, <3>2, PaidStays DEF Paid
      <3> QED
        BY <3>1, <3>3
    <2> QED
      BY <2>1, <2>2
  <1> QED
    BY <1>1, <1>2 DEF HandlersFit

LEMMA HandlerEnds ==
    ASSUME EndBounds, HandlersFit, EndTypes, NEW h \in Ends!Handlers, Ends!End(h),
           given' = given
    PROVE  HandlersFit' /\ handler'[h].pc = "done"
  <1>1. handler' = [handler EXCEPT ![h] = Ends!Over] /\ given' >= given /\ given' \in Nat
    BY DEF Ends!End, EndTypes
  <1> QED
    BY <1>1, OverIs, HandlerGoes

\* A call that goes on, and one that has seen something first.
OnTo(c, to) == [c EXCEPT !.pc = to]
SeenOnTo(c, saw, to) == [c EXCEPT !.seen = saw, !.pc = to]

LEMMA CallTo ==
    ASSUME NEW c \in EndCalls,
           NEW to \in {"write", "compensate", "unfreeze", "judge", "refund", "overwrite"}
    PROVE  /\ OnTo(c, to) \in EndCalls /\ OnTo(c, to).op = c.op
           /\ OnTo(c, to).pc = to /\ OnTo(c, to).seen = c.seen
BY DEF EndCalls, OnTo

LEMMA CallSees ==
    ASSUME NEW c \in EndCalls, NEW saw \in Rows,
           NEW to \in {"write", "compensate", "unfreeze", "judge", "refund", "overwrite"}
    PROVE  /\ SeenOnTo(c, saw, to) \in EndCalls /\ SeenOnTo(c, saw, to).op = c.op
           /\ SeenOnTo(c, saw, to).pc = to /\ SeenOnTo(c, saw, to).seen = saw
  <1> DEFINE e == [c EXCEPT !.seen = saw]
  <1>1. e \in EndCalls /\ e.op = c.op /\ e.seen = saw
    BY DEF EndCalls
  <1>2. SeenOnTo(c, saw, to) = OnTo(e, to)
    BY DEF SeenOnTo, OnTo
  <1> HIDE DEF e
  <1> QED
    BY <1>1, <1>2, CallTo

\* What has been given back for a row that stays stays given back.
LEMMA GivenStays ==
    ASSUME EndBounds, EndTypes, GivenBack, row' = row, blind' = blind,
           given' \in Nat, given' >= given, entries' \in Seq(EndEntries),
           DOMAIN entries' = DOMAIN entries,
           \A i \in DOMAIN entries : /\ entries'[i].saga = entries[i].saga
                                     /\ entries'[i].amount = entries[i].amount
    PROVE  GivenBack'
  <1>1. NoCancel' <=> NoCancel
    BY DEF NoCancel
  <1>2. \A amount : OneCancel(amount) => OneCancel(amount)'
    BY DEF OneCancel
  <1>3. row.filled \in Nat /\ Qty \in Nat /\ given \in Nat
    BY DEF EndTypes, Rows, EndBounds
  <1>4. given >= Qty - row.filled => given' >= Qty - row.filled
    BY <1>3, PaidStays
  <1> QED
    BY <1>1, <1>2, <1>4 DEF GivenBack

\* So does what a step does not touch.
LEMMA GivenSame ==
    ASSUME GivenBack, UNCHANGED <<row, entries, given, blind>>
    PROVE  GivenBack'
  <1>1. NoCancel' <=> NoCancel
    BY DEF NoCancel
  <1>2. \A amount : OneCancel(amount) => OneCancel(amount)'
    BY DEF OneCancel
  <1> QED
    BY <1>1, <1>2 DEF GivenBack

LEMMA BeginStep ==
    ASSUME EndBounds, EndInv, NEW h \in Ends!Handlers,
           NEW op \in {"result", "cancel", "failure", "submit", "fill", "gateway"},
           NEW at \in {"read", "write", "get"}, NEW fill \in 0..Qty, NEW whole \in BOOLEAN,
           Ends!Begin(h, op, at, fill, whole),
           at = "read" => op \in {"result", "cancel"},
           at = "write" => op \in {"failure", "submit", "fill"},
           at = "get" => op = "gateway"
    PROVE  EndInv'
  <1> DEFINE c == [op |-> op, pc |-> at, seen |-> Ends!NoCopy, fill |-> fill,
                   complete |-> whole]
  <1>1. c \in EndCalls /\ c.op = op /\ c.pc = at
    BY NoCopyIs DEF EndCalls
  <1>2. handler' = [handler EXCEPT ![h] = c] /\ UNCHANGED <<row, copy, entries, given, blind>>
    BY DEF Ends!Begin
  <1> HIDE DEF c
  <1>3. Fits(c) /\ Paid(c, given')
    BY <1>1 DEF Fits, Paid
  <1>4. given' \in Nat /\ given' >= given
    BY <1>2 DEF EndInv, EndTypes
  <1>5. HandlersFit'
    BY <1>1, <1>2, <1>3, <1>4, HandlerGoes DEF EndInv
  <1>6. EndTypes' /\ GivenBack'
    BY <1>2, GivenSame DEF EndInv, EndTypes
  <1> QED
    BY <1>5, <1>6 DEF EndInv

\* The steps that change no more than a call, and the copy.
LEMMA CallStays ==
    ASSUME EndBounds, EndInv, NEW h \in Ends!Handlers, NEW c \in EndCalls,
           Fits(c), Paid(c, given),
           handler' = [handler EXCEPT ![h] = c], copy' \in Rows,
           UNCHANGED <<row, entries, given, blind>>
    PROVE  EndInv'
  <1>1. given' \in Nat /\ given' >= given /\ Paid(c, given')
    BY DEF EndInv, EndTypes
  <1>2. HandlersFit'
    BY <1>1, HandlerGoes DEF EndInv
  <1>3. EndTypes' /\ GivenBack'
    BY GivenSame DEF EndInv, EndTypes
  <1> QED
    BY <1>2, <1>3 DEF EndInv

LEMMA SeesStep ==
    ASSUME EndBounds, EndInv, NEW h \in Ends!Handlers, NEW saw \in Rows,
           NEW to \in {"write", "unfreeze", "refund"}, NEW judges \in BOOLEAN,
           Ends!Sees(h, saw, to, judges), copy' \in Rows,
           UNCHANGED <<row, entries, given, blind>>,
           to = "write" => judges /\ handler[h].op \in {"result", "cancel"},
           to = "unfreeze" => handler[h].op = "gateway",
           to = "refund" => judges /\ handler[h].op = "gateway"
    PROVE  EndInv'
  <1>1. handler[h] \in EndCalls
    BY DEF EndInv, HandlersFit
  <1>2. CASE judges /\ ~Ends!Judged(handler[h].op, saw)
    BY <1>2, OverIs, CallStays DEF Ends!Sees, Ends!End
  <1>3. CASE ~(judges /\ ~Ends!Judged(handler[h].op, saw))
    <2> DEFINE d == SeenOnTo(handler[h], saw, to)
    <2>1. d \in EndCalls /\ d.op = handler[h].op /\ d.pc = to /\ d.seen = saw
      <3> DEFINE c == handler[h]
      <3>1. c \in EndCalls /\ saw \in Rows
                /\ to \in {"write", "compensate", "unfreeze", "judge", "refund", "overwrite"}
        BY <1>1
      <3> HIDE DEF c
      <3>2. /\ SeenOnTo(c, saw, to) \in EndCalls /\ SeenOnTo(c, saw, to).op = c.op
            /\ SeenOnTo(c, saw, to).pc = to /\ SeenOnTo(c, saw, to).seen = saw
        BY ONLY <3>1, CallSees, ZenonT(30)
      <3> QED
        BY <3>2 DEF c
    <2>2. handler' = [handler EXCEPT ![h].seen = saw, ![h].pc = to]
      BY <1>3 DEF Ends!Sees
    <2>3. handler' = [handler EXCEPT ![h] = d]
      BY <2>2 DEF EndInv, HandlersFit, SeenOnTo
    <2> HIDE DEF d
    <2>4. Fits(d) /\ Paid(d, given)
      BY <1>3, <2>1 DEF Fits, Paid
    <2> QED
      BY <2>1, <2>3, <2>4, CallStays
  <1> QED
    BY <1>2, <1>3

\* A call that goes on with what it has.
LEMMA GoToStep ==
    ASSUME NEW h \in Ends!Handlers, NEW to \in {"compensate", "judge", "overwrite"},
           HandlersFit, Ends!GoTo(h, to)
    PROVE  \E d \in EndCalls :
                /\ handler' = [handler EXCEPT ![h] = d]
                /\ d.op = handler[h].op /\ d.pc = to /\ d.seen = handler[h].seen
  <1> DEFINE d == OnTo(handler[h], to)
  <1>1. d \in EndCalls /\ d.op = handler[h].op /\ d.pc = to /\ d.seen = handler[h].seen
    BY CallTo DEF HandlersFit
  <1>2. handler' = [handler EXCEPT ![h] = d]
    BY DEF Ends!GoTo, HandlersFit, OnTo
  <1> QED
    BY <1>1, <1>2

\* The steps in which a call does something to what is given back.
LEMMA FinalJudged ==
    ASSUME NEW op \in {"result", "cancel", "gateway"}, NEW saw \in Rows,
           Ends!Judged(op, saw)
    PROVE  saw.status \notin Ends!Final
BY DEF Ends!Judged, Ends!CanTransitionTo, Ends!ValidTransitions, Ends!Final, Rows

LEMMA WriteStep ==
    ASSUME EndBounds, EndInv, NEW h \in Ends!Handlers, Ends!Write(h)
    PROVE  EndInv'
  <1>1. /\ handler[h] \in EndCalls /\ handler[h].pc = "write" /\ Fits(handler[h])
        /\ handler[h].op \in {"result", "failure", "submit", "fill"}
    BY DEF EndInv, HandlersFit, Fits, EndCalls, Ends!Write
  <1>2. row' \in Rows
    <2>1. CASE handler[h].op = "failure"
      BY <2>1 DEF Ends!Write, Rows, Ends!Final, EndBounds
    <2>2. CASE handler[h].op = "submit"
      BY <2>2 DEF Ends!Write, Rows, Ends!Final, EndBounds
    <2>3. CASE handler[h].op \in {"result", "fill"}
      <3>1. row' = [status |-> IF handler[h].complete THEN "filled" ELSE "partial_filled",
                    filled |-> handler[h].fill]
        BY <2>3 DEF Ends!Write
      <3>2. handler[h].fill \in 0..Qty
        BY <1>1 DEF EndCalls
      <3> QED
        BY <3>1, <3>2 DEF Rows, Ends!Final
    <2> QED
      BY <1>1, <2>1, <2>2, <2>3
  <1>3. EndTypes'
    BY <1>2, NoCopyIs DEF EndInv, EndTypes, Ends!Write, Ends!Blind
  <1>4. given' \in Nat /\ given' = given /\ given' >= given
    BY DEF EndInv, EndTypes, Ends!Write
  <1>5. HandlersFit'
    <2>1. CASE handler[h].op = "failure"
      <3>1. PICK d \in EndCalls : /\ handler' = [handler EXCEPT ![h] = d]
                                  /\ d.op = handler[h].op /\ d.pc = "compensate"
        BY <2>1, GoToStep DEF EndInv, Ends!Write
      <3> QED
        BY <1>4, <3>1, HandlerGoes DEF EndInv, Fits, Paid
    <2>2. CASE handler[h].op # "failure"
      BY <1>4, <2>2, HandlerEnds DEF EndInv, Ends!Write
    <2> QED
      BY <2>1, <2>2
  <1>6. GivenBack'
    <2>1. CASE blind'
      BY <2>1 DEF GivenBack
    <2>2. CASE ~blind'
      <3>1. ~blind /\ handler[h].op = "result" /\ handler[h].seen = row
        BY <1>1, <2>2 DEF Ends!Write, Ends!Blind, Ends!Asked, EndInv, EndTypes
      <3>2. row.status # "cancelled"
        BY <1>1, <3>1, FinalJudged DEF Fits, Ends!Final, EndInv, EndTypes
      <3>3. NoCancel'
        BY <3>1, <3>2 DEF EndInv, GivenBack, NoCancel, Ends!Write
      <3>4. row'.status # "cancelled"
        BY <3>1 DEF Ends!Write
      <3> QED
        BY <3>3, <3>4 DEF GivenBack
    <2> QED
      BY <2>1, <2>2
  <1> QED
    BY <1>3, <1>5, <1>6 DEF EndInv

\* An entry is added to the outbox.
LEMMA EntryAdded ==
    ASSUME EndTypes, NEW saga \in {"cancel", "order"}, NEW amount \in Int,
           entries' = Append(entries, Ends!Entry(saga, amount))
    PROVE  /\ entries' \in Seq(EndEntries)
           /\ saga = "order" /\ NoCancel => NoCancel'
           /\ saga = "order" => \A a : OneCancel(a) => OneCancel(a)'
           /\ saga = "cancel" /\ NoCancel => OneCancel(amount)'
  <1> DEFINE e == Ends!Entry(saga, amount)
             n == Len(entries)
  <1>1. e \in EndEntries /\ e.saga = saga /\ e.amount = amount
    BY DEF Ends!Entry, EndEntries
  <1>2. entries \in Seq(EndEntries)
    BY DEF EndTypes
  <1> HIDE DEF e
  <1>3. entries' = Append(entries, e)
    BY DEF e
  <1> HIDE DEF EndEntries
  <1>4. /\ entries' \in Seq(EndEntries) /\ n \in Nat
        /\ DOMAIN entries = 1..n /\ DOMAIN entries' = 1..(n + 1)
        /\ entries'[n + 1] = e /\ \A i \in 1..n : entries'[i] = entries[i]
    BY <1>1, <1>2, <1>3, AppendProperties
  <1>5. n + 1 \notin 1..n /\ 1..(n + 1) = 1..n \cup {n + 1}
    BY <1>4
  <1> HIDE DEF n
  <1>6. DOMAIN entries' = DOMAIN entries \cup {n + 1} /\ n + 1 \notin DOMAIN entries
        /\ \A i \in DOMAIN entries : entries'[i] = entries[i]
    BY <1>4, <1>5
  <1>7. saga = "order" /\ NoCancel => NoCancel'
    BY <1>1, <1>4, <1>6 DEF NoCancel
  <1>8. ASSUME saga = "order", NEW a, OneCancel(a) PROVE OneCancel(a)'
    <2>1. PICK i \in DOMAIN entries :
            /\ entries[i].saga = "cancel" /\ entries[i].amount = a
            /\ \A j \in DOMAIN entries : j # i => entries[j].saga # "cancel"
      BY <1>8 DEF OneCancel
    <2>2. i \in DOMAIN entries' /\ entries'[i].saga = "cancel" /\ entries'[i].amount = a
      BY <1>6, <2>1
    <2>3. \A j \in DOMAIN entries' : j # i => entries'[j].saga # "cancel"
      BY <1>1, <1>4, <1>6, <1>8, <2>1
    <2> QED
      BY <2>2, <2>3 DEF OneCancel
  <1>9. ASSUME saga = "cancel", NoCancel PROVE OneCancel(amount)'
    <2>1. \A j \in DOMAIN entries' : j # n + 1 => entries'[j].saga # "cancel"
      BY <1>6, <1>9 DEF NoCancel
    <2>2. n + 1 \in DOMAIN entries' /\ entries'[n + 1].saga = "cancel"
            /\ entries'[n + 1].amount = amount
      BY <1>1, <1>4, <1>6, <1>9
    <2> QED
      BY <2>1, <2>2 DEF OneCancel
  <1> QED
    BY <1>4, <1>7, <1>8, <1>9

LEMMA TransactStep ==
    ASSUME EndBounds, EndInv, NEW h \in Ends!Handlers, Ends!Transact(h)
    PROVE  EndInv'
  <1>1. /\ handler[h] \in EndCalls /\ Fits(handler[h])
        /\ handler[h].pc = "write" /\ handler[h].op = "cancel"
    BY DEF EndInv, HandlersFit, Ends!Transact, Ends!At
  <1>2. handler[h].seen \in Rows /\ row \in Rows
    BY <1>1 DEF EndCalls, EndInv, EndTypes
  <1>3. Ends!Rest(h) \in Int
    BY <1>2 DEF Ends!Rest, Rows, EndBounds
  <1>4. row' \in Rows /\ row'.status = "cancelled" /\ row'.filled = row.filled
    BY <1>2 DEF Ends!Transact, Rows, Ends!Final
  <1>5. PICK a \in Int : a = Ends!Rest(h)
    BY <1>3
  <1>6. entries' = Append(entries, Ends!Entry("cancel", a))
    BY <1>5 DEF Ends!Transact
  <1>7. entries' \in Seq(EndEntries) /\ (NoCancel => OneCancel(a)')
    BY <1>6, EntryAdded DEF EndInv
  <1>8. EndTypes'
    BY <1>4, <1>7 DEF EndInv, EndTypes, Ends!Transact, Ends!Blind
  <1>9. HandlersFit'
    BY HandlerEnds DEF EndInv, Ends!Transact
  <1>10. GivenBack'
    <2>1. CASE blind'
      BY <2>1 DEF GivenBack
    <2>2. CASE ~blind'
      <3>1. ~blind /\ handler[h].seen = row
        BY <1>1, <2>2 DEF Ends!Transact, Ends!Blind, Ends!Asked, EndInv, EndTypes
      <3>2. row.status # "cancelled"
        BY <1>1, <1>2, <3>1, FinalJudged DEF Fits, Ends!Final
      <3>3. NoCancel
        BY <3>1, <3>2 DEF EndInv, GivenBack
      <3>4. a = Qty - row'.filled
        BY <1>4, <1>5, <3>1 DEF Ends!Rest
      <3>5. OneCancel(Qty - row.filled)'
        BY <1>7, <3>3, <3>4 DEF OneCancel
      <3> QED
        BY <1>4, <3>5 DEF GivenBack
    <2> QED
      BY <2>1, <2>2
  <1> QED
    BY <1>8, <1>9, <1>10 DEF EndInv

LEMMA CompensateStep ==
    ASSUME EndBounds, EndInv, NEW h \in Ends!Handlers, Ends!Compensate(h)
    PROVE  EndInv'
  <1>1. entries' = Append(entries, Ends!Entry("order", Qty)) /\ Qty \in Int
    BY DEF Ends!Compensate, EndBounds
  <1>2. /\ entries' \in Seq(EndEntries) /\ (NoCancel => NoCancel')
        /\ \A a : OneCancel(a) => OneCancel(a)'
    BY <1>1, EntryAdded DEF EndInv
  <1>3. EndTypes' /\ GivenBack'
    BY <1>2 DEF EndInv, EndTypes, GivenBack, Ends!Compensate
  <1>4. HandlersFit'
    BY HandlerEnds DEF EndInv, Ends!Compensate
  <1> QED
    BY <1>3, <1>4 DEF EndInv

\* The gateway and the order service give back the rest of what they have seen.
LEMMA RestIs ==
    ASSUME EndBounds, EndTypes, NEW c \in EndCalls, NEW d \in EndCalls, NEW new,
           d.seen = c.seen, new = given + (Qty - c.seen.filled)
    PROVE  new \in Nat /\ new >= given /\ Paid(d, new)
  <1> DEFINE f == c.seen.filled
  <1>1. f \in 0..Qty /\ Qty \in Nat /\ given \in Nat
    BY DEF EndCalls, Rows, EndTypes, EndBounds
  <1> HIDE DEF f
  <1>2. given + (Qty - f) \in Nat /\ given + (Qty - f) >= given
            /\ given + (Qty - f) >= Qty - f
    BY <1>1
  <1>3. d.seen.filled = f /\ new = given + (Qty - f)
    BY DEF f
  <1> QED
    BY <1>2, <1>3 DEF Paid

LEMMA GiveStep ==
    ASSUME EndBounds, EndInv, NEW h \in Ends!Handlers,
           Ends!GatewayUnfreezes(h) \/ Ends!Refund(h)
    PROVE  EndInv'
  <1>1. handler[h] \in EndCalls /\ Fits(handler[h]) /\ given \in Nat
    BY DEF EndInv, HandlersFit, EndTypes
  <1>2. PICK d \in EndCalls :
            /\ handler' = [handler EXCEPT ![h] = d]
            /\ d.op = handler[h].op /\ d.seen = handler[h].seen
            /\ \/ Ends!GatewayUnfreezes(h) /\ d.pc = "judge"
               \/ Ends!Refund(h) /\ d.pc = "overwrite"
    BY GoToStep DEF EndInv, Ends!GatewayUnfreezes, Ends!Refund
  <1>3. given' \in Nat /\ given' >= given /\ Paid(d, given')
    <2>1. CASE given' = given + Ends!Rest(h)
      BY <1>1, <1>2, <2>1, RestIs DEF EndInv, Ends!Rest
    <2>2. CASE given' = given /\ d.pc = "judge"
      BY <1>1, <2>2 DEF Paid
    <2> QED
      BY <1>2, <2>1, <2>2 DEF Ends!GatewayUnfreezes, Ends!Refund
  <1>4. Fits(d)
    BY <1>1, <1>2 DEF Fits, Ends!GatewayUnfreezes, Ends!Refund
  <1>5. HandlersFit'
    BY <1>2, <1>3, <1>4, HandlerGoes DEF EndInv
  <1>6. UNCHANGED <<row, copy, entries, blind>>
    BY DEF Ends!GatewayUnfreezes, Ends!Refund
  <1>7. EndTypes'
    BY <1>3, <1>6 DEF EndInv, EndTypes
  <1>8. GivenBack'
    BY <1>3, <1>6, GivenStays DEF EndInv, EndTypes
  <1> QED
    BY <1>5, <1>7, <1>8 DEF EndInv

LEMMA OverwriteStep ==
    ASSUME EndBounds, EndInv, NEW h \in Ends!Handlers, Ends!Overwrite(h)
    PROVE  EndInv'
  <1>1. /\ handler[h] \in EndCalls /\ Fits(handler[h]) /\ Paid(handler[h], given)
        /\ handler[h].pc = "overwrite" /\ handler[h].op = "gateway"
    BY DEF EndInv, HandlersFit, Fits, Ends!Overwrite
  <1>2. handler[h].seen \in Rows /\ row \in Rows
    BY <1>1 DEF EndCalls, EndInv, EndTypes
  <1>3. row' \in Rows /\ row'.status = "cancelled" /\ row'.filled = handler[h].seen.filled
    BY <1>2 DEF Ends!Overwrite, Rows, Ends!Final
  <1>4. EndTypes'
    BY <1>3, NoCopyIs DEF EndInv, EndTypes, Ends!Overwrite, Ends!Blind
  <1>5. HandlersFit'
    BY HandlerEnds DEF EndInv, Ends!Overwrite
  <1>6. GivenBack'
    <2>1. CASE blind'
      BY <2>1 DEF GivenBack
    <2>2. CASE ~blind'
      <3>1. ~blind /\ handler[h].seen = row
        BY <1>1, <2>2 DEF Ends!Overwrite, Ends!Blind, Ends!Asked, EndInv, EndTypes
      <3>2. row.status # "cancelled"
        BY <1>1, <1>2, <3>1, FinalJudged DEF Fits, Ends!Final
      <3>3. NoCancel'
        BY <3>1, <3>2 DEF EndInv, GivenBack, NoCancel, Ends!Overwrite
      <3>4. (given >= Qty - row.filled)'
        BY <1>1, <1>3 DEF Paid, Ends!Overwrite
      <3> QED
        BY <3>3, <3>4 DEF GivenBack
    <2> QED
      BY <2>1, <2>2
  <1> QED
    BY <1>4, <1>5, <1>6 DEF EndInv

LEMMA DeliverStep ==
    ASSUME EndBounds, EndInv, NEW i \in DOMAIN entries,
           NEW status \in {"done", "dead_letter"}, Ends!Deliver(i, status)
    PROVE  EndInv'
  <1>1. entries' = [entries EXCEPT ![i].status = status]
            /\ UNCHANGED <<row, copy, given, handler, blind>>
    BY DEF Ends!Deliver
  <1>2. entries \in Seq(EndEntries)
    BY DEF EndInv, EndTypes
  <1>3. entries[i] \in EndEntries
    BY <1>2, ElementOfSeq DEF EndInv, EndTypes
  <1> DEFINE e == [entries[i] EXCEPT !.status = status]
  <1>4. /\ e \in EndEntries /\ e.saga = entries[i].saga
        /\ e.amount = entries[i].amount
    BY <1>3 DEF EndEntries
  <1>5. entries' = [entries EXCEPT ![i] = e]
    BY <1>1, <1>2
  <1> HIDE DEF e, EndEntries
  <1>6. /\ entries' \in Seq(EndEntries) /\ DOMAIN entries' = DOMAIN entries
        /\ entries'[i] = e /\ \A j \in DOMAIN entries \ {i} : entries'[j] = entries[j]
    BY <1>2, <1>4, <1>5, ExceptSeq
  <1>7. \A j \in DOMAIN entries : /\ entries'[j].saga = entries[j].saga
                                  /\ entries'[j].amount = entries[j].amount
    BY <1>4, <1>6
  <1>8. EndTypes' /\ HandlersFit'
    BY <1>1, <1>6 DEF EndInv, EndTypes, HandlersFit
  <1>9. given' \in Nat /\ given' >= given
    BY <1>1 DEF EndInv, EndTypes
  <1>10. GivenBack'
    BY <1>1, <1>6, <1>7, <1>9, GivenStays DEF EndInv
  <1> QED
    BY <1>8, <1>10 DEF EndInv

LEMMA EndStep ==
    ASSUME EndBounds, EndInv, [Ends!Next]_Ends!vars
    PROVE  EndInv'
  <1>1. Ends!Known \in Rows
    BY DEF Ends!Known, EndInv, EndTypes
  <1>2. ASSUME NEW h \in Ends!Handlers,
               \/ Ends!HandleMatchingResult(h) \/ Ends!HandleMatchingFailure(h)
               \/ Ends!CancelOrderSaga(h) \/ Ends!HandleSubmitMatchingSuccess(h)
               \/ Ends!UpdateFilledQuantity(h) \/ Ends!CancelOrder(h)
        PROVE  EndInv'
    <2>1. 0 \in 0..Qty /\ \A fill \in Fills : fill \in 0..Qty /\ (fill >= Qty) \in BOOLEAN
      BY DEF EndBounds
    <2>2. CASE Ends!HandleMatchingResult(h)
      BY <2>1, <2>2, BeginStep DEF Ends!HandleMatchingResult
    <2>3. CASE Ends!HandleMatchingFailure(h)
      BY <2>1, <2>3, BeginStep DEF Ends!HandleMatchingFailure
    <2>4. CASE Ends!CancelOrderSaga(h)
      BY <2>1, <2>4, BeginStep DEF Ends!CancelOrderSaga
    <2>5. CASE Ends!HandleSubmitMatchingSuccess(h)
      BY <2>1, <2>5, BeginStep DEF Ends!HandleSubmitMatchingSuccess
    <2>6. CASE Ends!UpdateFilledQuantity(h)
      <3>1. PICK fill \in Fills, whole \in BOOLEAN :
                Ends!Begin(h, "fill", "write", fill, whole)
        BY <2>1, <2>6 DEF Ends!UpdateFilledQuantity
      <3> QED
        BY <2>1, <3>1, BeginStep
    <2>7. CASE Ends!CancelOrder(h)
      BY <2>1, <2>7, BeginStep DEF Ends!CancelOrder
    <2> QED
      BY <1>2, <2>2, <2>3, <2>4, <2>5, <2>6, <2>7
  <1>3. ASSUME NEW h \in Ends!Handlers, Ends!ReadRow(h)
        PROVE  EndInv'
    <2>1. row \in Rows /\ copy' \in Rows /\ handler[h].op \in {"result", "cancel"}
      BY <1>3 DEF EndInv, EndTypes, HandlersFit, Fits, Ends!ReadRow
    <2> QED
      BY <1>3, <2>1, SeesStep DEF Ends!ReadRow
  <1>4. ASSUME NEW h \in Ends!Handlers, Ends!GetOrder(h) \/ Ends!Judge(h)
        PROVE  EndInv'
    <2>1. copy' \in Rows
      BY <1>1, <1>4 DEF Ends!GetOrder, Ends!Judge
    <2>2. CASE Ends!GetOrder(h)
      <3>1. handler[h].op = "gateway"
        BY <2>2 DEF EndInv, HandlersFit, Fits, Ends!GetOrder
      <3> QED
        BY <1>1, <2>1, <2>2, <3>1, SeesStep DEF Ends!GetOrder
    <2>3. CASE Ends!Judge(h)
      <3>1. handler[h].op = "gateway"
        BY <2>3 DEF EndInv, HandlersFit, Fits, Ends!Judge
      <3> QED
        BY <1>1, <2>1, <2>3, <3>1, SeesStep DEF Ends!Judge
    <2> QED
      BY <1>4, <2>2, <2>3
  <1>5. ASSUME NEW h \in Ends!Handlers, Ends!GiveUp(h)
        PROVE  EndInv'
    <2>1. copy' \in Rows
      BY <1>5 DEF Ends!GiveUp, EndInv, EndTypes
    <2> QED
      BY <1>5, <2>1, OverIs, CallStays DEF Ends!GiveUp, Ends!End
  <1>6. CASE Ends!CopyExpires
    BY <1>6, NoCopyIs, GivenSame
       DEF Ends!CopyExpires, EndInv, EndTypes, HandlersFit
  <1>7. CASE UNCHANGED Ends!vars
    BY <1>7, GivenSame DEF Ends!vars, EndInv, EndTypes, HandlersFit
  <1> QED
    BY <1>2, <1>3, <1>4, <1>5, <1>6, <1>7, WriteStep, TransactStep, CompensateStep,
       GiveStep, OverwriteStep, DeliverStep
    DEF Ends!Next

LEMMA EndBegins ==
    ASSUME EndBounds, Ends!Init
    PROVE  EndInv
  <1>1. row \in Rows /\ row.status # "cancelled"
    BY DEF Ends!Init, Rows, Ends!Final, EndBounds
  <1>2. Ends!Idle \in EndCalls /\ Ends!Idle.pc = "new"
    BY NoCopyIs DEF Ends!Idle, EndCalls, EndBounds
  <1>3. HandlersFit
    <2>1. handler \in [Ends!Handlers -> EndCalls]
            /\ \A h \in Ends!Handlers : handler[h].pc = "new"
      BY <1>2 DEF Ends!Init
    <2> QED
      BY <2>1 DEF HandlersFit, Fits, Paid
  <1>4. entries = <<>> /\ entries \in Seq(EndEntries)
    BY DEF Ends!Init
  <1>5. EndTypes
    BY <1>1, <1>4, NoCopyIs DEF EndTypes, Ends!Init
  <1>6. NoCancel
    BY <1>4 DEF NoCancel
  <1> QED
    BY <1>1, <1>3, <1>5, <1>6 DEF EndInv, GivenBack

LEMMA EndsHold == ASSUME EndBounds PROVE Ends!Spec => []EndInv
  <1>1. Ends!Init => EndInv
    BY EndBegins
  <1>2. EndInv /\ [Ends!Next]_Ends!vars => EndInv'
    BY EndStep
  <1> QED
    BY <1>1, <1>2, PTL DEF Ends!Spec

\* What FinalUnlessBlind says of a step.
OverStays ==
    row.status \in Ends!Final /\ row' # row =>
        \E h \in Ends!Handlers :
            /\ handler[h].pc \in {"write", "overwrite"}
            /\ handler'[h].pc # handler[h].pc
            /\ Ends!Blind(h)

LEMMA OverStaysStep ==
    ASSUME EndBounds, EndInv, [Ends!Next]_Ends!vars
    PROVE  OverStays
  <1> SUFFICES ASSUME row.status \in Ends!Final, row' # row
               PROVE  \E h \in Ends!Handlers :
                        /\ handler[h].pc \in {"write", "overwrite"}
                        /\ handler'[h].pc # handler[h].pc
                        /\ Ends!Blind(h)
    BY DEF OverStays
  <1>1. PICK h \in Ends!Handlers : Ends!Write(h) \/ Ends!Transact(h) \/ Ends!Overwrite(h)
    BY DEF Ends!Next, Ends!vars, Ends!HandleMatchingResult, Ends!HandleMatchingFailure,
           Ends!CancelOrderSaga, Ends!HandleSubmitMatchingSuccess,
           Ends!UpdateFilledQuantity, Ends!CancelOrder, Ends!Begin, Ends!ReadRow,
           Ends!GetOrder, Ends!Compensate, Ends!GatewayUnfreezes, Ends!Judge,
           Ends!Refund, Ends!GiveUp, Ends!Deliver, Ends!CopyExpires
  <1>2. handler[h] \in EndCalls /\ Fits(handler[h]) /\ row \in Rows
    BY DEF EndInv, HandlersFit, EndTypes
  <1>3. handler[h].pc \in {"write", "overwrite"}
    BY <1>1 DEF Ends!Write, Ends!Transact, Ends!At, Ends!Overwrite
  <1>4. handler'[h].pc # handler[h].pc
    <2>1. CASE Ends!End(h)
      BY <1>3, <2>1, OverIs DEF Ends!End, EndInv, HandlersFit
    <2>2. CASE Ends!GoTo(h, "compensate")
      <3>1. handler'[h].pc = "compensate"
        BY <2>2, GoToStep DEF EndInv, HandlersFit
      <3> QED
        BY <1>3, <3>1
    <2> QED
      BY <1>1, <2>1, <2>2 DEF Ends!Write, Ends!Transact, Ends!Overwrite
  <1>5. Ends!Blind(h)
    <2> SUFFICES ASSUME ~Ends!Blind(h) PROVE FALSE
      OBVIOUS
    <2>1. handler[h].seen = row /\ handler[h].op \in {"result", "cancel", "gateway"}
      BY DEF Ends!Blind, Ends!Asked
    <2>2. Ends!Judged(handler[h].op, row)
      BY <1>2, <1>3, <2>1 DEF Fits
    <2> QED
      BY <1>2, <2>1, <2>2, FinalJudged
  <1> QED
    BY <1>3, <1>4, <1>5

\* An order that is over stays as it is, unless a handler that never asks, or
\* that asked about something else than the row is now, writes over it.
THEOREM FinalStays ==
    ASSUME MaxHandlers \in Nat, Qty \in Nat, Fills \subseteq 0..Qty
    PROVE  Ends!Spec => FinalUnlessBlind
  <1>0. EndBounds
    BY DEF EndBounds
  <1>1. EndInv /\ [Ends!Next]_Ends!vars => [OverStays]_Ends!vars
    BY <1>0, OverStaysStep
  <1> QED
    BY <1>0, <1>1, EndsHold, PTL DEF Ends!Spec, FinalUnlessBlind, Ends!FinalUnlessBlind, OverStays

\* The sums of the first elements of a.
PartialSums(n, a, f) ==
    f = [i \in 0..n |-> IF i = 0 THEN 0 ELSE f[i - 1] + a[i]]

LEMMA SumsExist ==
    ASSUME NEW n \in Nat, NEW a
    PROVE  \E f : PartialSums(n, a, f)
  <1> DEFINE Fine == {k \in 0..n : \E g : PartialSums(k, a, g)}
  <1>1. 0 \in Fine
    <2> DEFINE g == [i \in 0..0 |-> 0]
    <2>1. PartialSums(0, a, g)
      BY DEF PartialSums
    <2>2. \E f : PartialSums(0, a, f)
      BY <2>1
    <2> QED
      BY <2>2
  <1>2. ASSUME NEW k \in 1..n, k - 1 \in Fine
        PROVE  k \in Fine
    <2>1. PICK g : PartialSums(k - 1, a, g)
      BY <1>2
    <2> DEFINE h == [i \in 0..k |-> IF i = k THEN g[k - 1] + a[k] ELSE g[i]]
    <2>2. \A i \in 0..(k - 1) : h[i] = g[i]
      OBVIOUS
    <2>3. h[k] = h[k - 1] + a[k]
      BY <2>2
    <2>4. ASSUME NEW i \in 1..(k - 1)
          PROVE  h[i] = h[i - 1] + a[i]
      <3>1. i \in 0..(k - 1) /\ i - 1 \in 0..(k - 1) /\ i # 0
        OBVIOUS
      <3>2. g[i] = g[i - 1] + a[i]
        BY <2>1, <3>1 DEF PartialSums
      <3> QED
        BY <2>2, <3>1, <3>2
    <2>5. h[0] = 0
      BY <2>1 DEF PartialSums
    <2>6. h = [i \in 0..k |-> h[i]]
      OBVIOUS
    <2> HIDE DEF h
    <2>7. \A i \in 0..k : h[i] = IF i = 0 THEN 0 ELSE h[i - 1] + a[i]
      BY <2>3, <2>4, <2>5
    <2>8. PartialSums(k, a, h)
      BY <2>6, <2>7 DEF PartialSums
    <2>9. \E f : PartialSums(k, a, f)
      BY <2>8
    <2> QED
      BY <2>9
  <1>3. n \in 0..n
    OBVIOUS
  <1> HIDE DEF Fine
  <1>4. n \in Fine
    BY <1>1, <1>2, <1>3, AllNumbers
  <1> QED
    BY <1>4 DEF Fine

\* A sum of nothing but zeros, and one of zeros and a single other number.
LEMMA SumOfOne ==
    ASSUME NEW n \in Nat, NEW a, NEW f, PartialSums(n, a, f),
           NEW k \in 1..n, a[k] \in Int, \A i \in 1..n : i # k => a[i] = 0
    PROVE  f[n] = a[k]
  <1> DEFINE Fine == {m \in 0..n : f[m] = IF m < k THEN 0 ELSE a[k]}
  <1>1. 0 \in Fine
    BY DEF PartialSums
  <1>2. ASSUME NEW m \in 1..n, m - 1 \in Fine
        PROVE  m \in Fine
    <2>1. m \in 0..n /\ m # 0
      OBVIOUS
    <2>2. f[m] = f[m - 1] + a[m]
      BY <2>1 DEF PartialSums
    <2>3. f[m - 1] = IF m - 1 < k THEN 0 ELSE a[k]
      BY <1>2
    <2>4. CASE m = k
      BY <2>2, <2>3, <2>4
    <2>5. CASE m # k
      <3>1. a[m] = 0 /\ (m - 1 < k <=> m < k)
        BY <2>5
      <3> QED
        BY <2>2, <2>3, <3>1
    <2> QED
      BY <2>4, <2>5
  <1> HIDE DEF Fine
  <1>3. n \in Fine
    BY <1>1, <1>2, AllNumbers
  <1> QED
    BY <1>3 DEF Fine

LEMMA SumOfNone ==
    ASSUME NEW n \in Nat, NEW a, NEW f, PartialSums(n, a, f), \A i \in 1..n : a[i] = 0
    PROVE  f[n] = 0
  <1> DEFINE Fine == {m \in 0..n : f[m] = 0}
  <1>1. 0 \in Fine
    BY DEF PartialSums
  <1>2. ASSUME NEW m \in 1..n, m - 1 \in Fine
        PROVE  m \in Fine
    <2>1. m \in 0..n /\ m # 0
      OBVIOUS
    <2>2. f[m] = f[m - 1] + a[m]
      BY <2>1 DEF PartialSums
    <2> QED
      BY <1>2, <2>2
  <1> HIDE DEF Fine
  <1>3. n \in Fine
    BY <1>1, <1>2, AllNumbers
  <1> QED
    BY <1>3 DEF Fine

\* What an entry adds to an amount.
Adds(saga, statuses) ==
    [i \in 1..Len(entries) |->
        IF entries[i].saga = saga /\ entries[i].status \in statuses
        THEN entries[i].amount ELSE 0]

LEMMA AmountIs ==
    ASSUME EndTypes, NEW saga, NEW statuses
    PROVE  \E f : /\ PartialSums(Len(entries), Adds(saga, statuses), f)
                  /\ Ends!Amount(saga, statuses) = f[Len(entries)]
  <1> DEFINE n == Len(entries)
             a == Adds(saga, statuses)
             Sum(f) == f = [i \in 0..n |->
                    IF i = 0 THEN 0
                    ELSE f[i - 1] + IF /\ entries[i].saga = saga
                                       /\ entries[i].status \in statuses
                                    THEN entries[i].amount ELSE 0]
             g == CHOOSE f : Sum(f)
  <1>1. n \in Nat
    BY DEF EndTypes
  <1>2. ASSUME NEW f PROVE Sum(f) <=> PartialSums(n, a, f)
    <2>1. ASSUME NEW i \in 0..n, i # 0
          PROVE  a[i] = IF /\ entries[i].saga = saga
                           /\ entries[i].status \in statuses
                        THEN entries[i].amount ELSE 0
      BY <1>1, <2>1 DEF Adds
    <2> QED
      BY <2>1 DEF PartialSums
  <1>3. PICK f : PartialSums(n, a, f)
    BY <1>1, SumsExist
  <1>4. Sum(g)
    <2>1. Sum(f)
      BY <1>2, <1>3
    <2> QED
      BY <2>1
  <1>5. Ends!Amount(saga, statuses) = g[n]
    BY DEF Ends!Amount
  <1>6. PartialSums(n, a, g)
    BY <1>2, <1>4
  <1> QED
    BY <1>5, <1>6

\* The one entry of a cancellation is what all its entries amount to.
LEMMA AmountOfOne ==
    ASSUME EndTypes, NEW statuses, NEW amount \in Int, NEW i \in DOMAIN entries,
           entries[i].saga = "cancel", entries[i].amount = amount,
           entries[i].status \in statuses,
           \A j \in DOMAIN entries : j # i => entries[j].saga # "cancel"
    PROVE  Ends!Amount("cancel", statuses) = amount
  <1> DEFINE n == Len(entries)
             a == Adds("cancel", statuses)
  <1>1. n \in Nat /\ DOMAIN entries = 1..n
    BY DEF EndTypes
  <1>2. a[i] = amount /\ \A j \in 1..n : j # i => a[j] = 0
    BY <1>1 DEF Adds
  <1>3. PICK f : PartialSums(n, a, f) /\ Ends!Amount("cancel", statuses) = f[n]
    BY AmountIs
  <1> HIDE DEF a, n
  <1> QED
    BY <1>1, <1>2, <1>3, SumOfOne

LEMMA AmountOfNone ==
    ASSUME EndTypes, NEW statuses, NoCancel
    PROVE  Ends!Amount("cancel", statuses) = 0
  <1> DEFINE n == Len(entries)
             a == Adds("cancel", statuses)
  <1>1. n \in Nat /\ DOMAIN entries = 1..n
    BY DEF EndTypes
  <1>2. \A j \in 1..n : a[j] = 0
    BY <1>1 DEF Adds, NoCancel
  <1>3. PICK f : PartialSums(n, a, f) /\ Ends!Amount("cancel", statuses) = f[n]
    BY AmountIs
  <1> HIDE DEF a, n
  <1> QED
    BY <1>1, <1>2, <1>3, SumOfNone

LEMMA BackOnce ==
    ASSUME EndBounds, EndInv
    PROVE  RestGivenBackOnce
  <1> DEFINE all == {"pending", "done", "dead_letter"}
             rest == IF row.status = "cancelled" THEN Qty - row.filled ELSE 0
  <1>1. /\ EndTypes /\ GivenBack
        /\ given \in Nat /\ rest \in Nat /\ Qty - row.filled \in Nat
    BY DEF EndInv, EndTypes, EndBounds, Rows
  <1>2. CASE blind
    BY <1>2 DEF RestGivenBackOnce, Ends!RestGivenBackOnce
  <1>3. CASE NoCancel /\ given >= rest /\ (rest = 0 \/ given # 0)
    <2>1. Ends!Amount("cancel", all) = 0
      BY <1>1, <1>3, AmountOfNone
    <2>2. Ends!SagaStatus("cancel") = "not found"
      <3>1. {i \in DOMAIN entries : entries[i].saga = "cancel"} = {}
        BY <1>3 DEF NoCancel
      <3> QED
        BY <3>1 DEF Ends!SagaStatus
    <2>3. /\ 0 + given >= rest /\ (given = 0 => 0 = rest)
      BY <1>1, <1>3
    <2> HIDE DEF rest
    <2>4. /\ Ends!Amount("cancel", all) + given >= rest
          /\ given = 0 => Ends!Amount("cancel", all) = rest
          /\ Ends!SagaStatus("cancel") # "completed"
      BY <2>1, <2>2, <2>3, Zenon
    <2> QED
      BY <2>4 DEF RestGivenBackOnce, Ends!RestGivenBackOnce, rest
  <1>4. CASE OneCancel(rest)
    <2>1. PICK i \in DOMAIN entries :
            /\ entries[i].saga = "cancel" /\ entries[i].amount = rest
            /\ \A j \in DOMAIN entries : j # i => entries[j].saga # "cancel"
      BY <1>4 DEF OneCancel
    <2>2. entries[i].status \in all
      <3>1. entries \in Seq(EndEntries)
        BY <1>1 DEF EndTypes
      <3>2. entries[i] \in EndEntries
        BY <2>1, <3>1
      <3> QED
        BY <3>2 DEF EndEntries
    <2> HIDE DEF rest, all
    <2>3. Ends!Amount("cancel", all) = rest
      BY <1>1, <2>1, <2>2, AmountOfOne
    <2>4. ASSUME Ends!SagaStatus("cancel") = "completed"
          PROVE  Ends!Amount("cancel", {"done"}) = rest
      <3>1. entries[i].status = "done"
        BY <2>1, <2>4 DEF Ends!SagaStatus
      <3>2. entries[i].status \in {"done"} /\ rest \in Int
        BY <1>1, <3>1
      <3> QED
        BY <1>1, <2>1, <3>2, AmountOfOne, ZenonT(30)
    <2>5. Ends!Amount("cancel", all) + given >= rest
      BY <1>1, <2>3
    <2> QED
      BY <2>3, <2>4, <2>5 DEF RestGivenBackOnce, Ends!RestGivenBackOnce, rest, all
  <1>5. ~blind => \/ NoCancel /\ given >= rest /\ (rest = 0 \/ given # 0)
                  \/ OneCancel(rest)
    BY <1>1 DEF GivenBack
  <1> QED
    BY <1>2, <1>3, <1>4, <1>5

\* While no handler has written blindly, what is given back of a cancelled order
\* is what was not filled, at least; once and exactly that, as long as the
\* gateway and the order service have given back nothing themselves.
THEOREM RestComesBack ==
    ASSUME MaxHandlers \in Nat, Qty \in Nat, Fills \subseteq 0..Qty
    PROVE  Ends!Spec => []RestGivenBackOnce
  <1>0. EndBounds
    BY DEF EndBounds
  <1>1. EndInv => RestGivenBackOnce
    BY <1>0, BackOnce
  <1> QED
    BY <1>0, <1>1, EndsHold, PTL

-----------------------------------------------------------------------------
(* The rate limiter's windows *)

\* A time is in the window that begins where its division by the length says.
LEMMA WindowIs ==
    ASSUME NEW t \in Nat, NEW w \in Nat \ {0}
    PROVE  /\ Limiter!WindowStart(w, t) \in Nat
           /\ Limiter!WindowStart(w, t) <= t /\ t < Limiter!WindowStart(w, t) + w
BY DEF Limiter!WindowStart

LEMMA LimiterCardinality == ASSUME NEW S PROVE Limiter!Cardinality(S) = Cardinality(S)
BY Zenon DEF Limiter!Cardinality, Cardinality

RequestStates ==
    {"new", "asking", "checked", "judged", "passed", "limited", "unavailable"}

LimiterTypes ==
    /\ now \in 0..MaxTime
    /\ zset \in [Limiter!WindowKeys -> SUBSET Limiter!Requests]
    /\ expires \in [Limiter!WindowKeys -> Int]
    /\ requestPC \in [Limiter!Requests -> RequestStates]
    /\ asked \in [Limiter!Requests -> 0..MaxTime]
    /\ stamp \in [Limiter!Requests -> Int]
    /\ result \in [Limiter!Requests -> {"none", "ok", "full", "error", "refused"}]
    /\ DOMAIN path = Limiter!Requests

\* What is known of a request that has entered, and of one that has not.
Entered(r) ==
    /\ requestPC[r] \in {"new", "asking"} =>
            stamp[r] = Limiter!NoStamp /\ result[r] = "none" /\ r \notin slow
    /\ requestPC[r] = "asking" \/ stamp[r] # Limiter!NoStamp =>
            path[r] \in Paths /\ Limiter!PolicyFor(path[r]) \in DOMAIN Policies
    /\ stamp[r] # Limiter!NoStamp => stamp[r] \in 0..MaxTime
    /\ result[r] = "ok" => stamp[r] # Limiter!NoStamp

Length(r) == Limiter!PolicyOf(r).window

\* The requests counted under the key k were in time, and their windows are no
\* shorter than w.
Fit(k, w) ==
    \A q \in Limiter!Ran : Limiter!Key(q) = k => Limiter!Straight(q) /\ Length(q) >= w

\* Nobody in time is counted under the key k in a window of length w any more.
Over(k, w) == k.start + w + TTLBuffer <= now

\* Redis has q, and keeps it until then.
Lasting(q) ==
    /\ q \in zset[Limiter!Key(q)]
    /\ Limiter!Key(q).start + Length(q) + TTLBuffer <= expires[Limiter!Key(q)]

\* Those that were admitted under the key k by the policy p.
Like(k, p) ==
    {q \in Limiter!Allowed : Limiter!Key(q) = k /\ Limiter!PolicyFor(path[q]) = p}

LEMMA LikeIs ==
    ASSUME NEW k, NEW p, NEW q
    PROVE  q \in Like(k, p) <=> /\ q \in Limiter!Allowed
                               /\ Limiter!Key(q) = k /\ Limiter!PolicyFor(path[q]) = p
BY DEF Like

\* Redis keeps whom it has admitted as long as it matters, where all fit.
WindowsRight ==
    /\ \A k \in Limiter!WindowKeys : \A q \in zset[k] :
            q \in Limiter!Ran /\ Limiter!Key(q) = k
    /\ \A r \in Limiter!Allowed : Fit(Limiter!Key(r), Length(r)) =>
            Lasting(r) \/ Over(Limiter!Key(r), Length(r))
    /\ \A k \in Limiter!WindowKeys, p \in DOMAIN Policies :
            Fit(k, Policies[p].window) =>
                Like(k, p) = {} \/ Cardinality(Like(k, p)) <= Policies[p].max

LimiterInv ==
    /\ LimiterTypes
    /\ \A r \in Limiter!Requests : Entered(r)
    /\ WindowsRight

LEMMA LimiterBounds ==
    ASSUME Limiter!LimiterAssumption
    PROVE  /\ \A p \in DOMAIN Policies : /\ Policies[p].scope \in Limiter!Scopes
                                         /\ Policies[p].window \in Nat \ {0}
                                         /\ Policies[p].max \in Int
           /\ DOMAIN Policies \subseteq Nat
           /\ TTLBuffer \in Nat /\ MaxTime \in Nat /\ MaxRequests \in Nat
           /\ IsFiniteSet(Limiter!Requests)
  <1> DEFINE P == [paths : SUBSET Paths, scope : Limiter!Scopes, window : Nat \ {0}, max : Int]
  <1>1. /\ Policies \in Seq(P)
        /\ TTLBuffer \in Nat /\ MaxTime \in Nat /\ MaxRequests \in Nat
    BY DEF Limiter!LimiterAssumption
  <1>2. ASSUME NEW p \in DOMAIN Policies
        PROVE  /\ Policies[p].scope \in Limiter!Scopes
               /\ Policies[p].window \in Nat \ {0} /\ Policies[p].max \in Int
    <2> HIDE DEF P
    <2>1. Policies[p] \in P
      BY <1>1
    <2> QED
      BY <2>1 DEF P
  <1>3. IsFiniteSet(Limiter!Requests)
    BY <1>1, FS_Interval DEF Limiter!Requests
  <1>4. DOMAIN Policies \subseteq Nat
    <2> HIDE DEF P
    <2> QED
      BY <1>1
  <1> QED
    BY <1>1, <1>2, <1>3, <1>4

\* A path that some policy covers has the first of them.
LEMMA PolicyIs ==
    ASSUME Limiter!LimiterAssumption, NEW p, Limiter!PolicyFor(p) # Limiter!None
    PROVE  Limiter!PolicyFor(p) \in DOMAIN Policies
  <1> DEFINE matching == {i \in DOMAIN Policies :
                            Policies[i].paths = {} \/ p \in Policies[i].paths}
  <1>1. matching # {} /\ Limiter!PolicyFor(p) =
            CHOOSE i \in matching : \A j \in matching : i <= j
    BY DEF Limiter!PolicyFor
  <1>2. matching \subseteq Nat
    BY LimiterBounds
  <1> HIDE DEF matching
  <1>3. \E i \in matching : \A j \in matching : i <= j
    BY <1>1, <1>2, LeastNumber
  <1>4. Limiter!PolicyFor(p) \in matching
    BY <1>1, <1>3
  <1> QED
    BY <1>4 DEF matching

\* A request that a policy covers has a key, of a window that it was asked in.
LEMMA KeyIs ==
    ASSUME Limiter!LimiterAssumption, LimiterTypes, NEW r \in Limiter!Requests,
           path[r] \in Paths, Limiter!PolicyFor(path[r]) \in DOMAIN Policies
    PROVE  /\ Limiter!Key(r) \in Limiter!WindowKeys
           /\ Limiter!Key(r).start \in Nat /\ Limiter!Key(r).start <= asked[r]
           /\ Length(r) \in Nat \ {0} /\ Limiter!PolicyOf(r).max \in Int
           /\ Limiter!PolicyOf(r) = Policies[Limiter!PolicyFor(path[r])]
  <1> DEFINE policy == Policies[Limiter!PolicyFor(path[r])]
             of == IF policy.scope = "api" THEN path[r] ELSE "address"
             start == Limiter!WindowStart(policy.window, asked[r])
  <1>1. /\ policy.scope \in Limiter!Scopes /\ of \in Paths \cup {"address"}
        /\ policy.window \in Nat \ {0} /\ policy.max \in Int
    BY LimiterBounds
  <1>2. start \in 0..MaxTime /\ start <= asked[r]
    <2>1. asked[r] \in Nat /\ asked[r] <= MaxTime /\ MaxTime \in Nat
      BY LimiterBounds DEF LimiterTypes
    <2>2. start \in Nat /\ start <= asked[r]
      BY <1>1, <2>1, WindowIs
    <2> HIDE DEF start
    <2> QED
      BY <2>1, <2>2
  <1>3. Limiter!Key(r) = [scope |-> policy.scope, of |-> of, start |-> start]
    BY DEF Limiter!Key, Limiter!KeyFor
  <1>4. Limiter!PolicyOf(r) = policy /\ Length(r) = policy.window
    BY DEF Limiter!PolicyOf, Length
  <1> HIDE DEF policy, of, start
  <1>5. /\ Limiter!Key(r) \in Limiter!WindowKeys /\ Limiter!Key(r).start = start
        /\ start \in Nat
    BY <1>1, <1>2, <1>3, LimiterBounds DEF Limiter!WindowKeys, Limiter!Times
  <1> QED
    BY <1>1, <1>2, <1>4, <1>5 DEF policy

\* A request that has run has its key, and if it was in time the window of the
\* key has its stamp.
LEMMA RanIs ==
    ASSUME Limiter!LimiterAssumption, LimiterInv, NEW q \in Limiter!Ran
    PROVE  /\ q \in Limiter!Requests /\ Limiter!Key(q) \in Limiter!WindowKeys
           /\ Limiter!Key(q).start \in Nat /\ Length(q) \in Nat \ {0} /\ stamp[q] \in Nat
           /\ Limiter!Straight(q) => /\ Limiter!Key(q).start <= stamp[q]
                                     /\ stamp[q] < Limiter!Key(q).start + Length(q)
  <1>1. /\ q \in Limiter!Requests /\ path[q] \in Paths
        /\ Limiter!PolicyFor(path[q]) \in DOMAIN Policies
        /\ stamp[q] \in 0..MaxTime /\ LimiterTypes
    BY DEF LimiterInv, Entered, Limiter!Ran
  <1>2. /\ Limiter!Key(q) \in Limiter!WindowKeys
        /\ Limiter!Key(q).start \in Nat /\ Length(q) \in Nat \ {0}
    BY <1>1, KeyIs
  <1>3. stamp[q] \in Nat
    BY <1>1, LimiterBounds
  <1>4. ASSUME Limiter!Straight(q)
        PROVE  /\ Limiter!Key(q).start <= stamp[q]
               /\ stamp[q] < Limiter!Key(q).start + Length(q)
    BY <1>2, <1>3, <1>4, WindowIs DEF Limiter!Straight, Length
  <1> QED
    BY <1>1, <1>2, <1>3, <1>4

\* What the steps besides the script's change of no request that has run.
LEMMA LimiterStays ==
    ASSUME Limiter!LimiterAssumption, LimiterInv, LimiterTypes',
           \A r \in Limiter!Requests : Entered(r)',
           UNCHANGED <<zset, expires, stamp, slow>>, now <= now',
           \A r \in Limiter!Requests : result'[r] = "ok" => result[r] = "ok",
           \A r \in Limiter!Ran : path'[r] = path[r] /\ asked'[r] = asked[r]
    PROVE  LimiterInv'
  <1>1. Limiter!Ran' = Limiter!Ran /\ Limiter!Allowed' \subseteq Limiter!Allowed
    BY DEF Limiter!Ran, Limiter!Allowed
  <1>2. Limiter!Allowed \subseteq Limiter!Ran /\ IsFiniteSet(Limiter!Allowed)
    <2>1. Limiter!Allowed \subseteq Limiter!Ran
      BY DEF LimiterInv, Entered, Limiter!Ran, Limiter!Allowed
    <2>2. Limiter!Allowed \subseteq Limiter!Requests
      BY DEF Limiter!Allowed
    <2> QED
      BY <2>1, <2>2, LimiterBounds, FS_Subset
  <1>3. \A q \in Limiter!Ran : /\ Limiter!Key(q)' = Limiter!Key(q)
                               /\ Length(q)' = Length(q)
                               /\ Limiter!Straight(q)' = Limiter!Straight(q)
    BY DEF Limiter!Key, Limiter!PolicyOf, Length, Limiter!Straight
  <1>4. \A k, w : Fit(k, w)' <=> Fit(k, w)
    BY <1>1, <1>3 DEF Fit
  <1>5. \A k, p : Like(k, p)' \subseteq Like(k, p)
    BY <1>1, <1>2, <1>3 DEF Like
  <1>6. \A k \in Limiter!WindowKeys : \A q \in zset'[k] :
            q \in Limiter!Ran' /\ Limiter!Key(q)' = k
    BY <1>1, <1>3 DEF LimiterInv, WindowsRight
  <1>7. ASSUME NEW r \in Limiter!Allowed', Fit(Limiter!Key(r), Length(r))'
        PROVE  Lasting(r)' \/ Over(Limiter!Key(r), Length(r))'
    <2>1. /\ r \in Limiter!Allowed /\ r \in Limiter!Ran
          /\ Limiter!Key(r)' = Limiter!Key(r) /\ Length(r)' = Length(r)
      BY <1>1, <1>2, <1>3
    <2>2. Fit(Limiter!Key(r), Length(r))
      BY <1>1, <1>3, <1>7, <2>1 DEF Fit
    <2>3. Lasting(r) \/ Over(Limiter!Key(r), Length(r))
      BY <2>1, <2>2 DEF LimiterInv, WindowsRight
    <2>4. CASE Lasting(r)
      BY <2>1, <2>4 DEF Lasting
    <2>5. CASE Over(Limiter!Key(r), Length(r))
      <3>1. /\ Limiter!Key(r).start \in Nat /\ Length(r) \in Nat /\ TTLBuffer \in Nat
            /\ now \in Int /\ now' \in Int
        BY <2>1, RanIs, LimiterBounds DEF LimiterInv, LimiterTypes
      <3> QED
        BY <2>1, <2>5, <3>1 DEF Over
    <2> QED
      BY <2>3, <2>4, <2>5
  <1>8. ASSUME NEW k \in Limiter!WindowKeys, NEW p \in DOMAIN Policies,
               Fit(k, Policies[p].window)'
        PROVE  Like(k, p)' = {} \/ Cardinality(Like(k, p)') <= Policies[p].max
    <2>1. Like(k, p) = {} \/ Cardinality(Like(k, p)) <= Policies[p].max
      BY <1>4, <1>8 DEF LimiterInv, WindowsRight
    <2>2. IsFiniteSet(Like(k, p))
      <3>1. Like(k, p) \subseteq Limiter!Allowed
        BY DEF Like
      <3> QED
        BY <1>2, <3>1, FS_Subset
    <2>3. /\ Cardinality(Like(k, p)') <= Cardinality(Like(k, p))
          /\ Cardinality(Like(k, p)) \in Nat /\ Cardinality(Like(k, p)') \in Nat
      BY <1>5, <2>2, FS_Subset, FS_CardinalityType
    <2>4. Policies[p].max \in Int
      BY LimiterBounds
    <2> QED
      BY <1>5, <2>1, <2>3, <2>4
  <1>9. WindowsRight'
    BY <1>6, <1>7, <1>8 DEF WindowsRight
  <1> QED
    BY <1>9 DEF LimiterInv

\* The script runs.
LEMMA ScriptRuns ==
    ASSUME Limiter!LimiterAssumption, LimiterInv, NEW r \in Limiter!Requests,
           NEW t \in Limiter!Times, NEW answered \in BOOLEAN, Limiter!Run(r, t, answered),
           NEW k, k = Limiter!Key(r)
    PROVE  LimiterInv'
  <1> DEFINE kept == Limiter!Kept(r, t)
             full == ~Limiter!Admitted(r, t)
             until == now + Length(r) + TTLBuffer
  <1>1. /\ requestPC[r] = "asking" /\ t \in asked[r]..now /\ t \in 0..MaxTime /\ now' = now
        /\ stamp' = [stamp EXCEPT ![r] = t]
        /\ zset' = [zset EXCEPT ![k] = kept \cup (IF full THEN {} ELSE {r})]
        /\ requestPC' = [requestPC EXCEPT ![r] = "checked"]
        /\ slow' = (IF now < t + TTLBuffer THEN slow ELSE slow \cup {r})
        /\ UNCHANGED <<path, asked>>
    BY DEF Limiter!Run, Limiter!Times
  <1>2. /\ result' = [result EXCEPT ![r] = IF ~answered THEN "error"
                                           ELSE IF full THEN "full" ELSE "ok"]
        /\ expires' = IF full THEN expires ELSE [expires EXCEPT ![k] = until]
    BY DEF Limiter!Run, Length
  <1>3. /\ LimiterTypes /\ path[r] \in Paths /\ Limiter!PolicyFor(path[r]) \in DOMAIN Policies
        /\ stamp[r] = Limiter!NoStamp /\ result[r] = "none" /\ asked[r] \in 0..MaxTime
        /\ r \notin slow
    BY <1>1 DEF LimiterInv, Entered, LimiterTypes
  <1>4. /\ k \in Limiter!WindowKeys /\ k.start \in Nat /\ k.start <= asked[r]
        /\ Length(r) \in Nat \ {0} /\ Limiter!PolicyOf(r).max \in Int
        /\ Limiter!PolicyOf(r) = Policies[Limiter!PolicyFor(path[r])]
    BY <1>3, KeyIs
  <1>5. zset[k] \subseteq Limiter!Ran /\ kept \subseteq zset[k]
    BY <1>3, <1>4 DEF LimiterInv, WindowsRight, Limiter!Kept, Limiter!Live
  <1>t. /\ t \in Nat /\ now \in Nat /\ TTLBuffer \in Nat /\ asked[r] \in Nat
        /\ asked[r] <= t /\ t <= now /\ until \in Int /\ k.start <= t
    BY <1>1, <1>3, <1>4, LimiterBounds DEF LimiterTypes
  <1>k. kept = {q \in (IF now < expires[k] THEN zset[k] ELSE {}) : stamp[q] > t - Length(r)}
    BY DEF Limiter!Kept, Limiter!Live, Length
  <1>u. until >= k.start + Length(r) + TTLBuffer
    BY <1>4, <1>t
  <1> HIDE DEF kept, full, until
  <1>6. /\ stamp'[r] = t /\ \A q \in Limiter!Requests \ {r} : stamp'[q] = stamp[q]
        /\ result'[r] = (IF ~answered THEN "error" ELSE IF full THEN "full" ELSE "ok")
        /\ \A q \in Limiter!Requests \ {r} : result'[q] = result[q]
        /\ zset'[k] = kept \cup (IF full THEN {} ELSE {r})
        /\ \A l \in Limiter!WindowKeys \ {k} : zset'[l] = zset[l]
        /\ expires'[k] = (IF full THEN expires[k] ELSE until)
        /\ \A l \in Limiter!WindowKeys \ {k} : expires'[l] = expires[l]
    BY <1>1, <1>2, <1>3, <1>4 DEF LimiterTypes
  <1>7. t # Limiter!NoStamp /\ t \in Int
    BY <1>t DEF Limiter!NoStamp
  <1>8. r \notin Limiter!Ran /\ Limiter!Ran' = Limiter!Ran \cup {r}
    BY <1>3, <1>6, <1>7 DEF Limiter!Ran
  <1>9. LimiterTypes'
    <2>1. kept \cup (IF full THEN {} ELSE {r}) \in SUBSET Limiter!Requests
      BY <1>5 DEF Limiter!Ran
    <2>2. zset' \in [Limiter!WindowKeys -> SUBSET Limiter!Requests]
      BY <1>1, <1>3, <2>1 DEF LimiterTypes
    <2>3. expires' \in [Limiter!WindowKeys -> Int]
      BY <1>2, <1>3, <1>t DEF LimiterTypes
    <2> QED
      BY <1>1, <1>2, <1>3, <1>7, <2>2, <2>3 DEF LimiterTypes, RequestStates
  <1>10. ASSUME NEW q \in Limiter!Requests
         PROVE  Entered(q)'
    <2>1. CASE q = r
      BY <1>1, <1>3, <1>6, <1>7, <2>1 DEF Entered, LimiterTypes
    <2>2. CASE q # r
      BY <1>1, <1>3, <1>6, <2>2 DEF Entered, LimiterInv, LimiterTypes
    <2> QED
      BY <2>1, <2>2
  <1>11. ASSUME NEW q PROVE Limiter!Key(q)' = Limiter!Key(q) /\ Length(q)' = Length(q)
    BY <1>1 DEF Limiter!Key, Limiter!PolicyOf, Length
  <1>12. ASSUME NEW q \in Limiter!Ran
         PROVE  Limiter!Straight(q)' <=> Limiter!Straight(q)
    <2>1. q \in Limiter!Requests \ {r}
      BY <1>8 DEF Limiter!Ran
    <2>2. q \in slow' <=> q \in slow
      BY <1>1, <2>1
    <2>3. stamp'[q] = stamp[q] /\ Limiter!PolicyOf(q)' = Limiter!PolicyOf(q)
            /\ Limiter!Key(q)' = Limiter!Key(q)
      BY <1>1, <1>6, <1>11, <2>1 DEF Limiter!PolicyOf
    <2> QED
      BY <2>2, <2>3 DEF Limiter!Straight
  <1>13. ASSUME NEW l, NEW w PROVE Fit(l, w)' => Fit(l, w)
    BY <1>8, <1>11, <1>12 DEF Fit
  \* Where all fit, r was in time and its window is the longest.
  <1>r. ASSUME NEW w, Fit(k, w)'
        PROVE  Length(r) >= w /\ t < k.start + Length(r) /\ now < t + TTLBuffer
    <2>1. Limiter!Straight(r)' /\ Length(r)' >= w
      BY <1>8, <1>11, <1>r DEF Fit
    <2>2. Limiter!WindowStart(Length(r), t) = k.start /\ r \notin slow'
      BY <1>1, <1>6, <1>11, <2>1 DEF Limiter!Straight, Length, Limiter!PolicyOf
    <2> QED
      BY <1>1, <1>4, <1>11, <1>t, <2>1, <2>2, WindowIs
  \* Whom the script drops there nobody counts any more.
  <1>14. ASSUME NEW q \in zset[k], NEW w \in Nat, Fit(k, w)', now < expires[k]
         PROVE  q \in kept
    <2>1. q \in Limiter!Ran /\ Limiter!Key(q) = k
      BY <1>4 DEF LimiterInv, WindowsRight
    <2>2. Limiter!Straight(q)
      BY <1>13, <1>14, <2>1 DEF Fit
    <2>3. stamp[q] \in Nat /\ k.start <= stamp[q]
      BY <2>1, <2>2, RanIs
    <2>4. stamp[q] > t - Length(r)
      BY <1>4, <1>14, <1>r, <1>t, <2>3
    <2> QED
      BY <1>14, <1>k, <2>4
  <1>15. \A l \in Limiter!WindowKeys : \A q \in zset'[l] :
            q \in Limiter!Ran' /\ Limiter!Key(q)' = l
    <2>1. TAKE l \in Limiter!WindowKeys
    <2>2. TAKE q \in zset'[l]
    <2>3. CASE q \in zset[l]
      BY <1>8, <1>11, <2>3 DEF LimiterInv, WindowsRight
    <2>4. CASE q \notin zset[l]
      <3>1. l = k /\ q = r
        BY <1>5, <1>6, <2>4
      <3> QED
        BY <1>8, <1>11, <3>1
    <2> QED
      BY <2>3, <2>4
  <1>16. Limiter!Allowed' = Limiter!Allowed \cup (IF answered /\ ~full THEN {r} ELSE {})
            /\ r \notin Limiter!Allowed
    <2>1. \A q \in Limiter!Requests \ {r} : q \in Limiter!Allowed' <=> q \in Limiter!Allowed
      BY <1>6 DEF Limiter!Allowed
    <2>2. r \in Limiter!Allowed' <=> answered /\ ~full
      BY <1>6 DEF Limiter!Allowed
    <2>3. r \notin Limiter!Allowed
      BY <1>3 DEF Limiter!Allowed
    <2>4. Limiter!Allowed \subseteq Limiter!Requests /\ Limiter!Allowed' \subseteq Limiter!Requests
      BY DEF Limiter!Allowed
    <2> QED
      BY <2>1, <2>2, <2>3, <2>4
  <1>17. ASSUME NEW q \in Limiter!Allowed', Fit(Limiter!Key(q), Length(q))'
         PROVE  Lasting(q)' \/ Over(Limiter!Key(q), Length(q))'
    <2>1. CASE q = r
      <3>1. ~full
        BY <1>16, <2>1
      <3>2. Limiter!Key(q)' = k /\ Length(q)' = Length(r)
        BY <1>11, <2>1
      <3>3. r \in zset'[k] /\ expires'[k] = until
        BY <1>6, <3>1
      <3> QED
        BY <1>u, <2>1, <3>2, <3>3 DEF Lasting
    <2>2. CASE q # r
      <3>0. PICK l, w : l = Limiter!Key(q) /\ w = Length(q)
        OBVIOUS
      <3>1. q \in Limiter!Allowed /\ q \in Limiter!Ran
        BY <1>16, <2>2 DEF LimiterInv, Entered, Limiter!Allowed, Limiter!Ran
      <3>2. l \in Limiter!WindowKeys /\ l.start \in Nat /\ w \in Nat
        BY <3>0, <3>1, RanIs
      <3>5. Limiter!Key(q)' = l /\ Length(q)' = w
        BY <1>11, <3>0
      <3>f. Fit(l, w)'
        BY <1>17, <3>5 DEF Fit
      <3>3. Fit(l, w)
        BY <1>13, <3>f
      <3>4. Lasting(q) \/ Over(l, w)
        BY <3>0, <3>1, <3>3 DEF LimiterInv, WindowsRight
      <3>6. Over(l, w) => Over(Limiter!Key(q), Length(q))'
        BY <1>1, <3>5 DEF Over
      <3>7. CASE Lasting(q) /\ l # k
        BY <1>6, <3>0, <3>2, <3>5, <3>7 DEF Lasting
      <3>8. CASE Lasting(q) /\ l = k /\ ~Over(l, w)
        <4>1. q \in zset[k] /\ k.start + w + TTLBuffer <= expires[k]
          BY <3>0, <3>8 DEF Lasting
        <4>2. expires[k] \in Int
          BY <1>3, <1>4 DEF LimiterTypes
        <4>3. now < expires[k]
          BY <1>t, <3>2, <3>8, <4>1, <4>2 DEF Over
        <4>4. q \in kept
          BY <1>14, <3>2, <3>8, <3>f, <4>1, <4>3
        <4>5. Length(r) >= w
          BY <1>r, <3>8, <3>f
        <4>6. k.start + w + TTLBuffer <= expires'[k]
          <5>1. k.start + w + TTLBuffer <= until
            BY <1>4, <1>t, <1>u, <3>2, <4>5
          <5> QED
            BY <1>6, <4>1, <5>1
        <4>7. q \in zset'[k]
          BY <1>6, <4>4
        <4> QED
          BY <3>5, <3>8, <4>6, <4>7 DEF Lasting
      <3> QED
        BY <3>4, <3>6, <3>7, <3>8
    <2> QED
      BY <2>1, <2>2
  <1>18. ASSUME NEW l \in Limiter!WindowKeys, NEW p \in DOMAIN Policies,
                Fit(l, Policies[p].window)'
         PROVE  Like(l, p)' = {} \/ Cardinality(Like(l, p)') <= Policies[p].max
    <2>1. Like(l, p) = {} \/ Cardinality(Like(l, p)) <= Policies[p].max
      BY <1>13, <1>18 DEF LimiterInv, WindowsRight
    <2>2. CASE r \in Limiter!Allowed' /\ l = k /\ p = Limiter!PolicyFor(path[r])
      <3>1. answered /\ ~full /\ Policies[p].window = Length(r) /\ Fit(k, Length(r))'
        <4>1. answered /\ ~full
          BY <1>16, <2>2
        <4>2. Policies[p].window = Length(r)
          BY <1>4, <2>2 DEF Length
        <4>3. Fit(k, Policies[p].window)'
          BY <1>18, <2>2
        <4>4. (Policies[p].window)' = Length(r)'
          BY <1>11, <4>2
        <4> QED
          BY <4>1, <4>2, <4>3, <4>4 DEF Fit
      <3>2. Like(k, p) \subseteq kept
        <4>1. ASSUME NEW q \in Like(k, p) PROVE q \in kept
          <5>1. /\ q \in Limiter!Allowed /\ Limiter!Key(q) = k
                /\ Limiter!PolicyFor(path[q]) = p
            BY LikeIs
          <5>2. Length(q) = Length(r)
            BY <3>1, <5>1 DEF Length, Limiter!PolicyOf
          <5>3. Fit(k, Length(r))
            BY <1>8, <1>11, <1>12, <3>1 DEF Fit
          <5>4. Lasting(q) \/ Over(k, Length(r))
            BY <5>1, <5>2, <5>3 DEF LimiterInv, WindowsRight
          <5>5. now < k.start + Length(r) + TTLBuffer
            <6>1. Length(r) \in Nat /\ Fit(k, Length(r))'
              BY <1>4, <3>1
            <6>2. t < k.start + Length(r) /\ now < t + TTLBuffer
              BY <1>8, <1>11, <1>r, <3>1, <6>1 DEF Fit
            <6> QED
              BY <1>4, <1>t, <6>2
          <5>6. Lasting(q)
            BY <1>4, <1>t, <5>4, <5>5 DEF Over
          <5>7. q \in zset[k] /\ k.start + Length(r) + TTLBuffer <= expires[k]
            BY <5>1, <5>2, <5>6 DEF Lasting
          <5>8. now < expires[k]
            <6>1. expires[k] \in Int
              BY <1>3, <1>4 DEF LimiterTypes
            <6> QED
              BY <1>4, <1>t, <5>5, <5>7, <6>1
          <5>9. Length(r) \in Nat
            BY <1>4
          <5>10. PICK w : w = Length(r)
            OBVIOUS
          <5>11. Fit(k, w)'
            BY <1>11, <3>1, <5>10 DEF Fit
          <5> QED
            BY <1>14, <5>7, <5>8, <5>9, <5>10, <5>11
        <4> QED
          BY <4>1
      <3>3. IsFiniteSet(kept)
        <4>1. kept \subseteq Limiter!Requests
          BY <1>5 DEF Limiter!Ran
        <4> QED
          BY <4>1, LimiterBounds, FS_Subset
      <3>4. Cardinality(kept) < Policies[p].max
        <4>1. Limiter!Cardinality(kept) < Policies[p].max
          BY <1>4, <2>2, <3>1 DEF full, kept, Limiter!Admitted
        <4> QED
          BY <4>1, LimiterCardinality
      <3>5. /\ Cardinality(Like(k, p)) <= Cardinality(kept) /\ IsFiniteSet(Like(k, p))
            /\ Cardinality(Like(k, p)) \in Nat /\ Cardinality(kept) \in Nat
        BY <3>2, <3>3, FS_Subset, FS_CardinalityType
      <3>6. Like(l, p)' = Like(k, p) \cup {r}
        <4>1. Limiter!Allowed' = Limiter!Allowed \cup {r}
          BY <1>16, <3>1
        <4> QED
          BY <1>1, <1>11, <2>2, <4>1, SMT DEF Like
      <3>7. r \notin Like(k, p)
        BY <1>16 DEF Like
      <3>8. Cardinality(Like(l, p)') = Cardinality(Like(k, p)) + 1
        BY <3>5, <3>6, <3>7, FS_AddElement
      <3>9. Policies[p].max \in Int
        BY LimiterBounds
      <3> QED
        BY <3>4, <3>5, <3>8, <3>9
    <2>3. CASE ~(r \in Limiter!Allowed' /\ l = k /\ p = Limiter!PolicyFor(path[r]))
      <3>1. Like(l, p)' = Like(l, p)
        <4>1. ASSUME NEW q PROVE q \in Like(l, p)' <=> q \in Like(l, p)
          <5>1. CASE q = r
            BY <1>1, <1>11, <1>16, <2>3, <5>1 DEF Like
          <5>2. CASE q # r
            BY <1>1, <1>11, <1>16, <5>2 DEF Like
          <5> QED
            BY <5>1, <5>2
        <4> QED
          BY <4>1 DEF Like
      <3> QED
        BY <2>1, <3>1
    <2> QED
      BY <2>2, <2>3
  <1>19. WindowsRight'
    BY <1>15, <1>17, <1>18 DEF WindowsRight
  <1> QED
    BY <1>9, <1>10, <1>19 DEF LimiterInv

\* The other steps.
LEMMA EnterStays ==
    ASSUME Limiter!LimiterAssumption, LimiterInv, NEW r \in Limiter!Requests,
           NEW p \in Paths, Limiter!Enter(r, p)
    PROVE  LimiterInv'
  <1>1. /\ requestPC[r] = "new" /\ Limiter!PolicyFor(p) # Limiter!None
        /\ path' = [path EXCEPT ![r] = p] /\ asked' = [asked EXCEPT ![r] = now]
        /\ requestPC' = [requestPC EXCEPT ![r] = "asking"]
        /\ UNCHANGED <<now, zset, expires, stamp, result, slow>>
    BY DEF Limiter!Enter, Limiter!Comes, Limiter!redis
  <1>2. LimiterTypes /\ LimiterTypes'
    BY <1>1 DEF LimiterInv, LimiterTypes, RequestStates
  <1>3. stamp[r] = Limiter!NoStamp /\ result[r] = "none" /\ r \notin slow
    BY <1>1 DEF LimiterInv, Entered
  <1>4. Limiter!PolicyFor(p) \in DOMAIN Policies
    BY <1>1, PolicyIs
  <1>5. ASSUME NEW q \in Limiter!Requests PROVE Entered(q)'
    <2>1. CASE q = r
      BY <1>1, <1>2, <1>3, <1>4, <2>1 DEF Entered, LimiterTypes
    <2>2. CASE q # r
      BY <1>1, <1>2, <2>2 DEF Entered, LimiterInv, LimiterTypes
    <2> QED
      BY <2>1, <2>2
  <1>6. \A q \in Limiter!Ran : path'[q] = path[q] /\ asked'[q] = asked[q]
    BY <1>1, <1>2, <1>3 DEF Limiter!Ran, LimiterTypes
  <1>7. now <= now'
    BY <1>1, <1>2 DEF LimiterTypes
  <1> QED
    BY <1>1, <1>2, <1>5, <1>6, <1>7, LimiterStays

LEMMA OthersStay ==
    ASSUME Limiter!LimiterAssumption, LimiterInv, NEW r \in Limiter!Requests,
           Limiter!Refuse(r) \/ Limiter!Miss(r) \/ Limiter!Leave(r) \/ Limiter!Judge(r)
    PROVE  LimiterInv'
  <1>1. LimiterTypes /\ Entered(r)
    BY DEF LimiterInv
  <1>2. UNCHANGED <<now, zset, expires, path, asked, stamp, slow>>
    BY DEF Limiter!Refuse, Limiter!Miss, Limiter!Leave, Limiter!Judge, Limiter!redis
  <1>3. \E to \in {"checked", "judged", "passed", "limited", "unavailable"} :
            requestPC' = [requestPC EXCEPT ![r] = to]
    BY DEF Limiter!Refuse, Limiter!Miss, Limiter!Leave, Limiter!Judge
  <1>4. \/ result' = result
        \/ \E what \in {"error", "refused"} : result' = [result EXCEPT ![r] = what]
    BY DEF Limiter!Refuse, Limiter!Miss, Limiter!Leave, Limiter!Judge
  <1>5. LimiterTypes'
    BY <1>1, <1>2, <1>3, <1>4 DEF LimiterTypes, RequestStates
  <1>6. ASSUME NEW q \in Limiter!Requests
        PROVE  /\ requestPC'[q] = requestPC[q] \/ requestPC'[q] \notin {"new", "asking"}
               /\ result'[q] = result[q] \/ (q = r /\ result'[q] # "ok")
    BY <1>1, <1>3, <1>4 DEF LimiterTypes
  <1>7. ASSUME NEW q \in Limiter!Requests PROVE Entered(q)'
    <2>1. Entered(q)
      BY DEF LimiterInv
    <2>2. CASE q = r
      <3>1. requestPC'[r] \notin {"new", "asking"}
        BY <1>1, <1>3 DEF LimiterTypes
      <3> QED
        BY <1>2, <1>6, <2>1, <2>2, <3>1 DEF Entered
    <2>3. CASE q # r
      BY <1>2, <1>6, <2>1, <2>3 DEF Entered
    <2> QED
      BY <2>2, <2>3
  <1>8. \A q \in Limiter!Requests : result'[q] = "ok" => result[q] = "ok"
    BY <1>6
  <1>9. now <= now'
    BY <1>1, <1>2 DEF LimiterTypes
  <1> QED
    BY <1>2, <1>5, <1>7, <1>8, <1>9, LimiterStays

LEMMA LimiterStutters ==
    ASSUME Limiter!LimiterAssumption, LimiterInv, now' \in 0..MaxTime, now <= now',
           UNCHANGED <<zset, expires, requestPC, path, asked, stamp, result, slow>>
    PROVE  LimiterInv'
  <1>1. LimiterTypes'
    BY DEF LimiterInv, LimiterTypes
  <1>2. \A q \in Limiter!Requests : Entered(q)'
    BY DEF LimiterInv, Entered
  <1> QED
    BY <1>1, <1>2, LimiterStays

LEMMA LimiterBegins ==
    ASSUME Limiter!LimiterAssumption, Limiter!Init
    PROVE  LimiterInv
  <1>1. LimiterTypes
    BY LimiterBounds DEF Limiter!Init, LimiterTypes, RequestStates, Limiter!NoStamp
  <1>2. \A r \in Limiter!Requests : Entered(r)
    BY DEF Limiter!Init, Entered
  <1>3. Limiter!Allowed = {}
    BY DEF Limiter!Init, Limiter!Allowed
  <1>4. \A k \in Limiter!WindowKeys : zset[k] = {}
    BY DEF Limiter!Init
  <1>5. \A k, p : Like(k, p) = {}
    BY <1>3 DEF Like
  <1>6. WindowsRight
    BY <1>3, <1>4, <1>5, LimiterBounds DEF WindowsRight
  <1> QED
    BY <1>1, <1>2, <1>6 DEF LimiterInv

LEMMA LimiterStep ==
    ASSUME Limiter!LimiterAssumption, LimiterInv, [Limiter!Next]_(Limiter!vars)
    PROVE  LimiterInv'
  <1>1. ASSUME NEW r \in Limiter!Requests, NEW p \in Paths, Limiter!Enter(r, p)
        PROVE  LimiterInv'
    BY <1>1, EnterStays
  <1>2. ASSUME NEW r \in Limiter!Requests, Limiter!Refuse(r) PROVE LimiterInv'
    BY <1>2, OthersStay
  <1>3. ASSUME NEW r \in Limiter!Requests, Limiter!Serve(r) PROVE LimiterInv'
    <2>1. ASSUME NEW t \in Limiter!Times, NEW answered \in BOOLEAN,
                 Limiter!Run(r, t, answered)
          PROVE  LimiterInv'
      BY <2>1, ScriptRuns
    <2> QED
      BY <1>3, <2>1, OthersStay DEF Limiter!Serve
  <1>4. ASSUME Limiter!Tick PROVE LimiterInv'
    <2>1. now' = now + 1 /\ now < MaxTime
            /\ UNCHANGED <<zset, expires, requestPC, path, asked, stamp, result, slow>>
      BY <1>4 DEF Limiter!Tick, Limiter!redis
    <2>2. now' \in 0..MaxTime /\ now <= now'
      BY <2>1, LimiterBounds DEF LimiterInv, LimiterTypes
    <2> QED
      BY <2>1, <2>2, LimiterStutters
  <1>5. ASSUME Limiter!Expire PROVE LimiterInv'
    BY <1>5, LimiterStutters DEF Limiter!Expire, Limiter!redis, LimiterInv, LimiterTypes
  <1>6. ASSUME UNCHANGED Limiter!vars PROVE LimiterInv'
    BY <1>6, LimiterStutters DEF Limiter!vars, Limiter!redis, LimiterInv, LimiterTypes
  <1> QED
    BY <1>1, <1>2, <1>3, <1>4, <1>5, <1>6 DEF Limiter!Next

LEMMA LimiterBound ==
    ASSUME Limiter!LimiterAssumption, LimiterInv
    PROVE  WindowBound
  <1>1. SUFFICES ASSUME NEW r \in Limiter!Allowed, Fit(Limiter!Key(r), Length(r))
                 PROVE  Cardinality(Like(Limiter!Key(r), Limiter!PolicyFor(path[r])))
                            <= Limiter!PolicyOf(r).max
    BY <1>1, LimiterCardinality
       DEF WindowBound, Limiter!WindowBound, Fit, Length, Like
  <1>2. r \in Limiter!Requests /\ stamp[r] # Limiter!NoStamp /\ LimiterTypes
    BY DEF LimiterInv, Entered, Limiter!Allowed
  <1>3. path[r] \in Paths /\ Limiter!PolicyFor(path[r]) \in DOMAIN Policies
    BY <1>2 DEF LimiterInv, Entered
  <1>4. /\ Limiter!Key(r) \in Limiter!WindowKeys
        /\ Limiter!PolicyOf(r) = Policies[Limiter!PolicyFor(path[r])]
    BY <1>2, <1>3, KeyIs
  <1>5. r \in Like(Limiter!Key(r), Limiter!PolicyFor(path[r]))
    BY DEF Like
  <1> QED
    BY <1>1, <1>3, <1>4, <1>5 DEF LimiterInv, WindowsRight, Length

\* For any policies and their windows, however their requests interleave: Redis
\* lets no more requests through under a key than the limit of their policy,
\* unless one counted there was late or of a policy with a shorter window.
THEOREM WindowIsBounded ==
    ASSUME Limiter!LimiterAssumption
    PROVE  Limiter!Spec => []WindowBound
  <1>1. Limiter!Init => LimiterInv
    BY LimiterBegins
  <1>2. LimiterInv /\ [Limiter!Next]_(Limiter!vars) => LimiterInv'
    BY LimiterStep
  <1>3. LimiterInv => WindowBound
    BY LimiterBound
  <1> QED
    BY <1>1, <1>2, <1>3, PTL DEF Limiter!Spec

-----------------------------------------------------------------------------
(* The rate limiter's breaker *)

LimiterBreakers == Limiter!Breaker(Limiter!Requests)

\* The requests that Redis has answered, and those of them who have left the breaker.
LimiterAnswered == {r \in Limiter!Requests : result[r] \in {"ok", "full"}}
LimiterCounted == {r \in LimiterAnswered : requestPC[r] \notin {"asking", "checked"}}

\* The failures in a row that trip the breaker at the latest.
Enough(n) == Limiter!Greater(FailureThreshold, Limiter!Greater(MinRequests, n + MaxInFlight - 1))

\* The counts of a closed breaker: what it has admitted is inside, has failed
\* or was answered, and who is in flight but not inside is yet to pass
\* unchecked, if it does.
CountsRight(b, answered, counted, flight, passed) ==
    /\ b.failing <= b.failures
    /\ b.failures + Cardinality(b.inside) <= b.requests
    /\ b.requests <= b.failures + Cardinality(b.inside) + Cardinality(counted)
    /\ b.failing < Enough(Cardinality(answered))
    /\ passed + Cardinality(flight \ b.inside) < b.failing + MaxInFlight

LEMMA OutageBounds ==
    ASSUME Limiter!LimiterAssumption
    PROVE  /\ MinRequests \in Nat \ {0} /\ FailureThreshold \in Nat \ {0}
           /\ MaxInFlight \in Nat \ {0} /\ MaxRequests \in Nat
           /\ IsFiniteSet(Limiter!Requests)
BY FS_Interval DEF Limiter!LimiterAssumption, Limiter!Requests

LEMMA EnoughIs ==
    ASSUME Limiter!LimiterAssumption, NEW n \in Nat
    PROVE  /\ Enough(n) \in Nat /\ Enough(n) >= FailureThreshold
           /\ Enough(n) >= MinRequests /\ Enough(n) >= n + MaxInFlight - 1
           /\ \A m \in Nat : n <= m => Enough(n) <= Enough(m)
BY OutageBounds DEF Enough, Limiter!Greater

LEMMA LimiterFields ==
    ASSUME NEW b \in LimiterBreakers
    PROVE  /\ b.state \in {"closed", "open", "half-open"} /\ b.due \in BOOLEAN
           /\ b.requests \in Nat /\ b.failures \in Nat /\ b.failing \in Nat
           /\ b.succeeding \in Nat /\ b.inside \in SUBSET Limiter!Requests
BY DEF LimiterBreakers, Limiter!Breaker

LEMMA GenerationIs ==
    ASSUME NEW s \in {"closed", "open", "half-open"}
    PROVE  LET g == Limiter!NewGeneration(s) IN
            /\ g \in LimiterBreakers /\ g.state = s /\ ~g.due /\ g.inside = {}
            /\ g.requests = 0 /\ g.failures = 0 /\ g.failing = 0
BY DEF LimiterBreakers, Limiter!Breaker, Limiter!NewGeneration

LEMMA LimiterEntered ==
    ASSUME NEW b \in LimiterBreakers, NEW r \in Limiter!Requests
    PROVE  LET e == Limiter!Entered(b, r) IN
            /\ e \in LimiterBreakers /\ e.state = b.state /\ e.due = b.due
            /\ e.requests = b.requests + 1 /\ e.failures = b.failures
            /\ e.failing = b.failing /\ e.inside = b.inside \cup {r}
  <1> DEFINE e == Limiter!Entered(b, r)
             n == b.requests + 1
             i == b.inside \cup {r}
  <1>1. n \in Nat /\ i \in SUBSET Limiter!Requests
    BY LimiterFields
  <1>2. e = [b EXCEPT !.requests = n, !.inside = i]
    BY DEF Limiter!Entered
  <1> HIDE DEF e, n, i
  <1>3. /\ e \in LimiterBreakers /\ e.state = b.state /\ e.due = b.due
        /\ e.requests = n /\ e.failures = b.failures
        /\ e.failing = b.failing /\ e.inside = i
    BY <1>1, <1>2 DEF LimiterBreakers, Limiter!Breaker
  <1> QED
    BY <1>3 DEF e, n, i

LEMMA LimiterCounts ==
    ASSUME NEW b \in LimiterBreakers, NEW r \in Limiter!Requests
    PROVE  LET c == Limiter!Counted(b, r) IN
            /\ c \in LimiterBreakers /\ c.state = b.state /\ c.due = b.due
            /\ c.requests = b.requests /\ c.failures = b.failures + 1
            /\ c.failing = b.failing + 1 /\ c.inside = b.inside \ {r}
  <1> DEFINE c == Limiter!Counted(b, r)
             f == b.failures + 1
             n == b.failing + 1
             i == b.inside \ {r}
  <1>1. f \in Nat /\ n \in Nat /\ i \in SUBSET Limiter!Requests
    BY LimiterFields
  <1>2. c = [b EXCEPT !.failures = f, !.failing = n, !.succeeding = 0, !.inside = i]
    BY DEF Limiter!Counted
  <1> HIDE DEF c, f, n, i
  <1>3. /\ c \in LimiterBreakers /\ c.state = b.state /\ c.due = b.due
        /\ c.requests = b.requests /\ c.failures = f
        /\ c.failing = n /\ c.inside = i
    BY <1>1, <1>2 DEF LimiterBreakers, Limiter!Breaker
  <1> QED
    BY <1>3 DEF c, f, n, i

LEMMA LimiterSucceeds ==
    ASSUME NEW b \in LimiterBreakers, NEW r \in b.inside
    PROVE  LET s == Limiter!Succeeded(b, r) IN
            \/ b.state = "half-open" /\ s = Limiter!Closed
            \/ /\ s \in LimiterBreakers /\ s.state = b.state /\ s.due = b.due
               /\ s.requests = b.requests /\ s.failures = b.failures
               /\ s.failing = 0 /\ s.inside = b.inside \ {r}
  <1> DEFINE n == b.succeeding + 1
             i == b.inside \ {r}
             c == [b EXCEPT !.succeeding = n, !.failing = 0, !.inside = i]
  <1>1. n \in Nat /\ i \in SUBSET Limiter!Requests
    BY LimiterFields
  <1>2. \/ b.state = "half-open" /\ Limiter!Succeeded(b, r) = Limiter!Closed
        \/ Limiter!Succeeded(b, r) = c
    BY DEF Limiter!Succeeded
  <1> HIDE DEF n, i
  <1>3. /\ c \in LimiterBreakers /\ c.state = b.state /\ c.due = b.due
        /\ c.requests = b.requests /\ c.failures = b.failures
        /\ c.failing = 0 /\ c.inside = i
    BY <1>1 DEF LimiterBreakers, Limiter!Breaker
  <1> HIDE DEF c
  <1> QED
    BY <1>2, <1>3 DEF i

LEMMA OneOut ==
    ASSUME NEW S, IsFiniteSet(S), NEW x \in S
    PROVE  /\ Cardinality(S) \in Nat /\ Cardinality(S \ {x}) \in Nat
           /\ Cardinality(S) = Cardinality(S \ {x}) + 1
           /\ IsFiniteSet(S \ {x})
  <1>1. Cardinality(S \ {x}) = Cardinality(S) - 1 /\ IsFiniteSet(S \ {x})
    BY FS_RemoveElement
  <1> QED
    BY <1>1, FS_CardinalityType

LEMMA OneIn ==
    ASSUME NEW S, IsFiniteSet(S), NEW x, x \notin S
    PROVE  /\ Cardinality(S) \in Nat /\ IsFiniteSet(S \cup {x})
           /\ Cardinality(S \cup {x}) = Cardinality(S) + 1
BY FS_AddElement, FS_CardinalityType

LEMMA PartOf ==
    ASSUME NEW S, IsFiniteSet(S), NEW T, T \subseteq S
    PROVE  /\ Cardinality(S) \in Nat /\ Cardinality(T) \in Nat
           /\ Cardinality(T) <= Cardinality(S) /\ IsFiniteSet(T)
BY FS_Subset, FS_CardinalityType

\* The sets that the counts are about.
CountsSets(b, answered, counted, flight, passed) ==
    /\ Limiter!LimiterAssumption
    /\ b \in LimiterBreakers /\ b.inside \subseteq flight
    /\ IsFiniteSet(flight) /\ IsFiniteSet(answered) /\ counted \subseteq answered
    /\ Cardinality(flight) <= MaxInFlight /\ passed \in Nat

LEMMA CountsFacts ==
    ASSUME NEW b, NEW A, NEW C, NEW F, NEW u, CountsSets(b, A, C, F, u)
    PROVE  /\ Cardinality(A) \in Nat /\ Cardinality(C) \in Nat
           /\ Cardinality(C) <= Cardinality(A) /\ IsFiniteSet(C)
           /\ Cardinality(F) \in Nat /\ Cardinality(b.inside) \in Nat
           /\ Cardinality(b.inside) <= Cardinality(F) /\ IsFiniteSet(b.inside)
           /\ Cardinality(F \ b.inside) \in Nat /\ IsFiniteSet(F \ b.inside)
           /\ Cardinality(F \ b.inside) <= Cardinality(F)
           /\ b.requests \in Nat /\ b.failures \in Nat /\ b.failing \in Nat
           /\ u \in Nat /\ Cardinality(F) <= MaxInFlight
           /\ MaxInFlight \in Nat \ {0} /\ MinRequests \in Nat \ {0}
           /\ FailureThreshold \in Nat \ {0}
           /\ Enough(Cardinality(A)) \in Nat
           /\ Enough(Cardinality(A)) >= FailureThreshold
           /\ Enough(Cardinality(A)) >= MinRequests
           /\ Enough(Cardinality(A)) >= Cardinality(A) + MaxInFlight - 1
  <1>1. /\ b \in LimiterBreakers /\ b.inside \subseteq F /\ Limiter!LimiterAssumption
        /\ IsFiniteSet(F) /\ IsFiniteSet(A) /\ C \subseteq A
        /\ Cardinality(F) <= MaxInFlight /\ u \in Nat
    BY DEF CountsSets
  <1>2. /\ Cardinality(A) \in Nat /\ Cardinality(C) \in Nat
        /\ Cardinality(C) <= Cardinality(A) /\ IsFiniteSet(C)
    BY <1>1, PartOf
  <1>3. /\ Cardinality(F) \in Nat /\ Cardinality(b.inside) \in Nat
        /\ Cardinality(b.inside) <= Cardinality(F) /\ IsFiniteSet(b.inside)
    BY <1>1, PartOf
  <1>4. /\ Cardinality(F \ b.inside) \in Nat /\ IsFiniteSet(F \ b.inside)
        /\ Cardinality(F \ b.inside) <= Cardinality(F)
    <2>1. F \ b.inside \subseteq F
      OBVIOUS
    <2> QED
      BY <1>1, <2>1, PartOf
  <1>5. /\ Enough(Cardinality(A)) \in Nat
        /\ Enough(Cardinality(A)) >= FailureThreshold
        /\ Enough(Cardinality(A)) >= MinRequests
        /\ Enough(Cardinality(A)) >= Cardinality(A) + MaxInFlight - 1
    BY <1>1, <1>2, EnoughIs
  <1> QED
    BY <1>1, <1>2, <1>3, <1>4, <1>5, OutageBounds, LimiterFields

\* A request enters the closed breaker.
LEMMA CountsEnter ==
    ASSUME NEW b, NEW A, NEW C, NEW F, NEW u, CountsSets(b, A, C, F, u),
           CountsRight(b, A, C, F, u), NEW r \in Limiter!Requests, r \notin F
    PROVE  CountsRight(Limiter!Entered(b, r), A, C, F \cup {r}, u)
  <1> DEFINE e == Limiter!Entered(b, r)
  <1>1. /\ e.due = b.due /\ e.requests = b.requests + 1 /\ e.failures = b.failures
        /\ e.failing = b.failing /\ e.inside = b.inside \cup {r}
    BY LimiterEntered DEF CountsSets
  <1> HIDE DEF e
  <1>2. Cardinality(e.inside) = Cardinality(b.inside) + 1
    BY <1>1, CountsFacts, OneIn DEF CountsSets
  <1>3. (F \cup {r}) \ e.inside = F \ b.inside
    BY <1>1
  <1>4. /\ Cardinality(b.inside) \in Nat /\ Cardinality(C) \in Nat
        /\ b.requests \in Nat /\ b.failures \in Nat
    BY CountsFacts
  <1>5. /\ b.failures + Cardinality(b.inside) <= b.requests
        /\ b.requests <= b.failures + Cardinality(b.inside) + Cardinality(C)
    BY DEF CountsRight
  <1>6. /\ e.failures + Cardinality(e.inside) <= e.requests
        /\ e.requests <= e.failures + Cardinality(e.inside) + Cardinality(C)
    BY <1>1, <1>2, <1>4, <1>5
  <1> QED
    BY <1>1, <1>3, <1>6 DEF CountsRight, e

\* Its check has succeeded.
LEMMA CountsSucceed ==
    ASSUME NEW b, NEW A, NEW C, NEW F, NEW u, CountsSets(b, A, C, F, u),
           CountsRight(b, A, C, F, u), NEW r \in F, r \notin C, b.state = "closed"
    PROVE  CountsRight(Limiter!Succeeded(b, r), A, C \cup {r}, F \ {r}, 0)
  <1> DEFINE s == Limiter!Succeeded(b, r)
             in == Cardinality(b.inside)
             nc == Cardinality(C)
             nf == Cardinality(F)
             stray == Cardinality((F \ {r}) \ s.inside)
  <1>1. Cardinality(C \cup {r}) = nc + 1
    BY CountsFacts, OneIn
  <1>2. nf = Cardinality(F \ {r}) + 1 /\ IsFiniteSet(F \ {r}) /\ Cardinality(F \ {r}) \in Nat
    BY OneOut DEF CountsSets
  <1>3. stray \in Nat /\ stray <= Cardinality(F \ {r})
    <2>1. (F \ {r}) \ s.inside \subseteq F \ {r}
      OBVIOUS
    <2> QED
      BY <1>2, <2>1, PartOf
  <1>4. /\ in \in Nat /\ nc \in Nat /\ nf \in Nat /\ nf <= MaxInFlight /\ MaxInFlight \in Nat
        /\ b.requests \in Nat /\ b.failures \in Nat /\ b.failing \in Nat
        /\ Enough(Cardinality(A)) \in Nat /\ Enough(Cardinality(A)) >= FailureThreshold
        /\ FailureThreshold \in Nat \ {0}
    BY CountsFacts
  <1>5. /\ b.failing <= b.failures /\ b.failures + in <= b.requests
        /\ b.requests <= b.failures + in + nc /\ b.failing < Enough(Cardinality(A))
    BY DEF CountsRight
  <1>6. CASE r \in b.inside
    <2>1. /\ s.due = b.due /\ s.requests = b.requests /\ s.failures = b.failures
          /\ s.failing = 0 /\ s.inside = b.inside \ {r}
      BY <1>6, LimiterSucceeds DEF CountsSets
    <2>2. in = Cardinality(s.inside) + 1 /\ Cardinality(s.inside) \in Nat
      <3>1. IsFiniteSet(b.inside)
        BY CountsFacts
      <3>2. in = Cardinality(b.inside \ {r}) + 1 /\ Cardinality(b.inside \ {r}) \in Nat
        BY <1>6, <3>1, OneOut
      <3> QED
        BY <2>1, <3>2
    <2> HIDE DEF s, in, nc, nf, stray
    <2>3. /\ s.failures + Cardinality(s.inside) <= s.requests
          /\ s.requests <= s.failures + Cardinality(s.inside) + (nc + 1)
      BY <1>4, <1>5, <2>1, <2>2
    <2>4. s.failing <= s.failures /\ s.failing < Enough(Cardinality(A))
            /\ 0 + stray < s.failing + MaxInFlight
      BY <1>2, <1>3, <1>4, <1>5, <2>1
    <2> QED
      BY <1>1, <2>3, <2>4 DEF CountsRight, s, stray
  <1>7. CASE r \notin b.inside
    <2>1. s = b
      BY <1>7 DEF Limiter!Succeeded
    <2> HIDE DEF s, in, nc, nf, stray
    <2>2. 0 + stray < s.failing + MaxInFlight
      BY <1>2, <1>3, <1>4, <2>1
    <2>3. s.requests <= s.failures + in + (nc + 1)
      BY <1>4, <1>5, <2>1
    <2> QED
      BY <1>1, <1>5, <2>1, <2>2, <2>3 DEF CountsRight, s, stray, in
  <1> QED
    BY <1>6, <1>7

\* One after which the half-open breaker closes.
LEMMA CountsClosed ==
    ASSUME NEW b, NEW A, NEW C, NEW F, NEW u, CountsSets(b, A, C, F, u), NEW r \in F
    PROVE  CountsRight(Limiter!Closed, A, C \cup {r}, F \ {r}, 0)
  <1> DEFINE s == Limiter!Closed
             stray == Cardinality((F \ {r}) \ s.inside)
  <1>1. /\ ~s.due /\ s.inside = {} /\ s.requests = 0 /\ s.failures = 0 /\ s.failing = 0
    BY GenerationIs DEF Limiter!Closed
  <1>2. /\ Cardinality(F) = Cardinality(F \ {r}) + 1 /\ Cardinality(F \ {r}) \in Nat
    BY OneOut DEF CountsSets
  <1>3. stray = Cardinality(F \ {r})
    BY <1>1
  <1>4. Cardinality(C \cup {r}) \in Nat
    <2>1. IsFiniteSet(C \cup {r})
      BY CountsFacts, FS_AddElement
    <2> QED
      BY <2>1, FS_CardinalityType
  <1>5. Cardinality(s.inside) = 0
    BY <1>1, FS_EmptySet
  <1> HIDE DEF s, stray
  <1>6. /\ s.failing <= s.failures /\ s.failures + Cardinality(s.inside) <= s.requests
        /\ s.requests <= s.failures + Cardinality(s.inside) + Cardinality(C \cup {r})
    BY <1>1, <1>4, <1>5
  <1>7. s.failing < Enough(Cardinality(A)) /\ 0 + stray < s.failing + MaxInFlight
    <2>1. /\ Cardinality(F) <= MaxInFlight /\ MaxInFlight \in Nat
          /\ FailureThreshold \in Nat \ {0} /\ Enough(Cardinality(A)) \in Nat
          /\ Enough(Cardinality(A)) >= FailureThreshold
      BY CountsFacts
    <2> QED
      BY <1>1, <1>2, <1>3, <2>1
  <1> QED
    BY <1>1, <1>6, <1>7 DEF CountsRight, s, stray

\* A failure that does not trip the breaker.
LEMMA CountsFail ==
    ASSUME NEW b, NEW A, NEW C, NEW F, NEW u, CountsSets(b, A, C, F, u),
           CountsRight(b, A, C, F, u), NEW r \in b.inside,
           ~Limiter!ReadyToTrip(Limiter!Counted(b, r))
    PROVE  CountsRight(Limiter!Counted(b, r), A, C, F, u)
  <1> DEFINE c == Limiter!Counted(b, r)
             in == Cardinality(b.inside)
             out == Cardinality(c.inside)
             na == Cardinality(A)
             nc == Cardinality(C)
             nf == Cardinality(F)
             stray == Cardinality(F \ b.inside)
             enough == Enough(na)
  <1>1. /\ c.due = b.due /\ c.requests = b.requests /\ c.failures = b.failures + 1
        /\ c.failing = b.failing + 1 /\ c.inside = b.inside \ {r}
    BY LimiterCounts, LimiterFields DEF CountsSets
  <1>2. in = out + 1 /\ out \in Nat
    <2>1. IsFiniteSet(b.inside)
      BY CountsFacts
    <2>2. in = Cardinality(b.inside \ {r}) + 1 /\ Cardinality(b.inside \ {r}) \in Nat
      BY <2>1, OneOut
    <2> QED
      BY <1>1, <2>2
  <1>3. /\ in \in Nat /\ na \in Nat /\ nc \in Nat /\ nf \in Nat /\ nc <= na /\ in <= nf
        /\ nf <= MaxInFlight /\ stray \in Nat
        /\ b.requests \in Nat /\ b.failures \in Nat /\ b.failing \in Nat /\ u \in Nat
        /\ MaxInFlight \in Nat /\ MinRequests \in Nat /\ FailureThreshold \in Nat
        /\ enough \in Nat /\ enough >= FailureThreshold /\ enough >= MinRequests
        /\ enough >= na + MaxInFlight - 1
    BY CountsFacts
  <1>4. /\ b.failing <= b.failures /\ b.failures + in <= b.requests
        /\ b.requests <= b.failures + in + nc /\ b.failing < enough
        /\ u + stray < b.failing + MaxInFlight
    BY DEF CountsRight
  <1>5. Cardinality(F \ c.inside) = stray + 1
    <2>1. r \in F /\ F \ c.inside = (F \ b.inside) \cup {r} /\ r \notin F \ b.inside
      BY <1>1 DEF CountsSets
    <2> QED
      BY <2>1, CountsFacts, OneIn
  <1>6. \/ c.requests < MinRequests \/ 2 * c.failures < c.requests
        \/ c.failing < FailureThreshold
    <2>1. ~(c.requests >= MinRequests /\ 2 * c.failures >= c.requests
                /\ c.failing >= FailureThreshold)
      BY DEF Limiter!ReadyToTrip
    <2> HIDE DEF c
    <2> QED
      BY <1>1, <1>3, <2>1
  <1> HIDE DEF c, in, out, na, nc, nf, stray, enough
  <1>7. c.failing < enough
    <2>1. CASE c.failing < FailureThreshold
      BY <1>1, <1>3, <2>1
    <2>2. CASE c.requests < MinRequests
      BY <1>1, <1>2, <1>3, <1>4, <2>2
    <2>3. CASE 2 * c.failures < c.requests
      BY <1>1, <1>2, <1>3, <1>4, <2>3
    <2> QED
      BY <1>6, <2>1, <2>2, <2>3
  <1>8. /\ c.failing <= c.failures /\ c.failures + out <= c.requests
        /\ c.requests <= c.failures + out + nc
        /\ u + (stray + 1) < c.failing + MaxInFlight
    BY <1>1, <1>2, <1>3, <1>4
  <1> QED
    BY <1>5, <1>7, <1>8 DEF CountsRight, c, out, na, nc, enough

\* A request whose check has failed passes.
LEMMA CountsPass ==
    ASSUME NEW b, NEW A, NEW C, NEW F, NEW u, CountsSets(b, A, C, F, u),
           CountsRight(b, A, C, F, u), NEW r \in F, r \notin b.inside
    PROVE  CountsRight(b, A, C, F \ {r}, u + 1)
  <1>1. (F \ {r}) \ b.inside = (F \ b.inside) \ {r}
    OBVIOUS
  <1>2. Cardinality(F \ b.inside) = Cardinality((F \ {r}) \ b.inside) + 1
            /\ Cardinality((F \ {r}) \ b.inside) \in Nat
    BY <1>1, CountsFacts, OneOut
  <1>3. u + 1 + Cardinality((F \ {r}) \ b.inside) < b.failing + MaxInFlight
    <2>1. b.failing \in Nat /\ u \in Nat /\ MaxInFlight \in Nat
      BY CountsFacts
    <2>2. u + Cardinality(F \ b.inside) < b.failing + MaxInFlight
      BY DEF CountsRight
    <2> QED
      BY <1>2, <2>1, <2>2
  <1> QED
    BY <1>3 DEF CountsRight

\* One more is answered.
LEMMA CountsAnswer ==
    ASSUME NEW b, NEW A, NEW C, NEW F, NEW u, CountsSets(b, A, C, F, u),
           CountsRight(b, A, C, F, u), NEW B, IsFiniteSet(B), A \subseteq B
    PROVE  CountsRight(b, B, C, F, u)
  <1>1. Cardinality(A) <= Cardinality(B) /\ Cardinality(B) \in Nat
    BY PartOf
  <1>2. Enough(Cardinality(A)) <= Enough(Cardinality(B)) /\ Enough(Cardinality(B)) \in Nat
    BY <1>1, CountsFacts, EnoughIs DEF CountsSets
  <1>3. b.failing < Enough(Cardinality(B))
    <2>1. b.failing \in Nat /\ Enough(Cardinality(A)) \in Nat
      BY CountsFacts
    <2>2. b.failing < Enough(Cardinality(A))
      BY DEF CountsRight
    <2> QED
      BY <1>2, <2>1, <2>2
  <1> QED
    BY <1>3 DEF CountsRight

OutageTypes ==
    /\ requestPC \in [Limiter!Requests -> RequestStates]
    /\ result \in [Limiter!Requests -> {"none", "ok", "full", "error", "refused"}]
    /\ breaker \in LimiterBreakers /\ unchecked \in Nat

\* A request has an answer once it has asked.
AnswerFits(r) ==
    /\ requestPC[r] \in {"new", "asking"} => result[r] = "none"
    /\ requestPC[r] = "checked" => result[r] \in {"ok", "full", "error"}

OutageInv ==
    /\ OutageTypes
    /\ \A r \in Limiter!Requests : AnswerFits(r)
    /\ breaker.due => breaker.state = "open"
    /\ \A r \in breaker.inside : requestPC[r] \in {"asking", "checked"}
    /\ Cardinality(Limiter!InFlight) <= MaxInFlight
    /\ breaker.state = "closed" =>
            CountsRight(breaker, LimiterAnswered, LimiterCounted, Limiter!InFlight, unchecked)

\* The breaker as whoever asks it finds it.
LEMMA LimiterCurrent ==
    ASSUME OutageInv
    PROVE  LET b == Limiter!Current(breaker) IN
            /\ b \in LimiterBreakers /\ ~b.due
            /\ b.inside \subseteq breaker.inside
            /\ b.state = "closed" => b = breaker
  <1>1. breaker \in LimiterBreakers /\ (breaker.due => breaker.state = "open")
    BY DEF OutageInv, OutageTypes
  <1>2. CASE ~breaker.due
    BY <1>1, <1>2 DEF Limiter!Current
  <1>3. CASE breaker.due
    <2>1. Limiter!Current(breaker) = Limiter!NewGeneration("half-open")
      BY <1>1, <1>3 DEF Limiter!Current
    <2> QED
      BY <2>1, GenerationIs
  <1> QED
    BY <1>1, <1>2, <1>3 DEF LimiterBreakers, Limiter!Breaker

LEMMA OutageSets ==
    ASSUME Limiter!LimiterAssumption, OutageInv
    PROVE  /\ CountsSets(breaker, LimiterAnswered, LimiterCounted, Limiter!InFlight, unchecked)
           /\ Limiter!InFlight \subseteq Limiter!Requests
           /\ LimiterAnswered \subseteq Limiter!Requests
  <1>1. Limiter!InFlight \subseteq Limiter!Requests /\ LimiterAnswered \subseteq Limiter!Requests
    BY DEF Limiter!InFlight, LimiterAnswered
  <1>2. IsFiniteSet(Limiter!InFlight) /\ IsFiniteSet(LimiterAnswered)
    BY <1>1, OutageBounds, PartOf
  <1>3. LimiterCounted \subseteq LimiterAnswered
    BY DEF LimiterCounted
  <1>4. /\ breaker \in LimiterBreakers /\ unchecked \in Nat
        /\ Cardinality(Limiter!InFlight) <= MaxInFlight
    BY DEF OutageInv, OutageTypes
  <1>5. breaker.inside \subseteq Limiter!InFlight
    <2>1. breaker.inside \subseteq Limiter!Requests
      BY <1>4, LimiterFields
    <2> QED
      BY <2>1 DEF OutageInv, Limiter!InFlight
  <1> QED
    BY <1>1, <1>2, <1>3, <1>4, <1>5 DEF CountsSets

\* A request goes elsewhere: who is in flight then.
LEMMA LimiterFlight ==
    ASSUME requestPC \in [Limiter!Requests -> RequestStates],
           NEW r \in Limiter!Requests, NEW to \in RequestStates,
           requestPC' = [requestPC EXCEPT ![r] = to]
    PROVE  /\ requestPC' \in [Limiter!Requests -> RequestStates]
           /\ requestPC'[r] = to
           /\ \A q \in Limiter!Requests \ {r} : requestPC'[q] = requestPC[q]
           /\ to \in {"asking", "checked", "judged"} =>
                    Limiter!InFlight' = Limiter!InFlight \cup {r}
           /\ to \notin {"asking", "checked", "judged"} =>
                    Limiter!InFlight' = Limiter!InFlight \ {r}
  <1>1. requestPC'[r] = to /\ \A q \in Limiter!Requests \ {r} : requestPC'[q] = requestPC[q]
    OBVIOUS
  <1> QED
    BY <1>1 DEF Limiter!InFlight

LEMMA OutageComes ==
    ASSUME Limiter!LimiterAssumption, OutageInv, NEW r \in Limiter!Requests, Limiter!Comes(r)
    PROVE  /\ requestPC[r] = "new" /\ r \notin Limiter!InFlight /\ result[r] = "none"
           /\ Cardinality(Limiter!InFlight \cup {r}) <= MaxInFlight
           /\ r \notin breaker.inside
  <1>1. requestPC[r] = "new" /\ Cardinality(Limiter!InFlight) < MaxInFlight
    BY LimiterCardinality DEF Limiter!Comes
  <1>2. r \notin Limiter!InFlight /\ result[r] = "none" /\ r \notin breaker.inside
    BY <1>1 DEF OutageInv, Limiter!InFlight, AnswerFits
  <1>3. Cardinality(Limiter!InFlight \cup {r}) = Cardinality(Limiter!InFlight) + 1
            /\ Cardinality(Limiter!InFlight) \in Nat
    BY <1>2, OutageSets, OneIn DEF CountsSets
  <1> QED
    BY <1>1, <1>2, <1>3, OutageBounds

\* A request comes.
LEMMA OutageEnters ==
    ASSUME Limiter!LimiterAssumption, OutageInv, NEW r \in Limiter!Requests, NEW p,
           Limiter!Enter(r, p)
    PROVE  OutageInv'
  <1> DEFINE b == Limiter!Current(breaker)
  <1>1. /\ Limiter!Comes(r) /\ breaker' = Limiter!Entered(b, r)
        /\ requestPC' = [requestPC EXCEPT ![r] = "asking"] /\ UNCHANGED <<result, unchecked>>
    BY DEF Limiter!Enter
  <1>2. OutageTypes
    BY DEF OutageInv
  <1>3. /\ b \in LimiterBreakers /\ ~b.due /\ b.inside \subseteq breaker.inside
        /\ b.state = "closed" => b = breaker
    BY LimiterCurrent
  <1> HIDE DEF b
  <1>4. /\ breaker' \in LimiterBreakers /\ breaker'.state = b.state /\ breaker'.due = b.due
        /\ breaker'.inside = b.inside \cup {r}
    BY <1>1, <1>3, LimiterEntered
  <1>5. /\ requestPC' \in [Limiter!Requests -> RequestStates] /\ requestPC'[r] = "asking"
        /\ \A q \in Limiter!Requests \ {r} : requestPC'[q] = requestPC[q]
        /\ Limiter!InFlight' = Limiter!InFlight \cup {r}
    BY <1>1, <1>2, LimiterFlight DEF OutageTypes, RequestStates
  <1>6. OutageTypes'
    BY <1>1, <1>2, <1>4, <1>5 DEF OutageTypes
  <1>7. /\ requestPC[r] = "new" /\ r \notin Limiter!InFlight /\ result[r] = "none"
        /\ Cardinality(Limiter!InFlight') <= MaxInFlight
    BY <1>1, <1>5, OutageComes
  <1>8. \A q \in Limiter!Requests : AnswerFits(q)'
    BY <1>1, <1>5, <1>7 DEF OutageInv, AnswerFits
  <1>9. \A q \in breaker'.inside : requestPC'[q] \in {"asking", "checked"}
    <2>1. breaker.inside \subseteq Limiter!Requests
      BY <1>2, LimiterFields DEF OutageTypes
    <2> QED
      BY <1>3, <1>4, <1>5, <2>1 DEF OutageInv
  <1>10. LimiterAnswered' = LimiterAnswered /\ LimiterCounted' = LimiterCounted
    <2>1. LimiterAnswered' = LimiterAnswered /\ r \notin LimiterAnswered
      BY <1>1, <1>7 DEF LimiterAnswered
    <2> QED
      BY <1>5, <2>1 DEF LimiterCounted, LimiterAnswered
  <1>11. ASSUME breaker'.state = "closed"
         PROVE  CountsRight(breaker', LimiterAnswered', LimiterCounted', Limiter!InFlight', unchecked')
    <2>1. b = breaker /\ breaker.state = "closed"
      BY <1>3, <1>4, <1>11
    <2>2. CountsRight(breaker, LimiterAnswered, LimiterCounted, Limiter!InFlight, unchecked)
      BY <2>1 DEF OutageInv
    <2>3. CountsRight(Limiter!Entered(breaker, r), LimiterAnswered, LimiterCounted,
                      Limiter!InFlight \cup {r}, unchecked)
      BY <1>7, <2>2, OutageSets, CountsEnter
    <2> QED
      BY <1>1, <1>5, <1>10, <2>1, <2>3
  <1> QED
    BY <1>3, <1>4, <1>6, <1>7, <1>8, <1>9, <1>11 DEF OutageInv

LEMMA OutageRefuses ==
    ASSUME Limiter!LimiterAssumption, OutageInv, NEW r \in Limiter!Requests, Limiter!Refuse(r)
    PROVE  OutageInv'
  <1> DEFINE b == Limiter!Current(breaker)
  <1>1. /\ Limiter!Comes(r) /\ breaker' = b /\ b.state # "closed"
        /\ requestPC' = [requestPC EXCEPT ![r] = "judged"]
        /\ result' = [result EXCEPT ![r] = "refused"] /\ UNCHANGED unchecked
    BY DEF Limiter!Refuse, Limiter!Admits
  <1>2. OutageTypes
    BY DEF OutageInv
  <1>3. b \in LimiterBreakers /\ ~b.due /\ b.inside \subseteq breaker.inside
    BY LimiterCurrent
  <1> HIDE DEF b
  <1>4. /\ requestPC' \in [Limiter!Requests -> RequestStates] /\ requestPC'[r] = "judged"
        /\ \A q \in Limiter!Requests \ {r} : requestPC'[q] = requestPC[q]
        /\ Limiter!InFlight' = Limiter!InFlight \cup {r}
    BY <1>1, <1>2, LimiterFlight DEF OutageTypes, RequestStates
  <1>5. OutageTypes'
    BY <1>1, <1>2, <1>3, <1>4 DEF OutageTypes
  <1>6. Cardinality(Limiter!InFlight') <= MaxInFlight /\ r \notin breaker.inside
    BY <1>1, <1>4, OutageComes
  <1>7. \A q \in Limiter!Requests : AnswerFits(q)'
    BY <1>1, <1>2, <1>4 DEF OutageInv, OutageTypes, AnswerFits
  <1>8. \A q \in breaker'.inside : requestPC'[q] \in {"asking", "checked"}
    <2>1. breaker.inside \subseteq Limiter!Requests
      BY <1>2, LimiterFields DEF OutageTypes
    <2> QED
      BY <1>1, <1>3, <1>4, <1>6, <2>1 DEF OutageInv
  <1> QED
    BY <1>1, <1>3, <1>5, <1>6, <1>7, <1>8 DEF OutageInv

\* Redis runs the script, or does not.
LEMMA OutageAsks ==
    ASSUME Limiter!LimiterAssumption, OutageInv, NEW r \in Limiter!Requests,
           NEW what \in {"ok", "full", "error"}, requestPC[r] = "asking",
           result' = [result EXCEPT ![r] = what],
           requestPC' = [requestPC EXCEPT ![r] = "checked"], UNCHANGED <<breaker, unchecked>>
    PROVE  OutageInv'
  <1>1. OutageTypes /\ result[r] = "none"
    BY DEF OutageInv, AnswerFits
  <1>2. /\ requestPC' \in [Limiter!Requests -> RequestStates] /\ requestPC'[r] = "checked"
        /\ \A q \in Limiter!Requests \ {r} : requestPC'[q] = requestPC[q]
        /\ Limiter!InFlight' = Limiter!InFlight \cup {r}
    BY <1>1, LimiterFlight DEF OutageTypes, RequestStates
  <1>3. Limiter!InFlight' = Limiter!InFlight
    BY <1>2 DEF Limiter!InFlight
  <1>4. OutageTypes'
    BY <1>1, <1>2 DEF OutageTypes
  <1>5. \A q \in Limiter!Requests : AnswerFits(q)'
    BY <1>1, <1>2 DEF OutageInv, OutageTypes, AnswerFits
  <1>6. \A q \in breaker'.inside : requestPC'[q] \in {"asking", "checked"}
    <2>1. breaker.inside \subseteq Limiter!Requests
      BY <1>1, LimiterFields DEF OutageTypes
    <2> QED
      BY <1>2, <2>1 DEF OutageInv
  <1>7. \A q \in Limiter!Requests \ {r} : result'[q] = result[q]
    BY <1>1 DEF OutageTypes
  <1>8. LimiterAnswered \subseteq LimiterAnswered' /\ LimiterCounted' = LimiterCounted
    <2>1. r \notin LimiterAnswered
      BY <1>1 DEF LimiterAnswered
    <2>2. LimiterAnswered \subseteq LimiterAnswered' /\ LimiterAnswered' \ {r} = LimiterAnswered
      BY <1>7, <2>1 DEF LimiterAnswered
    <2>3. r \notin LimiterCounted /\ r \notin LimiterCounted'
      BY <1>2, <2>1 DEF LimiterCounted
    <2>4. \A q \in LimiterAnswered : q # r /\ requestPC'[q] = requestPC[q]
      BY <1>2, <2>1 DEF LimiterAnswered
    <2>5. LimiterCounted' \subseteq LimiterCounted
      BY <2>2, <2>3, <2>4 DEF LimiterCounted
    <2>6. LimiterCounted \subseteq LimiterCounted'
      BY <2>2, <2>4 DEF LimiterCounted
    <2> QED
      BY <2>2, <2>5, <2>6
  <1>9. ASSUME breaker'.state = "closed"
        PROVE  CountsRight(breaker', LimiterAnswered', LimiterCounted', Limiter!InFlight', unchecked')
    <2>1. IsFiniteSet(LimiterAnswered')
      <3>1. LimiterAnswered' \subseteq Limiter!Requests
        BY DEF LimiterAnswered
      <3> QED
        BY <3>1, OutageBounds, PartOf
    <2>2. CountsRight(breaker, LimiterAnswered, LimiterCounted, Limiter!InFlight, unchecked)
      BY <1>9 DEF OutageInv
    <2>3. CountsRight(breaker, LimiterAnswered', LimiterCounted, Limiter!InFlight, unchecked)
      BY <1>8, <2>1, <2>2, OutageSets, CountsAnswer
    <2> QED
      BY <1>3, <1>8, <2>3
  <1> QED
    BY <1>3, <1>4, <1>5, <1>6, <1>9 DEF OutageInv

LEMMA LimiterFails ==
    ASSUME NEW b \in LimiterBreakers, NEW r \in b.inside
    PROVE  LET f == Limiter!AfterError(b, r) IN
            \/ f = Limiter!NewGeneration("open")
            \/ f = Limiter!Counted(b, r) /\ ~Limiter!ReadyToTrip(Limiter!Counted(b, r))
BY DEF Limiter!AfterError, Limiter!Failed

\* A check returns: the breaker counts it.
LEMMA OutageAnswers ==
    ASSUME Limiter!LimiterAssumption, OutageInv, NEW r \in Limiter!Requests,
           Limiter!Leave(r), result[r] \in {"ok", "full"}
    PROVE  OutageInv'
  <1> DEFINE b == Limiter!Current(breaker)
             s == Limiter!Succeeded(b, r)
  <1>1. /\ requestPC[r] = "checked" /\ breaker' = s /\ unchecked' = 0 /\ result' = result
        /\ \E to \in {"passed", "limited"} : requestPC' = [requestPC EXCEPT ![r] = to]
    BY DEF Limiter!Leave
  <1>2. OutageTypes
    BY DEF OutageInv
  <1>3. /\ b \in LimiterBreakers /\ ~b.due /\ b.inside \subseteq breaker.inside
        /\ b.state = "closed" => b = breaker
    BY LimiterCurrent
  <1> HIDE DEF b
  <1>4. /\ requestPC' \in [Limiter!Requests -> RequestStates]
        /\ requestPC'[r] \in {"passed", "limited"}
        /\ \A q \in Limiter!Requests \ {r} : requestPC'[q] = requestPC[q]
        /\ Limiter!InFlight' = Limiter!InFlight \ {r}
    <2>1. PICK to \in {"passed", "limited"} : requestPC' = [requestPC EXCEPT ![r] = to]
      BY <1>1
    <2>2. to \in RequestStates /\ to \notin {"asking", "checked", "judged"}
      BY DEF RequestStates
    <2> QED
      BY <1>2, <2>1, <2>2, LimiterFlight DEF OutageTypes
  <1>5. r \in Limiter!InFlight /\ r \in LimiterAnswered /\ r \notin LimiterCounted
    BY <1>1 DEF Limiter!InFlight, LimiterAnswered, LimiterCounted
  <1>6. LimiterAnswered' = LimiterAnswered /\ LimiterCounted' = LimiterCounted \cup {r}
    <2>1. LimiterAnswered' = LimiterAnswered
      BY <1>1 DEF LimiterAnswered
    <2> QED
      BY <1>4, <1>5, <2>1 DEF LimiterCounted, LimiterAnswered
  <1>7. Cardinality(Limiter!InFlight') <= MaxInFlight
    <2>1. IsFiniteSet(Limiter!InFlight) /\ Cardinality(Limiter!InFlight) <= MaxInFlight
      BY OutageSets DEF CountsSets
    <2>2. Cardinality(Limiter!InFlight) = Cardinality(Limiter!InFlight') + 1
            /\ Cardinality(Limiter!InFlight') \in Nat
      BY <1>4, <1>5, <2>1, OneOut
    <2> QED
      BY <2>1, <2>2, OutageBounds
  <1>8. \A q \in Limiter!Requests : AnswerFits(q)'
    BY <1>1, <1>4 DEF OutageInv, AnswerFits
  <1>9. breaker.inside \subseteq Limiter!Requests
    BY <1>2, LimiterFields DEF OutageTypes
  <1>10. ASSUME b.state = "closed"
         PROVE  CountsRight(s, LimiterAnswered', LimiterCounted', Limiter!InFlight', unchecked')
    <2>1. b = breaker /\ breaker.state = "closed"
      BY <1>3, <1>10
    <2>2. CountsRight(breaker, LimiterAnswered, LimiterCounted, Limiter!InFlight, unchecked)
      BY <2>1 DEF OutageInv
    <2>3. CountsRight(Limiter!Succeeded(breaker, r), LimiterAnswered, LimiterCounted \cup {r},
                      Limiter!InFlight \ {r}, 0)
      BY <1>5, <2>1, <2>2, OutageSets, CountsSucceed
    <2> QED
      BY <1>1, <1>4, <1>6, <2>1, <2>3
  <1>11. CASE r \notin b.inside
    <2>1. s = b
      BY <1>11 DEF Limiter!Succeeded
    <2> HIDE DEF s
    <2>2. OutageTypes' /\ ~breaker'.due
      BY <1>1, <1>2, <1>3, <1>4, <2>1 DEF OutageTypes
    <2>3. \A q \in breaker'.inside : requestPC'[q] \in {"asking", "checked"}
      BY <1>1, <1>3, <1>4, <1>9, <1>11, <2>1 DEF OutageInv
    <2> QED
      BY <1>1, <1>7, <1>8, <1>10, <2>1, <2>2, <2>3 DEF OutageInv
  <1>12. CASE r \in b.inside
    <2>1. CASE b.state = "half-open" /\ s = Limiter!Closed
      <3>1. s \in LimiterBreakers /\ ~s.due /\ s.inside = {}
        BY <2>1, GenerationIs DEF Limiter!Closed
      <3>2. CountsRight(s, LimiterAnswered', LimiterCounted', Limiter!InFlight', unchecked')
        <4>1. CountsRight(Limiter!Closed, LimiterAnswered, LimiterCounted \cup {r},
                          Limiter!InFlight \ {r}, 0)
          BY <1>5, OutageSets, CountsClosed
        <4> QED
          BY <1>1, <1>4, <1>6, <2>1, <4>1
      <3> HIDE DEF s
      <3>3. OutageTypes'
        BY <1>1, <1>2, <1>4, <3>1 DEF OutageTypes
      <3> QED
        BY <1>1, <1>7, <1>8, <3>1, <3>2, <3>3 DEF OutageInv
    <2>2. CASE s \in LimiterBreakers /\ s.state = b.state /\ s.due = b.due /\ s.inside = b.inside \ {r}
      <3> HIDE DEF s
      <3>1. OutageTypes' /\ ~breaker'.due
        BY <1>1, <1>2, <1>3, <1>4, <2>2 DEF OutageTypes
      <3>2. \A q \in breaker'.inside : requestPC'[q] \in {"asking", "checked"}
        BY <1>1, <1>3, <1>4, <1>9, <2>2 DEF OutageInv
      <3> QED
        BY <1>1, <1>7, <1>8, <1>10, <2>2, <3>1, <3>2 DEF OutageInv
    <2> QED
      BY <1>3, <1>12, <2>1, <2>2, LimiterSucceeds
  <1> QED
    BY <1>11, <1>12

LEMMA OutageErrs ==
    ASSUME Limiter!LimiterAssumption, OutageInv, NEW r \in Limiter!Requests,
           Limiter!Leave(r), result[r] = "error"
    PROVE  OutageInv'
  <1> DEFINE b == Limiter!Current(breaker)
             f == Limiter!AfterError(b, r)
  <1>1. /\ requestPC[r] = "checked" /\ breaker' = f /\ result' = result
        /\ unchecked' = (IF f.state = "closed" THEN unchecked ELSE 0)
        /\ requestPC' = [requestPC EXCEPT ![r] = "judged"]
    BY DEF Limiter!Leave
  <1>2. OutageTypes
    BY DEF OutageInv
  <1>3. /\ b \in LimiterBreakers /\ ~b.due /\ b.inside \subseteq breaker.inside
        /\ b.state = "closed" => b = breaker
    BY LimiterCurrent
  <1> HIDE DEF b, f
  <1>4. /\ requestPC' \in [Limiter!Requests -> RequestStates] /\ requestPC'[r] = "judged"
        /\ \A q \in Limiter!Requests \ {r} : requestPC'[q] = requestPC[q]
        /\ Limiter!InFlight' = Limiter!InFlight \cup {r}
    BY <1>1, <1>2, LimiterFlight DEF OutageTypes, RequestStates
  <1>5. Limiter!InFlight' = Limiter!InFlight
    BY <1>1, <1>4 DEF Limiter!InFlight
  <1>6. LimiterAnswered' = LimiterAnswered /\ LimiterCounted' = LimiterCounted
    <2>1. LimiterAnswered' = LimiterAnswered /\ r \notin LimiterAnswered
      BY <1>1 DEF LimiterAnswered
    <2> QED
      BY <1>4, <2>1 DEF LimiterCounted, LimiterAnswered
  <1>7. \A q \in Limiter!Requests : AnswerFits(q)'
    BY <1>1, <1>4 DEF OutageInv, AnswerFits
  <1>8. breaker.inside \subseteq Limiter!Requests /\ unchecked \in Nat
    BY <1>2, LimiterFields DEF OutageTypes
  <1>9. Cardinality(Limiter!InFlight') <= MaxInFlight
    BY <1>5 DEF OutageInv
  \* What the three outcomes have in common.
  <1>10. ASSUME f \in LimiterBreakers, ~f.due, f.inside \subseteq b.inside \ {r},
                f.state = "closed" => CountsRight(f, LimiterAnswered, LimiterCounted,
                                                  Limiter!InFlight, unchecked)
         PROVE  OutageInv'
    <2>1. OutageTypes'
      BY <1>1, <1>2, <1>4, <1>8, <1>10 DEF OutageTypes
    <2>2. \A q \in breaker'.inside : requestPC'[q] \in {"asking", "checked"}
      BY <1>1, <1>3, <1>4, <1>8, <1>10 DEF OutageInv
    <2>3. breaker'.state = "closed" =>
            CountsRight(breaker', LimiterAnswered', LimiterCounted', Limiter!InFlight', unchecked')
      BY <1>1, <1>5, <1>6, <1>10
    <2> QED
      BY <1>1, <1>7, <1>9, <1>10, <2>1, <2>2, <2>3 DEF OutageInv
  <1>11. ASSUME b.state = "closed"
         PROVE  CountsRight(b, LimiterAnswered, LimiterCounted, Limiter!InFlight, unchecked) /\ b = breaker
    BY <1>3, <1>11 DEF OutageInv
  <1>12. CASE r \notin b.inside
    <2>1. f = b
      BY <1>12 DEF f, Limiter!AfterError, Limiter!Failed
    <2> QED
      BY <1>3, <1>10, <1>11, <1>12, <2>1
  <1>13. CASE r \in b.inside
    <2>1. CASE f = Limiter!NewGeneration("open")
      <3>1. f \in LimiterBreakers /\ ~f.due /\ f.state = "open" /\ f.inside = {}
        BY <2>1, GenerationIs
      <3> QED
        BY <1>10, <3>1
    <2>2. CASE f = Limiter!Counted(b, r) /\ ~Limiter!ReadyToTrip(Limiter!Counted(b, r))
      <3>1. f \in LimiterBreakers /\ ~f.due /\ f.state = b.state /\ f.inside = b.inside \ {r}
        BY <1>3, <2>2, LimiterCounts
      <3>2. ASSUME f.state = "closed"
            PROVE  CountsRight(f, LimiterAnswered, LimiterCounted, Limiter!InFlight, unchecked)
        BY <1>11, <1>13, <2>2, <3>1, <3>2, OutageSets, CountsFail
      <3> QED
        BY <1>10, <3>1, <3>2
    <2> QED
      BY <1>3, <1>13, <2>1, <2>2, LimiterFails DEF f
  <1> QED
    BY <1>12, <1>13

LEMMA OutageJudges ==
    ASSUME Limiter!LimiterAssumption, OutageInv, NEW r \in Limiter!Requests, Limiter!Judge(r)
    PROVE  OutageInv'
  <1> DEFINE b == Limiter!Current(breaker)
  <1>1. /\ requestPC[r] = "judged" /\ breaker' = b /\ result' = result
        /\ \E to \in {"passed", "unavailable"} : requestPC' = [requestPC EXCEPT ![r] = to]
        /\ unchecked' = unchecked + (IF b.state = "closed" THEN 1 ELSE 0)
    BY DEF Limiter!Judge
  <1>2. OutageTypes /\ unchecked \in Nat
    BY DEF OutageInv, OutageTypes
  <1>3. /\ b \in LimiterBreakers /\ ~b.due /\ b.inside \subseteq breaker.inside
        /\ b.state = "closed" => b = breaker
    BY LimiterCurrent
  <1> HIDE DEF b
  <1>4. /\ requestPC' \in [Limiter!Requests -> RequestStates]
        /\ requestPC'[r] \in {"passed", "unavailable"}
        /\ \A q \in Limiter!Requests \ {r} : requestPC'[q] = requestPC[q]
        /\ Limiter!InFlight' = Limiter!InFlight \ {r}
    <2>1. PICK to \in {"passed", "unavailable"} : requestPC' = [requestPC EXCEPT ![r] = to]
      BY <1>1
    <2>2. to \in RequestStates /\ to \notin {"asking", "checked", "judged"}
      BY DEF RequestStates
    <2> QED
      BY <1>2, <2>1, <2>2, LimiterFlight DEF OutageTypes
  <1>5. r \in Limiter!InFlight /\ r \notin breaker.inside
    BY <1>1 DEF Limiter!InFlight, OutageInv
  <1>6. LimiterAnswered' = LimiterAnswered /\ LimiterCounted' = LimiterCounted
    <2>1. LimiterAnswered' = LimiterAnswered
      BY <1>1 DEF LimiterAnswered
    <2> QED
      BY <1>1, <1>4, <2>1 DEF LimiterCounted, LimiterAnswered
  <1>7. Cardinality(Limiter!InFlight') <= MaxInFlight
    <2>1. IsFiniteSet(Limiter!InFlight) /\ Cardinality(Limiter!InFlight) <= MaxInFlight
      BY OutageSets DEF CountsSets
    <2>2. Cardinality(Limiter!InFlight) = Cardinality(Limiter!InFlight') + 1
            /\ Cardinality(Limiter!InFlight') \in Nat
      BY <1>4, <1>5, <2>1, OneOut
    <2> QED
      BY <2>1, <2>2, OutageBounds
  <1>8. \A q \in Limiter!Requests : AnswerFits(q)'
    BY <1>1, <1>4 DEF OutageInv, AnswerFits
  <1>9. breaker.inside \subseteq Limiter!Requests
    BY <1>2, LimiterFields DEF OutageTypes
  <1>10. OutageTypes'
    BY <1>1, <1>2, <1>3, <1>4 DEF OutageTypes
  <1>11. \A q \in breaker'.inside : requestPC'[q] \in {"asking", "checked"}
    BY <1>1, <1>3, <1>4, <1>5, <1>9 DEF OutageInv
  <1>12. ASSUME breaker'.state = "closed"
         PROVE  CountsRight(breaker', LimiterAnswered', LimiterCounted', Limiter!InFlight', unchecked')
    <2>1. b = breaker /\ breaker.state = "closed" /\ unchecked' = unchecked + 1
      BY <1>1, <1>3, <1>12
    <2>2. CountsRight(breaker, LimiterAnswered, LimiterCounted, Limiter!InFlight, unchecked)
      BY <2>1 DEF OutageInv
    <2>3. CountsRight(breaker, LimiterAnswered, LimiterCounted, Limiter!InFlight \ {r}, unchecked + 1)
      BY <1>5, <2>2, OutageSets, CountsPass
    <2> QED
      BY <1>1, <1>4, <1>6, <2>1, <2>3
  <1> QED
    BY <1>1, <1>3, <1>7, <1>8, <1>10, <1>11, <1>12 DEF OutageInv

LEMMA OutageStutters ==
    ASSUME OutageInv, UNCHANGED <<requestPC, result, unchecked>>,
           breaker' = breaker \/ Limiter!Expire
    PROVE  OutageInv'
  <1>1. UNCHANGED <<Limiter!InFlight, LimiterAnswered, LimiterCounted>>
    BY DEF Limiter!InFlight, LimiterAnswered, LimiterCounted
  <1>2. CASE breaker' = breaker
    BY <1>1, <1>2 DEF OutageInv, OutageTypes, AnswerFits
  <1>3. CASE Limiter!Expire
    <2>1. breaker.state = "open" /\ breaker' = [breaker EXCEPT !.due = TRUE]
      BY <1>3 DEF Limiter!Expire, Limiter!Ticks
    <2>2. /\ breaker' \in LimiterBreakers /\ breaker'.state = "open"
          /\ breaker'.inside = breaker.inside
      BY <2>1 DEF OutageInv, OutageTypes, LimiterBreakers, Limiter!Breaker
    <2> QED
      BY <1>1, <2>2 DEF OutageInv, OutageTypes, AnswerFits
  <1> QED
    BY <1>2, <1>3

LEMMA OutageBegins ==
    ASSUME Limiter!LimiterAssumption, Limiter!Init
    PROVE  OutageInv
  <1>1. /\ breaker = Limiter!NewGeneration("closed") /\ unchecked = 0
        /\ \A r \in Limiter!Requests : requestPC[r] = "new" /\ result[r] = "none"
    BY DEF Limiter!Init, Limiter!Closed
  <1>2. /\ breaker \in LimiterBreakers /\ ~breaker.due /\ breaker.inside = {}
        /\ breaker.requests = 0 /\ breaker.failures = 0 /\ breaker.failing = 0
    BY <1>1, GenerationIs
  <1>3. OutageTypes
    BY <1>1, <1>2 DEF Limiter!Init, OutageTypes, RequestStates
  <1>4. Limiter!InFlight = {} /\ LimiterAnswered = {} /\ LimiterCounted = {}
    BY <1>1 DEF Limiter!InFlight, LimiterAnswered, LimiterCounted
  <1>5. /\ Cardinality(Limiter!InFlight) = 0 /\ Cardinality(LimiterAnswered) = 0
        /\ Cardinality(LimiterCounted) = 0 /\ Cardinality(breaker.inside) = 0
        /\ Cardinality(Limiter!InFlight \ breaker.inside) = 0
    BY <1>2, <1>4, FS_EmptySet
  <1>6. MaxInFlight \in Nat \ {0} /\ Enough(0) \in Nat \ {0}
    <2>1. FailureThreshold \in Nat \ {0} /\ Enough(0) \in Nat /\ Enough(0) >= FailureThreshold
      BY OutageBounds, EnoughIs
    <2> QED
      BY <2>1, OutageBounds
  <1>7. CountsRight(breaker, LimiterAnswered, LimiterCounted, Limiter!InFlight, unchecked)
    BY <1>1, <1>2, <1>5, <1>6 DEF CountsRight
  <1>8. Cardinality(Limiter!InFlight) <= MaxInFlight
    BY <1>5, <1>6
  <1> QED
    BY <1>1, <1>2, <1>3, <1>7, <1>8 DEF OutageInv, AnswerFits

LEMMA OutageStep ==
    ASSUME Limiter!LimiterAssumption, OutageInv, [Limiter!Next]_(Limiter!vars)
    PROVE  OutageInv'
  <1>1. ASSUME NEW r \in Limiter!Requests, NEW p \in Paths, Limiter!Enter(r, p)
        PROVE  OutageInv'
    BY <1>1, OutageEnters
  <1>2. ASSUME NEW r \in Limiter!Requests, Limiter!Refuse(r) PROVE OutageInv'
    BY <1>2, OutageRefuses
  <1>3. ASSUME NEW r \in Limiter!Requests, Limiter!Serve(r) PROVE OutageInv'
    <2>1. ASSUME NEW t \in Limiter!Times, NEW answered \in BOOLEAN,
                 Limiter!Run(r, t, answered)
          PROVE  OutageInv'
      <3>1. /\ requestPC[r] = "asking" /\ requestPC' = [requestPC EXCEPT ![r] = "checked"]
            /\ UNCHANGED <<breaker, unchecked>>
            /\ \E what \in {"ok", "full", "error"} : result' = [result EXCEPT ![r] = what]
        BY <2>1 DEF Limiter!Run
      <3> QED
        BY <3>1, OutageAsks
    <2>2. CASE Limiter!Miss(r)
      <3>1. /\ requestPC[r] = "asking" /\ requestPC' = [requestPC EXCEPT ![r] = "checked"]
            /\ UNCHANGED <<breaker, unchecked>> /\ result' = [result EXCEPT ![r] = "error"]
        BY <2>2 DEF Limiter!Miss
      <3> QED
        BY <3>1, OutageAsks
    <2>3. CASE Limiter!Leave(r)
      <3>1. result[r] \in {"ok", "full", "error"}
        BY <2>3 DEF Limiter!Leave, OutageInv, AnswerFits
      <3> QED
        BY <2>3, <3>1, OutageAnswers, OutageErrs
    <2> QED
      BY <1>3, <2>1, <2>2, <2>3, OutageJudges DEF Limiter!Serve
  <1>4. ASSUME Limiter!Tick \/ Limiter!Expire \/ UNCHANGED Limiter!vars PROVE OutageInv'
    BY <1>4, OutageStutters DEF Limiter!Tick, Limiter!Expire, Limiter!vars
  <1> QED
    BY <1>1, <1>2, <1>3, <1>4 DEF Limiter!Next

LEMMA OutageBound ==
    ASSUME Limiter!LimiterAssumption, OutageInv
    PROVE  OutageBounded
  <1> DEFINE n == Cardinality(LimiterAnswered)
             stray == Cardinality(Limiter!InFlight \ breaker.inside)
             enough == Enough(n)
  <1>1. SUFFICES ASSUME breaker.state = "closed" PROVE unchecked < MaxInFlight - 1 + enough
    BY <1>1, LimiterCardinality
       DEF OutageBounded, Limiter!OutageBounded, LimiterAnswered, Enough
  <1>2. /\ breaker.failing \in Nat /\ stray \in Nat /\ unchecked \in Nat
        /\ MaxInFlight \in Nat /\ enough \in Nat
    BY OutageSets, CountsFacts
  <1>3. breaker.failing < enough /\ unchecked + stray < breaker.failing + MaxInFlight
    BY <1>1 DEF OutageInv, CountsRight
  <1> HIDE DEF n, stray, enough
  <1> QED
    BY <1>2, <1>3

\* For any number of requests and any thresholds: while the breaker is closed
\* the requests that have passed unchecked since Redis last answered are fewer
\* than those it counts to, but for the ones in flight.
THEOREM OutageIsBounded ==
    ASSUME Limiter!LimiterAssumption
    PROVE  Limiter!Spec => []OutageBounded
  <1>1. Limiter!Init => OutageInv
    BY OutageBegins
  <1>2. OutageInv /\ [Limiter!Next]_(Limiter!vars) => OutageInv'
    BY OutageStep
  <1>3. OutageInv => OutageBounded
    BY OutageBound
  <1> QED
    BY <1>1, <1>2, <1>3, PTL DEF Limiter!Spec

-----------------------------------------------------------------------------
(* The pages of the trade history *)

LEMMA PagesCardinality == ASSUME NEW S PROVE Pages!Cardinality(S) = Cardinality(S)
BY Zenon DEF Pages!Cardinality, Cardinality

LEMMA PagesFinite == ASSUME NEW S PROVE Pages!IsFiniteSet(S) <=> IsFiniteSet(S)
BY Zenon DEF Pages!IsFiniteSet, IsFiniteSet

LEMMA PageBounds ==
    ASSUME Pages!PageAssumption
    PROVE  /\ \A r \in Results : IsFiniteSet(r)
           /\ PageSize \in Nat \ {0} /\ MaxTime \in Nat
           /\ \A n \in 0..Cardinality(Pages!Rows) :
                    Pages!ParseCursor(Pages!EncodeCursor(n)) = n
           /\ IsFiniteSet(Pages!Rows)
  <1>1. /\ IsFiniteSet(Results) /\ \A r \in Results : IsFiniteSet(r)
        /\ PageSize \in Nat \ {0} /\ MaxTime \in Nat
        /\ \A n \in 0..Cardinality(Pages!Rows) :
                    Pages!ParseCursor(Pages!EncodeCursor(n)) = n
    BY PagesFinite, PagesCardinality DEF Pages!PageAssumption
  <1>2. IsFiniteSet(Pages!Rows)
    <2> DEFINE S == (UNION Results) \X (0..MaxTime)
               f == [p \in S |-> [trade |-> p[1], at |-> p[2]]]
    <2>1. IsFiniteSet(S)
      <3>1. IsFiniteSet(UNION Results) /\ IsFiniteSet(0..MaxTime)
        BY <1>1, FS_UNION, FS_Interval
      <3> QED
        BY <3>1, FS_Product
    <2>2. \A x \in Pages!Rows : <<x.trade, x.at>> \in S /\ f[<<x.trade, x.at>>] = x
      BY DEF Pages!Rows
    <2>3. f \in [S -> Pages!Rows]
      BY DEF Pages!Rows
    <2> HIDE DEF S, f
    <2>4. \A x \in Pages!Rows : \E p \in S : f[p] = x
      BY <2>2
    <2>5. f \in Surjection(S, Pages!Rows)
      BY <2>3, <2>4 DEF Surjection
    <2> QED
      BY <2>1, <2>5, FS_Surjection
  <1> QED
    BY <1>1, <1>2

\* No other row has the created_at of the row x; the rows that are newer.
Alone(x) == \A y \in rows : y.at = x.at => y = x
Above(x) == {y \in rows : y.at > x.at}

\* Until the client is told that there is no more, what it has not received is
\* behind its cursor.
PagesInv ==
    /\ clock \in 0..MaxTime /\ offset \in Nat
    /\ createdAt \in [Results -> 0..MaxTime]
    /\ rows \subseteq Pages!Rows /\ wanted \subseteq rows
    /\ reader = "idle" => offset = 0
    /\ \A x \in wanted : Alone(x) /\ x \notin seen =>
            reader # "done" /\ Cardinality(Above(x)) >= offset

LEMMA PageSets ==
    ASSUME Pages!PageAssumption, PagesInv
    PROVE  /\ IsFiniteSet(rows) /\ Cardinality(rows) \in Nat
           /\ Cardinality(rows) <= Cardinality(Pages!Rows)
           /\ Cardinality(Pages!Rows) \in Nat
           /\ \A x \in rows : x.at \in Nat
           /\ \A S \in SUBSET rows : IsFiniteSet(S) /\ Cardinality(S) \in Nat
  <1>1. rows \subseteq Pages!Rows /\ IsFiniteSet(Pages!Rows)
    BY PageBounds DEF PagesInv
  <1>2. IsFiniteSet(rows) /\ Cardinality(rows) <= Cardinality(Pages!Rows)
    BY <1>1, PartOf
  <1>3. \A x \in rows : x.at \in Nat
    BY <1>1, PageBounds DEF Pages!Rows
  <1> QED
    BY <1>1, <1>2, <1>3, PartOf

\* Rows are only added.
LEMMA PagesStay ==
    ASSUME Pages!PageAssumption, PagesInv, rows \subseteq rows', rows' \subseteq Pages!Rows,
           clock' \in 0..MaxTime, createdAt' \in [Results -> 0..MaxTime],
           UNCHANGED <<offset, reader, wanted, seen>>
    PROVE  PagesInv'
  <1>1. ASSUME NEW x \in wanted, Alone(x)', x \notin seen
        PROVE  reader # "done" /\ Cardinality(Above(x)') >= offset
    <2>1. Alone(x)
      BY <1>1 DEF Alone
    <2>2. reader # "done" /\ Cardinality(Above(x)) >= offset
      BY <1>1, <2>1 DEF PagesInv
    <2>3. Above(x) \subseteq Above(x)' /\ Above(x)' \subseteq Pages!Rows
      BY DEF Above
    <2>4. IsFiniteSet(Above(x)')
      BY <2>3, PageBounds, PartOf
    <2>5. /\ Cardinality(Above(x)) <= Cardinality(Above(x)')
          /\ Cardinality(Above(x)) \in Nat /\ Cardinality(Above(x)') \in Nat
      BY <2>3, <2>4, PartOf
    <2>6. offset \in Nat
      BY DEF PagesInv
    <2> QED
      BY <2>2, <2>5, <2>6
  <1> QED
    BY <1>1 DEF PagesInv

\* A page.
LEMMA PageTurns ==
    ASSUME Pages!PageAssumption, PagesInv, Pages!GetTrades
    PROVE  PagesInv'
  <1>1. PICK skipped \in SUBSET rows, page \in SUBSET rows :
            Pages!IsPage(skipped, page) /\ seen' = seen \cup page
    BY DEF Pages!GetTrades
  <1> DEFINE rest == (rows \ skipped) \ page
             more == Cardinality(rows) > offset + PageSize
  <1>2. /\ skipped \cap page = {}
        /\ Cardinality(skipped) <= offset /\ Cardinality(page) <= PageSize
        /\ page # {} => Cardinality(skipped) = offset
        /\ rest # {} => Cardinality(page) = PageSize
        /\ \A x \in skipped, y \in page \cup rest : x.at >= y.at
        /\ \A x \in page, y \in rest : x.at >= y.at
    BY <1>1, PagesCardinality DEF Pages!IsPage, Pages!Newer
  <1>3. /\ reader = "reading" /\ UNCHANGED <<clock, createdAt, rows, wanted>>
        /\ more => reader' = reader /\ offset' =
                Pages!ParseCursor(Pages!EncodeCursor(offset + PageSize))
        /\ ~more => reader' = "done" /\ offset' = offset
    BY PagesCardinality DEF Pages!GetTrades, Pages!HasMore, Pages!NextCursor
  <1>4. /\ offset \in Nat /\ PageSize \in Nat \ {0}
        /\ Cardinality(rows) \in Nat /\ Cardinality(rows) <= Cardinality(Pages!Rows)
        /\ Cardinality(Pages!Rows) \in Nat
    BY PageBounds, PageSets DEF PagesInv
  <1>5. more => offset' = offset + PageSize
    <2>1. SUFFICES ASSUME more PROVE offset + PageSize \in 0..Cardinality(Pages!Rows)
      BY <1>3, PageBounds
    <2> QED
      BY <1>4, <2>1
  \* Who is not received is behind the page, or the page is the last and has room.
  <1>6. ASSUME NEW x \in wanted, Alone(x), x \notin seen'
        PROVE  more /\ Cardinality(Above(x)) >= offset + PageSize
    <2>1. /\ x \in rows /\ x \notin page /\ Cardinality(Above(x)) >= offset
          /\ x.at \in Nat
      BY <1>1, <1>6, PageSets DEF PagesInv
    <2>2. \A y \in rows \ {x} : y.at \in Nat /\ (y.at >= x.at => y \in Above(x))
      BY <1>6, <2>1, PageSets DEF Alone, Above
    <2>3. x \notin skipped
      <3>1. SUFFICES ASSUME x \in skipped PROVE FALSE
        OBVIOUS
      <3>2. Above(x) \subseteq skipped \ {x}
        <4>1. ASSUME NEW y \in Above(x) PROVE y \in skipped \ {x}
          <5>1. y \in rows /\ y.at > x.at /\ y.at \in Nat
            BY PageSets DEF Above
          <5>2. y \notin page \cup rest
            BY <1>2, <2>1, <3>1, <5>1
          <5> QED
            BY <2>1, <5>1, <5>2
        <4> QED
          BY <4>1
      <3>3. IsFiniteSet(skipped) /\ Cardinality(skipped) = Cardinality(skipped \ {x}) + 1
            /\ Cardinality(skipped \ {x}) \in Nat /\ IsFiniteSet(skipped \ {x})
        BY <3>1, PageSets, OneOut
      <3>4. Cardinality(Above(x)) <= Cardinality(skipped \ {x}) /\ Cardinality(Above(x)) \in Nat
        BY <3>2, <3>3, PartOf
      <3> QED
        BY <1>2, <1>4, <2>1, <3>3, <3>4
    <2>4. x \in rest /\ Cardinality(page) = PageSize /\ Cardinality(skipped) = offset
      <3>1. x \in rest
        BY <2>1, <2>3
      <3>2. Cardinality(page) = PageSize
        BY <1>2, <3>1
      <3>3. page # {}
        BY <1>4, <3>2, FS_EmptySet
      <3> QED
        BY <1>2, <3>1, <3>2, <3>3
    <2>5. IsFiniteSet(skipped) /\ IsFiniteSet(page) /\ IsFiniteSet(skipped \cup page)
      BY PageSets
    <2>6. Cardinality(skipped \cup page) = offset + PageSize
      <3>1. Cardinality(skipped \cup page)
                = Cardinality(skipped) + Cardinality(page) - Cardinality(skipped \cap page)
        BY <2>5, FS_Union
      <3>2. Cardinality(skipped \cap page) = 0
        BY <1>2, FS_EmptySet
      <3> QED
        BY <1>4, <2>4, <3>1, <3>2
    <2>7. skipped \cup page \subseteq Above(x) /\ x \notin skipped \cup page
      <3>1. ASSUME NEW y \in skipped \cup page PROVE y \in Above(x)
        <4>1. y \in rows \ {x} /\ y.at >= x.at
          BY <1>2, <2>1, <2>3, <2>4
        <4> QED
          BY <2>2, <4>1
      <3> QED
        BY <2>1, <2>3, <3>1
    <2>8. Cardinality(Above(x)) >= offset + PageSize
      <3>1. Above(x) \subseteq rows
        BY DEF Above
      <3>2. IsFiniteSet(Above(x)) /\ Cardinality(Above(x)) \in Nat
        BY <3>1, PageSets
      <3>3. Cardinality(skipped \cup page) <= Cardinality(Above(x))
        BY <2>7, <3>2, PartOf
      <3> QED
        BY <1>4, <2>6, <3>2, <3>3
    <2>9. more
      <3>1. Cardinality((skipped \cup page) \cup {x}) = offset + PageSize + 1
        BY <2>5, <2>6, <2>7, OneIn
      <3>2. (skipped \cup page) \cup {x} \subseteq rows
        BY <2>1
      <3>3. Cardinality((skipped \cup page) \cup {x}) <= Cardinality(rows)
        BY <3>2, PageSets, PartOf
      <3> QED
        BY <1>4, <3>1, <3>3
    <2> QED
      BY <2>8, <2>9
  <1>7. ASSUME NEW x \in wanted, Alone(x), x \notin seen'
        PROVE  reader' # "done" /\ Cardinality(Above(x)) >= offset'
    BY <1>3, <1>5, <1>6, <1>7
  <1>8. \A x : (Alone(x)' <=> Alone(x)) /\ Above(x)' = Above(x)
    BY <1>3 DEF Alone, Above
  <1>9. offset' \in Nat /\ reader' # "idle"
    BY <1>3, <1>4, <1>5
  <1> QED
    BY <1>3, <1>7, <1>8, <1>9 DEF PagesInv

LEMMA PagesStep ==
    ASSUME Pages!PageAssumption, PagesInv, [Pages!Next]_(Pages!vars)
    PROVE  PagesInv'
  <1>1. clock \in 0..MaxTime /\ createdAt \in [Results -> 0..MaxTime] /\ rows \subseteq Pages!Rows
    BY DEF PagesInv
  <1>2. CASE Pages!Tick
    <2>1. clock' \in 0..MaxTime
      BY <1>1, <1>2, PageBounds DEF Pages!Tick
    <2> QED
      BY <1>1, <1>2, <2>1, PagesStay DEF Pages!Tick
  <1>3. CASE Pages!Begin
    <2>1. /\ reader = "idle" /\ reader' = "reading" /\ wanted' = rows
          /\ UNCHANGED <<clock, createdAt, rows, offset, seen>>
      BY <1>3 DEF Pages!Begin
    <2>2. offset = 0
      BY <2>1 DEF PagesInv
    <2>3. ASSUME NEW x \in rows PROVE Cardinality(Above(x)') >= 0
      <3>1. Above(x)' = Above(x) /\ Above(x) \subseteq rows
        BY <2>1 DEF Above
      <3>2. Cardinality(Above(x)) \in Nat
        BY <3>1, PageSets
      <3> QED
        BY <3>1, <3>2
    <2> QED
      BY <1>1, <2>1, <2>2, <2>3 DEF PagesInv
  <1>4. ASSUME NEW r \in Results, Pages!CreateBatch(r) PROVE PagesInv'
    <2>1. createdAt' \in [Results -> 0..MaxTime]
      BY <1>1, <1>4 DEF Pages!CreateBatch
    <2> QED
      BY <1>1, <1>4, <2>1, PagesStay DEF Pages!CreateBatch
  <1>5. ASSUME NEW r \in Results, Pages!Stored(r) \/ Pages!NotStored(r) PROVE PagesInv'
    <2>1. UNCHANGED <<clock, createdAt, offset, reader, wanted, seen>>
      BY <1>5 DEF Pages!Stored, Pages!NotStored, Pages!Ended
    <2>2. rows \subseteq rows' /\ rows' \subseteq Pages!Rows
      <3>1. {[trade |-> t, at |-> createdAt[r]] : t \in r} \subseteq Pages!Rows
        BY <1>1 DEF Pages!Rows
      <3>2. rows' = rows \/ rows' = rows \cup {[trade |-> t, at |-> createdAt[r]] : t \in r}
        BY <1>5 DEF Pages!Stored, Pages!NotStored
      <3> QED
        BY <1>1, <3>1, <3>2
    <2> QED
      BY <1>1, <2>1, <2>2, PagesStay
  <1>6. CASE UNCHANGED Pages!vars
    BY <1>1, <1>6, PagesStay DEF Pages!vars
  <1> QED
    BY <1>2, <1>3, <1>4, <1>5, <1>6, PageTurns DEF Pages!Next

\* For any number of trades, batches and rows in a page, however late they are
\* stored: a client that has paged to the end has received every trade that was
\* there when it began and shares its created_at with none, as long as offsets
\* survive their cursors (matching_server.go, GetTrades).
THEOREM PagesMissNothing ==
    ASSUME Pages!PageAssumption
    PROVE  Pages!Spec => []PagesMissNone
  <1>1. Pages!Init => PagesInv
    <2>1. SUFFICES ASSUME Pages!Init PROVE PagesInv
      OBVIOUS
    <2> QED
      BY <2>1, PageBounds DEF Pages!Init, PagesInv
  <1>2. PagesInv /\ [Pages!Next]_(Pages!vars) => PagesInv'
    BY PagesStep
  <1>3. PagesInv => PagesMissNone
    BY DEF PagesInv, PagesMissNone, Pages!PagesMissNone, Alone
  <1> QED
    BY <1>1, <1>2, <1>3, PTL DEF Pages!Spec
=============================================================================
