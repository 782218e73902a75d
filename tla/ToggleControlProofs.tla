-------------------------- MODULE ToggleControlProofs --------------------------
(***************************************************************************)
(* ToggleControl for any number of calls: nobody leaves a lock behind, only a   *)
(* start and a stop of its resource are inside together, and a start that was   *)
(* interrupted never reports success.                                           *)
(***************************************************************************)
EXTENDS ToggleControl, SequenceTheorems, TLAPS

-------------------------------------------------------------------------------
(* The inductive invariant.                                                *)

\* Types, but for the queues: who is next plays no part in what is proved here.
Types ==
    /\ kind \in [Call -> Kind] /\ resource \in [Call -> Resource]
    /\ phase \in [Call -> Phase] /\ result \in [Call -> Result]
    /\ wants \in [Call -> {"nothing", "resource", "mutation", "held"}]
    /\ resourceLock \in Call \union {Nobody}
    /\ mutationLock \in Call \union {Nobody}
    /\ starting \in Call \union {Nobody}
    /\ preempts \in [Call -> Call \union {Nobody}]
    /\ cancelRequested \in [Call -> BOOLEAN] /\ cancelled \in [Call -> BOOLEAN]

\* The ways in: a lock's owner knows that it has it, and who is inside holds the
\* locks or interrupts a start.
Ways ==
    /\ mutationLock # Nobody => wants[mutationLock] = "held"
    /\ resourceLock # Nobody => wants[resourceLock] \in {"mutation", "held"}
    /\ \A c \in Call :
          /\ wants[c] = "held" => mutationLock = c
          /\ wants[c] # "nothing" => phase[c] \in {"waiting", "applying", "draining"}
          /\ phase[c] \in {"applying", "draining"} => wants[c] = "held" \/ preempts[c] # Nobody

\* The start that is under way holds the locks.
StartHolds ==
    starting # Nobody =>
        /\ kind[starting] = "start" /\ wants[starting] = "held"
        /\ phase[starting] \in {"applying", "draining"}

\* Only a stop interrupts; it interrupts a start of its own resource, the one that
\* is under way or one that is over; one stop of a start is inside at a time.
Interrupts ==
    \A c \in Call :
        /\ phase[c] \in {"unborn", "fresh", "preparing", "waiting"} => preempts[c] = Nobody
        /\ phase[c] = "preempting" => preempts[c] # Nobody
        /\ phase[c] = "draining" => kind[c] = "start"
        /\ phase[c] \in {"applying", "draining"} /\ kind[c] = "start" => starting = c
        /\ preempts[c] # Nobody =>
              kind[c] = "stop" /\ Same(c, preempts[c]) /\ kind[preempts[c]] = "start"
        /\ preempts[c] # Nobody /\ phase[preempts[c]] # "done" => starting = preempts[c]
        /\ \A d \in Call : /\ preempts[c] # Nobody /\ preempts[c] = preempts[d]
                           /\ phase[c] = "applying" /\ phase[d] = "applying"
                           => c = d

\* The call has been inside.
WasApplied(c) == phase[c] = "applying" \/ result[c] \in {"applied", "failed"}

\* A stop that was applied has marked the start it interrupts ...
Marked ==
    \A c, s \in Call :
        preempts[c] = s /\ phase[s] # "done" /\ WasApplied(c) => cancelRequested[s]

\* ... and the last stop to leave has cancelled it.  (A mark alone shows nothing: a
\* stop whose own start has left may set it on the next one.)
Told ==
    \A c, s \in Call :
        preempts[c] = s /\ Alive(s) /\ WasApplied(c)
        => cancelled[s] \/ \E d \in Call : preempts[d] = s /\ Alive(d)

\* Only a call that is over, or a start waiting for its stops, has a result.
Unfinished == \A c \in Call : phase[c] \notin {"done", "draining"} => result[c] = "none"

\* A start that is over before its stops did not succeed.
NoLateSuccess ==
    \A c, s \in Call :
        preempts[c] = s /\ Alive(c) /\ phase[s] = "done" => result[s] # "applied"

\* A start that one of its stops was applied to did not succeed.
Unsuccessful ==
    \A c, s \in Call :
        preempts[c] = s /\ WasApplied(c) => ~(phase[s] = "done" /\ result[s] = "applied")

Inv == Types /\ Ways /\ StartHolds /\ Interrupts /\ Marked /\ Told /\ NoLateSuccess
                /\ Unsuccessful /\ Unfinished

-------------------------------------------------------------------------------
\* The owner of a free lock is none of the calls.
LEMMA NobodyIsNoCall == Nobody \notin Call
  BY CallsAssumption DEF Nobody, Call

\* Initially no call is admitted and both locks are free.
LEMMA InvInit == Init => Inv
<1> SUFFICES ASSUME Init PROVE Inv
  OBVIOUS
<1>1. Types
  BY NobodyIsNoCall DEF Init, Types, Phase, Result
<1>2. Ways /\ StartHolds /\ Interrupts
  BY DEF Init, Ways, StartHolds, Interrupts
<1>3. Marked /\ Told /\ NoLateSuccess /\ Unsuccessful /\ Unfinished
  BY NobodyIsNoCall DEF Init, Marked, Told, NoLateSuccess, Unsuccessful, Unfinished
<1>. QED
  BY <1>1, <1>2, <1>3 DEF Inv

\* A call that leaves does so without its locks, and a marked start is told when
\* the last of its stops has left.
LEMMA LeaveKeeps ==
    ASSUME Inv, NEW c \in Call, NEW how \in Result, Alive(c), Leave(c, how),
           how = "applied" /\ kind[c] = "start" =>
               \A d \in Call : preempts[d] = c => ~Alive(d) /\ ~cancelled[c],
           how \in {"applied", "failed"} => phase[c] = "applying" \/ preempts[c] = Nobody
    PROVE  Inv'
<1>. USE NobodyIsNoCall
<1>1. /\ phase' = [phase EXCEPT ![c] = "done"] /\ result' = [result EXCEPT ![c] = how]
      /\ starting' = IF starting = c THEN Nobody ELSE starting
      /\ resourceLock' = IF resourceLock = c THEN Nobody ELSE resourceLock
      /\ mutationLock' = IF mutationLock = c THEN Nobody ELSE mutationLock
      /\ wants' = [wants EXCEPT ![c] = "nothing"]
      /\ UNCHANGED <<kind, resource, preempts, cancelRequested>>
  BY DEF Leave, Forget, Set, calls
<1>2. /\ cancelled' \in [Call -> BOOLEAN]
      /\ \A s \in Call : s # c /\ cancelled[s] => cancelled'[s]
      /\ \A s \in Call : preempts[c] = s /\ cancelRequested[s] /\ Alive(s) /\ Stops(s) = {c}
                            => cancelled'[s]
  BY DEF Leave, NotifyStart, Inv, Types
<1>3. Types'
  BY <1>1, <1>2 DEF Inv, Types, Phase
<1>4. Ways'
  BY <1>1 DEF Inv, Types, Ways
<1>5. StartHolds'
  BY <1>1 DEF Inv, Types, StartHolds
<1>6. Interrupts'
  BY <1>1 DEF Inv, Types, Interrupts, Same
<1>7. \A b, s \in Call : preempts[b] = s /\ WasApplied(b)' /\ s # c => WasApplied(b)
  BY <1>1 DEF Inv, Types, WasApplied
<1>8. Marked' /\ Told'
  <2> SUFFICES ASSUME NEW b \in Call, NEW s \in Call, preempts[b] = s, phase'[s] # "done",
                      WasApplied(b)'
               PROVE  /\ cancelRequested[s]
                      /\ Alive(s)' => cancelled'[s] \/ \E d \in Call : preempts[d] = s /\ Alive(d)'
    BY <1>1 DEF Marked, Told, Alive
  <2>1. /\ s # c /\ phase[s] # "done" /\ WasApplied(b)
        /\ Alive(s)' => Alive(s)
        /\ \A d \in Call : d # c => (Alive(d)' <=> Alive(d))
    BY <1>1, <1>7 DEF Inv, Types, Alive
  <2>2. cancelRequested[s]
    BY <2>1 DEF Inv, Marked
  <2>3. ASSUME Alive(s)', \A d \in Call : preempts[d] = s => ~Alive(d)' PROVE cancelled'[s]
    <3>1. CASE preempts[c] = s
      <4>1. Stops(s) = {c}
        BY <2>1, <2>3, <3>1 DEF Stops
      <4>. QED
        BY <4>1, <2>1, <2>2, <2>3, <3>1, <1>2
    <3>2. CASE preempts[c] # s
      <4>1. cancelled[s]
        BY <2>1, <2>3, <3>2 DEF Inv, Told
      <4>. QED
        BY <4>1, <2>1, <1>2
    <3>. QED
      BY <3>1, <3>2
  <2>. QED
    BY <2>2, <2>3
<1>9. NoLateSuccess'
  BY <1>1 DEF Inv, Types, NoLateSuccess, Alive, Interrupts
<1>10. Unsuccessful'
  <2> SUFFICES ASSUME NEW b \in Call, NEW s \in Call, preempts[b] = s,
                      WasApplied(b)', phase'[s] = "done", result'[s] = "applied"
               PROVE  FALSE
    BY <1>1 DEF Unsuccessful
  <2>1. kind[b] = "stop" /\ kind[s] = "start" /\ b # s
    BY DEF Inv, Interrupts
  <2>2. CASE s = c
    <3>1. how = "applied" /\ \A d \in Call : preempts[d] = c => ~Alive(d) /\ ~cancelled[c]
      BY <1>1, <2>1, <2>2 DEF Inv, Types
    <3>2. WasApplied(b)
      BY <1>1, <2>1, <2>2 DEF Inv, Types, WasApplied
    <3>. QED
      BY <3>1, <3>2, <2>2 DEF Inv, Told
  <2>3. CASE b = c
    <3>1. phase[c] = "applying" \/ preempts[c] = Nobody
      BY <1>1, <2>3 DEF Inv, Types, WasApplied
    <3>2. phase[s] = "done" /\ result[s] = "applied"
      BY <1>1, <2>1, <2>3 DEF Inv, Types
    <3>. QED
      BY <3>1, <3>2, <2>3 DEF Inv, NoLateSuccess, Alive
  <2>4. CASE s # c /\ b # c
    BY <1>1, <2>4 DEF Inv, Types, Unsuccessful, WasApplied
  <2>. QED
    BY <2>2, <2>3, <2>4
<1>11. Unfinished'
  BY <1>1 DEF Inv, Types, Unfinished
<1>. QED
  BY <1>3, <1>4, <1>5, <1>6, <1>8, <1>9, <1>10, <1>11 DEF Inv

\* A stop that joins the start under way gives up whatever it had.
LEMMA PreemptKeeps ==
    ASSUME Inv, NEW c \in Call, phase[c] \in {"fresh", "waiting"}, wants[c] # "held",
           Matches(c), Preempt(c)
    PROVE  Inv'
<1>. USE NobodyIsNoCall
<1>1. /\ phase' = [phase EXCEPT ![c] = "preempting"]
      /\ preempts' = [preempts EXCEPT ![c] = starting]
      /\ resourceLock' = IF resourceLock = c THEN Nobody ELSE resourceLock
      /\ mutationLock' = IF mutationLock = c THEN Nobody ELSE mutationLock
      /\ wants' = [wants EXCEPT ![c] = "nothing"]
      /\ UNCHANGED <<kind, resource, result, starting, cancelRequested, cancelled>>
  BY DEF Preempt, Forget, Set, calls
<1>2. /\ kind[c] = "stop" /\ starting \in Call /\ Same(c, starting) /\ starting # c
      /\ phase[starting] \in {"applying", "draining"} /\ kind[starting] = "start"
      /\ preempts[c] = Nobody
  BY DEF Inv, Types, Matches, StartHolds, Interrupts
<1>3. Types'
  BY <1>1 DEF Inv, Types, Phase
<1>4. Ways'
  BY <1>1 DEF Inv, Types, Ways
<1>5. StartHolds'
  BY <1>1, <1>2 DEF Inv, Types, StartHolds
<1>6. Interrupts'
  BY <1>1, <1>2 DEF Inv, Types, Interrupts, Same
<1>7. result[c] \notin {"applied", "failed"}
  BY <1>2 DEF Inv, Unfinished
<1>8. Marked' /\ Unsuccessful'
  BY <1>1, <1>2, <1>7 DEF Inv, Types, Marked, WasApplied, Unsuccessful
<1>9. Told'
  BY <1>1, <1>2 DEF Inv, Types, Told, WasApplied, Alive
<1>10. NoLateSuccess'
  BY <1>1, <1>2 DEF Inv, Types, NoLateSuccess, Alive
<1>11. Unfinished'
  BY <1>1 DEF Inv, Types, Unfinished
<1>. QED
  BY <1>3, <1>4, <1>5, <1>6, <1>8, <1>9, <1>10, <1>11 DEF Inv

\* A call that is admitted, queues or takes a lock interrupts nobody yet.
LEMMA AdmitKeeps == ASSUME Inv, NEW c \in Call, Admit(c) PROVE Inv'
<1>. USE NobodyIsNoCall
<1>1. /\ \E p \in {"preparing", "fresh"} : phase' = [phase EXCEPT ![c] = p]
      /\ phase[c] = "unborn" /\ preempts[c] = Nobody
      /\ UNCHANGED <<kind, resource, result, wants, resourceLock, mutationLock, starting,
                     preempts, cancelRequested, cancelled>>
  BY DEF Admit, Set, calls, locks, toggles, Inv, Interrupts
<1>2. Types'
  BY <1>1 DEF Inv, Types, Phase
<1>3. Ways' /\ StartHolds' /\ Unfinished'
  BY <1>1 DEF Inv, Types, Ways, StartHolds, Unfinished
<1>4. Interrupts'
  BY <1>1 DEF Inv, Types, Interrupts, Same
<1>5. Marked' /\ Unsuccessful'
  BY <1>1 DEF Inv, Types, Marked, WasApplied, Unsuccessful
<1>6. \A b \in Call : preempts[b] # c
  BY <1>1 DEF Inv, Interrupts, StartHolds
<1>7. Told' /\ NoLateSuccess'
  BY <1>1, <1>6 DEF Inv, Types, Told, WasApplied, NoLateSuccess, Alive
<1>. QED
  BY <1>2, <1>3, <1>4, <1>5, <1>7 DEF Inv

\* A call that joins a start, or begins to ask for its locks.
LEMMA BeginKeeps == ASSUME Inv, NEW c \in Call, Begin(c) PROVE Inv'
<1>. USE NobodyIsNoCall
<1>1. CASE Matches(c) /\ Preempt(c)
  BY <1>1, PreemptKeeps DEF Begin, Inv, Ways, Types
<1>2. CASE ~(Matches(c) /\ Preempt(c))
  <2>1. /\ phase' = [phase EXCEPT ![c] = "waiting"]
        /\ \E w \in {"resource", "mutation"} : wants' = [wants EXCEPT ![c] = w]
        /\ phase[c] = "fresh" /\ preempts[c] = Nobody
        /\ wants[c] = "nothing"
        /\ UNCHANGED <<kind, resource, result, resourceLock, mutationLock, starting,
                       preempts, cancelRequested, cancelled>>
    BY <1>2 DEF Begin, Set, calls, toggles, Inv, Interrupts, Ways, Types
  <2>2. Types'
    BY <2>1 DEF Inv, Types, Phase
  <2>3. Ways' /\ StartHolds' /\ Unfinished'
    BY <2>1 DEF Inv, Types, Ways, StartHolds, Unfinished
  <2>4. Interrupts'
    BY <2>1 DEF Inv, Types, Interrupts, Same
  <2>5. Marked' /\ Unsuccessful'
    BY <2>1 DEF Inv, Types, Marked, WasApplied, Unsuccessful
  <2>6. Told' /\ NoLateSuccess'
    BY <2>1 DEF Inv, Types, Told, WasApplied, NoLateSuccess, Alive
  <2>. QED
    BY <2>2, <2>3, <2>4, <2>5, <2>6 DEF Inv
<1>. QED
  BY <1>1, <1>2

\* A call that is handed a lock.
LEMMA TakeKeeps == ASSUME Inv, NEW c \in Call, TakeResource(c) \/ TakeMutation(c) PROVE Inv'
<1>. USE NobodyIsNoCall
<1>1. UNCHANGED <<kind, resource, phase, result, starting, preempts, cancelRequested, cancelled>>
  BY DEF TakeResource, TakeMutation, calls, toggles
<1>2. Types' /\ Ways' /\ StartHolds'
  <2>1. CASE TakeResource(c)
    BY <2>1, <1>1 DEF TakeResource, Set, Inv, Types, Ways, StartHolds
  <2>2. CASE TakeMutation(c)
    BY <2>2, <1>1 DEF TakeMutation, Set, Inv, Types, Ways, StartHolds
  <2>. QED
    BY <2>1, <2>2
<1>3. Interrupts' /\ Marked' /\ Told' /\ NoLateSuccess' /\ Unsuccessful' /\ Unfinished'
  BY <1>1 DEF Inv, Interrupts, Marked, Told, WasApplied, NoLateSuccess,
              Unsuccessful, Unfinished, Alive, Same
<1>. QED
  BY <1>2, <1>3 DEF Inv

-------------------------------------------------------------------------------
\* Who enters is alive, undisturbed, and either holds the locks and interrupts
\* nobody or interrupts a start whose other stops are outside.
LEMMA EntersHow ==
    ASSUME Inv, NEW c \in Call, Enters(c)
    PROVE  /\ Alive(c) /\ ~cancelled[c]
           /\ \/ phase[c] = "waiting" /\ wants[c] = "held" /\ preempts[c] = Nobody
                 /\ mutationLock = c /\ starting = Nobody
              \/ /\ phase[c] = "preempting" /\ preempts[c] \in Call /\ kind[c] = "stop"
                 /\ \A d \in Call : preempts[d] = preempts[c] => phase[d] # "applying"
<1>1. CASE phase[c] = "waiting" /\ wants[c] = "held"
  <2>1. mutationLock = c /\ preempts[c] = Nobody
    BY <1>1 DEF Inv, Ways, Interrupts
  <2>2. starting = Nobody
    BY <2>1, <1>1 DEF Inv, Types, Ways, StartHolds
  <2>. QED
    BY <1>1, <2>1, <2>2 DEF Enters, Alive
<1>2. CASE phase[c] = "preempting"
  BY <1>2 DEF Enters, Alive, Stops, Inv, Types, Interrupts
<1>. QED
  BY <1>1, <1>2 DEF Enters

\* A start whose preparation is out of date gives up its locks and prepares again.
LEMMA RefreshKeeps == ASSUME Inv, NEW c \in Call, Refresh(c) PROVE Inv'
<1>. USE NobodyIsNoCall
<1>1. /\ phase' = [phase EXCEPT ![c] = "preparing"]
      /\ wants' = [wants EXCEPT ![c] = "nothing"]
      /\ resourceLock' = IF resourceLock = c THEN Nobody ELSE resourceLock
      /\ mutationLock' = IF mutationLock = c THEN Nobody ELSE mutationLock
      /\ UNCHANGED <<kind, resource, result, starting, preempts, cancelRequested, cancelled>>
  BY DEF Refresh, Forget, Set, calls, toggles
<1>2. phase[c] = "waiting" /\ preempts[c] = Nobody /\ starting = Nobody
  BY EntersHow DEF Refresh, Prepares
<1>3. Types'
  BY <1>1 DEF Inv, Types, Phase
<1>4. Ways' /\ StartHolds' /\ Unfinished'
  BY <1>1, <1>2 DEF Inv, Types, Ways, StartHolds, Unfinished
<1>5. Interrupts'
  BY <1>1, <1>2 DEF Inv, Types, Interrupts, Same
<1>6. Marked' /\ Unsuccessful'
  BY <1>1, <1>2 DEF Inv, Types, Marked, WasApplied, Unsuccessful
<1>7. Told' /\ NoLateSuccess'
  BY <1>1, <1>2 DEF Inv, Types, Told, WasApplied, NoLateSuccess, Alive
<1>. QED
  BY <1>3, <1>4, <1>5, <1>6, <1>7 DEF Inv

\* A stop that is applied marks the start it interrupts.
LEMMA ApplyStopKeeps == ASSUME Inv, NEW c \in Call, ApplyStop(c) PROVE Inv'
<1>. USE NobodyIsNoCall
<1>1. /\ phase' = [phase EXCEPT ![c] = "applying"] /\ kind[c] = "stop"
      /\ cancelRequested' = [d \in Call |-> cancelRequested[d] \/ (Matches(c) /\ d = starting)]
      /\ UNCHANGED <<kind, resource, result, wants, resourceLock, mutationLock, starting,
                     preempts, cancelled>>
  BY DEF ApplyStop, Set, calls, locks
<1>2. /\ phase[c] \in {"waiting", "preempting"} /\ Alive(c)
      /\ wants[c] = "held" \/ preempts[c] # Nobody
      /\ preempts[c] # Nobody => \A d \in Call : preempts[d] = preempts[c] => phase[d] # "applying"
  BY EntersHow DEF ApplyStop
<1>3. \A s \in Call : preempts[c] = s /\ phase[s] # "done" => cancelRequested'[s]
  BY <1>1 DEF Inv, Interrupts, Matches
<1>4. Types'
  BY <1>1 DEF Inv, Types, Phase
<1>5. Ways' /\ StartHolds' /\ Unfinished'
  BY <1>1, <1>2 DEF Inv, Types, Ways, StartHolds, Unfinished
<1>6. Interrupts'
  BY <1>1, <1>2 DEF Inv, Types, Interrupts, Same
<1>7. /\ \A b \in Call : b # c => (WasApplied(b)' <=> WasApplied(b))
      /\ \A d \in Call : Alive(d)' <=> Alive(d)
      /\ \A d \in Call : phase'[d] = "done" <=> phase[d] = "done"
  BY <1>1, <1>2 DEF Inv, Types, WasApplied, Alive
<1>8. Marked' /\ Told'
  <2> SUFFICES ASSUME NEW b \in Call, NEW s \in Call, preempts[b] = s, phase[s] # "done",
                      WasApplied(b)'
               PROVE  /\ cancelRequested'[s]
                      /\ Alive(s) => cancelled[s] \/ \E d \in Call : preempts[d] = s /\ Alive(d)
    BY <1>1, <1>7 DEF Marked, Told, Alive
  <2>1. CASE b = c
    BY <2>1, <1>2, <1>3
  <2>2. CASE b # c
    <3>1. WasApplied(b)
      BY <2>2, <1>7
    <3>2. cancelRequested[s]
      BY <3>1 DEF Inv, Marked
    <3>. QED
      BY <3>1, <3>2, <1>1 DEF Inv, Told
  <2>. QED
    BY <2>1, <2>2
<1>9. NoLateSuccess'
  BY <1>1, <1>2 DEF Inv, Types, NoLateSuccess, Alive
<1>10. Unsuccessful'
  BY <1>1, <1>2 DEF Inv, Types, Unsuccessful, WasApplied, NoLateSuccess
<1>. QED
  BY <1>4, <1>5, <1>6, <1>8, <1>9, <1>10 DEF Inv

\* A start that is applied is the start under way.
LEMMA ApplyStartKeeps == ASSUME Inv, NEW c \in Call, ApplyStart(c) PROVE Inv'
<1>. USE NobodyIsNoCall
<1>1. /\ phase' = [phase EXCEPT ![c] = "applying"] /\ kind[c] = "start" /\ starting' = c
      /\ UNCHANGED <<kind, resource, result, wants, resourceLock, mutationLock, preempts,
                     cancelRequested, cancelled>>
  BY DEF ApplyStart, Set, calls, locks
<1>2. /\ phase[c] = "waiting" /\ wants[c] = "held" /\ mutationLock = c /\ starting = Nobody
      /\ preempts[c] = Nobody
  BY EntersHow DEF ApplyStart
<1>3. \A b \in Call : preempts[b] # Nobody => phase[preempts[b]] = "done" /\ preempts[b] # c
  BY <1>2 DEF Inv, Types, Interrupts
<1>4. Types'
  BY <1>1 DEF Inv, Types, Phase
<1>5. Ways' /\ StartHolds' /\ Unfinished'
  BY <1>1, <1>2 DEF Inv, Types, Ways, StartHolds, Unfinished
<1>6. Interrupts'
  <2>1. \A d \in Call : phase[d] \in {"applying", "draining"} /\ kind[d] = "start" => FALSE
    BY <1>2 DEF Inv, Interrupts
  <2>. QED
    BY <1>1, <1>2, <1>3, <2>1 DEF Inv, Types, Interrupts, Same
<1>7. Marked' /\ Unsuccessful'
  BY <1>1, <1>2, <1>3 DEF Inv, Types, Marked, WasApplied, Unsuccessful
<1>8. Told' /\ NoLateSuccess'
  BY <1>1, <1>2, <1>3 DEF Inv, Types, Told, WasApplied, NoLateSuccess, Alive
<1>. QED
  BY <1>4, <1>5, <1>6, <1>7, <1>8 DEF Inv

\* An edit that is applied.
LEMMA ApplyEditKeeps == ASSUME Inv, NEW c \in Call, ApplyEdit(c) PROVE Inv'
<1>. USE NobodyIsNoCall
<1>1. /\ phase' = [phase EXCEPT ![c] = "applying"] /\ kind[c] \in {"edit", "locale"}
      /\ UNCHANGED <<kind, resource, result, wants, resourceLock, mutationLock, starting,
                     preempts, cancelRequested, cancelled>>
  BY DEF ApplyEdit, Set, calls, locks, toggles
<1>2. phase[c] = "waiting" /\ wants[c] = "held" /\ preempts[c] = Nobody /\ starting = Nobody
  BY EntersHow, <1>1 DEF ApplyEdit
<1>3. Types'
  BY <1>1 DEF Inv, Types, Phase
<1>4. Ways' /\ StartHolds' /\ Unfinished'
  BY <1>1, <1>2 DEF Inv, Types, Ways, StartHolds, Unfinished
<1>5. Interrupts'
  BY <1>1, <1>2 DEF Inv, Types, Interrupts, Same
<1>6. Marked' /\ Unsuccessful'
  BY <1>1, <1>2 DEF Inv, Types, Marked, WasApplied, Unsuccessful
<1>7. Told' /\ NoLateSuccess'
  BY <1>1, <1>2 DEF Inv, Types, Told, WasApplied, NoLateSuccess, Alive
<1>. QED
  BY <1>3, <1>4, <1>5, <1>6, <1>7 DEF Inv

-------------------------------------------------------------------------------
\* A start that has ended waits inside for the stops that interrupt it; any other
\* call leaves when it has ended.
LEMMA ApplyEndsKeeps == ASSUME Inv, NEW c \in Call, ApplyEnds(c) PROVE Inv'
<1>. USE NobodyIsNoCall
<1>0. PICK how \in Outcome(c) :
         \/ /\ kind[c] = "start" /\ Stops(c) # {}
            /\ phase' = Set(phase, c, "draining")
            /\ result' = Set(result, c, how)
            /\ cancelled' = Set(cancelled, c, FALSE)
            /\ UNCHANGED <<calls, locks, toggles, open>>
         \/ /\ ~(kind[c] = "start" /\ Stops(c) # {})
            /\ Leave(c, how)
  BY DEF ApplyEnds
<1>1. phase[c] = "applying" /\ how \in {"applied", "failed", "cancelled"}
  BY DEF ApplyEnds, Outcome
<1>2. CASE kind[c] = "start" /\ Stops(c) # {}
  <2>1. /\ phase' = [phase EXCEPT ![c] = "draining"]
        /\ result' = [result EXCEPT ![c] = how]
        /\ cancelled' = [cancelled EXCEPT ![c] = FALSE]
        /\ UNCHANGED <<kind, resource, wants, resourceLock, mutationLock, starting,
                       preempts, cancelRequested>>
    BY <1>0, <1>2 DEF Set, calls, locks, toggles
  <2>2. starting = c /\ preempts[c] = Nobody /\ wants[c] = "held"
    BY <1>1, <1>2 DEF Inv, Interrupts, Ways
  <2>3. \E d \in Call : preempts[d] = c /\ Alive(d)
    BY <1>2 DEF Stops
  <2>4. Types'
    BY <2>1, <1>1 DEF Inv, Types, Phase, Result
  <2>5. Ways' /\ StartHolds' /\ Unfinished'
    BY <2>1, <2>2, <1>1 DEF Inv, Types, Ways, StartHolds, Unfinished
  <2>6. Interrupts'
    BY <2>1, <2>2, <1>1, <1>2 DEF Inv, Types, Interrupts, Same
  <2>7. Marked' /\ Unsuccessful'
    BY <2>1, <2>2, <1>1 DEF Inv, Types, Marked, WasApplied, Unsuccessful
  <2>8. Told'
    BY <2>1, <2>2, <2>3, <1>1 DEF Inv, Types, Told, WasApplied, Alive
  <2>9. NoLateSuccess'
    BY <2>1, <2>2, <1>1 DEF Inv, Types, NoLateSuccess, Alive
  <2>. QED
    BY <2>4, <2>5, <2>6, <2>7, <2>8, <2>9 DEF Inv
<1>3. CASE ~(kind[c] = "start" /\ Stops(c) # {})
  <2>1. how \in Result /\ Alive(c) /\ Leave(c, how)
    BY <1>0, <1>1, <1>3 DEF Result, Alive
  <2>2. how = "applied" => ~cancelled[c]
    BY DEF Outcome
  <2>3. kind[c] = "start" => \A d \in Call : preempts[d] = c => ~Alive(d)
    BY <1>3 DEF Stops
  <2>. QED
    BY <2>1, <2>2, <2>3, <1>1, LeaveKeeps
<1>. QED
  BY <1>2, <1>3

\* The other ways to leave are not successes.
LEMMA LeavesKeep ==
    ASSUME Inv, NEW c \in Call, Reject(c) \/ Refuse(c) \/ DrainEnds(c) \/ Cancelled(c)
    PROVE  Inv'
<1>1. CASE Reject(c)
  BY <1>1, EntersHow, LeaveKeeps DEF Reject, Result
<1>2. CASE Refuse(c)
  BY <1>2, EntersHow, LeaveKeeps DEF Refuse, Result
<1>3. CASE Cancelled(c)
  BY <1>3, LeaveKeeps DEF Cancelled, Alive, Result
<1>4. CASE DrainEnds(c)
  <2>1. phase[c] = "draining" /\ kind[c] = "start" /\ preempts[c] = Nobody /\ Alive(c)
    BY <1>4, NobodyIsNoCall DEF DrainEnds, Inv, Types, Interrupts, Alive
  <2>2. CASE Leave(c, "cancelled")
    BY <2>1, <2>2, LeaveKeeps DEF Result
  <2>3. CASE ~cancelled[c] /\ Stops(c) = {} /\ Leave(c, result[c])
    <3>1. \A d \in Call : preempts[d] = c => ~Alive(d)
      BY <2>3 DEF Stops
    <3>2. result[c] \in Result
      BY DEF Inv, Types
    <3>. QED
      BY <2>1, <2>3, <3>1, <3>2, LeaveKeeps
  <2>. QED
    BY <1>4, <2>2, <2>3 DEF DrainEnds
<1>. QED
  BY <1>1, <1>2, <1>3, <1>4

\* A preparation that ends, or fails.
LEMMA PrepareKeeps == ASSUME Inv, NEW c \in Call, Prepare(c) PROVE Inv'
<1>. USE NobodyIsNoCall
<1>1. phase[c] = "preparing" /\ preempts[c] = Nobody /\ Alive(c)
  BY DEF Prepare, Inv, Interrupts, Alive
<1>2. CASE Leave(c, "failed")
  BY <1>1, <1>2, LeaveKeeps DEF Result
<1>3. CASE ~Leave(c, "failed")
  <2>1. /\ phase' = [phase EXCEPT ![c] = "fresh"]
        /\ UNCHANGED <<kind, resource, result, wants, resourceLock, mutationLock, starting,
                       preempts, cancelRequested, cancelled>>
    BY <1>3 DEF Prepare, Set, calls, locks, toggles
  <2>2. Types'
    BY <2>1 DEF Inv, Types, Phase
  <2>3. Ways' /\ StartHolds' /\ Unfinished'
    BY <1>1, <2>1 DEF Inv, Types, Ways, StartHolds, Unfinished
  <2>4. Interrupts'
    BY <1>1, <2>1 DEF Inv, Types, Interrupts, Same
  <2>5. Marked' /\ Unsuccessful'
    BY <1>1, <2>1 DEF Inv, Types, Marked, WasApplied, Unsuccessful
  <2>6. Told' /\ NoLateSuccess'
    BY <1>1, <2>1 DEF Inv, Types, Told, WasApplied, NoLateSuccess, Alive
  <2>. QED
    BY <2>2, <2>3, <2>4, <2>5, <2>6 DEF Inv
<1>. QED
  BY <1>2, <1>3

\* Shutdown only asks calls to cancel.
LEMMA FreezeKeeps == ASSUME Inv, Freeze PROVE Inv'
<1>1. /\ cancelled' \in [Call -> BOOLEAN]
      /\ \A c \in Call : cancelled[c] => cancelled'[c]
      /\ UNCHANGED <<kind, resource, phase, result, wants, resourceLock, mutationLock,
                     starting, preempts, cancelRequested>>
  BY DEF Freeze, Inv, Types, calls, locks, toggles
<1>2. Types' /\ Ways' /\ StartHolds' /\ Unfinished'
  BY <1>1 DEF Inv, Types, Ways, StartHolds, Unfinished
<1>3. Interrupts' /\ Marked' /\ NoLateSuccess' /\ Unsuccessful'
  BY <1>1 DEF Inv, Interrupts, Marked, WasApplied, NoLateSuccess, Unsuccessful,
              Alive, Same
<1>4. Told'
  BY <1>1 DEF Inv, Told, WasApplied, Alive
<1>. QED
  BY <1>2, <1>3, <1>4 DEF Inv

\* Stuttering.
LEMMA StutterKeeps == ASSUME Inv, UNCHANGED vars PROVE Inv'
<1>1. UNCHANGED <<kind, resource, phase, result, wants, resourceLock, mutationLock,
                  starting, preempts, cancelRequested, cancelled>>
  BY DEF vars, calls, locks, toggles
<1>. QED
  BY <1>1 DEF Inv, Types, Ways, StartHolds, Interrupts, Marked, Told, WasApplied,
              NoLateSuccess, Unsuccessful, Unfinished, Alive, Same

-------------------------------------------------------------------------------
\* Every step keeps the invariant.
LEMMA InvNext == Inv /\ [Next]_vars => Inv'
<1> SUFFICES ASSUME Inv, [Next]_vars PROVE Inv'
  OBVIOUS
<1>1. ASSUME NEW c \in Call, Step(c) PROVE Inv'
  <2>1. CASE Begin(c)
    BY <2>1, BeginKeeps
  <2>2. CASE TakeResource(c) \/ TakeMutation(c)
    BY <2>2, TakeKeeps
  <2>3. CASE Notice(c)
    BY <2>3, PreemptKeeps DEF Notice
  <2>4. CASE Reject(c) \/ Refuse(c) \/ DrainEnds(c) \/ Cancelled(c)
    BY <2>4, LeavesKeep
  <2>5. CASE ApplyStop(c)
    BY <2>5, ApplyStopKeeps
  <2>6. CASE ApplyStart(c)
    BY <2>6, ApplyStartKeeps
  <2>7. CASE ApplyEdit(c)
    BY <2>7, ApplyEditKeeps
  <2>. QED
    BY <1>1, <2>1, <2>2, <2>3, <2>4, <2>5, <2>6, <2>7 DEF Step
<1>2. ASSUME NEW c \in Call, Admit(c) \/ Prepare(c) \/ Refresh(c) \/ ApplyEnds(c) PROVE Inv'
  BY <1>2, AdmitKeeps, PrepareKeeps, RefreshKeeps, ApplyEndsKeeps
<1>3. CASE Freeze
  BY <1>3, FreezeKeeps
<1>4. CASE UNCHANGED vars
  BY <1>4, StutterKeeps
<1>. QED
  BY <1>1, <1>2, <1>3, <1>4 DEF Next, Finished

\* For every number of calls, resources and surfaces, with or without a shutdown.
THEOREM Invariance == Spec => []Inv
<1>1. Init => Inv
  BY InvInit
<1>2. Inv /\ [Next]_vars => Inv'
  BY InvNext
<1>. QED
  BY <1>1, <1>2, PTL DEF Spec

\* A lock never belongs to a call that gave up, was refused, cancelled or is over.
THEOREM NoLockLeaksAlways == Spec => []NoLockLeaks
<1>1. Inv => NoLockLeaks
  BY NobodyIsNoCall DEF Inv, Types, Ways, NoLockLeaks
<1>. QED
  BY <1>1, Invariance, PTL

\* Two calls are inside together only as a start and the stop that interrupts it, or
\* when the start of one of them has left already.
THEOREM OnlyMatchingStopOverlapsAlways == Spec => []OnlyMatchingStopOverlaps
<1>1. Inv => OnlyMatchingStopOverlaps
  <2> SUFFICES ASSUME Inv, NEW a \in Call, NEW b \in Call, a # b, Applying(a), Applying(b),
                      ~Orphan(a), ~Orphan(b)
               PROVE  \/ preempts[a] = b /\ Same(a, b)
                      \/ preempts[b] = a /\ Same(a, b)
    BY DEF OnlyMatchingStopOverlaps
  <2>1. \A c, d \in Call : wants[c] = "held" /\ wants[d] = "held" => c = d
    BY DEF Inv, Ways
  <2>2. \A c \in Call : Applying(c) /\ wants[c] # "held" /\ ~Orphan(c) =>
           /\ preempts[c] # Nobody /\ phase[c] = "applying"
           /\ preempts[c] = starting /\ Same(c, starting) /\ wants[starting] = "held"
    BY DEF Inv, Types, Ways, Interrupts, StartHolds, Applying, Orphan
  <2>3. starting # Nobody => starting \in Call
    BY DEF Inv, Types
  <2>4. CASE wants[a] = "held"
    BY <2>1, <2>2, <2>3, <2>4 DEF Same
  <2>5. CASE wants[b] = "held"
    BY <2>1, <2>2, <2>3, <2>5 DEF Same
  <2>6. CASE wants[a] # "held" /\ wants[b] # "held"
    BY <2>2, <2>6 DEF Inv, Interrupts
  <2>. QED
    BY <2>4, <2>5, <2>6
<1>. QED
  BY <1>1, Invariance, PTL

-------------------------------------------------------------------------------
(* Types, those of the queues included.                                    *)

Line == INSTANCE OutputLineProofs

\* Who waits for a lock is in its queue.
Waits(q, c) == \E i \in DOMAIN q : q[i] = c
Queues ==
    /\ resourceQueue \in Seq(Call) /\ mutationQueue \in Seq(Call)
    /\ \A c \in Call : /\ wants[c] = "resource" => Waits(resourceQueue, c)
                       /\ wants[c] = "mutation" => Waits(mutationQueue, c)

\* What Types leaves out.
Rest ==
    /\ surface \in [Call -> Surface] /\ open \in BOOLEAN
    /\ fence \in [Resource -> Call \union {0}]

\* The queue operations on a queue of calls.
LEMMA QueueTypes ==
    ASSUME NEW q \in Seq(Call), NEW c \in Call
    PROVE  /\ RemoveFirst(q, c) \in Seq(Call) /\ Append(q, c) \in Seq(Call)
           /\ Waits(Append(q, c), c)
           /\ \A d \in Call : d # c /\ Waits(q, d) => Waits(RemoveFirst(q, c), d)
           /\ \A d \in Call : Waits(q, d) => Waits(Append(q, c), d)
<1>1. Line!RemoveFirst(q, c) = RemoveFirst(q, c)
  BY DEF RemoveFirst, Line!RemoveFirst, RemoveAt, Line!RemoveAt,
         SelectInSeq, Line!SelectInSeq, Min, Line!Min
<1>2. RemoveFirst(q, c) \in Seq(Call)
  BY <1>1, Line!RemoveFirstElements
<1>3. ASSUME NEW d \in Call, d # c, Waits(q, d) PROVE Waits(RemoveFirst(q, c), d)
  <2>1. Line!InLine(q, d)
    BY <1>3 DEF Waits, Line!InLine
  <2>2. Line!InLine(Line!RemoveFirst(q, c), d)
    BY <1>3, <2>1, Line!RemoveFirstKeeps
  <2>. QED
    BY <1>1, <2>2 DEF Waits, Line!InLine
<1>4. /\ Append(q, c) \in Seq(Call) /\ Len(q) \in Nat /\ Len(Append(q, c)) = Len(q) + 1
      /\ Append(q, c)[Len(q) + 1] = c
      /\ \A i \in 1 .. Len(q) : Append(q, c)[i] = q[i]
  BY AppendProperties, LenProperties
<1>5. DOMAIN q = 1 .. Len(q) /\ DOMAIN Append(q, c) = 1 .. Len(q) + 1
  BY <1>4, LenProperties
<1>6. Waits(Append(q, c), c) /\ \A d \in Call : Waits(q, d) => Waits(Append(q, c), d)
  BY <1>4, <1>5 DEF Waits
<1>. QED
  BY <1>2, <1>3, <1>4, <1>6

\* The head of a queue leaves it, and nobody else does.
LEMMA HeadTypes ==
    ASSUME NEW q \in Seq(Call), NEW c \in Call, Waits(q, c), Head(q) = c
    PROVE  /\ Tail(q) \in Seq(Call)
           /\ \A d \in Call : d # c /\ Waits(q, d) => Waits(Tail(q), d)
<1>1. Len(q) \in Nat /\ DOMAIN q = 1 .. Len(q) /\ q # <<>>
  BY LenProperties, EmptySeq DEF Waits
<1>2. /\ Tail(q) \in Seq(Call) /\ Len(Tail(q)) = Len(q) - 1 /\ q[1] = c
      /\ \A i \in 1 .. Len(q) - 1 : Tail(q)[i] = q[i + 1]
  BY <1>1, HeadTailProperties
<1>3. DOMAIN Tail(q) = 1 .. Len(q) - 1
  BY <1>2, LenProperties
<1>4. ASSUME NEW d \in Call, d # c, Waits(q, d) PROVE Waits(Tail(q), d)
  <2>1. PICK i \in 1 .. Len(q) : q[i] = d
    BY <1>1, <1>4 DEF Waits
  <2>2. i - 1 \in 1 .. Len(q) - 1 /\ (i - 1) + 1 = i
    BY <1>1, <1>2, <1>4, <2>1
  <2>. QED
    BY <1>2, <1>3, <2>1, <2>2 DEF Waits
<1>. QED
  BY <1>2, <1>4

\* What acquire() gives back.
LEMMA ForgetQueues ==
    ASSUME Inv, Queues, NEW c \in Call, Forget(c) PROVE Queues'
<1>1. /\ resourceQueue' = RemoveFirst(resourceQueue, c)
      /\ mutationQueue' = RemoveFirst(mutationQueue, c)
      /\ wants'[c] = "nothing" /\ \A d \in Call : d # c => wants'[d] = wants[d]
  BY DEF Forget, Set, Inv, Types
<1>. QED
  BY <1>1, QueueTypes DEF Queues

\* Every step keeps the queues.
LEMMA QueuesNext == ASSUME Inv, Queues, [Next]_vars PROVE Queues'
<1>. USE DEF locks, calls, toggles
<1>1. ASSUME UNCHANGED locks PROVE Queues'
  BY <1>1 DEF Queues
<1>2. ASSUME NEW c \in Call, Forget(c) PROVE Queues'
  BY <1>2, ForgetQueues
<1>3. ASSUME NEW c \in Call, Begin(c) PROVE Queues'
  <2>1. CASE Preempt(c)
    BY <1>2, <2>1 DEF Preempt
  <2>2. CASE ~Preempt(c)
    <3>1. \/ /\ wants' = [wants EXCEPT ![c] = "resource"]
             /\ resourceQueue' = Append(resourceQueue, c) /\ mutationQueue' = mutationQueue
          \/ /\ wants' = [wants EXCEPT ![c] = "mutation"]
             /\ mutationQueue' = Append(mutationQueue, c) /\ resourceQueue' = resourceQueue
      BY <1>3, <2>2 DEF Begin, Set
    <3>2. \A d \in Call : d # c => wants'[d] = wants[d]
      BY <3>1 DEF Inv, Types
    <3>3. \/ wants'[c] = "resource" /\ resourceQueue' = Append(resourceQueue, c)
             /\ mutationQueue' = mutationQueue
          \/ wants'[c] = "mutation" /\ mutationQueue' = Append(mutationQueue, c)
             /\ resourceQueue' = resourceQueue
      BY <3>1 DEF Inv, Types
    <3>4. /\ resourceQueue' \in {resourceQueue, Append(resourceQueue, c)}
          /\ mutationQueue' \in {mutationQueue, Append(mutationQueue, c)}
      BY <3>3
    <3>5. /\ resourceQueue' \in Seq(Call) /\ mutationQueue' \in Seq(Call)
          /\ \A d \in Call : /\ Waits(resourceQueue, d) => Waits(resourceQueue', d)
                             /\ Waits(mutationQueue, d) => Waits(mutationQueue', d)
      <4>1. ASSUME NEW q \in Seq(Call), NEW r \in {q, Append(q, c)}
            PROVE  r \in Seq(Call) /\ \A d \in Call : Waits(q, d) => Waits(r, d)
        BY <4>1, QueueTypes
      <4>. QED
        BY <3>4, <4>1 DEF Queues
    <3>6. /\ wants'[c] = "resource" => Waits(resourceQueue', c)
          /\ wants'[c] = "mutation" => Waits(mutationQueue', c)
      BY <3>3, QueueTypes DEF Queues
    <3>7. \A d \in Call : /\ wants'[d] = "resource" => Waits(resourceQueue', d)
                          /\ wants'[d] = "mutation" => Waits(mutationQueue', d)
      BY <3>2, <3>5, <3>6 DEF Queues
    <3>. QED
      BY <3>5, <3>7 DEF Queues, Waits
  <2>. QED
    BY <2>1, <2>2
<1>4. ASSUME NEW c \in Call, TakeResource(c) PROVE Queues'
  <2>1. /\ Waits(resourceQueue, c) /\ Head(resourceQueue) = c
        /\ resourceQueue' = Tail(resourceQueue) /\ mutationQueue' = Append(mutationQueue, c)
        /\ wants'[c] = "mutation" /\ \A d \in Call : d # c => wants'[d] = wants[d]
    BY <1>4 DEF TakeResource, Set, Queues, Inv, Types
  <2>. QED
    BY <2>1, HeadTypes, QueueTypes DEF Queues
<1>5. ASSUME NEW c \in Call, TakeMutation(c) PROVE Queues'
  <2>1. /\ Waits(mutationQueue, c) /\ Head(mutationQueue) = c
        /\ mutationQueue' = Tail(mutationQueue) /\ resourceQueue' = resourceQueue
        /\ wants'[c] = "held" /\ \A d \in Call : d # c => wants'[d] = wants[d]
    BY <1>5 DEF TakeMutation, Set, Queues, Inv, Types
  <2>. QED
    BY <2>1, HeadTypes DEF Queues
<1>6. ASSUME NEW c \in Call,
             \/ Admit(c) \/ Prepare(c) \/ Refresh(c) \/ ApplyEnds(c) \/ Notice(c)
             \/ Reject(c) \/ Refuse(c) \/ ApplyStop(c) \/ ApplyStart(c) \/ ApplyEdit(c)
             \/ DrainEnds(c) \/ Cancelled(c)
      PROVE  UNCHANGED locks \/ Forget(c)
  BY <1>6 DEF Admit, Prepare, Refresh, ApplyEnds, Notice, Reject, Refuse, ApplyStop,
              ApplyStart, ApplyEdit, DrainEnds, Cancelled, Leave, Preempt
<1>7. CASE Freeze \/ UNCHANGED vars
  BY <1>1, <1>7 DEF Freeze, vars
<1>. QED
  BY <1>1, <1>2, <1>3, <1>4, <1>5, <1>6, <1>7 DEF Next, Step, Finished

\* Every step keeps the remaining types.
LEMMA RestNext == ASSUME Inv, Rest, [Next]_vars PROVE Rest'
<1>. USE DEF locks, calls, toggles
<1>1. surface' = surface /\ open' \in BOOLEAN
  BY DEF Next, Step, Finished, Rest, vars, Admit, Prepare, Begin, TakeResource,
         TakeMutation, Refresh, ApplyEnds, Notice, Reject, Refuse, ApplyStop,
         ApplyStart, ApplyEdit, DrainEnds, Cancelled, Leave, Preempt, Freeze
<1>2. ASSUME NEW c \in Call, ApplyStop(c) PROVE fence' \in [Resource -> Call \union {0}]
  BY <1>2 DEF ApplyStop, Set, Rest, Inv, Types
<1>3. ASSUME ~\E c \in Call : ApplyStop(c) PROVE fence' \in [Resource -> Call \union {0}]
  <2>1. fence' = fence
    BY <1>3 DEF Next, Step, Finished, vars, Admit, Prepare, Begin, TakeResource,
                TakeMutation, Refresh, ApplyEnds, Notice, Reject, Refuse, ApplyStart,
                ApplyEdit, DrainEnds, Cancelled, Leave, Preempt, Freeze
  <2>. QED
    BY <2>1 DEF Rest
<1>. QED
  BY <1>1, <1>2, <1>3 DEF Rest

\* Type correctness: in particular every fence is a call's number, and the head of a
\* queue that a lock is handed to is a waiter.
THEOREM TypeCorrect == Spec => []TypeOK
<1>1. Init => Queues /\ Rest
  <2> SUFFICES ASSUME Init PROVE Queues /\ Rest
    OBVIOUS
  <2>1. <<>> \in Seq(Call)
    BY EmptySeq
  <2>. QED
    BY <2>1 DEF Init, Queues, Rest
<1>2. Inv /\ Queues /\ Rest => TypeOK
  BY DEF Inv, Types, Queues, Rest, TypeOK
<1>. QED
  BY <1>1, <1>2, QueuesNext, RestNext, Invariance, PTL DEF Spec

-------------------------------------------------------------------------------
(* The fence.                                                              *)

\* The fence of a resource is not older than a stop that was carried out for it, and a
\* start inside is newer than the fence or marked.  (Only a start prepares: a
\* preparation that fails is not a stop that was carried out.)
Fenced ==
    /\ \A c \in Call : phase[c] = "preparing" => kind[c] = "start"
    /\ \A c \in Call : Stopped(c) => fence[resource[c]] >= c
    /\ \A s \in Call : kind[s] = "start" /\ Applying(s)
                         => s > fence[resource[s]] \/ cancelRequested[s]

\* A step that carries out no stop and lets no start in.
LEMMA FencedStill ==
    ASSUME Fenced, UNCHANGED <<kind, resource, fence, cancelRequested>>,
           \A c \in Call : kind[c] = "stop" /\ Stopped(c)' => Stopped(c),
           \A c \in Call : kind[c] = "start" /\ Applying(c)' => Applying(c),
           \A c \in Call : phase'[c] = "preparing" => phase[c] = "preparing" \/ kind[c] = "start"
    PROVE  Fenced'
BY DEF Fenced, Stopped

\* A call that leaves: a stop that was not carried out is cancelled, refused or stale.
LEMMA FencedLeaves ==
    ASSUME Inv, Fenced, NEW c \in Call, NEW how, Leave(c, how),
           kind[c] = "stop" /\ how \in {"applied", "failed"} => phase[c] = "applying"
    PROVE  Fenced'
<1>1. /\ phase' = [phase EXCEPT ![c] = "done"] /\ result' = [result EXCEPT ![c] = how]
      /\ UNCHANGED <<kind, resource, fence, cancelRequested>>
  BY DEF Leave, Set, calls
<1>2. \A b \in Call : kind[b] = "stop" /\ Stopped(b)' => Stopped(b)
  BY <1>1 DEF Stopped, Inv, Types
<1>3. \A b \in Call : kind[b] = "start" /\ Applying(b)' => Applying(b)
  BY <1>1 DEF Applying, Inv, Types
<1>4. \A b \in Call : phase'[b] = "preparing" => phase[b] = "preparing"
  BY <1>1 DEF Inv, Types
<1>. QED
  BY <1>1, <1>2, <1>3, <1>4, FencedStill

\* A stop that is carried out moves the fence and marks the start under way, which is
\* the only one inside.
LEMMA FencedStop == ASSUME Inv, Rest, Fenced, NEW c \in Call, ApplyStop(c) PROVE Fenced'
<1> DEFINE r == resource[c]
<1>1. /\ phase' = [phase EXCEPT ![c] = "applying"] /\ kind[c] = "stop"
      /\ fence' = [fence EXCEPT ![r] = IF c > fence[r] THEN c ELSE fence[r]]
      /\ cancelRequested' = [d \in Call |-> cancelRequested[d] \/ (Matches(c) /\ d = starting)]
      /\ UNCHANGED <<kind, resource, result>>
  BY DEF ApplyStop, Set, calls
<1>2. r \in Resource /\ (\A b \in Call : resource[b] \in Resource) /\ Call \subseteq Nat
  BY CallsAssumption DEF Inv, Types, Call
<1>3. \A q \in Resource : fence[q] \in Nat
  <2>. SUFFICES ASSUME NEW q \in Resource PROVE fence[q] \in Nat
    OBVIOUS
  <2>1. fence[q] \in Call \union {0}
    BY DEF Rest
  <2>. QED
    BY <2>1, CallsAssumption DEF Call
<1>4. /\ fence'[r] >= c /\ fence'[r] >= fence[r]
      /\ \A q \in Resource : q # r => fence'[q] = fence[q]
  BY <1>1, <1>2, <1>3 DEF Rest
<1>5. ASSUME NEW b \in Call, Stopped(b)' PROVE fence'[resource[b]] >= b
  <2>1. CASE b = c
    BY <1>4, <2>1
  <2>2. CASE b # c
    <3>1. Stopped(b)
      BY <1>1, <1>5, <2>2 DEF Stopped, Inv, Types
    <3>2. fence[resource[b]] >= b
      BY <3>1 DEF Fenced
    <3>3. fence'[resource[b]] >= fence[resource[b]] /\ fence'[resource[b]] \in Nat
      BY <1>1, <1>2, <1>3, <1>4 DEF Rest
    <3>. QED
      BY <1>2, <1>3, <3>2, <3>3
  <2>. QED
    BY <2>1, <2>2
<1>6. ASSUME NEW s \in Call, kind[s] = "start", Applying(s)'
      PROVE  s > fence'[resource[s]] \/ cancelRequested'[s]
  <2>1. Applying(s)
    BY <1>1, <1>6 DEF Applying, Inv, Types
  <2>2. s > fence[resource[s]] \/ cancelRequested[s]
    BY <1>6, <2>1 DEF Fenced
  <2>3. starting = s
    BY <1>6, <2>1 DEF Applying, Inv, Interrupts
  <2>4. CASE resource[s] = r
    <3>1. Matches(c)
      BY <1>1, <2>3, <2>4, NobodyIsNoCall DEF Matches, Same
    <3>. QED
      BY <1>1, <2>3, <3>1
  <2>5. CASE resource[s] # r
    BY <1>1, <1>2, <1>4, <2>2, <2>5
  <2>. QED
    BY <2>4, <2>5
<1>7. \A b \in Call : phase'[b] = "preparing" => kind[b] = "start"
  BY <1>1 DEF Fenced, Inv, Types
<1>. QED
  BY <1>1, <1>5, <1>6, <1>7 DEF Fenced

\* Every step keeps the fence.
LEMMA FencedNext == ASSUME Inv, Rest, Fenced, [Next]_vars PROVE Fenced'
<1>. USE DEF locks, calls, toggles
<1>1. ASSUME NEW c \in Call,
             \/ Admit(c) \/ Refresh(c) \/ Begin(c) \/ TakeResource(c) \/ TakeMutation(c)
             \/ Notice(c) \/ ApplyEdit(c)
      PROVE  Fenced'
  <2>1. /\ UNCHANGED <<kind, resource, result, fence, cancelRequested>>
        /\ \/ phase' = phase
           \/ \E p \in {"fresh", "waiting", "preempting"} : phase' = [phase EXCEPT ![c] = p]
           \/ phase' = [phase EXCEPT ![c] = "preparing"] /\ kind[c] = "start"
           \/ phase' = [phase EXCEPT ![c] = "applying"] /\ kind[c] \in {"edit", "locale"}
    BY <1>1 DEF Admit, Refresh, Begin, TakeResource, TakeMutation, Notice, ApplyEdit, Preempt, Prepares, Set
  <2>2. \A b \in Call : kind[b] = "stop" /\ Stopped(b)' => Stopped(b)
    BY <2>1 DEF Stopped, Inv, Types
  <2>3. \A b \in Call : kind[b] = "start" /\ Applying(b)' => Applying(b)
    BY <2>1 DEF Applying, Inv, Types
  <2>4. \A b \in Call : phase'[b] = "preparing" => phase[b] = "preparing" \/ kind[b] = "start"
    BY <2>1 DEF Inv, Types
  <2>. QED
    BY <2>1, <2>2, <2>3, <2>4, FencedStill
<1>2. ASSUME NEW c \in Call, Reject(c) \/ Refuse(c) \/ Cancelled(c) PROVE Fenced'
  BY <1>2, FencedLeaves DEF Reject, Refuse, Cancelled
<1>3. ASSUME NEW c \in Call, Prepare(c) PROVE Fenced'
  <2>1. CASE Leave(c, "failed")
    <3>1. kind[c] = "start"
      BY <1>3 DEF Prepare, Fenced
    <3>. QED
      BY <2>1, <3>1, FencedLeaves
  <2>2. CASE ~Leave(c, "failed")
    <3>1. /\ phase' = [phase EXCEPT ![c] = "fresh"]
          /\ UNCHANGED <<kind, resource, result, fence, cancelRequested>>
      BY <1>3, <2>2 DEF Prepare, Set
    <3>2. /\ \A b \in Call : kind[b] = "stop" /\ Stopped(b)' => Stopped(b)
          /\ \A b \in Call : kind[b] = "start" /\ Applying(b)' => Applying(b)
          /\ \A b \in Call : phase'[b] = "preparing" => phase[b] = "preparing"
      BY <3>1 DEF Stopped, Applying, Inv, Types
    <3>. QED
      BY <3>1, <3>2, FencedStill
  <2>. QED
    BY <2>1, <2>2
<1>4. ASSUME NEW c \in Call, DrainEnds(c) PROVE Fenced'
  <2>1. kind[c] = "start"
    BY <1>4 DEF DrainEnds, Inv, Interrupts
  <2>. QED
    BY <1>4, <2>1, FencedLeaves DEF DrainEnds
<1>5. ASSUME NEW c \in Call, ApplyEnds(c) PROVE Fenced'
  <2>1. CASE \E how \in Outcome(c) : Leave(c, how)
    BY <1>5, <2>1, FencedLeaves DEF ApplyEnds
  <2>2. CASE ~\E how \in Outcome(c) : Leave(c, how)
    <3>1. /\ kind[c] = "start" /\ phase[c] = "applying"
          /\ phase' = [phase EXCEPT ![c] = "draining"]
          /\ \E how \in Outcome(c) : result' = [result EXCEPT ![c] = how]
          /\ UNCHANGED <<kind, resource, fence, cancelRequested>>
      BY <1>5, <2>2 DEF ApplyEnds, Set
    <3>2. /\ \A b \in Call : kind[b] = "stop" /\ Stopped(b)' => Stopped(b)
          /\ \A b \in Call : kind[b] = "start" /\ Applying(b)' => Applying(b)
          /\ \A b \in Call : phase'[b] = "preparing" => phase[b] = "preparing"
      BY <3>1 DEF Stopped, Applying, Inv, Types
    <3>. QED
      BY <3>1, <3>2, FencedStill
  <2>. QED
    BY <2>1, <2>2
<1>6. ASSUME NEW c \in Call, ApplyStart(c) PROVE Fenced'
  <2>1. /\ phase' = [phase EXCEPT ![c] = "applying"] /\ kind[c] = "start" /\ c > fence[resource[c]]
        /\ UNCHANGED <<kind, resource, result, fence, cancelRequested>>
    BY <1>6 DEF ApplyStart, Set, Current
  <2>2. \A b \in Call : /\ Stopped(b)' => Stopped(b)
                        /\ b # c /\ Applying(b)' => Applying(b)
                        /\ phase'[b] = "preparing" => phase[b] = "preparing"
    BY <2>1 DEF Stopped, Applying, Inv, Types
  <2>. QED
    BY <2>1, <2>2 DEF Fenced
<1>7. CASE Freeze \/ UNCHANGED vars
  <2>1. UNCHANGED <<kind, resource, phase, result, fence, cancelRequested>>
    BY <1>7 DEF Freeze, vars
  <2>. QED
    BY <2>1 DEF Fenced, Stopped, Applying
<1>. QED
  BY <1>1, <1>2, <1>3, <1>4, <1>5, <1>6, <1>7, FencedStop DEF Next, Step, Finished

\* A start that one of its stops was carried out for does not report success, and no
\* older start is inside that a stop overtook, but the one it marked.
THEOREM InterruptedStartFailsAlways == Spec => []InterruptedStartFails
<1>1. Init => Rest /\ Fenced
  BY NobodyIsNoCall DEF Init, Rest, Fenced, Stopped, Applying
<1>2. Inv /\ Rest /\ Fenced => InterruptedStartFails
  <2> SUFFICES ASSUME Inv, Rest, Fenced, NEW c \in Call, NEW s \in Call, Stopped(c)
               PROVE  /\ preempts[c] = s => ~(phase[s] = "done" /\ result[s] = "applied")
                      /\ kind[s] = "start" /\ Same(c, s) /\ s < c /\ Applying(s) => cancelRequested[s]
    BY DEF InterruptedStartFails
  <2>1. preempts[c] = s => ~(phase[s] = "done" /\ result[s] = "applied")
    BY DEF Inv, Unsuccessful, WasApplied, Stopped
  <2>2. ASSUME kind[s] = "start", Same(c, s), s < c, Applying(s) PROVE cancelRequested[s]
    <3>1. fence[resource[s]] >= c
      BY <2>2 DEF Fenced, Same
    <3>2. s \in Nat /\ c \in Nat /\ fence[resource[s]] \in Nat
      BY CallsAssumption DEF Call, Rest, Inv, Types
    <3>3. ~(s > fence[resource[s]])
      BY <2>2, <3>1, <3>2
    <3>. QED
      BY <2>2, <3>3 DEF Fenced
  <2>. QED
    BY <2>1, <2>2
<1>. QED
  BY <1>1, <1>2, RestNext, FencedNext, Invariance, PTL DEF Spec

===============================================================================
