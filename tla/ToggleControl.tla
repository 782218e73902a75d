----------------------------- MODULE ToggleControl -----------------------------
(***************************************************************************)
(* How ApplicationControlOwner (app/services/application_control.py) orders  *)
(* the calls that turn a runtime resource on or off with each other and with  *)
(* the other ordered mutations.                                              *)
(*                                                                         *)
(* Every call runs as a task of one event loop.  A start takes the resource   *)
(* lock and then the mutation lock, and keeps both while it loads, which may   *)
(* take for ever.  A stop asks for the locks too, but a stop of the resource   *)
(* that is being started stops asking: it registers with the start, runs       *)
(* beside it, and the start may neither release the locks before its           *)
(* registered stops are over nor survive one that was applied.                 *)
(*                                                                         *)
(* One step here is what a task does between two awaits that suspend.         *)
(***************************************************************************)
EXTENDS Naturals, Sequences, SequencesExt

CONSTANTS
    N,          \* calls; a call's number is the sequence it is admitted with
    Resource,   \* toggled resources
    Surface,    \* "control": an operation, cancelled at shutdown; "gui": a coroutine
    Freezes     \* whether the host shuts down

ASSUME CallsAssumption == N \in Nat
ASSUME ResourceAssumption == Resource \subseteq {"translation", "self", "peer"}
ASSUME SurfaceAssumption == Surface \subseteq {"control", "gui"}
ASSUME FreezeAssumption == Freezes \in BOOLEAN

Call == 1 .. N
Nobody == 0
\* "locale" is an ordered mutation that takes the mutation lock only: a change of the
\* locale alone, or secrets.verify; "edit" is any other one.
Kind == {"start", "stop", "edit", "locale"}
Phase == {"unborn", "fresh", "preparing", "waiting", "preempting", "applying",
          "draining", "done"}
Result == {"none", "applied", "failed", "cancelled", "rejected", "stale"}

VARIABLES
    kind, resource, surface,          \* of each admitted call
    phase, result,
    wants,                            \* where its acquisition is
    resourceLock, resourceQueue,      \* _resource_lock, and who waits for it
    mutationLock, mutationQueue,      \* _lock, and who waits for it
    starting,                         \* _starting_runtime_toggle
    preempts,                         \* the start whose `stops` this call joined
    cancelRequested,                  \* _StartingRuntimeToggle.cancel_requested
    cancelled,                        \* task.cancel() not yet delivered
    fence,                            \* _runtime_toggle_stops
    open                              \* _open

locks == <<resourceLock, resourceQueue, mutationLock, mutationQueue, wants>>
calls == <<kind, resource, surface>>
toggles == <<starting, preempts, cancelRequested, fence>>
vars == <<calls, phase, result, locks, toggles, cancelled, open>>

TypeOK ==
    /\ kind \in [Call -> Kind] /\ resource \in [Call -> Resource]
    /\ surface \in [Call -> Surface]
    /\ phase \in [Call -> Phase] /\ result \in [Call -> Result]
    /\ wants \in [Call -> {"nothing", "resource", "mutation", "held"}]
    /\ resourceLock \in Call \union {Nobody} /\ resourceQueue \in Seq(Call)
    /\ mutationLock \in Call \union {Nobody} /\ mutationQueue \in Seq(Call)
    /\ starting \in Call \union {Nobody}
    /\ preempts \in [Call -> Call \union {Nobody}]
    /\ cancelRequested \in [Call -> BOOLEAN] /\ cancelled \in [Call -> BOOLEAN]
    /\ fence \in [Resource -> Call \union {0}]
    /\ open \in BOOLEAN

\* What the calls will be about; a mutation has no resource, so one stands for all.
Init ==
    /\ kind \in [Call -> Kind] /\ resource \in [Call -> Resource]
    /\ \A c \in Call :
          kind[c] \in {"edit", "locale"} => resource[c] = CHOOSE r \in Resource : TRUE
    /\ surface \in [Call -> Surface]
    /\ phase = [c \in Call |-> "unborn"] /\ result = [c \in Call |-> "none"]
    /\ wants = [c \in Call |-> "nothing"]
    /\ resourceLock = Nobody /\ resourceQueue = <<>>
    /\ mutationLock = Nobody /\ mutationQueue = <<>>
    /\ starting = Nobody
    /\ preempts = [c \in Call |-> Nobody]
    /\ cancelRequested = [c \in Call |-> FALSE]
    /\ cancelled = [c \in Call |-> FALSE]
    /\ fence = [r \in Resource |-> 0]
    /\ open = TRUE

-------------------------------------------------------------------------------
Alive(c) == phase[c] \notin {"unborn", "done"}
Same(c, d) == resource[c] = resource[d]

\* The calls in starting.stops of the start s.
Stops(s) == {c \in Call : preempts[c] = s /\ Alive(c)}

\* Mutant: an older start is not refused.
CurrentAlways(c) == TRUE

\* runtime_toggle_is_current
Current(c) == kind[c] = "start" => c > fence[resource[c]]

\* Mutant: a stop may interrupt any start.
MatchesAny(c) == kind[c] = "stop" /\ starting # Nobody
\* The start that the stop c may preempt is under way.
Matches(c) == kind[c] = "stop" /\ starting # Nobody /\ Same(c, starting)

\* A capture stop and a change of the locale ask for the mutation lock only.
NeedsResource(c) ==
    kind[c] \in {"start", "edit"} \/ (kind[c] = "stop" /\ resource[c] = "translation")

\* Only a translation start prepares its index first.
Prepares(c) == kind[c] = "start" /\ resource[c] = "translation"

Set(f, c, v) == [f EXCEPT ![c] = v]

\* Mutant: a waiter that gives up keeps the resource lock it already holds.
ForgetQueued(c) ==
    /\ resourceQueue' = RemoveFirst(resourceQueue, c)
    /\ mutationQueue' = RemoveFirst(mutationQueue, c)
    /\ mutationLock' = IF mutationLock = c THEN Nobody ELSE mutationLock
    /\ wants' = Set(wants, c, "nothing")
    /\ UNCHANGED resourceLock

\* What acquire() holds or waits for is given back, as it is when its task is
\* cancelled and at the end of runtime_toggle_lock.
Forget(c) ==
    /\ resourceQueue' = RemoveFirst(resourceQueue, c)
    /\ mutationQueue' = RemoveFirst(mutationQueue, c)
    /\ resourceLock' = IF resourceLock = c THEN Nobody ELSE resourceLock
    /\ mutationLock' = IF mutationLock = c THEN Nobody ELSE mutationLock
    /\ wants' = Set(wants, c, "nothing")

\* Mutant: the start is never told.
NotifyNobody(c) == cancelled' = Set(cancelled, c, FALSE)

\* The last stop registered with a start cancels the start's task if one of
\* them was applied.
NotifyStart(c) ==
    LET s == preempts[c]
        last == /\ s # Nobody /\ cancelRequested[s] /\ Alive(s)
                /\ Stops(s) = {c}
    IN  cancelled' = [d \in Call |-> (cancelled[d] /\ d # c) \/ (last /\ d = s)]

\* The call is over: the end of run_runtime_toggle and of runtime_toggle_lock.
Leave(c, how) ==
    /\ phase' = Set(phase, c, "done")
    /\ result' = Set(result, c, how)
    /\ starting' = IF starting = c THEN Nobody ELSE starting
    /\ NotifyStart(c)
    /\ Forget(c)
    /\ UNCHANGED <<calls, preempts, cancelRequested, fence, open>>

-------------------------------------------------------------------------------
\* Calls are admitted in the order of their numbers: submit creates the
\* operation's task, a GUI coroutine calls runtime_toggle_intent.
Admit(c) ==
    /\ open /\ phase[c] = "unborn"
    /\ \A d \in Call : d < c => phase[d] # "unborn"
    /\ phase' = Set(phase, c, IF Prepares(c) THEN "preparing" ELSE "fresh")
    /\ UNCHANGED <<calls, result, locks, toggles, cancelled, open>>

\* prepare_translation_enable returned.
Prepare(c) ==
    /\ phase[c] = "preparing" /\ ~cancelled[c]
    /\ \/ /\ phase' = Set(phase, c, "fresh")
          /\ UNCHANGED <<calls, result, locks, toggles, cancelled, open>>
       \/ Leave(c, "failed")

\* The stop joins the start's stops and gives up its own acquisition.
Preempt(c) ==
    /\ phase' = Set(phase, c, "preempting")
    /\ preempts' = Set(preempts, c, starting)
    /\ Forget(c)
    /\ UNCHANGED <<calls, result, starting, cancelRequested, fence, cancelled, open>>

\* runtime_toggle_lock up to its first suspension: a matching stop preempts at
\* once, any other call queues for the locks.
Begin(c) ==
    /\ phase[c] = "fresh" /\ ~cancelled[c]
    /\ \/ Matches(c) /\ Preempt(c)
       \/ /\ ~Matches(c)
          /\ phase' = Set(phase, c, "waiting")
          /\ IF NeedsResource(c)
             THEN /\ wants' = Set(wants, c, "resource")
                  /\ resourceQueue' = Append(resourceQueue, c)
                  /\ UNCHANGED mutationQueue
             ELSE /\ wants' = Set(wants, c, "mutation")
                  /\ mutationQueue' = Append(mutationQueue, c)
                  /\ UNCHANGED resourceQueue
          /\ UNCHANGED <<calls, result, resourceLock, mutationLock, toggles,
                         cancelled, open>>

\* asyncio.Lock is first come, first served.
TakeResource(c) ==
    /\ wants[c] = "resource" /\ resourceLock = Nobody /\ Head(resourceQueue) = c
    /\ resourceLock' = c /\ resourceQueue' = Tail(resourceQueue)
    /\ wants' = Set(wants, c, "mutation")
    /\ mutationQueue' = Append(mutationQueue, c)
    /\ UNCHANGED <<calls, phase, result, mutationLock, toggles, cancelled, open>>

TakeMutation(c) ==
    /\ wants[c] = "mutation" /\ mutationLock = Nobody /\ Head(mutationQueue) = c
    /\ mutationLock' = c /\ mutationQueue' = Tail(mutationQueue)
    /\ wants' = Set(wants, c, "held")
    /\ UNCHANGED <<calls, phase, result, resourceLock, resourceQueue, toggles,
                   cancelled, open>>

\* Mutant: nobody tells the waiting stops that a start began.
NoticeNever(c) == FALSE /\ UNCHANGED vars

\* A waiting stop is woken by _runtime_toggle_changed and finds its start.
Notice(c) ==
    /\ phase[c] = "waiting" /\ wants[c] # "held" /\ ~cancelled[c]
    /\ Matches(c) /\ Preempt(c)

\* Inside runtime_toggle_lock: by the locks, or by the start's stop_lock.
Enters(c) ==
    /\ ~cancelled[c]
    /\ \/ phase[c] = "waiting" /\ wants[c] = "held"
       \/ /\ phase[c] = "preempting"
          /\ \A d \in Stops(preempts[c]) : phase[d] # "applying"

\* An operation whose expected_revision is not the current one.
Reject(c) == surface[c] = "control" /\ Enters(c) /\ Leave(c, "rejected")

\* A start older than the last stop applied to its resource.
Refuse(c) == kind[c] = "start" /\ Enters(c) /\ ~Current(c) /\ Leave(c, "stale")

\* The prepared index is out of date: release the locks and prepare again.
Refresh(c) ==
    /\ Prepares(c) /\ Enters(c) /\ Current(c)
    /\ phase' = Set(phase, c, "preparing")
    /\ Forget(c)
    /\ UNCHANGED <<calls, result, toggles, cancelled, open>>

\* Mutant: the fence is one past the stop.
ApplyStopPast(c) ==
    /\ kind[c] = "stop" /\ Enters(c)
    /\ phase' = Set(phase, c, "applying")
    /\ fence' = Set(fence, resource[c], c + 1)
    /\ UNCHANGED <<calls, result, locks, starting, preempts, cancelRequested,
                   cancelled, open>>

\* run_runtime_toggle of a stop.
ApplyStop(c) ==
    LET r == resource[c]
    IN  /\ kind[c] = "stop" /\ Enters(c)
        /\ phase' = Set(phase, c, "applying")
        /\ fence' = Set(fence, r, IF c > fence[r] THEN c ELSE fence[r])
        /\ cancelRequested' = [d \in Call |-> cancelRequested[d] \/ (Matches(c) /\ d = starting)]
        /\ UNCHANGED <<calls, result, locks, starting, preempts, cancelled, open>>

\* run_runtime_toggle of a start.
ApplyStart(c) ==
    /\ kind[c] = "start" /\ Enters(c) /\ Current(c)
    /\ phase' = Set(phase, c, "applying")
    /\ starting' = c
    /\ UNCHANGED <<calls, result, locks, preempts, cancelRequested, fence,
                   cancelled, open>>

\* Any other ordered mutation.
ApplyEdit(c) ==
    /\ kind[c] \in {"edit", "locale"} /\ Enters(c)
    /\ phase' = Set(phase, c, "applying")
    /\ UNCHANGED <<calls, result, locks, toggles, cancelled, open>>

\* How the awaited apply() may end.
Outcome(c) == IF cancelled[c] THEN {"cancelled"} ELSE {"applied", "failed"}

\* apply() returned or raised; a start with stops registered waits for them.
ApplyEnds(c) ==
    /\ phase[c] = "applying"
    /\ \E how \in Outcome(c) :
          \/ /\ kind[c] = "start" /\ Stops(c) # {}
             /\ phase' = Set(phase, c, "draining")
             /\ result' = Set(result, c, how)
             /\ cancelled' = Set(cancelled, c, FALSE)
             /\ UNCHANGED <<calls, locks, toggles, open>>
          \/ /\ ~(kind[c] = "start" /\ Stops(c) # {})
             /\ Leave(c, how)

\* The gather over the stops is over, or was cancelled.
DrainEnds(c) ==
    /\ phase[c] = "draining"
    /\ \/ cancelled[c] /\ Leave(c, "cancelled")
       \/ ~cancelled[c] /\ Stops(c) = {} /\ Leave(c, result[c])

\* A pending cancellation reaches a call that is not applying anything.
Cancelled(c) ==
    /\ cancelled[c] /\ phase[c] \in {"fresh", "preparing", "waiting", "preempting"}
    /\ Leave(c, "cancelled")

\* freeze_ingress cancels every operation; no call is admitted any more.
Freeze ==
    /\ Freezes /\ open
    /\ open' = FALSE
    /\ cancelled' = [c \in Call |-> cancelled[c] \/ (Alive(c) /\ surface[c] = "control")]
    /\ UNCHANGED <<calls, phase, result, locks, toggles>>

\* Every admitted call is over and no other can come.
Finished ==
    /\ \A c \in Call : ~Alive(c) /\ (open => phase[c] # "unborn")
    /\ UNCHANGED vars

Step(c) ==
    \/ Begin(c) \/ TakeResource(c) \/ TakeMutation(c) \/ Notice(c)
    \/ Reject(c) \/ Refuse(c) \/ ApplyStop(c) \/ ApplyStart(c) \/ ApplyEdit(c)
    \/ DrainEnds(c) \/ Cancelled(c)

Next ==
    \/ \E c \in Call : Admit(c) \/ Prepare(c) \/ Refresh(c) \/ Step(c) \/ ApplyEnds(c)
    \/ Freeze
    \/ Finished

Spec == Init /\ [][Next]_vars

\* The event loop runs every task that can run, and a stop, an edit and a
\* cancelled start come to an end.  Nothing is assumed of a start that loads.
FairSpec ==
    /\ Spec
    /\ \A c \in Call :
          /\ WF_vars(Step(c))
          /\ WF_vars((kind[c] # "start" \/ cancelled[c]) /\ ApplyEnds(c))

-------------------------------------------------------------------------------
Applying(c) == phase[c] \in {"applying", "draining"}

\* The start this stop interrupts has already left.
Orphan(c) == preempts[c] # Nobody /\ phase[preempts[c]] = "done"

\* Two calls are inside only as a start and the one stop of its resource that
\* interrupts it; the exception is a stop whose start left as it arrived.
OnlyMatchingStopOverlaps ==
    \A a, b \in Call :
        a # b /\ Applying(a) /\ Applying(b) /\ ~Orphan(a) /\ ~Orphan(b) =>
            \/ preempts[a] = b /\ Same(a, b)
            \/ preempts[b] = a /\ Same(a, b)

\* A lock belongs to a call that is waiting to use it or inside; in particular
\* a call that gave up, was refused or was cancelled leaves nothing locked.
NoLockLeaks ==
    \A c \in {resourceLock, mutationLock} \ {Nobody} :
        phase[c] \in {"waiting", "applying", "draining"} /\ wants[c] # "nothing"

\* The stop was carried out, or is being.
Stopped(c) ==
    kind[c] = "stop" /\ (phase[c] = "applying" \/ result[c] \in {"applied", "failed"})

\* A start that a registered stop was carried out for never reports success: it is
\* cancelled, or failed by itself.  And no start is inside that an older call made and
\* a newer stop of its resource overtook, but the one the stop marked: one that was
\* still queueing is refused when it gets its locks.
InterruptedStartFails ==
    \A c, s \in Call :
        Stopped(c) =>
            /\ preempts[c] = s => ~(phase[s] = "done" /\ result[s] = "applied")
            /\ kind[s] = "start" /\ Same(c, s) /\ s < c /\ Applying(s) => cancelRequested[s]

\* A stop of the resource that is being started is served, or the start is over:
\* it never waits for a load that does not end.
StopReachesStart == \A c \in Call : (Alive(c) /\ Matches(c)) ~> ~(Alive(c) /\ Matches(c))

\* A start that is interrupted ends, whatever it is loading.
InterruptedStartEnds ==
    \A s \in Call :
        (\E c \in Call : preempts[c] = s /\ phase[c] = "applying") ~> phase[s] = "done"

\* While a stop is cleaning up, no start of its resource begins: cleanup fences
\* later replacements (docs/architecture.md:126).
CleanupFencesStarts ==
    [][\A c \in Call : ApplyStart(c) =>
          ~\E d \in Call : kind[d] = "stop" /\ Same(c, d) /\ phase[d] = "applying"]_vars
===============================================================================
