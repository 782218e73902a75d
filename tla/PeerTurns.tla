------------------------------- MODULE PeerTurns -------------------------------
(***************************************************************************)
(* The peer half of TranslationTurnLifecycleOwner                            *)
(* (core/orchestrator/translation_turn.py): recognised peer utterances are   *)
(* submitted one at a time, each becomes a parent turn with a few children   *)
(* (one per speaker segment and target language), the children are           *)
(* translated concurrently under a shared limit, and the results are shown   *)
(* in admitted order.  Turns that wait too long, or too many, are retired     *)
(* with their source text; a reset, the closing of the peer ingress and the   *)
(* shutdown of the owner cancel what is open.                                *)
(*                                                                         *)
(* Turn t is the t-th submitted utterance.  Peer submissions are serialised   *)
(* by the recognition lock (translation_channel_callbacks.py), so one         *)
(* submitter suffices.  asyncio switches tasks only where a coroutine really   *)
(* suspends: each action below is the code between two such points.  An        *)
(* eagerly started task is a step of its own, which only adds interleavings.   *)
(***************************************************************************)
EXTENDS Naturals, FiniteSets, Sequences, TurnSpace, OutputLine

CONSTANTS
    ConcurrencyLimit,  \* config_snapshot.value.concurrency_limit
    WaitingCapacity,   \* peer_waiting_capacity
    MaxUnsent,         \* OUTPUT_BATCH_MAX_UNSENT
    Controller,        \* tasks that may cancel the channel
    MaxCalls,          \* bound: controller calls
    MaxFaults          \* bound: callbacks that raise

ASSUME LimitAssumption ==
    /\ ConcurrencyLimit \in Nat \ {0}
    /\ WaitingCapacity \in Nat \ {0}
    /\ MaxUnsent \in Nat \ {0}
ASSUME BoundAssumption == MaxCalls \in Nat /\ MaxFaults \in Nat

ActiveLimit ==  \* max(peer_waiting_capacity, concurrency_limit)
    IF WaitingCapacity > ConcurrencyLimit THEN WaitingCapacity ELSE ConcurrencyLimit

NoTurn == 0

Work == {"idle", "slot", "process", "dying", "output", "bare", "gone"}

VARIABLES
    \* one parent record per submitted utterance
    next,        \* number of utterances submitted so far, plus one
    status,      \* parent.closed, and whether the submission was refused
    started,     \* parent.execution_started
    completed,   \* parent.completed_child_ids
    seen,        \* what was shown for each child, in order
    predecessor, \* the predecessor captured at admission
    expiry,      \* parent.waiting_expiry_task
    run,         \* the task running _run_parent
    killed,      \* run tasks with an undelivered cancel()
    finished,    \* results _run_peer_children holds for publication
    work,        \* the task running _process_peer_child
    \* the owner
    cancelling,  \* _cancelling_parent_ids
    tail,        \* _channel_tails["peer"]
    blocked,     \* "peer" in _blocked_channels
    closed,      \* _closed
    running,     \* _peer_running_count
    active,      \* _peer_active_parent_count
    \* its callers and its output
    accepting,   \* PeerTranslationChannel._accepting_events
    sub,         \* the one submit() in flight
    ctl,         \* the controller calls in flight
    line,        \* the output destination's line
    calls,       \* controller calls made (bounded by MaxCalls)
    faults       \* callbacks that raised (bounded by MaxFaults)

turnVars == <<next, status, started, completed, seen, predecessor, expiry>>
taskVars == <<run, killed, finished, work, running, active>>
ownerVars == <<cancelling, tail, blocked, closed>>
callerVars == <<accepting, sub, ctl, calls, faults>>
vars == <<turnVars, taskVars, ownerVars, callerVars, line>>

Submission == [pc : {"admitting", "overflow", "join", "finish"},
               turn : Turn, victim : Turn \cup {NoTurn}]
Idle == [pc |-> "idle", turn |-> NoTurn, victim |-> NoTurn]
Call == [pc : {"idle", "select", "join"},
         kind : {"none", "reset", "ingress", "shutdown"}, sel : SUBSET Turn]
NoCall == [pc |-> "idle", kind |-> "none", sel |-> {}]

TypeOK ==
    /\ next \in 1 .. N + 1
    /\ status \in [Turn -> {"none", "open", "closed", "rejected"}]
    /\ started \in SUBSET Turn
    /\ completed \in [Turn -> SUBSET Child]
    /\ seen \in [Turn -> [Child -> Seq(Kind)]]
    /\ predecessor \in [Turn -> Turn \cup {NoTurn}]
    /\ expiry \in [Turn -> {"none", "sleep", "gate", "kicked", "done"}]
    /\ run \in [Turn -> {"none", "queued", "loop", "gate", "drain", "done"}]
    /\ killed \in SUBSET Turn
    /\ finished \in [Turn -> SUBSET Child]
    /\ work \in [Turn -> [Child -> Work]]
    /\ cancelling \in SUBSET Turn
    /\ tail \in Turn \cup {NoTurn}
    /\ blocked \in BOOLEAN
    /\ closed \in BOOLEAN
    /\ accepting \in BOOLEAN
    /\ running \in Int
    /\ active \in Int
    /\ sub \in Submission \cup {Idle}
    /\ ctl \in [Controller -> Call]
    /\ line \in Seq(Turn)
    /\ calls \in 0 .. MaxCalls
    /\ faults \in 0 .. MaxFaults

Init ==
    /\ next = 1
    /\ status = [t \in Turn |-> "none"]
    /\ started = {}
    /\ completed = [t \in Turn |-> {}]
    /\ seen = [t \in Turn |-> [c \in Child |-> <<>>]]
    /\ predecessor = [t \in Turn |-> NoTurn]
    /\ expiry = [t \in Turn |-> "none"]
    /\ run = [t \in Turn |-> "none"]
    /\ killed = {}
    /\ finished = [t \in Turn |-> {}]
    /\ work = [t \in Turn |-> [c \in Child |-> "idle"]]
    /\ cancelling = {}
    /\ tail = NoTurn
    /\ blocked = FALSE
    /\ closed = FALSE
    /\ accepting = TRUE
    /\ running = 0
    /\ active = 0
    /\ sub = Idle
    /\ ctl = [k \in Controller |-> NoCall]
    /\ line = <<>>
    /\ calls = 0
    /\ faults = 0

-------------------------------------------------------------------------------
(* Predicates and effects the operations share.                            *)

Open(t) == status[t] = "open"
OpenTurns == {t \in Turn : Open(t)}

\* Mutant: a finished run task is still waited for.
LiveForever(t) == run[t] # "none"
Live(t) == run[t] \in {"queued", "loop", "gate", "drain"}

\* is_child_cancellation_requested: says nothing of a turn already closed.
ChildCancelled(t) == closed \/ blocked \/ t \in cancelling

\* _parent_cancellation_requested.
ParentCancelled(t) == ~Open(t) \/ ChildCancelled(t)

\* _peer_waiting_parents, and those beyond the newest peer_waiting_capacity.
Waiting == {t \in Turn : Open(t) /\ t \notin started}

\* Mutant: one more turn may wait.
OverflowLate == {t \in Waiting :
                    Cardinality({u \in Waiting : u >= t}) > WaitingCapacity + 1}
Overflow == {t \in Waiting :
                Cardinality({u \in Waiting : u >= t}) > WaitingCapacity}

\* The first n members of a set of children, in sequence order.
FirstOf(S, n) == {c \in S : Cardinality({d \in S : d <= c}) <= n}

\* Mutant: terminalises the children that already are terminal as well.
RemainingAll(t) == Child
Remaining(t) == Child \ completed[t]

\* Mutant: forgets the children that ended earlier.
ClosesAtOnce(t, S) == S = Child
Closes(t, S) == completed[t] \cup S = Child

\* cancel() of the expiry task of an open turn: a sleeping one ends, one already
\* retiring the turn gets its CancelledError in a step of its own.
CancelTimer(e) ==
    IF e = "sleep" THEN "done" ELSE IF e = "gate" THEN "kicked" ELSE e

\* Mutant: records a timer state nothing else knows.
EndTimerUnknown(e) == IF e \in {"sleep", "gate"} THEN "cancelled" ELSE e

\* cancel() of the expiry task by _close_parent: nothing is left for it to do.
EndTimer(e) == IF e \in {"sleep", "gate"} THEN "done" ELSE e

\* _terminalize_child for the children in S, showing each one as kind, and
\* _close_parent when they were the last: the line, the tail and the
\* cancellation mark are released together.
Settle(t, S, kind) ==
    /\ completed' = [completed EXCEPT ![t] = @ \cup S]
    /\ seen' = [seen EXCEPT ![t] =
                   [c \in Child |-> IF c \in S THEN Append(@[c], kind) ELSE @[c]]]
    /\ status' = [status EXCEPT ![t] = IF Closes(t, S) THEN "closed" ELSE @]
    /\ tail' = IF Closes(t, S) /\ tail = t THEN NoTurn ELSE tail
    /\ cancelling' = IF Closes(t, S) THEN cancelling \ {t} ELSE cancelling
    /\ line' = IF Closes(t, S) THEN Release(line, t) ELSE line

\* Settle by a task other than the turn's own expiry task.
SettleByOther(t, S, kind) ==
    /\ Settle(t, S, kind)
    /\ expiry' = IF Closes(t, S) THEN [expiry EXCEPT ![t] = EndTimer(@)]
                                 ELSE expiry

\* _retire_waiting_parent from the moment its submissions are answered, that is
\* with the turn at the head of the line or out of it: the source is shown in
\* the turn's place in the one case, as an unordered fallback in the other, and
\* a run task that is still alive is cancelled.
Answered(t) == Ready(line, t) \/ ~InLine(line, t)

\* Mutant: shows the source although the turn lost its place.
RetiredKindSource(t) == "source"
RetiredKind(t) == IF Ready(line, t) THEN "source" ELSE "fallback"
Retire(t) ==
    /\ Settle(t, Remaining(t), RetiredKind(t))
    /\ killed' = IF Live(t) THEN killed \cup {t} ELSE killed

\* _mark_parent_execution_started cancels the expiry task.
MarkStarted(t) ==
    /\ started' = started \cup {t}
    /\ expiry' = IF t \in started THEN expiry
                 ELSE [expiry EXCEPT ![t] = CancelTimer(@)]

\* Mutant: a cancelled provider call is forgotten before it gave its slot back.
CancelWorkAtOnce(w) ==
    [c \in Child |-> IF w[c] \in {"slot", "process"} THEN "gone" ELSE w[c]]

\* The finally of _run_peer_children: cancel the child tasks still running.
CancelWork(w) ==
    [c \in Child |-> IF w[c] = "slot" THEN "gone"
                     ELSE IF w[c] = "process" THEN "dying" ELSE w[c]]
Drain(t) ==
    /\ run' = [run EXCEPT ![t] = "drain"]
    /\ work' = [work EXCEPT ![t] = CancelWork(@)]

-------------------------------------------------------------------------------
(* submit(): one utterance from the peer recogniser.                       *)

\* Refused by the channel or by the owner, or registered and waiting for on_parent_admitted with
\* the admission lock held.
Submit ==
    /\ sub.pc = "idle" /\ next <= N
    /\ next' = next + 1
    /\ IF ~accepting \/ closed \/ blocked
       THEN /\ status' = [status EXCEPT ![next] = "rejected"]
            /\ UNCHANGED sub
       ELSE /\ status' = [status EXCEPT ![next] = "open"]
            /\ sub' = [Idle EXCEPT !.pc = "admitting", !.turn = next]
    /\ UNCHANGED <<started, completed, seen, predecessor, expiry, taskVars,
                   ownerVars, accepting, ctl, calls, faults, line>>

\* on_parent_admitted returned: the output batch is in the line and the turn
\* becomes the tail behind the previous one.
SubmitAdmitted ==
    /\ sub.pc = "admitting" /\ ~ParentCancelled(sub.turn)
    /\ line' = Admit(line, sub.turn, MaxUnsent)
    /\ predecessor' = [predecessor EXCEPT ![sub.turn] = tail]
    /\ tail' = sub.turn
    /\ sub' = [sub EXCEPT !.pc = "overflow"]
    /\ UNCHANGED <<next, status, started, completed, seen, expiry, taskVars,
                   cancelling, blocked, closed, accepting, ctl, calls, faults>>

\* The channel was cancelled, or on_parent_admitted raised, before the lock was
\* given up: the turn ends at once.
SubmitRefused ==
    /\ sub.pc = "admitting"
    /\ IF ParentCancelled(sub.turn)
       THEN UNCHANGED faults
       ELSE faults < MaxFaults /\ faults' = faults + 1
    /\ SettleByOther(sub.turn, Remaining(sub.turn), "fallback")
    /\ sub' = [sub EXCEPT !.pc = "overflow"]
    /\ UNCHANGED <<next, started, predecessor, taskVars, blocked, closed,
                   accepting, ctl, calls>>

\* Overload: the oldest turn beyond the waiting capacity is retired, and the
\* submitter waits for its run task to end.
SubmitOverflow ==
    /\ sub.pc = "overflow"
    /\ \E v \in Overflow :
          /\ (\A u \in Overflow : v <= u) /\ Answered(v)
          /\ Retire(v)
          /\ expiry' = [expiry EXCEPT ![v] = EndTimer(@)]
          /\ sub' = [sub EXCEPT !.pc = "join", !.victim = v]
    /\ UNCHANGED <<next, started, predecessor, run, finished, work, running,
                   active, blocked, closed, accepting, ctl, calls, faults>>

SubmitNoOverflow ==
    /\ \/ sub.pc = "overflow" /\ Overflow = {}
       \/ sub.pc = "join" /\ ~Live(sub.victim)
    /\ sub' = [sub EXCEPT !.pc = "finish"]
    /\ UNCHANGED <<turnVars, taskVars, ownerVars, accepting, ctl, calls, faults,
                   line>>

\* The rest of submit(): start the expiry timer, create the children (those in
\* F fail), and start the run task unless the turn was cancelled meanwhile.
SubmitFinish ==
    LET t == sub.turn IN
    /\ sub.pc = "finish"
    /\ sub' = Idle
    /\ \/ /\ ~Open(t)
          /\ UNCHANGED <<turnVars, taskVars, ownerVars, line, faults>>
       \/ /\ Open(t) /\ ChildCancelled(t)
          /\ SettleByOther(t, Remaining(t), "fallback")
          /\ UNCHANGED <<next, started, predecessor, taskVars, blocked, closed,
                         faults>>
       \/ /\ Open(t) /\ ~ChildCancelled(t)
          /\ \E F \in SUBSET Child :
                /\ Cardinality(F) <= MaxFaults - faults
                /\ faults' = faults + Cardinality(F)
                /\ Settle(t, F, "fallback")
                /\ expiry' = [expiry EXCEPT ![t] =
                                 IF F = Child THEN "done" ELSE "sleep"]
                /\ run' = [run EXCEPT ![t] =
                              IF F = Child THEN "none" ELSE "queued"]
          /\ UNCHANGED <<next, started, predecessor, killed, finished, work,
                         running, active, blocked, closed>>
    /\ UNCHANGED <<accepting, ctl, calls>>

-------------------------------------------------------------------------------
(* _expire_waiting_parent: the turn waited peer_waiting_ttl_s.             *)

\* The deadline passed.  A turn behind others in the line waits there for its
\* place; otherwise it is retired on the spot.
ExpiryFires(t) ==
    /\ expiry[t] = "sleep"
    /\ IF ~Answered(t)
       THEN /\ expiry' = [expiry EXCEPT ![t] = "gate"]
            /\ UNCHANGED <<completed, seen, status, tail, cancelling, line, killed>>
       ELSE /\ expiry' = [expiry EXCEPT ![t] = "done"]
            /\ Retire(t)
    /\ UNCHANGED <<next, started, predecessor, run, finished, work, running,
                   active, blocked, closed, callerVars>>

ExpiryGate(t) ==
    /\ expiry[t] = "gate" /\ Answered(t)
    /\ expiry' = [expiry EXCEPT ![t] = "done"]
    /\ Retire(t)
    /\ UNCHANGED <<next, started, predecessor, run, finished, work, running,
                   active, blocked, closed, callerVars>>

\* The retiring task was itself cancelled while it waited: its finally still
\* terminates the turn, as cancelled, and cancels the run; the source is shown out of
\* its place.
ExpiryKicked(t) ==
    /\ expiry[t] = "kicked"
    /\ expiry' = [expiry EXCEPT ![t] = "done"]
    /\ killed' = IF Live(t) THEN killed \cup {t} ELSE killed
    /\ IF Open(t)
       THEN Settle(t, Remaining(t), "fallback")
       ELSE UNCHANGED <<completed, seen, status, tail, cancelling, line>>
    /\ UNCHANGED <<next, started, predecessor, run, finished, work, running,
                   active, blocked, closed, callerVars>>

-------------------------------------------------------------------------------
(* _run_parent and _run_peer_children: one task per open turn.             *)

\* _acquire_peer_active_parent_slot, then the first child tasks.
RunActivate(t) ==
    /\ run[t] = "queued" /\ t \notin killed
    /\ active < ActiveLimit /\ ~ParentCancelled(t)
    /\ active' = active + 1
    /\ run' = [run EXCEPT ![t] = "loop"]
    /\ work' = [work EXCEPT ![t] =
                   [c \in Child |-> IF c \in FirstOf(Remaining(t), ConcurrencyLimit)
                                    THEN "slot" ELSE @[c]]]
    /\ UNCHANGED <<turnVars, killed, finished, running, ownerVars, callerVars,
                   line>>

\* Cancelled before it held an active slot.
RunAbandoned(t) ==
    /\ run[t] = "queued"
    /\ t \in killed \/ (active < ActiveLimit /\ ParentCancelled(t))
    /\ run' = [run EXCEPT ![t] = "done"]
    /\ killed' = killed \ {t}
    /\ IF Open(t)
       THEN SettleByOther(t, Remaining(t), "fallback")
       ELSE UNCHANGED <<completed, seen, status, tail, cancelling, line, expiry>>
    /\ UNCHANGED <<next, started, predecessor, finished, work, running, active,
                   blocked, closed, callerVars>>

\* asyncio.wait returned: collect what ended and start as many more children.
Ended(t) == {c \in Child : work[t][c] \in {"output", "bare", "gone"}} \ finished[t]
Unstarted(t) == {c \in Remaining(t) : work[t][c] = "idle"}

RunCollect(t) ==
    /\ run[t] = "loop" /\ t \notin killed /\ Ended(t) # {}
    /\ IF ParentCancelled(t) \/ \E c \in Ended(t) : work[t][c] = "gone"
       THEN /\ Drain(t)
            /\ UNCHANGED finished
       ELSE /\ finished' = [finished EXCEPT ![t] = @ \cup Ended(t)]
            /\ work' = [work EXCEPT ![t] =
                  [c \in Child |->
                      IF c \in FirstOf(Unstarted(t), Cardinality(Ended(t)))
                      THEN "slot" ELSE @[c]]]
            /\ UNCHANGED run
    /\ UNCHANGED <<turnVars, killed, running, active, ownerVars, callerVars, line>>

\* Mutant: publishes in the order the provider answers.
PublishableAny(t, c) ==
    /\ c \in finished[t] \cap Remaining(t)
    /\ predecessor[t] \in Turn => status[predecessor[t]] = "closed"

\* The child at publish_index, once its result is there and the predecessor
\* captured at admission has closed.
Publishable(t, c) ==
    /\ FirstOf(Remaining(t), 1) = {c}
    /\ c \in finished[t]
    /\ predecessor[t] \in Turn => status[predecessor[t]] = "closed"

\* _terminalize_child of the published child; the loop ends with the last one.
Publish(t, c, kind) ==
    /\ SettleByOther(t, {c}, kind)
    /\ run' = [run EXCEPT ![t] = IF Closes(t, {c}) THEN "drain" ELSE "loop"]

\* _publish_child_result: a result without output is a failure; an output whose
\* batch left the line is refused and counts as one.
RunPublish(t, c) ==
    /\ run[t] = "loop" /\ t \notin killed /\ Publishable(t, c)
    /\ ~ParentCancelled(t)
    /\ \/ /\ work[t][c] = "output" /\ Ready(line, t)
          /\ Publish(t, c, "translated")
       \/ /\ work[t][c] = "bare" \/ ~InLine(line, t)
          /\ Publish(t, c, "fallback")
    /\ UNCHANGED <<next, started, predecessor, killed, finished, work, running,
                   active, blocked, closed, callerVars>>

\* await_translation_parent: the turn's batch is behind others in the line.
RunWaits(t, c) ==
    /\ run[t] = "loop" /\ t \notin killed /\ Publishable(t, c)
    /\ ~ParentCancelled(t)
    /\ work[t][c] = "output" /\ InLine(line, t) /\ ~Ready(line, t)
    /\ run' = [run EXCEPT ![t] = "gate"]
    /\ UNCHANGED <<turnVars, killed, finished, work, running, active, ownerVars,
                   callerVars, line>>

RunGate(t, c) ==
    /\ run[t] = "gate" /\ t \notin killed
    /\ FirstOf(Remaining(t), 1) = {c}
    /\ \/ Ready(line, t) /\ Publish(t, c, "translated")
       \/ ~InLine(line, t) /\ Publish(t, c, "fallback")
    /\ UNCHANGED <<next, started, predecessor, killed, finished, work, running,
                   active, blocked, closed, callerVars>>

\* CancelledError delivered to the loop, or the loop saw the cancellation.
RunCancelled(t) ==
    /\ \/ run[t] \in {"loop", "gate"} /\ t \in killed
       \/ /\ run[t] = "loop" /\ t \notin killed /\ ParentCancelled(t)
          /\ \E c \in Child : Publishable(t, c)
    /\ Drain(t)
    /\ killed' = killed \ {t}
    /\ UNCHANGED <<turnVars, finished, running, active, ownerVars, callerVars, line>>

\* Mutant: the active slot is never given back.
KeepActive(t) == active' = active

\* _release_peer_active_parent_slot, which a second cancel() skips.
ReleaseActive(t) == active' = IF t \in killed THEN active ELSE active - 1

\* The gather of the finally returned.  A second cancel() that arrived during it
\* skips _release_peer_active_parent_slot; either way the turn is terminated.
RunDrained(t) ==
    /\ run[t] = "drain"
    /\ \A c \in Child : work[t][c] # "dying"
    /\ run' = [run EXCEPT ![t] = "done"]
    /\ ReleaseActive(t)
    /\ killed' = killed \ {t}
    /\ IF Open(t)
       THEN SettleByOther(t, Remaining(t), "fallback")
       ELSE UNCHANGED <<completed, seen, status, tail, cancelling, line, expiry>>
    /\ UNCHANGED <<next, started, predecessor, finished, work, running, blocked,
                   closed, callerVars>>

-------------------------------------------------------------------------------
(* _process_peer_child: the task of one child.                             *)

\* _acquire_peer_execution_slot; whoever finds room takes it.
ChildAcquire(t, c) ==
    /\ work[t][c] = "slot" /\ running < ConcurrencyLimit
    /\ IF ChildCancelled(t)
       THEN /\ work' = [work EXCEPT ![t][c] = "gone"]
            /\ UNCHANGED <<running, started, expiry>>
       ELSE /\ work' = [work EXCEPT ![t][c] = "process"]
            /\ running' = running + 1
            /\ MarkStarted(t)
    /\ UNCHANGED <<next, status, completed, seen, predecessor, run, killed,
                   finished, active, ownerVars, callerVars, line>>

\* The provider answered, failed, or ran into the watchdog of _process_child.  A
\* CancelledError already queued for the turn's expiry task is delivered first.
ChildReturns(t, c) ==
    /\ work[t][c] = "process" /\ expiry[t] # "kicked"
    /\ running' = running - 1
    /\ \E r \in IF ChildCancelled(t) THEN {"gone"} ELSE {"output", "bare"} :
          work' = [work EXCEPT ![t][c] = r]
    /\ UNCHANGED <<turnVars, run, killed, finished, active, ownerVars,
                   callerVars, line>>

\* A cancelled provider call unwinds and gives its slot back.
ChildDies(t, c) ==
    /\ work[t][c] = "dying"
    /\ running' = running - 1
    /\ work' = [work EXCEPT ![t][c] = "gone"]
    /\ UNCHANGED <<turnVars, run, killed, finished, active, ownerVars,
                   callerVars, line>>

-------------------------------------------------------------------------------
(* cancel_pending("peer"), close_channel_ingress("peer") and close().      *)

\* _drain_admission_locks.
LockFree == sub.pc # "admitting"

\* _advance_turn_generation empties the line through the output runtime's
\* observer; the channel is blocked, or the owner closed, before the call first
\* suspends on the admission lock.  close_peer_ingress also closes the channel's
\* own ingress, once.
CtlBegin(k, kind) ==
    /\ ctl[k].pc = "idle" /\ ~closed /\ calls < MaxCalls
    /\ kind = "ingress" => accepting
    /\ calls' = calls + 1
    /\ ctl' = [ctl EXCEPT ![k] = [pc |-> "select", kind |-> kind, sel |-> {}]]
    /\ line' = RetireGeneration(line)
    /\ IF kind = "shutdown"
       THEN /\ closed' = TRUE
            /\ cancelling' = cancelling \cup OpenTurns
            /\ killed' = killed \cup {t \in Turn : Live(t)}
            /\ UNCHANGED blocked
       ELSE /\ blocked' = TRUE
            /\ UNCHANGED <<closed, cancelling, killed>>
    /\ accepting' = IF kind = "ingress" THEN FALSE ELSE accepting
    /\ UNCHANGED <<turnVars, run, finished, work, running, active, tail, sub,
                   faults>>

\* Mutant: overlooks the turn that is still being submitted.
SelectedRunning == {t \in OpenTurns : Live(t)}

\* selected_parents, read from the registered parents under the lock.
Selected == OpenTurns

\* _cancel_channel with the lock: choose the open turns and cancel their runs.
CtlSelect(k) ==
    /\ ctl[k].pc = "select" /\ ctl[k].kind # "shutdown" /\ LockFree
    /\ ctl' = [ctl EXCEPT ![k] = [pc |-> "join", kind |-> @.kind, sel |-> Selected]]
    /\ cancelling' = cancelling \cup Selected
    /\ killed' = killed \cup {t \in Selected : Live(t)}
    /\ UNCHANGED <<turnVars, run, finished, work, running, active, tail, blocked,
                   closed, accepting, sub, calls, faults, line>>

\* close() with the lock drained: the scope cancels every task it owns.
CtlCloseScope(k) ==
    /\ ctl[k].pc = "select" /\ ctl[k].kind = "shutdown" /\ LockFree
    /\ ctl' = [ctl EXCEPT ![k] = [pc |-> "join", kind |-> @.kind, sel |-> OpenTurns]]
    /\ killed' = killed \cup {t \in Turn : Live(t)}
    /\ work' = [t \in Turn |-> CancelWork(work[t])]
    /\ expiry' = [t \in Turn |-> CancelTimer(expiry[t])]
    /\ UNCHANGED <<next, status, started, completed, seen, predecessor, run,
                   finished, running, active, ownerVars, accepting, sub, calls,
                   faults, line>>

\* The gather over the cancelled tasks has returned.
Joined(k) ==
    IF ctl[k].kind = "shutdown"
    THEN \A t \in Turn :
            /\ ~Live(t) /\ expiry[t] # "kicked"
            /\ \A c \in Child : work[t][c] # "dying"
    ELSE \A t \in ctl[k].sel : ~Live(t)

\* _terminalize_selected_unfinished takes the turns one after the other.
CtlSettle(k, t) ==
    /\ ctl[k].pc = "join" /\ Joined(k)
    /\ t \in ctl[k].sel /\ Open(t)
    /\ SettleByOther(t, Remaining(t), "fallback")
    /\ UNCHANGED <<next, started, predecessor, taskVars, blocked, closed,
                   callerVars>>

\* The call returns.  Leaving _cancel_channel unblocks the channel;
\* close_channel_ingress blocks it again before anything else runs.
CtlReturn(k) ==
    /\ ctl[k].pc = "join" /\ Joined(k)
    /\ \A t \in ctl[k].sel : ~Open(t)
    /\ ctl' = [ctl EXCEPT ![k] = NoCall]
    /\ blocked' = (ctl[k].kind = "ingress" \/ (ctl[k].kind = "shutdown" /\ blocked))
    /\ tail' = IF ctl[k].kind = "shutdown" THEN NoTurn ELSE tail
    /\ UNCHANGED <<turnVars, taskVars, cancelling, closed, accepting, sub, calls,
                   faults, line>>

\* open_peer_ingress: the pipeline opens an ingress whose closing has returned.
OpenIngress ==
    /\ ~accepting /\ ~closed
    /\ \A k \in Controller : ctl[k].kind # "ingress"
    /\ accepting' = TRUE
    /\ blocked' = FALSE
    /\ UNCHANGED <<turnVars, taskVars, cancelling, tail, closed, sub, ctl, calls,
                   faults, line>>

-------------------------------------------------------------------------------
Quiescent ==
    /\ sub = Idle
    /\ \A t \in Turn : /\ ~Open(t) /\ ~Live(t)
                       /\ expiry[t] \in {"none", "done"}
                       /\ \A c \in Child : work[t][c] \notin {"slot", "process", "dying"}
    /\ \A k \in Controller : ctl[k].pc = "idle"

\* With every utterance handled the owner may rest; anything else that stops
\* is a deadlock.
Rest == next = N + 1 /\ Quiescent /\ UNCHANGED vars

SubmitStep ==
    \/ Submit \/ SubmitAdmitted \/ SubmitRefused
    \/ SubmitOverflow \/ SubmitNoOverflow \/ SubmitFinish

ExpiryStep(t) == ExpiryFires(t) \/ ExpiryGate(t) \/ ExpiryKicked(t)

RunStep(t) ==
    \/ RunActivate(t) \/ RunAbandoned(t) \/ RunCollect(t)
    \/ \E c \in Child : RunPublish(t, c) \/ RunWaits(t, c) \/ RunGate(t, c)
    \/ RunCancelled(t) \/ RunDrained(t)

ChildStep(t, c) == ChildAcquire(t, c) \/ ChildReturns(t, c) \/ ChildDies(t, c)

CtlStep(k) ==
    \/ CtlSelect(k) \/ CtlCloseScope(k) \/ CtlReturn(k)
    \/ \E t \in Turn : CtlSettle(k, t)

Next ==
    \/ SubmitStep
    \/ \E t \in Turn : ExpiryStep(t) \/ RunStep(t) \/ \E c \in Child : ChildStep(t, c)
    \/ \E k \in Controller :
          CtlStep(k) \/ \E kind \in {"reset", "ingress", "shutdown"} : CtlBegin(k, kind)
    \/ OpenIngress
    \/ Rest

Spec == Init /\ [][Next]_vars

\* The event loop runs every ready task; timers fire; the watchdog ends every
\* provider call.  Nothing obliges the recogniser to speak or a controller to
\* act, and no submission is obliged to be refused.
Fairness ==
    /\ WF_vars(SubmitAdmitted \/ SubmitRefused)
    /\ WF_vars(SubmitOverflow \/ SubmitNoOverflow \/ SubmitFinish)
    /\ \A t \in Turn :
          /\ WF_vars(ExpiryStep(t))
          /\ WF_vars(RunStep(t))
          /\ \A c \in Child : WF_vars(ChildStep(t, c))
    /\ \A k \in Controller : WF_vars(CtlStep(k))

FairSpec == Spec /\ Fairness

-------------------------------------------------------------------------------
(* Properties.                                                             *)

\* The execution slots in use are exactly the provider calls alive, also those
\* still unwinding after a cancel, and never exceed concurrency_limit.
SlotAccounting ==
    /\ running = Cardinality({tc \in Turn \X Child :
                                 work[tc[1]][tc[2]] \in {"process", "dying"}})
    /\ running <= ConcurrencyLimit

\* Retirement by timeout, by overload or by a start that races the timeout
\* never leaks or frees twice an active-parent slot: without a controller call
\* the count is the number of run tasks inside _run_peer_children.
ActiveAccounting ==
    /\ active \in 0 .. ActiveLimit
    /\ calls = 0 =>
         active = Cardinality({t \in Turn : run[t] \in {"loop", "gate", "drain"}})

\* The line holds only turns that can still leave it, in admitted order: a batch
\* of a closed turn would stop every later publication for good.
LineHoldsOpenTurns ==
    /\ Increasing(line)
    /\ \A t \in Turn : InLine(line, t) => Open(t)

\* Every child is shown exactly once, by whichever of the publishing run, the
\* expiry task, the overloaded submitter and a controller comes first.
SettledOnce ==
    \A t \in Turn, c \in Child :
        Len(seen[t][c]) = IF c \in completed[t] THEN 1 ELSE 0

\* A turn is closed exactly when all its children are terminal.
ClosedWhenComplete ==
    \A t \in Turn : status[t] = "closed" <=> completed[t] = Child

ShownNow(t, c, kinds) ==
    \E k \in kinds : seen'[t][c] = Append(seen[t][c], k)

GatedShown(t, c) == \E i \in DOMAIN seen[t][c] : seen[t][c][i] \in Gated

\* What goes through the line is shown in admitted order: never a child after
\* one of a later turn.
GatedOrder ==
    [][\A t \in Turn, c \in Child : ShownNow(t, c, Gated) =>
          \A u \in Turn, d \in Child : GatedShown(u, d) => u <= t]_vars

\* Translations of one turn appear in the order of its segments.
ChildrenInOrder ==
    [][\A t \in Turn, c \in Child : ShownNow(t, c, {"translated"}) =>
          \A d \in Child : d < c => d \in completed[t]]_vars

\* No translation appears once its channel is being cancelled.
NothingTranslatedAfterCancel ==
    [][\A t \in Turn, c \in Child :
          ShownNow(t, c, {"translated"}) => ~ChildCancelled(t)]_vars

\* The submitter that retires an overload victim never has to wait for the
\* victim's place in the line: the line has evicted it or it is the head.
OverflowVictimNeverWaits ==
    sub.pc = "overflow" =>
        \A v \in Overflow : (\A u \in Overflow : v <= u) =>
            Answered(v)

\* Backpressure: at most one turn more than the capacity waits, and that one
\* only while its own submission is retiring the oldest.
WaitingBounded ==
    /\ Cardinality(Waiting) <= WaitingCapacity + 1
    /\ Cardinality(Waiting) > WaitingCapacity =>
          sub.pc \in {"admitting", "overflow"}

\* Once close_channel_ingress or close() has returned nothing of the channel is
\* left, whatever was being admitted, retired or reset when it was called: no
\* open turn, an empty line, no tail a later turn would wait for.
DrainedWhenShut ==
    (~accepting \/ closed) /\ (\A k \in Controller :
                                   ctl[k].kind \notin {"ingress", "shutdown"})
    => OpenTurns = {} /\ line = <<>> /\ tail = NoTurn

\* What the tests of the owner say of a retired turn (its child is never
\* processed): an expired turn does not start while it waits to be retired.
RetiredNeverProcessed ==
    \A t \in Turn : expiry[t] \in {"gate", "kicked"} => t \notin started

\* docs/architecture.md: publication preserves admitted order, whatever is shown.
PublicationOrder ==
    [][\A t \in Turn, c \in Child : ShownNow(t, c, Kind) =>
          \A u \in Turn, d \in Child : Len(seen[u][d]) > 0 => u <= t]_vars

\* Every admitted turn ends.
EveryTurnCloses == \A t \in Turn : status[t] = "open" ~> status[t] = "closed"

\* A controller call returns, whatever it cancels.
CallsReturn == \A k \in Controller : ctl[k].pc # "idle" ~> ctl[k].pc = "idle"

\* submit() returns: overload never blocks the recogniser for good.
SubmitReturns == sub.pc # "idle" ~> sub.pc = "idle"

\* The owner, its tasks and the output line together keep the promise made to
\* the reader of the channel.
Delivery == INSTANCE TurnDelivery WITH queue <- line
ImplementsDelivery == Delivery!Spec

===============================================================================
