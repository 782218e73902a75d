------------------------------- MODULE SelfTurns -------------------------------
(***************************************************************************)
(* The self half of TranslationTurnLifecycleOwner                            *)
(* (core/orchestrator/translation_turn.py): what the user says is a draft      *)
(* turn while it is being spoken.  The newest draft is translated              *)
(* speculatively; when the merge buffer commits, the turn is sealed and takes   *)
(* one of self_speech_running_capacity slots, or waits for one, bounded in     *)
(* number and in time, unless its speculation already gave every result.       *)
(*                                                                         *)
(* Turn t is the t-th merge buffer of SelfTranslationChannelOwner.  Every      *)
(* _publish_draft may suspend: the overlay admits a caption in a task of its   *)
(* own and the output batches have a lock.  It is a point where the task is     *)
(* switched where something is read again or should have been; an operation's   *)
(* own publication and that of a sealed result belong to the step they end.     *)
(* A provider call that is cancelled ends with the cancellation, when its       *)
(* cleanup is over; no call returns a result in spite of it.                    *)
(***************************************************************************)
EXTENDS Naturals, FiniteSets, Sequences, SequencesExt

CONSTANTS
    N,                \* merge buffers the speaker fills
    K,                \* target languages
    RunningCapacity,  \* self_speech_running_capacity
    WaitingCapacity,  \* self_speech_waiting_capacity
    Controller,       \* tasks that may cancel the channel
    Answers,          \* what a provider call may end with
    Deadlines,        \* whether self_speech_waiting_ttl_s may pass
    MaxEpochs,        \* bound: incompatible revisions of a draft
    MaxManual,        \* bound: manual submissions
    MaxCalls          \* bound: controller calls

ASSUME SizeAssumption == N \in Nat /\ K \in Nat \ {0}
ASSUME CapacityAssumption ==
    RunningCapacity \in Nat \ {0} /\ WaitingCapacity \in Nat \ {0}
ASSUME BoundAssumption ==
    MaxEpochs \in Nat /\ MaxManual \in Nat /\ MaxCalls \in Nat
ASSUME ProviderAssumption ==
    Answers \subseteq {"good", "bad"} /\ Answers # {} /\ Deadlines \in BOOLEAN

Turn == 1 .. N
Child == 1 .. K
NoTurn == 0

Operation == [st : {"none", "run", "good", "bad", "retry", "dying", "unwinding", "gone", "told"},
              epoch : 0 .. MaxEpochs, guess : BOOLEAN]
NoOperation == [st |-> "none", epoch |-> 0, guess |-> FALSE]

VARIABLES
    \* the speaker's channel
    next,        \* number of merge buffers so far, plus one
    buffer,      \* merge_buffer
    accepting,   \* _accepting_events
    pending,     \* drafts with a revision that has yet to start the newest draft
    call,        \* the commit of each buffer: revise_draft, then seal_draft
    victims,     \* the overflow the sealer has yet to retire
    manual,      \* a manual submission holds the admission lock
    manuals,     \* manual submissions so far (bounded by MaxManual)
    \* one parent record per buffer
    status,      \* none, registered, or closed
    outdated,    \* turns of an earlier turn generation
    epoch,       \* incompatible revisions of its source
    eligible,    \* parent.secondary_eligible
    op,          \* parent.operations, with the retry of finish()
    superseded,  \* parents with retiring_operations
    terminal,    \* parent.terminal_status
    started,     \* parent.execution_started
    expiry,      \* parent.waiting_expiry_task
    completed,   \* parent.completed_child_ids
    seen,        \* what became of each child, in order
    run,         \* the task running _run_draft_parent
    killed,      \* run tasks with an undelivered cancel()
    shed,        \* the turns _admit_draft_execution has yet to retire
    \* the owner
    spec,        \* _speculative_parent_id
    canon,       \* parents with a canonical_slot
    free,        \* value of _self_speech_slots
    queue,       \* and the runs waiting for it
    cancelling,  \* _cancelling_parent_ids
    blocked,     \* "self" in _blocked_channels
    ctl,         \* the controller calls in flight
    calls        \* controller calls made (bounded by MaxCalls)

speakerVars == <<next, buffer, accepting, manual, manuals>>
callVars == <<pending, call, victims>>
draftVars == <<outdated, epoch, eligible, superseded>>
endVars == <<status, completed, seen>>
markVars == <<terminal, started, expiry>>
slotVars == <<canon, free, queue>>
ctlVars == <<blocked, ctl, calls>>
runVars == <<run, killed, shed>>
vars == <<speakerVars, callVars, draftVars, endVars, markVars, op, spec, slotVars,
          cancelling, runVars, ctlVars>>

Call == [pc : {"idle", "select", "join", "clear"},
         kind : {"none", "speech", "reset", "ingress"}, sel : SUBSET Turn]
NoCall == [pc |-> "idle", kind |-> "none", sel |-> {}]

TypeOK ==
    /\ next \in 1 .. N + 1
    /\ buffer \in Turn \cup {NoTurn}
    /\ accepting \in BOOLEAN /\ manual \in BOOLEAN /\ blocked \in BOOLEAN
    /\ pending \in SUBSET Turn
    /\ call \in [Turn -> {"none", "commit", "lock", "mark", "join", "publish", "done"}]
    /\ victims \in [Turn -> SUBSET Turn]
    /\ manuals \in 0 .. MaxManual
    /\ status \in [Turn -> {"none", "open", "closed"}]
    /\ outdated \in SUBSET Turn
    /\ epoch \in [Turn -> 0 .. MaxEpochs]
    /\ eligible \in SUBSET Turn
    /\ op \in [Turn -> [Child -> Operation]]
    /\ superseded \in SUBSET Turn
    /\ terminal \in [Turn -> {"none", "expired", "failed", "cancelled"}]
    /\ started \in SUBSET Turn
    /\ expiry \in [Turn -> {"none", "sleep", "publish", "done"}]
    /\ completed \in [Turn -> SUBSET Child]
    /\ seen \in [Turn -> [Child -> Seq({"translated", "failed", "source", "cancelled"})]]
    /\ run \in [Turn -> {"none", "wait", "slot", "race", "mark", "join",
                         "leave", "exec", "unwind", "dead", "drain", "done"}]
    /\ killed \in SUBSET Turn
    /\ shed \in [Turn -> SUBSET Turn]
    /\ spec \in Turn \cup {NoTurn}
    /\ canon \in SUBSET Turn
    /\ free \in Nat
    /\ queue \in Seq(Turn)
    /\ cancelling \in SUBSET Turn
    /\ ctl \in [Controller -> Call]
    /\ calls \in 0 .. MaxCalls

Init ==
    /\ next = 1 /\ buffer = NoTurn /\ accepting = TRUE
    /\ manual = FALSE /\ manuals = 0
    /\ pending = {}
    /\ call = [t \in Turn |-> "none"]
    /\ victims = [t \in Turn |-> {}]
    /\ status = [t \in Turn |-> "none"]
    /\ outdated = {} /\ eligible = {} /\ superseded = {}
    /\ epoch = [t \in Turn |-> 0]
    /\ op = [t \in Turn |-> [k \in Child |-> NoOperation]]
    /\ terminal = [t \in Turn |-> "none"]
    /\ started = {}
    /\ expiry = [t \in Turn |-> "none"]
    /\ completed = [t \in Turn |-> {}]
    /\ seen = [t \in Turn |-> [k \in Child |-> <<>>]]
    /\ run = [t \in Turn |-> "none"]
    /\ killed = {}
    /\ shed = [t \in Turn |-> {}]
    /\ spec = NoTurn
    /\ canon = {} /\ free = RunningCapacity /\ queue = <<>>
    /\ cancelling = {} /\ blocked = FALSE
    /\ ctl = [c \in Controller |-> NoCall]
    /\ calls = 0

-------------------------------------------------------------------------------
(* Predicates and effects the operations share.                            *)

Open(t) == status[t] = "open"

\* Mutant: a run task that ended is still waited for.
LiveForever(t) == run[t] # "none"

Live(t) == run[t] \notin {"none", "done"}
Draft(t) == Open(t) /\ call[t] \in {"none", "commit"}
Smallest(S) == CHOOSE t \in S : \A u \in S : t <= u

\* is_child_cancellation_requested and _parent_cancellation_requested.
ChildCancelled(t) == blocked \/ t \in cancelling
ParentCancelled(t) == ~Open(t) \/ ChildCancelled(t)

\* _self_speech_waiting_parents.
Waiting == {t \in Turn : Open(t) /\ ~Draft(t) /\ spec # t /\ t \notin started}

\* Mutant: one more turn may wait.
OldestLate(W) == {t \in W : Cardinality({u \in W : u >= t}) > WaitingCapacity + 1}

\* Those of W beyond the newest self_speech_waiting_capacity.
Oldest(W) == {t \in W : Cardinality({u \in W : u >= t}) > WaitingCapacity}

\* _self_speech_slots.locked(): no slot is free, or somebody is waiting for one (a
\* waiter stays until it resumes, whether or not it was promised a slot).
Locked == free = 0 \/ queue # <<>>

\* The newest turn of this generation, if it is a draft that may be speculated on.
Startable(t) ==
    /\ Draft(t) /\ t \notin outdated /\ ~ChildCancelled(t)
    /\ \A u \in Turn \ outdated : Open(u) => u <= t

\* _start_draft_operations: the secondary targets only if all of them are asked for.
Launch(o, all, e, guess) ==
    [k \in Child |-> IF o[k].st = "none" /\ (k = 1 \/ all)
                     THEN [st |-> "run", epoch |-> e, guess |-> guess] ELSE o[k]]

\* Mutant: a draft is started whether or not another turn speculates.
CurrentBesides(T, sp, o) ==
    LET C == {t \in T : Startable(t)}
    IN  [spec |-> IF C = {} THEN sp ELSE Smallest(C),
         op |-> [t \in Turn |->
                    IF t \in C THEN Launch(o[t], t \in eligible, epoch[t], TRUE) ELSE o[t]]]

\* _start_current_draft for the turns in T, with sp speculating and o the operations
\* before it.
Current(T, sp, o) ==
    LET C == {t \in T : Startable(t) /\ sp \in {NoTurn, t}}
    IN  [spec |-> IF C = {} THEN sp ELSE Smallest(C),
         op |-> [t \in Turn |->
                    IF t \in C THEN Launch(o[t], t \in eligible, epoch[t], TRUE) ELSE o[t]]]

\* Mutant: what is being said is not looked at again.
ReleasedOnly(t, r) == IF r.spec = t THEN [r EXCEPT !.spec = NoTurn] ELSE r

\* _release_speculative_occupancy of t in such a state r.
Released(t, r) == IF r.spec = t THEN Current(Turn \ {t}, NoTurn, r.op) ELSE r
Become(r) == spec' = r.spec /\ op' = r.op
Speculation == [spec |-> spec, op |-> op]

\* Cancelling a sleeping expiry task, or one in the publication of the expiry.
EndTimer(e) == IF e \in {"sleep", "publish"} THEN "done" ELSE e

\* _mark_parent_execution_started.
MarkStarted(t) ==
    /\ started' = started \cup {t}
    /\ expiry' = IF t \in started THEN expiry ELSE [expiry EXCEPT ![t] = EndTimer(@)]

\* _terminalize_child for the children in S and, after the last one, _close_parent.
Closes(t, S) == completed[t] \cup S = Child
Settle(t, S, kind) ==
    /\ completed' = [completed EXCEPT ![t] = @ \cup S]
    /\ seen' = [seen EXCEPT ![t] =
                   [k \in Child |-> IF k \in S THEN Append(@[k], kind) ELSE @[k]]]
    /\ status' = [status EXCEPT ![t] = IF Closes(t, S) THEN "closed" ELSE @]
    /\ cancelling' = IF Closes(t, S) THEN cancelling \ {t} ELSE cancelling
    /\ expiry' = IF Closes(t, S) THEN [expiry EXCEPT ![t] = EndTimer(@)] ELSE expiry

\* Mutant: the children that already ended are settled as well.
RemainingAll(t) == Child

Remaining(t) == Child \ completed[t]

\* _retire_waiting_parent up to its publication: the verdict is on record before
\* anything is settled.
Retirable(v) == Open(v) /\ v \notin started
Mark(v, verdict) == terminal' = [terminal EXCEPT ![v] = verdict]

\* Mutant: settles what was unsettled when the retirement began.
RetireAll(v, self) ==
    /\ Settle(v, Child, "source")
    /\ killed' = IF Live(v) /\ v # self THEN killed \cup {v} ELSE killed

\* _retire_waiting_parent after it, whatever became of the turn meanwhile: the
\* source is what is left to show, and a run task other than self is cancelled.
Retire(v, self) ==
    /\ IF Open(v) THEN Settle(v, Remaining(v), "source")
                  ELSE UNCHANGED <<endVars, cancelling, expiry>>
    /\ killed' = IF Live(v) /\ v # self THEN killed \cup {v} ELSE killed

\* Cancelling the operations of a turn and the fallback calls of finish().
CancelOperations(o) == [k \in Child |-> IF o[k].st = "run" THEN [o[k] EXCEPT !.st = "dying"] ELSE o[k]]
CancelCalls(o) ==
    [k \in Child |-> IF o[k].st = "retry" THEN [o[k] EXCEPT !.st = "unwinding"]
                     ELSE CancelOperations(o)[k]]

-------------------------------------------------------------------------------
(* The speaker: SelfTranslationChannelOwner and revise_draft.               *)

\* Mutant: the calls are cancelled, the results are kept.
ForgetCalls(t) ==
    op' = [op EXCEPT ![t] =
              [k \in Child |-> IF op[t][k].st = "run" THEN NoOperation ELSE op[t][k]]]

\* An incompatible revision drops what was translated.
Forget(t) == op' = [op EXCEPT ![t] = [k \in Child |-> NoOperation]]

\* revise_draft up to its publication: the draft is registered, with its run task.  It
\* is refused while the channel is blocked and after the turn closed.
Refused(t) == blocked \/ status[t] = "closed"
Revision(t, compatible) ==
    /\ ~Refused(t)
    /\ status' = [status EXCEPT ![t] = "open"]
    /\ run' = IF status[t] = "none" THEN [run EXCEPT ![t] = "wait"] ELSE run
    /\ IF compatible
       THEN UNCHANGED <<epoch, eligible, op, superseded>>
       ELSE /\ status[t] = "open" /\ epoch[t] < MaxEpochs
            /\ epoch' = [epoch EXCEPT ![t] = @ + 1]
            /\ eligible' = eligible \ {t}
            /\ Forget(t)
            /\ superseded' = IF \E k \in Child : op[t][k].st = "run"
                             THEN superseded \cup {t} ELSE superseded

\* A recognised final opens a merge buffer, and its draft.
Speak ==
    /\ accepting /\ buffer = NoTurn /\ next <= N
    /\ buffer' = next
    /\ next' = next + 1
    /\ \/ /\ Revision(next, TRUE)
          /\ pending' = pending \cup {next}
       \/ /\ Refused(next)
          /\ UNCHANGED <<status, run, epoch, eligible, op, superseded, pending>>
    /\ UNCHANGED <<accepting, manual, manuals, call, victims, outdated, completed, seen,
                   markVars, spec, slotVars, cancelling, killed, shed, ctlVars>>

\* Another contribution to the buffer.  Bound: one revision of a buffer is being
\* published at a time, beside that of its commit, and a compatible one of a draft
\* that is registered is left out: it changes nothing but the text.
Revise(t) ==
    /\ accepting /\ buffer = t /\ t \notin pending
    /\ \E compatible \in BOOLEAN :
          /\ compatible => status[t] = "none"
          /\ Revision(t, compatible)
    /\ pending' = pending \cup {t}
    /\ UNCHANGED <<speakerVars, call, victims, outdated, completed, seen, markVars,
                   spec, slotVars, cancelling, killed, shed, ctlVars>>

\* The revision is published; revise_draft ends by starting the newest draft.
Revised(t) ==
    /\ t \in pending
    /\ pending' = pending \ {t}
    /\ Become(Current(Turn, spec, op))
    /\ UNCHANGED <<speakerVars, call, victims, draftVars, endVars, markVars,
                   slotVars, cancelling, runVars, ctlVars>>

\* prestart_draft_secondary: the pause after the last word has begun.
Prestart(t) ==
    /\ K > 1 /\ accepting /\ buffer = t /\ t \notin eligible
    /\ Draft(t) /\ t \notin outdated /\ ~ChildCancelled(t)
    /\ eligible' = eligible \cup {t}
    /\ op' = IF spec = t THEN [op EXCEPT ![t] = Launch(@, TRUE, epoch[t], TRUE)] ELSE op
    /\ UNCHANGED <<speakerVars, callVars, outdated, epoch, superseded, endVars,
                   markVars, spec, slotVars, cancelling, runVars, ctlVars>>

\* A retired operation has unwound.
Superseded(t) ==
    /\ t \in superseded
    /\ superseded' = superseded \ {t}
    /\ UNCHANGED <<speakerVars, callVars, outdated, epoch, eligible, endVars,
                   markVars, op, spec, slotVars, cancelling, runVars, ctlVars>>

\* A manual submission is in on_parent_admitted with the admission lock held.
ManualBegins ==
    /\ ~manual /\ manuals < MaxManual
    /\ manual' = TRUE
    /\ manuals' = manuals + 1
    /\ UNCHANGED <<next, buffer, accepting, callVars, draftVars, endVars, markVars,
                   op, spec, slotVars, cancelling, runVars, ctlVars>>

ManualEnds ==
    /\ manual
    /\ manual' = FALSE
    /\ UNCHANGED <<next, buffer, accepting, manuals, callVars, draftVars, endVars,
                   markVars, op, spec, slotVars, cancelling, runVars, ctlVars>>

-------------------------------------------------------------------------------
(* _commit_merge: a last revision, then seal_draft.                         *)

\* seal_draft retires the overflow W one by one, each with its run task, before the
\* sealed turn is published and its run may go on.
SealerSheds(t, W) ==
    /\ victims' = [victims EXCEPT ![t] = W]
    /\ call' = [call EXCEPT ![t] = IF W = {} THEN "publish" ELSE "mark"]
    /\ IF W = {} THEN UNCHANGED terminal ELSE Mark(Smallest(W), "failed")

\* seal_draft once it has the admission lock, in state r of the speculation: a free
\* slot is taken, without a look at what was cancelled while it waited; otherwise the
\* turn waits for one until its expiry.
Admit(t, r) ==
    \/ /\ ~Locked
       /\ free' = free - 1
       /\ canon' = canon \cup {t}
       /\ started' = started \cup {t}
       /\ Become(Released(t, r))
       /\ SealerSheds(t, Oldest(Waiting \ {t}))
       /\ UNCHANGED expiry
    \/ /\ Locked
       /\ expiry' = [expiry EXCEPT ![t] = IF Open(t) THEN "sleep" ELSE "done"]
       /\ Become(r)
       /\ SealerSheds(t, Oldest(IF Open(t) /\ r.spec # t THEN Waiting \cup {t} ELSE Waiting))
       /\ UNCHANGED <<free, canon, started>>

\* seal_draft up to the admission lock, which it passes at once if it is free: of the
\* children of a draft on_parent_admitted awaits nothing.
SealDraft(t, r) ==
    /\ buffer' = NoTurn
    /\ IF Open(t) /\ ~manual
       THEN Admit(t, r)
       ELSE /\ call' = [call EXCEPT ![t] = IF Open(t) THEN "lock" ELSE "done"]
            /\ Become(r)
            /\ UNCHANGED <<victims, free, canon, markVars>>

\* A commit starts with a revision of its own; if it is refused the draft is sealed
\* as it is, otherwise when the revision has ended.
Commit(t) ==
    /\ buffer = t /\ call[t] = "none"
    /\ \/ /\ \E compatible \in BOOLEAN : Revision(t, compatible)
          /\ call' = [call EXCEPT ![t] = "commit"]
          /\ UNCHANGED <<buffer, victims, markVars, spec, free, canon>>
       \/ /\ Refused(t)
          /\ SealDraft(t, Speculation)
          /\ UNCHANGED <<status, run, epoch, eligible, superseded>>
    /\ UNCHANGED <<next, accepting, manual, manuals, pending, outdated, completed, seen,
                   queue, cancelling, killed, shed, ctlVars>>

CommitEnds(t) ==
    /\ call[t] = "commit"
    /\ SealDraft(t, Current(Turn, spec, op))
    /\ UNCHANGED <<next, accepting, manual, manuals, pending, draftVars, endVars,
                   queue, cancelling, runVars, ctlVars>>

SealLocked(t) ==
    /\ call[t] = "lock" /\ ~manual
    /\ Admit(t, Speculation)
    /\ UNCHANGED <<speakerVars, pending, draftVars, endVars, queue, cancelling,
                   runVars, ctlVars>>

SealerRetires(t) ==
    /\ call[t] = "mark"
    /\ Retire(Smallest(victims[t]), NoTurn)
    /\ call' = [call EXCEPT ![t] = "join"]
    /\ UNCHANGED <<speakerVars, pending, victims, draftVars, terminal, started, op,
                   spec, slotVars, run, shed, ctlVars>>

SealerJoins(t) ==
    LET v == Smallest(victims[t]) IN
    /\ call[t] = "join" /\ ~Live(v)
    /\ SealerSheds(t, {u \in victims[t] \ {v} : Retirable(u)})
    /\ UNCHANGED <<speakerVars, pending, draftVars, endVars, started, expiry, op, spec,
                   slotVars, cancelling, runVars, ctlVars>>

SealerPublishes(t) ==
    /\ call[t] = "publish"
    /\ call' = [call EXCEPT ![t] = "done"]
    /\ UNCHANGED <<speakerVars, pending, victims, draftVars, endVars, markVars, op,
                   spec, slotVars, cancelling, runVars, ctlVars>>

-------------------------------------------------------------------------------
(* _expire_waiting_parent: the deadline of a turn that waits for a slot.     *)

ExpiryFires(t) ==
    /\ expiry[t] = "sleep" /\ Deadlines
    /\ IF Retirable(t) /\ spec # t
       THEN Mark(t, "expired") /\ expiry' = [expiry EXCEPT ![t] = "publish"]
       ELSE expiry' = [expiry EXCEPT ![t] = "done"] /\ UNCHANGED terminal
    /\ UNCHANGED <<speakerVars, callVars, draftVars, endVars, started, op, spec,
                   slotVars, cancelling, runVars, ctlVars>>

ExpiryRetires(t) ==
    /\ expiry[t] = "publish"
    /\ Retire(t, NoTurn)
    /\ UNCHANGED <<speakerVars, callVars, draftVars, terminal, started, op, spec,
                   slotVars, run, shed, ctlVars>>

-------------------------------------------------------------------------------
(* _run_draft_parent.  A cancellation is delivered before anything else.     *)

At(t, s) == run[t] = s /\ t \notin killed
Goto(t, s) == run' = [run EXCEPT ![t] = s]
Leave(t) == queue' = RemoveFirst(queue, t)
Done(o) == o.st \notin {"run", "dying"}

\* Mutant: a verdict nothing else knows.
GiveUpUnknown(t) ==
    /\ Goto(t, "dead")
    /\ Mark(t, IF terminal[t] = "none" THEN "interrupted" ELSE terminal[t])

\* The way out of a cancelled turn: its verdict, unless it has one.
GiveUp(t) ==
    /\ Goto(t, "dead")
    /\ Mark(t, IF terminal[t] = "none" THEN "cancelled" ELSE terminal[t])

\* Execution begins: whatever is not yet asked for is, for good.
Execute(t) ==
    LET r == Released(t, Speculation) IN
    /\ MarkStarted(t)
    /\ Become([r EXCEPT !.op[t] = Launch(@, TRUE, epoch[t], FALSE)])
    /\ Goto(t, "exec")

\* The source is closed: a cancelled turn goes no further; one with a slot
\* starts; the speculating one races its results against a slot.
RunWakes(t) ==
    /\ At(t, "wait") /\ call[t] = "done"
    /\ \/ /\ ParentCancelled(t)
          /\ GiveUp(t)
          /\ UNCHANGED <<started, expiry, op, spec, queue>>
       \/ /\ ~ParentCancelled(t) /\ t \in canon
          /\ Execute(t)
          /\ UNCHANGED <<terminal, queue>>
       \/ /\ ~ParentCancelled(t) /\ t \notin canon
          /\ Goto(t, IF spec = t THEN "race" ELSE "slot")
          /\ queue' = Append(queue, t)
          /\ UNCHANGED <<markVars, op, spec>>
    /\ UNCHANGED <<speakerVars, callVars, draftVars, endVars, canon, free,
                   cancelling, killed, shed, ctlVars>>

RunGranted(t) ==
    /\ At(t, "slot") \/ At(t, "race")
    /\ \E i \in 1 .. Len(queue) : queue[i] = t /\ i <= free
    /\ Leave(t)
    /\ free' = free - 1
    /\ canon' = canon \cup {t}
    /\ IF Open(t) THEN Execute(t)
                  ELSE Goto(t, "drain") /\ UNCHANGED <<started, expiry, op, spec>>
    /\ UNCHANGED <<speakerVars, callVars, draftVars, endVars, terminal, cancelling,
                   killed, shed, ctlVars>>

\* The speculation gave every result: no slot is needed.
Ready(t) == t \notin superseded /\ \A k \in Child : op[t][k].st = "good"
RunReady(t) ==
    /\ At(t, "race") /\ Ready(t)
    /\ Leave(t)
    /\ IF Open(t) THEN Execute(t)
                  ELSE Goto(t, "drain") /\ UNCHANGED <<started, expiry, op, spec>>
    /\ UNCHANGED <<speakerVars, callVars, draftVars, endVars, terminal, canon, free,
                   cancelling, killed, shed, ctlVars>>

\* It ended without them: the turn waits like the others, after it has retired the
\* overflow W, itself perhaps, and unless its own time has passed.  Its timer may have
\* fired already, to no effect because the turn was speculating; if it fired early, by
\* the resolution of the clock, it is started again.  The run keeps its place in the
\* queue all the while.
RunSheds(t, W) ==
    \/ /\ W # {}
       /\ shed' = [shed EXCEPT ![t] = W]
       /\ Mark(Smallest(W), "failed")
       /\ Goto(t, "mark")
       /\ UNCHANGED expiry
    \/ /\ W = {} /\ Deadlines
       /\ shed' = [shed EXCEPT ![t] = {t}]
       /\ Mark(t, "expired")
       /\ Goto(t, "mark")
       /\ UNCHANGED expiry
    \/ /\ W = {} /\ expiry[t] \in {"sleep", "done"} /\ terminal[t] = "none"
       /\ shed' = [shed EXCEPT ![t] = {}]
       /\ Goto(t, "race")
       /\ expiry' = [expiry EXCEPT ![t] = "sleep"]
       /\ UNCHANGED terminal

RunGivesUp(t) ==
    /\ At(t, "race") /\ spec = t /\ t \notin superseded /\ ~Ready(t)
    /\ \A k \in Child : Done(op[t][k])
    /\ Become(Released(t, Speculation))
    /\ RunSheds(t, Oldest(Waiting \cup {t}))
    /\ UNCHANGED <<speakerVars, callVars, draftVars, endVars, started, slotVars,
                   cancelling, killed, ctlVars>>

RunRetires(t) ==
    /\ At(t, "mark")
    /\ Retire(Smallest(shed[t]), t)
    /\ Goto(t, "join")
    /\ UNCHANGED <<speakerVars, callVars, draftVars, terminal, started, op, spec,
                   slotVars, shed, ctlVars>>

\* A verdict another task recorded on the turn meanwhile counts as a full set of
\* results, and the turn is executed without a slot.
RunJoins(t) ==
    LET v == Smallest(shed[t])
        W == {u \in shed[t] \ {v} : Retirable(u)}
    IN
    /\ At(t, "join") /\ (v = t \/ ~Live(v))
    /\ \/ /\ W # {} \/ Open(t)
          /\ RunSheds(t, W)
          /\ UNCHANGED <<started, op, spec, queue>>
       \/ /\ W = {}
          /\ shed' = [shed EXCEPT ![t] = {}]
          /\ Leave(t)
          /\ \/ ~Open(t) /\ Goto(t, "drain") /\ UNCHANGED <<started, expiry, op, spec>>
             \/ Open(t) /\ terminal[t] # "none" /\ Execute(t)
          /\ UNCHANGED terminal
    /\ UNCHANGED <<speakerVars, callVars, draftVars, endVars, canon, free, cancelling,
                   killed, ctlVars>>

\* finish(): a failed speculation is tried again.
ExecRetry(t, k) ==
    /\ At(t, "exec")
    /\ op[t][k].st \in {"bad", "gone"} /\ op[t][k].guess
    /\ op' = [op EXCEPT ![t][k].st = "retry"]
    /\ UNCHANGED <<speakerVars, callVars, draftVars, endVars, markVars, spec, slotVars,
                   cancelling, runVars, ctlVars>>


\* Mutant: only a translation is published.
FinalGood(o) == o.st = "good"

\* A result that stands is published, and refused if the turn is being cancelled.
Final(o) == o.st = "good" \/ (o.st \in {"bad", "gone"} /\ ~o.guess)
RunPublish(t, k) ==
    /\ At(t, "exec") /\ Final(op[t][k]) /\ ~ChildCancelled(t)
    /\ Settle(t, {k}, IF op[t][k].st = "good" THEN "translated" ELSE "failed")
    /\ op' = [op EXCEPT ![t][k].st = "told"]
    /\ run' = IF Closes(t, {k}) THEN [run EXCEPT ![t] = "drain"] ELSE run
    /\ UNCHANGED <<speakerVars, callVars, draftVars, terminal, started, spec,
                   slotVars, killed, shed, ctlVars>>

RunRefused(t, k) ==
    /\ At(t, "exec") /\ Final(op[t][k]) /\ ChildCancelled(t)
    /\ GiveUp(t)
    /\ UNCHANGED <<speakerVars, callVars, draftVars, endVars, started, expiry, op, spec,
                   slotVars, cancelling, killed, shed, ctlVars>>

\* Task.cancel() is delivered.  The calls of an execution are cancelled with it; a
\* run that joins another one passes the cancellation on; one that publishes its
\* end does not settle anything any more.
Joins(t, v) == run[t] = "join" /\ v = Smallest(shed[t])
RunCancelled(t) ==
    /\ t \in killed
    /\ \/ /\ run[t] \in {"wait", "slot", "race", "mark"} \/ Joins(t, t)
          /\ killed' = killed \ {t}
          /\ shed' = [shed EXCEPT ![t] = {}]
          /\ Leave(t) /\ GiveUp(t)
          /\ UNCHANGED op
       \/ \E v \in Turn \ {t} :
          /\ Joins(t, v)
          /\ killed' = (killed \ {t}) \cup {u \in {v} : Live(u)}
          /\ Goto(t, "leave")
          /\ UNCHANGED <<shed, queue, terminal, op>>
       \/ /\ run[t] = "exec"
          /\ killed' = killed \ {t}
          /\ op' = [op EXCEPT ![t] = CancelCalls(@)]
          /\ Goto(t, "unwind")
          /\ UNCHANGED <<shed, queue, terminal>>
       \/ /\ run[t] \in {"unwind", "leave"}
          /\ killed' = killed \ {t}
          /\ UNCHANGED <<run, shed, queue, terminal, op>>
       \/ /\ run[t] = "dead"
          /\ killed' = killed \ {t}
          /\ op' = [op EXCEPT ![t] = CancelOperations(@)]
          /\ Goto(t, "drain")
          /\ UNCHANGED <<shed, queue, terminal>>
    /\ UNCHANGED <<speakerVars, callVars, draftVars, endVars, started, expiry, spec,
                   canon, free, cancelling, ctlVars>>

RunLeaves(t) ==
    /\ At(t, "leave") /\ ~Live(Smallest(shed[t]))
    /\ shed' = [shed EXCEPT ![t] = {}]
    /\ Leave(t) /\ GiveUp(t)
    /\ UNCHANGED <<speakerVars, callVars, draftVars, endVars, started, expiry, op, spec,
                   canon, free, cancelling, killed, ctlVars>>

\* The first finish() to end cancelled ends the gather.
RunUnwound(t) ==
    /\ At(t, "unwind")
    /\ \E k \in Child : op[t][k].st \notin {"dying", "unwinding", "told"}
    /\ GiveUp(t)
    /\ UNCHANGED <<speakerVars, callVars, draftVars, endVars, started, expiry, op, spec,
                   slotVars, cancelling, killed, shed, ctlVars>>

RunDead(t) ==
    /\ At(t, "dead")
    /\ IF Open(t) THEN Settle(t, Remaining(t), "cancelled")
                  ELSE UNCHANGED <<endVars, cancelling, expiry>>
    /\ op' = [op EXCEPT ![t] = CancelOperations(@)]
    /\ Goto(t, "drain")
    /\ UNCHANGED <<speakerVars, callVars, draftVars, terminal, started, spec, slotVars,
                   killed, shed, ctlVars>>

\* Mutant: gives back a slot whether or not the turn has one.
GiveBackAlways(t) == canon' = canon \ {t} /\ free' = free + 1

GiveBack(t) ==
    /\ canon' = canon \ {t}
    /\ free' = IF t \in canon THEN free + 1 ELSE free

\* The finally block: the operations are awaited, then speculation and slot are given
\* back, unless the task is cancelled again meanwhile.
RunDrained(t) ==
    /\ run[t] = "drain" /\ t \notin superseded /\ \A k \in Child : Done(op[t][k])
    /\ Goto(t, "done")
    /\ killed' = killed \ {t}
    /\ IF t \in killed
       THEN UNCHANGED <<spec, op, canon, free>>
       ELSE Become(Released(t, Speculation)) /\ GiveBack(t)
    /\ UNCHANGED <<speakerVars, callVars, draftVars, endVars, markVars, queue,
                   cancelling, shed, ctlVars>>

-------------------------------------------------------------------------------
(* _process_draft_operation and the calls it makes.                         *)

\* The result is recorded unless the turn has been cancelled or settled.
OpReturns(t, k) ==
    /\ op[t][k].st = "run"
    /\ \E result \in Answers :
          op' = [op EXCEPT ![t][k].st =
                    IF ParentCancelled(t) THEN "gone" ELSE result]
    /\ UNCHANGED <<speakerVars, callVars, draftVars, endVars, markVars, spec, slotVars,
                   cancelling, runVars, ctlVars>>

RetryReturns(t, k) ==
    /\ op[t][k].st = "retry"
    /\ \E result \in Answers :
          op' = [op EXCEPT ![t][k] = [@ EXCEPT !.st = result, !.guess = FALSE]]
    /\ UNCHANGED <<speakerVars, callVars, draftVars, endVars, markVars, spec, slotVars,
                   cancelling, runVars, ctlVars>>

OpDies(t, k) ==
    /\ op[t][k].st \in {"dying", "unwinding"}
    /\ op' = [op EXCEPT ![t][k].st = "gone"]
    /\ UNCHANGED <<speakerVars, callVars, draftVars, endVars, markVars, spec, slotVars,
                   cancelling, runVars, ctlVars>>

-------------------------------------------------------------------------------
(* Cancelling the channel: reset_provider_channel ("speech"),               *)
(* clear_language_runtime_state ("reset") and close_self_ingress ("ingress"). *)

\* Mutant: drafts are left to go on.
SelectedSealed == {t \in Turn : Open(t) /\ ~Draft(t)}

Selected == {t \in Turn : Open(t)}

\* _cancel_channel once it has the admission lock.
Select(c, kind) ==
    LET S == Selected IN
    /\ ctl' = [ctl EXCEPT ![c] = [pc |-> "join", kind |-> kind, sel |-> S]]
    /\ cancelling' = cancelling \cup S
    /\ killed' = killed \cup {t \in S : Live(t)}

CtlBegin(c) ==
    /\ ctl[c] = NoCall /\ calls < MaxCalls
    /\ calls' = calls + 1
    /\ \E kind \in {"speech", "reset", "ingress"} :
          /\ outdated' = IF kind = "speech" THEN outdated
                         ELSE outdated \cup {t \in Turn : Open(t)}
          /\ blocked' = (blocked \/ kind # "speech")
          /\ accepting' = (accepting /\ kind # "ingress")
          /\ IF manual
             THEN /\ ctl' = [ctl EXCEPT ![c] = [pc |-> "select", kind |-> kind, sel |-> {}]]
                  /\ UNCHANGED <<cancelling, killed>>
             ELSE Select(c, kind)
    /\ UNCHANGED <<next, buffer, manual, manuals, callVars, epoch, eligible, superseded,
                   endVars, markVars, op, spec, slotVars, run, shed>>

CtlSelect(c) ==
    /\ ctl[c].pc = "select" /\ ~manual
    /\ Select(c, ctl[c].kind)
    /\ UNCHANGED <<speakerVars, callVars, draftVars, endVars, markVars, op, spec,
                   slotVars, run, shed, blocked, calls>>

Joined(c) == ctl[c].pc = "join" /\ \A t \in ctl[c].sel : ~Live(t)

CtlSettle(c, t) ==
    /\ Joined(c) /\ t \in ctl[c].sel /\ Open(t)
    /\ Settle(t, Remaining(t), "cancelled")
    /\ UNCHANGED <<speakerVars, callVars, draftVars, terminal, started, op, spec,
                   slotVars, runVars, ctlVars>>

CtlReturn(c) ==
    /\ Joined(c) /\ \A t \in ctl[c].sel : ~Open(t)
    /\ blocked' = CASE ctl[c].kind = "speech"  -> blocked
                    [] ctl[c].kind = "reset"   -> FALSE
                    [] ctl[c].kind = "ingress" -> TRUE
    /\ ctl' = [ctl EXCEPT ![c] = IF @.kind = "ingress" THEN NoCall
                                 ELSE [@ EXCEPT !.pc = "clear", !.sel = {}]]
    /\ UNCHANGED <<speakerVars, callVars, draftVars, endVars, markVars, op, spec,
                   slotVars, cancelling, runVars, calls>>

\* clear_self_speech_state: the merge buffer of the moment is dropped.
CtlClear(c) ==
    /\ ctl[c].pc = "clear"
    /\ buffer' = NoTurn
    /\ ctl' = [ctl EXCEPT ![c] = NoCall]
    /\ UNCHANGED <<next, accepting, manual, manuals, callVars, draftVars, endVars,
                   markVars, op, spec, slotVars, cancelling, runVars, blocked, calls>>

OpenIngress ==
    /\ ~accepting /\ \A c \in Controller : ctl[c] = NoCall
    /\ accepting' = TRUE
    /\ blocked' = FALSE
    /\ UNCHANGED <<next, buffer, manual, manuals, callVars, draftVars, endVars,
                   markVars, op, spec, slotVars, cancelling, runVars, ctl, calls>>

-------------------------------------------------------------------------------
\* The speaker has finished; a draft nobody seals may be left.
Rest ==
    /\ next = N + 1 /\ buffer = NoTurn /\ pending = {} /\ ~manual
    /\ \A t \in Turn : call[t] \in {"none", "done"} /\ (Live(t) => run[t] = "wait")
    /\ \A c \in Controller : ctl[c] = NoCall
    /\ UNCHANGED vars

Seal(t) == CommitEnds(t) \/ SealLocked(t) \/ SealerRetires(t) \/ SealerJoins(t)
           \/ SealerPublishes(t)
Run(t) == RunWakes(t) \/ RunGranted(t) \/ RunReady(t) \/ RunGivesUp(t) \/ RunRetires(t)
          \/ RunJoins(t) \/ RunCancelled(t) \/ RunLeaves(t) \/ RunUnwound(t)
          \/ RunDead(t) \/ RunDrained(t)
          \/ \E k \in Child : ExecRetry(t, k) \/ RunPublish(t, k) \/ RunRefused(t, k)
Provider(t, k) == OpReturns(t, k) \/ RetryReturns(t, k) \/ OpDies(t, k)
Control(c) == CtlSelect(c) \/ CtlReturn(c) \/ CtlClear(c)
              \/ \E t \in Turn : CtlSettle(c, t)

\* What the program and its providers do of themselves.
Progress ==
    \/ ManualEnds
    \/ \E t \in Turn :
          \/ Revised(t) \/ Seal(t) \/ ExpiryFires(t) \/ ExpiryRetires(t) \/ Run(t) \/ Superseded(t)
          \/ \E k \in Child : Provider(t, k)
    \/ \E c \in Controller : Control(c)

Next ==
    \/ Speak \/ ManualBegins \/ OpenIngress \/ Rest
    \/ \E t \in Turn : Revise(t) \/ Prestart(t) \/ Commit(t)
    \/ \E c \in Controller : CtlBegin(c)
    \/ Progress

Spec == Init /\ [][Next]_vars

\* The event loop does not stop while a task can run, a deadline is to pass or a
\* call to end (by its watchdog at the latest, or by the end of its cleanup).  That
\* is enough: Progress cannot go on for ever without one of its steps.
Fairness == WF_vars(Progress)
FairSpec == Spec /\ Fairness

-------------------------------------------------------------------------------
(* Properties.                                                             *)

\* Calls that cancel the channel come one at a time.
OneAtATime == \A c, d \in Controller : c = d

\* No slot is made up (_self_speech_slots, canonical_slot): those that are free and
\* those turns have add up to self_speech_running_capacity, a slot is for a turn whose
\* execution began, and an ended run has given its slot back.  The exceptions are a turn
\* another task was retiring, whose run's last step a second cancellation may skip; a
\* sealer that was kept waiting by a manual submission: it takes its slot without
\* asking again whether a reset closed the turn meanwhile (seal_draft), and loses it; and
\* a draft whose run two overlapping cancellations ended, if it is sealed before either
\* settles it.
SlotAccounting ==
    /\ free + Cardinality(canon) = RunningCapacity
    /\ canon \subseteq started
    /\ manuals = 0 /\ OneAtATime =>
          \A t \in canon : Live(t) \/ terminal[t] \in {"expired", "failed"}

\* A provider call is made for the speculating draft or for a turn with a slot,
\* whatever was released, granted or cancelled meanwhile; the exception is a turn
\* with a verdict on it, which another task is retiring.
CallsOwned ==
    \A t \in Turn, k \in Child :
        op[t][k].st \in {"run", "retry"} => t \in canon \cup {spec} \/ terminal[t] # "none"

\* No more turns wait for a slot than self_speech_waiting_capacity, beside those some
\* task is about to retire, those that wait for the admission lock and those that are
\* being cancelled.
WaitingBounded ==
    LET Doomed == UNION {victims[t] \cup shed[t] : t \in Turn}
        Locking == {t \in Turn : call[t] = "lock"}
    IN  Cardinality(Waiting \ (Doomed \cup Locking \cup cancelling)) <= WaitingCapacity

\* _start_current_draft is called wherever it has to be: what is being said now is
\* being translated, unless another turn still occupies the speculation or the
\* draft's own revision is on its way to be shown.
NoIdleSpeculation ==
    spec = NoTurn /\ buffer # NoTurn /\ Startable(buffer) =>
        buffer \in pending \/ call[buffer] = "commit"

\* A translation that is shown was made of the text as it was last revised: no result
\* of a superseded operation survives the revision, its seal or a second try.
FreshResults ==
    \A t \in Turn, k \in Child : seen[t][k] = <<"translated">> => op[t][k].epoch = epoch[t]

\* Whoever settles them (its run, a sealer, another run, its own timer, a controller),
\* the children of a turn are settled once each, all of them before it is closed.
SettledOnce ==
    \A t \in Turn :
        /\ \A k \in Child : Len(seen[t][k]) = IF k \in completed[t] THEN 1 ELSE 0
        /\ status[t] = "closed" <=> completed[t] = Child

\* When closing the self ingress has returned no turn is open, and no run of one can
\* make another call: it has ended, is on its way out (which may be by way of the
\* overflow it is retiring), or has a cancellation to come.  A reset that overlaps the
\* closing lets drafts in again when it returns, hence one call at a time.
DrainedWhenShut ==
    OneAtATime /\ blocked /\ (\A c \in Controller : ctl[c] = NoCall) =>
        \A t \in Turn :
            /\ ~Open(t)
            /\ run[t] \in {"wait", "slot", "race", "exec"} => t \in killed

\* A sealed turn ends: translated, as its source alone, or cancelled.
SealedTurnsClose == \A t \in Turn : Open(t) /\ call[t] = "publish" ~> status[t] = "closed"

\* A cancelling call returns, whatever its turns were doing and whoever else was
\* cancelling them.
CallsReturn == \A c \in Controller : ctl[c] # NoCall ~> ctl[c] = NoCall
================================================================================
