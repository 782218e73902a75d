# PuriPuly Heart: TLA+ models, model checking and proofs

PuriPuly Heart listens to a microphone (the *self* channel) and to the voices of
others (the *peer* channel), recognises and translates what is said, and shows it
in its window, on overlays and in the VRChat chatbox. One asyncio event loop holds
the application state; devices, storage and native workers live in threads and
child processes. What is hard to get right is therefore not computation but
*ownership in time*: who may still publish, cancel, retire or release something
after an `await`.

This directory models the centre of that: the life of an utterance, of others or of
the user, between recognition and publication; the lines in which results wait to be
shown; how the calls that turn the program's resources on and off are ordered; and
how its settings are committed by several threads. Section 1 is the inventory of the whole system,
section 2 the plan, the rest describes what is here.

## 1. Inventory

Paths are relative to `src/src/puripuly_heart/`.

| Component | State it keeps | Operations | Hard behaviour | What makes it correct |
| --- | --- | --- | --- | --- |
| **Translation turns** `core/orchestrator/translation_turn.py` | open parents, closed ids, channel tails, blocked channels, cancellation marks, active and execution slots, a task per parent, child and waiting timer | `submit`, `cancel_pending`, `close_channel_ingress`, `close`, timers, runs | concurrent translation with ordered publication; four parties may end the same turn; overload and timeout retirement; cancel during admission | each child ends exactly once, every turn ends, order is kept, slots are conserved, nothing is left behind after closing |
| **Self turns and drafts** same file, `self_translation_channel.py` | drafts and their revisions, operations and results per target, the speculating turn, a semaphore of speech slots, merge buffer with four timers | `revise_draft`, `prestart_draft_secondary`, `seal_draft`, timers, runs, the same cancelling calls | speculation raced by revision, seal and cancellation; a run retired by itself, a sealer, another run or its timer; a cancel during a drain | a result is published only for the text it was made from; slots are conserved; sealed turns end; the newest draft is translated |
| **Output line** `core/runtime/output_batch.py` | per scope: active batch, waiting line, reserved bytes, ranges of retired orders | `admit_parent`, `register_overlay_event`, `resize_parent`, `complete_target`, `release`, `release_destination`, `release_all`, `retire_turn_generation` | bounded line and bytes, eviction, several lines waited for in turn, late events of retired orders | nobody waits behind nothing, bytes are exact, one order in all lines, no batch of a dead turn |
| **Peer channel** `peer_translation_channel.py`, `translation_channel_callbacks.py` | recognition lock, ingress gate, records | accept event, admit, publish, terminal, closed | callbacks that fail half-way | the batch is completed with its turn |
| **Output projection and runtime** `translation_output_projection.py`, `core/runtime/output.py` | destination workers, identities, newest source order | publish, await place, overlay dispatch | independent slow destinations, stale source order | one destination cannot block another; no admitted result is silently lost |
| **Translation requests, provider handle** `translation_request.py`, `core/runtime/provider_handle.py`, `provider_rebuild.py` | current provider and generation, pending hand-off, retained, draining and retired providers | start, replace, hand off at a boundary, drain, retire, close | replacement while calls are in flight; idle release; failing close | only current, retained or draining providers deliver; every provider taken over is closed or kept for a retry |
| **Scoped recognition** `core/stt/` | epochs, bounded event buffer | put, get, retire epoch | overflow; late events of retired epochs | a terminal event is never lost |
| **Shared GPU ASR** `core/runtime/gpu_asr.py` | leases, worker generation, queue, shutdown task | activate, submit, deactivate, retry, close | two channels on one worker, shutdown racing activation | the worker runs while a lease exists and stops afterwards; results belong to the current generation |
| **Capture** `self_capture.py`, `peer_channel.py` | generation, source order, pending source work | apply intent, replace provider, tear down | stale generations after every await | no audio of a revoked generation enters recognition |
| **Application control** `app/services/application_control.py` | operations, two locks, the starting toggle, stop sequence numbers | submit, toggle, cancel, freeze | a stop preempts a start that is loading, without the locks that start holds; shutdown cancels calls at any point | no deadlock between stop and start, no lock left behind, an interrupted start never succeeds |
| **Settings** `canonical_settings_persistence.py`, `settings/` | canonical value, rollback snapshot, file, publications, two locks | commit, rollback, publish, assign the capture target | threads; changes made from older readings; failure between change and save; a loop that stops | observers see commits once and in order; no successful commit is undone, a failed one leaves no trace |
| Local models, overlays, accounts, VRChat, diagnostics, control host, UI, broker, native workers | | | mostly I/O, processes, presentation, or separate programs | not modelled, see section 7 |

How they interact on the peer path: the recogniser delivers final utterances through
the channel callbacks, one at a time under the channel's recognition lock; the
channel calls `submit`; the turn owner calls back `on_parent_admitted`, which takes a
place in the output line, and creates a run task per turn and a task per child; the
children call the provider through the request owner; the run publishes through the
channel, which waits for the turn's place in the line; `on_parent_closed` and the
terminal callback release that place. The pipeline launcher opens and closes the
ingress; a context reset and the shutdown cancel everything.

On the self path every final is merged into a buffer, and each change of the buffer
calls `revise_draft`: the draft turn exists, with its run task, while the user still
speaks. The newest draft is translated speculatively, one turn at a time. The commit of
the buffer revises once more and calls `seal_draft`; the sealed turn takes one of the
speech slots or waits for one, while its speculation may still make the slot
unnecessary.

Around this, the application control orders what starts and stops the channels: each
call is a task of the loop that takes up to two locks, except a stop that interrupts a
start. The settings owner is the one component that threads call directly: commits
run in worker threads or in the loop's, and their observer is told on the loop.

## 2. Plan

1. **Done.** `OutputLine`, `TurnDelivery`, `PeerTurns`: the peer turn owner with its
   callers and output, its abstract promise, the refinement and its proof.
2. **Done.** `SelfTurns`: the self half of the owner; safety proved.
3. **Done.** `OutputBatches`: the batches in full (bytes, several origins and
   destinations, resizing, ranges of retired orders), implementing `OutputLine`; proved.
4. **Done.** `ToggleControl`: starts, preempting stops, edits, both locks, shutdown;
   safety proved.
5. **Done.** `SettingsCommits`: commits of several threads, rollback, publication; proved.
6. **Done.** The accounts of `PeerTurns` (`PeerAccountingProofs`), the invariants of
   `SelfTurns` (`SelfTurnsProofs`), type correctness of `ToggleControl`, and all that is
   checked of `OutputBatches` (`OutputBatchesProofs`). Every invariant a run checks is now a theorem.
7. `ProviderHandle`: one action per operation under the handle's lock, with event,
   idle-release and retirement tasks. Abstract: a set of owned providers that only grows
   by attaching and shrinks by closing.
8. `EventBuffer`: the bounded recognition buffer checked against an unbounded one. Then
   `GpuLeases`.

The runs of the later modules will be of the size of those below: two or three
providers or leases, one failure, one or two concurrent callers.

## 3. Modules

| Module | Models |
| --- | --- |
| `OutputLine` | pure operators on the waiting line of one destination: admission with eviction of the oldest that waits, release, generation retirement |
| `OutputBatches` | the lines of all origins and destinations with their byte accounts, one action per critical section |
| `TurnSpace` | turns, children and kinds of showing, common to `PeerTurns` and `TurnDelivery` |
| `PeerTurns` | the turn owner's peer half, one action per piece of code between two suspension points |
| `TurnDelivery` | the promise to whoever reads the channel: which child is shown when and as what |
| `MCPeerTurns` | symmetry of the controllers for TLC |
| `SelfTurns` | the turn owner's self half with the speaker's merge buffer: drafts, speculation, sealing, speech slots, cancellation |
| `ToggleControl` | the application control's ordering of starts, stops and other mutations |
| `SettingsCommits` | the settings owner's commits, rollbacks and publications |
| `OutputLineProofs`, `OutputBatchesProofs`, `TurnDeliveryProofs`, `PeerDeliveryProofs`, `PeerAccountingProofs`, `SelfTurnsProofs`, `ToggleControlProofs`, `SettingsCommitsProofs` | theorems, section 6 |

`PeerTurns` extends `OutputLine` for its line and implements `TurnDelivery`;
`OutputBatches` shows that the real lines do what `OutputLine` says. `SelfTurns`,
`ToggleControl` and `SettingsCommits` share no state with the others.

### State of `PeerTurns` against the code

Turn *t* is the *t*-th utterance, a child is one of `K` pairs of segment and target.

| Variable | Code |
| --- | --- |
| `next`, `status`, `started`, `completed`, `predecessor` | the parent records: `closed`, `execution_started`, `completed_child_ids`, and the predecessor captured at admission |
| `seen` | history: how each child was shown (`translated`, `source` in its place, or an unordered `fallback`) |
| `expiry` | the task `_expire_waiting_parent`: sleeping, waiting for its place, with a CancelledError on the way, done |
| `run`, `killed`, `finished`, `work` | the task `_run_parent`, an undelivered `cancel()`, the results it holds, the child tasks |
| `cancelling`, `tail`, `blocked`, `closed`, `running`, `active` | the owner's fields of similar name |
| `accepting` | the ingress gate of the peer channel |
| `sub` | where the one `submit()` in flight is suspended |
| `ctl` | the cancelling calls in flight, each with the turns it selected |
| `line` | the batches of one destination |

| Actions | Code |
| --- | --- |
| `Submit`, `SubmitAdmitted`, `SubmitRefused` | `submit()` up to the end of the admission lock |
| `SubmitOverflow`, `SubmitNoOverflow`, `SubmitFinish` | overload retirement, joining the victim's task, timer, children, run task |
| `ExpiryFires`, `ExpiryGate`, `ExpiryKicked` | the waiting timer and `_retire_waiting_parent` |
| `RunActivate` ... `RunDrained` | `_run_parent`, `_run_peer_children`, `_publish_child_result` |
| `ChildAcquire`, `ChildReturns`, `ChildDies` | `_process_peer_child`, `_process_child` and its watchdog |
| `CtlBegin`, `CtlSelect`, `CtlCloseScope`, `CtlSettle`, `CtlReturn` | `cancel_pending`, `close_channel_ingress`, `close` |
| `OpenIngress` | `open_peer_ingress` |

`Settle` is shared by all: it marks children terminal, and with the last of them closes
the turn, which in the code runs `_close_parent` and the callbacks that release the batch.

### State of `SelfTurns` against the code

Turn *t* is the *t*-th merge buffer, a child is one of `K` target languages.

| Variable | Code |
| --- | --- |
| `buffer`, `accepting` | `merge_buffer`, `_accepting_events` of the self channel |
| `call`, `victims`, `pending` | where the commit of each buffer is suspended and what it has yet to retire; drafts whose revision is being published |
| `manual` | a manual submission inside the admission lock |
| `status`, `outdated`, `epoch`, `eligible`, `superseded`, `terminal`, `started`, `completed` | the parent records: `closed`, an older `turn_generation`, incompatible revisions, `secondary_eligible`, `retiring_operations`, `terminal_status`, `execution_started`, `completed_child_ids` |
| `op` | per target: no operation, running, its result, the retry of `finish()`, cancelled and unwinding, ended, published; the revision it was made for, and whether it is speculative |
| `seen` | history: how each child was settled |
| `expiry`, `run`, `killed`, `shed` | the timer, the task `_run_draft_parent`, an undelivered `cancel()`, the turns it has yet to retire |
| `spec`, `canon`, `free`, `queue` | `_speculative_parent_id`, parents with a `canonical_slot`, the semaphore and its waiters in order |
| `cancelling`, `blocked`, `ctl` | as in `PeerTurns` |

| Actions | Code |
| --- | --- |
| `Speak`, `Revise`, `Revised`, `Prestart`, `Superseded` | the merge of a final, `revise_draft`, `prestart_draft_secondary`, `operation_retired` |
| `Commit`, `CommitEnds`, `SealLocked`, `SealerRetires`, `SealerJoins`, `SealerPublishes` | `_commit_merge`, `seal_draft` |
| `ExpiryFires`, `ExpiryRetires` | the waiting timer, its `_retire_waiting_parent` |
| `RunWakes`, `RunGranted`, `RunReady`, `RunGivesUp`, `RunRetires`, `RunJoins` | `_run_draft_parent` and the race in `_admit_draft_execution` |
| `ExecRetry`, `RunPublish`, `RunRefused` | `finish()`, `_publish_child_result` |
| `RunCancelled` ... `RunDrained` | a cancellation in each phase, the `finally` |
| `OpReturns`, `RetryReturns`, `OpDies` | the provider calls |
| `CtlBegin` ... `CtlClear`, `OpenIngress` | `reset_provider_channel`, `clear_language_runtime_state`, closing and opening the ingress |

### State of `OutputBatches` against the code

Parent *p* is the *p*-th `turn_order`; an event is one a speech adapter registers outside
a turn. `line` maps each scope (origin, destination) to the fields of its
`DestinationBatchAdmission` scope: `active`, `waiting`, `held` and `reserved` (the batches
and `reserved_bytes`), `unready` (batches whose event is not set), `ranges` (the retired
orders per generation), and `over`, the history `ranges` is compared with. `retired` is
`retired_turn_generations`, `open` whether the output runtime accepts.

| Actions | Code |
| --- | --- |
| `AdmitParent` | `admit_parent` on all destinations of the parent, with eviction and the overload refusal |
| `RegisterEvent`, `EventEnds` | `register_overlay_event`; delivery, failure, `cancel_waiting` |
| `ResizeParent`, `CompleteParent` | `resize_parent`, `complete_target` of the last target |
| `RetireGeneration` | `retire_turn_generation`, which takes no lock |
| `ReplaceOverlay`, `Close` | `release_destination`, `release_all` |

What the model keeps of the code's peculiarities: a parent whose generation was retired
while it waited for the lock is admitted all the same; the generations and orders of a
channel are given out together; a payload is resized for all destinations or for the
chatbox alone; the ranges of manual parents go with the generations of either channel
(`MayBeDropped`); a publication cancelled between its promotion and its next step
leaves an active batch that only a generation, an overlay or the runtime going away
releases, so no liveness is claimed here.

### State of `ToggleControl` against the code

Call *c* is the *c*-th admitted; its `kind`, `resource` and `surface` are given.

| Variable | Code |
| --- | --- |
| `phase`, `result` | where the call is in `_execute_owned`, `runtime_toggle_lock` and `run_runtime_toggle`; how it ended |
| `wants`, `resourceLock`, `resourceQueue`, `mutationLock`, `mutationQueue` | the inner task `acquire()`, `_resource_lock`, `_lock`, and who waits for them in order |
| `starting`, `preempts`, `cancelRequested` | `_starting_runtime_toggle`, the start whose `stops` a stop joined, its `cancel_requested` |
| `cancelled`, `fence`, `open` | an undelivered `task.cancel()`, `_runtime_toggle_stops`, `_open` |

| Actions | Code |
| --- | --- |
| `Admit`, `Prepare`, `Refresh` | `submit` or a coroutine of the window; `prepare_translation_enable`, and again when it is out of date |
| `Begin`, `Notice`, `TakeResource`, `TakeMutation` | `runtime_toggle_lock` up to its `yield` |
| `Reject`, `Refuse` | an outdated revision; a start older than the last stop |
| `ApplyStop`, `ApplyStart`, `ApplyEdit`, `ApplyEnds`, `DrainEnds` | `run_runtime_toggle`, `apply_mutation` |
| `Cancelled`, `Freeze` | a cancellation that arrives in a wait; `freeze_ingress` |

`_StartingRuntimeToggle.stops` is the set of live calls that preempt the start; leaving it
and leaving the locks is one step, because nothing suspends in between.

### State of `SettingsCommits` against the code

Settings are a function of fields, and the value of a field is the number of the edit that
set it.

| Variable | Code |
| --- | --- |
| `canonical`, `committed`, `rollback`, `disk` | `canonical`, `committed_settings`, `_rollback_snapshot`, the file |
| `lock`, `pc`, `edit`, `copied`, `number` | the holder of `_commit_lock`, and each thread's place, change, snapshot and publication |
| `line`, `ready`, `publishing`, `posted`, `loop` | `_publications`, their `ready` flags, `_publishing`, the callback posted to the loop, the loop's state |
| `seen`, `latest`, `overwritten` | histories: what the observer was told, the last successful edit of each field, fields an unlocked assignment may have put back |

| Actions | Code |
| --- | --- |
| `Ask` | `commit_delta`, `commit_delta_async` with a change of what is read now |
| `Begin`, `Refuse`, `Copy`, `WriteFails`, `Write`, `Complete` | `_commit_delta_locked` and `_persist_locked`, step by step: `canonical` is read without the lock between them |
| `Release`, `Dispatch`, `Posted`, `Drain`, `DrainEnds` | `_release_publication`, `_dispatch_publications`, `_drain_publications`, `_fail_publications` |
| `Assign` | `PeerCaptureTargetApplicationOwner.apply` after its commit |
| `LoopStops`, `LoopCloses` | the event loop's end |

### Known behaviour

Behaviour of the code that the models keep, and that properties exempt by name: a
turn another task is retiring may still get a slot or be executed without one, because its
verdict counts as a full set of results (`CallsOwned`); a second `cancel()` of such a run in
its `finally` loses its slot, and so does a turn that a reset closed while its sealer waited
for a manual submission to leave the admission lock, because `seal_draft` takes the slot
without asking again (`SlotAccounting`, third conjunct: with one turn, one manual submission and
one reset TLC finds the loss in nine steps); two cancelling calls that overlap may end a draft's run
while the draft is open, and a seal that comes before either settles it gives it a slot that nobody
gives back; a draft begun while a reset is
gathering loses its buffer and is never sealed (`SealedTurnsClose` speaks of sealed turns,
`NoIdleSpeculation` of the current buffer); a cancelling call waits for the runs of turns
that are open, and a turn just closed may still be cleaning up when it returns
(`DrainedWhenShut`); a reset that overlaps a closing of the self ingress unblocks the channel when it
returns, and drafts are let in again. The last two were met while proving: with one
call at a time both properties hold, so the third conjunct of `SlotAccounting` and
`DrainedWhenShut` are stated under `OneAtATime`, that no two controllers call at once (each
controller may call again and again, as `self_reset` has it do).

In the settings, `PeerCaptureTargetApplicationOwner.apply`
(`app/services/capture/peer_capture_target_application.py:157`) assigns to `canonical` what its
commit returned, after that commit gave up the lock. A worker's commit that succeeded in
between is undone in the settings that are read, though its caller was told of its success
and the file has it; and a commit that is under way loses its change to the next
snapshot. `docs/architecture.md:107` has the owner serialise commits and rollbacks, and
`tests/app/test_managed_settings_concurrency.py:186` expects overlapping commits to preserve both
changes. `Assign` models it, and `NothingLost` exempts the fields in `overwritten`; without the
exemption TLC shows the loss in sixteen states. The overlay and peer flags are set
without the lock too and put back by a rollback; they are not in the model.

### Deliberate differences

- asyncio is cooperative: code between two suspensions is one action. Tasks the code
  starts eagerly run as steps of their own, and the condition variables wake waiters in
  any order. Both only add interleavings.
- The children of a retired turn are submitted one by one in the code; they wait for the
  same place, so one step shows them all. Children created by `on_child_created` fail or
  succeed in one step.
- In `PeerTurns`, ending a child is one step. In the code `on_child_terminal` may wait for the
  batch lock while an overlay is replaced or closed (`output.py:388-397`), after the test of
  `completed_child_ids` (`translation_turn.py:2028`); the model replaces no overlay there. In
  `SelfTurns` the parent admission of a draft awaits nothing
  (`self_translation_channel.py:794-809`), so only a manual one suspends.
- One destination. The UI destination is always present for peer turns; the others have
  lines of their own with the same rules. In `PeerTurns` pressure is by count only; several
  destinations and the byte budget are the subject of `OutputBatches`, whose
  `ImplementsLine` says where the two agree: lines of parents that are not manual, as long as another batch fits in the bytes.
- All turns see the same `concurrency_limit`; `wait_for_parent` and the cancellation of
  the submitting task itself are not modelled. Identifiers are never reused.
- A slot promised to a queued run, and the place of a run being cancelled, change hands when
  that run resumes, not at the instant the semaphore is told.
- The provider is one nondeterministic answer: with output, without, or killed.
- `ToggleControl`: the order in which stops of one start run beside it is free, where the code
  has a first-come lock; a finished operation is not remembered. The kind `locale` stands for
  the mutations that take only the mutation lock: a change of the locale alone, and the verification
  of a secret. The independent stops (the application's own, of the model downloads, of the audio
  test, `application_control.py:1726-1735`) hold a lock of their own and are not in the model.
- `SettingsCommits`: the file is written whole or not at all, as the adapter's replacement by
  rename provides; listeners do not raise. A loop that stopped does not run again.
- `MaxCalls` and `MaxFaults` bound controller calls and raising callbacks, `N` the
  utterances. They are guards, named, and constants of the theorems too.

## 4. Properties

- `SettledOnce`, `ClosedWhenComplete`: every child is shown once whoever ends it, and a
  turn closes with its last child.
- `GatedOrder`, `ChildrenInOrder`: translations and timed-out sources appear in admitted
  order, those of a turn in segment order. A fallback is exempt: the line has already
  given its place away.
- `LineHoldsOpenTurns`: a batch of a dead turn would stop the channel for good.
- `SlotAccounting`, `ActiveAccounting`: slots are exactly the calls and runs alive. The
  second is claimed without controller calls only: a second `cancel()` during the `finally` of
  `_run_peer_children` skips the release of the active slot, and the model keeps that.
- `WaitingBounded`, `OverflowVictimNeverWaits`: overload is trimmed, and trimming never
  waits for a place in the line. The latter needs `MaxUnsent <= WaitingCapacity`; in
  production both are 8.
- `NothingTranslatedAfterCancel`, `DrainedWhenShut`: a cancelled channel shows no
  translation, and a closed one has nothing left.
- `EveryTurnCloses`, `CallsReturn`, `SubmitReturns`: progress.
- `ImplementsDelivery`: all of it together implements `TurnDelivery`, with the line as the
  promise's queue and every other variable it needs of the same name.
- Of `SelfTurns`: `FreshResults` (what is shown was made of the text as last revised),
  `CallsOwned` (a provider call has an owner: the speculation, a slot or a verdict),
  `SlotAccounting` for the speech slots, `WaitingBounded` (beside the turns that are doomed, wait for
  the lock or are being cancelled), `NoIdleSpeculation` (the newest draft
  is translated unless the speculation is taken), `SettledOnce`, `DrainedWhenShut`,
  `SealedTurnsClose`, `CallsReturn`.
- Of `OutputBatches`: `NobodyStranded` (every batch that is not ready waits behind an active
  one), `BytesExact` (reserved bytes are those of the batches, within the budget),
  `RangesExact` (the merged ranges are the orders that are over), `SameOrderEverywhere` (no two
  publishers wait for each other across lines), `ImplementsLine`.
- Of `ToggleControl`: `OnlyMatchingStopOverlaps`, `NoLockLeaks`, `InterruptedStartFails`, and
  the progress properties `StopReachesStart` and `InterruptedStartEnds`: a stop is served though the
  start it interrupts loads for ever. `InterruptedStartFails` also says that a start still
  queueing when a newer stop of its resource is carried out does not get inside: the fence refuses it. `CleanupFencesStarts` is the statement the code breaks.
- Of `SettingsCommits`: `NotifiedInOrder`, `NothingLost`, `EveryCommitNotified`.

## 5. Runs

`N` turns, `K` children, `CL` concurrency limit, `WC` waiting capacity, `MU` places
behind the head of the line.

| Run | Instance | Shows |
| --- | --- | --- |
| `peer_overload` | N 3, K 1, CL 2, WC 1, MU 1, one call | overload, timeout, eviction and cancellation in all orders: backlog, order, no late translation |
| `peer_calls` | N 2, K 1, CL 2, two concurrent calls of two controllers, one raising callback | cancellation against cancellation and against admission: slots, line, what is left after closing |
| `peer_ends` | N 2, K 2, CL 1, WC 1, one call, one raising callback, fairness | who settles which child, the refinement, every turn ends, every call and submission returns |
| `self_overload` | N 4, K 1, one slot, one waiting place, speculations fail, no deadline | overflow retired by sealers and by runs |
| `self_reset` | N 1, K 2, one incompatible revision, one manual submission, two calls one after the other | revision, seal, retry and cancellation against each other |
| `self_ends` | N 2, K 1, one slot, deadlines, one call, fairness | slots; every sealed turn ends, calls return, speculation is handed on |
| `output_batches` | 3 parents, 1 event, self and manual, UI and overlay, 2 waiting places, batches of 2 of 5 bytes, 2 generations | the lines and their accounts under every operation |
| `toggle_control` | 3 calls of any kind (mutations with one lock among them), translation and self, a shutdown, fairness | locks, preemption and cancellation; stops are served |
| `settings_commits` | 2 workers and the loop, 2 fields, 3 edits, failing writes, fairness | order and completeness of publication, nothing lost |
| `peer_retired_started` | N 2, CL 1, WC 2 | violation: a turn being retired is started, and thereby cancelled |
| `peer_publication_order` | N 3, CL 1, WC 1 | violation: an overload victim's text precedes earlier results |
| `toggle_orphaned_stop` | 4 calls of the window on one resource | violation: a stop whose start is leaving cleans up without the locks, beside the next start |

Why the bounds are enough to be interesting. Of the peer turns: with `WC = 1` the second
waiting turn already overloads and with `MU = 1` the third turn in line evicts, so three turns allow a
head, a waiting turn and an evicted one at once, with slots for two; two children are the
least that can end out of order; two controllers the least that can select the same
turns. Deadlock is checked in every run of `PeerTurns`: only the state in which every
utterance has been handled and every task has ended may rest. `TurnDelivery` is checked through
`ImplementsDelivery` and proved.

Of the batches: three parents fill a line of an active and two waiting places and an event
overflows it; batches of up to two of five bytes make a third fit by number and not by size;
three orders are the least whose ranges can be merged from both sides; two destinations the least that
could disagree. Self and manual are the two origins of one channel that differ in every rule;
the peer lines have the rules of the self lines. The run may end anywhere, because
everything that happens to a line is somebody's call, hence no check for deadlock.

Of the toggles: a start, a stop that interrupts it and a third call queueing behind or joining
them; the orphaned stop needs a fourth. Of the settings: two fields tell a lost change from
an overwritten one, three threads are a holder of the lock, one that waits and one that
publishes, and three edits let each commit once. Both check for deadlock.

`self_overload` is the least instance with both kinds of overflow: a turn executing, two
waiting, and a speculating turn whose run gives up and finds the places taken. There
provider calls only fail, because a speculation that succeeds needs no slot and takes no part in the
overflow, and no deadline passes; `self_ends` has answers and deadlines. Without deadlines the
loss of a slot described above leaves a queued turn waiting for ever, so this run does not
check for deadlock; the other two do. `self_ends` has no manual submissions, for the reason given
under *known behaviour*. `self_reset` has one turn because what it
interleaves happens within one. Fairness of `SelfTurns` is one condition, weak fairness of
`Progress`, all that the program and its providers do of themselves: each such step uses
up something only the speaker, a controller or a manual submission can renew, so a
task that can run is not overtaken for ever. Drafts need not be sealed.

Fairness of `PeerTurns` is weak and per task: the event loop runs every ready task, timers fire, the
watchdog ends every provider call. The submitter is split in two conditions so that
admission is not obliged to fail. Weak fairness suffices for the slots because a waiter
that found a slot free and lost it to another finds it free again once that one ends, and
the turns are finite in number. Nothing obliges the recogniser to speak, a controller to
call, or the launcher to open the ingress.

Fairness of `ToggleControl` is weak and per call: the event loop runs a task that can go on,
and what a stop, an edit or a cancelled start awaits comes to an end. Nothing is assumed of a start
that loads, of preparations, or of admission. A waiter is first in its queue at last, so weak fairness
is enough for the locks. Fairness of `SettingsCommits` is one condition: some thread that can go
on does. Commits are finite in number and each step brings one nearer to its end, so none is overtaken
for ever, whoever gets the lock. The loop may stop at any time, and then nothing is promised.

The three violations are recorded in `PROJECT.json`. In the first, the timer's test of
`execution_started` is stale after the wait for the line: the turn has started and is cancelled. Its
source still reaches the overlay, out of place, as a fallback; the translation, the ordered `source_only`
submission with its failure code, and the `source_only` outcome are lost. In the second, the code orders
what passes the line but not the fallbacks of evicted turns, while the architecture
document states the order of publication without exception. In the third, the last of a start's
stops cancels it and leaves; until the start's task has run to its end it is still registered, and a stop
that comes in this moment joins it, gives up its own wait for the locks, and then runs beside
whichever start takes them next.

## 6. Proofs

All for every `N`, `K`, limit and set of controllers that satisfies the assumptions named
in `TurnSpace`, `PeerTurns`, `OutputBatches`, `SelfTurns`, `ToggleControl` and `SettingsCommits` (positive limits, natural bounds,
threads that differ). One theorem has a hypothesis of its own: `OverflowVictimNeverWaitsAlways` assumes
`MaxUnsent <= WaitingCapacity`, without which the property is false; both are 8 in the pipeline.

- `OutputLineProofs`: removing from and appending to a strictly increasing sequence keeps
  it so and changes its elements as expected; release and admission are built from these.
- `TurnDeliveryProofs`: `TypeCorrect`; `Invariance` of `Inv == QueueOrdered /\ ShownOnce /\
  ShownHeads` (the last: once something of a turn
  passed the line, every older turn is out of it), one lemma
  per action; `OrderKept` from it.
- `PeerDeliveryProofs`: `TypeCorrect` of `PeerTurns`, one lemma per group of actions, with
  `SettleTypes` for the effect that most of them share; `Invariance` of
  `IInv == TypeOK /\ Entered /\ Timers /\ Submitting /\ Counted /\ Promise!Inv`, and from it
  `Refinement` (`Spec => ImplementsDelivery`), `SettledOnceAlways`,
  `ClosedWhenCompleteAlways`, `LineHoldsOpenTurnsAlways`, `GatedOrderAlways`.

Why `IInv` is needed: `SettledOnce` is not inductive, since nothing in it says that the
turn a timer or the submitter is about to retire is still open when it does. `Entered`
says that a turn not yet submitted, or refused, has no task, no result and no place in a
controller's selection; `Timers` that a sleeping or waiting timer belongs to an open turn;
`Submitting` that the turn in submission is the newest, has no task yet, and is open and not in
the line while the admission lock is held. `Counted` is `SettledOnce` with
`ClosedWhenComplete`. `Promise!Inv` is the abstract invariant of the mapped state, so the
ordering facts are proved once, in the abstract module. The refinement then needs one
lemma per kind of step: a submission maps to `Enter`, an admission to `TakePlace`, settling
children to `Deliver`, `Retire` or `GiveUp` according to what is shown, a generation change
to `Flush`, and every other step to stuttering.

- `PeerAccountingProofs`: `ChannelInvariance`, `TaskInvariance` and `CalmInvariance`, three invariants beside
  `IInv`; from them `DrainedWhenShutAlways`, `ChildrenInOrderAlways`, `NothingTranslatedAfterCancelAlways`,
  `OverflowVictimNeverWaitsAlways`, `WaitingBoundedAlways`, `SlotAccountingAlways`, `ActiveAccountingAlways`.
- `OutputBatchesProofs`: `Invariance` of `IInv == TypeOK /\ Submitted /\ \A s : line[s] \in Sound /\ InPlace(s)
  /\ Remembered(s)`, and from it `TypeCorrect`, `Stranded`, `Bytes`, `Ranges`, `SameOrder` and `Implements`
  (`Spec => ImplementsLine`).
- `SelfTurnsProofs`: `TypeCorrect` and `TypeOKAlways`; `TallyInvariance`, and from it `SettledOnceAlways`;
  `FreshResultsAlways`; `CallsOwnedAlways`; `EndsInvariance`, and from it `SlotAccountingAlways` and
  `DrainedWhenShutAlways`; `NoIdleSpeculationAlways`; `WaitingBoundedAlways`.
- `ToggleControlProofs`: `TypeCorrect`; `Invariance` of `Inv`, and from it `NoLockLeaksAlways`,
  `OnlyMatchingStopOverlapsAlways` and `InterruptedStartFailsAlways`, for every number of calls.
- `SettingsCommitsProofs`: `TypeCorrect`, `ToldInOrder`, `NoCommitIsLost`, for any threads, fields and
  number of edits.

Of the accounts, `DrainedWhenShut` looks at one moment, when no call is under way, and needs to be told what a
call owes until then: `Covered` says that behind a closed ingress every open turn was selected by a
closing call, or one has yet to select; `Called` that there is one closing at a time and that idle calls are
blank. `Told` (a run of a cancelled turn has the cancellation to come) and `Emptied` (a blocked channel has an empty line)
are what keeps a translation from appearing after a cancellation: the run shows nothing while it is being
cancelled, and has no place to show it at. `Behind` says that a turn that waits in the line has all later open turns
behind it; with `Fits`, the length of the line, it bounds how far an overload victim can be from the head, and the
submitter finds it either evicted or at the head. `TurnTasks` says what the children of a turn may be doing given where
its run is; nothing weaker tells that a call that ends had a slot. The slots are then counted: a step changes the set
of calls alive by one, and the number with it. The active slots are exact only until a controller calls; `Calm` lists what
cannot have happened by then (a run killed while it ends), and `ActiveInv` bounds the count from below for ever.

Of the batches, an operation is a composition: an admission releases waiting batches until the new one fits, then
charges it, then appends it; a generation releases a set of batches one by one, promoting a successor each time. The
invariant is therefore stated of a single line first. `Sound` holds the lines with `Placed` (queue, charged batches and
waiting batches are the same keys, each once), the limit on those that wait, `InOrder` (parents stand in turn order) and
`Charged` (the budget is the sum of what is held); each operator of the model takes a sound line to a
sound one (`ReleaseSound`, `RelievedEffect`, `InsertSound`, `ResizedSound`, `RegisteredSound`, `ReleaseAllEffect`).
The rest relates a line to the other variables. `Submitted` says that parents come in order, `InPlace` that
what stands in a line was submitted, has this origin and is of no generation to come: the first is why a new parent may
go behind the others, the last why retiring a generation leaves nothing of the line. `Remembered` is `RangesExact` with the orders as arbitrary naturals, which is the form in which merging a new order
with its neighbours keeps it (`JoinMerges`, `WithOrderExact`). `SameOrderEverywhere` is no invariant of two lines in the
proof: that each line is in turn order gives it at once. `Implements` comes from the description of a step (`LineMoves`),
which says beside all this that the queue makes a step of `OutputLine`; when another batch fits in the bytes, pressure is by
number alone and one eviction relieves it (`LineAdmits`).

The operators of `OutputBatches` are folds, and what a fold computes is not a matter of expanding a definition. A fold of
the library is a `CHOOSE` of a function on the sets below its domain, so its recursion is known only once such a function
exists. `FoldTable` shows that it does, on sets of one element more at a time; `SequenceTable` and `SumTable` are its
cases for a sequence and for a sum. What holds after every round of a fold follows from `Rounds`: a set with 0, and with *i* whenever it has *i - 1*, holds all of 0 to *n*, since the least
number outside it would contradict that. A fold's invariant is thus a set of values, one per round, that the
accumulator stays in (`JoinRounds`, `SweepRounds`, `ReliefRounds`). For the bytes, `TotalWithout` says what one batch
contributes to the sum whatever order the keys are taken in.

Of the self turns, no property is inductive by itself, because four parties may settle a turn and three of them act on
lists made some steps ago. `Types` adds to `TypeOK` that those lists are not empty (`Smallest` of an empty one would be any
turn). `Ordered` and `Courses` relate record, commit and run of one turn: a run goes beyond waiting only
when its turn is sealed, and goes on only while the turn is open or a cancellation is to come. `SealHeads`,
`RunHeads` and `Timers` say that whoever retires a turn has given its verdict first, and waits for a run only when the turn is
closed; `Cuts` where an undelivered cancellation can come from. With these (`Judged`) a step is described once, in
lemmas for all later arguments: what it may do to an operation (`Started`, `Advanced`, `Forgotten`), to a run
(`RunMove`, `ExitMove`) and to a slot (`Takes`, `Returns`).

- `SettledOnce` needs `Told`: a run has published exactly the children that are complete. That is why a
  retirement, which settles what remains, cannot settle a child that its run shows too.
- `FreshResults` needs `Latest`: the operations of a turn are those of its latest revision, and none is dropped once its
  result is shown.
- `CallsOwned` needs `Owned`: a run executes with a slot, with a verdict, or with nothing left to ask.
- `SlotAccounting` needs `Account` for the count; its third conjunct needs `Exits` (how runs end), and with it `Awaited` (a
  turn being cancelled is one a call waits for), `Unlocked` (without manual submissions nobody waits for the
  admission lock) and `Barred` (what is open behind a block is being cancelled or about to be), from which
  `DrainedWhenShut` follows too.
- `NoIdleSpeculation` speaks of the current buffer: `Paced` says that it is the newest, `Deaf` and `Stale` that
  behind a block or a closing ingress a draft nobody committed is of an earlier generation, and `Dropped` that a draft whose
  run ends is being cancelled. The rest is a case split on what a step does to the speculation.
- `WaitingBounded` says that those who wait are few beside those that somebody is going to retire, but a list of
  turns to retire may be dropped: a run that is cancelled forgets its own. `Bounded` therefore bounds,
  for every set of turns, who is left if only the lists of the *other* turns are carried out and the
  set itself is gone; a run whose list is dropped is of a turn that waits no more either (`Gone`, `Cuts`), and so
  belongs to such a set. Only a seal and a run that gives up its speculation add to those who wait; each does so with
  a new list, of all beyond the newest (`OldestLeft`).

Of the toggles' `Inv`, `Ways` relates locks to phases (who is inside holds both locks or interrupts a start);
`StartHolds` and `Interrupts` say that the start under way holds the locks and that every stop without them interrupts
that start or one that is over: this is what keeps two strangers out. `Marked`, `Told`, `NoLateSuccess` and `Unsuccessful` follow one
start through its interruption: a stop that was applied has marked it, the last stop to leave has cancelled it, and
if it is over with stops still registered it did not succeed. A mark alone does not suffice, because an orphaned stop
may mark a start it never joined; `Told` therefore speaks of stops that were applied. The starts that
were still queueing need a second invariant beside `Inv`, `Fenced`: the fence is not older than a stop that was carried out,
and a start inside is newer than the fence or marked. `Inv` says nothing of the
queues: who is next plays no part in safety. That they stay sequences of calls is part of `TypeCorrect`.

Of the settings, order needs only `Queued` (the commits not told yet are those in line, numbered on from
the last one told) and `LoopHere` (a loop that stopped is not in the middle of draining). `NoCommitIsLost` needs to
know, for each step of the commit that holds the lock, where the good value of a field is: in the rollback snapshot
until the file is written, in the thread's own snapshot afterwards (`Kept`); `Locked`, that only one thread is
there; and `Numbered`, that values only grow, so that a rebase can tell what the edit changed from what it had
read (`RebaseChanges`).

Only model-checked: liveness under fairness, which is beyond the prover's reach, as is `ENABLED`. This concerns
`EveryTurnCloses`, `SubmitReturns`, `CallsReturn`, `SealedTurnsClose`, `StopReachesStart`, `InterruptedStartEnds` and
`EveryCommitNotified`, and the absence of deadlock in the runs that check for it. Every invariant of
a passing run, and both refinements, are theorems.

## 7. Not modelled

Of the output batches: the preview scope and the coalescing of captions, the limit of remembered terminal
batches, and the delivery itself. Of the application control: request identities and the eviction of finished
operations, receipts, the selection intent of a translation preparation, queries, and what the commands do. Of the
settings: `start`, `save_current` and `persist_current`, the verification of the telemetry preference, the guards of
the patch repository, listeners that raise, and the overlay and peer flags.

Of the self half: raising callbacks, `republish_draft`, cancellation of the whole owner and
`close`, the four timers of the merge buffer (`SelfTurns` lets a revision or a commit come at
any time), two overlapping commits, and provider replacement, for which an incompatible
revision stands. A publication of a draft suspends only where something is read again
afterwards, as the module's header says.

Beyond that, the components marked so in `PROJECT.json`, with their reasons. In short: those in the plan
are not modelled *yet*; capture and audio depend on devices and data; the broker and the
native workers are programs of their own; accounts, VRChat, overlays, local models, the
control host, diagnostics and the UI are I/O, processes or presentation around an owner
with little concurrency of its own.
