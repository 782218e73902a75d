---------------------------- MODULE SettingsCommits ----------------------------
(***************************************************************************)
(* SettingsOwner (app/services/canonical_settings_persistence.py): the one       *)
(* owner of the persisted settings.  Edits are committed by worker threads of     *)
(* run_owned_thread_call and by the event-loop thread itself; every commit       *)
(* holds _commit_lock while it rebases its change, writes the file and           *)
(* enqueues a publication, and rolls back if the file cannot be written.         *)
(* The observer is told afterwards, on the event loop only, under a second lock   *)
(* and one publication at a time.                                                 *)
(*                                                                         *)
(* Settings are a function of fields; the value of a field is the number of the   *)
(* edit that set it.  The file is written whole or not at all (the persistence    *)
(* adapter's business).  What an observer does, the diagnostics and the           *)
(* overlay and peer flags are left out; so are start() and save_current(), which  *)
(* commit what is canonical already.                                              *)
(***************************************************************************)
EXTENDS Naturals, Sequences

CONSTANTS
    Worker,      \* worker threads with a commit to make
    Loop,        \* the event-loop thread (_commit_thread)
    NoThread,    \* nobody: _commit_lock is free
    Field,       \* independent parts of the settings
    MaxEdits     \* bound: edits asked for

ASSUME ThreadAssumption == Loop \notin Worker /\ NoThread \notin Worker \cup {Loop}
ASSUME EditAssumption == MaxEdits \in Nat /\ Field # {}

Thread == Worker \cup {Loop}
Settings == [Field -> 0 .. MaxEdits]

VARIABLES
    canonical,    \* canonical: read by anybody at any time
    committed,    \* committed_settings
    disk,         \* the settings file
    rollback,     \* _rollback_snapshot (Untouched for None)
    lock,         \* holder of _commit_lock
    pc,           \* where each thread is
    edit,         \* the change each thread has to commit
    copied,       \* the snapshot each thread writes and publishes
    number,       \* and its place among the commits
    line,         \* _publications, by number
    ready,        \* those whose commit has given up the lock
    publishing,   \* _publishing
    posted,       \* call_soon_threadsafe(_drain_publications) is to run
    loop,         \* _commit_loop: running, stopped, or closed
    edits,        \* edits so far (bounded by MaxEdits)
    commits,      \* commits so far
    seen,         \* what the observer was told, in order
    latest,       \* history: the last edit of each field whose commit succeeded
    overwritten   \* history: fields an unlocked assignment may have put back

settingsVars == <<canonical, committed, disk, rollback>>
queueVars == <<line, ready, publishing, posted>>
historyVars == <<latest, overwritten>>
vars == <<settingsVars, lock, pc, edit, copied, number, queueVars, loop, edits, commits,
          seen, historyVars>>

Edit == [field : Field, value : 0 .. MaxEdits, base : Settings, capture : BOOLEAN]
Untouched == [f \in Field |-> 0]
NoEdit == [field |-> CHOOSE f \in Field : TRUE, value |-> 0, base |-> Untouched, capture |-> FALSE]

TypeOK ==
    /\ canonical \in Settings /\ committed \in Settings /\ disk \in Settings
    /\ rollback \in Settings /\ latest \in Settings
    /\ lock \in Thread \cup {NoThread}
    /\ pc \in [Thread -> {"idle", "asked", "applied", "copied", "stored", "release",
                          "dispatch", "drain", "assign"}]
    /\ edit \in [Thread -> Edit]
    /\ copied \in [Thread -> Settings]
    /\ number \in [Thread -> Nat]
    /\ line \in Seq(Nat) /\ seen \in Seq(Nat)
    /\ ready \subseteq Nat
    /\ publishing \in BOOLEAN /\ posted \in BOOLEAN
    /\ loop \in {"running", "stopped", "closed"}
    /\ edits \in 0 .. MaxEdits
    /\ commits \in Nat
    /\ overwritten \subseteq Field

Init ==
    /\ canonical = Untouched /\ committed = Untouched /\ disk = Untouched
    /\ rollback = Untouched /\ latest = Untouched /\ overwritten = {}
    /\ lock = NoThread
    /\ pc = [t \in Thread |-> "idle"]
    /\ edit = [t \in Thread |-> NoEdit]
    /\ copied = [t \in Thread |-> Untouched]
    /\ number = [t \in Thread |-> 0]
    /\ line = <<>> /\ ready = {} /\ publishing = FALSE /\ posted = FALSE
    /\ loop = "running"
    /\ edits = 0 /\ commits = 0
    /\ seen = <<>>

-------------------------------------------------------------------------------
At(t, s) == pc[t] = s
Goto(t, s) == pc' = [pc EXCEPT ![t] = s]

\* A task asks for a change of what it reads as the settings now.  A worker is handed
\* it by run_owned_thread_call; the loop thread commits in place, and one of its
\* commits is PeerCaptureTargetApplicationOwner.apply.
Ask(t) ==
    /\ At(t, "idle") /\ At(Loop, "idle") /\ loop = "running"
    /\ edits < MaxEdits
    /\ edits' = edits + 1
    /\ \E f \in Field, capture \in BOOLEAN :
          /\ capture => t = Loop
          /\ edit' = [edit EXCEPT ![t] = [field |-> f, value |-> edits', base |-> canonical,
                                          capture |-> capture]]
    /\ Goto(t, "asked")
    /\ UNCHANGED <<settingsVars, lock, copied, number, queueVars, loop, commits, seen,
                   historyVars>>

\* Mutant: what the task read is committed whole.
RebaseNothing(live, e) == [e.base EXCEPT ![e.field] = e.value]

\* apply_canonical_delta: what the edit changed, on top of the settings of now.
Rebase(live, e) ==
    LET base == IF e.capture THEN live ELSE e.base
        next == [base EXCEPT ![e.field] = e.value]
    IN  [f \in Field |-> IF next[f] # base[f] THEN next[f] ELSE live[f]]

\* begin and apply_canonical_delta: the change can be read before it is written.
Begin(t) ==
    /\ At(t, "asked") /\ lock = NoThread
    /\ lock' = t
    /\ rollback' = canonical
    /\ canonical' = Rebase(canonical, edit[t])
    /\ Goto(t, "applied")
    /\ UNCHANGED <<committed, disk, edit, copied, number, queueVars, loop, edits, commits,
                   seen, historyVars>>

Rollback == canonical' = rollback

\* What ends a commit that failed.
Fail(t) ==
    /\ Rollback
    /\ rollback' = Untouched
    /\ lock' = NoThread
    /\ Goto(t, "idle")
    /\ UNCHANGED <<committed, disk, edit, copied, number, queueVars, loop, edits,
                   commits, seen, historyVars>>

\* _persist_locked: a worker's commit fails if the observer could not be told.
Refused(t) == t # Loop /\ loop # "running"
Refuse(t) ==
    /\ At(t, "applied") /\ Refused(t)
    /\ Fail(t)

Copy(t) ==
    /\ At(t, "applied") /\ ~Refused(t)
    /\ copied' = [copied EXCEPT ![t] = canonical]
    /\ Goto(t, "copied")
    /\ UNCHANGED <<settingsVars, lock, edit, number, queueVars, loop, edits, commits, seen,
                   historyVars>>

WriteFails(t) ==
    /\ At(t, "copied")
    /\ Fail(t)

\* The file is written and _enqueue_commit_locked.
Write(t) ==
    /\ At(t, "copied")
    /\ disk' = copied[t]
    /\ committed' = copied[t]
    /\ commits' = commits + 1
    /\ number' = [number EXCEPT ![t] = commits']
    /\ line' = Append(line, commits')
    /\ latest' = [latest EXCEPT ![edit[t].field] = edit[t].value]
    /\ Goto(t, "stored")
    /\ UNCHANGED <<canonical, rollback, lock, edit, copied, ready, publishing, posted, loop,
                   edits, seen, overwritten>>

Complete(t) ==
    /\ At(t, "stored")
    /\ canonical' = copied[t]
    /\ rollback' = Untouched
    /\ lock' = NoThread
    /\ Goto(t, "release")
    /\ UNCHANGED <<committed, disk, edit, copied, number, queueVars, loop, edits,
                   commits, seen, historyVars>>

-------------------------------------------------------------------------------
(* Publication.                                                            *)

\* _release_publication
Release(t) ==
    /\ At(t, "release")
    /\ ready' = ready \cup {number[t]}
    /\ Goto(t, "dispatch")
    /\ UNCHANGED <<settingsVars, lock, edit, copied, number, line, publishing, posted, loop,
                   edits, commits, seen, historyVars>>

\* Where a thread goes that has published: the capture target is then assigned.
After(t) == IF edit[t].capture THEN "assign" ELSE "idle"

\* Mutant: the first publication that is ready goes first.
FirstReady ==
    LET I == {i \in DOMAIN line : line[i] \in ready}
    IN  IF I = {} THEN <<>> ELSE
        LET i == CHOOSE i \in I : \A j \in I : i <= j
        IN  <<line[i], SubSeq(line, 1, i - 1) \o SubSeq(line, i + 1, Len(line))>>

\* The publication to be told and those it leaves, or nothing: the oldest commit
\* goes first or not at all.
Due == IF line # <<>> /\ Head(line) \in ready THEN <<Head(line), Tail(line)>> ELSE <<>>

\* _dispatch_publications: one thread at a time publishes; the loop thread does so in
\* place, another posts it to the loop and, if that is closed, gives up all there is.
Dispatch(t) ==
    /\ At(t, "dispatch")
    /\ \/ /\ publishing \/ line = <<>>
          /\ Goto(t, After(t))
          /\ UNCHANGED queueVars
       \/ /\ ~publishing /\ line # <<>> /\ t = Loop
          /\ publishing' = TRUE
          /\ Goto(t, "drain")
          /\ UNCHANGED <<line, ready, posted>>
       \/ /\ ~publishing /\ line # <<>> /\ t # Loop /\ loop # "closed"
          /\ publishing' = TRUE
          /\ posted' = TRUE
          /\ Goto(t, "idle")
          /\ UNCHANGED <<line, ready>>
       \/ /\ ~publishing /\ line # <<>> /\ t # Loop /\ loop = "closed"
          /\ line' = <<>>
          /\ Goto(t, "idle")
          /\ UNCHANGED <<ready, publishing, posted>>
    /\ UNCHANGED <<settingsVars, lock, edit, copied, number, loop, edits, commits, seen,
                   historyVars>>

Posted ==
    /\ posted /\ At(Loop, "idle") /\ loop = "running"
    /\ posted' = FALSE
    /\ Goto(Loop, "drain")
    /\ edit' = [edit EXCEPT ![Loop] = NoEdit]
    /\ UNCHANGED <<settingsVars, lock, copied, number, line, ready, publishing, loop,
                   edits, commits, seen, historyVars>>

\* _drain_publications: one turn of its loop.
Drain ==
    /\ At(Loop, "drain") /\ Due # <<>>
    /\ seen' = Append(seen, Due[1])
    /\ line' = Due[2]
    /\ UNCHANGED <<settingsVars, lock, pc, edit, copied, number, ready, publishing, posted,
                   loop, edits, commits, historyVars>>

\* Mutant: the next dispatch believes somebody is still publishing.
DrainForever ==
    /\ At(Loop, "drain") /\ Due = <<>>
    /\ Goto(Loop, After(Loop))
    /\ UNCHANGED <<settingsVars, lock, edit, copied, number, queueVars, loop, edits,
                   commits, seen, historyVars>>

DrainEnds ==
    /\ At(Loop, "drain") /\ Due = <<>>
    /\ publishing' = FALSE
    /\ Goto(Loop, After(Loop))
    /\ UNCHANGED <<settingsVars, lock, edit, copied, number, line, ready, posted, loop,
                   edits, commits, seen, historyVars>>

\* PeerCaptureTargetApplicationOwner.apply assigns what its commit returned, without
\* the lock: the commits that succeeded since, and one that has its change in the
\* canonical settings and not yet in its snapshot, are undone there.
Assign ==
    /\ At(Loop, "assign")
    /\ canonical' = copied[Loop]
    /\ overwritten' = overwritten
           \cup {f \in Field : latest[f] # copied[Loop][f]}
           \cup {edit[t].field : t \in {u \in Thread : u = lock /\ At(u, "applied")}}
    /\ Goto(Loop, "idle")
    /\ UNCHANGED <<committed, disk, rollback, lock, edit, copied, number, queueVars, loop,
                   edits, commits, seen, latest>>

-------------------------------------------------------------------------------
LoopStops ==
    /\ loop = "running" /\ At(Loop, "idle")
    /\ loop' = "stopped"
    /\ UNCHANGED <<settingsVars, lock, pc, edit, copied, number, queueVars, edits, commits,
                   seen, historyVars>>

LoopCloses ==
    /\ loop = "stopped"
    /\ loop' = "closed"
    /\ UNCHANGED <<settingsVars, lock, pc, edit, copied, number, queueVars, edits, commits,
                   seen, historyVars>>

\* Nothing is left to commit or to publish.
Rest ==
    /\ \A t \in Thread : At(t, "idle")
    /\ edits = MaxEdits \/ loop # "running"
    /\ UNCHANGED vars

Step(t) == Begin(t) \/ Refuse(t) \/ Copy(t) \/ WriteFails(t) \/ Write(t) \/ Complete(t)
           \/ Release(t) \/ Dispatch(t)
Publish == Posted \/ Drain \/ DrainEnds \/ Assign

Next ==
    \/ \E t \in Thread : Ask(t) \/ Step(t)
    \/ Publish
    \/ LoopStops \/ LoopCloses \/ Rest

Spec == Init /\ [][Next]_vars

\* The operating system runs every thread that can run, _commit_lock is given to
\* some thread that asks for it, and a running loop runs what was posted to it.
Fairness == WF_vars((\E t \in Thread : Step(t)) \/ Publish)
FairSpec == Spec /\ Fairness

-------------------------------------------------------------------------------
(* Properties.                                                             *)

\* The observer is told of every commit, in the order of the commits, none twice and
\* none left out before a later one, whichever threads enqueue, release and drain.
NotifiedInOrder == \A i \in DOMAIN seen : seen[i] = i

\* While nobody commits, the settings that are read, those that were last committed
\* and the file agree, and hold for every field the last edit whose commit succeeded:
\* a commit made from an older reading undoes nothing, a failed one leaves nothing
\* behind.  The exception is what the unlocked assignment of a capture target put back.
NothingLost ==
    lock = NoThread =>
        \A f \in Field \ overwritten :
            latest[f] = canonical[f] /\ latest[f] = committed[f] /\ latest[f] = disk[f]

\* No wake-up is lost between the two locks: a commit is told unless the loop stops.
EveryCommitNotified ==
    \A n \in 1 .. MaxEdits :
        commits >= n ~> (\E i \in DOMAIN seen : seen[i] = n) \/ loop # "running"
================================================================================
