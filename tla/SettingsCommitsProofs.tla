------------------------- MODULE SettingsCommitsProofs -------------------------
(***************************************************************************)
(* SettingsCommits for any number of threads, fields and edits: its types,      *)
(* the order in which the observer is told, and that no commit is lost.         *)
(***************************************************************************)
EXTENDS SettingsCommits, TLAPS

-------------------------------------------------------------------------------
(* Types.                                                                  *)

\* What a commit makes of the settings are settings.
LEMMA RebaseType ==
    ASSUME NEW live \in Settings, NEW e \in Edit
    PROVE  Rebase(live, e) \in Settings
<1> DEFINE base == IF e.capture THEN live ELSE e.base
           next == [base EXCEPT ![e.field] = e.value]
<1>1. e.field \in Field /\ e.value \in 0 .. MaxEdits /\ base \in Settings
  BY DEF Edit
<1>2. next \in Settings
  BY <1>1 DEF Settings
<1>3. \A f \in Field : (IF next[f] # base[f] THEN next[f] ELSE live[f]) \in 0 .. MaxEdits
  BY <1>2 DEF Settings
<1>. QED
  BY <1>3 DEF Rebase, Settings

\* No edit is an edit.
LEMMA NoEditType == Untouched \in Settings /\ NoEdit \in Edit
<1>1. Untouched \in Settings
  BY EditAssumption DEF Untouched, Settings
<1>2. (CHOOSE f \in Field : TRUE) \in Field
  BY EditAssumption
<1>. QED
  BY <1>1, <1>2, EditAssumption DEF NoEdit, Edit

LEMMA TypeInit == Init => TypeOK
<1> SUFFICES ASSUME Init PROVE TypeOK
  OBVIOUS
<1>1. /\ canonical \in Settings /\ committed \in Settings /\ disk \in Settings
      /\ rollback \in Settings /\ latest \in Settings
      /\ edit \in [Thread -> Edit] /\ copied \in [Thread -> Settings]
  BY NoEditType DEF Init
<1>2. edits \in 0 .. MaxEdits /\ line \in Seq(Nat) /\ seen \in Seq(Nat)
  BY EditAssumption DEF Init
<1>. QED
  BY <1>1, <1>2 DEF Init, TypeOK

\* Every step keeps the types.
LEMMA TypeNext == TypeOK /\ [Next]_vars => TypeOK'
<1> SUFFICES ASSUME TypeOK, [Next]_vars PROVE TypeOK'
  OBVIOUS
<1>. USE DEF TypeOK, Goto, settingsVars, queueVars, historyVars
<1>1. ASSUME NEW t \in Thread, Ask(t) PROVE TypeOK'
  <2>1. edits' \in 0 .. MaxEdits
    BY <1>1, EditAssumption DEF Ask
  <2>2. edit' \in [Thread -> Edit]
    BY <1>1, <2>1 DEF Ask, Edit
  <2>. QED
    BY <1>1, <2>1, <2>2 DEF Ask
<1>2. ASSUME NEW t \in Thread, Begin(t) PROVE TypeOK'
  <2>1. canonical' \in Settings
    BY <1>2, RebaseType DEF Begin
  <2>. QED
    BY <1>2, <2>1 DEF Begin
<1>3. ASSUME NEW t \in Thread, Fail(t) PROVE TypeOK'
  BY <1>3, NoEditType DEF Fail, Rollback
<1>4. ASSUME NEW t \in Thread, Copy(t) PROVE TypeOK'
  BY <1>4 DEF Copy
<1>5. ASSUME NEW t \in Thread, Write(t) PROVE TypeOK'
  <2>1. commits' \in Nat /\ line' \in Seq(Nat) /\ number' \in [Thread -> Nat]
    <3>1. commits' \in Nat
      BY <1>5 DEF Write
    <3>. QED
      BY <1>5, <3>1 DEF Write
  <2>2. latest' \in Settings
    BY <1>5 DEF Write, Settings, Edit
  <2>. QED
    BY <1>5, <2>1, <2>2 DEF Write
<1>6. ASSUME NEW t \in Thread, Complete(t) PROVE TypeOK'
  BY <1>6, NoEditType DEF Complete
<1>7. ASSUME NEW t \in Thread, Release(t) PROVE TypeOK'
  BY <1>7 DEF Release
<1>8. ASSUME NEW t \in Thread, Dispatch(t) PROVE TypeOK'
  <2>1. /\ pc' \in [Thread -> {"idle", "asked", "applied", "copied", "stored", "release",
                              "dispatch", "drain", "assign"}]
        /\ line' \in Seq(Nat) /\ ready' = ready
        /\ publishing' \in BOOLEAN /\ posted' \in BOOLEAN
    <3>1. After(t) \in {"idle", "assign"}
      BY DEF After
    <3>2. CASE publishing \/ line = <<>>
      BY <1>8, <3>1, <3>2 DEF Dispatch
    <3>3. CASE ~publishing /\ line # <<>>
      <4>1. CASE t = Loop
        BY <1>8, <3>3, <4>1 DEF Dispatch
      <4>2. CASE t # Loop /\ loop # "closed"
        BY <1>8, <3>3, <4>2 DEF Dispatch
      <4>3. CASE t # Loop /\ loop = "closed"
        <5>1. line' = <<>> /\ Goto(t, "idle")
          BY <1>8, <3>3, <4>3 DEF Dispatch
        <5>2. <<>> \in Seq(Nat)
          OBVIOUS
        <5>. QED
          BY <1>8, <3>3, <4>3, <5>1, <5>2 DEF Dispatch
      <4>. QED
        BY <4>1, <4>2, <4>3
    <3>. QED
      BY <3>2, <3>3
  <2>. QED
    BY <1>8, <2>1 DEF Dispatch
<1>9. ASSUME Posted PROVE TypeOK'
  BY <1>9, NoEditType DEF Posted
<1>10. ASSUME Drain PROVE TypeOK'
  <2>1. line # <<>> /\ Due = <<Head(line), Tail(line)>>
    BY <1>10 DEF Drain, Due
  <2>2. Head(line) \in Nat /\ Tail(line) \in Seq(Nat)
    BY <2>1
  <2>. QED
    BY <1>10, <2>1, <2>2 DEF Drain
<1>11. ASSUME DrainEnds PROVE TypeOK'
  BY <1>11 DEF DrainEnds, After
<1>12. ASSUME Assign PROVE TypeOK'
  <2>1. overwritten' \subseteq Field
    BY <1>12 DEF Assign, Edit
  <2>. QED
    BY <1>12, <2>1 DEF Assign, Thread
<1>13. ASSUME LoopStops \/ LoopCloses PROVE TypeOK'
  BY <1>13 DEF LoopStops, LoopCloses
<1>14. CASE UNCHANGED vars
  BY <1>14 DEF vars
<1>. QED
  BY <1>1, <1>2, <1>3, <1>4, <1>5, <1>6, <1>7, <1>8, <1>9, <1>10, <1>11, <1>12, <1>13,
     <1>14 DEF Next, Step, Publish, Refuse, WriteFails, Rest

\* The variables have their types, whatever the threads do.
THEOREM TypeCorrect == Spec => []TypeOK
<1>. QED
  BY TypeInit, TypeNext, PTL DEF Spec

-------------------------------------------------------------------------------
(* The observer.                                                           *)

\* A loop that does not run is in the middle of nothing.
LoopHere == loop # "running" => pc[Loop] = "idle"

\* Until the loop is closed the commits not told yet are in line, oldest first.
Queued ==
    loop # "closed" =>
        /\ commits = Len(seen) + Len(line)
        /\ \A i \in DOMAIN line : line[i] = Len(seen) + i

OrderInv == TypeOK /\ LoopHere /\ Queued /\ NotifiedInOrder

\* The line and what the observer was told change only where a commit is
\* enqueued, told or given up.
LEMMA OrderKept ==
    ASSUME OrderInv, TypeOK', LoopHere', line' = line, seen' = seen, commits' = commits,
           loop = "closed" => loop' = "closed"
    PROVE  OrderInv'
BY DEF OrderInv, Queued, NotifiedInOrder

\* Every step keeps the order.
LEMMA OrderNext == OrderInv /\ [Next]_vars => OrderInv'
<1> SUFFICES ASSUME OrderInv, [Next]_vars PROVE OrderInv'
  OBVIOUS
<1>0. TypeOK /\ TypeOK'
  BY TypeNext DEF OrderInv
<1>. USE DEF Goto, At, settingsVars, queueVars, historyVars
<1>9. /\ line \in Seq(Nat) /\ seen \in Seq(Nat) /\ commits \in Nat
      /\ Len(line) \in Nat /\ DOMAIN line = 1 .. Len(line)
      /\ Len(seen) \in Nat /\ DOMAIN seen = 1 .. Len(seen)
  BY <1>0 DEF TypeOK
<1>1. LoopHere'
  BY <1>0 DEF OrderInv, LoopHere, TypeOK, Thread, Next, Step, Publish, Ask, Begin, Refuse, Copy,
         WriteFails, Fail, Write, Complete, Release, Dispatch, Posted, Drain, DrainEnds,
         Assign, LoopStops, LoopCloses, Rest, vars
<1>2. ASSUME NEW t \in Thread, Write(t) PROVE OrderInv'
  <2>1. /\ commits' = commits + 1 /\ line' = Append(line, commits + 1)
        /\ seen' = seen /\ loop' = loop
    BY <1>2 DEF Write
  <2>2. Len(line') = Len(line) + 1 /\ DOMAIN line' = 1 .. Len(line) + 1
        /\ line'[Len(line) + 1] = commits + 1
        /\ \A i \in 1 .. Len(line) : line'[i] = line[i]
    BY <1>9, <2>1
  <2>3. Queued'
    <3>1. SUFFICES ASSUME loop # "closed"
                   PROVE  /\ commits + 1 = Len(seen) + (Len(line) + 1)
                          /\ \A i \in 1 .. Len(line) + 1 : line'[i] = Len(seen) + i
      BY <2>1, <2>2 DEF Queued
    <3>2. /\ commits = Len(seen) + Len(line)
          /\ \A i \in 1 .. Len(line) : line[i] = Len(seen) + i
      BY <1>9, <3>1 DEF OrderInv, Queued
    <3>3. Len(line) \in Nat /\ Len(seen) \in Nat
      BY <1>9
    <3>4. ASSUME NEW i \in 1 .. Len(line) + 1 PROVE line'[i] = Len(seen) + i
      <4>1. i = Len(line) + 1 \/ i \in 1 .. Len(line)
        BY <3>3
      <4>2. CASE i = Len(line) + 1
        BY <2>2, <3>2, <3>3, <4>2
      <4>3. CASE i \in 1 .. Len(line)
        BY <2>2, <3>2, <4>3
      <4>. QED
        BY <4>1, <4>2, <4>3
    <3>. QED
      BY <3>2, <3>3, <3>4
  <2>4. NotifiedInOrder'
    BY <2>1 DEF OrderInv, NotifiedInOrder
  <2>. QED
    BY <1>0, <1>1, <2>3, <2>4 DEF OrderInv
<1>3. ASSUME NEW t \in Thread, Dispatch(t) PROVE OrderInv'
  <2>1. CASE line' = line
    BY <1>0, <1>1, <1>3, <2>1, OrderKept DEF Dispatch
  <2>2. CASE line' # line
    <3>1. loop = "closed" /\ loop' = "closed" /\ seen' = seen
      BY <1>3, <2>2 DEF Dispatch
    <3>. QED
      BY <1>0, <1>1, <3>1 DEF OrderInv, Queued, NotifiedInOrder
  <2>. QED
    BY <2>1, <2>2
<1>4. ASSUME Drain PROVE OrderInv'
  <2>1. line # <<>> /\ Due = <<Head(line), Tail(line)>> /\ loop = "running"
    BY <1>4 DEF Drain, Due, OrderInv, LoopHere
  <2>2. /\ seen' = Append(seen, Head(line)) /\ line' = Tail(line)
        /\ commits' = commits /\ loop' = loop
    BY <1>4, <2>1 DEF Drain
  <2>3. Head(line) = line[1] /\ Len(line) > 0 /\ 1 \in DOMAIN line
    BY <1>9, <2>1
  <2>4. Head(line) = Len(seen) + 1
    BY <2>1, <2>3 DEF OrderInv, Queued
  <2>5. /\ Len(line') = Len(line) - 1
        /\ DOMAIN line' = 1 .. Len(line) - 1
        /\ \A i \in 1 .. Len(line) - 1 : line'[i] = line[i + 1]
    BY <1>9, <2>1, <2>2, <2>3
  <2>6. /\ Len(seen') = Len(seen) + 1
        /\ DOMAIN seen' = 1 .. Len(seen) + 1
        /\ seen'[Len(seen) + 1] = Head(line)
        /\ \A i \in 1 .. Len(seen) : seen'[i] = seen[i]
    BY <1>9, <2>2, <2>3
  <2>7. Queued'
    <3>1. /\ commits = Len(seen) + Len(line)
          /\ \A i \in 1 .. Len(line) : line[i] = Len(seen) + i
      BY <1>9, <2>1 DEF OrderInv, Queued
    <3>2. commits' = Len(seen') + Len(line')
      <4>1. Len(seen') = Len(seen) + 1 /\ Len(line') = Len(line) - 1 /\ commits' = commits
        BY <2>2, <2>5, <2>6
      <4>2. commits = Len(seen) + Len(line) /\ Len(line) \in Nat /\ Len(seen) \in Nat
        BY <1>9, <3>1
      <4>. QED
        BY <4>1, <4>2
    <3>3. ASSUME NEW i \in 1 .. Len(line) - 1 PROVE line'[i] = Len(seen') + i
      <4>1. line'[i] = line[i + 1] /\ i + 1 \in 1 .. Len(line)
        BY <1>9, <2>5
      <4>2. line[i + 1] = Len(seen) + (i + 1)
        BY <3>1, <4>1
      <4>. QED
        BY <1>9, <2>6, <4>1, <4>2
    <3>. QED
      BY <2>5, <3>2, <3>3 DEF Queued
  <2>8. NotifiedInOrder'
    <3>1. \A i \in 1 .. Len(seen) : seen[i] = i
      BY <1>9 DEF OrderInv, NotifiedInOrder
    <3>2. ASSUME NEW i \in 1 .. Len(seen) + 1 PROVE seen'[i] = i
      <4>1. i = Len(seen) + 1 \/ i \in 1 .. Len(seen)
        BY <1>9
      <4>. QED
        BY <2>4, <2>6, <3>1, <4>1
    <3>. QED
      BY <2>6, <3>2 DEF NotifiedInOrder
  <2>. QED
    BY <1>0, <1>1, <2>7, <2>8 DEF OrderInv
<1>5. CASE UNCHANGED <<line, seen, commits>> /\ (loop = "closed" => loop' = "closed")
  BY <1>0, <1>1, <1>5, OrderKept
<1>6. ASSUME NEW t \in Thread,
             Ask(t) \/ Begin(t) \/ Refuse(t) \/ Copy(t) \/ WriteFails(t) \/ Complete(t)
             \/ Release(t)
      PROVE  UNCHANGED <<line, seen, commits, loop>>
  BY <1>6 DEF Ask, Begin, Refuse, WriteFails, Fail, Copy, Complete, Release
<1>7. ASSUME Posted \/ DrainEnds \/ Assign \/ Rest \/ UNCHANGED vars
      PROVE  UNCHANGED <<line, seen, commits, loop>>
  BY <1>7 DEF Posted, DrainEnds, Assign, Rest, vars
<1>8. ASSUME LoopStops \/ LoopCloses
      PROVE  UNCHANGED <<line, seen, commits>> /\ (loop = "closed" => loop' = "closed")
  BY <1>8 DEF LoopStops, LoopCloses
<1>. QED
  BY <1>2, <1>3, <1>4, <1>5, <1>6, <1>7, <1>8 DEF Next, Step, Publish

\* The observer is told of the commits in their order, whatever threads make them.
THEOREM ToldInOrder == Spec => []NotifiedInOrder
<1>1. Init => OrderInv
  BY TypeInit DEF Init, OrderInv, LoopHere, Queued, NotifiedInOrder
<1>2. OrderInv => NotifiedInOrder
  BY DEF OrderInv
<1>. QED
  BY <1>1, <1>2, OrderNext, PTL DEF Spec

-------------------------------------------------------------------------------
(* The settings.                                                           *)

\* _commit_lock is held exactly by the thread in the middle of a commit.
Locked == \A t \in Thread : pc[t] \in {"applied", "copied", "stored"} <=> lock = t

\* No value anywhere is newer than the last edit, and an edit that waits for the lock
\* is newer than what it was made from.
Numbered ==
    /\ \A f \in Field : canonical[f] <= edits /\ rollback[f] <= edits
    /\ \A t \in Thread :
          /\ edit[t].value <= edits
          /\ \A f \in Field : copied[t][f] <= edits
          /\ pc[t] = "asked" => \A f \in Field : edit[t].base[f] < edit[t].value

\* What a field is to be once the commit of t has succeeded.
Wanted(t, f) == IF f = edit[t].field THEN edit[t].value ELSE latest[f]

\* Where the good value of a field is while a commit is under way.
KeptField(f) ==
    /\ committed[f] = latest[f] /\ disk[f] = latest[f]
    /\ lock = NoThread => canonical[f] = latest[f]
    /\ \A t \in Thread :
          /\ pc[t] = "applied" => canonical[f] = Wanted(t, f) /\ rollback[f] = latest[f]
          /\ pc[t] = "copied" => copied[t][f] = Wanted(t, f) /\ rollback[f] = latest[f]
          /\ pc[t] = "stored" => copied[t][f] = latest[f]
Kept == \A f \in Field \ overwritten : KeptField(f)

KeptInv == TypeOK /\ Locked /\ Numbered /\ Kept

\* A rebase changes the field of the edit and no other.
LEMMA RebaseChanges ==
    ASSUME NEW live \in Settings, NEW e \in Edit, NEW f \in Field,
           e.capture \/ e.base[e.field] < e.value
    PROVE  Rebase(live, e)[f] = IF f = e.field THEN e.value ELSE live[f]
<1> DEFINE base == IF e.capture THEN live ELSE e.base
           next == [base EXCEPT ![e.field] = e.value]
<1>1. e.field \in Field /\ e.value \in Nat /\ base \in Settings
  BY EditAssumption DEF Edit
<1>2. next[f] = IF f = e.field THEN e.value ELSE base[f]
  BY <1>1 DEF Settings
<1>3. Rebase(live, e)[f] = IF next[f] # base[f] THEN next[f] ELSE live[f]
  BY DEF Rebase
<1>4. CASE f # e.field
  BY <1>2, <1>3, <1>4
<1>5. CASE f = e.field /\ e.capture
  BY <1>2, <1>3, <1>5
<1>6. CASE f = e.field /\ ~e.capture
  <2>1. base[f] # e.value
    BY <1>1, <1>6, EditAssumption DEF Settings
  <2>. QED
    BY <1>2, <1>3, <1>6, <2>1
<1>. QED
  BY <1>4, <1>5, <1>6

\* Every step keeps the lock with the thread that commits.
LEMMA LockedNext == TypeOK /\ Locked /\ [Next]_vars => Locked'
<1> SUFFICES ASSUME TypeOK, Locked, [Next]_vars PROVE Locked'
  OBVIOUS
<1>. USE ThreadAssumption DEF TypeOK, Locked, Goto, At, settingsVars, queueVars, historyVars
<1>1. ASSUME NEW t \in Thread, Ask(t) PROVE Locked'
  BY <1>1 DEF Ask
<1>2. ASSUME NEW t \in Thread, Begin(t) PROVE Locked'
  BY <1>2 DEF Begin, Thread
<1>3. ASSUME NEW t \in Thread, Refuse(t) \/ WriteFails(t) PROVE Locked'
  BY <1>3 DEF Refuse, WriteFails, Fail, Thread
<1>4. ASSUME NEW t \in Thread, Copy(t) PROVE Locked'
  BY <1>4 DEF Copy
<1>5. ASSUME NEW t \in Thread, Write(t) PROVE Locked'
  BY <1>5 DEF Write
<1>6. ASSUME NEW t \in Thread, Complete(t) PROVE Locked'
  BY <1>6 DEF Complete, Thread
<1>7. ASSUME NEW t \in Thread, Release(t) PROVE Locked'
  BY <1>7 DEF Release
<1>8. ASSUME NEW t \in Thread, Dispatch(t) PROVE Locked'
  BY <1>8 DEF Dispatch, After
<1>9. ASSUME Posted \/ Drain \/ DrainEnds \/ Assign PROVE Locked'
  BY <1>9 DEF Posted, Drain, DrainEnds, Assign, After, Thread
<1>10. ASSUME LoopStops \/ LoopCloses \/ Rest \/ UNCHANGED vars PROVE Locked'
  BY <1>10 DEF LoopStops, LoopCloses, Rest, vars
<1>. QED
  BY <1>1, <1>2, <1>3, <1>4, <1>5, <1>6, <1>7, <1>8, <1>9, <1>10 DEF Next, Step, Publish

\* Every step keeps the numbers of the edits in order.
LEMMA NumberedNext == TypeOK /\ Numbered /\ [Next]_vars => Numbered'
<1> SUFFICES ASSUME TypeOK, Numbered, [Next]_vars PROVE Numbered'
  OBVIOUS
<1>0. /\ edits \in Nat /\ MaxEdits \in Nat
      /\ \A e \in Edit : e.value \in Nat /\ e.base \in Settings /\ e.field \in Field
      /\ \A v \in Settings, f \in Field : v[f] \in Nat
  <2>1. edits \in Nat /\ MaxEdits \in Nat /\ 0 .. MaxEdits \subseteq Nat
    BY EditAssumption DEF TypeOK
  <2>. QED
    BY <2>1 DEF Edit, Settings
<1>. USE DEF Goto, At, settingsVars, queueVars, historyVars
<1>1. ASSUME NEW t \in Thread, Ask(t) PROVE Numbered'
  <2>1. PICK f \in Field, capture \in BOOLEAN :
            edit' = [edit EXCEPT ![t] = [field |-> f, value |-> edits', base |-> canonical,
                                         capture |-> capture]]
    BY <1>1 DEF Ask
  <2>2. edits' = edits + 1 /\ canonical' = canonical /\ rollback' = rollback /\ copied' = copied
    BY <1>1 DEF Ask
  <2>3. \A u \in Thread : u # t => edit'[u] = edit[u] /\ pc'[u] = pc[u]
    BY <1>1, <2>1 DEF Ask, TypeOK
  <2>4. edit'[t].value = edits + 1 /\ edit'[t].base = canonical
    BY <2>1, <2>2 DEF TypeOK
  <2>5. \A g \in Field : canonical'[g] <= edits' /\ rollback'[g] <= edits'
    BY <1>0, <2>2 DEF Numbered, TypeOK
  <2>6. ASSUME NEW u \in Thread
        PROVE  /\ edit'[u].value <= edits'
               /\ \A g \in Field : copied'[u][g] <= edits'
               /\ pc'[u] = "asked" => \A g \in Field : edit'[u].base[g] < edit'[u].value
    <3>1. \A g \in Field : copied'[u][g] <= edits'
      BY <1>0, <2>2 DEF Numbered, TypeOK
    <3>2. CASE u = t
      <4>1. \A g \in Field : canonical[g] < edits + 1
        BY <1>0 DEF Numbered, TypeOK
      <4>. QED
        BY <1>0, <2>2, <2>4, <3>1, <3>2, <4>1
    <3>3. CASE u # t
      <4>1. edit'[u].value <= edits'
        BY <1>0, <2>2, <2>3, <3>3 DEF Numbered, TypeOK
      <4>. QED
        BY <2>3, <3>1, <3>3, <4>1 DEF Numbered
    <3>. QED
      BY <3>2, <3>3
  <2>. QED
    BY <2>5, <2>6 DEF Numbered
<1>2. ASSUME NEW t \in Thread, Begin(t) PROVE Numbered'
  <2>1. ASSUME NEW f \in Field PROVE canonical'[f] <= edits
    <3>1. canonical'[f] = IF f = edit[t].field THEN edit[t].value ELSE canonical[f]
      <4>1. canonical \in Settings /\ edit[t] \in Edit /\ pc[t] = "asked"
        BY <1>2 DEF Begin, TypeOK
      <4>2. edit[t].base[edit[t].field] < edit[t].value
        BY <1>0, <4>1 DEF Numbered
      <4>3. canonical' = Rebase(canonical, edit[t])
        BY <1>2 DEF Begin
      <4>. QED
        BY <4>1, <4>2, <4>3, RebaseChanges
    <3>. QED
      BY <3>1 DEF Numbered
  <2>2. rollback' = canonical /\ edits' = edits /\ edit' = edit /\ copied' = copied
    BY <1>2 DEF Begin
  <2>3. \A u \in Thread : pc'[u] = "asked" => pc[u] = "asked"
    BY <1>2 DEF Begin, TypeOK
  <2>. QED
    BY <2>1, <2>2, <2>3 DEF Numbered
<1>3. ASSUME NEW t \in Thread, Refuse(t) \/ WriteFails(t) \/ Complete(t) PROVE Numbered'
  <2>1. \A f \in Field : rollback'[f] = 0 /\ canonical'[f] \in {rollback[f], copied[t][f]}
    BY <1>3 DEF Refuse, WriteFails, Fail, Rollback, Complete, Untouched
  <2>2. /\ edits' = edits /\ edit' = edit /\ copied' = copied
        /\ \A u \in Thread : pc'[u] = "asked" => pc[u] = "asked"
    BY <1>3 DEF Refuse, WriteFails, Fail, Complete, TypeOK
  <2>. QED
    BY <1>0, <2>1, <2>2 DEF Numbered
<1>4. ASSUME NEW t \in Thread, Copy(t) PROVE Numbered'
  <2>1. \A u \in Thread, f \in Field : copied'[u][f] \in {copied[u][f], canonical[f]}
    BY <1>4 DEF Copy, TypeOK
  <2>2. /\ edits' = edits /\ edit' = edit /\ canonical' = canonical /\ rollback' = rollback
        /\ \A u \in Thread : pc'[u] = "asked" => pc[u] = "asked"
    BY <1>4 DEF Copy, TypeOK
  <2>. QED
    BY <2>1, <2>2 DEF Numbered
<1>5. ASSUME NEW t \in Thread, Write(t) \/ Release(t) PROVE Numbered'
  <2>1. UNCHANGED <<canonical, rollback, edits, edit, copied>>
    BY <1>5 DEF Write, Release
  <2>2. \A u \in Thread : pc'[u] = "asked" => pc[u] = "asked"
    BY <1>5 DEF Write, Release, TypeOK
  <2>. QED
    BY <2>1, <2>2 DEF Numbered
<1>6. ASSUME NEW t \in Thread, Dispatch(t) PROVE Numbered'
  BY <1>6 DEF Dispatch, After, Numbered, TypeOK
<1>7. ASSUME Posted PROVE Numbered'
  <2>1. /\ edits' = edits /\ copied' = copied
        /\ canonical' = canonical /\ rollback' = rollback
    BY <1>7 DEF Posted
  <2>2. ASSUME NEW u \in Thread
        PROVE  edit'[u] \in {edit[u], NoEdit} /\ (pc'[u] = "asked" => edit'[u] = edit[u] /\ pc[u] = "asked")
    BY <1>7 DEF Posted, TypeOK
  <2>3. NoEdit.value <= edits
    BY <1>0 DEF NoEdit
  <2>. QED
    BY <2>1, <2>2, <2>3 DEF Numbered
<1>8. ASSUME Drain \/ DrainEnds PROVE Numbered'
  BY <1>8 DEF Drain, DrainEnds, After, Numbered, TypeOK
<1>9. ASSUME Assign PROVE Numbered'
  <2>1. canonical' = copied[Loop] /\ Loop \in Thread
    BY <1>9 DEF Assign, Thread
  <2>2. /\ edits' = edits /\ edit' = edit /\ copied' = copied /\ rollback' = rollback
        /\ \A u \in Thread : pc'[u] = "asked" => pc[u] = "asked"
    BY <1>9 DEF Assign, TypeOK
  <2>. QED
    BY <2>1, <2>2 DEF Numbered
<1>10. ASSUME LoopStops \/ LoopCloses \/ Rest \/ UNCHANGED vars PROVE Numbered'
  <2>1. UNCHANGED <<canonical, rollback, edits, edit, copied, pc>>
    BY <1>10 DEF LoopStops, LoopCloses, Rest, vars
  <2>. QED
    BY <2>1 DEF Numbered
<1>. QED
  BY <1>1, <1>2, <1>3, <1>4, <1>5, <1>6, <1>7, <1>8, <1>9, <1>10 DEF Next, Step, Publish

\* A field is kept by a step that leaves the settings, the lock and the commits alone.
LEMMA KeptAlone ==
    ASSUME Kept,
           UNCHANGED <<settingsVars, lock, copied, latest, overwritten>>,
           \A t \in Thread : pc'[t] \in {"applied", "copied", "stored"}
                                => pc'[t] = pc[t] /\ edit'[t] = edit[t]
    PROVE  Kept'
BY DEF Kept, KeptField, Wanted, settingsVars

\* Every step keeps the good values.
LEMMA KeptNext == KeptInv /\ [Next]_vars => Kept'
<1> SUFFICES ASSUME KeptInv, [Next]_vars PROVE Kept'
  OBVIOUS
<1>0. TypeOK /\ Locked /\ Numbered /\ Kept
  BY DEF KeptInv
<1>. USE DEF Goto, At, settingsVars, queueVars, historyVars
<1>1. ASSUME NEW t \in Thread, Ask(t) PROVE Kept'
  <2>1. UNCHANGED <<settingsVars, lock, copied, latest, overwritten>>
    BY <1>1 DEF Ask
  <2>2. \A u \in Thread : pc'[u] \in {"applied", "copied", "stored"}
                             => pc'[u] = pc[u] /\ edit'[u] = edit[u]
    BY <1>0, <1>1 DEF Ask, TypeOK
  <2>. QED
    BY <1>0, <2>1, <2>2, KeptAlone
<1>2. ASSUME NEW t \in Thread, Begin(t) PROVE Kept'
  <2>1. /\ pc[t] = "asked" /\ lock = NoThread /\ lock' = t /\ t # NoThread
        /\ rollback' = canonical /\ canonical' = Rebase(canonical, edit[t])
        /\ UNCHANGED <<committed, disk, edit, copied, latest, overwritten>>
    BY <1>2, ThreadAssumption DEF Begin, Thread
  <2>2. \A u \in Thread : pc'[u] = IF u = t THEN "applied" ELSE pc[u]
    BY <1>0, <1>2 DEF Begin, TypeOK
  <2>3. \A u \in Thread : pc[u] \notin {"applied", "copied", "stored"}
    BY <1>0, <2>1, ThreadAssumption DEF Locked, Thread
  <2>4. ASSUME NEW f \in Field \ overwritten PROVE KeptField(f)'
    <3>1. /\ committed[f] = latest[f] /\ disk[f] = latest[f] /\ canonical[f] = latest[f]
      BY <1>0, <2>1 DEF Kept, KeptField
    <3>2. canonical'[f] = IF f = edit[t].field THEN edit[t].value ELSE canonical[f]
      <4>1. canonical \in Settings /\ edit[t] \in Edit
        BY <1>0 DEF TypeOK
      <4>2. edit[t].base[edit[t].field] < edit[t].value
        BY <1>0, <2>1, <4>1 DEF Numbered, Edit
      <4>. QED
        BY <2>1, <4>1, <4>2, RebaseChanges
    <3>. QED
      BY <2>1, <2>2, <2>3, <3>1, <3>2 DEF KeptField, Wanted
  <2>. QED
    BY <2>1, <2>4 DEF Kept
<1>3. ASSUME NEW t \in Thread, Refuse(t) \/ WriteFails(t) PROVE Kept'
  <2>1. /\ pc[t] \in {"applied", "copied"} /\ lock' = NoThread
        /\ canonical' = rollback
        /\ UNCHANGED <<committed, disk, edit, copied, latest, overwritten>>
    BY <1>3 DEF Refuse, WriteFails, Fail, Rollback
  <2>2. \A u \in Thread : pc'[u] = IF u = t THEN "idle" ELSE pc[u]
    BY <1>0, <1>3 DEF Refuse, WriteFails, Fail, TypeOK
  <2>3. \A u \in Thread : pc'[u] \notin {"applied", "copied", "stored"}
    BY <1>0, <2>1, <2>2 DEF Locked
  <2>4. ASSUME NEW f \in Field \ overwritten PROVE KeptField(f)'
    <3>1. committed[f] = latest[f] /\ disk[f] = latest[f] /\ rollback[f] = latest[f]
      BY <1>0, <2>1 DEF Kept, KeptField
    <3>. QED
      BY <2>1, <2>3, <3>1 DEF KeptField
  <2>. QED
    BY <2>1, <2>4 DEF Kept
<1>4. ASSUME NEW t \in Thread, Copy(t) PROVE Kept'
  <2>1. /\ pc[t] = "applied"
        /\ UNCHANGED <<settingsVars, lock, edit, latest, overwritten>>
        /\ copied'[t] = canonical
    BY <1>0, <1>4 DEF Copy, TypeOK
  <2>2. \A u \in Thread : pc'[u] = IF u = t THEN "copied" ELSE pc[u]
    BY <1>0, <1>4 DEF Copy, TypeOK
  <2>3. lock = t /\ lock # NoThread
    BY <1>0, <2>1, ThreadAssumption DEF Locked, Thread
  <2>4. \A u \in Thread \ {t} : pc[u] \notin {"applied", "copied", "stored"}
    BY <1>0, <2>3 DEF Locked
  <2>5. ASSUME NEW f \in Field \ overwritten PROVE KeptField(f)'
    <3>1. /\ committed[f] = latest[f] /\ disk[f] = latest[f] /\ rollback[f] = latest[f]
          /\ canonical[f] = Wanted(t, f)
      BY <1>0, <2>1 DEF Kept, KeptField
    <3>. QED
      BY <2>1, <2>2, <2>3, <2>4, <3>1 DEF KeptField, Wanted
  <2>. QED
    BY <2>1, <2>5 DEF Kept
<1>5. ASSUME NEW t \in Thread, Write(t) PROVE Kept'
  <2>1. /\ pc[t] = "copied" /\ committed' = copied[t] /\ disk' = copied[t]
        /\ UNCHANGED <<canonical, rollback, lock, edit, copied, overwritten>>
        /\ latest' = [latest EXCEPT ![edit[t].field] = edit[t].value]
    BY <1>5 DEF Write
  <2>2. \A u \in Thread : pc'[u] = IF u = t THEN "stored" ELSE pc[u]
    BY <1>0, <1>5 DEF Write, TypeOK
  <2>3. lock = t /\ lock # NoThread
    BY <1>0, <2>1, ThreadAssumption DEF Locked, Thread
  <2>4. \A u \in Thread \ {t} : pc[u] \notin {"applied", "copied", "stored"}
    BY <1>0, <2>3 DEF Locked
  <2>5. ASSUME NEW f \in Field \ overwritten PROVE KeptField(f)'
    <3>1. copied[t][f] = Wanted(t, f)
      BY <1>0, <2>1 DEF Kept, KeptField
    <3>2. latest'[f] = Wanted(t, f)
      BY <1>0, <2>1 DEF TypeOK, Settings, Wanted
    <3>. QED
      BY <2>1, <2>2, <2>3, <2>4, <3>1, <3>2 DEF KeptField
  <2>. QED
    BY <2>1, <2>5 DEF Kept
<1>6. ASSUME NEW t \in Thread, Complete(t) PROVE Kept'
  <2>1. /\ pc[t] = "stored" /\ lock' = NoThread /\ canonical' = copied[t]
        /\ UNCHANGED <<committed, disk, edit, copied, latest, overwritten>>
    BY <1>6 DEF Complete
  <2>2. \A u \in Thread : pc'[u] = IF u = t THEN "release" ELSE pc[u]
    BY <1>0, <1>6 DEF Complete, TypeOK
  <2>3. \A u \in Thread : pc'[u] \notin {"applied", "copied", "stored"}
    BY <1>0, <2>1, <2>2 DEF Locked
  <2>4. ASSUME NEW f \in Field \ overwritten PROVE KeptField(f)'
    <3>1. committed[f] = latest[f] /\ disk[f] = latest[f] /\ copied[t][f] = latest[f]
      BY <1>0, <2>1 DEF Kept, KeptField
    <3>. QED
      BY <2>1, <2>3, <3>1 DEF KeptField
  <2>. QED
    BY <2>1, <2>4 DEF Kept
<1>7. ASSUME NEW t \in Thread, Release(t) \/ Dispatch(t) PROVE Kept'
  <2>1. UNCHANGED <<settingsVars, lock, edit, copied, latest, overwritten>>
    BY <1>7 DEF Release, Dispatch
  <2>2. \A u \in Thread : pc'[u] \in {"applied", "copied", "stored"} => pc'[u] = pc[u]
    BY <1>0, <1>7 DEF Release, Dispatch, After, TypeOK
  <2>. QED
    BY <1>0, <2>1, <2>2, KeptAlone
<1>8. ASSUME Posted \/ Drain \/ DrainEnds PROVE Kept'
  <2>1. UNCHANGED <<settingsVars, lock, copied, latest, overwritten>>
    BY <1>8 DEF Posted, Drain, DrainEnds
  <2>2. \A u \in Thread : pc'[u] \in {"applied", "copied", "stored"}
                             => pc'[u] = pc[u] /\ edit'[u] = edit[u]
    BY <1>0, <1>8 DEF Posted, Drain, DrainEnds, After, TypeOK
  <2>. QED
    BY <1>0, <2>1, <2>2, KeptAlone
<1>9. ASSUME Assign PROVE Kept'
  <2>1. /\ pc[Loop] = "assign" /\ Loop \in Thread /\ canonical' = copied[Loop]
        /\ UNCHANGED <<committed, disk, rollback, lock, edit, copied, latest>>
        /\ overwritten \subseteq overwritten'
        /\ \A f \in Field \ overwritten' : latest[f] = copied[Loop][f]
    BY <1>9 DEF Assign, Thread
  <2>2. \A u \in Thread : pc'[u] = IF u = Loop THEN "idle" ELSE pc[u]
    BY <1>0, <1>9 DEF Assign, TypeOK
  <2>3. ASSUME NEW u \in Thread, pc[u] = "applied" PROVE edit[u].field \in overwritten'
    <3>1. u = lock
      BY <1>0, <2>3 DEF Locked
    <3>. QED
      BY <1>9, <2>3, <3>1 DEF Assign
  <2>4. ASSUME NEW f \in Field \ overwritten' PROVE KeptField(f)'
    <3>1. KeptField(f)
      BY <1>0, <2>1 DEF Kept
    <3>2. canonical'[f] = latest[f]
      BY <2>1
    <3>3. \A u \in Thread : pc[u] = "applied" => Wanted(u, f) = latest[f]
      BY <2>3 DEF Wanted
    <3>. QED
      BY <2>1, <2>2, <3>1, <3>2, <3>3 DEF KeptField, Wanted
  <2>. QED
    BY <2>4 DEF Kept
<1>10. ASSUME LoopStops \/ LoopCloses \/ Rest \/ UNCHANGED vars PROVE Kept'
  <2>1. UNCHANGED <<settingsVars, lock, pc, edit, copied, latest, overwritten>>
    BY <1>10 DEF LoopStops, LoopCloses, Rest, vars
  <2>. QED
    BY <1>0, <2>1, KeptAlone
<1>. QED
  BY <1>1, <1>2, <1>3, <1>4, <1>5, <1>6, <1>7, <1>8, <1>9, <1>10 DEF Next, Step, Publish

\* A commit that succeeded is in what is read, in what was committed and in the file;
\* one that failed is in none of them.
THEOREM NoCommitIsLost == Spec => []NothingLost
<1>1. Init => KeptInv
  <2> SUFFICES ASSUME Init PROVE KeptInv
    OBVIOUS
  <2>1. Locked
    BY ThreadAssumption DEF Init, Locked, Thread
  <2>2. Numbered
    BY DEF Init, Numbered, Untouched, NoEdit
  <2>3. Kept
    BY DEF Init, Kept, KeptField, Untouched
  <2>. QED
    BY <2>1, <2>2, <2>3, TypeInit DEF KeptInv
<1>2. KeptInv /\ [Next]_vars => KeptInv'
  BY TypeNext, LockedNext, NumberedNext, KeptNext DEF KeptInv
<1>3. KeptInv => NothingLost
  BY DEF KeptInv, Kept, KeptField, NothingLost
<1>. QED
  BY <1>1, <1>2, <1>3, PTL DEF Spec
================================================================================
