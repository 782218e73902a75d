--------------------------- MODULE PeerDeliveryProofs ---------------------------
(***************************************************************************)
(* PeerTurns keeps its types and implements TurnDelivery, for every value of   *)
(* the constants; the types come first, one lemma per group of actions.  The  *)
(* inductive invariant says which turns the tasks of the owner can touch:      *)
(* an utterance not submitted yet, a refused one and the one being submitted    *)
(* have no task, and a turn with an armed timer is open.  With it every step    *)
(* is a step of TurnDelivery or leaves all that TurnDelivery sees alone, and    *)
(* what is proved of TurnDelivery holds here.                               *)
(***************************************************************************)
EXTENDS PeerTurns, OutputLineProofs, FiniteSetTheorems

\* Turns are numbers, and no turn is not one of them.
LEMMA TurnInt == Turn \in SUBSET Nat /\ Turn \in SUBSET Int /\ NoTurn \notin Turn
  BY NAssumption DEF Turn, NoTurn

\* Settling children keeps the types of all it touches.
LEMMA SettleTypes ==
    ASSUME TypeOK, NEW t \in Turn, NEW S \in SUBSET Child, NEW kind \in Kind,
           Settle(t, S, kind)
    PROVE  /\ completed' \in [Turn -> SUBSET Child]
           /\ seen' \in [Turn -> [Child -> Seq(Kind)]]
           /\ status' \in [Turn -> {"none", "open", "closed", "rejected"}]
           /\ tail' \in Turn \cup {NoTurn}
           /\ cancelling' \in SUBSET Turn
           /\ line' \in Seq(Turn)
<1>1. seen' \in [Turn -> [Child -> Seq(Kind)]]
  <2>1. \A c \in Child : Append(seen[t][c], kind) \in Seq(Kind)
    BY AppendProperties DEF TypeOK
  <2>2. [c \in Child |-> IF c \in S THEN Append(seen[t][c], kind) ELSE seen[t][c]]
          \in [Child -> Seq(Kind)]
    BY <2>1 DEF TypeOK
  <2>. QED
    BY <2>2 DEF TypeOK, Settle
<1>2. Release(line, t) \in Seq(Turn)
  <2>1. CASE InLine(line, t)
    <3>1. Position(line, t) \in 1 .. Len(line)
      BY <2>1, LenProperties DEF TypeOK, InLine, Position
    <3>. QED
      BY <2>1, <3>1, RemoveAtElements DEF TypeOK, Release
  <2>2. CASE ~InLine(line, t)
    BY <2>2 DEF TypeOK, Release
  <2>. QED
    BY <2>1, <2>2
<1>3. completed' \in [Turn -> SUBSET Child]
  BY DEF TypeOK, Settle
<1>4. status' \in [Turn -> {"none", "open", "closed", "rejected"}]
  BY DEF TypeOK, Settle
<1>5. /\ tail' \in Turn \cup {NoTurn}
      /\ cancelling' \in SUBSET Turn
  BY DEF TypeOK, Settle
<1>6. line' \in Seq(Turn)
  BY <1>2 DEF TypeOK, Settle
<1>. QED
  BY <1>1, <1>3, <1>4, <1>5, <1>6

\* So do cancelling the timer and admitting a batch.
LEMMA TimerTypes ==
    ASSUME NEW e \in {"none", "sleep", "gate", "kicked", "done"}
    PROVE  /\ CancelTimer(e) \in {"none", "sleep", "gate", "kicked", "done"}
           /\ EndTimer(e) \in {"none", "sleep", "gate", "kicked", "done"}
BY DEF CancelTimer, EndTimer

\* Taking a place in the line keeps the types.
LEMMA AdmitTypes ==
    ASSUME NEW q \in Seq(Turn), NEW t \in Turn
    PROVE  Admit(q, t, MaxUnsent) \in Seq(Turn)
<1>1. CASE Pressured(q, MaxUnsent)
  <2>1. Len(q) \in Nat /\ 2 \in 1 .. Len(q)
    BY <1>1, LimitAssumption, LenProperties DEF Pressured
  <2>2. EvictOldest(q) \in Seq(Turn)
    BY <2>1, RemoveAtElements DEF EvictOldest
  <2>. QED
    BY <1>1, <2>2 DEF Admit
<1>2. CASE ~Pressured(q, MaxUnsent)
  BY <1>2 DEF Admit
<1>. QED
  BY <1>1, <1>2

\* A state a child task may be in keeps the type of work.
LEMMA WorkTypes ==
    ASSUME NEW w \in [Child -> Work]
    PROVE  CancelWork(w) \in [Child -> Work]
BY DEF CancelWork, Work

\* Submission, admission and overload keep the types.
LEMMA SubmissionTypes ==
    ASSUME TypeOK, sub.pc # "idle"
    PROVE  /\ sub \in Submission /\ sub.turn \in Turn
           /\ \A pc \in {"overflow", "finish"} :
                 [sub EXCEPT !.pc = pc] \in Submission
           /\ \A v \in Turn :
                 [sub EXCEPT !.pc = "join", !.victim = v] \in Submission
<1>1. sub \in Submission
  BY DEF TypeOK, Idle
<1>. QED
  BY <1>1 DEF Submission

-------------------------------------------------------------------------------
\* Every step keeps the type of every variable.
LEMMA SubmitTypes == ASSUME TypeOK, SubmitStep PROVE TypeOK'
<1>. USE TurnInt DEF turnVars, taskVars, ownerVars, callerVars
<1>1. CASE Submit
  <2>1. next \in Turn /\ next' \in 1 .. N + 1
    BY <1>1, NAssumption DEF Submit, TypeOK, Turn
  <2>2. [Idle EXCEPT !.pc = "admitting", !.turn = next] \in Submission
    BY <2>1 DEF Idle, Submission
  <2>3. sub' \in Submission \cup {Idle}
    BY <1>1, <2>2 DEF Submit, TypeOK
  <2>4. status' \in [Turn -> {"none", "open", "closed", "rejected"}]
    BY <1>1, <2>1 DEF Submit, TypeOK
  <2>. QED
    BY <1>1, <2>1, <2>3, <2>4 DEF Submit, TypeOK
<1>2. CASE SubmitAdmitted
  <2>1. sub.turn \in Turn
    BY <1>2, SubmissionTypes DEF SubmitAdmitted
  <2>2. line' \in Seq(Turn)
    BY <1>2, <2>1, AdmitTypes DEF SubmitAdmitted, TypeOK
  <2>. QED
    BY <1>2, <2>1, <2>2, SubmissionTypes DEF SubmitAdmitted, TypeOK
<1>3. CASE SubmitRefused
  <2>1. sub.turn \in Turn
    BY <1>3, SubmissionTypes DEF SubmitRefused
  <2>2. Settle(sub.turn, Remaining(sub.turn), "fallback")
    BY <1>3 DEF SubmitRefused, SettleByOther
  <2>3. faults' \in 0 .. MaxFaults
    BY <1>3, BoundAssumption DEF SubmitRefused, TypeOK
  <2>4. expiry' \in [Turn -> {"none", "sleep", "gate", "kicked", "done"}]
    BY <1>3, <2>1, TimerTypes DEF SubmitRefused, SettleByOther, TypeOK
  <2>. QED
    BY <1>3, <2>1, <2>2, <2>3, <2>4, SettleTypes, SubmissionTypes
       DEF SubmitRefused, SettleByOther, TypeOK, Remaining, Kind
<1>4. CASE SubmitOverflow
  <2>1. PICK v \in Overflow :
           /\ Retire(v)
           /\ expiry' = [expiry EXCEPT ![v] = EndTimer(@)]
           /\ sub' = [sub EXCEPT !.pc = "join", !.victim = v]
    BY <1>4 DEF SubmitOverflow
  <2>2. v \in Turn
    BY DEF Overflow, Waiting
  <2>3. killed' \in SUBSET Turn
    BY <2>1, <2>2 DEF Retire, TypeOK
  <2>4. expiry' \in [Turn -> {"none", "sleep", "gate", "kicked", "done"}]
    BY <2>1, <2>2, TimerTypes DEF TypeOK
  <2>5. sub' \in Submission
    BY <1>4, <2>1, <2>2, SubmissionTypes DEF SubmitOverflow
  <2>6. PICK kind \in Kind : Settle(v, Remaining(v), kind)
    BY <2>1 DEF Retire, RetiredKind, Kind
  <2>. QED
    BY <1>4, <2>2, <2>3, <2>4, <2>5, <2>6, SettleTypes
       DEF SubmitOverflow, TypeOK, Remaining
<1>5. CASE SubmitNoOverflow
  BY <1>5, SubmissionTypes DEF SubmitNoOverflow, TypeOK
<1>6. CASE SubmitFinish
  <2>1. sub.turn \in Turn
    BY <1>6, SubmissionTypes DEF SubmitFinish
  <2>2. CASE UNCHANGED <<turnVars, taskVars, ownerVars, line, faults>>
    BY <1>6, <2>2 DEF SubmitFinish, TypeOK
  <2>3. CASE /\ SettleByOther(sub.turn, Remaining(sub.turn), "fallback")
             /\ UNCHANGED <<next, started, predecessor, taskVars, blocked, closed,
                            faults>>
    <3>1. expiry' \in [Turn -> {"none", "sleep", "gate", "kicked", "done"}]
      BY <2>1, <2>3, TimerTypes DEF SettleByOther, TypeOK
    <3>. QED
      BY <1>6, <2>1, <2>3, <3>1, SettleTypes
         DEF SubmitFinish, SettleByOther, TypeOK, Remaining, Kind
  <2>4. ASSUME NEW F \in SUBSET Child,
               Cardinality(F) <= MaxFaults - faults,
               faults' = faults + Cardinality(F),
               Settle(sub.turn, F, "fallback"),
               expiry' = [expiry EXCEPT ![sub.turn] =
                             IF F = Child THEN "done" ELSE "sleep"],
               run' = [run EXCEPT ![sub.turn] =
                          IF F = Child THEN "none" ELSE "queued"],
               UNCHANGED <<next, started, predecessor, killed, finished, work,
                           running, active, blocked, closed>>
        PROVE  TypeOK'
    <3>1. faults' \in 0 .. MaxFaults
      <4>1. IsFiniteSet(F)
        <5>1. IsFiniteSet(Child)
          BY KAssumption, FS_Interval DEF Child
        <5>. QED
          BY <5>1, FS_Subset
      <4>2. Cardinality(F) \in Nat
        BY <4>1, FS_CardinalityType
      <4>. QED
        BY <2>4, <4>2, BoundAssumption DEF TypeOK
    <3>2. /\ expiry' \in [Turn -> {"none", "sleep", "gate", "kicked", "done"}]
          /\ run' \in [Turn -> {"none", "queued", "loop", "gate", "drain", "done"}]
      BY <2>1, <2>4 DEF TypeOK
    <3>. QED
      BY <1>6, <2>1, <2>4, <3>1, <3>2, SettleTypes
         DEF SubmitFinish, TypeOK, Kind
  <2>. QED
    BY <1>6, <2>2, <2>3, <2>4 DEF SubmitFinish
<1>. QED
  BY <1>1, <1>2, <1>3, <1>4, <1>5, <1>6 DEF SubmitStep

\* Settling by another task also ends the timer of a closed turn.
LEMMA SettleByOtherTypes ==
    ASSUME TypeOK, NEW t \in Turn, NEW S \in SUBSET Child, NEW kind \in Kind,
           SettleByOther(t, S, kind)
    PROVE  /\ completed' \in [Turn -> SUBSET Child]
           /\ seen' \in [Turn -> [Child -> Seq(Kind)]]
           /\ status' \in [Turn -> {"none", "open", "closed", "rejected"}]
           /\ expiry' \in [Turn -> {"none", "sleep", "gate", "kicked", "done"}]
           /\ tail' \in Turn \cup {NoTurn}
           /\ cancelling' \in SUBSET Turn
           /\ line' \in Seq(Turn)
<1>1. expiry' \in [Turn -> {"none", "sleep", "gate", "kicked", "done"}]
  BY TimerTypes DEF SettleByOther, TypeOK
<1>. QED
  BY <1>1, SettleTypes DEF SettleByOther

\* Retiring a turn settles what is left of it, and may cancel its run.
LEMMA RetireTypes ==
    ASSUME TypeOK, NEW t \in Turn, Retire(t)
    PROVE  /\ completed' \in [Turn -> SUBSET Child]
           /\ seen' \in [Turn -> [Child -> Seq(Kind)]]
           /\ status' \in [Turn -> {"none", "open", "closed", "rejected"}]
           /\ tail' \in Turn \cup {NoTurn}
           /\ cancelling' \in SUBSET Turn
           /\ line' \in Seq(Turn)
           /\ killed' \in SUBSET Turn
<1>1. PICK kind \in Kind : Settle(t, Remaining(t), kind)
  BY DEF Retire, RetiredKind, Kind
<1>2. killed' \in SUBSET Turn
  BY DEF Retire, TypeOK
<1>3. Remaining(t) \in SUBSET Child
  BY DEF Remaining
<1>. QED
  BY <1>1, <1>2, <1>3, SettleTypes

\* The timers keep the types.
LEMMA ExpiryTypes == ASSUME TypeOK, NEW t \in Turn, ExpiryStep(t) PROVE TypeOK'
<1>. USE DEF turnVars, taskVars, ownerVars, callerVars
<1>1. expiry' \in [Turn -> {"none", "sleep", "gate", "kicked", "done"}]
  BY DEF ExpiryStep, ExpiryFires, ExpiryGate, ExpiryKicked, TypeOK
<1>2. CASE Retire(t)
  BY <1>1, <1>2, RetireTypes
     DEF ExpiryStep, ExpiryFires, ExpiryGate, ExpiryKicked, TypeOK
<1>3. CASE Settle(t, Remaining(t), "fallback") /\ ExpiryKicked(t)
  <2>1. killed' \in SUBSET Turn
    BY <1>3 DEF ExpiryKicked, TypeOK
  <2>. QED
    BY <1>1, <1>3, <2>1, SettleTypes DEF ExpiryKicked, TypeOK, Remaining, Kind
<1>4. CASE UNCHANGED <<completed, seen, status, tail, cancelling, line>>
  <2>1. killed' \in SUBSET Turn
    BY DEF ExpiryStep, ExpiryFires, ExpiryGate, ExpiryKicked, Retire, TypeOK
  <2>. QED
    BY <1>1, <1>4, <2>1
       DEF ExpiryStep, ExpiryFires, ExpiryGate, ExpiryKicked, TypeOK
<1>. QED
  BY <1>2, <1>3, <1>4 DEF ExpiryStep, ExpiryFires, ExpiryGate, ExpiryKicked

\* The runs keep the types.
LEMMA RunTypes == ASSUME TypeOK, NEW t \in Turn, RunStep(t) PROVE TypeOK'
<1>. USE DEF turnVars, taskVars, ownerVars, callerVars
<1>0. \A f \in [Child -> Work], S \in SUBSET Child :
         [c \in Child |-> IF c \in S THEN "slot" ELSE f[c]] \in [Child -> Work]
  BY DEF Work
<1>1. CASE RunActivate(t)
  <2>1. work' \in [Turn -> [Child -> Work]]
    BY <1>1 DEF RunActivate, TypeOK, Work
  <2>. QED
    BY <1>1, <2>1 DEF RunActivate, TypeOK
<1>2. CASE RunAbandoned(t)
  <2>1. CASE SettleByOther(t, Remaining(t), "fallback")
    BY <1>2, <2>1, SettleByOtherTypes DEF RunAbandoned, TypeOK, Remaining, Kind
  <2>2. CASE UNCHANGED <<completed, seen, status, tail, cancelling, line, expiry>>
    BY <1>2, <2>2 DEF RunAbandoned, TypeOK
  <2>. QED
    BY <1>2, <2>1, <2>2 DEF RunAbandoned
<1>3. CASE RunCollect(t)
  <2>1. work' \in [Turn -> [Child -> Work]]
    BY <1>3, WorkTypes DEF RunCollect, Drain, TypeOK, Work
  <2>2. finished' \in [Turn -> SUBSET Child]
    BY <1>3 DEF RunCollect, Ended, TypeOK
  <2>3. run' \in [Turn -> {"none", "queued", "loop", "gate", "drain", "done"}]
    <3>1. run' = run \/ run' = [run EXCEPT ![t] = "drain"]
      BY <1>3 DEF RunCollect, Drain
    <3>. QED
      BY <3>1 DEF TypeOK
  <2>. QED
    BY <1>3, <2>1, <2>2, <2>3 DEF RunCollect, TypeOK
<1>4. ASSUME NEW c \in Child, RunPublish(t, c) \/ RunGate(t, c) PROVE TypeOK'
  <2>1. PICK kind \in Kind : Publish(t, c, kind)
    BY <1>4 DEF RunPublish, RunGate, Kind
  <2>2. run' \in [Turn -> {"none", "queued", "loop", "gate", "drain", "done"}]
    <3>1. PICK r \in {"drain", "loop"} : run' = [run EXCEPT ![t] = r]
      BY <2>1 DEF Publish
    <3>. QED
      BY <3>1 DEF TypeOK
  <2>3. SettleByOther(t, {c}, kind) /\ {c} \in SUBSET Child
    BY <2>1 DEF Publish
  <2>4. UNCHANGED <<next, started, predecessor, killed, finished, work, running,
                   active, blocked, closed, callerVars>>
    BY <1>4 DEF RunPublish, RunGate
  <2>. QED
    BY <2>2, <2>3, <2>4, SettleByOtherTypes DEF TypeOK
<1>5. ASSUME NEW c \in Child, RunWaits(t, c) PROVE TypeOK'
  BY <1>5 DEF RunWaits, TypeOK
<1>6. CASE RunCancelled(t)
  <2>1. work' \in [Turn -> [Child -> Work]]
    BY <1>6, WorkTypes DEF RunCancelled, Drain, TypeOK
  <2>. QED
    BY <1>6, <2>1 DEF RunCancelled, Drain, TypeOK
<1>7. CASE RunDrained(t)
  <2>1. active' \in Int
    BY <1>7 DEF RunDrained, ReleaseActive, TypeOK
  <2>2. CASE SettleByOther(t, Remaining(t), "fallback")
    BY <1>7, <2>1, <2>2, SettleByOtherTypes DEF RunDrained, TypeOK, Remaining, Kind
  <2>3. CASE UNCHANGED <<completed, seen, status, tail, cancelling, line, expiry>>
    BY <1>7, <2>1, <2>3 DEF RunDrained, TypeOK
  <2>. QED
    BY <1>7, <2>2, <2>3 DEF RunDrained
<1>. QED
  BY <1>1, <1>2, <1>3, <1>4, <1>5, <1>6, <1>7 DEF RunStep

\* The child tasks keep the types.
LEMMA ChildTypes ==
    ASSUME TypeOK, NEW t \in Turn, NEW c \in Child, ChildStep(t, c) PROVE TypeOK'
<1>. USE DEF turnVars, taskVars, ownerVars, callerVars
<1>1. CASE ChildAcquire(t, c)
  <2>1. PICK w \in Work : work' = [work EXCEPT ![t][c] = w]
    BY <1>1 DEF ChildAcquire, Work
  <2>2. work' \in [Turn -> [Child -> Work]]
    BY <2>1 DEF TypeOK
  <2>3. running' \in Int
    BY <1>1 DEF ChildAcquire, TypeOK
  <2>4. /\ expiry' \in [Turn -> {"none", "sleep", "gate", "kicked", "done"}]
        /\ started' \in SUBSET Turn
    <3>1. CASE UNCHANGED <<started, expiry>>
      BY <3>1 DEF TypeOK
    <3>2. CASE MarkStarted(t)
      BY <3>2, TimerTypes DEF MarkStarted, TypeOK
    <3>. QED
      BY <1>1, <3>1, <3>2 DEF ChildAcquire
  <2>. QED
    BY <1>1, <2>2, <2>3, <2>4 DEF ChildAcquire, TypeOK
<1>2. CASE ChildReturns(t, c) \/ ChildDies(t, c)
  <2>1. PICK w \in Work : work' = [work EXCEPT ![t][c] = w]
    BY <1>2 DEF ChildReturns, ChildDies, Work
  <2>2. work' \in [Turn -> [Child -> Work]]
    BY <2>1 DEF TypeOK
  <2>. QED
    BY <1>2, <2>2 DEF ChildReturns, ChildDies, TypeOK
<1>. QED
  BY <1>1, <1>2 DEF ChildStep

\* The state of a controller's call keeps its type.
LEMMA CallTypes ==
    ASSUME NEW r \in Call, NEW S \in SUBSET Turn
    PROVE  [pc |-> "join", kind |-> r.kind, sel |-> S] \in Call
BY DEF Call

\* The controllers keep the types.
LEMMA ControllerTypes ==
    ASSUME TypeOK, NEW k \in Controller,
           CtlStep(k) \/ \E kind \in {"reset", "ingress", "shutdown"} : CtlBegin(k, kind)
    PROVE  TypeOK'
<1>. USE DEF turnVars, taskVars, ownerVars, callerVars
<1>1. ASSUME NEW kind \in {"reset", "ingress", "shutdown"}, CtlBegin(k, kind)
      PROVE  TypeOK'
  <2>1. calls' \in 0 .. MaxCalls
    BY <1>1, BoundAssumption DEF CtlBegin, TypeOK
  <2>2. cancelling' \in SUBSET Turn /\ killed' \in SUBSET Turn
    BY <1>1 DEF CtlBegin, OpenTurns, TypeOK
  <2>3. line' \in Seq(Turn) /\ accepting' \in BOOLEAN
    BY <1>1, EmptySeq DEF CtlBegin, RetireGeneration, TypeOK
  <2>4. blocked' \in BOOLEAN /\ closed' \in BOOLEAN
    BY <1>1 DEF CtlBegin, TypeOK
  <2>5. ctl' \in [Controller -> Call]
    <3>1. [pc |-> "select", kind |-> kind, sel |-> {}] \in Call
      BY DEF Call
    <3>. QED
      BY <1>1, <3>1 DEF CtlBegin, TypeOK
  <2>. QED
    BY <1>1, <2>1, <2>2, <2>3, <2>4, <2>5 DEF CtlBegin, TypeOK
<1>2. CASE CtlSelect(k)
  <2>1. OpenTurns \in SUBSET Turn
    BY DEF OpenTurns
  <2>2. ctl' \in [Controller -> Call]
    <3>1. [pc |-> "join", kind |-> ctl[k].kind, sel |-> OpenTurns] \in Call
      BY <2>1, CallTypes DEF TypeOK
    <3>. QED
      BY <1>2, <3>1 DEF CtlSelect, Selected, TypeOK
  <2>3. cancelling' \in SUBSET Turn /\ killed' \in SUBSET Turn
    BY <1>2, <2>1 DEF CtlSelect, Selected, TypeOK
  <2>. QED
    BY <1>2, <2>2, <2>3 DEF CtlSelect, Selected, TypeOK
<1>3. CASE CtlCloseScope(k)
  <2>1. OpenTurns \in SUBSET Turn
    BY DEF OpenTurns
  <2>2. ctl' \in [Controller -> Call]
    <3>1. [pc |-> "join", kind |-> ctl[k].kind, sel |-> OpenTurns] \in Call
      BY <2>1, CallTypes DEF TypeOK
    <3>. QED
      BY <1>3, <3>1 DEF CtlCloseScope, TypeOK
  <2>3. killed' \in SUBSET Turn
    BY <1>3 DEF CtlCloseScope, TypeOK
  <2>4. work' \in [Turn -> [Child -> Work]]
    BY <1>3, WorkTypes DEF CtlCloseScope, TypeOK
  <2>5. expiry' \in [Turn -> {"none", "sleep", "gate", "kicked", "done"}]
    BY <1>3, TimerTypes DEF CtlCloseScope, TypeOK
  <2>. QED
    BY <1>3, <2>2, <2>3, <2>4, <2>5 DEF CtlCloseScope, TypeOK
<1>4. CASE CtlReturn(k)
  <2>1. NoCall \in Call
    BY DEF NoCall, Call
  <2>2. blocked' \in BOOLEAN
    BY <1>4 DEF CtlReturn, TypeOK
  <2>. QED
    BY <1>4, <2>1, <2>2 DEF CtlReturn, TypeOK
<1>5. ASSUME NEW t \in Turn, CtlSettle(k, t) PROVE TypeOK'
  BY <1>5, SettleByOtherTypes DEF CtlSettle, TypeOK, Remaining, Kind
<1>. QED
  BY <1>1, <1>2, <1>3, <1>4, <1>5 DEF CtlStep

\* Every step keeps the types.
LEMMA StepTypes == ASSUME TypeOK, [Next]_vars PROVE TypeOK'
<1>1. CASE OpenIngress
  BY <1>1 DEF OpenIngress, TypeOK, turnVars, taskVars, callerVars
<1>2. CASE Rest \/ UNCHANGED vars
  BY <1>2 DEF Rest, TypeOK, vars, turnVars, taskVars, ownerVars, callerVars
<1>. QED
  BY <1>1, <1>2, SubmitTypes, ExpiryTypes, RunTypes, ChildTypes, ControllerTypes
     DEF Next

\* The initial state has the types.
LEMMA InitTypes == Init => TypeOK
<1>1. <<>> \in Seq(Turn) /\ <<>> \in Seq(Kind)
  BY EmptySeq
<1>2. NoCall \in Call
  BY DEF NoCall, Call
<1> SUFFICES ASSUME Init PROVE TypeOK
  OBVIOUS
<1>3. /\ next \in 1 .. N + 1 /\ calls \in 0 .. MaxCalls /\ faults \in 0 .. MaxFaults
      /\ running \in Int /\ active \in Int
  BY NAssumption, BoundAssumption DEF Init
<1>4. /\ status \in [Turn -> {"none", "open", "closed", "rejected"}]
      /\ completed \in [Turn -> SUBSET Child]
      /\ predecessor \in [Turn -> Turn \cup {NoTurn}]
      /\ expiry \in [Turn -> {"none", "sleep", "gate", "kicked", "done"}]
      /\ run \in [Turn -> {"none", "queued", "loop", "gate", "drain", "done"}]
      /\ finished \in [Turn -> SUBSET Child]
  BY DEF Init
<1>5. /\ seen \in [Turn -> [Child -> Seq(Kind)]]
      /\ work \in [Turn -> [Child -> Work]]
      /\ ctl \in [Controller -> Call]
      /\ line \in Seq(Turn)
  BY <1>1, <1>2 DEF Init, Work
<1>. QED
  BY <1>3, <1>4, <1>5 DEF Init, TypeOK

\* Every variable keeps its type.
THEOREM TypeCorrect == Spec => []TypeOK
BY InitTypes, StepTypes, PTL DEF Spec

-------------------------------------------------------------------------------
Promise == INSTANCE TurnDeliveryProofs WITH queue <- line

\* What a turn nobody has taken up, or that was refused, looks like.
Entered ==
    \A t \in Turn :
        /\ status[t] = "none" <=> t >= next
        /\ status[t] \in {"none", "rejected"} =>
              /\ run[t] = "none" /\ expiry[t] = "none" /\ completed[t] = {}
              /\ \A k \in Controller : t \notin ctl[k].sel

\* An armed or waiting timer belongs to an open turn.
Timers == \A t \in Turn : expiry[t] \in {"sleep", "gate"} => Open(t)

\* The turn being submitted has no task, and none of its children ends alone.
Submitting ==
    sub.pc # "idle" =>
        /\ sub.turn + 1 = next
        /\ run[sub.turn] = "none" /\ expiry[sub.turn] = "none"
        /\ completed[sub.turn] \in {{}, Child}
        /\ sub.pc = "admitting" =>
              /\ Open(sub.turn) /\ ~InLine(line, sub.turn)
              /\ \A k \in Controller : sub.turn \notin ctl[k].sel

Counted == SettledOnce /\ ClosedWhenComplete

IInv == TypeOK /\ Entered /\ Timers /\ Submitting /\ Counted /\ Promise!Inv

-------------------------------------------------------------------------------
\* Both specifications speak of the same turns, children and kinds.
LEMMA SameNames ==
    /\ Promise!Turn = Turn /\ Promise!Child = Child
    /\ Promise!Kind = Kind /\ Promise!Gated = Gated
BY DEF Promise!Turn, Turn, Promise!Child, Child, Promise!Kind, Kind,
       Promise!Gated, Gated

\* The promise's operators on the line are those of OutputLine.
LEMMA SameLine ==
    /\ \A q, t : /\ Promise!InLine(q, t) <=> InLine(q, t)
                 /\ Promise!Ready(q, t) <=> Ready(q, t)
                 /\ Promise!Release(q, t) = Release(q, t)
    /\ \A q : /\ Promise!EvictOldest(q) = EvictOldest(q)
              /\ Promise!Increasing(q) <=> Increasing(q)
BY DEF Promise!InLine, InLine, Promise!Ready, Ready, Promise!Release, Release,
       Promise!Position, Position, Promise!EvictOldest, EvictOldest,
       Promise!Increasing, Increasing, Promise!RemoveAt, RemoveAt

\* The mapped state has the types of the promise.
LEMMA PromiseTypes == ASSUME TypeOK PROVE Promise!TypeOK
BY SameNames DEF TypeOK, Promise!TypeOK

\* Every turn has a child.
LEMMA ChildNotEmpty == Child # {} /\ 1 \in Child
BY KAssumption DEF Child

\* A child has been shown exactly when it is complete.
LEMMA UnseenRemains ==
    ASSUME TypeOK, SettledOnce, NEW t \in Turn
    PROVE  Promise!Unseen(t) = Remaining(t)
<1>1. ASSUME NEW c \in Child PROVE seen[t][c] = <<>> <=> c \notin completed[t]
  <2>1. seen[t][c] \in Seq(Kind)
    BY DEF TypeOK
  <2>2. Len(seen[t][c]) = IF c \in completed[t] THEN 1 ELSE 0
    BY DEF SettledOnce
  <2>. QED
    BY <2>1, <2>2, EmptySeq
<1>. QED
  BY <1>1, SameNames DEF Promise!Unseen, Remaining

\* Settling children of an open turn shows them, and keeps the books.
LEMMA SettleEffect ==
    ASSUME TypeOK, Counted, NEW t \in Turn, Open(t),
           NEW S \in SUBSET Remaining(t), NEW kind \in Kind, Settle(t, S, kind)
    PROVE  /\ Promise!Show(t, S, kind)
           /\ Counted'
           /\ \A u \in Turn : u # t => /\ status'[u] = status[u]
                                       /\ completed'[u] = completed[u]
           /\ completed'[t] = completed[t] \cup S
           /\ status'[t] = IF S = Remaining(t) THEN "closed" ELSE "open"
<1>1. Closes(t, S) <=> S = Remaining(t)
  BY DEF Closes, Remaining, TypeOK
<1>2. Promise!Unseen(t) = Remaining(t)
  BY UnseenRemains DEF Counted
<1>3. \A u \in Turn : u # t => /\ status'[u] = status[u]
                               /\ completed'[u] = completed[u]
                               /\ seen'[u] = seen[u]
  BY DEF Settle, TypeOK
<1>4. completed'[t] = completed[t] \cup S
  BY DEF Settle, TypeOK
<1>5. status'[t] = IF S = Remaining(t) THEN "closed" ELSE "open"
  BY <1>1 DEF Settle, TypeOK, Open
<1>6. \A c \in Child : seen'[t][c] = IF c \in S THEN Append(seen[t][c], kind)
                                     ELSE seen[t][c]
  BY DEF Settle, TypeOK
<1>7. Promise!Show(t, S, kind)
  <2>1. S = Remaining(t) \/ status' = status
    BY <1>1 DEF Settle, TypeOK, Open
  <2>2. seen' = [seen EXCEPT ![t] = [c \in Promise!Child |->
                   IF c \in S THEN Append(@[c], kind) ELSE @[c]]]
    BY DEF Settle, Child, Promise!Child
  <2>3. IF S = Remaining(t)
        THEN /\ status' = [status EXCEPT ![t] = "closed"]
             /\ line' = Release(line, t)
        ELSE UNCHANGED <<status, line>>
    BY <1>1, <2>1 DEF Settle
  <2>. QED
    BY <1>2, <2>2, <2>3, SameLine DEF Promise!Show, Open
<1>8. SettledOnce'
  <2> SUFFICES ASSUME NEW u \in Turn, NEW c \in Child
               PROVE  Len(seen'[u][c]) = IF c \in completed'[u] THEN 1 ELSE 0
    BY DEF SettledOnce
  <2>1. CASE u # t
    BY <2>1, <1>3 DEF Counted, SettledOnce
  <2>2. CASE u = t /\ c \notin S
    BY <2>2, <1>4, <1>6 DEF Counted, SettledOnce
  <2>3. CASE u = t /\ c \in S
    <3>1. seen[t][c] \in Seq(Kind) /\ Len(seen[t][c]) = 0
      BY <2>3 DEF Counted, SettledOnce, TypeOK, Remaining
    <3>2. Len(Append(seen[t][c], kind)) = 1
      BY <3>1
    <3>. QED
      BY <2>3, <3>2, <1>4, <1>6
  <2>. QED
    BY <2>1, <2>2, <2>3
<1>9. ClosedWhenComplete'
  <2>1. completed'[t] = Child <=> S = Remaining(t)
    BY <1>4 DEF Remaining, TypeOK
  <2>. QED
    BY <2>1, <1>3, <1>5 DEF Counted, ClosedWhenComplete
<1>. QED
  BY <1>3, <1>4, <1>5, <1>7, <1>8, <1>9 DEF Counted

-------------------------------------------------------------------------------
\* What a step may do to the variables TurnDelivery speaks of: some children of an
\* open turn are settled, a turn enters or takes its place, the line is emptied,
\* or nothing.
Allowed(t, S, kind) ==
    /\ kind = "translated" => Ready(line, t) /\ \E c \in Child : S = {c}
    /\ kind = "source" => Ready(line, t) /\ S = Remaining(t)
Settles ==
    /\ next' = next
    /\ \E t \in Turn, kind \in Kind : \E S \in SUBSET Remaining(t) :
          Open(t) /\ Settle(t, S, kind) /\ Allowed(t, S, kind)
Clears == line' = <<>> /\ UNCHANGED <<next, status, completed, seen>>
Quiet == UNCHANGED <<next, status, completed, seen, line>>
Still == Quiet /\ UNCHANGED <<tail, cancelling>>

\* Children of one open turn are settled in a way the promise allows.
LEMMA OneSettles ==
    ASSUME NEW t \in Turn, Open(t), NEW kind \in Kind,
           NEW S \in SUBSET Remaining(t), Settle(t, S, kind),
           Allowed(t, S, kind), next' = next
    PROVE  Settles
<1>1. Open(t) /\ Settle(t, S, kind) /\ Allowed(t, S, kind)
  OBVIOUS
<1>. QED
  BY <1>1, Zenon DEF Settles

\* So they are when the turn is retired.
LEMMA RetireSettles ==
    ASSUME NEW t \in Turn, Open(t), Retire(t), next' = next PROVE Settles
<1>1. PICK kind \in Kind :
         Settle(t, Remaining(t), kind) /\ Allowed(t, Remaining(t), kind)
  BY DEF Retire, RetiredKind, Kind, Allowed
<1>2. PICK S \in SUBSET Remaining(t) : S = Remaining(t)
  OBVIOUS
<1>3. Settle(t, S, kind) /\ Allowed(t, S, kind)
  BY <1>1, <1>2
<1>. QED
  BY <1>1, <1>3, OneSettles

\* So they are when they are shown as a fallback.
LEMMA FallbackSettles ==
    ASSUME NEW t \in Turn, Open(t), NEW S \in SUBSET Remaining(t),
           Settle(t, S, "fallback"), next' = next
    PROVE  Settles
BY OneSettles DEF Kind, Allowed

\* What a step of the submission is to the promise.
LEMMA SubmitSettles ==
    ASSUME IInv, SubmitStep
    PROVE  Settles \/ Submit \/ SubmitAdmitted \/ Still
<1>. USE DEF turnVars, taskVars, ownerVars, callerVars, Quiet, Still
<1>1. CASE SubmitRefused
  <2>1. sub.turn \in Turn /\ Open(sub.turn)
    BY <1>1, SubmissionTypes DEF SubmitRefused, IInv, Submitting
  <2>2. Settle(sub.turn, Remaining(sub.turn), "fallback") /\ next' = next
    BY <1>1 DEF SubmitRefused, SettleByOther
  <2>. QED
    BY <2>1, <2>2, FallbackSettles
<1>2. CASE SubmitOverflow
  <2>1. PICK v \in Overflow : Retire(v)
    BY <1>2 DEF SubmitOverflow
  <2>2. v \in Turn /\ Open(v) /\ next' = next
    BY <1>2 DEF SubmitOverflow, Overflow, Waiting
  <2>. QED
    BY <2>1, <2>2, RetireSettles
<1>3. CASE SubmitNoOverflow
  BY <1>3 DEF SubmitNoOverflow
<1>4. CASE SubmitFinish
  <2>1. sub.turn \in Turn
    BY <1>4, SubmissionTypes DEF SubmitFinish, IInv
  <2>2. CASE UNCHANGED <<turnVars, taskVars, ownerVars, line, faults>>
    BY <2>2
  <2>3. ASSUME Open(sub.turn), next' = next, NEW S \in SUBSET Child,
               S \subseteq Remaining(sub.turn),
               Settle(sub.turn, S, "fallback")
        PROVE  Settles
    BY <2>1, <2>3, FallbackSettles
  <2>4. Open(sub.turn) => Remaining(sub.turn) = Child
    <3>1. completed[sub.turn] \in {{}, Child}
      BY <1>4 DEF SubmitFinish, IInv, Submitting
    <3>2. completed[sub.turn] = Child => status[sub.turn] = "closed"
      BY <2>1 DEF IInv, Counted, ClosedWhenComplete
    <3>. QED
      BY <3>1, <3>2 DEF Open, Remaining
  <2>. QED
    BY <1>4, <2>2, <2>3, <2>4 DEF SubmitFinish, SettleByOther
<1>. QED
  BY <1>1, <1>2, <1>3, <1>4 DEF SubmitStep

\* What a step of a task is to the promise.
LEMMA TaskSettles ==
    ASSUME IInv, NEW t \in Turn,
           \/ ExpiryStep(t) \/ RunStep(t)
           \/ \E c \in Child : ChildStep(t, c)
    PROVE  Settles \/ Still
<1>. USE DEF turnVars, taskVars, ownerVars, callerVars, Quiet, Still
<1>1. CASE ExpiryFires(t) \/ ExpiryGate(t)
  <2>1. Open(t) /\ next' = next
    BY <1>1 DEF ExpiryFires, ExpiryGate, IInv, Timers
  <2>. QED
    BY <1>1, <2>1, RetireSettles DEF ExpiryFires, ExpiryGate
<1>2. CASE ExpiryKicked(t) \/ RunAbandoned(t) \/ RunDrained(t)
  BY <1>2, FallbackSettles DEF ExpiryKicked, RunAbandoned, RunDrained, SettleByOther
<1>3. CASE RunActivate(t) \/ RunCollect(t) \/ RunCancelled(t)
  BY <1>3 DEF RunActivate, RunCollect, RunCancelled, Drain
<1>4. ASSUME NEW c \in Child, RunWaits(t, c) PROVE Still
  BY <1>4 DEF RunWaits
<1>5. ASSUME NEW c \in Child, RunPublish(t, c) \/ RunGate(t, c) PROVE Settles
  <2>1. FirstOf(Remaining(t), 1) = {c}
    BY <1>5 DEF RunPublish, RunGate, Publishable
  <2>2. {c} \in SUBSET Remaining(t)
    BY <2>1 DEF FirstOf
  <2>3. Open(t)
    <3>1. completed[t] # Child
      BY <2>2 DEF Remaining
    <3>2. run[t] # "none"
      BY <1>5 DEF RunPublish, RunGate
    <3>3. status[t] \notin {"none", "rejected", "closed"}
      BY <3>1, <3>2 DEF IInv, Entered, Counted, ClosedWhenComplete
    <3>. QED
      BY <3>3 DEF IInv, TypeOK, Open
  <2>4. next' = next
    BY <1>5 DEF RunPublish, RunGate
  <2>5. PICK kind \in Kind :
           Settle(t, {c}, kind) /\ Allowed(t, {c}, kind)
    BY <1>5 DEF RunPublish, RunGate, Publish, SettleByOther, Kind, Allowed
  <2>. QED
    <3>1. PICK S \in SUBSET Remaining(t) : S = {c}
      BY <2>2
    <3>2. Settle(t, S, kind) /\ Allowed(t, S, kind)
      BY <2>5, <3>1
    <3>. QED
      BY <2>3, <2>4, <3>2, OneSettles
<1>6. ASSUME NEW c \in Child, ChildStep(t, c) PROVE Still
  BY <1>6 DEF ChildStep, ChildAcquire, ChildReturns, ChildDies, MarkStarted
<1>. QED
  BY <1>1, <1>2, <1>3, <1>4, <1>5, <1>6 DEF ExpiryStep, RunStep

\* What any step is to the promise.
LEMMA StepSettles ==
    ASSUME IInv, [Next]_vars
    PROVE  Settles \/ Submit \/ SubmitAdmitted \/ Clears \/ Quiet
<1>. USE DEF turnVars, taskVars, ownerVars, callerVars
<1>1. ASSUME NEW k \in Controller, NEW t \in Turn, CtlSettle(k, t) PROVE Settles
  BY <1>1, FallbackSettles DEF CtlSettle, SettleByOther
<1>2. ASSUME NEW k \in Controller, CtlSelect(k) \/ CtlCloseScope(k) \/ CtlReturn(k)
      PROVE  Quiet
  BY <1>2 DEF CtlSelect, CtlCloseScope, CtlReturn, Quiet
<1>3. ASSUME NEW k \in Controller, NEW kind, CtlBegin(k, kind) PROVE Clears
  BY <1>3 DEF CtlBegin, RetireGeneration, Clears
<1>4. CASE OpenIngress \/ Rest \/ UNCHANGED vars
  BY <1>4 DEF OpenIngress, Rest, vars, Quiet
<1>. QED
  BY <1>1, <1>2, <1>3, <1>4, SubmitSettles, TaskSettles DEF Next, CtlStep, Still

-------------------------------------------------------------------------------
\* What is settled is delivered, retired or given up, as TurnDelivery allows.
LEMMA SettlesPromised == ASSUME IInv, Settles PROVE Promise!Next /\ Counted'
<1>1. PICK t \in Turn, kind \in Kind : \E S \in SUBSET Remaining(t) :
         Open(t) /\ Settle(t, S, kind) /\ Allowed(t, S, kind)
  BY DEF Settles
<1>2. PICK S \in SUBSET Remaining(t) :
         Open(t) /\ Settle(t, S, kind) /\ Allowed(t, S, kind)
  BY <1>1
<1>3. Promise!Show(t, S, kind) /\ Counted'
  BY <1>2, SettleEffect DEF IInv
<1>4. S \in SUBSET Child
  BY DEF Remaining
<1>5. CASE kind = "translated"
  <2>1. PICK c \in Child : S = {c}
    BY <1>2, <1>5 DEF Allowed
  <2>2. Promise!Deliver(t, c)
    BY <1>2, <1>3, <1>5, <2>1, SameLine DEF Allowed, Promise!Deliver
  <2>. QED
    BY <1>3, <2>2, SameNames DEF Promise!Next
<1>6. CASE kind = "source"
  <2>1. S = Promise!Unseen(t)
    BY <1>2, <1>6, UnseenRemains DEF Allowed, IInv, Counted
  <2>2. Promise!Retire(t)
    BY <1>2, <1>3, <1>6, <2>1, SameLine DEF Allowed, Promise!Retire
  <2>. QED
    BY <1>3, <2>2, SameNames DEF Promise!Next
<1>7. CASE kind = "fallback"
  <2>1. Promise!GiveUp(t, S)
    BY <1>3, <1>7 DEF Promise!GiveUp
  <2>. QED
    BY <1>3, <1>4, <2>1, SameNames DEF Promise!Next
<1>. QED
  BY <1>5, <1>6, <1>7 DEF Kind

\* A submission enters the newest turn.
LEMMA SubmitPromised == ASSUME IInv, Submit PROVE Promise!Next /\ Counted'
<1>1. next \in Turn /\ status[next] = "none"
  BY NAssumption DEF Submit, IInv, TypeOK, Entered, Turn
<1>2. \E s \in {"open", "rejected"} : status' = [status EXCEPT ![next] = s]
  BY DEF Submit
<1>3. UNCHANGED <<seen, line, completed>>
  BY DEF Submit
<1>4. Promise!Enter(next)
  <2>1. \A u \in Turn : u > next => status[u] = "none"
    BY TurnInt DEF IInv, Entered, TypeOK
  <2>. QED
    BY <1>1, <1>2, <1>3, <2>1, SameNames DEF Promise!Enter, Promise!Newest
<1>5. completed[next] # Child
  BY <1>1 DEF IInv, Counted, ClosedWhenComplete
<1>6. Counted'
  BY <1>1, <1>2, <1>3, <1>5
     DEF IInv, TypeOK, Counted, SettledOnce, ClosedWhenComplete
<1>. QED
  BY <1>1, <1>4, <1>6, SameNames DEF Promise!Next

\* An admitted submission takes its place behind the others.
LEMMA AdmittedPromised == ASSUME IInv, SubmitAdmitted PROVE Promise!Next /\ Counted'
<1>1. /\ sub.turn \in Turn /\ sub.turn + 1 = next /\ Open(sub.turn)
      /\ ~InLine(line, sub.turn)
      /\ completed[sub.turn] \in {{}, Child}
  BY SubmissionTypes DEF SubmitAdmitted, IInv, Submitting
<1>2. PICK t \in Turn : t = sub.turn
  BY <1>1
<1>3. UNCHANGED <<status, seen, completed>>
  BY DEF SubmitAdmitted
<1>4. Promise!Newest(t)
  <2>1. \A u \in Turn : u > t => u >= next
    BY <1>1, <1>2, TurnInt DEF IInv, TypeOK
  <2>. QED
    BY <2>1, SameNames DEF Promise!Newest, IInv, Entered
<1>5. \A c \in Child : seen[t][c] = <<>>
  <2>1. completed[t] = {}
    BY <1>1, <1>2 DEF IInv, Counted, ClosedWhenComplete, Open
  <2>2. Promise!Unseen(t) = Child
    BY <2>1, UnseenRemains DEF IInv, Counted, Remaining
  <2>. QED
    BY <2>2, SameNames DEF Promise!Unseen
<1>6. \/ line' = Append(line, t)
      \/ Len(line) > 1 /\ line' = Append(EvictOldest(line), t)
  <2>1. line' = Admit(line, t, MaxUnsent)
    BY <1>2 DEF SubmitAdmitted
  <2>2. Pressured(line, MaxUnsent) => Len(line) > 1
    BY LimitAssumption, LenProperties DEF Pressured, IInv, TypeOK
  <2>. QED
    BY <2>1, <2>2 DEF Admit
<1>7. Promise!TakePlace(t)
  BY <1>1, <1>2, <1>3, <1>4, <1>5, <1>6, SameLine, SameNames
     DEF Promise!TakePlace, Open
<1>8. Counted'
  BY <1>3 DEF IInv, Counted, SettledOnce, ClosedWhenComplete
<1>. QED
  BY <1>7, <1>8, SameNames DEF Promise!Next

\* Every step is one of TurnDelivery or a stutter, and keeps the books.
LEMMA StepPromised ==
    ASSUME IInv, [Next]_vars PROVE [Promise!Next]_(Promise!vars) /\ Counted'
<1>1. CASE Clears
  <2>1. Promise!Flush
    BY <1>1 DEF Clears, Promise!Flush
  <2>2. Counted'
    BY <1>1 DEF Clears, IInv, Counted, SettledOnce, ClosedWhenComplete
  <2>. QED
    BY <2>1, <2>2 DEF Promise!Next
<1>2. CASE Quiet
  <2>1. UNCHANGED Promise!vars
    BY <1>2 DEF Quiet, Promise!vars
  <2>2. Counted'
    BY <1>2 DEF Quiet, IInv, Counted, SettledOnce, ClosedWhenComplete
  <2>. QED
    BY <2>1, <2>2
<1>. QED
  BY <1>1, <1>2, StepSettles, SettlesPromised, SubmitPromised, AdmittedPromised

-------------------------------------------------------------------------------
\* What every step but the two that create a turn and its tasks leaves as it is.
\* No task appears; an armed timer is one of an open turn; children end alone
\* only under a run, and not at all while their turn is being admitted.
TasksKept ==
    \A u \in Turn :
        /\ run[u] = "none" => run'[u] = "none"
        /\ expiry[u] = "none" => expiry'[u] = "none"
        /\ expiry'[u] \in {"sleep", "gate"} => status'[u] = "open"
        /\ completed'[u] # completed[u] =>
              /\ completed'[u] = Child \/ run[u] # "none"
              /\ ~(sub'.pc = "admitting" /\ u = sub.turn)

\* A controller only selects open turns that are not being admitted.
CallsKept ==
    \A k \in Controller, u \in Turn :
        u \in ctl'[k].sel => \/ u \in ctl[k].sel
                             \/ Open(u) /\ ~(sub.pc = "admitting" /\ u = sub.turn)

\* The submission stays, ends, or goes on beyond its admission.
SubmissionKept ==
    \/ sub' = sub
    \/ sub' = Idle
    \/ sub.pc # "idle" /\ sub'.turn = sub.turn /\ sub'.pc # "admitting"

\* Turns only close, children only end in open turns, and the line gets no turn.
LEMMA BookEffect ==
    ASSUME IInv, Settles \/ Clears \/ Quiet \/ SubmitAdmitted
    PROVE  /\ next' = next
           /\ \A u \in Turn :
                 /\ \/ status'[u] = status[u]
                    \/ status[u] = "open" /\ status'[u] = "closed"
                 /\ completed'[u] # completed[u] => Open(u)
           /\ \A u : InLine(line', u) => SubmitAdmitted \/ InLine(line, u)
<1>1. CASE Settles
  <2>1. PICK t \in Turn, kind \in Kind : \E S \in SUBSET Remaining(t) :
           Open(t) /\ Settle(t, S, kind)
    BY <1>1 DEF Settles
  <2>2. PICK S \in SUBSET Remaining(t) : Open(t) /\ Settle(t, S, kind)
    BY <2>1
  <2>3. /\ \A u \in Turn : u # t => /\ status'[u] = status[u]
                                    /\ completed'[u] = completed[u]
        /\ status'[t] = IF S = Remaining(t) THEN "closed" ELSE "open"
    BY <2>2, SettleEffect DEF IInv
  <2>4. \A u : InLine(line', u) => InLine(line, u)
    <3>1. Increasing(line) /\ line \in Seq(Turn)
      BY SameLine DEF IInv, TypeOK, Promise!Inv, Promise!QueueOrdered
    <3>2. \A u : InLine(Release(line, t), u) => InLine(line, u)
      BY <3>1, ReleaseLine, TurnInt
    <3>. QED
      BY <2>2, <3>2 DEF Settle
  <2>5. next' = next
    BY <1>1 DEF Settles
  <2>. QED
    BY <2>2, <2>3, <2>4, <2>5 DEF Open
<1>2. CASE Clears
  BY <1>2, EmptySeq DEF Clears, InLine
<1>3. CASE Quiet
  BY <1>3 DEF Quiet
<1>4. CASE SubmitAdmitted
  BY <1>4 DEF SubmitAdmitted
<1>. QED
  BY <1>1, <1>2, <1>3, <1>4

\* A step that respects the tasks, the calls and the submission keeps what is said of them.
LEMMA FrameKeeps ==
    ASSUME IInv, Counted', Settles \/ Clears \/ Quiet \/ SubmitAdmitted,
           TasksKept, CallsKept, SubmissionKept
    PROVE  Entered' /\ Timers' /\ Submitting'
<1>1. /\ next' = next
      /\ \A u \in Turn :
            /\ \/ status'[u] = status[u]
               \/ status[u] = "open" /\ status'[u] = "closed"
            /\ completed'[u] # completed[u] => Open(u)
      /\ \A u : InLine(line', u) => SubmitAdmitted \/ InLine(line, u)
  BY BookEffect
<1>2. Timers'
  BY DEF TasksKept, Timers, Open
<1>3. Entered'
  <2> SUFFICES ASSUME NEW t \in Turn
               PROVE  /\ status'[t] = "none" <=> t >= next'
                      /\ status'[t] \in {"none", "rejected"} =>
                            /\ run'[t] = "none" /\ expiry'[t] = "none"
                            /\ completed'[t] = {}
                            /\ \A k \in Controller : t \notin ctl'[k].sel
    BY DEF Entered
  <2>1. status'[t] = "none" <=> t >= next'
    BY <1>1 DEF IInv, Entered
  <2>2. ASSUME status'[t] \in {"none", "rejected"}
        PROVE  /\ run'[t] = "none" /\ expiry'[t] = "none" /\ completed'[t] = {}
               /\ \A k \in Controller : t \notin ctl'[k].sel
    <3>1. status[t] \in {"none", "rejected"} /\ ~Open(t)
      BY <1>1, <2>2 DEF Open
    <3>. QED
      BY <1>1, <3>1 DEF IInv, Entered, TasksKept, CallsKept
  <2>. QED
    BY <2>1, <2>2
<1>4. Submitting'
  <2> SUFFICES ASSUME sub'.pc # "idle"
               PROVE  /\ sub'.turn + 1 = next'
                      /\ run'[sub'.turn] = "none" /\ expiry'[sub'.turn] = "none"
                      /\ completed'[sub'.turn] \in {{}, Child}
                      /\ sub'.pc = "admitting" =>
                            /\ status'[sub'.turn] = "open" /\ ~InLine(line', sub'.turn)
                            /\ \A k \in Controller : sub'.turn \notin ctl'[k].sel
    BY DEF Submitting, Open
  <2>1. sub.pc # "idle" /\ sub'.turn = sub.turn /\ (sub'.pc = "admitting" => sub' = sub)
    BY DEF SubmissionKept, Idle
  <2>2. sub.turn \in Turn
    BY <2>1, SubmissionTypes DEF IInv
  <2>3. /\ sub.turn + 1 = next
        /\ run[sub.turn] = "none" /\ expiry[sub.turn] = "none"
        /\ completed[sub.turn] \in {{}, Child}
        /\ sub.pc = "admitting" =>
              /\ Open(sub.turn) /\ ~InLine(line, sub.turn)
              /\ \A k \in Controller : sub.turn \notin ctl[k].sel
    BY <2>1 DEF IInv, Submitting
  <2>4. completed'[sub.turn] \in {{}, Child}
    BY <2>2, <2>3 DEF TasksKept
  <2>5. ASSUME sub'.pc = "admitting"
        PROVE  /\ status'[sub.turn] = "open" /\ ~InLine(line', sub.turn)
               /\ \A k \in Controller : sub.turn \notin ctl'[k].sel
    <3>1. sub' = sub /\ sub.pc = "admitting"
      BY <2>1, <2>5
    <3>2. completed'[sub.turn] = completed[sub.turn]
      BY <2>2, <2>5 DEF TasksKept
    <3>3. status'[sub.turn] = "open"
      BY <1>1, <2>2, <2>3, <3>1, <3>2
         DEF IInv, Counted, ClosedWhenComplete, Open
    <3>4. ~SubmitAdmitted
      BY <3>1, SubmissionTypes DEF SubmitAdmitted, IInv, Submission
    <3>. QED
      BY <1>1, <2>2, <2>3, <3>1, <3>3, <3>4 DEF CallsKept
  <2>. QED
    BY <1>1, <2>1, <2>2, <2>3, <2>4, <2>5 DEF TasksKept
<1>. QED
  BY <1>2, <1>3, <1>4

-------------------------------------------------------------------------------
\* The step of a task touches one turn, which has that task.
LEMMA OneTurnKeeps ==
    ASSUME IInv, NEW t \in Turn,
           \A u \in Turn : u # t => /\ run'[u] = run[u] /\ expiry'[u] = expiry[u]
                                    /\ status'[u] = status[u]
                                    /\ completed'[u] = completed[u],
           run[t] = "none" => run'[t] = "none",
           expiry[t] = "none" => expiry'[t] = "none",
           expiry'[t] \in {"sleep", "gate"} => status'[t] = "open",
           completed'[t] # completed[t] =>
              /\ completed'[t] = Child \/ run[t] # "none"
              /\ ~(sub'.pc = "admitting" /\ t = sub.turn)
    PROVE  TasksKept
BY DEF TasksKept, IInv, Timers, Open

\* While a turn is submitted it has no run task and no timer.
LEMMA NoTaskYet ==
    ASSUME IInv, NEW t \in Turn, run[t] # "none" \/ expiry[t] # "none"
    PROVE  ~(sub.pc = "admitting" /\ t = sub.turn)
BY DEF IInv, Submitting

\* Settling by another task leaves no armed timer behind a closed turn.
LEMMA SettleByOtherKeeps ==
    ASSUME IInv, NEW t \in Turn, Open(t), NEW S \in SUBSET Remaining(t),
           NEW kind \in Kind, SettleByOther(t, S, kind)
    PROVE  /\ \A u \in Turn : u # t => /\ expiry'[u] = expiry[u]
                                       /\ status'[u] = status[u]
                                       /\ completed'[u] = completed[u]
           /\ expiry[t] = "none" => expiry'[t] = "none"
           /\ expiry'[t] \in {"sleep", "gate"} => status'[t] = "open"
           /\ S = Remaining(t) => completed'[t] = Child
<1>1. Settle(t, S, kind)
  BY DEF SettleByOther
<1>2. /\ \A u \in Turn : u # t => /\ status'[u] = status[u]
                                  /\ completed'[u] = completed[u]
      /\ completed'[t] = completed[t] \cup S
      /\ status'[t] = IF S = Remaining(t) THEN "closed" ELSE "open"
  BY <1>1, SettleEffect DEF IInv
<1>3. Closes(t, S) <=> S = Remaining(t)
  BY DEF Closes, Remaining, IInv, TypeOK
<1>4. expiry'[t] = IF Closes(t, S) THEN EndTimer(expiry[t]) ELSE expiry[t]
  BY DEF SettleByOther, IInv, TypeOK
<1>5. \A u \in Turn : u # t => expiry'[u] = expiry[u]
  BY DEF SettleByOther, IInv, TypeOK
<1>6. completed[t] \in SUBSET Child
  BY DEF IInv, TypeOK
<1>. QED
  BY <1>2, <1>3, <1>4, <1>5, <1>6 DEF EndTimer, Remaining

\* Retiring closes the turn.
LEMMA RetireKeeps ==
    ASSUME IInv, NEW t \in Turn, Open(t), Retire(t)
    PROVE  /\ \A u \in Turn : u # t => /\ status'[u] = status[u]
                                       /\ completed'[u] = completed[u]
           /\ completed'[t] = Child
<1>1. PICK kind \in Kind : Settle(t, Remaining(t), kind)
  BY DEF Retire, RetiredKind, Kind
<1>2. completed'[t] = completed[t] \cup Remaining(t)
  BY <1>1 DEF Settle, IInv, TypeOK
<1>3. \A u \in Turn : u # t => /\ status'[u] = status[u]
                               /\ completed'[u] = completed[u]
  BY <1>1 DEF Settle, IInv, TypeOK
<1>4. completed[t] \in SUBSET Child
  BY DEF IInv, TypeOK
<1>. QED
  BY <1>2, <1>3, <1>4 DEF Remaining

\* The waiting timers respect the tasks.
LEMMA ExpiryKeeps == ASSUME IInv, NEW t \in Turn, ExpiryStep(t) PROVE TasksKept
<1>. USE DEF turnVars, taskVars, ownerVars, callerVars
<1>1. UNCHANGED run /\ expiry[t] # "none" /\ sub' = sub
  BY DEF ExpiryStep, ExpiryFires, ExpiryGate, ExpiryKicked
<1>2. \A u \in Turn : u # t => expiry'[u] = expiry[u]
  BY DEF ExpiryStep, ExpiryFires, ExpiryGate, ExpiryKicked, IInv, TypeOK
<1>3. ~(sub'.pc = "admitting" /\ t = sub.turn)
  BY <1>1, NoTaskYet
<1>4. /\ expiry'[t] \in {"done", "gate"}
      /\ expiry'[t] = "gate" => Open(t) /\ status' = status
  BY DEF ExpiryStep, ExpiryFires, ExpiryGate, ExpiryKicked, IInv, TypeOK, Timers
<1>5. CASE Open(t) /\ Retire(t)
  BY <1>1, <1>2, <1>3, <1>4, <1>5, RetireKeeps, OneTurnKeeps DEF Open
<1>6. CASE Open(t) /\ Settle(t, Remaining(t), "fallback")
  <2>1. \A u \in Turn : u # t => /\ status'[u] = status[u]
                                 /\ completed'[u] = completed[u]
    BY <1>6 DEF Settle, IInv, TypeOK
  <2>2. completed'[t] = completed[t] \cup Remaining(t) /\ completed[t] \in SUBSET Child
    BY <1>6 DEF Settle, IInv, TypeOK
  <2>3. completed'[t] = Child
    BY <2>2 DEF Remaining
  <2>. QED
    BY <1>1, <1>2, <1>3, <1>4, <2>1, <2>3, OneTurnKeeps DEF Open
<1>7. CASE UNCHANGED <<status, completed>>
  BY <1>1, <1>2, <1>3, <1>4, <1>7, OneTurnKeeps DEF Open
<1>. QED
  BY <1>5, <1>6, <1>7
     DEF ExpiryStep, ExpiryFires, ExpiryGate, ExpiryKicked, IInv, Timers

\* The runs respect the tasks.
LEMMA RunKeeps == ASSUME IInv, NEW t \in Turn, RunStep(t) PROVE TasksKept
<1>. USE DEF turnVars, taskVars, ownerVars, callerVars
<1>1. run[t] # "none" /\ sub' = sub
  BY DEF RunStep, RunActivate, RunAbandoned, RunCollect, RunPublish, RunWaits,
         RunGate, RunCancelled, RunDrained, Drain
<1>2. \A u \in Turn : u # t => run'[u] = run[u]
  <2>1. CASE run' = run
    BY <2>1
  <2>2. ASSUME NEW r, run' = [run EXCEPT ![t] = r]
        PROVE  \A u \in Turn : u # t => run'[u] = run[u]
    BY <2>2 DEF IInv, TypeOK
  <2>. QED
    BY <2>1, <2>2
       DEF RunStep, RunActivate, RunAbandoned, RunCollect, RunPublish, RunWaits,
           RunGate, RunCancelled, RunDrained, Drain, Publish
<1>3. ~(sub'.pc = "admitting" /\ t = sub.turn)
  BY <1>1, NoTaskYet
<1>4. CASE UNCHANGED <<status, completed, expiry>>
  <2>1. expiry'[t] \in {"sleep", "gate"} => status'[t] = "open"
    BY <1>4 DEF IInv, Timers, Open
  <2>. QED
    BY <1>1, <1>2, <1>3, <1>4, <2>1, OneTurnKeeps
<1>5. ASSUME Open(t), NEW S \in SUBSET Remaining(t), NEW kind \in Kind,
             SettleByOther(t, S, kind)
      PROVE  TasksKept
  BY <1>1, <1>2, <1>3, <1>5, SettleByOtherKeeps, OneTurnKeeps
<1>6. CASE RunAbandoned(t) \/ RunDrained(t)
  <2>1. CASE Open(t)
    <3>1. PICK S \in SUBSET Remaining(t) : S = Remaining(t)
      OBVIOUS
    <3>2. SettleByOther(t, S, "fallback")
      BY <1>6, <2>1, <3>1 DEF RunAbandoned, RunDrained
    <3>. QED
      BY <1>5, <2>1, <3>2 DEF Kind
  <2>2. CASE ~Open(t)
    BY <1>4, <1>6, <2>2 DEF RunAbandoned, RunDrained
  <2>. QED
    BY <2>1, <2>2
<1>7. ASSUME NEW c \in Child, RunPublish(t, c) \/ RunGate(t, c) PROVE TasksKept
  <2>1. FirstOf(Remaining(t), 1) = {c}
    BY <1>7 DEF RunPublish, RunGate, Publishable
  <2>2. PICK S \in SUBSET Remaining(t) : S = {c}
    BY <2>1 DEF FirstOf
  <2>3. Open(t)
    <3>1. completed[t] # Child
      BY <2>1 DEF Remaining, FirstOf
    <3>. QED
      BY <1>1, <3>1 DEF IInv, Entered, Counted, ClosedWhenComplete, TypeOK, Open
  <2>4. PICK kind \in Kind : SettleByOther(t, {c}, kind)
    BY <1>7 DEF RunPublish, RunGate, Publish, Kind
  <2>5. SettleByOther(t, S, kind)
    BY <2>2, <2>4
  <2>. QED
    BY <1>5, <2>3, <2>5
<1>. QED
  BY <1>4, <1>6, <1>7
     DEF RunStep, RunActivate, RunCollect, RunWaits, RunCancelled

\* The provider calls respect the tasks.
LEMMA ChildKeeps ==
    ASSUME IInv, NEW t \in Turn, NEW c \in Child, ChildStep(t, c) PROVE TasksKept
<1>. USE DEF turnVars, taskVars, ownerVars, callerVars
<1>1. UNCHANGED <<run, status, completed>>
  BY DEF ChildStep, ChildAcquire, ChildReturns, ChildDies
<1>2. expiry' = expiry \/ expiry' = [expiry EXCEPT ![t] = CancelTimer(@)]
  BY DEF ChildStep, ChildAcquire, ChildReturns, ChildDies, MarkStarted
<1>3. \A u \in Turn : u # t => expiry'[u] = expiry[u]
  BY <1>2 DEF IInv, TypeOK
<1>4. expiry'[t] \in {expiry[t], CancelTimer(expiry[t])}
  BY <1>2 DEF IInv, TypeOK
<1>5. /\ expiry[t] = "none" => expiry'[t] = "none"
      /\ expiry'[t] \in {"sleep", "gate"} => expiry[t] \in {"sleep", "gate"}
  BY <1>4 DEF CancelTimer
<1>6. expiry'[t] \in {"sleep", "gate"} => status'[t] = "open"
  BY <1>1, <1>5 DEF IInv, Timers, Open
<1>. QED
  BY <1>1, <1>3, <1>5, <1>6, OneTurnKeeps

\* Nothing of a turn or its tasks changes.
LEMMA IdleKeeps ==
    ASSUME IInv, UNCHANGED <<run, expiry, status, completed>> PROVE TasksKept
BY DEF TasksKept, IInv, Timers, Open

\* A step outside the submission keeps what an untouched turn looks like.
LEMMA OtherStepKeeps ==
    ASSUME IInv, [Next]_vars, ~SubmitStep
    PROVE  Entered' /\ Timers' /\ Submitting'
<1>. USE DEF turnVars, taskVars, ownerVars, callerVars
<1>0. Counted'
  BY StepPromised
<1>1. ASSUME NEW t \in Turn,
             \/ ExpiryStep(t) \/ RunStep(t) \/ \E c \in Child : ChildStep(t, c)
      PROVE  Entered' /\ Timers' /\ Submitting'
  <2>1. sub' = sub /\ ctl' = ctl
    BY <1>1 DEF ExpiryStep, ExpiryFires, ExpiryGate, ExpiryKicked, RunStep,
                RunActivate, RunAbandoned, RunCollect, RunPublish, RunWaits,
                RunGate, RunCancelled, RunDrained, ChildStep, ChildAcquire,
                ChildReturns, ChildDies
  <2>2. CallsKept /\ SubmissionKept
    BY <2>1 DEF CallsKept, SubmissionKept
  <2>3. TasksKept
    BY <1>1, ExpiryKeeps, RunKeeps, ChildKeeps
  <2>. QED
    BY <1>0, <1>1, <2>2, <2>3, TaskSettles, FrameKeeps DEF Still
<1>2. ASSUME NEW k \in Controller, NEW t \in Turn, CtlSettle(k, t)
      PROVE  Entered' /\ Timers' /\ Submitting'
  <2>1. UNCHANGED <<run, sub, ctl>> /\ Open(t) /\ t \in ctl[k].sel
    BY <1>2 DEF CtlSettle
  <2>2. PICK S \in SUBSET Remaining(t) : S = Remaining(t)
    OBVIOUS
  <2>3. SettleByOther(t, S, "fallback")
    BY <1>2, <2>2 DEF CtlSettle
  <2>4. TasksKept
    <3>1. ~(sub'.pc = "admitting" /\ t = sub.turn)
      BY <2>1 DEF IInv, Submitting
    <3>. QED
      BY <2>1, <2>2, <2>3, <3>1, SettleByOtherKeeps, OneTurnKeeps DEF Kind
  <2>5. CallsKept /\ SubmissionKept
    BY <2>1 DEF CallsKept, SubmissionKept
  <2>6. Settles
    BY <1>2, FallbackSettles DEF CtlSettle, SettleByOther
  <2>. QED
    BY <1>0, <2>4, <2>5, <2>6, FrameKeeps
<1>3. ASSUME NEW k \in Controller, NEW kind, CtlBegin(k, kind)
      PROVE  Entered' /\ Timers' /\ Submitting'
  <2>1. UNCHANGED <<run, expiry, status, completed, sub>> /\ Clears
    BY <1>3 DEF CtlBegin, RetireGeneration, Clears
  <2>2. ctl' = [ctl EXCEPT ![k] = [pc |-> "select", kind |-> kind, sel |-> {}]]
    BY <1>3 DEF CtlBegin
  <2>3. CallsKept
    BY <2>2 DEF CallsKept, IInv, TypeOK
  <2>. QED
    BY <1>0, <2>1, <2>3, IdleKeeps, FrameKeeps DEF SubmissionKept
<1>4. ASSUME NEW k \in Controller, CtlSelect(k)
      PROVE  Entered' /\ Timers' /\ Submitting'
  <2>1. UNCHANGED <<run, expiry, status, completed, sub>> /\ Quiet /\ LockFree
    BY <1>4 DEF CtlSelect, Quiet
  <2>2. ctl' = [ctl EXCEPT ![k] = [pc |-> "join", kind |-> ctl[k].kind,
                                   sel |-> OpenTurns]]
    BY <1>4 DEF CtlSelect, Selected
  <2>3. CallsKept
    BY <2>1, <2>2 DEF CallsKept, IInv, TypeOK, OpenTurns, LockFree
  <2>. QED
    BY <1>0, <2>1, <2>3, IdleKeeps, FrameKeeps DEF SubmissionKept
<1>5. ASSUME NEW k \in Controller, CtlCloseScope(k)
      PROVE  Entered' /\ Timers' /\ Submitting'
  <2>1. UNCHANGED <<run, status, completed, sub>> /\ Quiet /\ LockFree
    BY <1>5 DEF CtlCloseScope, Quiet
  <2>2. ctl' = [ctl EXCEPT ![k] = [pc |-> "join", kind |-> ctl[k].kind,
                                   sel |-> OpenTurns]]
    BY <1>5 DEF CtlCloseScope
  <2>3. CallsKept
    BY <2>1, <2>2 DEF CallsKept, IInv, TypeOK, OpenTurns, LockFree
  <2>4. expiry' = [t \in Turn |-> CancelTimer(expiry[t])]
    BY <1>5 DEF CtlCloseScope
  <2>5. TasksKept
    BY <2>1, <2>4 DEF TasksKept, CancelTimer, IInv, Timers, Open
  <2>. QED
    BY <1>0, <2>1, <2>3, <2>5, FrameKeeps DEF SubmissionKept
<1>6. ASSUME NEW k \in Controller, CtlReturn(k)
      PROVE  Entered' /\ Timers' /\ Submitting'
  <2>1. UNCHANGED <<run, expiry, status, completed, sub>> /\ Quiet
    BY <1>6 DEF CtlReturn, Quiet
  <2>2. ctl' = [ctl EXCEPT ![k] = NoCall]
    BY <1>6 DEF CtlReturn
  <2>3. CallsKept
    BY <2>2 DEF CallsKept, IInv, TypeOK, NoCall
  <2>. QED
    BY <1>0, <2>1, <2>3, IdleKeeps, FrameKeeps DEF SubmissionKept
<1>7. CASE OpenIngress \/ Rest \/ UNCHANGED vars
  <2>1. UNCHANGED <<run, expiry, status, completed, sub, ctl>> /\ Quiet
    BY <1>7 DEF OpenIngress, Rest, vars, Quiet
  <2>2. CallsKept /\ SubmissionKept
    BY <2>1 DEF CallsKept, SubmissionKept
  <2>. QED
    BY <1>0, <2>1, <2>2, IdleKeeps, FrameKeeps
<1>. QED
  BY <1>1, <1>2, <1>3, <1>4, <1>5, <1>6, <1>7 DEF Next, CtlStep

\* Nor do the steps of a submission that neither enter a turn nor start its tasks.
LEMMA AdmissionKeeps ==
    ASSUME IInv, SubmitAdmitted \/ SubmitRefused \/ SubmitOverflow \/ SubmitNoOverflow
    PROVE  Entered' /\ Timers' /\ Submitting'
<1>. USE DEF turnVars, taskVars, ownerVars, callerVars
<1>0. Counted' /\ (Settles \/ Clears \/ Quiet \/ SubmitAdmitted)
  <2>1. [Next]_vars /\ SubmitStep
    BY DEF Next, SubmitStep
  <2>2. ~Submit
    BY DEF SubmitAdmitted, SubmitRefused, SubmitOverflow, SubmitNoOverflow, Submit
  <2>. QED
    BY <2>1, <2>2, StepPromised, SubmitSettles DEF Still
<1>1. sub.pc # "idle" /\ sub \in Submission /\ sub.turn \in Turn /\ ctl' = ctl
  BY SubmissionTypes
     DEF SubmitAdmitted, SubmitRefused, SubmitOverflow, SubmitNoOverflow, IInv
<1>2. SubmissionKept /\ CallsKept /\ sub'.pc # "admitting"
  <2>1. \/ \E pc \in {"overflow", "finish"} : sub' = [sub EXCEPT !.pc = pc]
        \/ \E v \in Overflow : sub' = [sub EXCEPT !.pc = "join", !.victim = v]
    BY DEF SubmitAdmitted, SubmitRefused, SubmitOverflow, SubmitNoOverflow
  <2>2. sub'.turn = sub.turn /\ sub'.pc # "admitting"
    BY <1>1, <2>1 DEF Submission
  <2>. QED
    BY <1>1, <2>2 DEF SubmissionKept, CallsKept
<1>3. CASE SubmitAdmitted \/ SubmitNoOverflow
  <2>1. UNCHANGED <<run, expiry, status, completed>>
    BY <1>3 DEF SubmitAdmitted, SubmitNoOverflow
  <2>. QED
    BY <1>0, <1>2, <2>1, IdleKeeps, FrameKeeps
<1>4. CASE SubmitRefused
  <2>1. Open(sub.turn) /\ run' = run
    BY <1>4 DEF SubmitRefused, IInv, Submitting
  <2>2. PICK t \in Turn : t = sub.turn
    BY <1>1
  <2>3. PICK S \in SUBSET Remaining(t) : S = Remaining(sub.turn)
    BY <2>2
  <2>4. SettleByOther(t, S, "fallback")
    BY <1>4, <2>2, <2>3 DEF SubmitRefused, SettleByOther, Settle, Closes
  <2>5. TasksKept
    BY <1>2, <2>1, <2>2, <2>3, <2>4, SettleByOtherKeeps, OneTurnKeeps DEF Kind
  <2>. QED
    BY <1>0, <1>2, <2>5, FrameKeeps
<1>5. CASE SubmitOverflow
  <2>1. PICK v \in Overflow :
           Retire(v) /\ expiry' = [expiry EXCEPT ![v] = EndTimer(@)]
    BY <1>5 DEF SubmitOverflow
  <2>2. v \in Turn /\ Open(v) /\ run' = run
    BY <1>5 DEF SubmitOverflow, Overflow, Waiting
  <2>3. /\ expiry'[v] = EndTimer(expiry[v])
        /\ \A u \in Turn : u # v => expiry'[u] = expiry[u]
    BY <2>1, <2>2 DEF IInv, TypeOK
  <2>4. expiry[v] = "none" => expiry'[v] = "none"
    BY <2>3 DEF EndTimer
  <2>5. expiry'[v] \notin {"sleep", "gate"}
    BY <2>3 DEF EndTimer
  <2>6. TasksKept
    BY <1>2, <2>1, <2>2, <2>3, <2>4, <2>5, RetireKeeps, OneTurnKeeps
  <2>. QED
    BY <1>0, <1>2, <2>6, FrameKeeps
<1>. QED
  BY <1>3, <1>4, <1>5

\* A submission enters one turn, which has nothing yet.
LEMMA SubmitKeeps == ASSUME IInv, Submit PROVE Entered' /\ Timers' /\ Submitting'
<1>. USE DEF turnVars, taskVars, ownerVars, callerVars
<1>1. next \in Turn /\ next' = next + 1 /\ sub.pc = "idle" /\ next \in Nat
  BY NAssumption DEF Submit, IInv, TypeOK, Turn
<1>2. UNCHANGED <<run, expiry, completed, ctl, line>>
  BY DEF Submit
<1>3. /\ status[next] = "none" /\ run[next] = "none" /\ expiry[next] = "none"
      /\ completed[next] = {} /\ \A k \in Controller : next \notin ctl[k].sel
  BY <1>1, TurnInt DEF IInv, Entered
<1>4. /\ \A u \in Turn : u # next => status'[u] = status[u]
      /\ status'[next] \in {"open", "rejected"}
  BY <1>1 DEF Submit, IInv, TypeOK
<1>5. Entered'
  <2>1. \A u \in Turn : u # next => (u >= next <=> u >= next + 1)
    BY <1>1, TurnInt
  <2>. QED
    BY <1>1, <1>2, <1>3, <1>4, <2>1, TurnInt DEF IInv, Entered
<1>6. Timers'
  BY <1>2, <1>3, <1>4 DEF IInv, Timers, Open
<1>7. CASE sub' = sub
  BY <1>1, <1>5, <1>6, <1>7 DEF Submitting
<1>8. CASE /\ status' = [status EXCEPT ![next] = "open"]
           /\ sub' = [Idle EXCEPT !.pc = "admitting", !.turn = next]
  <2>1. sub'.turn = next /\ status'[next] = "open"
    BY <1>1, <1>8 DEF Idle, IInv, TypeOK
  <2>2. ~InLine(line, next)
    BY <1>1, <1>3, SameLine, SameNames
       DEF IInv, Promise!Inv, Promise!QueueOrdered
  <2>. QED
    BY <1>1, <1>2, <1>3, <1>5, <1>6, <2>1, <2>2 DEF Submitting, Open
<1>. QED
  BY <1>7, <1>8 DEF Submit

\* At its end a submission starts the tasks of a turn that is still open.
LEMMA FinishKeeps == ASSUME IInv, SubmitFinish PROVE Entered' /\ Timers' /\ Submitting'
<1>. USE DEF turnVars, taskVars, ownerVars, callerVars
<1>0. Counted' /\ (Settles \/ Clears \/ Quiet \/ SubmitAdmitted)
  <2>1. [Next]_vars /\ SubmitStep /\ ~Submit
    BY DEF Next, SubmitStep, SubmitFinish, Submit
  <2>. QED
    BY <2>1, StepPromised, SubmitSettles DEF Still
<1>1. sub.pc = "finish" /\ sub' = Idle /\ sub'.pc = "idle" /\ ctl' = ctl
  BY DEF SubmitFinish, Idle
<1>2. PICK t \in Turn : t = sub.turn
  BY <1>1, SubmissionTypes DEF IInv
<1>3. SubmissionKept /\ CallsKept
  BY <1>1 DEF SubmissionKept, CallsKept
<1>4. CASE UNCHANGED <<turnVars, taskVars, ownerVars, line, faults>>
  BY <1>0, <1>3, <1>4, IdleKeeps, FrameKeeps
<1>5. CASE /\ Open(t) /\ UNCHANGED run
           /\ SettleByOther(sub.turn, Remaining(sub.turn), "fallback")
  <2>1. PICK S \in SUBSET Remaining(t) : S = Remaining(sub.turn)
    BY <1>2
  <2>2. SettleByOther(t, S, "fallback")
    BY <1>2, <1>5, <2>1 DEF SettleByOther, Settle, Closes
  <2>3. TasksKept
    BY <1>1, <1>2, <1>5, <2>1, <2>2, SettleByOtherKeeps, OneTurnKeeps DEF Kind
  <2>. QED
    BY <1>0, <1>3, <2>3, FrameKeeps
<1>6. ASSUME Open(t), NEW F \in SUBSET Child,
             Settle(sub.turn, F, "fallback"),
             expiry' = [expiry EXCEPT ![sub.turn] = IF F = Child THEN "done" ELSE "sleep"],
             run' = [run EXCEPT ![sub.turn] = IF F = Child THEN "none" ELSE "queued"]
      PROVE  Entered' /\ Timers' /\ Submitting'
  <2>1. completed[t] = {}
    BY <1>1, <1>2, <1>6 DEF IInv, Submitting, Counted, ClosedWhenComplete, Open
  <2>2. next' = next /\ \A u \in Turn :
           /\ \/ status'[u] = status[u]
              \/ status[u] = "open" /\ status'[u] = "closed"
           /\ completed'[u] # completed[u] => Open(u)
    BY <1>0, BookEffect
  <2>3. \A u \in Turn : u # t => /\ status'[u] = status[u]
                                 /\ run'[u] = run[u] /\ expiry'[u] = expiry[u]
    BY <1>2, <1>6 DEF Settle, IInv, TypeOK
  <2>4. expiry'[t] = "sleep" => status'[t] = "open"
    <3>1. status'[t] = IF Closes(t, F) THEN "closed" ELSE "open"
      BY <1>2, <1>6 DEF Settle, IInv, TypeOK, Open
    <3>2. expiry'[t] = IF F = Child THEN "done" ELSE "sleep"
      BY <1>2, <1>6 DEF IInv, TypeOK
    <3>3. Closes(t, F) <=> F = Child
      BY <2>1 DEF Closes
    <3>. QED
      BY <3>1, <3>2, <3>3
  <2>5. expiry'[t] \in {"done", "sleep"}
    BY <1>2, <1>6 DEF IInv, TypeOK
  <2>6. Timers'
    BY <2>3, <2>4, <2>5 DEF IInv, Timers, Open
  <2>7. Entered'
    <3>1. status[t] = "open" /\ status'[t] \in {"open", "closed"}
      BY <1>6, <2>2 DEF Open
    <3>. QED
      BY <1>1, <2>2, <2>3, <3>1 DEF IInv, Entered, Open
  <2>. QED
    BY <1>1, <2>6, <2>7 DEF Submitting
<1>. QED
  BY <1>2, <1>4, <1>5, <1>6 DEF SubmitFinish

-------------------------------------------------------------------------------
\* Every step keeps the inductive invariant.
LEMMA StepInvariant == ASSUME IInv, [Next]_vars PROVE IInv'
<1>1. TypeOK'
  BY StepTypes DEF IInv
<1>2. Counted' /\ Promise!Inv'
  <2>1. [Promise!Next]_(Promise!vars) /\ Counted'
    BY StepPromised
  <2>2. Promise!TypeOK /\ Promise!Inv
    BY PromiseTypes DEF IInv
  <2>. QED
    BY <2>1, <2>2, Promise!StepInvariant, NAssumption, KAssumption
<1>3. Entered' /\ Timers' /\ Submitting'
  BY OtherStepKeeps, AdmissionKeeps, SubmitKeeps, FinishKeeps DEF SubmitStep
<1>. QED
  BY <1>1, <1>2, <1>3 DEF IInv

\* The initial state has it, and is an initial state of the promise.
LEMMA InitInvariant == Init => IInv /\ Promise!Init
<1> SUFFICES ASSUME Init PROVE IInv /\ Promise!Init
  OBVIOUS
<1>1. TypeOK
  BY InitTypes
<1>2. Promise!Init
  BY DEF Init, Promise!Init, Turn, Child, Promise!Turn, Promise!Child
<1>3. Promise!Inv
  BY <1>2, Promise!InitInvariant, NAssumption, KAssumption
<1>4. Entered /\ Timers /\ Submitting
  <2>1. \A t \in Turn : t >= 1
    BY DEF Turn
  <2>. QED
    BY <2>1 DEF Init, Entered, Timers, Submitting, NoCall, Idle
<1>5. Counted
  BY ChildNotEmpty DEF Init, Counted, SettledOnce, ClosedWhenComplete
<1>. QED
  BY <1>1, <1>2, <1>3, <1>4, <1>5 DEF IInv

\* The inductive invariant holds in every reachable state.
THEOREM Invariance == Spec => []IInv
BY InitInvariant, StepInvariant, PTL DEF Spec

\* The owner, its tasks and the line implement the promise.
THEOREM Refinement == Spec => ImplementsDelivery
<1>1. IInv /\ [Next]_vars => [Delivery!Next]_(Delivery!vars)
  <2>1. Promise!Next => Delivery!Next
    BY DEF Promise!Next, Promise!Enter, Promise!TakePlace, Promise!Deliver,
           Promise!Retire, Promise!GiveUp, Promise!Flush, Promise!Show,
           Promise!Newest, Promise!Unseen, Promise!Turn, Promise!Child,
           Promise!InLine, Promise!Ready, Promise!Release, Promise!Position,
           Promise!EvictOldest, Promise!RemoveAt,
           Delivery!Next, Delivery!Enter, Delivery!TakePlace, Delivery!Deliver,
           Delivery!Retire, Delivery!GiveUp, Delivery!Flush, Delivery!Show,
           Delivery!Newest, Delivery!Unseen, Delivery!Turn, Delivery!Child,
           Delivery!InLine, Delivery!Ready, Delivery!Release, Delivery!Position,
           Delivery!EvictOldest, Delivery!RemoveAt
  <2>. QED
    BY <2>1, StepPromised DEF Promise!vars, Delivery!vars
<1>2. Init => Delivery!Init
  BY DEF Init, Delivery!Init, Turn, Child, Delivery!Turn, Delivery!Child
<1>. QED
  BY <1>1, <1>2, Invariance, PTL DEF Spec, ImplementsDelivery, Delivery!Spec

\* Every child is shown once, by whoever settles it.
THEOREM SettledOnceAlways == Spec => []SettledOnce
<1>1. IInv => SettledOnce
  BY DEF IInv, Counted
<1>. QED
  BY <1>1, Invariance, PTL

\* A turn is closed exactly when its last child is terminal.
THEOREM ClosedWhenCompleteAlways == Spec => []ClosedWhenComplete
<1>1. IInv => ClosedWhenComplete
  BY DEF IInv, Counted
<1>. QED
  BY <1>1, Invariance, PTL

\* No closed turn is left in the line, and the line keeps admitted order.
THEOREM LineHoldsOpenTurnsAlways == Spec => []LineHoldsOpenTurns
<1>1. IInv => LineHoldsOpenTurns
  BY SameNames, SameLine
     DEF IInv, Promise!Inv, Promise!QueueOrdered, LineHoldsOpenTurns, Open
<1>. QED
  BY <1>1, Invariance, PTL

\* What goes through the line is shown in admitted order.
THEOREM GatedOrderAlways == Spec => GatedOrder
<1> DEFINE Order ==
      \A t \in Turn, c \in Child : ShownNow(t, c, Gated) =>
          \A u \in Turn, d \in Child : GatedShown(u, d) => u <= t
<1> DEFINE PromisedOrder ==
      \A t \in Promise!Turn, c \in Promise!Child :
          Promise!ShownNow(t, c, Promise!Gated) =>
             \A u \in Promise!Turn, d \in Promise!Child :
                Promise!GatedShown(u, d) => u <= t
<1>1. Init => Promise!Init
  BY InitInvariant
<1>2. IInv /\ [Next]_vars => [Promise!Next]_(Promise!vars)
  BY StepPromised
<1>3. Spec => Promise!GatedOrder
  BY <1>1, <1>2, Invariance, Promise!OrderKept, NAssumption, KAssumption, PTL
     DEF Spec, Promise!Spec
<1>4. TypeOK /\ [PromisedOrder]_(Promise!vars) => [Order]_vars
  <2>1. PromisedOrder => Order
    BY SameNames DEF Promise!ShownNow, ShownNow, Promise!GatedShown, GatedShown
  <2>2. TypeOK /\ seen' = seen => Order
    <3> SUFFICES ASSUME TypeOK, seen' = seen, NEW t \in Turn, NEW c \in Child
                 PROVE  ~ShownNow(t, c, Gated)
      OBVIOUS
    <3>1. seen[t][c] \in Seq(Kind)
      BY DEF TypeOK
    <3>2. \A k \in Gated : Append(seen[t][c], k) # seen[t][c]
      BY <3>1 DEF Gated, Kind
    <3>. QED
      BY <3>2 DEF ShownNow
  <2>. QED
    BY <2>1, <2>2 DEF Promise!vars
<1>. QED
  BY <1>3, <1>4, TypeCorrect, PTL DEF Promise!GatedOrder, GatedOrder
===============================================================================
