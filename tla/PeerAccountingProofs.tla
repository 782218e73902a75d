-------------------------- MODULE PeerAccountingProofs --------------------------
(***************************************************************************)
(* What PeerTurns keeps count of, for every value of the constants: the        *)
(* execution slots, the active-parent slots, the turns that wait, the places    *)
(* in the line, and what a cancellation leaves behind.                         *)
(*                                                                         *)
(* Three invariants are added to that of PeerDeliveryProofs.  ChannelInv says   *)
(* who is responsible for a turn of a cancelled channel; TaskInv what the tasks *)
(* of a turn may be doing, given where its run is; Calm what cannot happen as   *)
(* long as no controller has called; and the counts follow.                    *)
(***************************************************************************)
EXTENDS PeerDeliveryProofs, WellFoundedInduction

\* Controller calls: an idle one is blank, a shutdown has closed the owner, and
\* there is one closing of the ingress at a time.
Called ==
    /\ \A k \in Controller :
          /\ ctl[k].pc = "idle" => ctl[k] = NoCall
          /\ ctl[k].kind = "shutdown" => closed
          /\ ctl[k].kind = "ingress" =>
                ~accepting /\ \A j \in Controller : ctl[j].kind = "ingress" => j = k
    /\ calls = 0 => \A k \in Controller : ctl[k] = NoCall

\* Behind a closed ingress every open turn is some closing call's to end.
Shut == ~accepting \/ closed
Covered ==
    Shut => \A t \in Turn : Open(t) =>
        \E k \in Controller : /\ ctl[k].kind \in {"ingress", "shutdown"}
                              /\ ctl[k].pc = "select" \/ t \in ctl[k].sel

\* The next turn never waits for one that has closed.
TailOpen == tail \in Turn => Open(tail)

\* A run that has not begun to end knows of the cancellation of its turn.
Going(t) == run[t] \in {"queued", "loop", "gate"}
Told == \A t \in Turn : Going(t) /\ (closed \/ t \in cancelling) => t \in killed

\* Nothing is in the line while the channel is blocked, unless the owner is closed.
Emptied == blocked /\ ~closed => line = <<>>

\* The line is bounded, and a turn that waits in it has all later open turns
\* behind it, the one being admitted apart.
Fits == Len(line) <= MaxUnsent + 1
Behind ==
    \A t, u \in Turn :
        /\ InLine(line, t) /\ ~Ready(line, t) /\ t < u
        /\ Open(u) /\ ~(sub.pc = "admitting" /\ sub.turn = u)
        => InLine(line, u)

ChannelInv ==
    /\ Called /\ Covered /\ TailOpen /\ Told /\ Emptied /\ Fits /\ Behind

-------------------------------------------------------------------------------
\* The line is a sequence of turns in admitted order, all of them open.
LEMMA LineShape ==
    ASSUME IInv
    PROVE  /\ line \in Seq(Turn) /\ Len(line) \in Nat /\ Increasing(line)
           /\ \A t : InLine(line, t) => t \in Turn /\ Open(t)
<1>1. line \in Seq(Turn) /\ Len(line) \in Nat
  BY LenProperties DEF IInv, TypeOK
<1>2. Increasing(line) /\ \A t \in Turn : InLine(line, t) => Open(t)
  BY SameNames, SameLine DEF IInv, Promise!Inv, Promise!QueueOrdered, Open
<1>3. \A t : InLine(line, t) => t \in Turn
  BY <1>1, ElementOfSeq DEF InLine
<1>. QED
  BY <1>1, <1>2, <1>3

\* Without open turns the line is empty.
LEMMA NobodyInLine ==
    ASSUME IInv, \A t \in Turn : ~Open(t) PROVE line = <<>>
<1>1. CASE line # <<>>
  <2>1. 1 \in 1 .. Len(line)
    BY <1>1, LineShape, EmptySeq
  <2>2. InLine(line, line[1])
    BY <2>1, LineShape DEF InLine
  <2>. QED
    BY <2>2, LineShape
<1>. QED
  BY <1>1

\* What the steps of a task or of a submission leave alone of the channel.
Apart == UNCHANGED <<ctl, accepting, closed, blocked, calls>>

\* The turn being admitted stays that, or has closed.
AdmissionKept == sub.pc = "admitting" => sub' = sub \/ status'[sub.turn] # "open"

\* Settling children keeps all but Told, which is about the runs.
LEMMA SettlesChannel ==
    ASSUME IInv, ChannelInv, Settles, Apart, AdmissionKept
    PROVE  Called' /\ Covered' /\ TailOpen' /\ Emptied' /\ Fits' /\ Behind'
<1>1. PICK t \in Turn, kind \in Kind : \E S \in SUBSET Remaining(t) :
         Open(t) /\ Settle(t, S, kind)
  BY DEF Settles
<1>2. PICK S \in SUBSET Remaining(t) : Open(t) /\ Settle(t, S, kind)
  BY <1>1
<1>3. /\ \A u \in Turn : u # t => status'[u] = status[u]
      /\ status'[t] = IF Closes(t, S) THEN "closed" ELSE "open"
      /\ line' = IF Closes(t, S) THEN Release(line, t) ELSE line
      /\ tail' = IF Closes(t, S) /\ tail = t THEN NoTurn ELSE tail
  BY <1>2 DEF Settle, IInv, TypeOK, Open
<1>4. \A u \in Turn : status'[u] = "open" => Open(u) /\ (u = t => ~Closes(t, S))
  BY <1>2, <1>3 DEF Open
<1>5. Called'
  BY DEF Apart, ChannelInv, Called
<1>6. Covered'
  BY <1>4 DEF Apart, ChannelInv, Covered, Shut, Open
<1>7. TailOpen'
  BY <1>2, <1>3, TurnInt DEF ChannelInv, TailOpen, Open
<1>8. /\ Len(line') <= Len(line) /\ Len(line') \in Nat
      /\ \A u : u # t \/ ~Closes(t, S) =>
            /\ InLine(line, u) => InLine(line', u)
            /\ Ready(line, u) => Ready(line', u)
      /\ \A u : InLine(line', u) => InLine(line, u) /\ (u = t => ~Closes(t, S))
  <2>1. CASE Closes(t, S)
    <3>1. /\ Len(Release(line, t)) <= Len(line)
          /\ \A u : u # t /\ InLine(line, u) => InLine(Release(line, t), u)
          /\ \A u : u # t /\ Ready(line, u) => Ready(Release(line, t), u)
      BY LineShape, TurnInt, ReleaseKeeps
    <3>2. /\ Release(line, t) \in Seq(Turn)
          /\ \A u : InLine(Release(line, t), u) => InLine(line, u) /\ u # t
      BY LineShape, TurnInt, ReleaseLine
    <3>3. Len(Release(line, t)) \in Nat
      BY <3>2, LenProperties
    <3>. QED
      BY <1>3, <2>1, <3>1, <3>2, <3>3
  <2>2. CASE ~Closes(t, S)
    BY <1>3, <2>2, LineShape
  <2>. QED
    BY <2>1, <2>2
<1>9. Emptied'
  <2>1. line = <<>> => line' = <<>>
    <3>1. line = <<>> => ~InLine(line, t)
      BY EmptySeq DEF InLine
    <3>. QED
      BY <1>3, <3>1 DEF Release
  <2>. QED
    BY <2>1 DEF Apart, ChannelInv, Emptied
<1>10. Fits'
  BY <1>8, LineShape, LimitAssumption DEF ChannelInv, Fits
<1>11. Behind'
  <2> SUFFICES ASSUME NEW v \in Turn, NEW u \in Turn,
                      InLine(line', v), ~Ready(line', v), v < u, status'[u] = "open",
                      ~(sub'.pc = "admitting" /\ sub'.turn = u)
               PROVE  InLine(line', u)
    BY DEF Behind, Open
  <2>1. InLine(line, v) /\ (v = t => ~Closes(t, S)) /\ ~Ready(line, v)
    BY <1>8
  <2>2. Open(u) /\ (u = t => ~Closes(t, S))
    BY <1>4
  <2>3. ~(sub.pc = "admitting" /\ sub.turn = u)
    BY DEF AdmissionKept
  <2>4. InLine(line, u)
    BY <2>1, <2>2, <2>3 DEF ChannelInv, Behind
  <2>. QED
    BY <1>8, <2>2, <2>4
<1>. QED
  BY <1>5, <1>6, <1>7, <1>9, <1>10, <1>11

\* So does a step that leaves the turns and the line alone.
LEMMA StillChannel ==
    ASSUME IInv, ChannelInv, Still, Apart, AdmissionKept
    PROVE  Called' /\ Covered' /\ TailOpen' /\ Emptied' /\ Fits' /\ Behind'
<1>1. status' = status /\ line' = line /\ tail' = tail
  BY DEF Quiet, Still
<1>2. Called' /\ Covered' /\ TailOpen' /\ Emptied' /\ Fits'
  BY <1>1 DEF Apart, ChannelInv, Called, Covered, Shut, TailOpen, Emptied, Fits, Open
<1>3. Behind'
  BY <1>1 DEF AdmissionKept, ChannelInv, Behind, Open
<1>. QED
  BY <1>2, <1>3

\* No run appears that is not going already, none forgets its cancellation, and
\* no turn is cancelled.
RunsKept ==
    /\ \A u \in Turn : run'[u] \in {"queued", "loop", "gate"} =>
          Going(u) /\ (u \in killed => u \in killed')
    /\ closed' = closed /\ cancelling' \subseteq cancelling

\* Then a run still knows of the cancellation of its turn.
LEMMA RunsKeepTold == ASSUME ChannelInv, RunsKept PROVE Told'
BY DEF ChannelInv, RunsKept, Told, Going

\* Settling children cancels nothing.
LEMMA SettlesCancelNothing ==
    ASSUME NEW t, NEW S, NEW kind, Settle(t, S, kind)
    PROVE  cancelling' \subseteq cancelling
BY DEF Settle
-------------------------------------------------------------------------------
\* The submission: a new turn is covered because a closed ingress refuses it, and
\* it takes its place only while nothing is cancelled.
LEMMA SubmitChannel == ASSUME IInv, ChannelInv, Submit PROVE ChannelInv'
<1>. USE DEF turnVars, taskVars, ownerVars, callerVars
<1>1. next \in Turn /\ status[next] = "none" /\ sub.pc = "idle"
  BY NAssumption DEF Submit, IInv, TypeOK, Entered, Turn
<1>2. /\ UNCHANGED <<ctl, accepting, closed, blocked, calls, tail, line, run, killed,
                     cancelling>>
      /\ \A u \in Turn : u # next => status'[u] = status[u]
  BY <1>1 DEF Submit, IInv, TypeOK
<1>3. \/ status'[next] = "rejected" /\ sub' = sub
      \/ ~Shut /\ sub'.pc = "admitting" /\ sub'.turn = next
  BY <1>1 DEF Submit, IInv, TypeOK, Shut, Idle
<1>4. Called' /\ Told' /\ Emptied' /\ Fits'
  BY <1>2 DEF ChannelInv, Called, Told, Going, Emptied, Fits
<1>5. Covered'
  BY <1>2, <1>3 DEF ChannelInv, Covered, Shut, Open
<1>6. TailOpen'
  BY <1>1, <1>2 DEF ChannelInv, TailOpen, Open
<1>7. Behind'
  <2> SUFFICES ASSUME NEW v \in Turn, NEW u \in Turn,
                      InLine(line, v), ~Ready(line, v), v < u, status'[u] = "open",
                      ~(sub'.pc = "admitting" /\ sub'.turn = u)
               PROVE  InLine(line, u)
    BY <1>2 DEF Behind, Open
  <2>1. u # next
    BY <1>3
  <2>. QED
    BY <1>1, <1>2, <2>1 DEF ChannelInv, Behind, Open
<1>. QED
  BY <1>4, <1>5, <1>6, <1>7 DEF ChannelInv

\* An admission puts the newest turn at the end of the line, of an open channel.
LEMMA SubmitAdmittedChannel ==
    ASSUME IInv, ChannelInv, SubmitAdmitted PROVE ChannelInv'
<1>. USE DEF turnVars, taskVars, ownerVars, callerVars
<1>1. sub.turn \in Turn /\ sub.turn + 1 = next /\ Open(sub.turn)
  BY SubmissionTypes DEF SubmitAdmitted, IInv, Submitting
<1>2. PICK t \in Turn : t = sub.turn
  BY <1>1
<1>3. UNCHANGED <<ctl, accepting, closed, blocked, calls, run, killed, cancelling, status>>
  BY DEF SubmitAdmitted
<1>4. /\ ~blocked /\ ~closed /\ tail' = t /\ line' = Admit(line, t, MaxUnsent)
      /\ sub.pc = "admitting" /\ sub' = [sub EXCEPT !.pc = "overflow"]
  BY <1>2 DEF SubmitAdmitted, ParentCancelled, ChildCancelled
<1>5. /\ Len(line) <= MaxUnsent + 1 => Len(line') <= MaxUnsent + 1
      /\ InLine(line', t)
      /\ \A u : InLine(line', u) => InLine(line, u) \/ u = t
      /\ \A u : Ready(line, u) => Ready(line', u)
      /\ \A u, v : /\ InLine(line, u) /\ InLine(line, v) /\ ~Ready(line, v) /\ v < u
                   => InLine(line', u)
  BY <1>4, LineShape, TurnInt, LimitAssumption, AdmitKeeps
<1>6. Called' /\ Covered' /\ Told'
  BY <1>3 DEF ChannelInv, Called, Covered, Shut, Told, Going, Open
<1>7. TailOpen'
  BY <1>1, <1>2, <1>3, <1>4 DEF TailOpen, Open
<1>8. Emptied' /\ Fits'
  BY <1>3, <1>4, <1>5 DEF ChannelInv, Emptied, Fits
<1>9. Behind'
  <2> SUFFICES ASSUME NEW v \in Turn, NEW u \in Turn,
                      InLine(line', v), ~Ready(line', v), v < u, Open(u)
               PROVE  InLine(line', u)
    BY <1>3 DEF Behind, Open
  <2>1. CASE u = t
    BY <1>5, <2>1
  <2>2. CASE u # t
    <3>1. v # t
      <4>1. u < next
        BY TurnInt DEF IInv, Entered, TypeOK, Open
      <4>. QED
        BY <1>1, <1>2, <4>1, TurnInt DEF IInv, TypeOK
    <3>2. InLine(line, v) /\ ~Ready(line, v)
      BY <1>5, <3>1
    <3>3. InLine(line, u)
      BY <1>2, <2>2, <3>2 DEF ChannelInv, Behind
    <3>. QED
      BY <1>5, <3>2, <3>3
  <2>. QED
    BY <2>1, <2>2
<1>. QED
  BY <1>6, <1>7, <1>8, <1>9 DEF ChannelInv

\* Its other steps settle children or do nothing, and start the run of a turn only
\* if nothing is cancelled.
LEMMA SubmissionChannel ==
    ASSUME IInv, ChannelInv, ~SubmitAdmitted,
           SubmitRefused \/ SubmitOverflow \/ SubmitNoOverflow \/ SubmitFinish
    PROVE  ChannelInv'
<1>. USE DEF turnVars, taskVars, ownerVars, callerVars
<1>1. sub.turn \in Turn
  BY SubmissionTypes
     DEF SubmitRefused, SubmitOverflow, SubmitNoOverflow, SubmitFinish, IInv
<1>2. Apart
  BY DEF SubmitRefused, SubmitOverflow, SubmitNoOverflow, SubmitFinish, Apart
<1>3. AdmissionKept
  <2>1. CASE SubmitRefused
    <3>1. SettleByOther(sub.turn, Remaining(sub.turn), "fallback")
      BY <2>1 DEF SubmitRefused
    <3>2. Closes(sub.turn, Remaining(sub.turn))
      BY <1>1 DEF Closes, Remaining, IInv, TypeOK
    <3>3. status'[sub.turn] = "closed"
      BY <1>1, <3>1, <3>2 DEF SettleByOther, Settle, IInv, TypeOK
    <3>. QED
      BY <3>3 DEF AdmissionKept
  <2>2. CASE ~SubmitRefused
    BY <2>2 DEF SubmitOverflow, SubmitNoOverflow, SubmitFinish, AdmissionKept
  <2>. QED
    BY <2>1, <2>2
<1>4. Settles \/ Still
  <2>1. ~Submit /\ SubmitStep
    BY DEF SubmitRefused, SubmitOverflow, SubmitNoOverflow, SubmitFinish, Submit,
           SubmitStep
  <2>. QED
    BY <2>1, SubmitSettles
<1>5. closed' = closed /\ cancelling' \subseteq cancelling
  BY <1>2, <1>4, SettlesCancelNothing DEF Apart, Settles, Still
<1>6. Told'
  <2>1. CASE run' = run /\ killed \subseteq killed'
    <3>1. RunsKept
      BY <1>5, <2>1 DEF RunsKept, Going
    <3>. QED
      BY <3>1, RunsKeepTold
  <2>2. CASE /\ SubmitFinish /\ ~ChildCancelled(sub.turn) /\ killed' = killed
             /\ \E r \in {"none", "queued"} : run' = [run EXCEPT ![sub.turn] = r]
    <3>1. \A u \in Turn : u # sub.turn => run'[u] = run[u]
      BY <1>1, <2>2 DEF IInv, TypeOK
    <3>2. ~closed' /\ sub.turn \notin cancelling'
      BY <1>5, <2>2 DEF ChildCancelled
    <3>. QED
      BY <1>5, <2>2, <3>1, <3>2 DEF ChannelInv, Told, Going
  <2>. QED
    BY <2>1, <2>2
       DEF SubmitRefused, SubmitOverflow, SubmitNoOverflow, SubmitFinish, Retire
<1>. QED
  BY <1>2, <1>3, <1>4, <1>6, SettlesChannel, StillChannel DEF ChannelInv

\* The tasks of a turn.
LEMMA TaskChannel ==
    ASSUME IInv, ChannelInv, NEW t \in Turn,
           \/ ExpiryStep(t) \/ RunStep(t)
           \/ \E c \in Child : ChildStep(t, c)
    PROVE  ChannelInv'
<1>. USE DEF turnVars, taskVars, ownerVars, callerVars
<1>1. Apart /\ sub' = sub
  BY DEF Apart, ExpiryStep, ExpiryFires, ExpiryGate, ExpiryKicked, RunStep,
         RunActivate, RunAbandoned, RunCollect, RunPublish, RunWaits, RunGate,
         RunCancelled, RunDrained, ChildStep, ChildAcquire, ChildReturns, ChildDies
<1>2. Settles \/ Still
  BY TaskSettles
<1>3. closed' = closed /\ cancelling' \subseteq cancelling
  BY <1>1, <1>2, SettlesCancelNothing DEF Apart, Settles, Still
<1>4. RunsKept
  <2>1. CASE run' = run /\ killed \subseteq killed'
    BY <1>3, <2>1 DEF RunsKept, Going
  <2>2. CASE /\ killed' = killed /\ Going(t)
             /\ \E r \in {"loop", "gate", "drain"} : run' = [run EXCEPT ![t] = r]
    <3>1. \A u \in Turn : u # t => run'[u] = run[u]
      BY <2>2 DEF IInv, TypeOK
    <3>. QED
      BY <1>3, <2>2, <3>1 DEF RunsKept, Going
  <2>3. CASE /\ killed' = killed \ {t}
             /\ \E r \in {"drain", "done"} : run' = [run EXCEPT ![t] = r]
    <3>1. \A u \in Turn : u # t => run'[u] = run[u] /\ (u \in killed' <=> u \in killed)
      BY <2>3 DEF IInv, TypeOK
    <3>2. run'[t] \in {"drain", "done"}
      BY <2>3 DEF IInv, TypeOK
    <3>. QED
      BY <1>3, <3>1, <3>2 DEF RunsKept, Going
  <2>4. CASE ExpiryStep(t)
    BY <2>1, <2>4 DEF ExpiryStep, ExpiryFires, ExpiryGate, ExpiryKicked, Retire
  <2>5. CASE RunStep(t)
    BY <2>1, <2>2, <2>3, <2>5
       DEF RunStep, RunActivate, RunAbandoned, RunCollect, RunPublish, RunWaits,
           RunGate, RunCancelled, RunDrained, Drain, Publish, Going
  <2>6. CASE \E c \in Child : ChildStep(t, c)
    BY <2>1, <2>6 DEF ChildStep, ChildAcquire, ChildReturns, ChildDies
  <2>. QED
    BY <2>4, <2>5, <2>6
<1>5. AdmissionKept
  BY <1>1 DEF AdmissionKept
<1>. QED
  BY <1>1, <1>2, <1>4, <1>5, RunsKeepTold, SettlesChannel, StillChannel DEF ChannelInv

-------------------------------------------------------------------------------
\* The controllers.
LEMMA CtlSettleChannel ==
    ASSUME IInv, ChannelInv, NEW k \in Controller, NEW t \in Turn, CtlSettle(k, t)
    PROVE  ChannelInv'
<1>. USE DEF turnVars, taskVars, ownerVars, callerVars
<1>1. Apart /\ sub' = sub /\ run' = run /\ killed' = killed
  BY DEF CtlSettle, Apart
<1>2. Settles
  BY FallbackSettles DEF CtlSettle, SettleByOther
<1>3. RunsKept
  BY <1>1, <1>2, SettlesCancelNothing DEF Apart, Settles, RunsKept, Going
<1>4. AdmissionKept
  BY <1>1 DEF AdmissionKept
<1>. QED
  BY <1>1, <1>2, <1>3, <1>4, RunsKeepTold, SettlesChannel DEF ChannelInv

\* A call that begins blocks the channel; a shutdown or a closing answers for what is open.
LEMMA CtlBeginChannel ==
    ASSUME IInv, ChannelInv, NEW k \in Controller,
           NEW kind \in {"reset", "ingress", "shutdown"}, CtlBegin(k, kind)
    PROVE  ChannelInv'
<1>. USE DEF turnVars, taskVars, ownerVars, callerVars
<1>1. /\ ctl[k] = NoCall /\ ~closed /\ (kind = "ingress" => accepting)
      /\ calls' = calls + 1 /\ calls \in Nat /\ calls' # 0
  BY BoundAssumption DEF CtlBegin, ChannelInv, Called, IInv, TypeOK
<1>2. /\ ctl' = [ctl EXCEPT ![k] = [pc |-> "select", kind |-> kind, sel |-> {}]]
      /\ line' = <<>> /\ UNCHANGED <<status, tail, sub, run>>
      /\ accepting' = IF kind = "ingress" THEN FALSE ELSE accepting
  BY DEF CtlBegin, RetireGeneration
<1>3. /\ ctl'[k] = [pc |-> "select", kind |-> kind, sel |-> {}]
      /\ \A j \in Controller : j # k => ctl'[j] = ctl[j]
  BY <1>2 DEF IInv, TypeOK
<1>4. \/ /\ kind = "shutdown" /\ closed' = TRUE /\ blocked' = blocked
         /\ killed' = killed \cup {t \in Turn : Live(t)}
      \/ /\ kind # "shutdown" /\ closed' = closed /\ blocked' = TRUE
         /\ killed' = killed /\ cancelling' = cancelling
  BY DEF CtlBegin
<1>5. Called'
  <2>1. \A j \in Controller : /\ ctl'[j].pc = "idle" => ctl'[j] = NoCall
                              /\ ctl'[j].kind = "shutdown" => closed'
    BY <1>3, <1>4 DEF ChannelInv, Called
  <2>2. ASSUME NEW i \in Controller, ctl'[i].kind = "ingress"
        PROVE  ~accepting' /\ \A j \in Controller : ctl'[j].kind = "ingress" => j = i
    <3>1. kind = "ingress" => \A j \in Controller : ctl[j].kind # "ingress"
      BY <1>1 DEF ChannelInv, Called
    <3>2. CASE i = k
      BY <1>2, <1>3, <2>2, <3>1, <3>2
    <3>3. CASE i # k
      BY <1>2, <1>3, <2>2, <3>1, <3>3 DEF ChannelInv, Called
    <3>. QED
      BY <3>2, <3>3
  <2>. QED
    BY <1>1, <2>1, <2>2 DEF Called
<1>6. Covered'
  <2> SUFFICES ASSUME Shut', NEW t \in Turn, Open(t)
               PROVE  \E j \in Controller : /\ ctl'[j].kind \in {"ingress", "shutdown"}
                                            /\ ctl'[j].pc = "select" \/ t \in ctl'[j].sel
    BY <1>2 DEF Covered, Open
  <2>1. CASE kind \in {"ingress", "shutdown"}
    BY <1>3, <2>1
  <2>2. CASE kind = "reset"
    <3>1. Shut
      BY <1>2, <1>4, <2>2 DEF Shut
    <3>2. PICK j \in Controller : /\ ctl[j].kind \in {"ingress", "shutdown"}
                                  /\ ctl[j].pc = "select" \/ t \in ctl[j].sel
      BY <3>1 DEF ChannelInv, Covered
    <3>3. j # k
      BY <1>1, <3>2 DEF NoCall
    <3>. QED
      BY <1>3, <3>2, <3>3
  <2>. QED
    BY <2>1, <2>2
<1>7. TailOpen'
  BY <1>2 DEF ChannelInv, TailOpen, Open
<1>8. Told'
  BY <1>2, <1>4 DEF ChannelInv, Told, Going, Live
<1>9. Emptied'
  BY <1>2 DEF Emptied
<1>10. Fits'
  BY <1>2, LimitAssumption DEF Fits
<1>11. Behind'
  BY <1>2, EmptySeq DEF Behind, InLine
<1>. QED
  BY <1>5, <1>6, <1>7, <1>8, <1>9, <1>10, <1>11 DEF ChannelInv

\* Selecting takes over every open turn.
LEMMA CtlSelectChannel ==
    ASSUME IInv, ChannelInv, NEW k \in Controller, CtlSelect(k) \/ CtlCloseScope(k)
    PROVE  ChannelInv'
<1>. USE DEF turnVars, taskVars, ownerVars, callerVars
<1>1. /\ UNCHANGED <<status, tail, line, sub, run, accepting, closed, blocked, calls>>
      /\ ctl' = [ctl EXCEPT ![k] = [pc |-> "join", kind |-> ctl[k].kind, sel |-> OpenTurns]]
      /\ killed \subseteq killed' /\ ctl[k].pc = "select"
      /\ \A t \in Turn : Live(t) /\ t \in cancelling' => t \in cancelling \/ t \in killed'
  BY DEF CtlSelect, CtlCloseScope, Selected
<1>2. /\ ctl'[k] = [pc |-> "join", kind |-> ctl[k].kind, sel |-> OpenTurns]
      /\ \A j \in Controller : j # k => ctl'[j] = ctl[j]
  BY <1>1 DEF IInv, TypeOK
<1>3. ctl'[k].kind = ctl[k].kind /\ \A j \in Controller : ctl'[j].kind = ctl[j].kind
  BY <1>2
<1>4. Called'
  <2>1. calls # 0
    BY <1>1 DEF ChannelInv, Called, NoCall
  <2>2. \A j \in Controller : ctl'[j].pc = "idle" => ctl'[j] = NoCall
    BY <1>2 DEF ChannelInv, Called
  <2>. QED
    BY <1>1, <1>3, <2>1, <2>2 DEF ChannelInv, Called
<1>5. Covered'
  <2> SUFFICES ASSUME Shut, NEW t \in Turn, Open(t)
               PROVE  \E j \in Controller : /\ ctl'[j].kind \in {"ingress", "shutdown"}
                                            /\ ctl'[j].pc = "select" \/ t \in ctl'[j].sel
    BY <1>1 DEF Covered, Open, Shut
  <2>1. PICK j \in Controller : /\ ctl[j].kind \in {"ingress", "shutdown"}
                                /\ ctl[j].pc = "select" \/ t \in ctl[j].sel
    BY DEF ChannelInv, Covered
  <2>2. t \in OpenTurns
    BY DEF OpenTurns
  <2>. QED
    BY <1>2, <2>1, <2>2
<1>6. Told'
  BY <1>1 DEF ChannelInv, Told, Going, Live
<1>7. TailOpen' /\ Emptied' /\ Fits' /\ Behind'
  BY <1>1 DEF ChannelInv, TailOpen, Emptied, Fits, Behind, Open
<1>. QED
  BY <1>4, <1>5, <1>6, <1>7 DEF ChannelInv

\* A call returns when no turn is left that it alone would have to end.
LEMMA CtlReturnChannel ==
    ASSUME IInv, ChannelInv, NEW k \in Controller, CtlReturn(k) PROVE ChannelInv'
<1>. USE DEF turnVars, taskVars, ownerVars, callerVars
<1>1. /\ UNCHANGED <<status, line, sub, run, killed, cancelling, accepting, closed, calls>>
      /\ ctl' = [ctl EXCEPT ![k] = NoCall]
      /\ ctl[k].pc = "join" /\ \A t \in ctl[k].sel : ~Open(t)
      /\ tail' = NoTurn \/ tail' = tail
      /\ blocked' => ctl[k].kind = "ingress" \/ (ctl[k].kind = "shutdown" /\ blocked)
  BY DEF CtlReturn
<1>2. /\ ctl'[k] = NoCall
      /\ \A j \in Controller : j # k => ctl'[j] = ctl[j]
  BY <1>1 DEF IInv, TypeOK
<1>3. Called'
  BY <1>1, <1>2 DEF ChannelInv, Called, NoCall
<1>4. ASSUME Shut, NEW t \in Turn, Open(t)
      PROVE  \E j \in Controller : /\ j # k /\ ctl[j].kind \in {"ingress", "shutdown"}
                                   /\ ctl[j].pc = "select" \/ t \in ctl[j].sel
  <2>1. PICK j \in Controller : /\ ctl[j].kind \in {"ingress", "shutdown"}
                                /\ ctl[j].pc = "select" \/ t \in ctl[j].sel
    BY <1>4 DEF ChannelInv, Covered
  <2>2. j # k
    BY <1>1, <1>4, <2>1
  <2>. QED
    BY <2>1, <2>2
<1>5. Covered'
  <2> SUFFICES ASSUME Shut, NEW t \in Turn, Open(t)
               PROVE  \E j \in Controller : /\ ctl'[j].kind \in {"ingress", "shutdown"}
                                            /\ ctl'[j].pc = "select" \/ t \in ctl'[j].sel
    BY <1>1 DEF Covered, Open, Shut
  <2>1. PICK j \in Controller : /\ j # k /\ ctl[j].kind \in {"ingress", "shutdown"}
                                /\ ctl[j].pc = "select" \/ t \in ctl[j].sel
    BY <1>4
  <2>. QED
    BY <1>2, <2>1
<1>6. Emptied'
  <2> SUFFICES ASSUME blocked', ~closed PROVE line = <<>>
    BY <1>1 DEF Emptied
  <2>1. CASE ctl[k].kind = "shutdown"
    BY <2>1 DEF ChannelInv, Called
  <2>2. CASE ctl[k].kind = "ingress"
    <3>1. Shut /\ \A j \in Controller : j # k => ctl[j].kind \notin {"ingress", "shutdown"}
      BY <2>2 DEF ChannelInv, Called, Shut
    <3>2. \A t \in Turn : ~Open(t)
      BY <1>4, <3>1
    <3>. QED
      BY <3>2, NobodyInLine
  <2>. QED
    BY <1>1, <2>1, <2>2
<1>7. Told' /\ Fits' /\ Behind'
  BY <1>1 DEF ChannelInv, Told, Going, Fits, Behind, Open
<1>8. TailOpen'
  BY <1>1, TurnInt DEF ChannelInv, TailOpen, Open
<1>. QED
  BY <1>3, <1>5, <1>6, <1>7, <1>8 DEF ChannelInv

\* Every step keeps the invariant of the channel.
LEMMA StepChannel == ASSUME IInv, ChannelInv, [Next]_vars PROVE ChannelInv'
<1>. USE DEF turnVars, taskVars, ownerVars, callerVars
<1>1. CASE OpenIngress
  <2>1. /\ UNCHANGED <<status, tail, line, sub, run, killed, cancelling, closed, ctl, calls>>
        /\ ~closed /\ accepting' /\ ~blocked'
        /\ \A k \in Controller : ctl[k].kind # "ingress"
    BY <1>1 DEF OpenIngress
  <2>2. Called' /\ Covered' /\ TailOpen' /\ Told' /\ Emptied' /\ Fits' /\ Behind'
    BY <2>1 DEF ChannelInv, Called, Covered, Shut, TailOpen, Told, Going, Emptied,
                Fits, Behind, Open
  <2>. QED
    BY <2>2 DEF ChannelInv
<1>2. CASE Rest \/ UNCHANGED vars
  <2>1. UNCHANGED <<status, tail, line, sub, run, killed, cancelling, closed, ctl, calls,
                    accepting, blocked>>
    BY <1>2 DEF Rest, vars
  <2>2. Called' /\ Covered' /\ TailOpen' /\ Told' /\ Emptied' /\ Fits' /\ Behind'
    BY <2>1 DEF ChannelInv, Called, Covered, Shut, TailOpen, Told, Going, Emptied,
                Fits, Behind, Open
  <2>. QED
    BY <2>2 DEF ChannelInv
<1>. QED
  BY <1>1, <1>2, SubmitChannel, SubmitAdmittedChannel, SubmissionChannel, TaskChannel,
     CtlSettleChannel, CtlBeginChannel, CtlSelectChannel, CtlReturnChannel
     DEF Next, CtlStep, SubmitStep

\* Initially nothing is called, cancelled or in the line.
LEMMA InitChannel == Init => ChannelInv
<1> SUFFICES ASSUME Init PROVE ChannelInv
  OBVIOUS
<1>1. Called
  BY DEF Init, Called, NoCall
<1>2. Covered /\ TailOpen /\ Told /\ Emptied
  BY TurnInt DEF Init, Covered, Shut, TailOpen, Told, Going, Emptied
<1>3. Fits /\ Behind
  BY LimitAssumption, EmptySeq DEF Init, Fits, Behind, InLine
<1>. QED
  BY <1>1, <1>2, <1>3 DEF ChannelInv

\* Who answers for a turn of a cancelled channel is known in every reachable state.
THEOREM ChannelInvariance == Spec => []ChannelInv
BY InitChannel, StepChannel, Invariance, PTL DEF Spec

-------------------------------------------------------------------------------
\* When a closing of the ingress or of the owner has returned nothing is left of the
\* channel (close_channel_ingress, close).
THEOREM DrainedWhenShutAlways == Spec => []DrainedWhenShut
<1>1. IInv /\ ChannelInv => DrainedWhenShut
  <2> SUFFICES ASSUME IInv, ChannelInv, Shut,
                      \A k \in Controller : ctl[k].kind \notin {"ingress", "shutdown"}
               PROVE  OpenTurns = {} /\ line = <<>> /\ tail = NoTurn
    BY DEF DrainedWhenShut, Shut
  <2>1. \A t \in Turn : ~Open(t)
    BY DEF ChannelInv, Covered
  <2>. QED
    BY <2>1, NobodyInLine DEF OpenTurns, ChannelInv, TailOpen, IInv, TypeOK
<1>. QED
  BY <1>1, Invariance, ChannelInvariance, PTL

-------------------------------------------------------------------------------
\* What is shown as translated is published by the run of its turn, child by child.
LEMMA OnlyOneShown ==
    ASSUME TypeOK, NEW t \in Turn, NEW c \in Child, NEW u \in Turn,
           NEW S \in SUBSET Child, NEW kind \in Kind, Settle(u, S, kind),
           ShownNow(t, c, {"translated"})
    PROVE  u = t /\ c \in S /\ kind = "translated"
<1>1. seen[t][c] \in Seq(Kind) /\ seen'[t][c] = Append(seen[t][c], "translated")
  BY DEF TypeOK, ShownNow
<1>2. seen'[t][c] # seen[t][c]
  BY <1>1, AppendProperties DEF Kind
<1>3. seen'[t][c] = IF u = t /\ c \in S THEN Append(seen[t][c], kind) ELSE seen[t][c]
  BY DEF Settle, TypeOK
<1>4. u = t /\ c \in S /\ Append(seen[t][c], kind) = Append(seen[t][c], "translated")
  BY <1>1, <1>2, <1>3
<1>5. kind = "translated"
  BY <1>1, <1>4, AppendInjective DEF Kind
<1>. QED
  BY <1>4, <1>5

\* What has been shown already is not shown now.
LEMMA NothingShown ==
    ASSUME TypeOK, NEW t \in Turn, NEW c \in Child, seen' = seen
    PROVE  ~ShownNow(t, c, {"translated"})
<1>1. seen[t][c] \in Seq(Kind)
  BY DEF TypeOK
<1>. QED
  BY <1>1, AppendProperties DEF ShownNow, Kind

\* A translation is shown by the run of its turn, which is not cancelled and, if the
\* line is in its way, at the head.
LEMMA TranslatedByRun ==
    ASSUME IInv, [Next]_vars, NEW t \in Turn, NEW c \in Child,
           ShownNow(t, c, {"translated"})
    PROVE  /\ run[t] \in {"loop", "gate"} /\ t \notin killed
           /\ FirstOf(Remaining(t), 1) = {c}
           /\ run[t] = "loop" => ~ParentCancelled(t)
           /\ run[t] = "gate" => Ready(line, t)
<1>. USE DEF turnVars, taskVars, ownerVars, callerVars
<1>0. TypeOK
  BY DEF IInv
<1>1. seen' # seen
  BY <1>0, NothingShown
<1>2. ASSUME NEW u \in Turn, NEW S \in SUBSET Child, Settle(u, S, "fallback")
      PROVE  FALSE
  BY <1>0, <1>2, OnlyOneShown DEF Kind
<1>3. ASSUME NEW u \in Turn, Retire(u) PROVE FALSE
  <2>1. PICK kind \in {"source", "fallback"} : Settle(u, Remaining(u), kind)
    BY <1>3 DEF Retire, RetiredKind
  <2>2. Remaining(u) \in SUBSET Child
    BY DEF Remaining
  <2>. QED
    BY <1>0, <2>1, <2>2, OnlyOneShown DEF Kind
<1>4. \A u \in Turn : Remaining(u) \in SUBSET Child
  BY DEF Remaining
<1>5. ~SubmitStep
  <2>1. CASE Submit \/ SubmitAdmitted \/ SubmitNoOverflow
    BY <1>1, <2>1 DEF Submit, SubmitAdmitted, SubmitNoOverflow
  <2>2. CASE SubmitRefused
    BY <1>0, <1>2, <1>4, <2>2, SubmissionTypes DEF SubmitRefused, SettleByOther
  <2>3. CASE SubmitOverflow
    BY <1>3, <2>3 DEF SubmitOverflow, Overflow, Waiting
  <2>4. CASE SubmitFinish
    BY <1>0, <1>1, <1>2, <1>4, <2>4, SubmissionTypes DEF SubmitFinish, SettleByOther
  <2>. QED
    BY <2>1, <2>2, <2>3, <2>4 DEF SubmitStep
<1>6. ASSUME NEW u \in Turn, ExpiryStep(u) PROVE FALSE
  BY <1>1, <1>2, <1>3, <1>4, <1>6 DEF ExpiryStep, ExpiryFires, ExpiryGate, ExpiryKicked
<1>7. ASSUME NEW u \in Turn, NEW d \in Child, ChildStep(u, d) PROVE FALSE
  BY <1>1, <1>7 DEF ChildStep, ChildAcquire, ChildReturns, ChildDies
<1>8. ASSUME NEW k \in Controller,
             CtlStep(k) \/ \E kind \in {"reset", "ingress", "shutdown"} : CtlBegin(k, kind)
      PROVE  FALSE
  BY <1>1, <1>2, <1>4, <1>8
     DEF CtlStep, CtlBegin, CtlSelect, CtlCloseScope, CtlReturn, CtlSettle, SettleByOther
<1>9. ~OpenIngress /\ ~Rest /\ ~UNCHANGED vars
  BY <1>1 DEF OpenIngress, Rest, vars
<1>10. PICK u \in Turn : RunStep(u)
  BY <1>5, <1>6, <1>7, <1>8, <1>9 DEF Next
<1>11. ~RunActivate(u) /\ ~RunAbandoned(u) /\ ~RunCollect(u) /\ ~RunCancelled(u)
       /\ ~RunDrained(u) /\ \A d \in Child : ~RunWaits(u, d)
  BY <1>1, <1>2, <1>4
     DEF RunActivate, RunAbandoned, RunCollect, RunCancelled, RunDrained, RunWaits,
         SettleByOther
<1>12. PICK d \in Child : RunPublish(u, d) \/ RunGate(u, d)
  BY <1>10, <1>11 DEF RunStep
<1>13. PICK kind \in {"translated", "fallback"} :
          Publish(u, d, kind) /\ (kind = "translated" => Ready(line, u))
  BY <1>12 DEF RunPublish, RunGate
<1>14. u = t /\ d = c /\ kind = "translated"
  <2>1. Settle(u, {d}, kind) /\ {d} \in SUBSET Child
    BY <1>13 DEF Publish, SettleByOther
  <2>2. u = t /\ c \in {d} /\ kind = "translated"
    BY <1>0, <2>1, OnlyOneShown DEF Kind
  <2>. QED
    BY <2>2
<1>. QED
  BY <1>12, <1>13, <1>14 DEF RunPublish, RunGate, Publishable

\* The first of a set of children has none of the set before it.
LEMMA FirstIsFirst ==
    ASSUME NEW S \in SUBSET Child, NEW c \in FirstOf(S, 1), NEW d \in S
    PROVE  ~(d < c)
<1> SUFFICES ASSUME d < c PROVE FALSE
  OBVIOUS
<1>1. c \in S /\ d # c /\ Cardinality({e \in S : e <= c}) <= 1
  BY KAssumption DEF FirstOf, Child
<1>2. IsFiniteSet(Child)
  BY KAssumption, FS_Interval DEF Child
<1>3. IsFiniteSet({e \in S : e <= c})
  <2>1. {e \in S : e <= c} \in SUBSET Child
    OBVIOUS
  <2>. QED
    BY <1>2, <2>1, FS_Subset
<1>4. {c, d} \in SUBSET {e \in S : e <= c}
  BY <1>1, KAssumption DEF Child
<1>5. Cardinality({c, d}) = 2
  <2>1. IsFiniteSet({c}) /\ Cardinality({c}) = 1
    BY FS_Singleton
  <2>2. Cardinality({c} \cup {d}) = Cardinality({c}) + 1
    <3>1. d \notin {c}
      BY <1>1
    <3>. QED
      BY <2>1, <3>1, FS_AddElement
  <2>3. {c} \cup {d} = {c, d}
    OBVIOUS
  <2>. QED
    BY <2>1, <2>2, <2>3
<1>6. Cardinality({c, d}) <= Cardinality({e \in S : e <= c})
  BY <1>3, <1>4, FS_Subset
<1>7. Cardinality({e \in S : e <= c}) \in Nat
  BY <1>3, FS_CardinalityType
<1>. QED
  BY <1>1, <1>5, <1>6, <1>7

\* Translations of one turn appear in the order of its segments
\* (publish_index of _run_peer_children).
THEOREM ChildrenInOrderAlways == Spec => ChildrenInOrder
<1>1. IInv /\ [Next]_vars =>
        [\A t \in Turn, c \in Child : ShownNow(t, c, {"translated"}) =>
            \A d \in Child : d < c => d \in completed[t]]_vars
  <2> SUFFICES ASSUME IInv, [Next]_vars, NEW t \in Turn, NEW c \in Child,
                      ShownNow(t, c, {"translated"}), NEW d \in Child, d < c
               PROVE  d \in completed[t]
    OBVIOUS
  <2>1. c \in FirstOf(Remaining(t), 1)
    BY TranslatedByRun
  <2>2. Remaining(t) \in SUBSET Child
    BY DEF Remaining
  <2>3. d \notin Remaining(t)
    BY <2>1, <2>2, FirstIsFirst
  <2>. QED
    BY <2>3 DEF Remaining
<1>. QED
  BY <1>1, Invariance, PTL DEF Spec, ChildrenInOrder

\* No translation appears once its channel is being cancelled: a run that already
\* waits for its place is cancelled, or its place is gone.
THEOREM NothingTranslatedAfterCancelAlways == Spec => NothingTranslatedAfterCancel
<1>1. IInv /\ ChannelInv /\ [Next]_vars =>
        [\A t \in Turn, c \in Child :
            ShownNow(t, c, {"translated"}) => ~ChildCancelled(t)]_vars
  <2> SUFFICES ASSUME IInv, ChannelInv, [Next]_vars, NEW t \in Turn, NEW c \in Child,
                      ShownNow(t, c, {"translated"})
               PROVE  ~ChildCancelled(t)
    OBVIOUS
  <2>1. CASE run[t] = "loop"
    BY <2>1, TranslatedByRun DEF ParentCancelled
  <2>2. CASE run[t] = "gate"
    <3>1. t \notin killed /\ Ready(line, t)
      BY <2>2, TranslatedByRun
    <3>2. ~closed /\ t \notin cancelling
      BY <2>2, <3>1 DEF ChannelInv, Told, Going
    <3>3. ~blocked
      BY <3>1, <3>2 DEF ChannelInv, Emptied, Ready
    <3>. QED
      BY <3>2, <3>3 DEF ChildCancelled
  <2>. QED
    BY <2>1, <2>2, TranslatedByRun
<1>. QED
  BY <1>1, Invariance, ChannelInvariance, PTL DEF Spec, NothingTranslatedAfterCancel

-------------------------------------------------------------------------------
\* Counting.
LEMMA FiniteSpace ==
    IsFiniteSet(Turn) /\ IsFiniteSet(Child) /\ IsFiniteSet(Turn \X Child)
<1>1. IsFiniteSet(Turn) /\ IsFiniteSet(Child)
  BY NAssumption, KAssumption, FS_Interval DEF Turn, Child
<1>. QED
  BY <1>1, FS_Product

\* A line is at least as long as the turns in it are many.
LEMMA LineCounts ==
    ASSUME NEW S, NEW q \in Seq(S), NEW W, \A w \in W : InLine(q, w)
    PROVE  IsFiniteSet(W) /\ Cardinality(W) <= Len(q)
<1>1. Len(q) \in Nat /\ DOMAIN q = 1 .. Len(q)
  BY LenProperties
<1>2. IsFiniteSet(1 .. Len(q)) /\ Cardinality(1 .. Len(q)) = Len(q)
  BY <1>1, FS_Interval
<1> DEFINE place == [w \in W |-> Position(q, w)]
<1>3. \A w \in W : place[w] \in 1 .. Len(q) /\ q[place[w]] = w
  BY <1>1 DEF InLine, Position
<1>4. place \in Injection(W, 1 .. Len(q))
  BY <1>3 DEF Injection, IsInjective
<1>. QED
  BY <1>2, <1>4, FS_Injection

\* A set of turns that is not empty has an oldest.
LEMMA OldestExists ==
    ASSUME NEW W \in SUBSET Turn, W # {}
    PROVE  \E v \in W : \A u \in W : v <= u
<1>1. W \subseteq Nat
  BY TurnInt
<1>2. PICK v \in W : \A u \in W : ~(<<u, v>> \in OpToRel(<, Nat))
  BY <1>1, NatLessThanWellFounded, WFMin
<1>3. \A u \in W : ~(u < v)
  BY <1>1, <1>2 DEF OpToRel
<1>. QED
  BY <1>1, <1>3

-------------------------------------------------------------------------------
\* The submitter never waits for the place of the turn it retires, provided the
\* waiting turns do not outnumber the places of the line, as in the pipeline, where
\* both bounds are 8.
THEOREM OverflowVictimNeverWaitsAlways ==
    ASSUME MaxUnsent <= WaitingCapacity
    PROVE  Spec => []OverflowVictimNeverWaits
<1>1. IInv /\ ChannelInv => OverflowVictimNeverWaits
  <2> SUFFICES ASSUME IInv, ChannelInv, sub.pc = "overflow", NEW v \in Overflow,
                      ~Answered(v)
               PROVE  FALSE
    BY DEF OverflowVictimNeverWaits
  <2> DEFINE Later == {u \in Waiting : u >= v}
  <2>1. v \in Turn /\ InLine(line, v) /\ ~Ready(line, v)
    BY DEF Answered, Overflow, Waiting
  <2>2. PICK h \in Turn : Ready(line, h)
    <3>1. line # <<>> /\ Head(line) = line[1] /\ 1 \in 1 .. Len(line)
      <4>1. line # <<>>
        BY <2>1, EmptySeq DEF InLine
      <4>. QED
        BY <4>1, LineShape, EmptySeq
    <3>2. Head(line) \in Turn
      BY <3>1, LineShape, ElementOfSeq
    <3>. QED
      BY <3>1, <3>2 DEF Ready
  <2>3. InLine(line, h) /\ h < v
    <3>1. line \in Seq(Nat)
      BY LineShape, TurnInt, SeqOfSubset
    <3>2. InLine(line, h) /\ h <= v
      BY <2>1, <2>2, <3>1, LineShape, HeadIsOldest
    <3>3. h # v
      BY <2>1, <2>2
    <3>. QED
      BY <2>1, <3>2, <3>3, TurnInt
  <2>4. \A u \in Later \cup {h} : InLine(line, u)
    <3>1. ASSUME NEW u \in Waiting, u >= v PROVE InLine(line, u)
      <4>1. u \in Turn /\ Open(u)
        BY DEF Waiting
      <4>2. u = v \/ v < u
        BY <2>1, <3>1, <4>1, TurnInt
      <4>. QED
        BY <2>1, <4>1, <4>2 DEF ChannelInv, Behind
    <3>. QED
      BY <2>3, <3>1
  <2>5. IsFiniteSet(Later \cup {h}) /\ Cardinality(Later \cup {h}) <= Len(line)
    BY <2>4, LineShape, LineCounts
  <2>6. IsFiniteSet(Later) /\ Cardinality(Later) \in Nat
    <3>1. Later \in SUBSET Turn
      BY DEF Waiting
    <3>. QED
      BY <3>1, FiniteSpace, FS_Subset, FS_CardinalityType
  <2>7. Cardinality(Later \cup {h}) = Cardinality(Later) + 1
    <3>1. h \notin Later
      BY <2>1, <2>3, TurnInt
    <3>. QED
      BY <2>6, <3>1, FS_AddElement
  <2>8. Cardinality(Later) > WaitingCapacity
    BY DEF Overflow
  <2>9. Len(line) <= MaxUnsent + 1
    BY DEF ChannelInv, Fits
  <2>. QED
    BY <2>5, <2>6, <2>7, <2>8, <2>9, LineShape, LimitAssumption
<1>. QED
  BY <1>1, Invariance, ChannelInvariance, PTL

-------------------------------------------------------------------------------
\* No more turns wait than may, when the overflow is empty.
LEMMA NoOverflowBound ==
    ASSUME Overflow = {} PROVE Cardinality(Waiting) <= WaitingCapacity
<1>1. Waiting \in SUBSET Turn /\ IsFiniteSet(Waiting)
  <2>1. Waiting \in SUBSET Turn
    BY DEF Waiting
  <2>. QED
    BY <2>1, FiniteSpace, FS_Subset
<1>2. CASE Waiting = {}
  BY <1>2, FS_EmptySet, LimitAssumption
<1>3. CASE Waiting # {}
  <2>1. PICK v \in Waiting : \A u \in Waiting : v <= u
    BY <1>1, <1>3, OldestExists
  <2>2. \A u \in Waiting : u >= v
    BY <1>1, <2>1, TurnInt
  <2>3. {u \in Waiting : u >= v} = Waiting
    BY <2>2
  <2>4. ~(Cardinality(Waiting) > WaitingCapacity)
    BY <2>1, <2>3 DEF Overflow
  <2>. QED
    BY <1>1, <2>4, FS_CardinalityType, LimitAssumption
<1>. QED
  BY <1>2, <1>3

\* Only a submission adds to the turns that wait, one turn at a time.
LEMMA FewerWait ==
    ASSUME Waiting' \in SUBSET Waiting
    PROVE  /\ Cardinality(Waiting') <= Cardinality(Waiting)
           /\ Cardinality(Waiting) \in Nat /\ Cardinality(Waiting') \in Nat
<1>1. Waiting \in SUBSET Turn
  BY DEF Waiting
<1>2. IsFiniteSet(Waiting)
  BY <1>1, FiniteSpace, FS_Subset
<1>. QED
  BY <1>2, FS_Subset, FS_CardinalityType

\* What a step leaves alone: a turn that started stays started, and only submit()
\* touches the submission in progress.
LEMMA StepFrame ==
    ASSUME [Next]_vars
    PROVE  started \subseteq started' /\ (~SubmitStep => sub' = sub)
<1>. USE DEF turnVars, taskVars, ownerVars, callerVars
<1>1. CASE SubmitStep
  BY <1>1 DEF SubmitStep, Submit, SubmitAdmitted, SubmitRefused, SubmitOverflow,
              SubmitNoOverflow, SubmitFinish
<1>2. ASSUME NEW t \in Turn, ExpiryStep(t)
      PROVE  started' = started /\ sub' = sub
  BY <1>2 DEF ExpiryStep, ExpiryFires, ExpiryGate, ExpiryKicked
<1>3. ASSUME NEW t \in Turn, RunStep(t)
      PROVE  started' = started /\ sub' = sub
  BY <1>3 DEF RunStep, RunActivate, RunAbandoned, RunCollect, RunPublish, RunWaits,
              RunGate, RunCancelled, RunDrained
<1>4. ASSUME NEW t \in Turn, NEW c \in Child, ChildStep(t, c)
      PROVE  started \subseteq started' /\ sub' = sub
  BY <1>4 DEF ChildStep, ChildAcquire, ChildReturns, ChildDies, MarkStarted
<1>5. ASSUME NEW k \in Controller, NEW kind, CtlStep(k) \/ CtlBegin(k, kind)
      PROVE  started' = started /\ sub' = sub
  BY <1>5 DEF CtlStep, CtlBegin, CtlSelect, CtlCloseScope, CtlReturn, CtlSettle
<1>6. CASE OpenIngress \/ Rest \/ UNCHANGED vars
  BY <1>6 DEF OpenIngress, Rest, vars
<1>. QED
  BY <1>1, <1>2, <1>3, <1>4, <1>5, <1>6 DEF Next

\* A turn that waits after a step other than the first of submit() waited before.
LEMMA StepWaits ==
    ASSUME IInv, [Next]_vars, ~Submit PROVE Waiting' \in SUBSET Waiting
<1>. USE DEF turnVars, taskVars, ownerVars, callerVars
<1>1. \A u \in Turn : status'[u] = "open" => Open(u)
  <2>1. Settles \/ Clears \/ Quiet \/ SubmitAdmitted
    BY StepSettles
  <2>. QED
    BY <2>1, BookEffect DEF Open
<1>2. started \subseteq started'
  BY StepFrame
<1>. QED
  BY <1>1, <1>2 DEF Waiting, Open

\* Every step keeps the bound: a submission adds one turn to the waiting ones and
\* does not go on before it retired the oldest of too many.
LEMMA StepWaitingBounded ==
    ASSUME IInv, WaitingBounded, [Next]_vars PROVE WaitingBounded'
<1>. USE DEF turnVars, taskVars, ownerVars, callerVars
<1>0. WaitingCapacity \in Nat
  BY LimitAssumption
<1>1. CASE Submit
  <2>1. next \in Turn /\ next \notin Waiting
    BY <1>1, NAssumption DEF Submit, IInv, TypeOK, Entered, Turn, Waiting, Open
  <2>2. sub.pc = "idle" /\ started' = started
    BY <1>1 DEF Submit
  <2>3. Cardinality(Waiting) <= WaitingCapacity /\ IsFiniteSet(Waiting)
        /\ Cardinality(Waiting) \in Nat
    <3>1. Waiting \in SUBSET Turn
      BY DEF Waiting
    <3>2. IsFiniteSet(Waiting) /\ Cardinality(Waiting) \in Nat
      BY <3>1, FiniteSpace, FS_Subset, FS_CardinalityType
    <3>3. ~(Cardinality(Waiting) > WaitingCapacity)
      BY <2>2 DEF WaitingBounded
    <3>. QED
      BY <1>0, <3>2, <3>3
  <2>4. CASE status' = [status EXCEPT ![next] = "rejected"] /\ sub' = sub
    <3>1. Waiting' \in SUBSET Waiting
      BY <2>1, <2>2, <2>4 DEF Waiting, Open, IInv, TypeOK
    <3>. QED
      BY <1>0, <2>3, <3>1, FewerWait DEF WaitingBounded
  <2>5. CASE /\ status' = [status EXCEPT ![next] = "open"]
             /\ sub' = [Idle EXCEPT !.pc = "admitting", !.turn = next]
    <3>1. Waiting' \in SUBSET (Waiting \cup {next})
      BY <2>1, <2>2, <2>5 DEF Waiting, Open, IInv, TypeOK
    <3>2. IsFiniteSet(Waiting \cup {next})
          /\ Cardinality(Waiting \cup {next}) = Cardinality(Waiting) + 1
      BY <2>1, <2>3, FS_AddElement
    <3>3. Cardinality(Waiting') <= Cardinality(Waiting) + 1
          /\ Cardinality(Waiting') \in Nat
      BY <3>1, <3>2, FS_Subset, FS_CardinalityType
    <3>4. sub'.pc = "admitting"
      BY <2>5 DEF Idle
    <3>. QED
      BY <1>0, <2>3, <3>3, <3>4 DEF WaitingBounded
  <2>. QED
    BY <1>1, <2>4, <2>5 DEF Submit
<1>2. CASE ~Submit
  <2>1. /\ Cardinality(Waiting') <= Cardinality(Waiting)
        /\ Cardinality(Waiting) \in Nat /\ Cardinality(Waiting') \in Nat
    BY <1>2, StepWaits, FewerWait
  <2>2. Cardinality(Waiting') <= WaitingCapacity + 1
    BY <1>0, <2>1 DEF WaitingBounded
  <2>3. CASE SubmitOverflow
    <3>1. PICK v \in Overflow : Retire(v)
      BY <2>3 DEF SubmitOverflow
    <3>2. v \in Waiting /\ v \in Turn /\ Open(v)
      BY DEF Overflow, Waiting
    <3>3. status'[v] # "open"
      <4>1. completed'[v] = Child
        BY <3>1, <3>2, RetireKeeps
      <4>2. Counted'
        BY StepPromised
      <4>. QED
        BY <3>2, <4>1, <4>2 DEF Counted, ClosedWhenComplete
    <3>4. Waiting' \in SUBSET (Waiting \ {v})
      BY <1>2, <3>3, StepWaits DEF Waiting, Open
    <3>5. IsFiniteSet(Waiting)
      <4>1. Waiting \in SUBSET Turn
        BY DEF Waiting
      <4>. QED
        BY <4>1, FiniteSpace, FS_Subset
    <3>6. IsFiniteSet(Waiting \ {v})
          /\ Cardinality(Waiting \ {v}) = Cardinality(Waiting) - 1
      BY <3>2, <3>5, FS_RemoveElement
    <3>7. Cardinality(Waiting') <= Cardinality(Waiting) - 1
      BY <3>4, <3>6, FS_Subset
    <3>8. Cardinality(Waiting') <= WaitingCapacity
      BY <1>0, <2>1, <3>7 DEF WaitingBounded
    <3>. QED
      BY <1>0, <2>1, <3>8 DEF WaitingBounded
  <2>4. CASE SubmitNoOverflow
    <3>1. Cardinality(Waiting) <= WaitingCapacity
      BY <1>0, <2>1, <2>4, NoOverflowBound DEF SubmitNoOverflow, WaitingBounded
    <3>. QED
      BY <1>0, <2>1, <3>1 DEF WaitingBounded
  <2>5. CASE SubmitAdmitted \/ SubmitRefused
    <3>1. sub'.pc = "overflow"
      BY <2>5, SubmissionTypes DEF SubmitAdmitted, SubmitRefused, IInv, Submission
    <3>. QED
      BY <2>2, <3>1 DEF WaitingBounded
  <2>6. CASE SubmitFinish
    <3>1. sub.pc = "finish"
      BY <2>6 DEF SubmitFinish
    <3>2. Cardinality(Waiting) <= WaitingCapacity
      BY <1>0, <2>1, <3>1 DEF WaitingBounded
    <3>. QED
      BY <1>0, <2>1, <3>2 DEF WaitingBounded
  <2>7. CASE ~SubmitStep
    <3>1. sub' = sub
      BY <2>7, StepFrame
    <3>2. CASE Cardinality(Waiting) > WaitingCapacity
      BY <2>2, <3>1, <3>2 DEF WaitingBounded
    <3>3. CASE ~(Cardinality(Waiting) > WaitingCapacity)
      BY <1>0, <2>1, <3>3 DEF WaitingBounded
    <3>. QED
      BY <3>2, <3>3
  <2>. QED
    BY <1>2, <2>3, <2>4, <2>5, <2>6, <2>7 DEF SubmitStep
<1>. QED
  BY <1>1, <1>2

\* At most one turn more than may waits, and only while its submission is about to
\* retire the oldest.
THEOREM WaitingBoundedAlways == Spec => []WaitingBounded
<1>1. Init => WaitingBounded
  <2> SUFFICES ASSUME Init PROVE WaitingBounded
    OBVIOUS
  <2>1. Waiting = {}
    BY DEF Init, Waiting, Open
  <2>. QED
    BY <2>1, FS_EmptySet, LimitAssumption DEF WaitingBounded
<1>. QED
  BY <1>1, StepWaitingBounded, Invariance, PTL DEF Spec

-------------------------------------------------------------------------------
(* What the tasks of a turn can be doing, given where its run is.          *)

\* Children are idle before the run begins, and wait for an execution slot only
\* while it goes on and they have still to end; what the run has collected are
\* results; the child a run waits at the gate with is the next to be shown; and a
\* turn that has not started has called no provider.
TurnTasks(t) ==
    /\ run[t] \in {"none", "queued"} => \A c \in Child : work[t][c] = "idle"
    /\ \A c \in finished[t] : work[t][c] \in {"output", "bare"}
    /\ \A c \in Child : work[t][c] = "slot" =>
          run[t] \in {"loop", "gate"} /\ (Open(t) => c \in Remaining(t))
    /\ run[t] = "gate" =>
          \E c \in finished[t] : Open(t) => FirstOf(Remaining(t), 1) = {c}
    /\ t \notin started => \A c \in Child : work[t][c] \in {"idle", "slot", "gone"}

TaskInv == \A t \in Turn : TurnTasks(t)

\* A step that leaves the tasks of a turn alone, and at most closes the turn.
LEMMA FrameTasks ==
    ASSUME TaskInv, NEW t \in Turn,
           work'[t] = work[t], finished'[t] = finished[t],
           t \in started => t \in started',
           run'[t] = run[t] \/ (run[t] = "none" /\ run'[t] = "queued"),
           status'[t] = "open" =>
              \/ run[t] = "none"
              \/ status[t] = "open" /\ completed'[t] = completed[t]
    PROVE  TurnTasks(t)'
<1>1. TurnTasks(t)
  BY DEF TaskInv
<1>2. run[t] = "none" => \A c \in Child : work[t][c] = "idle"
  BY <1>1 DEF TurnTasks
<1>3. run'[t] \in {"none", "queued"} => \A c \in Child : work'[t][c] = "idle"
  BY <1>1 DEF TurnTasks
<1>4. \A c \in finished'[t] : work'[t][c] \in {"output", "bare"}
  BY <1>1 DEF TurnTasks
<1>5. \A c \in Child : work'[t][c] = "slot" =>
          run'[t] \in {"loop", "gate"} /\ (status'[t] = "open" => c \in Child \ completed'[t])
  BY <1>1, <1>2 DEF TurnTasks, Open, Remaining
<1>6. run'[t] = "gate" =>
          \E c \in finished'[t] : status'[t] = "open" => FirstOf(Child \ completed'[t], 1) = {c}
  BY <1>1, <1>2 DEF TurnTasks, Open, Remaining
<1>7. t \notin started' => \A c \in Child : work'[t][c] \in {"idle", "slot", "gone"}
  BY <1>1 DEF TurnTasks
<1>. QED
  BY <1>3, <1>4, <1>5, <1>6, <1>7 DEF TurnTasks, Open, Remaining

\* The children that were left are settled together: the turn does not stay open.
LEMMA ClosesTasks ==
    ASSUME IInv, NEW t \in Turn, NEW kind, Settle(t, Remaining(t), kind)
    PROVE  \A u \in Turn : status'[u] = "open" =>
                              status[u] = "open" /\ completed'[u] = completed[u]
<1>1. completed[t] \in SUBSET Child
  BY DEF IInv, TypeOK
<1>2. Closes(t, Remaining(t))
  BY <1>1 DEF Closes, Remaining
<1>3. status'[t] = "closed"
  BY <1>2 DEF Settle, IInv, TypeOK
<1>4. \A u \in Turn : u # t => status'[u] = status[u] /\ completed'[u] = completed[u]
  BY DEF Settle, IInv, TypeOK
<1>. QED
  BY <1>3, <1>4

\* Retiring settles all that is left.
LEMMA RetireTasks ==
    ASSUME IInv, NEW t \in Turn, Retire(t)
    PROVE  \A u \in Turn : status'[u] = "open" =>
                              status[u] = "open" /\ completed'[u] = completed[u]
BY ClosesTasks DEF Retire

\* A run that begins to end cancels its child tasks.
LEMMA DrainTasks ==
    ASSUME IInv, TaskInv, NEW t \in Turn, Drain(t), UNCHANGED <<finished, started>>
    PROVE  /\ TurnTasks(t)'
           /\ \A u \in Turn : u # t => run'[u] = run[u] /\ work'[u] = work[u]
<1>1. /\ run'[t] = "drain" /\ work'[t] = CancelWork(work[t])
      /\ \A u \in Turn : u # t => run'[u] = run[u] /\ work'[u] = work[u]
  BY DEF Drain, IInv, TypeOK
<1>2. finished[t] \in SUBSET Child
  BY DEF IInv, TypeOK
<1>3. \A c \in Child : work'[t][c] = IF work[t][c] = "slot" THEN "gone"
                                     ELSE IF work[t][c] = "process" THEN "dying"
                                     ELSE work[t][c]
  BY <1>1 DEF CancelWork
<1>4. \A c \in finished[t] : work[t][c] \in {"output", "bare"}
  BY DEF TaskInv, TurnTasks
<1>5. t \notin started => \A c \in Child : work[t][c] \in {"idle", "slot", "gone"}
  BY DEF TaskInv, TurnTasks
<1>6. \A c \in finished'[t] : work'[t][c] \in {"output", "bare"}
  BY <1>2, <1>3, <1>4
<1>7. \A c \in Child : work'[t][c] # "slot"
  BY <1>3
<1>8. t \notin started' => \A c \in Child : work'[t][c] \in {"idle", "slot", "gone"}
  BY <1>3, <1>5
<1>. QED
  BY <1>1, <1>6, <1>7, <1>8 DEF TurnTasks

\* submit() and the expiry task touch the tasks of no turn.
LEMMA SubmissionTasks == ASSUME IInv, TaskInv, SubmitStep PROVE TaskInv'
<1>. USE DEF turnVars, taskVars, ownerVars, callerVars
<1> SUFFICES ASSUME NEW t \in Turn PROVE TurnTasks(t)'
  BY DEF TaskInv
<1>1. work' = work /\ finished' = finished /\ started' = started
  BY DEF SubmitStep, Submit, SubmitAdmitted, SubmitRefused, SubmitOverflow,
         SubmitNoOverflow, SubmitFinish
<1>2. CASE Submit
  <2>1. run' = run /\ completed' = completed
    BY <1>2 DEF Submit
  <2>2. status[next] = "none" /\ run[next] = "none"
    BY <1>2, NAssumption DEF Submit, IInv, TypeOK, Entered, Turn
  <2>3. t # next => status'[t] = status[t]
    BY <1>2 DEF Submit, IInv, TypeOK
  <2>. QED
    BY <1>1, <2>1, <2>2, <2>3, FrameTasks
<1>3. CASE SubmitAdmitted \/ SubmitNoOverflow
  BY <1>1, <1>3, FrameTasks DEF SubmitAdmitted, SubmitNoOverflow
<1>4. CASE SubmitRefused
  <2>1. sub.turn \in Turn
    BY <1>4, SubmissionTypes DEF SubmitRefused, IInv
  <2>2. run' = run /\ Settle(sub.turn, Remaining(sub.turn), "fallback")
    BY <1>4 DEF SubmitRefused, SettleByOther
  <2>. QED
    BY <1>1, <2>1, <2>2, ClosesTasks, FrameTasks
<1>5. CASE SubmitOverflow
  <2>1. PICK v \in Overflow : Retire(v)
    BY <1>5 DEF SubmitOverflow
  <2>2. v \in Turn /\ run' = run
    BY <1>5 DEF SubmitOverflow, Overflow, Waiting
  <2>. QED
    BY <1>1, <2>1, <2>2, RetireTasks, FrameTasks
<1>6. CASE SubmitFinish
  <2>1. sub.turn \in Turn /\ run[sub.turn] = "none"
    BY <1>6, SubmissionTypes DEF SubmitFinish, IInv, Submitting
  <2>2. t # sub.turn => run'[t] = run[t] /\ status'[t] = status[t]
                        /\ completed'[t] = completed[t]
    BY <1>6, <2>1 DEF SubmitFinish, SettleByOther, Settle, IInv, TypeOK
  <2>3. run'[sub.turn] \in {"none", "queued"}
    BY <1>6, <2>1 DEF SubmitFinish, IInv, TypeOK
  <2>4. CASE t = sub.turn
    BY <1>1, <2>1, <2>3, <2>4, FrameTasks
  <2>5. CASE t # sub.turn
    BY <1>1, <2>2, <2>5, FrameTasks
  <2>. QED
    BY <2>4, <2>5
<1>. QED
  BY <1>2, <1>3, <1>4, <1>5, <1>6 DEF SubmitStep

\* Neither does the expiry task.
LEMMA ExpiryTasks == ASSUME IInv, TaskInv, NEW u \in Turn, ExpiryStep(u) PROVE TaskInv'
<1>. USE DEF turnVars, taskVars, ownerVars, callerVars
<1> SUFFICES ASSUME NEW t \in Turn PROVE TurnTasks(t)'
  BY DEF TaskInv
<1>1. work' = work /\ finished' = finished /\ started' = started /\ run' = run
  BY DEF ExpiryStep, ExpiryFires, ExpiryGate, ExpiryKicked
<1>2. \/ UNCHANGED <<status, completed>>
      \/ Retire(u) \/ Settle(u, Remaining(u), "fallback")
  BY DEF ExpiryStep, ExpiryFires, ExpiryGate, ExpiryKicked
<1>3. CASE UNCHANGED <<status, completed>>
  BY <1>1, <1>3, FrameTasks
<1>4. CASE Retire(u)
  BY <1>1, <1>4, RetireTasks, FrameTasks
<1>5. CASE Settle(u, Remaining(u), "fallback")
  BY <1>1, <1>5, ClosesTasks, FrameTasks
<1>. QED
  BY <1>2, <1>3, <1>4, <1>5

\* The run of a turn: its own children go where its new place says.
LEMMA ActivateTasks == ASSUME IInv, TaskInv, NEW t \in Turn, RunActivate(t) PROVE TaskInv'
<1>. USE DEF turnVars
<1>1. run[t] = "queued" /\ UNCHANGED <<status, completed, finished, started>>
  BY DEF RunActivate
<1>2. /\ run'[t] = "loop"
      /\ \A c \in Child : work'[t][c] = IF c \in FirstOf(Remaining(t), ConcurrencyLimit)
                                        THEN "slot" ELSE work[t][c]
      /\ \A u \in Turn : u # t => run'[u] = run[u] /\ work'[u] = work[u]
  BY DEF RunActivate, IInv, TypeOK
<1>3. \A c \in Child : work[t][c] = "idle"
  BY <1>1 DEF TaskInv, TurnTasks
<1>4. finished[t] = {}
  <2>1. finished[t] \in SUBSET Child
    BY DEF IInv, TypeOK
  <2>2. \A c \in finished[t] : work[t][c] \in {"output", "bare"}
    BY DEF TaskInv, TurnTasks
  <2>. QED
    BY <1>3, <2>1, <2>2
<1>5. FirstOf(Remaining(t), ConcurrencyLimit) \subseteq Remaining(t)
  BY DEF FirstOf
<1>6. TurnTasks(t)'
  BY <1>1, <1>2, <1>3, <1>4, <1>5 DEF TurnTasks, Remaining
<1>7. \A u \in Turn : u # t => TurnTasks(u)'
  BY <1>1, <1>2, FrameTasks
<1>. QED
  BY <1>6, <1>7 DEF TaskInv

\* The run ends, from a queue or after its children have ended.
LEMMA EndTasks ==
    ASSUME IInv, TaskInv, NEW t \in Turn, RunAbandoned(t) \/ RunDrained(t)
    PROVE  TaskInv'
<1>1. run[t] \in {"queued", "drain"} /\ UNCHANGED <<finished, started, work>>
  BY DEF RunAbandoned, RunDrained
<1>2. run'[t] = "done" /\ \A u \in Turn : u # t => run'[u] = run[u]
  BY DEF RunAbandoned, RunDrained, IInv, TypeOK
<1>3. \A u \in Turn : status'[u] = "open" =>
                         status[u] = "open" /\ completed'[u] = completed[u]
  BY ClosesTasks DEF RunAbandoned, RunDrained, SettleByOther, Open
<1>4. \A c \in Child : work[t][c] # "slot"
  BY <1>1 DEF TaskInv, TurnTasks
<1>5. TurnTasks(t)'
  BY <1>1, <1>2, <1>4 DEF TaskInv, TurnTasks
<1>6. \A u \in Turn : u # t => TurnTasks(u)'
  BY <1>1, <1>2, <1>3, FrameTasks
<1>. QED
  BY <1>5, <1>6 DEF TaskInv

\* asyncio.wait returns: results are collected and idle children take their turn.
LEMMA CollectTasks == ASSUME IInv, TaskInv, NEW t \in Turn, RunCollect(t) PROVE TaskInv'
<1>. USE DEF turnVars
<1>1. run[t] = "loop" /\ UNCHANGED <<status, completed, started>>
  BY DEF RunCollect
<1>2. CASE Drain(t) /\ UNCHANGED finished
  <2>1. TurnTasks(t)' /\ \A u \in Turn : u # t => run'[u] = run[u] /\ work'[u] = work[u]
    BY <1>1, <1>2, DrainTasks
  <2>2. \A u \in Turn : u # t => TurnTasks(u)'
    BY <1>1, <1>2, <2>1, FrameTasks
  <2>. QED
    BY <2>1, <2>2 DEF TaskInv
<1>3. CASE ~(Drain(t) /\ UNCHANGED finished)
  <2>1. /\ \A c \in Ended(t) : work[t][c] # "gone"
        /\ finished' = [finished EXCEPT ![t] = @ \cup Ended(t)]
        /\ work' = [work EXCEPT ![t] =
              [c \in Child |-> IF c \in FirstOf(Unstarted(t), Cardinality(Ended(t)))
                               THEN "slot" ELSE @[c]]]
        /\ run' = run
    BY <1>3 DEF RunCollect
  <2>2. /\ finished'[t] = finished[t] \cup Ended(t)
        /\ \A c \in Child : work'[t][c] =
              IF c \in FirstOf(Unstarted(t), Cardinality(Ended(t)))
              THEN "slot" ELSE work[t][c]
        /\ \A u \in Turn : u # t => finished'[u] = finished[u] /\ work'[u] = work[u]
    BY <2>1 DEF IInv, TypeOK
  <2>3. FirstOf(Unstarted(t), Cardinality(Ended(t))) \subseteq Unstarted(t)
    BY DEF FirstOf
  <2>4. \A c \in Unstarted(t) : work[t][c] = "idle" /\ c \in Remaining(t)
    BY DEF Unstarted
  <2>5. \A c \in Ended(t) : c \in Child /\ work[t][c] \in {"output", "bare"}
    BY <2>1 DEF Ended
  <2>6. finished[t] \in SUBSET Child
    BY DEF IInv, TypeOK
  <2>7. TurnTasks(t)
    BY DEF TaskInv
  <2>8. \A c \in finished'[t] : work'[t][c] \in {"output", "bare"}
    BY <2>2, <2>3, <2>4, <2>5, <2>6, <2>7 DEF TurnTasks
  <2>9. \A c \in Child : work'[t][c] = "slot" => (status[t] = "open" => c \in Remaining(t))
    BY <2>2, <2>3, <2>4, <2>7 DEF TurnTasks, Open
  <2>10. t \notin started => \A c \in Child : work'[t][c] \in {"idle", "slot", "gone"}
    BY <2>2, <2>7 DEF TurnTasks
  <2>11. TurnTasks(t)'
    BY <1>1, <2>1, <2>8, <2>9, <2>10 DEF TurnTasks, Open, Remaining
  <2>12. \A u \in Turn : u # t => TurnTasks(u)'
    BY <1>1, <2>1, <2>2, FrameTasks
  <2>. QED
    BY <2>11, <2>12 DEF TaskInv
<1>. QED
  BY <1>2, <1>3

\* CancelledError, or the cancellation the loop saw.
LEMMA CancelledTasks == ASSUME IInv, TaskInv, NEW t \in Turn, RunCancelled(t) PROVE TaskInv'
<1>. USE DEF turnVars
<1>1. UNCHANGED <<status, completed, started, finished>> /\ Drain(t)
  BY DEF RunCancelled
<1>2. TurnTasks(t)' /\ \A u \in Turn : u # t => run'[u] = run[u] /\ work'[u] = work[u]
  BY <1>1, DrainTasks
<1>3. \A u \in Turn : u # t => TurnTasks(u)'
  BY <1>1, <1>2, FrameTasks
<1>. QED
  BY <1>2, <1>3 DEF TaskInv

\* A child that can be published has a result, in a turn that is open.
LEMMA PublishedChild ==
    ASSUME IInv, TaskInv, NEW t \in Turn, NEW c \in Child,
           RunPublish(t, c) \/ RunWaits(t, c) \/ RunGate(t, c)
    PROVE  /\ run[t] \in {"loop", "gate"} /\ t \notin killed
           /\ Open(t) /\ c \in finished[t] /\ c \in Remaining(t)
           /\ FirstOf(Remaining(t), 1) = {c} /\ work[t][c] \in {"output", "bare"}
<1>1. FirstOf(Remaining(t), 1) = {c} /\ run[t] \in {"loop", "gate"} /\ t \notin killed
  BY DEF RunPublish, RunWaits, RunGate, Publishable
<1>2. c \in Remaining(t)
  BY <1>1 DEF FirstOf
<1>3. Open(t)
  <2>1. completed[t] # Child
    BY <1>2 DEF Remaining
  <2>2. status[t] \notin {"none", "rejected", "closed"}
    BY <1>1, <2>1 DEF IInv, Entered, Counted, ClosedWhenComplete
  <2>. QED
    BY <2>2 DEF IInv, TypeOK, Open
<1>4. c \in finished[t]
  <2>1. CASE RunPublish(t, c) \/ RunWaits(t, c)
    BY <2>1 DEF RunPublish, RunWaits, Publishable
  <2>2. CASE RunGate(t, c)
    <3>1. PICK d \in finished[t] : FirstOf(Remaining(t), 1) = {d}
      BY <1>3, <2>2 DEF RunGate, TaskInv, TurnTasks
    <3>. QED
      BY <1>1, <3>1
  <2>. QED
    BY <2>1, <2>2
<1>5. work[t][c] \in {"output", "bare"}
  BY <1>4 DEF TaskInv, TurnTasks
<1>. QED
  BY <1>1, <1>2, <1>3, <1>4, <1>5

\* What publishing a child does to its turn.
LEMMA PublishEffect ==
    ASSUME IInv, NEW t \in Turn, NEW c \in Child, NEW kind, Publish(t, c, kind)
    PROVE  /\ completed'[t] = completed[t] \cup {c}
           /\ Closes(t, {c}) => status'[t] = "closed" /\ run'[t] = "drain"
           /\ ~Closes(t, {c}) => status'[t] = status[t] /\ run'[t] = "loop"
                                 /\ expiry' = expiry
           /\ \A u \in Turn : u # t => /\ run'[u] = run[u] /\ status'[u] = status[u]
                                       /\ completed'[u] = completed[u]
                                       /\ expiry'[u] = expiry[u]
<1>1. SettleByOther(t, {c}, kind)
      /\ run' = [run EXCEPT ![t] = IF Closes(t, {c}) THEN "drain" ELSE "loop"]
  BY DEF Publish
<1>2. Settle(t, {c}, kind)
  BY <1>1 DEF SettleByOther
<1>3. /\ completed'[t] = completed[t] \cup {c}
      /\ \A u \in Turn : u # t => completed'[u] = completed[u] /\ status'[u] = status[u]
      /\ status'[t] = IF Closes(t, {c}) THEN "closed" ELSE status[t]
  BY <1>2 DEF Settle, IInv, TypeOK
<1>4. /\ run'[t] = IF Closes(t, {c}) THEN "drain" ELSE "loop"
      /\ \A u \in Turn : u # t => run'[u] = run[u]
  BY <1>1 DEF IInv, TypeOK
<1>5. \A u \in Turn : u # t => expiry'[u] = expiry[u]
  BY <1>1 DEF SettleByOther, IInv, TypeOK
<1>6. ~Closes(t, {c}) => expiry' = expiry
  BY <1>1 DEF SettleByOther
<1>. QED
  BY <1>3, <1>4, <1>5, <1>6

\* The run shows a child, or waits at the gate to show it.
LEMMA PublishTasks ==
    ASSUME IInv, TaskInv, NEW t \in Turn, NEW c \in Child,
           RunPublish(t, c) \/ RunWaits(t, c) \/ RunGate(t, c)
    PROVE  TaskInv'
<1>. USE DEF turnVars
<1>1. UNCHANGED <<work, finished, started>>
  BY DEF RunPublish, RunWaits, RunGate
<1>2. /\ Open(t) /\ c \in finished[t] /\ c \in Remaining(t)
      /\ FirstOf(Remaining(t), 1) = {c} /\ work[t][c] \in {"output", "bare"}
      /\ run[t] \in {"loop", "gate"}
  BY PublishedChild
<1>3. TurnTasks(t)
  BY DEF TaskInv
<1>4. CASE RunWaits(t, c)
  <2>1. run'[t] = "gate" /\ UNCHANGED <<status, completed>>
        /\ \A u \in Turn : u # t => run'[u] = run[u]
    BY <1>4 DEF RunWaits, IInv, TypeOK
  <2>2. TurnTasks(t)'
    <3>1. \A d \in Child : work'[t][d] = "slot" => (status'[t] = "open" => d \in Child \ completed'[t])
      BY <1>1, <1>3, <2>1 DEF TurnTasks, Open, Remaining
    <3>2. \E d \in finished'[t] : status'[t] = "open" => FirstOf(Child \ completed'[t], 1) = {d}
      BY <1>1, <1>2, <2>1 DEF Remaining
    <3>3. \A d \in finished'[t] : work'[t][d] \in {"output", "bare"}
      BY <1>1, <1>3 DEF TurnTasks
    <3>4. t \notin started' => \A d \in Child : work'[t][d] \in {"idle", "slot", "gone"}
      BY <1>1, <1>3 DEF TurnTasks
    <3>. QED
      BY <2>1, <3>1, <3>2, <3>3, <3>4 DEF TurnTasks, Open, Remaining
  <2>3. \A u \in Turn : u # t => TurnTasks(u)'
    BY <1>1, <2>1, FrameTasks
  <2>. QED
    BY <2>2, <2>3 DEF TaskInv
<1>5. CASE RunPublish(t, c) \/ RunGate(t, c)
  <2>1. PICK kind \in {"translated", "fallback"} : Publish(t, c, kind)
    BY <1>5 DEF RunPublish, RunGate
  <2>2. /\ completed'[t] = completed[t] \cup {c}
        /\ Closes(t, {c}) => run'[t] = "drain"
        /\ ~Closes(t, {c}) => run'[t] = "loop"
        /\ \A u \in Turn : u # t => /\ run'[u] = run[u] /\ status'[u] = status[u]
                                    /\ completed'[u] = completed[u]
    BY <2>1, PublishEffect
  <2>3. \A d \in Child : work[t][d] = "slot" => d # c /\ d \in Child \ completed[t]
    BY <1>2, <1>3 DEF TurnTasks, Remaining
  <2>4. Closes(t, {c}) => \A d \in Child : work[t][d] # "slot"
    BY <2>3 DEF Closes
  <2>5. TurnTasks(t)'
    <3>1. \A d \in Child : work'[t][d] = "slot" => run'[t] = "loop" /\ d \in Child \ completed'[t]
      BY <1>1, <2>2, <2>3, <2>4
    <3>2. \A d \in finished'[t] : work'[t][d] \in {"output", "bare"}
      BY <1>1, <1>3 DEF TurnTasks
    <3>3. t \notin started' => \A d \in Child : work'[t][d] \in {"idle", "slot", "gone"}
      BY <1>1, <1>3 DEF TurnTasks
    <3>4. run'[t] \in {"drain", "loop"}
      BY <2>2
    <3>. QED
      BY <3>1, <3>2, <3>3, <3>4 DEF TurnTasks, Open, Remaining
  <2>6. \A u \in Turn : u # t => TurnTasks(u)'
    BY <1>1, <2>2, FrameTasks
  <2>. QED
    BY <2>5, <2>6 DEF TaskInv
<1>. QED
  BY <1>4, <1>5

\* The task of a child: one child of one turn moves.
LEMMA ChildTasks ==
    ASSUME IInv, TaskInv, NEW t \in Turn, NEW c \in Child, ChildStep(t, c)
    PROVE  TaskInv'
<1>. USE DEF turnVars
<1>1. UNCHANGED <<status, completed, run, finished>> /\ started \subseteq started'
  BY DEF ChildStep, ChildAcquire, ChildReturns, ChildDies, MarkStarted
<1>2. PICK r \in {"gone", "process", "output", "bare"} :
         /\ work' = [work EXCEPT ![t][c] = r]
         /\ work[t][c] \in {"slot", "process", "dying"}
         /\ r = "process" => work[t][c] = "slot" /\ t \in started'
         /\ r \in {"output", "bare"} => work[t][c] = "process"
  <2>1. CASE ChildAcquire(t, c)
    BY <2>1 DEF ChildAcquire, MarkStarted
  <2>2. CASE ChildReturns(t, c)
    BY <2>2 DEF ChildReturns
  <2>3. CASE ChildDies(t, c)
    BY <2>3 DEF ChildDies
  <2>. QED
    BY <2>1, <2>2, <2>3 DEF ChildStep
<1>3. /\ work'[t][c] = r
      /\ \A d \in Child : d # c => work'[t][d] = work[t][d]
      /\ \A u \in Turn : u # t => work'[u] = work[u]
  BY <1>2 DEF IInv, TypeOK
<1>4. TurnTasks(t)
  BY DEF TaskInv
<1>5. c \notin finished[t] /\ run[t] \notin {"none", "queued"} /\ finished[t] \in SUBSET Child
  BY <1>2, <1>4 DEF TurnTasks, IInv, TypeOK
<1>6. TurnTasks(t)'
  <2>1. \A d \in finished'[t] : work'[t][d] \in {"output", "bare"}
    BY <1>1, <1>3, <1>4, <1>5 DEF TurnTasks
  <2>2. \A d \in Child : work'[t][d] = "slot" =>
          run'[t] \in {"loop", "gate"} /\ (status'[t] = "open" => d \in Child \ completed'[t])
    BY <1>1, <1>2, <1>3, <1>4 DEF TurnTasks, Open, Remaining
  <2>3. run'[t] = "gate" =>
          \E d \in finished'[t] : status'[t] = "open" => FirstOf(Child \ completed'[t], 1) = {d}
    BY <1>1, <1>4 DEF TurnTasks, Open, Remaining
  <2>4. t \notin started' => \A d \in Child : work'[t][d] \in {"idle", "slot", "gone"}
    BY <1>1, <1>2, <1>3, <1>4 DEF TurnTasks
  <2>. QED
    BY <1>1, <1>5, <2>1, <2>2, <2>3, <2>4 DEF TurnTasks, Open, Remaining
<1>7. \A u \in Turn : u # t => TurnTasks(u)'
  BY <1>1, <1>3, FrameTasks
<1>. QED
  BY <1>6, <1>7 DEF TaskInv

\* The controllers: only the closed scope touches the child tasks.
LEMMA ControllerTasks ==
    ASSUME IInv, TaskInv, NEW k \in Controller,
           CtlStep(k) \/ \E kind \in {"reset", "ingress", "shutdown"} : CtlBegin(k, kind)
    PROVE  TaskInv'
<1>. USE DEF turnVars, taskVars
<1>1. ASSUME NEW u \in Turn, CtlSettle(k, u) PROVE TaskInv'
  <2>1. UNCHANGED <<work, finished, started, run>> /\ Settle(u, Remaining(u), "fallback")
    BY <1>1 DEF CtlSettle, SettleByOther
  <2>2. \A t \in Turn : TurnTasks(t)'
    BY <2>1, ClosesTasks, FrameTasks
  <2>. QED
    BY <2>2 DEF TaskInv
<1>2. CASE CtlSelect(k) \/ CtlReturn(k)
           \/ \E kind \in {"reset", "ingress", "shutdown"} : CtlBegin(k, kind)
  <2>1. UNCHANGED <<work, finished, started, run, status, completed>>
    BY <1>2 DEF CtlSelect, CtlReturn, CtlBegin
  <2>2. \A t \in Turn : TurnTasks(t)'
    BY <2>1, FrameTasks
  <2>. QED
    BY <2>2 DEF TaskInv
<1>3. CASE CtlCloseScope(k)
  <2> SUFFICES ASSUME NEW t \in Turn PROVE TurnTasks(t)'
    BY DEF TaskInv
  <2>1. UNCHANGED <<finished, started, run, status, completed>>
        /\ work'[t] = CancelWork(work[t])
    BY <1>3 DEF CtlCloseScope
  <2>2. \A c \in Child : work'[t][c] = IF work[t][c] = "slot" THEN "gone"
                                       ELSE IF work[t][c] = "process" THEN "dying"
                                       ELSE work[t][c]
    BY <2>1 DEF CancelWork
  <2>3. TurnTasks(t) /\ finished[t] \in SUBSET Child
    BY DEF TaskInv, IInv, TypeOK
  <2>4. run'[t] \in {"none", "queued"} => \A c \in Child : work'[t][c] = "idle"
    BY <2>1, <2>2, <2>3 DEF TurnTasks
  <2>5. \A c \in finished'[t] : work'[t][c] \in {"output", "bare"}
    BY <2>1, <2>2, <2>3 DEF TurnTasks
  <2>6. \A c \in Child : work'[t][c] # "slot"
    BY <2>2
  <2>7. run'[t] = "gate" =>
          \E d \in finished'[t] : status'[t] = "open" => FirstOf(Child \ completed'[t], 1) = {d}
    BY <2>1, <2>3 DEF TurnTasks, Open, Remaining
  <2>8. t \notin started' => \A d \in Child : work'[t][d] \in {"idle", "slot", "gone"}
    BY <2>1, <2>2, <2>3 DEF TurnTasks
  <2>. QED
    BY <2>4, <2>5, <2>6, <2>7, <2>8 DEF TurnTasks, Open, Remaining
<1>. QED
  BY <1>1, <1>2, <1>3 DEF CtlStep

\* Every step keeps it.
LEMMA StepTasks == ASSUME IInv, TaskInv, [Next]_vars PROVE TaskInv'
<1>1. CASE OpenIngress \/ Rest \/ UNCHANGED vars
  <2>1. UNCHANGED <<work, finished, started, run, status, completed>>
    BY <1>1 DEF OpenIngress, Rest, vars, turnVars, taskVars
  <2>2. \A t \in Turn : TurnTasks(t)'
    BY <2>1, FrameTasks
  <2>. QED
    BY <2>2 DEF TaskInv
<1>2. ASSUME NEW t \in Turn, RunStep(t) PROVE TaskInv'
  BY <1>2, ActivateTasks, EndTasks, CollectTasks, CancelledTasks, PublishTasks DEF RunStep
<1>. QED
  BY <1>1, <1>2, SubmissionTasks, ExpiryTasks, ChildTasks, ControllerTasks DEF Next

\* Initially no task has anything to do.
LEMMA InitTasks == Init => TaskInv
BY DEF Init, TaskInv, TurnTasks

\* The tasks of a turn are where its run says, in every reachable state.
THEOREM TaskInvariance == Spec => []TaskInv
BY InitTasks, StepTasks, Invariance, PTL DEF Spec

-------------------------------------------------------------------------------
(* The execution slots.                                                    *)

\* The children that hold one, those still unwinding included.
Holds(t, c) == work[t][c] \in {"process", "dying"}
Busy == {tc \in Turn \X Child : Holds(tc[1], tc[2])}

\* Cancelling the child tasks of a turn takes no slot from any of them.
LEMMA CancelHolds ==
    ASSUME NEW w, NEW c \in Child
    PROVE  CancelWork(w)[c] \in {"process", "dying"} <=> w[c] \in {"process", "dying"}
BY DEF CancelWork

\* Only the task of a child takes or gives back a slot, one at a time.
LEMMA StepBusy ==
    ASSUME IInv, TaskInv, [Next]_vars
    PROVE  \/ running' = running /\ Busy' = Busy
           \/ \E tc \in (Turn \X Child) \ Busy :
                 running < ConcurrencyLimit /\ running' = running + 1 /\ Busy' = Busy \cup {tc}
           \/ \E tc \in Busy : running' = running - 1 /\ Busy' = Busy \ {tc}
<1>. USE DEF turnVars, taskVars, ownerVars, callerVars
<1>1. ASSUME UNCHANGED <<work, running>> PROVE running' = running /\ Busy' = Busy
  BY <1>1 DEF Busy, Holds
<1>2. ASSUME running' = running,
             \A t \in Turn, c \in Child : work'[t][c] \in {"process", "dying"} <=> Holds(t, c)
      PROVE  running' = running /\ Busy' = Busy
  BY <1>2 DEF Busy, Holds
<1>3. CASE SubmitStep
  BY <1>1, <1>3 DEF SubmitStep, Submit, SubmitAdmitted, SubmitRefused, SubmitOverflow,
                    SubmitNoOverflow, SubmitFinish
<1>4. ASSUME NEW t \in Turn, ExpiryStep(t) PROVE UNCHANGED <<work, running>>
  BY <1>4 DEF ExpiryStep, ExpiryFires, ExpiryGate, ExpiryKicked
<1>5. CASE OpenIngress \/ Rest \/ UNCHANGED vars
  BY <1>1, <1>5 DEF OpenIngress, Rest, vars
<1>6. ASSUME NEW k \in Controller,
             CtlStep(k) \/ \E kind \in {"reset", "ingress", "shutdown"} : CtlBegin(k, kind)
      PROVE  running' = running /\ Busy' = Busy
  <2>1. CASE CtlCloseScope(k)
    <3>1. running' = running /\ \A t \in Turn : work'[t] = CancelWork(work[t])
      BY <2>1 DEF CtlCloseScope
    <3>. QED
      BY <1>2, <3>1, CancelHolds DEF Holds
  <2>2. CASE ~CtlCloseScope(k)
    BY <1>1, <1>6, <2>2 DEF CtlStep, CtlBegin, CtlSelect, CtlReturn, CtlSettle
  <2>. QED
    BY <2>1, <2>2
<1>7. ASSUME NEW t \in Turn, RunStep(t) PROVE running' = running /\ Busy' = Busy
  <2>1. ASSUME Drain(t), running' = running PROVE running' = running /\ Busy' = Busy
    <3>1. work'[t] = CancelWork(work[t]) /\ \A u \in Turn : u # t => work'[u] = work[u]
      BY <2>1 DEF Drain, IInv, TypeOK
    <3>. QED
      BY <1>2, <2>1, <3>1, CancelHolds DEF Holds
  <2>2. ASSUME running' = running, NEW S, \A c \in S : work[t][c] = "idle",
               work' = [work EXCEPT ![t] = [c \in Child |-> IF c \in S THEN "slot" ELSE @[c]]]
        PROVE  running' = running /\ Busy' = Busy
    <3>1. /\ \A c \in Child : work'[t][c] = IF c \in S THEN "slot" ELSE work[t][c]
          /\ \A u \in Turn : u # t => work'[u] = work[u]
      BY <2>2 DEF IInv, TypeOK
    <3>2. \A c \in Child : work'[t][c] \in {"process", "dying"} <=> Holds(t, c)
      BY <2>2, <3>1 DEF Holds
    <3>. QED
      BY <1>2, <2>2, <3>1, <3>2 DEF Holds
  <2>3. CASE RunActivate(t)
    <3>1. \A c \in FirstOf(Remaining(t), ConcurrencyLimit) : c \in Child /\ work[t][c] = "idle"
      BY <2>3 DEF RunActivate, TaskInv, TurnTasks, FirstOf, Remaining
    <3>. QED
      BY <2>2, <2>3, <3>1 DEF RunActivate
  <2>4. CASE RunCollect(t)
    <3>1. \A c \in FirstOf(Unstarted(t), Cardinality(Ended(t))) : work[t][c] = "idle"
      BY DEF FirstOf, Unstarted
    <3>. QED
      BY <2>1, <2>2, <2>4, <3>1 DEF RunCollect
  <2>5. CASE RunCancelled(t)
    BY <2>1, <2>5 DEF RunCancelled
  <2>6. CASE \/ RunAbandoned(t) \/ RunDrained(t)
             \/ \E c \in Child : RunPublish(t, c) \/ RunWaits(t, c) \/ RunGate(t, c)
    BY <1>1, <2>6 DEF RunAbandoned, RunDrained, RunPublish, RunWaits, RunGate
  <2>. QED
    BY <1>7, <2>3, <2>4, <2>5, <2>6 DEF RunStep
<1>8. ASSUME NEW t \in Turn, NEW c \in Child, ChildStep(t, c)
      PROVE  \/ running' = running /\ Busy' = Busy
             \/ /\ <<t, c>> \notin Busy /\ running < ConcurrencyLimit
                /\ running' = running + 1 /\ Busy' = Busy \cup {<<t, c>>}
             \/ /\ <<t, c>> \in Busy
                /\ running' = running - 1 /\ Busy' = Busy \ {<<t, c>>}
  <2>1. ASSUME NEW r, work' = [work EXCEPT ![t][c] = r]
        PROVE  /\ work'[t][c] = r
               /\ \A u \in Turn, d \in Child : <<u, d>> # <<t, c>> => work'[u][d] = work[u][d]
    BY <2>1 DEF IInv, TypeOK
  <2>2. CASE ChildAcquire(t, c) /\ ChildCancelled(t)
    <3>1. running' = running /\ work[t][c] = "slot" /\ work' = [work EXCEPT ![t][c] = "gone"]
      BY <2>2 DEF ChildAcquire
    <3>2. \A u \in Turn, d \in Child : work'[u][d] \in {"process", "dying"} <=> Holds(u, d)
      BY <2>1, <3>1 DEF Holds
    <3>. QED
      BY <1>2, <3>1, <3>2
  <2>3. CASE ChildAcquire(t, c) /\ ~ChildCancelled(t)
    <3>1. /\ running < ConcurrencyLimit /\ running' = running + 1
          /\ work[t][c] = "slot" /\ work' = [work EXCEPT ![t][c] = "process"]
      BY <2>3 DEF ChildAcquire
    <3>2. /\ ~Holds(t, c) /\ work'[t][c] = "process"
          /\ \A u \in Turn, d \in Child : <<u, d>> # <<t, c>> => work'[u][d] = work[u][d]
      BY <2>1, <3>1 DEF Holds
    <3>3. <<t, c>> \notin Busy /\ Busy' = Busy \cup {<<t, c>>}
      BY <3>2 DEF Busy, Holds
    <3>. QED
      BY <3>1, <3>3
  <2>4. CASE ChildReturns(t, c) \/ ChildDies(t, c)
    <3>1. PICK r \in {"gone", "output", "bare"} :
             /\ running' = running - 1 /\ Holds(t, c)
             /\ work' = [work EXCEPT ![t][c] = r]
      BY <2>4 DEF ChildReturns, ChildDies, Holds
    <3>2. /\ Holds(t, c) /\ work'[t][c] = r
          /\ \A u \in Turn, d \in Child : <<u, d>> # <<t, c>> => work'[u][d] = work[u][d]
      BY <2>1, <3>1
    <3>3. <<t, c>> \in Busy /\ Busy' = Busy \ {<<t, c>>}
      BY <3>2 DEF Busy, Holds
    <3>. QED
      BY <3>1, <3>3
  <2>. QED
    BY <1>8, <2>2, <2>3, <2>4 DEF ChildStep
<1>. QED
  BY <1>1, <1>3, <1>4, <1>5, <1>6, <1>7, <1>8 DEF Next, Busy

\* The execution slots in use are the provider calls alive, also those that unwind
\* after a cancellation, and there are never more than concurrency_limit
\* (_acquire_peer_execution_slot, _release_peer_execution_slot).
THEOREM SlotAccountingAlways == Spec => []SlotAccounting
<1>1. SlotAccounting <=> running = Cardinality(Busy) /\ running <= ConcurrencyLimit
  BY DEF SlotAccounting, Busy, Holds
<1>2. Init => SlotAccounting
  <2> SUFFICES ASSUME Init PROVE SlotAccounting
    OBVIOUS
  <2>1. Busy = {}
    BY DEF Init, Busy, Holds
  <2>. QED
    BY <1>1, <2>1, FS_EmptySet, LimitAssumption DEF Init
<1>3. IInv /\ TaskInv /\ SlotAccounting /\ [Next]_vars => SlotAccounting'
  <2> SUFFICES ASSUME IInv, TaskInv, SlotAccounting, [Next]_vars
               PROVE  running' = Cardinality(Busy') /\ running' <= ConcurrencyLimit
    BY DEF SlotAccounting, Busy, Holds
  <2>1. Busy \in SUBSET (Turn \X Child)
    BY DEF Busy
  <2>2. IsFiniteSet(Busy) /\ Cardinality(Busy) \in Nat
    BY <2>1, FiniteSpace, FS_Subset, FS_CardinalityType
  <2>3. ConcurrencyLimit \in Nat
    BY LimitAssumption
  <2>4. CASE running' = running /\ Busy' = Busy
    BY <1>1, <2>4
  <2>5. CASE \E tc \in (Turn \X Child) \ Busy :
                running < ConcurrencyLimit /\ running' = running + 1 /\ Busy' = Busy \cup {tc}
    <3>1. Cardinality(Busy') = Cardinality(Busy) + 1
      BY <2>2, <2>5, FS_AddElement
    <3>. QED
      BY <1>1, <2>2, <2>3, <2>5, <3>1
  <2>6. CASE \E tc \in Busy : running' = running - 1 /\ Busy' = Busy \ {tc}
    <3>1. Cardinality(Busy') = Cardinality(Busy) - 1
      BY <2>2, <2>6, FS_RemoveElement
    <3>. QED
      BY <1>1, <2>2, <2>3, <2>6, <3>1
  <2>. QED
    BY <2>4, <2>5, <2>6, StepBusy
<1>. QED
  BY <1>2, <1>3, Invariance, TaskInvariance, PTL DEF Spec

-------------------------------------------------------------------------------
(* The active-parent slots.                                                *)

\* Before the first controller call no channel is cancelled; a run is cancelled or
\* ends only after its turn has closed, it is not cancelled while it ends, and an
\* expiry task that lost its race belongs to a turn whose first provider calls are
\* still out.
CalmTurn(t) ==
    /\ run[t] = "drain" => ~Open(t) /\ t \notin killed
    /\ t \in killed => ~Open(t) /\ Live(t)
    /\ Open(t) => \A c \in Child : work[t][c] \notin {"dying", "gone"}
    /\ expiry[t] = "kicked" =>
          /\ Open(t) /\ run[t] = "loop" /\ t \in started
          /\ \A c \in Child : work[t][c] \in {"idle", "slot", "process"}

CalmOwner == ~closed /\ ~blocked /\ cancelling = {}
Calm == calls = 0 => CalmOwner /\ \A t \in Turn : CalmTurn(t)

\* A step that leaves the run and the children of a turn alone.
LEMMA FrameCalm ==
    ASSUME NEW t \in Turn, CalmTurn(t),
           run'[t] = run[t], work'[t] = work[t], t \in started => t \in started',
           status'[t] = "open" => status[t] = "open" /\ (t \in killed' => t \in killed),
           t \in killed' => t \in killed \/ (Live(t) /\ run[t] # "drain"),
           expiry'[t] = "kicked" => status'[t] = "open" /\ expiry[t] = "kicked"
    PROVE  CalmTurn(t)'
<1>1. run'[t] = "drain" => status'[t] # "open" /\ t \notin killed'
  BY DEF CalmTurn, Open
<1>2. t \in killed' =>
        status'[t] # "open" /\ run'[t] \in {"queued", "loop", "gate", "drain"}
  BY DEF CalmTurn, Open, Live
<1>3. status'[t] = "open" => \A c \in Child : work'[t][c] \notin {"dying", "gone"}
  BY DEF CalmTurn, Open
<1>4. expiry'[t] = "kicked" =>
        /\ status'[t] = "open" /\ run'[t] = "loop" /\ t \in started'
        /\ \A c \in Child : work'[t][c] \in {"idle", "slot", "process"}
  BY DEF CalmTurn, Open
<1>. QED
  BY <1>1, <1>2, <1>3, <1>4 DEF CalmTurn, Open, Live

\* Without a call the controllers do nothing, and nothing is cancelled.
LEMMA CalmSteps ==
    ASSUME IInv, ChannelInv, Calm, [Next]_vars, calls' = 0
    PROVE  /\ calls = 0 /\ CalmOwner'
           /\ \A t \in Turn : ~ChildCancelled(t)
           /\ \/ SubmitStep
              \/ \E t \in Turn : \/ ExpiryStep(t) \/ RunStep(t)
                                 \/ \E c \in Child : ChildStep(t, c)
              \/ OpenIngress \/ UNCHANGED vars
<1>. USE DEF turnVars, taskVars, ownerVars, callerVars
<1>1. calls \in Nat
  BY BoundAssumption DEF IInv, TypeOK
<1>2. ASSUME NEW k \in Controller, NEW kind, CtlBegin(k, kind) PROVE FALSE
  BY <1>1, <1>2 DEF CtlBegin
<1>3. calls = 0
  <2>1. SubmitStep => calls' = calls
    BY DEF SubmitStep, Submit, SubmitAdmitted, SubmitRefused, SubmitOverflow,
           SubmitNoOverflow, SubmitFinish
  <2>2. \A t \in Turn : ExpiryStep(t) => calls' = calls
    BY DEF ExpiryStep, ExpiryFires, ExpiryGate, ExpiryKicked
  <2>3. \A t \in Turn : RunStep(t) => calls' = calls
    BY DEF RunStep, RunActivate, RunAbandoned, RunCollect, RunPublish, RunWaits,
           RunGate, RunCancelled, RunDrained
  <2>4. \A t \in Turn, c \in Child : ChildStep(t, c) => calls' = calls
    BY DEF ChildStep, ChildAcquire, ChildReturns, ChildDies
  <2>5. \A k \in Controller : CtlStep(k) => calls' = calls
    BY DEF CtlStep, CtlSelect, CtlCloseScope, CtlReturn, CtlSettle
  <2>6. OpenIngress \/ Rest \/ UNCHANGED vars => calls' = calls
    BY DEF OpenIngress, Rest, vars
  <2>. QED
    BY <1>2, <2>1, <2>2, <2>3, <2>4, <2>5, <2>6 DEF Next
<1>4. CalmOwner
  BY <1>3 DEF Calm
<1>5. ASSUME NEW k \in Controller, CtlStep(k) PROVE FALSE
  <2>1. ctl[k] = NoCall
    BY <1>3 DEF ChannelInv, Called
  <2>. QED
    BY <1>5, <2>1 DEF CtlStep, CtlSelect, CtlCloseScope, CtlReturn, CtlSettle, NoCall
<1>6. \/ SubmitStep
      \/ \E t \in Turn : \/ ExpiryStep(t) \/ RunStep(t)
                         \/ \E c \in Child : ChildStep(t, c)
      \/ OpenIngress \/ UNCHANGED vars
  BY <1>2, <1>5 DEF Next, Rest
<1>7. CalmOwner'
  <2>1. Settles \/ Submit \/ SubmitAdmitted \/ Still \/ OpenIngress \/ UNCHANGED vars
    BY <1>6, SubmitSettles, TaskSettles
  <2>2. cancelling' \subseteq cancelling
    <3>1. CASE Settles
      BY <3>1, SettlesCancelNothing DEF Settles
    <3>2. CASE Submit \/ SubmitAdmitted \/ Still \/ OpenIngress \/ UNCHANGED vars
      BY <3>2 DEF Submit, SubmitAdmitted, Still, OpenIngress, vars
    <3>. QED
      BY <2>1, <3>1, <3>2
  <2>3. closed' = closed /\ (blocked' = blocked \/ ~blocked')
    <3>1. CASE SubmitStep
      BY <3>1 DEF SubmitStep, Submit, SubmitAdmitted, SubmitRefused, SubmitOverflow,
                  SubmitNoOverflow, SubmitFinish
    <3>2. CASE \E t \in Turn : ExpiryStep(t)
      BY <3>2 DEF ExpiryStep, ExpiryFires, ExpiryGate, ExpiryKicked
    <3>3. CASE \E t \in Turn : RunStep(t)
      BY <3>3 DEF RunStep, RunActivate, RunAbandoned, RunCollect, RunPublish, RunWaits,
                  RunGate, RunCancelled, RunDrained
    <3>4. CASE \E t \in Turn, c \in Child : ChildStep(t, c)
      BY <3>4 DEF ChildStep, ChildAcquire, ChildReturns, ChildDies
    <3>5. CASE OpenIngress \/ UNCHANGED vars
      BY <3>5 DEF OpenIngress, vars
    <3>. QED
      BY <1>6, <3>1, <3>2, <3>3, <3>4, <3>5
  <2>. QED
    BY <1>4, <2>2, <2>3 DEF CalmOwner
<1>8. \A t \in Turn : ~ChildCancelled(t)
  BY <1>4 DEF CalmOwner, ChildCancelled
<1>. QED
  BY <1>3, <1>6, <1>7, <1>8

\* submit() in the calm.
LEMMA SubmissionCalm ==
    ASSUME IInv, TaskInv, \A t \in Turn : CalmTurn(t),
           \A t \in Turn : ~ChildCancelled(t), SubmitStep
    PROVE  \A t \in Turn : CalmTurn(t)'
<1>. USE DEF turnVars, taskVars, ownerVars, callerVars
<1> SUFFICES ASSUME NEW t \in Turn PROVE CalmTurn(t)'
  OBVIOUS
<1>0. CalmTurn(t)
  OBVIOUS
<1>1. work' = work /\ started' = started
  BY DEF SubmitStep, Submit, SubmitAdmitted, SubmitRefused, SubmitOverflow,
         SubmitNoOverflow, SubmitFinish
<1>2. CASE Submit
  <2>1. run' = run /\ killed' = killed /\ expiry' = expiry
    BY <1>2 DEF Submit
  <2>2. /\ next \in Turn /\ status[next] = "none" /\ run[next] = "none"
        /\ expiry[next] = "none"
    BY <1>2, NAssumption DEF Submit, IInv, TypeOK, Entered, Turn
  <2>3. t # next => status'[t] = status[t]
    BY <1>2 DEF Submit, IInv, TypeOK
  <2>4. CASE t # next
    <3>1. expiry[t] = "kicked" => status[t] = "open"
      BY <1>0 DEF CalmTurn, Open
    <3>. QED
      BY <1>0, <1>1, <2>1, <2>3, <2>4, <3>1, FrameCalm
  <2>5. CASE t = next
    <3>1. \A c \in Child : work[t][c] = "idle"
      BY <2>2, <2>5 DEF TaskInv, TurnTasks
    <3>2. t \notin killed
      BY <1>0, <2>2, <2>5 DEF CalmTurn, Live
    <3>. QED
      BY <1>1, <2>1, <2>2, <2>5, <3>1, <3>2 DEF CalmTurn
  <2>. QED
    BY <2>4, <2>5
<1>3. CASE SubmitAdmitted \/ SubmitNoOverflow
  <2>1. UNCHANGED <<run, killed, expiry, status>>
    BY <1>3 DEF SubmitAdmitted, SubmitNoOverflow
  <2>2. expiry[t] = "kicked" => status[t] = "open"
    BY <1>0 DEF CalmTurn, Open
  <2>. QED
    BY <1>0, <1>1, <2>1, <2>2, FrameCalm
<1>4. CASE SubmitRefused
  <2>1. /\ sub.turn \in Turn /\ Open(sub.turn) /\ expiry[sub.turn] = "none"
    BY <1>4, SubmissionTypes DEF SubmitRefused, IInv, Submitting
  <2>2. run' = run /\ killed' = killed
        /\ SettleByOther(sub.turn, Remaining(sub.turn), "fallback")
    BY <1>4 DEF SubmitRefused
  <2>3. /\ \A u \in Turn : u # sub.turn => /\ expiry'[u] = expiry[u]
                                           /\ status'[u] = status[u]
        /\ expiry'[sub.turn] = "none"
    BY <2>1, <2>2, SettleByOtherKeeps DEF Kind
  <2>4. status'[t] = "open" => status[t] = "open"
    BY <2>1, <2>2, ClosesTasks DEF SettleByOther
  <2>5. expiry'[t] = "kicked" => status'[t] = "open" /\ expiry[t] = "kicked"
    BY <1>0, <2>1, <2>3 DEF CalmTurn, Open
  <2>. QED
    BY <1>0, <1>1, <2>2, <2>4, <2>5, FrameCalm
<1>5. CASE SubmitOverflow
  <2>1. PICK v \in Overflow : Retire(v) /\ expiry' = [expiry EXCEPT ![v] = EndTimer(@)]
    BY <1>5 DEF SubmitOverflow
  <2>2. v \in Turn /\ Open(v) /\ v \notin started /\ run' = run
    BY <1>5 DEF SubmitOverflow, Overflow, Waiting
  <2>3. \A u \in Turn : status'[u] = "open" => status[u] = "open"
    BY <2>1, <2>2, RetireTasks
  <2>4. status'[v] # "open" /\ \A u \in Turn : u # v => status'[u] = status[u]
    <3>1. PICK kind : Settle(v, Remaining(v), kind)
      BY <2>1 DEF Retire
    <3>2. completed[v] \in SUBSET Child
      BY <2>2 DEF IInv, TypeOK
    <3>. QED
      BY <2>2, <3>1, <3>2 DEF Settle, Closes, Remaining, IInv, TypeOK
  <2>5. expiry[v] # "kicked" /\ run[v] # "drain"
    BY <2>2 DEF CalmTurn
  <2>6. expiry'[v] # "kicked" /\ \A u \in Turn : u # v => expiry'[u] = expiry[u]
    BY <2>1, <2>2, <2>5 DEF EndTimer, IInv, TypeOK
  <2>7. t \in killed' => t \in killed \/ (t = v /\ Live(v))
    BY <2>1 DEF Retire
  <2>8. expiry'[t] = "kicked" => status'[t] = "open" /\ expiry[t] = "kicked"
    BY <1>0, <2>4, <2>6 DEF CalmTurn, Open
  <2>. QED
    BY <1>0, <1>1, <2>2, <2>3, <2>4, <2>5, <2>7, <2>8, FrameCalm
<1>6. CASE SubmitFinish
  <2>1. /\ sub.turn \in Turn /\ run[sub.turn] = "none" /\ expiry[sub.turn] = "none"
    BY <1>6, SubmissionTypes DEF SubmitFinish, IInv, Submitting
  <2>2. /\ killed' = killed
        /\ t # sub.turn => run'[t] = run[t] /\ status'[t] = status[t] /\ expiry'[t] = expiry[t]
    BY <1>6, <2>1 DEF SubmitFinish, SettleByOther, Settle, IInv, TypeOK
  <2>3. run'[sub.turn] \in {"none", "queued"} /\ expiry'[sub.turn] # "kicked"
    BY <1>6, <2>1 DEF SubmitFinish, IInv, TypeOK
  <2>4. CASE t = sub.turn
    <3>1. t \notin killed /\ \A c \in Child : work[t][c] = "idle"
      BY <1>0, <2>1, <2>4 DEF CalmTurn, Live, TaskInv, TurnTasks
    <3>. QED
      BY <1>1, <2>2, <2>3, <2>4, <3>1 DEF CalmTurn
  <2>5. CASE t # sub.turn
    <3>1. expiry[t] = "kicked" => status[t] = "open"
      BY <1>0 DEF CalmTurn, Open
    <3>. QED
      BY <1>0, <1>1, <2>2, <2>5, <3>1, FrameCalm
  <2>. QED
    BY <2>4, <2>5
<1>. QED
  BY <1>2, <1>3, <1>4, <1>5, <1>6 DEF SubmitStep

\* The expiry task in the calm: it retires an open turn, whose run it may cancel.
LEMMA ExpiryCalm ==
    ASSUME IInv, TaskInv, \A t \in Turn : CalmTurn(t), NEW v \in Turn, ExpiryStep(v)
    PROVE  \A t \in Turn : CalmTurn(t)'
<1>. USE DEF turnVars, taskVars, ownerVars, callerVars
<1> SUFFICES ASSUME NEW t \in Turn PROVE CalmTurn(t)'
  OBVIOUS
<1>1. /\ UNCHANGED <<work, started, run>> /\ CalmTurn(t) /\ CalmTurn(v)
  BY DEF ExpiryStep, ExpiryFires, ExpiryGate, ExpiryKicked
<1>2. Open(v) /\ run[v] # "drain"
  BY <1>1 DEF ExpiryStep, ExpiryFires, ExpiryGate, ExpiryKicked, IInv, Timers, CalmTurn
<1>3. expiry'[v] \in {"gate", "done"} /\ \A u \in Turn : u # v => expiry'[u] = expiry[u]
  BY DEF ExpiryStep, ExpiryFires, ExpiryGate, ExpiryKicked, IInv, TypeOK
<1>4. CASE UNCHANGED <<status, killed>>
  <2>1. expiry'[t] = "kicked" => status'[t] = "open" /\ expiry[t] = "kicked"
    BY <1>1, <1>3, <1>4 DEF CalmTurn, Open
  <2>. QED
    BY <1>1, <1>4, <2>1, FrameCalm
<1>5. CASE ~UNCHANGED <<status, killed>>
  <2>1. /\ \E kind : Settle(v, Remaining(v), kind)
        /\ killed' = IF Live(v) THEN killed \cup {v} ELSE killed
    BY <1>2, <1>5 DEF ExpiryStep, ExpiryFires, ExpiryGate, ExpiryKicked, Retire
  <2>2. status'[v] # "open" /\ \A u \in Turn : u # v => status'[u] = status[u]
    <3>1. PICK kind : Settle(v, Remaining(v), kind)
      BY <2>1
    <3>2. completed[v] \in SUBSET Child
      BY DEF IInv, TypeOK
    <3>. QED
      BY <3>1, <3>2 DEF Settle, Closes, Remaining, IInv, TypeOK
  <2>3. t \in killed' => t \in killed \/ (t = v /\ Live(v))
    BY <2>1
  <2>4. expiry'[t] = "kicked" => status'[t] = "open" /\ expiry[t] = "kicked"
    BY <1>1, <1>3, <2>2 DEF CalmTurn, Open
  <2>5. status'[t] = "open" => status[t] = "open" /\ t # v
    BY <2>2
  <2>. QED
    BY <1>1, <1>2, <2>3, <2>4, <2>5, FrameCalm
<1>. QED
  BY <1>4, <1>5

\* The run in the calm.
LEMMA RunCalm ==
    ASSUME IInv, TaskInv, \A u \in Turn : CalmTurn(u), NEW t \in Turn,
           ~ChildCancelled(t), RunStep(t)
    PROVE  \A u \in Turn : CalmTurn(u)'
<1>. USE DEF turnVars, taskVars, ownerVars, callerVars
<1>1. CalmTurn(t) /\ (ParentCancelled(t) <=> ~Open(t))
  BY DEF ParentCancelled
<1>2. ASSUME \A u \in Turn : u # t =>
                /\ run'[u] = run[u] /\ work'[u] = work[u] /\ status'[u] = status[u]
                /\ expiry'[u] = expiry[u] /\ (u \in killed' <=> u \in killed),
             started' = started, CalmTurn(t)'
      PROVE  \A u \in Turn : CalmTurn(u)'
  <2>1. SUFFICES ASSUME NEW u \in Turn, u # t PROVE CalmTurn(u)'
    BY <1>2
  <2>2. expiry[u] = "kicked" => status[u] = "open"
    BY DEF CalmTurn, Open
  <2>. QED
    BY <1>2, <2>1, <2>2, FrameCalm
<1>3. CASE RunActivate(t)
  <2>1. /\ run[t] = "queued" /\ t \notin killed
        /\ UNCHANGED <<status, expiry, started, killed>>
    BY <1>3 DEF RunActivate
  <2>2. /\ run'[t] = "loop"
        /\ \A c \in Child : work'[t][c] = IF c \in FirstOf(Remaining(t), ConcurrencyLimit)
                                          THEN "slot" ELSE work[t][c]
        /\ \A u \in Turn : u # t => run'[u] = run[u] /\ work'[u] = work[u]
    BY <1>3 DEF RunActivate, IInv, TypeOK
  <2>3. \A c \in Child : work[t][c] = "idle"
    BY <2>1 DEF TaskInv, TurnTasks
  <2>4. expiry[t] # "kicked"
    BY <1>1, <2>1 DEF CalmTurn
  <2>5. CalmTurn(t)'
    BY <2>1, <2>2, <2>3, <2>4 DEF CalmTurn
  <2>. QED
    BY <1>2, <2>1, <2>2, <2>5
<1>4. CASE RunAbandoned(t) \/ RunDrained(t)
  <2>1. run[t] \in {"queued", "drain"} /\ ~Open(t)
    BY <1>1, <1>4 DEF RunAbandoned, RunDrained, CalmTurn
  <2>2. UNCHANGED <<status, expiry, started, work>>
    BY <1>4, <2>1 DEF RunAbandoned, RunDrained
  <2>3. /\ run'[t] = "done" /\ \A u \in Turn : u # t => run'[u] = run[u]
        /\ killed' = killed \ {t}
    BY <1>4 DEF RunAbandoned, RunDrained, IInv, TypeOK
  <2>4. expiry[t] # "kicked"
    BY <1>1, <2>1 DEF CalmTurn
  <2>5. CalmTurn(t)'
    BY <2>1, <2>2, <2>3, <2>4 DEF CalmTurn, Open
  <2>. QED
    BY <1>2, <2>2, <2>3, <2>5
<1>5. ASSUME Drain(t), ~Open(t), killed' = killed \ {t},
             UNCHANGED <<status, expiry, started>>
      PROVE  \A u \in Turn : CalmTurn(u)'
  <2>1. run'[t] = "drain" /\ \A u \in Turn : u # t => run'[u] = run[u] /\ work'[u] = work[u]
    BY <1>5 DEF Drain, IInv, TypeOK
  <2>2. expiry[t] # "kicked"
    BY <1>1, <1>5 DEF CalmTurn
  <2>3. CalmTurn(t)'
    BY <1>5, <2>1, <2>2 DEF CalmTurn, Open
  <2>. QED
    BY <1>2, <1>5, <2>1, <2>3
<1>6. CASE RunCancelled(t)
  <2>1. ~Open(t)
    BY <1>1, <1>6 DEF RunCancelled, CalmTurn
  <2>. QED
    BY <1>5, <1>6, <2>1 DEF RunCancelled
<1>7. CASE RunCollect(t)
  <2>1. /\ run[t] = "loop" /\ t \notin killed /\ Ended(t) # {}
        /\ UNCHANGED <<status, expiry, started, killed>>
    BY <1>7 DEF RunCollect
  <2>2. CASE ~Open(t) \/ \E c \in Ended(t) : work[t][c] = "gone"
    <3>1. Drain(t)
      BY <1>1, <1>7, <2>2 DEF RunCollect
    <3>2. ~Open(t)
      BY <1>1, <2>2 DEF CalmTurn, Ended
    <3>3. killed' = killed \ {t}
      BY <2>1
    <3>. QED
      BY <1>5, <2>1, <3>1, <3>2, <3>3
  <2>3. CASE ~(~Open(t) \/ \E c \in Ended(t) : work[t][c] = "gone")
    <3>1. /\ run' = run
          /\ work' = [work EXCEPT ![t] =
                [c \in Child |-> IF c \in FirstOf(Unstarted(t), Cardinality(Ended(t)))
                                 THEN "slot" ELSE @[c]]]
      BY <1>1, <1>7, <2>3 DEF RunCollect
    <3>2. /\ \A c \in Child : work'[t][c] \in {"slot", work[t][c]}
          /\ \A u \in Turn : u # t => work'[u] = work[u]
      BY <3>1 DEF IInv, TypeOK
    <3>3. expiry[t] # "kicked"
      BY <1>1, <2>1 DEF CalmTurn, Ended
    <3>4. CalmTurn(t)'
      BY <1>1, <2>1, <3>1, <3>2, <3>3 DEF CalmTurn, Open
    <3>. QED
      BY <1>2, <2>1, <3>1, <3>2, <3>4
  <2>. QED
    BY <2>2, <2>3
<1>8. ASSUME NEW c \in Child, RunWaits(t, c) PROVE \A u \in Turn : CalmTurn(u)'
  <2>1. UNCHANGED <<status, expiry, started, killed, work>>
    BY <1>8 DEF RunWaits
  <2>2. run'[t] = "gate" /\ \A u \in Turn : u # t => run'[u] = run[u]
    BY <1>8 DEF RunWaits, IInv, TypeOK
  <2>3. t \notin killed /\ work[t][c] \in {"output", "bare"}
    BY <1>8, PublishedChild
  <2>4. expiry[t] # "kicked"
    BY <1>1, <2>3 DEF CalmTurn
  <2>5. CalmTurn(t)'
    BY <1>1, <2>1, <2>2, <2>3, <2>4 DEF CalmTurn, Open
  <2>. QED
    BY <1>2, <2>1, <2>2, <2>5
<1>9. ASSUME NEW c \in Child, RunPublish(t, c) \/ RunGate(t, c)
      PROVE  \A u \in Turn : CalmTurn(u)'
  <2>1. UNCHANGED <<started, killed, work>>
    BY <1>9 DEF RunPublish, RunGate
  <2>2. t \notin killed /\ work[t][c] \in {"output", "bare"} /\ Open(t)
    BY <1>9, PublishedChild
  <2>3. PICK kind : Publish(t, c, kind)
    BY <1>9 DEF RunPublish, RunGate
  <2>4. /\ Closes(t, {c}) => status'[t] = "closed" /\ run'[t] = "drain"
        /\ ~Closes(t, {c}) => status'[t] = status[t] /\ run'[t] = "loop"
        /\ \A u \in Turn : u # t => /\ run'[u] = run[u] /\ status'[u] = status[u]
                                    /\ expiry'[u] = expiry[u]
    BY <2>3, PublishEffect
  <2>5. expiry[t] # "kicked"
    BY <1>1, <2>2 DEF CalmTurn
  <2>6. expiry'[t] # "kicked"
    BY <2>3, <2>5 DEF Publish, SettleByOther, EndTimer, IInv, TypeOK
  <2>7. CalmTurn(t)'
    BY <1>1, <2>1, <2>2, <2>4, <2>6 DEF CalmTurn, Open
  <2>. QED
    BY <1>2, <2>1, <2>4, <2>7
<1>. QED
  BY <1>3, <1>4, <1>6, <1>7, <1>8, <1>9 DEF RunStep

\* The tasks of the children in the calm: the first to call the provider cancels the
\* timer of the turn, which may be at the gate by then.
LEMMA ChildCalm ==
    ASSUME IInv, TaskInv, \A u \in Turn : CalmTurn(u), NEW t \in Turn, NEW c \in Child,
           ~ChildCancelled(t), ChildStep(t, c)
    PROVE  \A u \in Turn : CalmTurn(u)'
<1>. USE DEF turnVars, taskVars, ownerVars, callerVars
<1>1. CalmTurn(t) /\ TurnTasks(t)
  BY DEF TaskInv
<1>2. UNCHANGED <<status, run, killed>> /\ started \subseteq started'
  BY DEF ChildStep, ChildAcquire, ChildReturns, ChildDies, MarkStarted
<1>3. \A u \in Turn : u # t => work'[u] = work[u] /\ expiry'[u] = expiry[u]
  BY DEF ChildStep, ChildAcquire, ChildReturns, ChildDies, MarkStarted, IInv, TypeOK
<1>4. \A u \in Turn : u # t => CalmTurn(u)'
  <2> SUFFICES ASSUME NEW u \in Turn, u # t PROVE CalmTurn(u)'
    OBVIOUS
  <2>1. expiry[u] = "kicked" => status[u] = "open"
    BY DEF CalmTurn, Open
  <2>. QED
    BY <1>2, <1>3, <2>1, FrameCalm
<1>5. CASE ChildAcquire(t, c)
  <2>1. /\ work[t][c] = "slot" /\ work' = [work EXCEPT ![t][c] = "process"]
        /\ started' = started \cup {t}
        /\ expiry' = IF t \in started THEN expiry
                     ELSE [expiry EXCEPT ![t] = CancelTimer(@)]
    BY <1>5 DEF ChildAcquire, MarkStarted
  <2>2. work'[t][c] = "process" /\ \A d \in Child : d # c => work'[t][d] = work[t][d]
    BY <2>1 DEF IInv, TypeOK
  <2>3. run[t] \in {"loop", "gate"}
    BY <1>1, <2>1 DEF TurnTasks
  <2>4. CASE t \in started
    <3>1. expiry' = expiry
      BY <2>1, <2>4
    <3>2. expiry[t] = "kicked" =>
             \A d \in Child : work'[t][d] \in {"idle", "slot", "process"}
      BY <1>1, <2>2 DEF CalmTurn
    <3>3. Open(t) => \A d \in Child : work'[t][d] \notin {"dying", "gone"}
      BY <1>1, <2>2 DEF CalmTurn
    <3>4. CalmTurn(t)'
      BY <1>1, <1>2, <2>4, <3>1, <3>2, <3>3 DEF CalmTurn, Open, Live
    <3>. QED
      BY <1>4, <3>4
  <2>5. CASE t \notin started
    <3>1. expiry'[t] = CancelTimer(expiry[t])
      BY <2>1, <2>5 DEF IInv, TypeOK
    <3>2. expiry[t] # "kicked"
      BY <1>1, <2>5 DEF CalmTurn
    <3>3. expiry'[t] = "kicked" => expiry[t] = "gate"
      BY <3>1, <3>2 DEF CancelTimer
    <3>4. expiry[t] = "gate" => Open(t)
      BY DEF IInv, Timers
    <3>5. \A d \in Child : work[t][d] \in {"idle", "slot", "gone"}
      BY <1>1, <2>5 DEF TurnTasks
    <3>6. run[t] # "gate"
      <4>1. \A d \in finished[t] : d \in Child /\ work[t][d] \in {"output", "bare"}
        BY <1>1 DEF TurnTasks, IInv, TypeOK
      <4>. QED
        BY <1>1, <3>5, <4>1 DEF TurnTasks
    <3>7. Open(t) => \A d \in Child : work'[t][d] \in {"idle", "slot", "process"}
      BY <1>1, <2>2, <3>5 DEF CalmTurn
    <3>8. CalmTurn(t)'
      BY <1>1, <1>2, <2>1, <2>3, <3>3, <3>4, <3>6, <3>7 DEF CalmTurn, Open, Live
    <3>. QED
      BY <1>4, <3>8
  <2>. QED
    BY <2>4, <2>5
<1>6. CASE ChildReturns(t, c) \/ ChildDies(t, c)
  <2>1. PICK r \in {"gone", "output", "bare"} :
           /\ work' = [work EXCEPT ![t][c] = r] /\ expiry' = expiry
           /\ r = "gone" => ~Open(t)
           /\ expiry[t] # "kicked"
    BY <1>1, <1>6 DEF ChildReturns, ChildDies, CalmTurn
  <2>2. work'[t][c] = r /\ \A d \in Child : d # c => work'[t][d] = work[t][d]
    BY <2>1 DEF IInv, TypeOK
  <2>3. Open(t) => \A d \in Child : work'[t][d] \notin {"dying", "gone"}
    BY <1>1, <2>1, <2>2 DEF CalmTurn
  <2>4. CalmTurn(t)'
    BY <1>1, <1>2, <2>1, <2>3 DEF CalmTurn, Open, Live
  <2>. QED
    BY <1>4, <2>4
<1>. QED
  BY <1>5, <1>6 DEF ChildStep

\* Every step keeps the calm.
LEMMA StepCalm ==
    ASSUME IInv, ChannelInv, TaskInv, Calm, [Next]_vars PROVE Calm'
<1> SUFFICES ASSUME calls' = 0 PROVE CalmOwner' /\ \A t \in Turn : CalmTurn(t)'
  BY DEF Calm
<1>1. /\ calls = 0 /\ CalmOwner'
      /\ \A t \in Turn : ~ChildCancelled(t)
      /\ \/ SubmitStep
         \/ \E t \in Turn : \/ ExpiryStep(t) \/ RunStep(t)
                            \/ \E c \in Child : ChildStep(t, c)
         \/ OpenIngress \/ UNCHANGED vars
  BY CalmSteps
<1>2. \A t \in Turn : CalmTurn(t)
  BY <1>1 DEF Calm
<1>3. CASE OpenIngress \/ UNCHANGED vars
  <2>1. UNCHANGED <<run, work, started, status, killed, expiry>>
    BY <1>3 DEF OpenIngress, vars, turnVars, taskVars
  <2>2. \A t \in Turn : expiry[t] = "kicked" => status[t] = "open"
    BY <1>2 DEF CalmTurn, Open
  <2>3. \A t \in Turn : CalmTurn(t)'
    BY <1>2, <2>1, <2>2, FrameCalm
  <2>. QED
    BY <1>1, <2>3
<1>. QED
  BY <1>1, <1>2, <1>3, SubmissionCalm, ExpiryCalm, RunCalm, ChildCalm

\* Initially it is calm.
LEMMA InitCalm == Init => Calm
BY DEF Init, Calm, CalmOwner, CalmTurn, Open

\* It stays calm until a controller is called.
THEOREM CalmInvariance == Spec => []Calm
BY InitCalm, StepCalm, Invariance, ChannelInvariance, TaskInvariance, PTL DEF Spec

\* The turns whose run is inside _run_peer_children.
Inside == {t \in Turn : run[t] \in {"loop", "gate", "drain"}}

\* Only the run of a turn takes or gives back an active-parent slot; one that is
\* cancelled again while it ends does not give it back.
LEMMA StepInside ==
    ASSUME IInv, [Next]_vars
    PROVE  \/ active' = active /\ Inside' = Inside
           \/ \E t \in Turn \ Inside :
                 active < ActiveLimit /\ active' = active + 1 /\ Inside' = Inside \cup {t}
           \/ \E t \in Inside :
                 /\ Inside' = Inside \ {t} /\ run[t] = "drain"
                 /\ active' = IF t \in killed THEN active ELSE active - 1
<1>. USE DEF turnVars, taskVars, ownerVars, callerVars
<1>1. ASSUME UNCHANGED <<run, active>> PROVE active' = active /\ Inside' = Inside
  BY <1>1 DEF Inside
<1>2. CASE SubmitStep
  <2>1. CASE SubmitFinish
    <3>1. sub.turn \in Turn /\ run[sub.turn] = "none" /\ active' = active
      BY <2>1, SubmissionTypes DEF SubmitFinish, IInv, Submitting
    <3>2. /\ \A t \in Turn : t # sub.turn => run'[t] = run[t]
          /\ run'[sub.turn] \in {"none", "queued"}
      BY <2>1, <3>1 DEF SubmitFinish, IInv, TypeOK
    <3>. QED
      BY <3>1, <3>2 DEF Inside
  <2>2. CASE ~SubmitFinish
    BY <1>1, <1>2, <2>2 DEF SubmitStep, Submit, SubmitAdmitted, SubmitRefused,
                            SubmitOverflow, SubmitNoOverflow
  <2>. QED
    BY <2>1, <2>2
<1>3. ASSUME NEW t \in Turn, ExpiryStep(t) PROVE UNCHANGED <<run, active>>
  BY <1>3 DEF ExpiryStep, ExpiryFires, ExpiryGate, ExpiryKicked
<1>4. ASSUME NEW t \in Turn, NEW c \in Child, ChildStep(t, c) PROVE UNCHANGED <<run, active>>
  BY <1>4 DEF ChildStep, ChildAcquire, ChildReturns, ChildDies
<1>5. ASSUME NEW k \in Controller,
             CtlStep(k) \/ \E kind \in {"reset", "ingress", "shutdown"} : CtlBegin(k, kind)
      PROVE  UNCHANGED <<run, active>>
  BY <1>5 DEF CtlStep, CtlBegin, CtlSelect, CtlCloseScope, CtlReturn, CtlSettle
<1>6. CASE OpenIngress \/ Rest \/ UNCHANGED vars
  BY <1>1, <1>6 DEF OpenIngress, Rest, vars
<1>7. ASSUME NEW t \in Turn, NEW r, run' = [run EXCEPT ![t] = r]
      PROVE  run'[t] = r /\ \A u \in Turn : u # t => run'[u] = run[u]
  BY <1>7 DEF IInv, TypeOK
<1>8. ASSUME NEW t \in Turn, active' = active, run[t] \in {"loop", "gate", "drain"},
             NEW r \in {"loop", "gate", "drain"}, run' = [run EXCEPT ![t] = r]
      PROVE  active' = active /\ Inside' = Inside
  BY <1>7, <1>8 DEF Inside
<1>9. ASSUME NEW t \in Turn, RunStep(t)
      PROVE  \/ active' = active /\ Inside' = Inside
             \/ /\ t \notin Inside /\ active < ActiveLimit /\ active' = active + 1
                /\ Inside' = Inside \cup {t}
             \/ /\ t \in Inside /\ run[t] = "drain" /\ Inside' = Inside \ {t}
                /\ active' = IF t \in killed THEN active ELSE active - 1
  <2>1. CASE RunActivate(t)
    <3>1. /\ run[t] = "queued" /\ active < ActiveLimit /\ active' = active + 1
          /\ run' = [run EXCEPT ![t] = "loop"]
      BY <2>1 DEF RunActivate
    <3>. QED
      BY <1>7, <3>1 DEF Inside
  <2>2. CASE RunAbandoned(t)
    <3>1. run[t] = "queued" /\ active' = active /\ run' = [run EXCEPT ![t] = "done"]
      BY <2>2 DEF RunAbandoned
    <3>. QED
      BY <1>7, <3>1 DEF Inside
  <2>3. CASE RunDrained(t)
    <3>1. /\ run[t] = "drain" /\ run' = [run EXCEPT ![t] = "done"]
          /\ active' = IF t \in killed THEN active ELSE active - 1
      BY <2>3 DEF RunDrained, ReleaseActive
    <3>2. run'[t] = "done" /\ \A u \in Turn : u # t => run'[u] = run[u]
      BY <1>7, <3>1
    <3>3. t \in Inside /\ Inside' = Inside \ {t}
      BY <3>1, <3>2 DEF Inside
    <3>. QED
      BY <3>1, <3>3
  <2>4. CASE RunCollect(t)
    <3>1. run[t] = "loop" /\ active' = active
          /\ (UNCHANGED run \/ run' = [run EXCEPT ![t] = "drain"])
      BY <2>4 DEF RunCollect, Drain
    <3>. QED
      BY <1>1, <1>8, <3>1
  <2>5. CASE RunCancelled(t)
    <3>1. run[t] \in {"loop", "gate"} /\ active' = active
          /\ run' = [run EXCEPT ![t] = "drain"]
      BY <2>5 DEF RunCancelled, Drain
    <3>. QED
      BY <1>8, <3>1
  <2>6. ASSUME NEW c \in Child, RunPublish(t, c) \/ RunWaits(t, c) \/ RunGate(t, c)
        PROVE  active' = active /\ Inside' = Inside
    <3>1. /\ run[t] \in {"loop", "gate"} /\ active' = active
          /\ \E r \in {"loop", "gate", "drain"} : run' = [run EXCEPT ![t] = r]
      BY <2>6 DEF RunPublish, RunWaits, RunGate, Publish
    <3>. QED
      BY <1>8, <3>1
  <2>. QED
    BY <1>9, <2>1, <2>2, <2>3, <2>4, <2>5, <2>6 DEF RunStep
<1>. QED
  BY <1>1, <1>2, <1>3, <1>4, <1>5, <1>6, <1>9 DEF Next, Inside

\* The active count is never below the runs inside _run_peer_children, and without a
\* controller call it is exact.
ActiveInv ==
    /\ Cardinality(Inside) <= active /\ active <= ActiveLimit
    /\ calls = 0 => active = Cardinality(Inside)

\* Retirement by timeout, by overload, or by a start that races the timeout leaks no
\* active-parent slot and frees none twice (_acquire_peer_active_parent_slot,
\* _release_peer_active_parent_slot).
THEOREM ActiveAccountingAlways == Spec => []ActiveAccounting
<1>0. ActiveLimit \in Nat
  BY LimitAssumption DEF ActiveLimit
<1>1. IInv => Inside \in SUBSET Turn /\ IsFiniteSet(Inside) /\ Cardinality(Inside) \in Nat
  <2>1. Inside \in SUBSET Turn
    BY DEF Inside
  <2>. QED
    BY <2>1, FiniteSpace, FS_Subset, FS_CardinalityType
<1>2. Init => ActiveInv
  <2> SUFFICES ASSUME Init PROVE ActiveInv
    OBVIOUS
  <2>1. Inside = {}
    BY DEF Init, Inside
  <2>. QED
    BY <1>0, <2>1, FS_EmptySet DEF Init, ActiveInv
<1>3. IInv /\ ChannelInv /\ Calm /\ ActiveInv /\ [Next]_vars => ActiveInv'
  <2> SUFFICES ASSUME IInv, ChannelInv, Calm, ActiveInv, [Next]_vars PROVE ActiveInv'
    OBVIOUS
  <2>1. active \in Int /\ IsFiniteSet(Inside) /\ Cardinality(Inside) \in Nat
    BY <1>1 DEF IInv, TypeOK
  <2>2. calls' = 0 => calls = 0
    BY CalmSteps
  <2>3. CASE active' = active /\ Inside' = Inside
    BY <2>2, <2>3 DEF ActiveInv
  <2>4. CASE \E t \in Turn \ Inside :
                active < ActiveLimit /\ active' = active + 1 /\ Inside' = Inside \cup {t}
    <3>1. Cardinality(Inside') = Cardinality(Inside) + 1
      BY <2>1, <2>4, FS_AddElement
    <3>. QED
      BY <1>0, <2>1, <2>2, <2>4, <3>1 DEF ActiveInv
  <2>5. CASE \E t \in Inside :
                /\ Inside' = Inside \ {t} /\ run[t] = "drain"
                /\ active' = IF t \in killed THEN active ELSE active - 1
    <3>1. PICK t \in Inside :
             /\ Inside' = Inside \ {t} /\ run[t] = "drain"
             /\ active' = IF t \in killed THEN active ELSE active - 1
      BY <2>5
    <3>2. Cardinality(Inside') = Cardinality(Inside) - 1
      BY <2>1, <3>1, FS_RemoveElement
    <3>3. calls = 0 => t \notin killed
      BY <3>1 DEF Calm, CalmTurn, Inside
    <3>. QED
      BY <1>0, <2>1, <2>2, <3>1, <3>2, <3>3 DEF ActiveInv
  <2>. QED
    BY <2>3, <2>4, <2>5, StepInside
<1>4. IInv /\ ActiveInv => ActiveAccounting
  <2> SUFFICES ASSUME IInv, ActiveInv PROVE ActiveAccounting
    OBVIOUS
  <2>1. active \in Int /\ Cardinality(Inside) \in Nat
    BY <1>1 DEF IInv, TypeOK
  <2>2. active \in 0 .. ActiveLimit
    BY <1>0, <2>1 DEF ActiveInv
  <2>. QED
    BY <2>2 DEF ActiveInv, ActiveAccounting, Inside
<1>. QED
  BY <1>2, <1>3, <1>4, Invariance, ChannelInvariance, CalmInvariance, PTL DEF Spec

===============================================================================
