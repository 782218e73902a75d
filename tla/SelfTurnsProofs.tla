---------------------------- MODULE SelfTurnsProofs ----------------------------
(***************************************************************************)
(* What holds of the turns of the self channel, for every number of buffers,  *)
(* targets, slots and controllers.                                            *)
(*                                                                         *)
(* The operators and the types come first.  Then Course relates the record, the *)
(* commit and the run of a turn; Judged adds the verdicts of retirements; and    *)
(* five arguments follow from what a step may do to an operation or a run:       *)
(* what became of the children (Tally), whose text and whose slot their calls    *)
(* are for (Latest, Owned), how turns end and give their slots back (Account to  *)
(* Exits), what keeps the newest draft from being translated, and how many       *)
(* turns wait (Bounded).                                                     *)
(***************************************************************************)
EXTENDS SelfTurns, FiniteSetTheorems, SequenceTheorems, WellFoundedInduction, TLAPS

Line == INSTANCE OutputLineProofs

-------------------------------------------------------------------------------
(* The operators.                                                          *)

\* The head of a list of turns is the smallest of them.
LEMMA SmallestOf ==
    ASSUME NEW S \in SUBSET Turn, S # {}
    PROVE  Smallest(S) \in S /\ \A u \in S : Smallest(S) <= u
<1>1. S \subseteq Nat
  BY SizeAssumption DEF Turn
<1>2. PICK m \in S : \A u \in S : ~(<<u, m>> \in OpToRel(<, Nat))
  BY <1>1, NatLessThanWellFounded, WFMin
<1>3. \A u \in S : ~(u < m)
  BY <1>1, <1>2 DEF OpToRel
<1>4. \A u \in S : m <= u
  BY <1>1, <1>3
<1>. QED
  BY <1>4 DEF Smallest

\* Leaving the queue for slots.
LEMMA LeaveQueue ==
    ASSUME NEW q \in Seq(Turn), NEW t \in Turn
    PROVE  RemoveFirst(q, t) \in Seq(Turn)
<1>1. Line!RemoveFirst(q, t) = RemoveFirst(q, t)
  BY DEF RemoveFirst, Line!RemoveFirst, RemoveAt, Line!RemoveAt,
         SelectInSeq, Line!SelectInSeq, Min, Line!Min
<1>. QED
  BY <1>1, Line!RemoveFirstElements

Operations == [Child -> Operation]
Speculations == [spec : Turn \cup {NoTurn}, op : [Turn -> Operations]]

\* The first child is a child.
LEMMA FirstChild == 1 \in Child
BY SizeAssumption DEF Child

\* _start_draft_operations keeps what was started before.
LEMMA LaunchTypes ==
    ASSUME NEW o \in Operations, NEW all \in BOOLEAN, NEW e \in 0 .. MaxEpochs,
           NEW guess \in BOOLEAN
    PROVE  /\ Launch(o, all, e, guess) \in Operations
           /\ \A k \in Child : o[k].st # "none" => Launch(o, all, e, guess)[k] = o[k]
           /\ \A k \in Child : \/ Launch(o, all, e, guess)[k] = o[k]
                               \/ /\ o[k].st = "none"
                                  /\ Launch(o, all, e, guess)[k] =
                                        [st |-> "run", epoch |-> e, guess |-> guess]
<1>1. [st |-> "run", epoch |-> e, guess |-> guess] \in Operation
  BY DEF Operation
<1>. QED
  BY <1>1 DEF Launch, Operations

\* _start_current_draft yields a turn and operations.
LEMMA CurrentTypes ==
    ASSUME TypeOK, NEW T \in SUBSET Turn, NEW sp \in Turn \cup {NoTurn},
           NEW o \in [Turn -> Operations]
    PROVE  Current(T, sp, o) \in Speculations
<1> DEFINE C == {t \in T : Startable(t) /\ sp \in {NoTurn, t}}
           f == [t \in Turn |-> IF t \in C THEN Launch(o[t], t \in eligible, epoch[t], TRUE) ELSE o[t]]
<1>1. Current(T, sp, o) = [spec |-> IF C = {} THEN sp ELSE Smallest(C), op |-> f]
  BY DEF Current
<1>2. C # {} => Smallest(C) \in Turn
  BY SmallestOf
<1>3. ASSUME NEW t \in Turn PROVE f[t] \in Operations
  <2>1. o[t] \in Operations /\ epoch[t] \in 0 .. MaxEpochs /\ (t \in eligible) \in BOOLEAN
    BY DEF TypeOK
  <2>2. Launch(o[t], t \in eligible, epoch[t], TRUE) \in Operations
    BY <2>1, LaunchTypes
  <2>. QED
    BY <2>1, <2>2
<1>4. f \in [Turn -> Operations]
  BY <1>3
<1>5. (IF C = {} THEN sp ELSE Smallest(C)) \in Turn \cup {NoTurn}
  BY <1>2
<1>. HIDE DEF C, f
<1>. QED
  BY <1>1, <1>4, <1>5 DEF Speculations

\* _release_speculative_occupancy yields a turn and operations.
LEMMA ReleasedTypes ==
    ASSUME TypeOK, NEW t \in Turn, NEW r \in Speculations
    PROVE  Released(t, r) \in Speculations
<1>1. Turn \ {t} \in SUBSET Turn /\ NoTurn \in Turn \cup {NoTurn} /\ r.op \in [Turn -> Operations]
  BY DEF Speculations
<1>2. Current(Turn \ {t}, NoTurn, r.op) \in Speculations
  BY <1>1, CurrentTypes
<1>. QED
  BY <1>2 DEF Released

\* The state of the speculation is one.
LEMMA SpeculationTypes ==
    ASSUME TypeOK
    PROVE  /\ Speculation \in Speculations /\ Current(Turn, spec, op) \in Speculations
           /\ Speculation.spec = spec /\ Speculation.op = op
<1>1. spec \in Turn \cup {NoTurn} /\ op \in [Turn -> Operations] /\ Turn \in SUBSET Turn
  BY DEF TypeOK, Operations
<1>2. Current(Turn, spec, op) \in Speculations
  BY <1>1, CurrentTypes
<1>. QED
  BY <1>1, <1>2 DEF Speculation, Speculations

\* _terminalize_child and _close_parent.
LEMMA SettleTypes ==
    ASSUME TypeOK, NEW t \in Turn, NEW S \in SUBSET Child,
           NEW kind \in {"translated", "failed", "source", "cancelled"}, Settle(t, S, kind)
    PROVE  /\ completed' \in [Turn -> SUBSET Child]
           /\ seen' \in [Turn -> [Child -> Seq({"translated", "failed", "source", "cancelled"})]]
           /\ status' \in [Turn -> {"none", "open", "closed"}]
           /\ cancelling' \in SUBSET Turn
           /\ expiry' \in [Turn -> {"none", "sleep", "publish", "done"}]
<1> DEFINE Shown == {"translated", "failed", "source", "cancelled"}
           row == [k \in Child |-> IF k \in S THEN Append(seen[t][k], kind) ELSE seen[t][k]]
<1>1. completed' \in [Turn -> SUBSET Child] /\ cancelling' \in SUBSET Turn
      /\ status' \in [Turn -> {"none", "open", "closed"}]
  BY DEF Settle, TypeOK
<1>2. expiry' \in [Turn -> {"none", "sleep", "publish", "done"}]
  BY DEF Settle, TypeOK, EndTimer
<1>3. ASSUME NEW k \in Child PROVE row[k] \in Seq(Shown)
  <2>1. seen[t][k] \in Seq(Shown) /\ kind \in Shown
    BY DEF TypeOK
  <2>2. Append(seen[t][k], kind) \in Seq(Shown)
    BY <2>1, AppendProperties
  <2>. QED
    BY <2>1, <2>2
<1>4. row \in [Child -> Seq(Shown)]
  BY <1>3
<1>5. seen' = [seen EXCEPT ![t] = row]
  BY DEF Settle
<1>6. seen' \in [Turn -> [Child -> Seq(Shown)]]
  BY <1>4, <1>5 DEF TypeOK
<1>. QED
  BY <1>1, <1>2, <1>6

-------------------------------------------------------------------------------
(* Types.                                                                  *)

\* Who retires turns has some to retire, and a call is of some kind.
Lists ==
    /\ \A t \in Turn : /\ call[t] \in {"mark", "join"} => victims[t] # {}
                       /\ run[t] \in {"mark", "join", "leave"} => shed[t] # {}
    /\ \A c \in Controller : ctl[c].pc # "idle" => ctl[c].kind # "none"

Types == TypeOK /\ Lists

\* The types of what only some groups of actions touch.
RecordTypes ==
    /\ status \in [Turn -> {"none", "open", "closed"}]
    /\ completed \in [Turn -> SUBSET Child]
    /\ seen \in [Turn -> [Child -> Seq({"translated", "failed", "source", "cancelled"})]]
    /\ cancelling \in SUBSET Turn
    /\ expiry \in [Turn -> {"none", "sleep", "publish", "done"}]
DraftTypes ==
    /\ epoch \in [Turn -> 0 .. MaxEpochs] /\ eligible \in SUBSET Turn
    /\ superseded \in SUBSET Turn /\ outdated \in SUBSET Turn
SpecTypes == spec \in Turn \cup {NoTurn} /\ op \in [Turn -> Operations]
SlotTypes ==
    /\ canon \in SUBSET Turn /\ free \in Nat /\ queue \in Seq(Turn)
    /\ started \in SUBSET Turn
RunTypes ==
    /\ run \in [Turn -> {"none", "wait", "slot", "race", "mark", "join",
                         "leave", "exec", "unwind", "dead", "drain", "done"}]
    /\ shed \in [Turn -> SUBSET Turn]
    /\ \A t \in Turn : run[t] \in {"mark", "join", "leave"} => shed[t] # {}
SealTypes ==
    /\ call \in [Turn -> {"none", "commit", "lock", "mark", "join", "publish", "done"}]
    /\ victims \in [Turn -> SUBSET Turn]
    /\ \A t \in Turn : call[t] \in {"mark", "join"} => victims[t] # {}
VerdictTypes == terminal \in [Turn -> {"none", "expired", "failed", "cancelled"}]
KillTypes == killed \in SUBSET Turn
SpeakerTypes ==
    /\ next \in 1 .. N + 1 /\ buffer \in Turn \cup {NoTurn}
    /\ accepting \in BOOLEAN /\ manual \in BOOLEAN /\ manuals \in 0 .. MaxManual
    /\ pending \in SUBSET Turn
CtlTypes ==
    /\ blocked \in BOOLEAN /\ ctl \in [Controller -> Call] /\ calls \in 0 .. MaxCalls
    /\ \A c \in Controller : ctl[c].pc # "idle" => ctl[c].kind # "none"

\* The groups are all there is.
LEMMA TypeGroups ==
    Types <=> /\ RecordTypes /\ DraftTypes /\ SpecTypes /\ SlotTypes /\ RunTypes /\ SealTypes
              /\ VerdictTypes /\ KillTypes /\ SpeakerTypes /\ CtlTypes
BY DEF Types, Lists, TypeOK, RecordTypes, DraftTypes, SpecTypes, SlotTypes, RunTypes, SealTypes,
       VerdictTypes, KillTypes, SpeakerTypes, CtlTypes, Operations

\* Initially.
LEMMA TypesInit == Init => Types
<1> SUFFICES ASSUME Init PROVE Types
  OBVIOUS
<1>1. <<>> \in Seq(Turn) /\ \A S : <<>> \in Seq(S)
  BY EmptySeq
<1>2. NoOperation \in Operation /\ NoCall \in Call /\ NoCall.pc = "idle"
  BY BoundAssumption DEF NoOperation, Operation, NoCall, Call
<1>3. next \in 1 .. N + 1 /\ RunningCapacity \in Nat
  BY SizeAssumption, CapacityAssumption DEF Init
<1>4. seen \in [Turn -> [Child -> Seq({"translated", "failed", "source", "cancelled"})]]
  BY <1>1 DEF Init
<1>5. 0 \in 0 .. MaxEpochs /\ 0 \in 0 .. MaxManual /\ 0 \in 0 .. MaxCalls
  BY BoundAssumption
<1>. QED
  BY <1>1, <1>2, <1>3, <1>4, <1>5
     DEF Init, Types, Lists, TypeOK, NoTurn

\* The speculation that is brought up to date.
LEMMA BecomeTypes ==
    ASSUME NEW r \in Speculations, Become(r) PROVE SpecTypes'
BY DEF Become, Speculations, SpecTypes, Operations

\* Children settled by anybody.
LEMMA SettleRecord ==
    ASSUME Types, NEW t \in Turn, NEW S \in SUBSET Child,
           NEW kind \in {"translated", "failed", "source", "cancelled"}, Settle(t, S, kind)
    PROVE  RecordTypes'
BY SettleTypes DEF Types, RecordTypes

\* A waiting turn retired.
LEMMA RetireRecord ==
    ASSUME Types, NEW v \in Turn, NEW self, Retire(v, self)
    PROVE  RecordTypes' /\ KillTypes'
<1>1. Remaining(v) \in SUBSET Child
  BY DEF Remaining
<1>2. RecordTypes'
  <2>1. CASE Open(v)
    BY <1>1, <2>1, SettleRecord DEF Retire
  <2>2. CASE ~Open(v)
    BY <2>2, TypeGroups DEF Retire, RecordTypes, endVars
  <2>. QED
    BY <2>1, <2>2
<1>3. KillTypes'
  BY TypeGroups DEF Retire, KillTypes
<1>. QED
  BY <1>2, <1>3

\* A verdict on a turn.
LEMMA MarkTypes ==
    ASSUME Types, NEW v, NEW verdict \in {"expired", "failed", "cancelled"}, Mark(v, verdict)
    PROVE  VerdictTypes'
BY TypeGroups DEF Mark, VerdictTypes

\* revise_draft on the draft's records.
LEMMA RevisionTypes ==
    ASSUME Types, NEW t \in Turn, NEW compatible \in BOOLEAN, Revision(t, compatible),
           UNCHANGED <<completed, seen, cancelling, expiry, outdated, spec, shed>>
    PROVE  RecordTypes' /\ DraftTypes' /\ SpecTypes' /\ RunTypes'
<1>. USE TypeGroups
<1>1. RecordTypes'
  BY DEF Revision, RecordTypes
<1>2. RunTypes'
  BY DEF Revision, RunTypes
<1>3. DraftTypes' /\ SpecTypes'
  <2>1. CASE compatible
    BY <2>1 DEF Revision, DraftTypes, SpecTypes
  <2>2. CASE ~compatible
    <3>1. NoOperation \in Operation
      BY BoundAssumption DEF NoOperation, Operation
    <3>2. [k \in Child |-> NoOperation] \in Operations
      BY <3>1 DEF Operations
    <3>3. SpecTypes'
      BY <2>2, <3>2 DEF Revision, Forget, SpecTypes
    <3>4. epoch[t] + 1 \in 0 .. MaxEpochs
      BY <2>2, BoundAssumption DEF Revision, DraftTypes
    <3>5. DraftTypes'
      BY <2>2, <3>4 DEF Revision, DraftTypes
    <3>. QED
      BY <3>3, <3>5
  <2>. QED
    BY <2>1, <2>2
<1>. QED
  BY <1>1, <1>2, <1>3

\* The turns beyond the newest that may wait are turns.
LEMMA OldestTypes == ASSUME NEW W \in SUBSET Turn PROVE Oldest(W) \in SUBSET Turn
BY DEF Oldest

\* A sealer's overflow.
LEMMA ShedTypes ==
    ASSUME Types, NEW t \in Turn, NEW W \in SUBSET Turn, SealerSheds(t, W)
    PROVE  SealTypes' /\ VerdictTypes'
<1>. USE TypeGroups
<1>1. SealTypes'
  BY DEF SealerSheds, SealTypes
<1>2. VerdictTypes'
  BY MarkTypes DEF SealerSheds, VerdictTypes
<1>. QED
  BY <1>1, <1>2

\* A draft that has the admission lock.
LEMMA AdmitTypes ==
    ASSUME Types, NEW t \in Turn, NEW r \in Speculations, Admit(t, r), queue' = queue
    PROVE  /\ SealTypes' /\ VerdictTypes' /\ SpecTypes' /\ SlotTypes'
           /\ expiry' \in [Turn -> {"none", "sleep", "publish", "done"}]
<1>. USE TypeGroups
<1>1. Waiting \in SUBSET Turn
  BY DEF Waiting
<1>2. CASE ~Locked
  <2>1. /\ free' = free - 1 /\ canon' = canon \cup {t} /\ started' = started \cup {t}
        /\ Become(Released(t, r)) /\ SealerSheds(t, Oldest(Waiting \ {t})) /\ expiry' = expiry
    BY <1>2 DEF Admit
  <2>2. free # 0 /\ free \in Nat
    BY <1>2 DEF Locked, SlotTypes
  <2>3. SlotTypes'
    BY <2>1, <2>2 DEF SlotTypes
  <2>4. SpecTypes'
    BY <2>1, BecomeTypes, ReleasedTypes DEF Types
  <2>5. Oldest(Waiting \ {t}) \in SUBSET Turn
    BY <1>1, OldestTypes
  <2>6. SealTypes' /\ VerdictTypes'
    BY <2>1, <2>5, ShedTypes
  <2>. QED
    BY <2>1, <2>3, <2>4, <2>6 DEF RecordTypes
<1>3. CASE Locked
  <2> DEFINE W == IF Open(t) /\ r.spec # t THEN Waiting \cup {t} ELSE Waiting
  <2>1. /\ expiry' = [expiry EXCEPT ![t] = IF Open(t) THEN "sleep" ELSE "done"]
        /\ Become(r) /\ SealerSheds(t, Oldest(W)) /\ UNCHANGED <<free, canon, started>>
    BY <1>3 DEF Admit
  <2>2. Oldest(W) \in SUBSET Turn
    BY <1>1, OldestTypes
  <2>3. SealTypes' /\ VerdictTypes'
    BY <2>1, <2>2, ShedTypes
  <2>4. SpecTypes'
    BY <2>1, BecomeTypes
  <2>5. SlotTypes' /\ expiry' \in [Turn -> {"none", "sleep", "publish", "done"}]
    BY <2>1 DEF SlotTypes, RecordTypes
  <2>. QED
    BY <2>3, <2>4, <2>5
<1>. QED
  BY <1>2, <1>3

\* A draft that is sealed, or that has to wait for the admission lock.
LEMMA SealTypesNext ==
    ASSUME Types, NEW t \in Turn, NEW r \in Speculations, SealDraft(t, r), queue' = queue
    PROVE  /\ SealTypes' /\ VerdictTypes' /\ SpecTypes' /\ SlotTypes'
           /\ expiry' \in [Turn -> {"none", "sleep", "publish", "done"}]
           /\ buffer' = NoTurn
<1>1. CASE Open(t) /\ ~manual
  BY <1>1, AdmitTypes DEF SealDraft
<1>2. CASE ~(Open(t) /\ ~manual)
  <2>1. /\ call' = [call EXCEPT ![t] = IF Open(t) THEN "lock" ELSE "done"]
        /\ Become(r) /\ UNCHANGED <<victims, free, canon, markVars>> /\ buffer' = NoTurn
    BY <1>2 DEF SealDraft
  <2>2. SealTypes'
    BY <2>1, TypeGroups DEF SealTypes
  <2>3. VerdictTypes' /\ SlotTypes' /\ expiry' \in [Turn -> {"none", "sleep", "publish", "done"}]
    BY <2>1, TypeGroups DEF VerdictTypes, SlotTypes, RecordTypes, markVars
  <2>. QED
    BY <2>1, <2>2, <2>3, BecomeTypes
<1>. QED
  BY <1>1, <1>2

\* A run that begins its execution.
LEMMA ExecuteTypes ==
    ASSUME Types, NEW t \in Turn, Execute(t)
    PROVE  /\ SpecTypes' /\ started' \in SUBSET Turn
           /\ expiry' \in [Turn -> {"none", "sleep", "publish", "done"}]
           /\ run' = [run EXCEPT ![t] = "exec"]
<1>. USE TypeGroups
<1>1. PICK r \in Speculations : r = Released(t, Speculation)
  BY ReleasedTypes, SpeculationTypes DEF Types
<1>2. /\ Become([r EXCEPT !.op[t] = Launch(@, TRUE, epoch[t], FALSE)])
      /\ MarkStarted(t) /\ run' = [run EXCEPT ![t] = "exec"]
  BY <1>1 DEF Execute, Goto
<1>3. /\ r.op[t] \in Operations /\ epoch[t] \in 0 .. MaxEpochs
      /\ r.op \in [Turn -> Operations] /\ r.spec \in Turn \cup {NoTurn}
  BY DEF Speculations, DraftTypes
<1>4. Launch(r.op[t], TRUE, epoch[t], FALSE) \in Operations
  BY <1>3, LaunchTypes
<1>5. /\ spec' = r.spec
      /\ op' = [r.op EXCEPT ![t] = Launch(r.op[t], TRUE, epoch[t], FALSE)]
  BY <1>2 DEF Become, Speculations
<1>6. SpecTypes'
  BY <1>3, <1>4, <1>5 DEF SpecTypes, Operations
<1>7. started' \in SUBSET Turn /\ expiry' \in [Turn -> {"none", "sleep", "publish", "done"}]
  BY <1>2 DEF MarkStarted, EndTimer, RecordTypes, SlotTypes
<1>. QED
  BY <1>2, <1>6, <1>7

\* A run that has to retire others, or itself, or goes back to wait.
LEMMA RunShedTypes ==
    ASSUME Types, NEW t \in Turn, NEW W \in SUBSET Turn, RunSheds(t, W)
    PROVE  /\ RunTypes' /\ VerdictTypes'
           /\ expiry' \in [Turn -> {"none", "sleep", "publish", "done"}]
<1>. USE TypeGroups
<1>1. RunTypes'
  BY DEF RunSheds, RunTypes, Goto
<1>2. VerdictTypes'
  BY MarkTypes DEF RunSheds, VerdictTypes
<1>3. expiry' \in [Turn -> {"none", "sleep", "publish", "done"}]
  BY DEF RunSheds, RecordTypes
<1>. QED
  BY <1>1, <1>2, <1>3

\* The way out of a cancelled turn.
LEMMA GiveUpTypes ==
    ASSUME Types, NEW t \in Turn, GiveUp(t), shed' \in {shed, [shed EXCEPT ![t] = {}]}
    PROVE  RunTypes' /\ VerdictTypes'
<1>. USE TypeGroups
<1>1. RunTypes'
  BY DEF GiveUp, Goto, RunTypes
<1>2. VerdictTypes'
  BY DEF GiveUp, Mark, VerdictTypes
<1>. QED
  BY <1>1, <1>2

\* A run that leaves the queue for slots.
LEMMA LeaveTypes ==
    ASSUME Types, NEW t \in Turn, Leave(t) PROVE queue' \in Seq(Turn)
BY LeaveQueue, TypeGroups DEF Leave, SlotTypes

\* Cancelling operations and calls.
LEMMA CancelTypes ==
    ASSUME NEW o \in Operations
    PROVE  CancelOperations(o) \in Operations /\ CancelCalls(o) \in Operations
<1>1. ASSUME NEW p \in Operation, NEW st \in {"dying", "unwinding"}
      PROVE  [p EXCEPT !.st = st] \in Operation
  BY DEF Operation
<1>2. CancelOperations(o) \in Operations
  BY <1>1 DEF CancelOperations, Operations
<1>3. CancelCalls(o) \in Operations
  BY <1>1, <1>2 DEF CancelCalls, Operations
<1>. QED
  BY <1>2, <1>3

\* A group of variables that keep their values keeps its types.
LEMMA StillTypes ==
    ASSUME Types
    PROVE  /\ UNCHANGED <<status, completed, seen, cancelling, expiry>> => RecordTypes'
           /\ UNCHANGED <<epoch, eligible, superseded, outdated>> => DraftTypes'
           /\ UNCHANGED <<spec, op>> => SpecTypes'
           /\ UNCHANGED <<canon, free, queue, started>> => SlotTypes'
           /\ UNCHANGED <<run, shed>> => RunTypes'
           /\ UNCHANGED <<call, victims>> => SealTypes'
           /\ UNCHANGED terminal => VerdictTypes'
           /\ UNCHANGED killed => KillTypes'
           /\ UNCHANGED <<next, buffer, accepting, manual, manuals, pending>> => SpeakerTypes'
           /\ UNCHANGED <<blocked, ctl, calls>> => CtlTypes'
BY TypeGroups DEF RecordTypes, DraftTypes, SpecTypes, SlotTypes, RunTypes, SealTypes,
       VerdictTypes, KillTypes, SpeakerTypes, CtlTypes

\* The groups after a step.
LEMMA TypeGroupsNext ==
    /\ RecordTypes' /\ DraftTypes' /\ SpecTypes' /\ SlotTypes' /\ RunTypes' /\ SealTypes'
    /\ VerdictTypes' /\ KillTypes' /\ SpeakerTypes' /\ CtlTypes'
    => Types'
BY DEF Types, Lists, TypeOK, RecordTypes, DraftTypes, SpecTypes, SlotTypes, RunTypes, SealTypes,
       VerdictTypes, KillTypes, SpeakerTypes, CtlTypes, Operations

\* The speaker's steps.
LEMMA SpeakerSteps ==
    ASSUME Types, \/ Speak \/ ManualBegins \/ ManualEnds \/ OpenIngress \/ Rest
                  \/ \E t \in Turn : Revise(t) \/ Revised(t) \/ Prestart(t) \/ Superseded(t)
    PROVE  Types'
<1>. USE DEF speakerVars, callVars, draftVars, endVars, markVars, slotVars, ctlVars, runVars
<1>1. CASE Speak
  <2>1. next \in Turn /\ next + 1 \in 1 .. N + 1
    BY <1>1, TypeGroups, SizeAssumption DEF Speak, SpeakerTypes, Turn
  <2>2. SpeakerTypes'
    BY <1>1, <2>1, TypeGroups DEF Speak, SpeakerTypes
  <2>3. CASE Revision(next, TRUE)
    <3>1. RecordTypes' /\ DraftTypes' /\ SpecTypes' /\ RunTypes'
      BY <1>1, <2>1, <2>3, RevisionTypes DEF Speak
    <3>. QED
      BY <1>1, <2>2, <3>1, StillTypes, TypeGroupsNext DEF Speak
  <2>4. CASE UNCHANGED <<status, run, epoch, eligible, op, superseded>>
    BY <1>1, <2>2, <2>4, StillTypes, TypeGroupsNext DEF Speak
  <2>. QED
    BY <1>1, <2>3, <2>4 DEF Speak
<1>2. CASE ManualBegins \/ ManualEnds \/ OpenIngress
  <2>1. manuals' \in 0 .. MaxManual
    BY <1>2, TypeGroups, BoundAssumption
       DEF ManualBegins, ManualEnds, OpenIngress, SpeakerTypes
  <2>2. /\ UNCHANGED <<next, buffer, pending, ctl, calls>>
        /\ accepting' \in {accepting, TRUE} /\ manual' \in {manual, TRUE, FALSE}
        /\ blocked' \in {blocked, FALSE}
    BY <1>2 DEF ManualBegins, ManualEnds, OpenIngress
  <2>3. SpeakerTypes' /\ CtlTypes'
    BY <2>1, <2>2, TypeGroups DEF SpeakerTypes, CtlTypes
  <2>. QED
    BY <1>2, <2>3, StillTypes, TypeGroupsNext DEF ManualBegins, ManualEnds, OpenIngress
<1>3. CASE Rest
  BY <1>3, StillTypes, TypeGroupsNext DEF Rest, vars
<1>4. ASSUME NEW t \in Turn, Revise(t) PROVE Types'
  <2>1. SpeakerTypes'
    BY <1>4, TypeGroups DEF Revise, SpeakerTypes
  <2>2. RecordTypes' /\ DraftTypes' /\ SpecTypes' /\ RunTypes'
    BY <1>4, RevisionTypes DEF Revise
  <2>. QED
    BY <1>4, <2>1, <2>2, StillTypes, TypeGroupsNext DEF Revise
<1>5. ASSUME NEW t \in Turn, Revised(t) PROVE Types'
  <2>1. SpeakerTypes'
    BY <1>5, TypeGroups DEF Revised, SpeakerTypes
  <2>2. SpecTypes'
    BY <1>5, SpeculationTypes, BecomeTypes DEF Revised, Types
  <2>. QED
    BY <1>5, <2>1, <2>2, StillTypes, TypeGroupsNext DEF Revised
<1>6. ASSUME NEW t \in Turn, Prestart(t) PROVE Types'
  <2>1. DraftTypes'
    BY <1>6, TypeGroups DEF Prestart, DraftTypes
  <2>2. op[t] \in Operations /\ epoch[t] \in 0 .. MaxEpochs
    BY TypeGroups DEF SpecTypes, DraftTypes
  <2>3. Launch(op[t], TRUE, epoch[t], TRUE) \in Operations
    BY <2>2, LaunchTypes
  <2>4. SpecTypes'
    BY <1>6, <2>3, TypeGroups DEF Prestart, SpecTypes
  <2>. QED
    BY <1>6, <2>1, <2>4, StillTypes, TypeGroupsNext DEF Prestart
<1>7. ASSUME NEW t \in Turn, Superseded(t) PROVE Types'
  <2>1. DraftTypes'
    BY <1>7, TypeGroups DEF Superseded, DraftTypes
  <2>. QED
    BY <1>7, <2>1, StillTypes, TypeGroupsNext DEF Superseded
<1>. QED
  BY <1>1, <1>2, <1>3, <1>4, <1>5, <1>6, <1>7

\* The sealer's steps and those of the timer.
LEMMA SealerSteps ==
    ASSUME Types, NEW t \in Turn, Commit(t) \/ Seal(t) \/ ExpiryFires(t) \/ ExpiryRetires(t)
    PROVE  Types'
<1>. USE DEF speakerVars, callVars, draftVars, endVars, markVars, slotVars, ctlVars, runVars
<1>1. CASE Commit(t)
  <2>1. CASE \E compatible \in BOOLEAN : Revision(t, compatible)
                /\ call' = [call EXCEPT ![t] = "commit"]
                /\ UNCHANGED <<buffer, victims, markVars, spec, free, canon>>
    <3>1. RecordTypes' /\ DraftTypes' /\ SpecTypes' /\ RunTypes'
      BY <1>1, <2>1, RevisionTypes DEF Commit
    <3>2. SealTypes'
      BY <2>1, TypeGroups DEF SealTypes
    <3>. QED
      BY <1>1, <2>1, <3>1, <3>2, StillTypes, TypeGroupsNext DEF Commit
  <2>2. CASE SealDraft(t, Speculation) /\ UNCHANGED <<status, run, epoch, eligible, superseded>>
    <3>1. /\ SealTypes' /\ VerdictTypes' /\ SpecTypes' /\ SlotTypes' /\ buffer' = NoTurn
          /\ expiry' \in [Turn -> {"none", "sleep", "publish", "done"}]
      BY <1>1, <2>2, SpeculationTypes, SealTypesNext DEF Commit, Types
    <3>2. RecordTypes' /\ SpeakerTypes'
      BY <1>1, <2>2, <3>1, TypeGroups DEF Commit, RecordTypes, SpeakerTypes
    <3>. QED
      BY <1>1, <2>2, <3>1, <3>2, StillTypes, TypeGroupsNext DEF Commit
  <2>. QED
    BY <1>1, <2>1, <2>2 DEF Commit
<1>2. CASE CommitEnds(t)
  <2>1. /\ SealTypes' /\ VerdictTypes' /\ SpecTypes' /\ SlotTypes' /\ buffer' = NoTurn
        /\ expiry' \in [Turn -> {"none", "sleep", "publish", "done"}]
    BY <1>2, SpeculationTypes, SealTypesNext DEF CommitEnds, Types
  <2>2. RecordTypes' /\ SpeakerTypes'
    BY <1>2, <2>1, TypeGroups DEF CommitEnds, RecordTypes, SpeakerTypes
  <2>. QED
    BY <1>2, <2>1, <2>2, StillTypes, TypeGroupsNext DEF CommitEnds
<1>3. CASE SealLocked(t)
  <2>1. /\ SealTypes' /\ VerdictTypes' /\ SpecTypes' /\ SlotTypes'
        /\ expiry' \in [Turn -> {"none", "sleep", "publish", "done"}]
    BY <1>3, SpeculationTypes, AdmitTypes DEF SealLocked, Types
  <2>2. RecordTypes'
    BY <1>3, <2>1, TypeGroups DEF SealLocked, RecordTypes
  <2>. QED
    BY <1>3, <2>1, <2>2, StillTypes, TypeGroupsNext DEF SealLocked
<1>4. CASE SealerRetires(t)
  <2>1. Smallest(victims[t]) \in Turn
    BY <1>4, SmallestOf, TypeGroups DEF SealerRetires, SealTypes
  <2>2. RecordTypes' /\ KillTypes'
    BY <1>4, <2>1, RetireRecord DEF SealerRetires
  <2>3. SealTypes'
    BY <1>4, TypeGroups DEF SealerRetires, SealTypes
  <2>. QED
    BY <1>4, <2>2, <2>3, StillTypes, TypeGroupsNext DEF SealerRetires
<1>5. CASE SealerJoins(t)
  <2>1. PICK W \in SUBSET Turn : SealerSheds(t, W)
    BY <1>5, TypeGroups DEF SealerJoins, SealTypes
  <2>2. SealTypes' /\ VerdictTypes'
    BY <2>1, ShedTypes
  <2>. QED
    BY <1>5, <2>2, StillTypes, TypeGroupsNext DEF SealerJoins
<1>6. CASE SealerPublishes(t)
  <2>1. SealTypes'
    BY <1>6, TypeGroups DEF SealerPublishes, SealTypes
  <2>. QED
    BY <1>6, <2>1, StillTypes, TypeGroupsNext DEF SealerPublishes
<1>7. CASE ExpiryFires(t)
  <2>1. RecordTypes' /\ VerdictTypes'
    BY <1>7, TypeGroups, MarkTypes DEF ExpiryFires, RecordTypes, VerdictTypes
  <2>. QED
    BY <1>7, <2>1, StillTypes, TypeGroupsNext DEF ExpiryFires
<1>8. CASE ExpiryRetires(t)
  <2>1. RecordTypes' /\ KillTypes'
    BY <1>8, RetireRecord DEF ExpiryRetires
  <2>. QED
    BY <1>8, <2>1, StillTypes, TypeGroupsNext DEF ExpiryRetires
<1>. QED
  BY <1>1, <1>2, <1>3, <1>4, <1>5, <1>6, <1>7, <1>8 DEF Seal

\* The run's steps before it executes.
LEMMA RunSteps ==
    ASSUME Types, NEW t \in Turn,
           \/ RunWakes(t) \/ RunGranted(t) \/ RunReady(t) \/ RunGivesUp(t) \/ RunRetires(t)
           \/ RunJoins(t)
    PROVE  Types'
<1>. USE DEF speakerVars, callVars, draftVars, endVars, markVars, slotVars, ctlVars, runVars
<1>0. ASSUME NEW st \in {"slot", "race", "exec", "drain"}, Goto(t, st), shed' = shed
      PROVE  RunTypes'
  BY <1>0, TypeGroups DEF Goto, RunTypes
<1>1. CASE RunWakes(t)
  <2>1. CASE GiveUp(t) /\ UNCHANGED <<started, expiry, op, spec, queue>>
    <3>1. RunTypes' /\ VerdictTypes'
      BY <1>1, <2>1, GiveUpTypes DEF RunWakes
    <3>. QED
      BY <1>1, <2>1, <3>1, StillTypes, TypeGroupsNext DEF RunWakes
  <2>2. CASE Execute(t) /\ UNCHANGED <<terminal, queue>>
    <3>1. SpecTypes' /\ RunTypes'
      BY <1>0, <1>1, <2>2, ExecuteTypes DEF RunWakes, Execute
    <3>2. RecordTypes' /\ SlotTypes'
      BY <1>1, <2>2, ExecuteTypes, TypeGroups DEF RunWakes, RecordTypes, SlotTypes
    <3>. QED
      BY <1>1, <2>2, <3>1, <3>2, StillTypes, TypeGroupsNext DEF RunWakes
  <2>3. CASE /\ Goto(t, IF spec = t THEN "race" ELSE "slot")
             /\ queue' = Append(queue, t) /\ UNCHANGED <<markVars, op, spec>>
    <3>1. RunTypes'
      BY <1>0, <1>1, <2>3 DEF RunWakes
    <3>2. SlotTypes'
      BY <1>1, <2>3, TypeGroups, AppendProperties DEF RunWakes, SlotTypes
    <3>. QED
      BY <1>1, <2>3, <3>1, <3>2, StillTypes, TypeGroupsNext DEF RunWakes
  <2>. QED
    BY <1>1, <2>1, <2>2, <2>3 DEF RunWakes
<1>2. CASE RunGranted(t)
  <2>1. queue' \in Seq(Turn) /\ free - 1 \in Nat
    <3>1. PICK i \in 1 .. Len(queue) : i <= free
      BY <1>2 DEF RunGranted
    <3>2. Len(queue) \in Nat /\ free \in Nat /\ queue \in Seq(Turn)
      BY TypeGroups, LenProperties DEF SlotTypes
    <3>. QED
      BY <1>2, <3>1, <3>2, LeaveTypes DEF RunGranted
  <2>2. CASE Execute(t)
    <3>1. SpecTypes' /\ RunTypes'
      BY <1>0, <1>2, <2>2, ExecuteTypes DEF RunGranted, Execute
    <3>2. RecordTypes' /\ SlotTypes'
      BY <1>2, <2>1, <2>2, ExecuteTypes, TypeGroups DEF RunGranted, RecordTypes, SlotTypes
    <3>. QED
      BY <1>2, <2>2, <3>1, <3>2, StillTypes, TypeGroupsNext DEF RunGranted
  <2>3. CASE Goto(t, "drain") /\ UNCHANGED <<started, expiry, op, spec>>
    <3>1. RunTypes'
      BY <1>0, <1>2, <2>3 DEF RunGranted
    <3>2. SlotTypes'
      BY <1>2, <2>1, <2>3, TypeGroups DEF RunGranted, SlotTypes
    <3>. QED
      BY <1>2, <2>3, <3>1, <3>2, StillTypes, TypeGroupsNext DEF RunGranted
  <2>. QED
    BY <1>2, <2>2, <2>3 DEF RunGranted
<1>3. CASE RunReady(t)
  <2>1. queue' \in Seq(Turn)
    BY <1>3, LeaveTypes DEF RunReady
  <2>2. CASE Execute(t)
    <3>1. SpecTypes' /\ RunTypes'
      BY <1>0, <1>3, <2>2, ExecuteTypes DEF RunReady, Execute
    <3>2. RecordTypes' /\ SlotTypes'
      BY <1>3, <2>1, <2>2, ExecuteTypes, TypeGroups DEF RunReady, RecordTypes, SlotTypes
    <3>. QED
      BY <1>3, <2>2, <3>1, <3>2, StillTypes, TypeGroupsNext DEF RunReady
  <2>3. CASE Goto(t, "drain") /\ UNCHANGED <<started, expiry, op, spec>>
    <3>1. RunTypes'
      BY <1>0, <1>3, <2>3 DEF RunReady
    <3>2. SlotTypes'
      BY <1>3, <2>1, <2>3, TypeGroups DEF RunReady, SlotTypes
    <3>. QED
      BY <1>3, <2>3, <3>1, <3>2, StillTypes, TypeGroupsNext DEF RunReady
  <2>. QED
    BY <1>3, <2>2, <2>3 DEF RunReady
<1>4. CASE RunGivesUp(t)
  <2>1. Oldest(Waiting \cup {t}) \in SUBSET Turn
    BY OldestTypes DEF Waiting
  <2>2. /\ RunTypes' /\ VerdictTypes'
        /\ expiry' \in [Turn -> {"none", "sleep", "publish", "done"}]
    BY <1>4, <2>1, RunShedTypes DEF RunGivesUp
  <2>3. SpecTypes'
    BY <1>4, BecomeTypes, ReleasedTypes, SpeculationTypes DEF RunGivesUp, Types
  <2>4. RecordTypes'
    BY <1>4, <2>2, TypeGroups DEF RunGivesUp, RecordTypes
  <2>5. SlotTypes'
    BY <1>4, StillTypes DEF RunGivesUp
  <2>. QED
    BY <1>4, <2>2, <2>3, <2>4, <2>5, StillTypes, TypeGroupsNext DEF RunGivesUp
<1>5. CASE RunRetires(t)
  <2>1. Smallest(shed[t]) \in Turn /\ shed[t] # {}
    BY <1>5, SmallestOf, TypeGroups DEF RunRetires, At, RunTypes
  <2>2. RecordTypes' /\ KillTypes'
    BY <1>5, <2>1, RetireRecord DEF RunRetires
  <2>3. RunTypes'
    BY <1>5, <2>1, TypeGroups DEF RunRetires, Goto, RunTypes
  <2>. QED
    BY <1>5, <2>2, <2>3, StillTypes, TypeGroupsNext DEF RunRetires
<1>6. CASE RunJoins(t)
  <2>1. CASE \E W \in SUBSET Turn :
                RunSheds(t, W) /\ UNCHANGED <<started, op, spec, queue>>
    <3>1. /\ RunTypes' /\ VerdictTypes'
          /\ expiry' \in [Turn -> {"none", "sleep", "publish", "done"}]
      BY <2>1, RunShedTypes
    <3>2. RecordTypes'
      BY <1>6, <3>1, TypeGroups DEF RunJoins, RecordTypes
    <3>3. SlotTypes'
      BY <1>6, <2>1, StillTypes DEF RunJoins
    <3>. QED
      BY <1>6, <2>1, <3>1, <3>2, <3>3, StillTypes, TypeGroupsNext DEF RunJoins
  <2>2. CASE /\ shed' = [shed EXCEPT ![t] = {}] /\ Leave(t) /\ Goto(t, "drain")
             /\ UNCHANGED <<terminal, started, expiry, op, spec>>
    <3>1. RunTypes'
      BY <2>2, TypeGroups DEF Goto, RunTypes
    <3>2. SlotTypes'
      BY <1>6, <2>2, LeaveTypes, TypeGroups DEF RunJoins, SlotTypes
    <3>. QED
      BY <1>6, <2>2, <3>1, <3>2, StillTypes, TypeGroupsNext DEF RunJoins
  <2>3. CASE /\ shed' = [shed EXCEPT ![t] = {}] /\ Leave(t) /\ Execute(t)
             /\ UNCHANGED terminal
    <3>1. RunTypes'
      BY <2>3, ExecuteTypes, TypeGroups DEF RunTypes
    <3>2. SlotTypes' /\ RecordTypes' /\ SpecTypes'
      BY <1>6, <2>3, ExecuteTypes, LeaveTypes, TypeGroups DEF RunJoins, RecordTypes, SlotTypes
    <3>. QED
      BY <1>6, <2>3, <3>1, <3>2, StillTypes, TypeGroupsNext DEF RunJoins
  <2>4. {u \in shed[t] \ {Smallest(shed[t])} : Retirable(u)} \in SUBSET Turn
    BY TypeGroups DEF RunTypes
  <2>. QED
    BY <1>6, <2>1, <2>2, <2>3, <2>4 DEF RunJoins
<1>. QED
  BY <1>1, <1>2, <1>3, <1>4, <1>5, <1>6

\* The run's steps as it executes and ends.
LEMMA EndSteps ==
    ASSUME Types, NEW t \in Turn,
           \/ RunCancelled(t) \/ RunLeaves(t) \/ RunUnwound(t) \/ RunDead(t) \/ RunDrained(t)
           \/ \E k \in Child : ExecRetry(t, k) \/ RunPublish(t, k) \/ RunRefused(t, k)
    PROVE  Types'
<1>. USE DEF speakerVars, callVars, draftVars, endVars, markVars, slotVars, ctlVars, runVars
<1>0. ASSUME NEW st \in {"unwind", "drain", "dead", "done"}, Goto(t, st), shed' = shed
      PROVE  RunTypes'
  BY <1>0, TypeGroups DEF Goto, RunTypes
<1>1. ASSUME NEW o \in Operations, op' = [op EXCEPT ![t] = o], spec' = spec PROVE SpecTypes'
  BY <1>1, TypeGroups DEF SpecTypes
<1>2. op[t] \in Operations /\ CancelOperations(op[t]) \in Operations
      /\ CancelCalls(op[t]) \in Operations
  BY TypeGroups, CancelTypes DEF SpecTypes
<1>3. CASE RunCancelled(t)
  <2>1. KillTypes'
    <3>1. killed' \subseteq killed \cup Turn
      BY <1>3 DEF RunCancelled
    <3>. QED
      BY <3>1, TypeGroups DEF KillTypes
  <2>2. CASE /\ shed' = [shed EXCEPT ![t] = {}] /\ Leave(t) /\ GiveUp(t) /\ UNCHANGED op
    <3>1. RunTypes' /\ VerdictTypes'
      BY <2>2, GiveUpTypes
    <3>2. SlotTypes'
      BY <1>3, <2>2, LeaveTypes, TypeGroups DEF RunCancelled, SlotTypes
    <3>. QED
      BY <1>3, <2>1, <2>2, <3>1, <3>2, StillTypes, TypeGroupsNext DEF RunCancelled
  <2>3. CASE /\ run[t] = "join" /\ Goto(t, "leave") /\ UNCHANGED <<shed, queue, terminal, op>>
    <3>1. RunTypes'
      BY <2>3, TypeGroups DEF Goto, RunTypes
    <3>. QED
      BY <1>3, <2>1, <2>3, <3>1, StillTypes, TypeGroupsNext DEF RunCancelled
  <2>4. CASE /\ op' = [op EXCEPT ![t] = CancelCalls(@)] /\ Goto(t, "unwind")
             /\ UNCHANGED <<shed, queue, terminal>>
    <3>1. RunTypes' /\ SpecTypes'
      BY <1>0, <1>1, <1>2, <1>3, <2>4 DEF RunCancelled
    <3>. QED
      BY <1>3, <2>1, <2>4, <3>1, StillTypes, TypeGroupsNext DEF RunCancelled
  <2>5. CASE UNCHANGED <<run, shed, queue, terminal, op>>
    BY <1>3, <2>1, <2>5, StillTypes, TypeGroupsNext DEF RunCancelled
  <2>6. CASE /\ op' = [op EXCEPT ![t] = CancelOperations(@)] /\ Goto(t, "drain")
             /\ UNCHANGED <<shed, queue, terminal>>
    <3>1. RunTypes' /\ SpecTypes'
      BY <1>0, <1>1, <1>2, <1>3, <2>6 DEF RunCancelled
    <3>. QED
      BY <1>3, <2>1, <2>6, <3>1, StillTypes, TypeGroupsNext DEF RunCancelled
  <2>. QED
    BY <1>3, <2>2, <2>3, <2>4, <2>5, <2>6 DEF RunCancelled, Joins
<1>4. CASE RunLeaves(t)
  <2>1. RunTypes' /\ VerdictTypes'
    BY <1>4, GiveUpTypes DEF RunLeaves
  <2>2. SlotTypes'
    BY <1>4, LeaveTypes, TypeGroups DEF RunLeaves, SlotTypes
  <2>. QED
    BY <1>4, <2>1, <2>2, StillTypes, TypeGroupsNext DEF RunLeaves
<1>5. CASE RunUnwound(t)
  <2>1. RunTypes' /\ VerdictTypes'
    BY <1>5, GiveUpTypes DEF RunUnwound
  <2>. QED
    BY <1>5, <2>1, StillTypes, TypeGroupsNext DEF RunUnwound
<1>6. CASE RunDead(t)
  <2>1. RecordTypes'
    <3>1. Remaining(t) \in SUBSET Child
      BY DEF Remaining
    <3>2. CASE Open(t)
      BY <1>6, <3>1, <3>2, SettleRecord DEF RunDead
    <3>3. CASE ~Open(t)
      BY <1>6, <3>3, StillTypes DEF RunDead
    <3>. QED
      BY <3>2, <3>3
  <2>2. RunTypes' /\ SpecTypes'
    BY <1>0, <1>1, <1>2, <1>6 DEF RunDead
  <2>. QED
    BY <1>6, <2>1, <2>2, StillTypes, TypeGroupsNext DEF RunDead
<1>7. CASE RunDrained(t)
  <2>1. RunTypes'
    BY <1>0, <1>7 DEF RunDrained
  <2>2. KillTypes'
    BY <1>7, TypeGroups DEF RunDrained, KillTypes
  <2>3. SpecTypes'
    BY <1>7, BecomeTypes, ReleasedTypes, SpeculationTypes, StillTypes DEF RunDrained, Types
  <2>4. SlotTypes'
    BY <1>7, TypeGroups DEF RunDrained, GiveBack, SlotTypes
  <2>. QED
    BY <1>7, <2>1, <2>2, <2>3, <2>4, StillTypes, TypeGroupsNext DEF RunDrained
<1>8. ASSUME NEW k \in Child, ExecRetry(t, k) PROVE Types'
  <2>1. op[t][k] \in Operation
    BY <1>2 DEF Operations
  <2>2. [op[t][k] EXCEPT !.st = "retry"] \in Operation
    BY <2>1 DEF Operation
  <2>3. SpecTypes'
    BY <1>8, <2>2, TypeGroups DEF ExecRetry, SpecTypes, Operations
  <2>. QED
    BY <1>8, <2>3, StillTypes, TypeGroupsNext DEF ExecRetry
<1>9. ASSUME NEW k \in Child, RunPublish(t, k) PROVE Types'
  <2>1. op[t][k] \in Operation
    BY <1>2 DEF Operations
  <2>2. [op[t][k] EXCEPT !.st = "told"] \in Operation
    BY <2>1 DEF Operation
  <2>3. SpecTypes'
    BY <1>9, <2>2, TypeGroups DEF RunPublish, SpecTypes, Operations
  <2>4. RunTypes'
    BY <1>9, TypeGroups DEF RunPublish, RunTypes
  <2>5. RecordTypes'
    <3>1. PICK kind \in {"translated", "failed", "source", "cancelled"} : Settle(t, {k}, kind)
      BY <1>9 DEF RunPublish
    <3>. QED
      BY <3>1, SettleRecord
  <2>. QED
    BY <1>9, <2>3, <2>4, <2>5, StillTypes, TypeGroupsNext DEF RunPublish
<1>10. ASSUME NEW k \in Child, RunRefused(t, k) PROVE Types'
  <2>1. RunTypes' /\ VerdictTypes'
    BY <1>10, GiveUpTypes DEF RunRefused
  <2>. QED
    BY <1>10, <2>1, StillTypes, TypeGroupsNext DEF RunRefused
<1>. QED
  BY <1>3, <1>4, <1>5, <1>6, <1>7, <1>8, <1>9, <1>10

\* The providers' steps.
LEMMA ProviderSteps ==
    ASSUME Types, NEW t \in Turn, NEW k \in Child, Provider(t, k) PROVE Types'
<1>. USE DEF speakerVars, callVars, draftVars, endVars, markVars, slotVars, ctlVars, runVars
<1>1. op[t][k] \in Operation
  BY TypeGroups DEF SpecTypes, Operations
<1>2. ASSUME NEW p \in Operation, op' = [op EXCEPT ![t][k] = p], spec' = spec PROVE SpecTypes'
  BY <1>2, TypeGroups DEF SpecTypes, Operations
<1>3. SpecTypes'
  <2>1. CASE OpReturns(t, k)
    <3>1. PICK st \in {"gone", "good", "bad"} : op' = [op EXCEPT ![t][k].st = st]
      BY <2>1, ProviderAssumption DEF OpReturns
    <3>2. [op[t][k] EXCEPT !.st = st] \in Operation
      BY <1>1 DEF Operation
    <3>. QED
      BY <1>2, <2>1, <3>1, <3>2 DEF OpReturns
  <2>2. CASE RetryReturns(t, k)
    <3>1. PICK st \in {"good", "bad"} :
             op' = [op EXCEPT ![t][k] = [@ EXCEPT !.st = st, !.guess = FALSE]]
      BY <2>2, ProviderAssumption DEF RetryReturns
    <3>2. [op[t][k] EXCEPT !.st = st, !.guess = FALSE] \in Operation
      BY <1>1 DEF Operation
    <3>. QED
      BY <1>2, <2>2, <3>1, <3>2 DEF RetryReturns
  <2>3. CASE OpDies(t, k)
    <3>1. [op[t][k] EXCEPT !.st = "gone"] \in Operation
      BY <1>1 DEF Operation
    <3>. QED
      BY <1>2, <2>3, <3>1 DEF OpDies
  <2>. QED
    BY <2>1, <2>2, <2>3 DEF Provider
<1>. QED
  BY <1>3, StillTypes, TypeGroupsNext DEF Provider, OpReturns, RetryReturns, OpDies

\* The controllers' steps.
LEMMA ControllerSteps ==
    ASSUME Types, NEW c \in Controller, CtlBegin(c) \/ Control(c) PROVE Types'
<1>. USE DEF speakerVars, callVars, draftVars, endVars, markVars, slotVars, ctlVars, runVars
<1>1. ASSUME NEW kind \in {"speech", "reset", "ingress"}, Select(c, kind),
             blocked' \in BOOLEAN, calls' \in 0 .. MaxCalls
      PROVE  KillTypes' /\ CtlTypes' /\ cancelling' \in SUBSET Turn
  BY <1>1, TypeGroups DEF Select, Selected, KillTypes, CtlTypes, RecordTypes, Call
<1>2. CASE CtlBegin(c)
  <2>1. blocked' \in BOOLEAN /\ outdated' \in SUBSET Turn /\ accepting' \in BOOLEAN
    BY <1>2, TypeGroups DEF CtlBegin, CtlTypes, DraftTypes, SpeakerTypes
  <2>2. calls' \in 0 .. MaxCalls
    BY <1>2, TypeGroups, BoundAssumption DEF CtlBegin, CtlTypes
  <2>3. KillTypes' /\ CtlTypes' /\ cancelling' \in SUBSET Turn
    <3>1. PICK kind \in {"speech", "reset", "ingress"} :
             \/ /\ ctl' = [ctl EXCEPT ![c] = [pc |-> "select", kind |-> kind, sel |-> {}]]
                /\ UNCHANGED <<cancelling, killed>>
             \/ Select(c, kind)
      BY <1>2 DEF CtlBegin
    <3>2. CASE Select(c, kind)
      BY <1>1, <2>1, <2>2, <3>2
    <3>3. CASE /\ ctl' = [ctl EXCEPT ![c] = [pc |-> "select", kind |-> kind, sel |-> {}]]
               /\ UNCHANGED <<cancelling, killed>>
      BY <2>1, <2>2, <3>3, TypeGroups DEF KillTypes, CtlTypes, RecordTypes, Call
    <3>. QED
      BY <3>1, <3>2, <3>3
  <2>4. RecordTypes' /\ DraftTypes' /\ SpeakerTypes'
    BY <1>2, <2>1, <2>3, TypeGroups DEF CtlBegin, RecordTypes, DraftTypes, SpeakerTypes
  <2>. QED
    BY <1>2, <2>3, <2>4, StillTypes, TypeGroupsNext DEF CtlBegin
<1>3. CASE CtlSelect(c)
  <2>1. ctl[c] \in Call /\ ctl[c].pc = "select" /\ blocked \in BOOLEAN /\ calls \in 0 .. MaxCalls
    BY <1>3, TypeGroups DEF CtlSelect, CtlTypes
  <2>2. KillTypes' /\ CtlTypes' /\ cancelling' \in SUBSET Turn
    BY <1>3, <2>1, TypeGroups
       DEF CtlSelect, Call, Select, Selected, KillTypes, CtlTypes, RecordTypes
  <2>3. RecordTypes'
    BY <1>3, <2>2, TypeGroups DEF CtlSelect, RecordTypes
  <2>. QED
    BY <1>3, <2>2, <2>3, StillTypes, TypeGroupsNext DEF CtlSelect
<1>4. CASE CtlReturn(c) \/ CtlClear(c)
  <2>1. ctl[c] \in Call /\ NoCall \in Call
    BY TypeGroups DEF CtlTypes, NoCall, Call
  <2>2. [ctl[c] EXCEPT !.pc = "clear", !.sel = {}] \in Call
    BY <2>1 DEF Call
  <2>3. /\ ctl' \in [Controller -> Call]
        /\ \A d \in Controller : ctl'[d].pc # "idle" => ctl'[d].kind # "none"
    <3>1. PICK x \in Call : ctl' = [ctl EXCEPT ![c] = x] /\ (x.pc # "idle" => x.kind # "none")
      BY <1>4, <2>1, <2>2, TypeGroups DEF CtlReturn, Joined, CtlClear, CtlTypes, NoCall, Call
    <3>. QED
      BY <3>1, TypeGroups DEF CtlTypes
  <2>4. blocked' \in BOOLEAN
    <3>1. CASE CtlReturn(c)
      <4>1. ctl[c].kind \in {"none", "speech", "reset", "ingress"}
        BY <2>1 DEF Call
      <4>2. ctl[c].kind = "ingress" \/ ctl[c].kind = "speech" \/ ctl[c].kind = "reset"
        BY <3>1, <4>1, TypeGroups DEF CtlReturn, Joined, CtlTypes
      <4>. QED
        BY <3>1, <4>2, TypeGroups DEF CtlReturn, CtlTypes
    <3>2. CASE CtlClear(c)
      BY <3>2, TypeGroups DEF CtlClear, CtlTypes
    <3>. QED
      BY <1>4, <3>1, <3>2
  <2>5. CtlTypes' /\ SpeakerTypes'
    BY <1>4, <2>3, <2>4, TypeGroups DEF CtlReturn, CtlClear, CtlTypes, SpeakerTypes
  <2>. QED
    BY <1>4, <2>5, StillTypes, TypeGroupsNext DEF CtlReturn, CtlClear
<1>5. ASSUME NEW t \in Turn, CtlSettle(c, t) PROVE Types'
  <2>1. Remaining(t) \in SUBSET Child
    BY DEF Remaining
  <2>2. RecordTypes'
    BY <1>5, <2>1, SettleRecord DEF CtlSettle
  <2>. QED
    BY <1>5, <2>2, StillTypes, TypeGroupsNext DEF CtlSettle
<1>. QED
  BY <1>2, <1>3, <1>4, <1>5 DEF Control

\* Every step keeps the types.
LEMMA TypesNext == Types /\ [Next]_vars => Types'
<1> SUFFICES ASSUME Types, [Next]_vars PROVE Types'
  OBVIOUS
<1>1. CASE Progress
  <2>1. CASE ManualEnds
    BY <2>1, SpeakerSteps
  <2>2. ASSUME NEW t \in Turn, Revised(t) \/ Superseded(t) PROVE Types'
    BY <2>2, SpeakerSteps
  <2>3. ASSUME NEW t \in Turn, Seal(t) \/ ExpiryFires(t) \/ ExpiryRetires(t) PROVE Types'
    BY <2>3, SealerSteps
  <2>4. ASSUME NEW t \in Turn, Run(t) PROVE Types'
    BY <2>4, RunSteps, EndSteps DEF Run
  <2>5. ASSUME NEW t \in Turn, NEW k \in Child, Provider(t, k) PROVE Types'
    BY <2>5, ProviderSteps
  <2>6. ASSUME NEW c \in Controller, Control(c) PROVE Types'
    BY <2>6, ControllerSteps
  <2>. QED
    BY <1>1, <2>1, <2>2, <2>3, <2>4, <2>5, <2>6 DEF Progress
<1>2. CASE UNCHANGED vars
  BY <1>2, StillTypes, TypeGroupsNext
     DEF vars, speakerVars, callVars, draftVars, endVars, markVars, slotVars, ctlVars, runVars
<1>3. CASE Speak \/ ManualBegins \/ OpenIngress \/ Rest
  BY <1>3, SpeakerSteps
<1>4. ASSUME NEW t \in Turn, Revise(t) \/ Prestart(t) \/ Commit(t) PROVE Types'
  BY <1>4, SpeakerSteps, SealerSteps
<1>5. ASSUME NEW c \in Controller, CtlBegin(c) PROVE Types'
  BY <1>5, ControllerSteps
<1>. QED
  BY <1>1, <1>2, <1>3, <1>4, <1>5 DEF Next

\* Type correctness: in particular the number of free slots is never negative, and
\* whoever retires turns knows one to retire.
THEOREM TypeCorrect == Spec => []Types
<1>1. Init => Types
  BY TypesInit
<1>2. Types /\ [Next]_vars => Types'
  BY TypesNext
<1>. QED
  BY <1>1, <1>2, PTL DEF Spec

\* The types alone.
THEOREM TypeOKAlways == Spec => []TypeOK
<1>1. Types => TypeOK
  BY DEF Types
<1>. QED
  BY <1>1, TypeCorrect, PTL

-------------------------------------------------------------------------------
(* The course of a turn: what its record, its commit and its run can be at once. *)

\* A buffer that is filled is not sealed; one that is not there yet has no turn.
Ordered ==
    /\ \A t \in Turn : t >= next => status[t] = "none" /\ call[t] = "none"
    /\ buffer # NoTurn => buffer < next /\ call[buffer] \in {"none", "commit"}

\* A registered turn has a run; a run goes beyond "wait" when the turn is sealed; it
\* goes on only while the turn is open, or else has a cancellation to come.
Courses ==
    \A t \in Turn :
        /\ run[t] = "none" <=> status[t] = "none"
        /\ call[t] \in {"commit", "lock"} => status[t] # "none"
        /\ run[t] \in {"slot", "race", "mark", "join", "leave", "exec", "unwind"} =>
              call[t] = "done"
        /\ t \in killed => Live(t)
        /\ run[t] \in {"wait", "slot", "race", "exec"} => Open(t) \/ t \in killed

Course == Types /\ Ordered /\ Courses

\* Settling is closing, if it is about the last children.
LEMMA SettleStatus ==
    ASSUME Types, NEW t \in Turn, NEW S, NEW kind, Settle(t, S, kind), Open(t)
    PROVE  /\ \A u \in Turn : u # t => status'[u] = status[u]
           /\ status'[t] = IF Closes(t, S) THEN "closed" ELSE "open"
           /\ S = Remaining(t) => Closes(t, S)
<1>1. completed[t] \in SUBSET Child
  BY DEF Types, TypeOK
<1>2. S = Remaining(t) => Closes(t, S)
  BY <1>1 DEF Remaining, Closes
<1>. QED
  BY <1>2 DEF Settle, Types, TypeOK, Open

\* A retired turn is closed, and its run has a cancellation to come.
LEMMA RetireStatus ==
    ASSUME Types, NEW v \in Turn, NEW self, Retire(v, self)
    PROVE  /\ \A u \in Turn : u # v => /\ status'[u] = status[u]
                                       /\ u \in killed' <=> u \in killed
           /\ status'[v] = IF Open(v) THEN "closed" ELSE status[v]
           /\ v \in killed' <=> v \in killed \/ (Live(v) /\ v # self)
<1>1. CASE Open(v)
  BY <1>1, SettleStatus DEF Retire
<1>2. CASE ~Open(v)
  BY <1>2 DEF Retire, endVars
<1>. QED
  BY <1>1, <1>2

\* What the steps about the turns' records leave alone.
LEMMA CourseStill ==
    ASSUME Course, Types', UNCHANGED <<next, status, call, run, killed>>,
           buffer' \in {buffer, NoTurn}
    PROVE  Ordered' /\ Courses'
BY DEF Course, Ordered, Courses, Live, Open

\* A step of a commit alone.
LEMMA CourseSealed ==
    ASSUME Course, NEW t \in Turn, NEW c \in {"commit", "lock", "mark", "join", "publish", "done"},
           call' = [call EXCEPT ![t] = c], call[t] # "done", t < next,
           c \in {"commit", "lock"} => status[t] # "none",
           buffer' = NoTurn \/ (buffer' = buffer /\ (buffer = t => c = "commit")),
           UNCHANGED <<next, status, run, killed>>
    PROVE  Ordered' /\ Courses'
<1>1. call'[t] = c /\ \A u \in Turn : u # t => call'[u] = call[u]
  BY DEF Course, Types, TypeOK
<1>2. \A u \in Turn : u >= next => u # t
  BY SizeAssumption DEF Course, Types, TypeOK, Turn
<1>3. Ordered'
  <2>1. buffer \in Turn \cup {NoTurn}
    BY DEF Course, Types, TypeOK
  <2>. QED
    BY <1>1, <1>2, <2>1 DEF Course, Ordered
<1>4. Courses'
  BY <1>1 DEF Course, Courses, Live, Open
<1>. QED
  BY <1>3, <1>4

\* A step of a run alone, or one that gives it a cancellation.
LEMMA CourseRun ==
    ASSUME Course, NEW t \in Turn, NEW r, run' = [run EXCEPT ![t] = r],
           run[t] # "none", r # "none",
           r \in {"slot", "race", "mark", "join", "leave", "exec", "unwind"} => call[t] = "done",
           \A u \in Turn : u # t /\ u \in killed => u \in killed',
           \A u \in Turn : u # t /\ u \in killed' => u \in killed \/ Live(u),
           t \in killed' => r # "done",
           r \in {"wait", "slot", "race", "exec"} => Open(t) \/ t \in killed',
           UNCHANGED <<next, buffer, status, call>>
    PROVE  Ordered' /\ Courses'
<1>1. run'[t] = r /\ \A u \in Turn : u # t => run'[u] = run[u]
  BY DEF Course, Types, TypeOK
<1>2. Ordered'
  BY DEF Course, Ordered
<1>3. Courses'
  BY <1>1 DEF Course, Courses, Live, Open
<1>. QED
  BY <1>2, <1>3

\* A turn that is closed while its run, if it is not over, has a cancellation to come
\* or is at its end.
LEMMA CourseClosed ==
    ASSUME Course, NEW v \in Turn, Open(v),
           \A u \in Turn : u # v => status'[u] = status[u] /\ (u \in killed' <=> u \in killed),
           status'[v] \in {"open", "closed"},
           v \in killed => v \in killed', v \in killed' => Live(v)',
           \A u \in Turn : u # v => run'[u] = run[u] /\ call'[u] = call[u],
           run'[v] # "none", call'[v] = call[v], buffer' = buffer, next' = next,
           run'[v] = run[v] \/ (run'[v] \in {"drain", "join"} /\ (run'[v] = "join" => call[v] = "done")),
           run'[v] \in {"wait", "slot", "race", "exec"} => v \in killed' \/ Open(v)'
    PROVE  Ordered' /\ Courses'
<1>1. v < next
  BY SizeAssumption DEF Course, Ordered, Open, Types, TypeOK, Turn
<1>2. \A u \in Turn : call'[u] = call[u]
  OBVIOUS
<1>3. buffer \in Turn \cup {NoTurn}
  BY DEF Course, Types, TypeOK
<1>4. Ordered'
  <2>1. ASSUME NEW u \in Turn, u >= next PROVE u # v
    BY <1>1, <2>1, SizeAssumption DEF Course, Types, TypeOK, Turn
  <2>. QED
    BY <1>2, <1>3, <2>1 DEF Course, Ordered
<1>5. Courses'
  BY <1>2 DEF Course, Courses, Live, Open
<1>. QED
  BY <1>4, <1>5

\* The speaker's steps.
LEMMA SpeakerCourse ==
    ASSUME Course, \/ Speak \/ ManualBegins \/ ManualEnds \/ OpenIngress \/ Rest
                   \/ \E t \in Turn : Revise(t) \/ Revised(t) \/ Prestart(t) \/ Superseded(t)
    PROVE  Ordered' /\ Courses'
<1>. USE DEF speakerVars, callVars, draftVars, endVars, runVars
<1>1. ASSUME NEW t \in Turn, NEW compatible \in BOOLEAN, Revision(t, compatible),
             call[t] \in {"none", "commit"}
      PROVE  /\ status'[t] = "open"
             /\ run'[t] = IF status[t] = "none" THEN "wait" ELSE run[t]
             /\ \A u \in Turn : u # t => status'[u] = status[u] /\ run'[u] = run[u]
             /\ status[t] \in {"none", "open"}
  BY <1>1 DEF Course, Courses, Types, TypeOK, Revision, Refused, Live
<1>2. CASE Speak
  <2>1. /\ next \in Turn /\ next \in Nat /\ buffer' = next /\ next' = next + 1
        /\ UNCHANGED <<call, killed>>
    BY <1>2, SizeAssumption DEF Speak, Course, Types, TypeOK, Turn
  <2>2. status[next] = "none" /\ call[next] = "none" /\ run[next] = "none"
    BY <2>1 DEF Course, Ordered, Courses
  <2>3. /\ \A u \in Turn : u # next => status'[u] = status[u] /\ run'[u] = run[u]
        /\ \/ status'[next] = "open" /\ run'[next] = "wait"
           \/ status'[next] = "none" /\ run'[next] = "none"
    BY <1>1, <1>2, <2>1, <2>2 DEF Speak
  <2>4. \A u \in Turn : u >= next + 1 => u >= next /\ u # next
    BY <2>1, SizeAssumption DEF Turn
  <2>5. Ordered'
    BY <2>1, <2>2, <2>3, <2>4 DEF Course, Ordered
  <2>6. Courses'
    BY <2>1, <2>2, <2>3 DEF Course, Courses, Live, Open
  <2>. QED
    BY <2>5, <2>6
<1>3. CASE \/ ManualBegins \/ ManualEnds \/ OpenIngress \/ Rest
  BY <1>3, CourseStill, TypesNext
     DEF ManualBegins, ManualEnds, OpenIngress, Rest, Course, Next, Progress, vars
<1>4. ASSUME NEW t \in Turn, Revise(t) PROVE Ordered' /\ Courses'
  <2>1. /\ buffer = t /\ t # NoTurn /\ call[t] \in {"none", "commit"} /\ t < next
        /\ UNCHANGED <<next, buffer, call, killed>>
    BY <1>4, SizeAssumption DEF Revise, Course, Ordered, Turn, NoTurn
  <2>2. /\ status'[t] = "open" /\ status[t] \in {"none", "open"}
        /\ run'[t] = IF status[t] = "none" THEN "wait" ELSE run[t]
        /\ \A u \in Turn : u # t => status'[u] = status[u] /\ run'[u] = run[u]
    BY <1>1, <1>4, <2>1 DEF Revise
  <2>3. \A u \in Turn : u >= next => u # t
    BY <2>1, SizeAssumption DEF Course, Types, TypeOK, Turn
  <2>4. Ordered'
    BY <2>1, <2>2, <2>3 DEF Course, Ordered
  <2>5. Courses'
    BY <2>1, <2>2 DEF Course, Courses, Live, Open
  <2>. QED
    BY <2>4, <2>5
<1>5. ASSUME NEW t \in Turn, Revised(t) \/ Prestart(t) \/ Superseded(t)
      PROVE  Ordered' /\ Courses'
  BY <1>5, CourseStill, TypesNext DEF Revised, Prestart, Superseded, Course, Next, Progress
<1>. QED
  BY <1>2, <1>3, <1>4, <1>5

\* A sealed draft: where its commit is then.
LEMMA SealDraftCall ==
    ASSUME Types, NEW t \in Turn, NEW r, SealDraft(t, r)
    PROVE  \E c \in {"lock", "mark", "publish", "done"} :
              /\ call' = [call EXCEPT ![t] = c]
              /\ c = "lock" => Open(t)
              /\ c = "done" => ~Open(t)
              /\ buffer' = NoTurn
BY DEF SealDraft, Admit, SealerSheds

\* The steps of a commit and of the timer.
LEMMA SealerCourse ==
    ASSUME Course, NEW t \in Turn, Commit(t) \/ Seal(t) \/ ExpiryFires(t) \/ ExpiryRetires(t)
    PROVE  Ordered' /\ Courses'
<1>. USE DEF speakerVars, callVars, draftVars, endVars, runVars
<1>0. \A u \in Turn : call[u] # "none" => u < next
  BY SizeAssumption DEF Course, Ordered, Types, TypeOK, Turn
<1>1. CASE Commit(t)
  <2>1. t < next /\ buffer = t /\ t # NoTurn /\ call[t] = "none" /\ UNCHANGED <<next, killed>>
    BY <1>1, SizeAssumption DEF Commit, Course, Ordered, Turn, NoTurn
  <2>2. CASE \E compatible \in BOOLEAN : Revision(t, compatible)
                /\ call' = [call EXCEPT ![t] = "commit"] /\ UNCHANGED buffer
    <3>1. /\ status'[t] = "open" /\ status[t] \in {"none", "open"} /\ call'[t] = "commit"
          /\ run'[t] = IF status[t] = "none" THEN "wait" ELSE run[t]
          /\ \A u \in Turn : u # t => /\ status'[u] = status[u] /\ run'[u] = run[u]
                                      /\ call'[u] = call[u]
      BY <2>2 DEF Course, Types, TypeOK, Revision, Refused
    <3>2. \A u \in Turn : u >= next => u # t
      BY <2>1, SizeAssumption DEF Course, Types, TypeOK, Turn
    <3>3. Ordered'
      BY <2>1, <2>2, <3>1, <3>2 DEF Course, Ordered
    <3>4. Courses'
      BY <2>1, <3>1 DEF Course, Courses, Live, Open
    <3>. QED
      BY <3>3, <3>4
  <2>3. CASE SealDraft(t, Speculation) /\ UNCHANGED <<status, run>>
    <3>1. PICK c \in {"lock", "mark", "publish", "done"} :
             call' = [call EXCEPT ![t] = c] /\ (c = "lock" => Open(t)) /\ buffer' = NoTurn
      BY <2>3, SealDraftCall DEF Course
    <3>. QED
      BY <2>1, <2>3, <3>1, CourseSealed DEF Open
  <2>. QED
    BY <1>1, <2>2, <2>3 DEF Commit
<1>2. CASE CommitEnds(t)
  <2>1. PICK c \in {"lock", "mark", "publish", "done"} :
           call' = [call EXCEPT ![t] = c] /\ (c = "lock" => Open(t)) /\ buffer' = NoTurn
    BY <1>2, SealDraftCall DEF Course, CommitEnds
  <2>. QED
    BY <1>0, <1>2, <2>1, CourseSealed DEF CommitEnds, Open
<1>3. CASE SealLocked(t) \/ SealerJoins(t) \/ SealerPublishes(t)
  <2>1. PICK c \in {"mark", "publish", "done"} : call' = [call EXCEPT ![t] = c]
    BY <1>3 DEF SealLocked, Admit, SealerJoins, SealerSheds, SealerPublishes
  <2>2. UNCHANGED <<next, status, run, killed, buffer>> /\ call[t] \in {"lock", "join", "publish"}
    BY <1>3 DEF SealLocked, SealerJoins, SealerPublishes
  <2>3. buffer # t
    BY <2>2, SizeAssumption DEF Course, Ordered, Turn, NoTurn
  <2>. QED
    BY <1>0, <2>1, <2>2, <2>3, CourseSealed
<1>4. CASE SealerRetires(t)
  <2>0. victims[t] \in SUBSET Turn /\ victims[t] # {}
    BY <1>4 DEF SealerRetires, Course, Types, TypeOK, Lists
  <2>1. PICK v \in Turn : v = Smallest(victims[t]) /\ Retire(v, NoTurn)
    BY <1>4, <2>0, SmallestOf DEF SealerRetires
  <2>2. /\ \A u \in Turn : u # v => status'[u] = status[u] /\ (u \in killed' <=> u \in killed)
        /\ status'[v] = IF Open(v) THEN "closed" ELSE status[v]
        /\ v \in killed' <=> v \in killed \/ Live(v)
    BY <2>1, RetireStatus, SizeAssumption DEF Course, Turn, NoTurn
  <2>3. /\ call'[t] = "join" /\ \A u \in Turn : u # t => call'[u] = call[u]
        /\ call[t] = "mark" /\ UNCHANGED <<next, buffer, run>>
    BY <1>4 DEF SealerRetires, Course, Types, TypeOK
  <2>4. Ordered'
    <3>1. buffer \in Turn \cup {NoTurn} /\ \A u \in Turn : u >= next => u # t
      BY <1>0, <2>3, SizeAssumption DEF Course, Types, TypeOK, Turn
    <3>. QED
      BY <2>2, <2>3, <3>1 DEF Course, Ordered, Open
  <2>5. Courses'
    BY <2>2, <2>3 DEF Course, Courses, Live, Open
  <2>. QED
    BY <2>4, <2>5
<1>5. CASE ExpiryFires(t)
  BY <1>5, CourseStill, TypesNext DEF ExpiryFires, Course, Next, Progress
<1>6. CASE ExpiryRetires(t)
  <2>1. /\ \A u \in Turn : u # t => status'[u] = status[u] /\ (u \in killed' <=> u \in killed)
        /\ status'[t] = IF Open(t) THEN "closed" ELSE status[t]
        /\ t \in killed' <=> t \in killed \/ Live(t)
    BY <1>6, RetireStatus, SizeAssumption DEF Course, Turn, NoTurn, ExpiryRetires
  <2>2. UNCHANGED <<next, buffer, run, call>>
    BY <1>6 DEF ExpiryRetires
  <2>3. Ordered'
    BY <2>1, <2>2 DEF Course, Ordered, Open
  <2>4. Courses'
    BY <2>1, <2>2 DEF Course, Courses, Live, Open
  <2>. QED
    BY <2>3, <2>4
<1>. QED
  BY <1>1, <1>2, <1>3, <1>4, <1>5, <1>6 DEF Seal

\* The steps of a run before it executes.
LEMMA RunCourse ==
    ASSUME Course, NEW t \in Turn,
           \/ RunWakes(t) \/ RunGranted(t) \/ RunReady(t) \/ RunGivesUp(t) \/ RunRetires(t)
           \/ RunJoins(t)
    PROVE  Ordered' /\ Courses'
<1>. USE DEF speakerVars, callVars, draftVars, endVars, runVars
<1>1. ASSUME NEW W, RunSheds(t, W)
      PROVE  \/ run' = [run EXCEPT ![t] = "mark"]
             \/ run' = [run EXCEPT ![t] = "race"] /\ W = {}
  BY <1>1 DEF RunSheds, Goto
<1>2. CASE RunWakes(t)
  <2>1. /\ run[t] = "wait" /\ call[t] = "done" /\ t \notin killed /\ Open(t)
        /\ UNCHANGED <<next, buffer, status, call, killed>>
    BY <1>2 DEF RunWakes, At, Course, Courses
  <2>2. PICK r \in {"dead", "exec", "race", "slot"} : run' = [run EXCEPT ![t] = r]
    BY <1>2 DEF RunWakes, GiveUp, Execute, Goto
  <2>. QED
    BY <2>1, <2>2, CourseRun
<1>3. CASE RunGranted(t) \/ RunReady(t)
  <2>1. /\ run[t] \in {"slot", "race"} /\ t \notin killed /\ Open(t) /\ call[t] = "done"
        /\ UNCHANGED <<next, buffer, status, call, killed>>
    BY <1>3 DEF RunGranted, RunReady, At, Course, Courses
  <2>2. run' = [run EXCEPT ![t] = "exec"]
    BY <1>3, <2>1 DEF RunGranted, RunReady, Execute, Goto
  <2>. QED
    BY <2>1, <2>2, CourseRun
<1>4. CASE RunGivesUp(t)
  <2>1. /\ run[t] = "race" /\ t \notin killed /\ Open(t) /\ call[t] = "done"
        /\ UNCHANGED <<next, buffer, status, call, killed>>
    BY <1>4 DEF RunGivesUp, At, Course, Courses
  <2>2. PICK r \in {"mark", "race"} : run' = [run EXCEPT ![t] = r]
    BY <1>1, <1>4 DEF RunGivesUp
  <2>. QED
    BY <2>1, <2>2, CourseRun
<1>5. CASE RunRetires(t)
  <2>1. run[t] = "mark" /\ call[t] = "done"
    BY <1>5 DEF RunRetires, At, Course, Courses
  <2>0. shed[t] \in SUBSET Turn /\ shed[t] # {}
    BY <2>1 DEF Course, Types, TypeOK, Lists
  <2>2. PICK v \in Turn : v = Smallest(shed[t]) /\ Retire(v, t)
    BY <1>5, <2>0, SmallestOf DEF RunRetires
  <2>3. /\ \A u \in Turn : u # v => status'[u] = status[u] /\ (u \in killed' <=> u \in killed)
        /\ status'[v] = IF Open(v) THEN "closed" ELSE status[v]
        /\ v \in killed' <=> v \in killed \/ (Live(v) /\ v # t)
    BY <2>2, RetireStatus DEF Course
  <2>4. /\ run'[t] = "join" /\ \A u \in Turn : u # t => run'[u] = run[u]
        /\ UNCHANGED <<next, buffer, call>>
    BY <1>5 DEF RunRetires, Goto, Course, Types, TypeOK
  <2>5. Ordered'
    BY <2>3, <2>4 DEF Course, Ordered, Open
  <2>6. Courses'
    BY <2>1, <2>3, <2>4 DEF Course, Courses, Live, Open
  <2>. QED
    BY <2>5, <2>6
<1>6. CASE RunJoins(t)
  <2>1. /\ run[t] = "join" /\ t \notin killed /\ call[t] = "done"
        /\ UNCHANGED <<next, buffer, status, call, killed>>
    BY <1>6 DEF RunJoins, At, Course, Courses
  <2>2. PICK r \in {"mark", "race", "drain", "exec"} :
           run' = [run EXCEPT ![t] = r] /\ (r \in {"race", "exec"} => Open(t))
    BY <1>1, <1>6 DEF RunJoins, Execute, Goto
  <2>. QED
    BY <2>1, <2>2, CourseRun
<1>. QED
  BY <1>2, <1>3, <1>4, <1>5, <1>6

\* The steps of a run as it executes and ends.
LEMMA EndCourse ==
    ASSUME Course, NEW t \in Turn,
           \/ RunCancelled(t) \/ RunLeaves(t) \/ RunUnwound(t) \/ RunDead(t) \/ RunDrained(t)
           \/ \E k \in Child : ExecRetry(t, k) \/ RunPublish(t, k) \/ RunRefused(t, k)
    PROVE  Ordered' /\ Courses'
<1>. USE DEF speakerVars, callVars, draftVars, endVars, runVars
<1>1. CASE RunCancelled(t)
  <2>1. /\ UNCHANGED <<next, buffer, status, call>> /\ t \in killed /\ Live(t)
        /\ run[t] \in {"slot", "race", "mark", "join", "leave", "exec", "unwind"} => call[t] = "done"
    BY <1>1 DEF RunCancelled, Course, Courses
  <2>2. CASE killed' = killed \ {t}
    <3>1. PICK r \in {"dead", "unwind", "leave", "drain"} :
             run' = [run EXCEPT ![t] = r] /\ (r \in {"leave", "unwind"} => call[t] = "done")
      <4>1. CASE run' = run
        <5>1. run[t] \in {"unwind", "leave"} /\ run \in [Turn -> {"none", "wait", "slot", "race",
                 "mark", "join", "leave", "exec", "unwind", "dead", "drain", "done"}]
          BY <1>1, <2>2, <4>1 DEF RunCancelled, GiveUp, Goto, Joins, Course, Types, TypeOK
        <5>2. run' = [run EXCEPT ![t] = run[t]]
          BY <4>1, <5>1
        <5>. QED
          BY <2>1, <5>1, <5>2
      <4>2. CASE run' # run
        BY <1>1, <2>1, <4>2 DEF RunCancelled, GiveUp, Goto, Joins
      <4>. QED
        BY <4>1, <4>2
    <3>. QED
      BY <2>1, <2>2, <3>1, CourseRun DEF Live
  <2>3. CASE \E v \in Turn \ {t} : killed' = (killed \ {t}) \cup {u \in {v} : Live(u)}
                                   /\ Joins(t, v) /\ Goto(t, "leave")
    BY <2>1, <2>3, CourseRun DEF Goto, Joins, Live
  <2>. QED
    BY <1>1, <2>2, <2>3 DEF RunCancelled
<1>2. CASE RunLeaves(t) \/ RunUnwound(t) \/ \E k \in Child : RunRefused(t, k)
  <2>1. /\ UNCHANGED <<next, buffer, status, call, killed>> /\ run' = [run EXCEPT ![t] = "dead"]
        /\ run[t] # "none"
    BY <1>2 DEF RunLeaves, RunUnwound, RunRefused, GiveUp, Goto, At
  <2>. QED
    BY <2>1, CourseRun
<1>3. CASE RunDead(t)
  <2>1. /\ UNCHANGED <<next, buffer, call, killed>> /\ run[t] = "dead" /\ t \notin killed
        /\ run' = [run EXCEPT ![t] = "drain"]
    BY <1>3 DEF RunDead, At, Goto
  <2>2. CASE Open(t)
    <3>1. /\ \A u \in Turn : u # t => status'[u] = status[u]
          /\ status'[t] = "closed"
      BY <1>3, <2>2, SettleStatus DEF RunDead, Course
    <3>2. run'[t] = "drain" /\ \A u \in Turn : u # t => run'[u] = run[u]
      BY <2>1 DEF Course, Types, TypeOK
    <3>. QED
      BY <2>1, <2>2, <3>1, <3>2, CourseClosed
  <2>3. CASE ~Open(t)
    BY <1>3, <2>1, <2>3, CourseRun DEF RunDead
  <2>. QED
    BY <2>2, <2>3
<1>4. CASE RunDrained(t)
  <2>1. /\ UNCHANGED <<next, buffer, status, call>> /\ run' = [run EXCEPT ![t] = "done"]
        /\ killed' = killed \ {t} /\ run[t] # "none"
    BY <1>4 DEF RunDrained, Goto
  <2>. QED
    BY <2>1, CourseRun
<1>5. ASSUME NEW k \in Child, ExecRetry(t, k) PROVE Ordered' /\ Courses'
  BY <1>5, CourseStill, TypesNext DEF ExecRetry, Course, Next, Progress, Run
<1>6. ASSUME NEW k \in Child, RunPublish(t, k) PROVE Ordered' /\ Courses'
  <2>1. /\ UNCHANGED <<next, buffer, call, killed>> /\ run[t] = "exec" /\ t \notin killed /\ Open(t)
        /\ run' = IF Closes(t, {k}) THEN [run EXCEPT ![t] = "drain"] ELSE run
    BY <1>6 DEF RunPublish, At, Course, Courses
  <2>2. /\ \A u \in Turn : u # t => status'[u] = status[u]
        /\ status'[t] = IF Closes(t, {k}) THEN "closed" ELSE "open"
    BY <1>6, <2>1, SettleStatus DEF RunPublish, Course
  <2>3. /\ run'[t] = IF Closes(t, {k}) THEN "drain" ELSE "exec"
        /\ \A u \in Turn : u # t => run'[u] = run[u]
    BY <2>1 DEF Course, Types, TypeOK
  <2>. QED
    BY <2>1, <2>2, <2>3, CourseClosed DEF Open
<1>. QED
  BY <1>1, <1>2, <1>3, <1>4, <1>5, <1>6

\* The controllers' steps.
LEMMA ControllerCourse ==
    ASSUME Course, NEW c \in Controller, CtlBegin(c) \/ Control(c)
    PROVE  Ordered' /\ Courses'
<1>. USE DEF speakerVars, callVars, draftVars, endVars, runVars, ctlVars
<1>1. CASE CtlBegin(c) \/ CtlSelect(c)
  <2>1. UNCHANGED <<next, buffer, status, call, run>>
    BY <1>1 DEF CtlBegin, CtlSelect
  <2>2. killed' = killed \/ killed' = killed \cup {t \in Turn : Open(t) /\ Live(t)}
    BY <1>1 DEF CtlBegin, CtlSelect, Select, Selected
  <2>3. Ordered'
    BY <2>1 DEF Course, Ordered
  <2>4. Courses'
    BY <2>1, <2>2 DEF Course, Courses, Live, Open
  <2>. QED
    BY <2>3, <2>4
<1>2. CASE CtlReturn(c) \/ CtlClear(c)
  BY <1>2, CourseStill, TypesNext DEF CtlReturn, CtlClear, Course, Next, Progress, Control
<1>3. ASSUME NEW t \in Turn, CtlSettle(c, t) PROVE Ordered' /\ Courses'
  <2>1. Open(t) /\ ~Live(t) /\ UNCHANGED <<next, buffer, call, killed, run>>
    BY <1>3 DEF CtlSettle, Joined
  <2>2. \A u \in Turn : u # t => status'[u] = status[u]
    BY <1>3, <2>1, SettleStatus DEF CtlSettle, Course
  <2>3. status'[t] \in {"open", "closed"}
    BY <1>3, <2>1, SettleStatus DEF CtlSettle, Course
  <2>4. run[t] = "done" /\ t \notin killed
    BY <2>1 DEF Course, Courses, Live, Open
  <2>. QED
    BY <2>1, <2>2, <2>3, <2>4, CourseClosed
<1>. QED
  BY <1>1, <1>2, <1>3 DEF Control

\* Every step keeps the courses.
LEMMA CourseNext == Course /\ [Next]_vars => Course'
<1> SUFFICES ASSUME Course, [Next]_vars PROVE Course'
  OBVIOUS
<1>0. Types'
  BY TypesNext DEF Course
<1>1. CASE UNCHANGED vars
  BY <1>0, <1>1, CourseStill DEF vars, speakerVars, callVars, endVars, runVars, Course
<1>2. ASSUME NEW t \in Turn, NEW k \in Child, Provider(t, k) PROVE Course'
  BY <1>0, <1>2, CourseStill
     DEF Provider, OpReturns, RetryReturns, OpDies, Course, speakerVars, callVars, endVars, runVars
<1>3. CASE Progress
  <2>1. ASSUME NEW t \in Turn, \/ Revised(t) \/ Seal(t) \/ ExpiryFires(t) \/ ExpiryRetires(t)
                               \/ Run(t) \/ Superseded(t)
        PROVE  Course'
    BY <1>0, <2>1, SpeakerCourse, SealerCourse, RunCourse, EndCourse DEF Run, Course
  <2>. QED
    BY <1>0, <1>2, <1>3, <2>1, SpeakerCourse, ControllerCourse DEF Progress, Course
<1>4. CASE Next /\ ~Progress
  BY <1>0, <1>4, SpeakerCourse, SealerCourse, ControllerCourse DEF Next, Course
<1>. QED
  BY <1>1, <1>3, <1>4

\* Initially.
LEMMA CourseInit == Init => Course
<1>1. Init => Ordered
  BY DEF Init, Ordered
<1>2. Init => Courses
  BY DEF Init, Courses, Live, Open
<1>. QED
  BY <1>1, <1>2, TypesInit DEF Course

-------------------------------------------------------------------------------
(* The operations of a turn.                                               *)

\* Only one draft can be speculated on, the newest.
LEMMA OneStartable ==
    ASSUME NEW t \in Turn, NEW u \in Turn, Startable(t), Startable(u) PROVE t = u
BY SizeAssumption DEF Startable, Draft, Turn

\* o1 is o0 with some operations started, all of them for the draft sp.
Starts(o0, o1, sp) ==
    \A u \in Turn, k \in Child :
        \/ o1[u][k] = o0[u][k]
        \/ /\ o0[u][k].st = "none" /\ u = sp /\ Startable(u)
           /\ o1[u][k] = [st |-> "run", epoch |-> epoch[u], guess |-> TRUE]

\* o1 is o0 but for the operations of sp, if it is among T.
Keeps(o0, o1, T, sp) == \A u \in Turn : o1[u] = o0[u] \/ (u = sp /\ u \in T)

\* _start_current_draft starts operations of the turn it lets speculate, and lets one do
\* so only if no other does.
LEMMA CurrentStarts ==
    ASSUME Types, NEW T \in SUBSET Turn, NEW sp \in Turn \cup {NoTurn},
           NEW o \in [Turn -> Operations]
    PROVE  LET r == Current(T, sp, o) IN
           /\ Starts(o, r.op, r.spec)
           /\ Keeps(o, r.op, T, r.spec)
           /\ sp # NoTurn => r.spec = sp
           /\ r.spec # sp => r.spec \in T /\ Startable(r.spec)
           /\ r.spec = NoTurn => \A u \in T : ~Startable(u)
<1> DEFINE r == Current(T, sp, o)
<1> DEFINE C == {t \in T : Startable(t) /\ sp \in {NoTurn, t}}
<1>1. /\ r.spec = IF C = {} THEN sp ELSE Smallest(C)
      /\ \A u \in Turn : r.op[u] = IF u \in C THEN Launch(o[u], u \in eligible, epoch[u], TRUE)
                                             ELSE o[u]
  BY DEF Current
<1> HIDE DEF r
<1>2. C # {} => Smallest(C) \in C
  BY SmallestOf
<1>3. \A u \in C : u = r.spec
  BY <1>1, <1>2, OneStartable
<1>4. NoTurn \notin Turn
  BY DEF NoTurn, Turn
<1>5. ASSUME NEW u \in Turn, NEW k \in Child
      PROVE  \/ r.op[u][k] = o[u][k]
             \/ /\ o[u][k].st = "none" /\ u = r.spec /\ Startable(u)
                /\ r.op[u][k] = [st |-> "run", epoch |-> epoch[u], guess |-> TRUE]
  <2>1. CASE u \in C
    <3>1. o[u] \in Operations /\ epoch[u] \in 0 .. MaxEpochs /\ (u \in eligible) \in BOOLEAN
      BY DEF Types, TypeOK
    <3>2. r.op[u] = Launch(o[u], u \in eligible, epoch[u], TRUE)
      BY <1>1, <2>1
    <3>3. u = r.spec /\ Startable(u)
      BY <1>3, <2>1
    <3>4. \/ Launch(o[u], u \in eligible, epoch[u], TRUE)[k] = o[u][k]
          \/ /\ o[u][k].st = "none"
             /\ Launch(o[u], u \in eligible, epoch[u], TRUE)[k] =
                   [st |-> "run", epoch |-> epoch[u], guess |-> TRUE]
      BY DEF Launch
    <3>. QED
      BY <3>2, <3>3, <3>4
  <2>2. CASE u \notin C
    BY <1>1, <2>2
  <2>. QED
    BY <2>1, <2>2
<1>6. sp # NoTurn => r.spec = sp
  BY <1>1, <1>2
<1>7. r.spec # sp => r.spec \in T /\ Startable(r.spec)
  BY <1>1, <1>2
<1>8. r.spec = NoTurn => \A u \in T : ~Startable(u)
  BY <1>1, <1>2, <1>4
<1>9. Keeps(o, r.op, T, r.spec)
  BY <1>1, <1>3 DEF Keeps
<1>. QED
  BY <1>5, <1>6, <1>7, <1>8, <1>9 DEF Starts, r

\* _release_speculative_occupancy ends the turn's speculation, and only the turn's.
LEMMA ReleasedStarts ==
    ASSUME Types, NEW t \in Turn, NEW r \in Speculations, NEW q, q = Released(t, r)
    PROVE  /\ Starts(r.op, q.op, q.spec)
           /\ q.spec # t /\ q.op[t] = r.op[t]
           /\ r.spec # t => q = r
           /\ q.spec # r.spec /\ q.spec # NoTurn => q.spec \in Turn /\ Startable(q.spec)
           /\ r.spec = t /\ q.spec = NoTurn => \A u \in Turn \ {t} : ~Startable(u)
<1>1. NoTurn \notin Turn /\ NoTurn \in Turn \cup {NoTurn} /\ Turn \ {t} \in SUBSET Turn
  BY DEF NoTurn, Turn
<1>2. r.op \in [Turn -> Operations] /\ r.spec \in Turn \cup {NoTurn}
  BY DEF Speculations
<1>3. CASE r.spec = t
  <2>0. PICK T \in SUBSET Turn, sp \in Turn \cup {NoTurn}, o \in [Turn -> Operations] :
           T = Turn \ {t} /\ sp = NoTurn /\ o = r.op
    BY <1>1, <1>2
  <2>1. q = Current(T, sp, o)
    BY <1>3, <2>0 DEF Released
  <2>2. /\ Starts(r.op, q.op, q.spec)
        /\ Keeps(r.op, q.op, Turn \ {t}, q.spec)
        /\ q.spec # NoTurn => q.spec \in Turn \ {t} /\ Startable(q.spec)
        /\ q.spec = NoTurn => \A u \in Turn \ {t} : ~Startable(u)
    <3>1. /\ Starts(o, q.op, q.spec)
          /\ Keeps(o, q.op, T, q.spec)
          /\ q.spec # sp => q.spec \in T /\ Startable(q.spec)
          /\ q.spec = NoTurn => \A u \in T : ~Startable(u)
      BY <2>1, CurrentStarts
    <3>. QED
      BY <2>0, <3>1
  <2>3. q.spec # t
    BY <1>1, <2>2
  <2>4. q.op[t] = r.op[t]
    BY <2>2, <2>3 DEF Keeps
  <2>. QED
    BY <1>3, <2>2, <2>3, <2>4
<1>4. CASE r.spec # t
  BY <1>4 DEF Released, Starts
<1>. QED
  BY <1>3, <1>4

\* A started operation is not started again.
LEMMA StartsTwice ==
    ASSUME NEW o0, NEW o1, NEW o2, NEW s1, NEW s2, Starts(o0, o1, s1), Starts(o1, o2, s2)
    PROVE  \A u \in Turn, k \in Child :
              \/ o2[u][k] = o0[u][k]
              \/ /\ o0[u][k].st = "none" /\ u \in {s1, s2} /\ Startable(u)
                 /\ o2[u][k] = [st |-> "run", epoch |-> epoch[u], guess |-> TRUE]
<1> SUFFICES ASSUME NEW u \in Turn, NEW k \in Child
             PROVE  \/ o2[u][k] = o0[u][k]
                    \/ /\ o0[u][k].st = "none" /\ u \in {s1, s2} /\ Startable(u)
                       /\ o2[u][k] = [st |-> "run", epoch |-> epoch[u], guess |-> TRUE]
  OBVIOUS
<1>1. CASE o1[u][k] = o0[u][k]
  BY <1>1 DEF Starts
<1>2. CASE o1[u][k] # o0[u][k]
  <2>1. /\ o0[u][k].st = "none" /\ u = s1 /\ Startable(u)
        /\ o1[u][k] = [st |-> "run", epoch |-> epoch[u], guess |-> TRUE]
    BY <1>2 DEF Starts
  <2>2. o1[u][k].st # "none"
    BY <2>1
  <2>3. o2[u][k] = o1[u][k]
    BY <2>2 DEF Starts
  <2>. QED
    BY <2>1, <2>3
<1>. QED
  BY <1>1, <1>2

\* An operation is started, for the speculating draft or by an execution.
Started(u, k) ==
    /\ op[u][k].st = "none" /\ op'[u][k].st = "run" /\ op'[u][k].epoch = epoch[u]
    /\ u \in canon' \cup {spec'} \/ run'[u] = "exec"

\* What Execute does to the operations.
LEMMA ExecuteStarts ==
    ASSUME Types, NEW t \in Turn, Execute(t)
    PROVE  /\ \A u \in Turn, k \in Child : op'[u][k] = op[u][k] \/ Started(u, k)
           /\ \A k \in Child : op'[t][k] = IF op[t][k].st = "none"
                                           THEN [st |-> "run", epoch |-> epoch[t], guess |-> FALSE]
                                           ELSE op[t][k]
           /\ \A u \in Turn, k \in Child : u # t => op'[u][k] = op[u][k] \/ u = spec'
           /\ spec' = Released(t, Speculation).spec
<1>1. PICK r \in Speculations : r = Released(t, Speculation)
  BY ReleasedTypes, SpeculationTypes DEF Types
<1>2. /\ Become([r EXCEPT !.op[t] = Launch(@, TRUE, epoch[t], FALSE)])
  BY <1>1 DEF Execute
<1>3. /\ spec' = r.spec
      /\ op' = [r.op EXCEPT ![t] = Launch(r.op[t], TRUE, epoch[t], FALSE)]
      /\ r.op \in [Turn -> Operations]
  BY <1>2 DEF Become, Speculations
<1>4. Starts(op, r.op, r.spec) /\ r.op[t] = op[t]
  BY <1>1, ReleasedStarts, SpeculationTypes DEF Types
<1>5. op'[t] = Launch(op[t], TRUE, epoch[t], FALSE) /\ \A u \in Turn : u # t => op'[u] = r.op[u]
  BY <1>3, <1>4
<1>6. \A k \in Child : op'[t][k] = IF op[t][k].st = "none"
                                   THEN [st |-> "run", epoch |-> epoch[t], guess |-> FALSE]
                                   ELSE op[t][k]
  BY <1>5 DEF Launch
<1>7. ASSUME NEW u \in Turn, NEW k \in Child PROVE op'[u][k] = op[u][k] \/ Started(u, k)
  <2>1. CASE u = t
    <3>1. run'[u] = "exec"
      BY <2>1 DEF Execute, Goto, Types, TypeOK
    <3>. QED
      BY <1>6, <2>1, <3>1 DEF Started
  <2>2. CASE u # t
    <3>1. op'[u][k] = r.op[u][k]
      BY <1>5, <2>2
    <3>2. \/ r.op[u][k] = op[u][k]
          \/ /\ op[u][k].st = "none" /\ u = spec'
             /\ r.op[u][k] = [st |-> "run", epoch |-> epoch[u], guess |-> TRUE]
      BY <1>3, <1>4 DEF Starts
    <3>. QED
      BY <3>1, <3>2 DEF Started
  <2>. QED
    BY <2>1, <2>2
<1>8. \A u \in Turn, k \in Child : u # t => op'[u][k] = op[u][k] \/ u = spec'
  BY <1>3, <1>4, <1>5 DEF Starts
<1>. QED
  BY <1>1, <1>3, <1>6, <1>7, <1>8

\* What a sealed draft does to the operations.
LEMMA SealStarts ==
    ASSUME Types, NEW t \in Turn, NEW r \in Speculations, Starts(op, r.op, r.spec),
           Admit(t, r) \/ SealDraft(t, r)
    PROVE  /\ \A u \in Turn, k \in Child : op'[u][k] = op[u][k] \/ Started(u, k)
           /\ Become(r) \/ Become(Released(t, r))
<1>1. Become(r) \/ (Become(Released(t, r)) /\ t \in canon')
  BY DEF SealDraft, Admit
<1>2. PICK q : q = Released(t, r)
  OBVIOUS
<1>3. Starts(r.op, q.op, q.spec) /\ (r.spec # t => q = r)
  BY <1>2, ReleasedStarts
<1>4. CASE Become(r)
  <2>. SUFFICES ASSUME NEW u \in Turn, NEW k \in Child PROVE op'[u][k] = op[u][k] \/ Started(u, k)
    BY <1>1
  <2>1. op'[u][k] = r.op[u][k]
    BY <1>4 DEF Become
  <2>2. \/ r.op[u][k] = op[u][k]
        \/ /\ op[u][k].st = "none" /\ u = spec'
           /\ r.op[u][k] = [st |-> "run", epoch |-> epoch[u], guess |-> TRUE]
    BY <1>4 DEF Starts, Become
  <2>. QED
    BY <2>1, <2>2 DEF Started
<1>5. CASE Become(q) /\ t \in canon'
  <2>. SUFFICES ASSUME NEW u \in Turn, NEW k \in Child PROVE op'[u][k] = op[u][k] \/ Started(u, k)
    BY <1>1
  <2>1. op'[u][k] = q.op[u][k]
    BY <1>5 DEF Become
  <2>2. \/ q.op[u][k] = op[u][k]
        \/ /\ op[u][k].st = "none" /\ u \in {r.spec, q.spec}
           /\ q.op[u][k] = [st |-> "run", epoch |-> epoch[u], guess |-> TRUE]
    BY <1>3, StartsTwice
  <2>3. u \in {r.spec, q.spec} => u = t \/ u = spec'
    BY <1>3, <1>5 DEF Become
  <2>. QED
    BY <1>5, <2>1, <2>2, <2>3 DEF Started
<1>. QED
  BY <1>1, <1>2, <1>4, <1>5

-------------------------------------------------------------------------------
(* Who takes which step, and what it leaves alone.                         *)

\* The speaker, or the admission of events and of manual submissions.
SpeakerStep ==
    \/ Speak \/ ManualBegins \/ ManualEnds \/ OpenIngress \/ Rest
    \/ \E t \in Turn : Revise(t) \/ Revised(t) \/ Prestart(t) \/ Superseded(t)

\* The actors of a step.
LEMMA StepCases ==
    ASSUME [Next]_vars
    PROVE  \/ UNCHANGED vars
           \/ SpeakerStep
           \/ \E t \in Turn : Commit(t) \/ Seal(t) \/ ExpiryFires(t) \/ ExpiryRetires(t) \/ Run(t)
           \/ \E t \in Turn, k \in Child : Provider(t, k)
           \/ \E c \in Controller : CtlBegin(c) \/ Control(c)
<1>1. Next => Speak \/ ManualBegins \/ OpenIngress \/ Rest
              \/ (\E t \in Turn : Revise(t) \/ Prestart(t) \/ Commit(t))
              \/ (\E c \in Controller : CtlBegin(c)) \/ Progress
  BY DEF Next
<1>2. Progress => \/ ManualEnds
                  \/ \E t \in Turn : Revised(t) \/ Superseded(t)
                  \/ \E t \in Turn : Seal(t) \/ ExpiryFires(t) \/ ExpiryRetires(t) \/ Run(t)
                  \/ \E t \in Turn, k \in Child : Provider(t, k)
                  \/ \E c \in Controller : Control(c)
  BY DEF Progress
<1>. QED
  BY <1>1, <1>2 DEF SpeakerStep

\* A provider's call only changes its operation.
LEMMA ProviderKeeps ==
    ASSUME NEW t \in Turn, NEW k \in Child, Provider(t, k)
    PROVE  UNCHANGED <<speakerVars, callVars, draftVars, endVars, markVars, spec, slotVars,
                       cancelling, runVars, ctlVars>>
BY DEF Provider, OpReturns, RetryReturns, OpDies

\* A controller leaves the operations, the slots, the commits and the runs to others.
LEMMA ControllerKeeps ==
    ASSUME NEW c \in Controller, CtlBegin(c) \/ Control(c)
    PROVE  UNCHANGED <<callVars, epoch, eligible, superseded, terminal, started, op, spec,
                       slotVars, run, shed, next, manual, manuals>>
BY DEF CtlBegin, Control, CtlSelect, CtlSettle, CtlReturn, CtlClear, speakerVars, draftVars,
       markVars, runVars, endVars

\* A run leaves the speaker, the commits, the drafts and the controllers alone.
LEMMA RunKeeps ==
    ASSUME NEW t \in Turn, Run(t)
    PROVE  UNCHANGED <<speakerVars, callVars, draftVars, ctlVars>>
BY DEF Run, RunWakes, RunGranted, RunReady, RunGivesUp, RunRetires, RunJoins, RunCancelled,
       RunLeaves, RunUnwound, RunDead, RunDrained, ExecRetry, RunPublish, RunRefused

\* The timer of a turn leaves all of that alone, and the operations and slots.
LEMMA TimerKeeps ==
    ASSUME NEW t \in Turn, ExpiryFires(t) \/ ExpiryRetires(t)
    PROVE  UNCHANGED <<speakerVars, callVars, draftVars, ctlVars, started, op, spec, slotVars,
                       run, shed>>
BY DEF ExpiryFires, ExpiryRetires, runVars

\* A commit leaves the controllers, the queue and the runs of registered turns alone.
LEMMA SealKeeps ==
    ASSUME NEW t \in Turn, Seal(t)
    PROVE  UNCHANGED <<next, accepting, manual, manuals, pending, draftVars, ctlVars, queue, run, shed>>
BY DEF Seal, CommitEnds, SealLocked, SealerRetires, SealerJoins, SealerPublishes, speakerVars,
       runVars, slotVars

\* The speaker leaves the records of ended turns, the verdicts and the slots alone.
LEMMA SpeakerKeeps ==
    ASSUME SpeakerStep
    PROVE  UNCHANGED <<call, victims, outdated, completed, seen, markVars, slotVars, cancelling,
                       killed, shed, ctl, calls>>
BY DEF SpeakerStep, Speak, ManualBegins, ManualEnds, OpenIngress, Rest, Revise, Revised, Prestart,
       Superseded, speakerVars, callVars, draftVars, endVars, runVars, ctlVars, vars

\* What a step does to the state of a turn's record: it is registered or closed, for good.
\* A turn that is closed was settled whole, and was open.
LEMMA Settles ==
    ASSUME Course, [Next]_vars
    PROVE  \/ /\ UNCHANGED <<completed, seen>>
              /\ \A u \in Turn : \/ status'[u] = status[u]
                                 \/ status[u] = "none" /\ status'[u] = "open"
              /\ \A u \in cancelling : u \in cancelling'
           \/ \E v \in Turn, kind \in {"source", "cancelled"} :
                 /\ Open(v) /\ Settle(v, Remaining(v), kind)
                 /\ run'[v] = "exec" => v \in killed'
           \/ \E v \in Turn, k \in Child : RunPublish(v, k)
<1> DEFINE Quiet == /\ UNCHANGED <<completed, seen>>
                    /\ \A u \in Turn : \/ status'[u] = status[u]
                                       \/ status[u] = "none" /\ status'[u] = "open"
                    /\ \A u \in cancelling : u \in cancelling'
           Whole == \E v \in Turn, kind \in {"source", "cancelled"} :
                       /\ Open(v) /\ Settle(v, Remaining(v), kind)
                       /\ run'[v] = "exec" => v \in killed'
<1>0. UNCHANGED <<endVars, cancelling>> => Quiet
  BY DEF endVars
<1>1. ASSUME NEW t \in Turn, NEW compatible \in BOOLEAN, Revision(t, compatible),
             UNCHANGED <<completed, seen, cancelling>>
      PROVE  Quiet
  BY <1>1 DEF Revision, Refused, Course, Types, TypeOK
<1>2. ASSUME NEW v \in Turn, NEW self, Retire(v, self), run' = run \/ v = self,
             run'[v] = "exec" => v # self
      PROVE  Quiet \/ Whole
  <2>1. CASE Open(v)
    BY <1>2, <2>1 DEF Retire, Live
  <2>2. CASE ~Open(v)
    BY <1>0, <1>2, <2>2 DEF Retire
  <2>. QED
    BY <2>1, <2>2
<1>. HIDE DEF Quiet, Whole
<1>3. ASSUME UNCHANGED vars PROVE Quiet
  BY <1>0, <1>3 DEF vars
<1>4. ASSUME SpeakerStep PROVE Quiet
  <2>1. CASE Speak
    <3>1. next \in Turn \/ UNCHANGED status
      BY <2>1, SizeAssumption DEF Speak, Course, Types, TypeOK, Turn
    <3>2. UNCHANGED <<completed, seen, cancelling>>
      BY <2>1 DEF Speak
    <3>. QED
      BY <1>0, <1>1, <2>1, <3>1, <3>2 DEF Speak, endVars
  <2>2. ASSUME NEW t \in Turn, Revise(t) PROVE Quiet
    BY <1>1, <2>2 DEF Revise
  <2>3. ASSUME NEW t \in Turn, Revised(t) \/ Prestart(t) \/ Superseded(t) PROVE Quiet
    BY <1>0, <2>3 DEF Revised, Prestart, Superseded
  <2>4. CASE ManualBegins \/ ManualEnds \/ OpenIngress \/ Rest
    BY <1>0, <2>4 DEF ManualBegins, ManualEnds, OpenIngress, Rest, vars
  <2>. QED
    BY <1>4, <2>1, <2>2, <2>3, <2>4 DEF SpeakerStep
<1>5. ASSUME NEW t \in Turn, Commit(t) \/ Seal(t) \/ ExpiryFires(t) \/ ExpiryRetires(t)
      PROVE  Quiet \/ Whole
  <2>1. CASE Commit(t)
    BY <1>0, <1>1, <2>1 DEF Commit, endVars
  <2>2. CASE CommitEnds(t) \/ SealLocked(t) \/ SealerJoins(t) \/ SealerPublishes(t) \/ ExpiryFires(t)
    BY <1>0, <2>2 DEF CommitEnds, SealLocked, SealerJoins, SealerPublishes, ExpiryFires
  <2>3. CASE SealerRetires(t)
    <3>1. Smallest(victims[t]) \in Turn /\ NoTurn \notin Turn
      BY <2>3, SmallestOf DEF SealerRetires, Course, Types, TypeOK, Lists, NoTurn, Turn
    <3>. QED
      BY <1>2, <2>3, <3>1 DEF SealerRetires
  <2>4. CASE ExpiryRetires(t)
    <3>1. NoTurn \notin Turn
      BY DEF NoTurn, Turn
    <3>. QED
      BY <1>2, <2>4, <3>1 DEF ExpiryRetires
  <2>. QED
    BY <1>5, <2>1, <2>2, <2>3, <2>4 DEF Seal
<1>6. ASSUME NEW t \in Turn, Run(t)
      PROVE  Quiet \/ Whole \/ \E v \in Turn, k \in Child : RunPublish(v, k)
  <2>1. CASE RunRetires(t)
    <3>1. Smallest(shed[t]) \in Turn /\ run[t] = "mark"
      BY <2>1, SmallestOf DEF RunRetires, At, Course, Types, TypeOK, Lists
    <3>2. Retire(Smallest(shed[t]), t) /\ run' = [run EXCEPT ![t] = "join"]
      BY <2>1 DEF RunRetires, Goto
    <3>3. CASE Open(Smallest(shed[t]))
      <4>1. run'[Smallest(shed[t])] = "exec" => Smallest(shed[t]) # t /\ run[Smallest(shed[t])] = "exec"
        BY <3>1, <3>2 DEF Course, Types, TypeOK
      <4>. QED
        BY <3>1, <3>2, <3>3, <4>1 DEF Retire, Live, Whole
    <3>4. CASE ~Open(Smallest(shed[t]))
      BY <1>0, <3>2, <3>4 DEF Retire
    <3>. QED
      BY <3>3, <3>4
  <2>2. CASE RunDead(t)
    <3>1. CASE Open(t)
      BY <2>2, <3>1 DEF RunDead, Goto, Whole, Course, Types, TypeOK
    <3>2. CASE ~Open(t)
      BY <1>0, <2>2, <3>2 DEF RunDead
    <3>. QED
      BY <3>1, <3>2
  <2>3. CASE ~RunRetires(t) /\ ~RunDead(t) /\ ~(\E k \in Child : RunPublish(t, k))
    BY <1>0, <1>6, <2>3 DEF Run, RunWakes, RunGranted, RunReady, RunGivesUp, RunJoins, RunCancelled,
       RunLeaves, RunUnwound, RunDrained, ExecRetry, RunRefused
  <2>. QED
    BY <2>1, <2>2, <2>3
<1>7. ASSUME NEW t \in Turn, NEW k \in Child, Provider(t, k) PROVE Quiet
  BY <1>0, <1>7, ProviderKeeps
<1>8. ASSUME NEW c \in Controller, CtlBegin(c) \/ Control(c) PROVE Quiet \/ Whole
  <2>1. ASSUME NEW t \in Turn, CtlSettle(c, t) PROVE Whole
    BY <2>1 DEF CtlSettle, Joined, Live, Whole, runVars
  <2>2. CASE CtlBegin(c) \/ CtlSelect(c)
    BY <2>2 DEF CtlBegin, CtlSelect, Select, Quiet, endVars
  <2>3. CASE CtlReturn(c) \/ CtlClear(c)
    BY <1>0, <2>3 DEF CtlReturn, CtlClear
  <2>. QED
    BY <1>8, <2>1, <2>2, <2>3 DEF Control
<1>. QED
  BY <1>3, <1>4, <1>5, <1>6, <1>7, <1>8, StepCases DEF Quiet, Whole

-------------------------------------------------------------------------------
(* The verdicts on turns that are retired.                                 *)

\* The verdicts of a retirement.
Verdict == {"expired", "failed"}

\* The turn at the head of an overflow has its verdict, and is closed when its run is
\* waited for; so has a turn that its own timer retires.
SealHeads ==
    \A t \in Turn :
        /\ call[t] \in {"mark", "join"} =>
              /\ terminal[Smallest(victims[t])] \in Verdict
              /\ status[Smallest(victims[t])] # "none"
        /\ call[t] = "join" => status[Smallest(victims[t])] = "closed"
RunHeads ==
    \A t \in Turn :
        /\ run[t] \in {"mark", "join", "leave"} =>
              /\ terminal[Smallest(shed[t])] \in Verdict
              /\ status[Smallest(shed[t])] # "none"
        /\ run[t] \in {"join", "leave"} => status[Smallest(shed[t])] = "closed"
Timers ==
    \A t \in Turn : expiry[t] = "publish" => terminal[t] \in Verdict /\ status[t] # "none"

\* A run with a cancellation to come is of a turn that is being cancelled or that was
\* retired; a turn that was closed while its run retires others was retired.
Cuts ==
    \A t \in Turn :
        /\ run[t] \in {"mark", "join"} /\ t \notin killed /\ ~Open(t) => terminal[t] \in Verdict
        /\ run[t] = "dead" => terminal[t] # "none"
        /\ t \in killed => \/ Open(t) /\ t \in cancelling
                           \/ status[t] = "closed" /\ terminal[t] \in Verdict
        /\ t \in cancelling => Open(t)

Judged == Course /\ SealHeads /\ RunHeads /\ Timers /\ Cuts

\* A verdict is final.
LEMMA Marks ==
    ASSUME Course, [Next]_vars
    PROVE  \A u \in Turn : \/ terminal'[u] = terminal[u]
                           \/ terminal'[u] \in Verdict
                           \/ terminal[u] = "none" /\ terminal'[u] = "cancelled"
<1> DEFINE Q == \A u \in Turn : \/ terminal'[u] = terminal[u]
                                \/ terminal'[u] \in Verdict
                                \/ terminal[u] = "none" /\ terminal'[u] = "cancelled"
<1>0. UNCHANGED terminal => Q
  OBVIOUS
<1>1. ASSUME NEW v, NEW verdict \in Verdict, Mark(v, verdict) PROVE Q
  BY <1>1 DEF Mark, Course, Types, TypeOK
<1>2. ASSUME NEW t \in Turn, GiveUp(t) PROVE Q
  BY <1>2 DEF GiveUp, Mark, Course, Types, TypeOK
<1>3. "failed" \in Verdict /\ "expired" \in Verdict
  BY DEF Verdict
<1>. HIDE DEF Q
<1>4. ASSUME NEW t \in Turn, NEW W, SealerSheds(t, W) \/ RunSheds(t, W) PROVE Q
  BY <1>0, <1>1, <1>3, <1>4 DEF SealerSheds, RunSheds
<1>5. ASSUME NEW t \in Turn, NEW r, SealDraft(t, r) PROVE Q
  BY <1>0, <1>4, <1>5 DEF SealDraft, Admit, markVars
<1>6. ASSUME UNCHANGED vars PROVE Q
  BY <1>0, <1>6 DEF vars, markVars
<1>7. ASSUME SpeakerStep PROVE Q
  BY <1>0, <1>7, SpeakerKeeps DEF markVars
<1>8. ASSUME NEW t \in Turn, Commit(t) \/ Seal(t) \/ ExpiryFires(t) \/ ExpiryRetires(t) PROVE Q
  <2>1. CASE Commit(t)
    BY <1>0, <1>5, <2>1 DEF Commit, markVars
  <2>2. CASE CommitEnds(t) \/ SealLocked(t)
    BY <1>4, <1>5, <2>2 DEF CommitEnds, SealLocked, Admit
  <2>3. CASE SealerJoins(t)
    BY <1>4, <2>3 DEF SealerJoins
  <2>4. CASE SealerRetires(t) \/ SealerPublishes(t) \/ ExpiryRetires(t)
    BY <1>0, <2>4 DEF SealerRetires, SealerPublishes, ExpiryRetires, markVars
  <2>5. CASE ExpiryFires(t)
    BY <1>0, <1>1, <1>3, <2>5 DEF ExpiryFires
  <2>. QED
    BY <1>8, <2>1, <2>2, <2>3, <2>4, <2>5 DEF Seal
<1>9. ASSUME NEW t \in Turn, Run(t) PROVE Q
  <2>1. CASE RunWakes(t)
    BY <1>0, <1>2, <2>1 DEF RunWakes, markVars
  <2>2. CASE RunGivesUp(t)
    BY <1>4, <2>2 DEF RunGivesUp
  <2>3. CASE RunJoins(t)
    BY <1>0, <1>4, <2>3 DEF RunJoins
  <2>4. CASE RunLeaves(t) \/ RunUnwound(t) \/ \E k \in Child : RunRefused(t, k)
    BY <1>2, <2>4 DEF RunLeaves, RunUnwound, RunRefused
  <2>5. CASE RunCancelled(t)
    BY <1>0, <1>2, <2>5 DEF RunCancelled
  <2>6. CASE RunGranted(t) \/ RunReady(t) \/ RunRetires(t) \/ RunDead(t) \/ RunDrained(t)
    BY <1>0, <2>6 DEF RunGranted, RunReady, RunRetires, RunDead, RunDrained, markVars
  <2>7. CASE \E k \in Child : ExecRetry(t, k) \/ RunPublish(t, k)
    BY <1>0, <2>7 DEF ExecRetry, RunPublish, markVars
  <2>. QED
    BY <1>9, <2>1, <2>2, <2>3, <2>4, <2>5, <2>6, <2>7 DEF Run
<1>10. ASSUME NEW t \in Turn, NEW k \in Child, Provider(t, k) PROVE Q
  BY <1>0, <1>10, ProviderKeeps DEF markVars
<1>11. ASSUME NEW c \in Controller, CtlBegin(c) \/ Control(c) PROVE Q
  BY <1>0, <1>11, ControllerKeeps
<1>. QED
  BY <1>6, <1>7, <1>8, <1>9, <1>10, <1>11, StepCases DEF Q

\* No record and no verdict is taken back.
Lasting ==
    \A u \in Turn : /\ status[u] # "none" => status'[u] # "none"
                    /\ status[u] = "closed" => status'[u] = "closed"
                    /\ terminal[u] \in Verdict => terminal'[u] \in Verdict
                    /\ terminal[u] # "none" => terminal'[u] # "none"

\* A turn's end is final.
LEMMA Closings == ASSUME Course, [Next]_vars PROVE Lasting
<1>1. \A u \in Turn : /\ status[u] # "none" => status'[u] # "none"
                      /\ status[u] = "closed" => status'[u] = "closed"
  <2>1. ASSUME NEW v \in Turn, NEW S, NEW kind, Open(v), Settle(v, S, kind), NEW u \in Turn
        PROVE  /\ status[u] # "none" => status'[u] # "none"
               /\ status[u] = "closed" => status'[u] = "closed"
    BY <2>1, SettleStatus DEF Course, Open
  <2>2. ASSUME NEW v \in Turn, NEW k \in Child, RunPublish(v, k)
        PROVE  Open(v) /\ Settle(v, {k}, IF op[v][k].st = "good" THEN "translated" ELSE "failed")
    BY <2>2 DEF RunPublish, At, Course, Courses
  <2>. QED
    BY <2>1, <2>2, Settles
<1>2. \A u \in Turn : /\ terminal[u] \in Verdict => terminal'[u] \in Verdict
                      /\ terminal[u] # "none" => terminal'[u] # "none"
  BY Marks DEF Verdict
<1>. QED
  BY <1>1, <1>2 DEF Lasting

\* What waits is open.
LEMMA WaitingOpen ==
    ASSUME NEW W, W \subseteq {u \in Turn : status[u] # "none"}
    PROVE  /\ Oldest(W) \subseteq {u \in Turn : status[u] # "none"}
           /\ Waiting \subseteq {u \in Turn : status[u] # "none"}
BY DEF Oldest, Waiting, Open

\* A new overflow has its first verdict.
LEMMA ShedHeads ==
    ASSUME Types, Lasting, SealHeads, NEW t \in Turn,
           NEW W, W \subseteq {u \in Turn : status[u] # "none"}, SealerSheds(t, W)
    PROVE  SealHeads'
<1>0. W \in SUBSET Turn
  OBVIOUS
<1>1. /\ victims'[t] = W /\ call'[t] = IF W = {} THEN "publish" ELSE "mark"
      /\ \A u \in Turn : u # t => victims'[u] = victims[u] /\ call'[u] = call[u]
  BY DEF SealerSheds, Types, TypeOK
<1>2. ASSUME W # {}
      PROVE  terminal'[Smallest(W)] \in Verdict /\ status'[Smallest(W)] # "none"
  <2>1. Smallest(W) \in W
    BY <1>0, <1>2, SmallestOf
  <2>2. terminal'[Smallest(W)] = "failed"
    BY <1>2, <2>1 DEF SealerSheds, Mark, Types, TypeOK
  <2>. QED
    BY <2>1, <2>2 DEF Lasting, Verdict
<1>3. ASSUME NEW u \in Turn, u # t, call[u] \in {"mark", "join"} PROVE Smallest(victims[u]) \in Turn
  BY <1>3, SmallestOf DEF Types, TypeOK, Lists
<1>. QED
  BY <1>1, <1>2, <1>3 DEF SealHeads, Lasting

\* The verdicts on the overflow of the sealers.
LEMMA SealHeadsNext == ASSUME Judged, [Next]_vars PROVE SealHeads'
<1>0. Lasting /\ Course /\ Types /\ SealHeads
  BY Closings DEF Judged, Course
<1>1. ASSUME UNCHANGED <<call, victims>> PROVE SealHeads'
  <2>1. ASSUME NEW u \in Turn, call[u] \in {"mark", "join"} PROVE Smallest(victims[u]) \in Turn
    BY <1>0, <2>1, SmallestOf DEF Types, TypeOK, Lists
  <2>. QED
    BY <1>0, <1>1, <2>1 DEF SealHeads, Lasting
<1>2. ASSUME NEW t \in Turn, NEW r, Admit(t, r), status[t] # "none" PROVE SealHeads'
  <2>1. /\ Waiting \ {t} \subseteq {u \in Turn : status[u] # "none"}
        /\ Waiting \cup {t} \subseteq {u \in Turn : status[u] # "none"}
    BY <1>2 DEF Waiting, Open
  <2>2. PICK W : SealerSheds(t, W) /\ W \subseteq {u \in Turn : status[u] # "none"}
    BY <1>2, <2>1, WaitingOpen DEF Admit
  <2>. QED
    BY <1>0, <2>2, ShedHeads
<1>3. ASSUME NEW t \in Turn, UNCHANGED victims,
             NEW c \in {"commit", "lock", "publish", "done"}, call' = [call EXCEPT ![t] = c]
      PROVE  SealHeads'
  <2>1. call'[t] = c /\ \A u \in Turn : u # t => call'[u] = call[u]
    BY <1>0, <1>3 DEF Types, TypeOK
  <2>2. ASSUME NEW u \in Turn, call[u] \in {"mark", "join"} PROVE Smallest(victims[u]) \in Turn
    BY <1>0, <2>2, SmallestOf DEF Types, TypeOK, Lists
  <2>. QED
    BY <1>0, <1>3, <2>1, <2>2 DEF SealHeads, Lasting
<1>4. ASSUME NEW t \in Turn, NEW r, SealDraft(t, r) PROVE SealHeads'
  BY <1>2, <1>3, <1>4 DEF SealDraft, Open
<1>5. ASSUME NEW t \in Turn, Commit(t) \/ Seal(t) PROVE SealHeads'
  <2>1. CASE Commit(t) \/ CommitEnds(t)
    BY <1>3, <1>4, <2>1 DEF Commit, CommitEnds
  <2>2. CASE SealLocked(t)
    BY <1>0, <1>2, <2>2 DEF SealLocked, Course, Courses
  <2>3. CASE SealerRetires(t)
    <3>1. Smallest(victims[t]) \in Turn /\ call[t] = "mark"
      BY <1>0, <2>3, SmallestOf DEF SealerRetires, Types, TypeOK, Lists
    <3>2. PICK v \in Turn : v = Smallest(victims[t]) /\ Retire(v, NoTurn)
      BY <2>3, <3>1 DEF SealerRetires
    <3>3. status'[v] = "closed"
      BY <1>0, <3>1, <3>2, RetireStatus DEF SealHeads, Types, TypeOK, Open
    <3>4. /\ call'[t] = "join" /\ victims' = victims
          /\ \A u \in Turn : u # t => call'[u] = call[u]
      BY <1>0, <2>3 DEF SealerRetires, Types, TypeOK
    <3>5. ASSUME NEW u \in Turn, call[u] \in {"mark", "join"} PROVE Smallest(victims[u]) \in Turn
      BY <1>0, <3>5, SmallestOf DEF Types, TypeOK, Lists
    <3>. QED
      BY <1>0, <3>1, <3>2, <3>3, <3>4, <3>5 DEF SealHeads, Lasting
  <2>4. CASE SealerJoins(t)
    <3>1. {u \in victims[t] \ {Smallest(victims[t])} : Retirable(u)} \subseteq {u \in Turn : status[u] # "none"}
      BY <1>0 DEF Types, TypeOK, Retirable, Open
    <3>. QED
      BY <1>0, <2>4, <3>1, ShedHeads DEF SealerJoins
  <2>5. CASE SealerPublishes(t)
    BY <1>3, <2>5 DEF SealerPublishes
  <2>. QED
    BY <1>5, <2>1, <2>2, <2>3, <2>4, <2>5 DEF Seal
<1>6. ASSUME NEW t \in Turn, ExpiryFires(t) \/ ExpiryRetires(t) \/ Run(t) PROVE SealHeads'
  BY <1>1, <1>6, TimerKeeps, RunKeeps DEF callVars
<1>7. ASSUME NEW t \in Turn, NEW k \in Child, Provider(t, k) PROVE SealHeads'
  BY <1>1, <1>7, ProviderKeeps DEF callVars
<1>8. ASSUME NEW c \in Controller, CtlBegin(c) \/ Control(c) PROVE SealHeads'
  BY <1>1, <1>8, ControllerKeeps DEF callVars
<1>9. ASSUME UNCHANGED vars \/ SpeakerStep PROVE SealHeads'
  BY <1>1, <1>9, SpeakerKeeps DEF vars, callVars
<1>. QED
  BY <1>5, <1>6, <1>7, <1>8, <1>9, StepCases

\* A run's overflow has its first verdict.
LEMMA RunShedHeads ==
    ASSUME Types, Lasting, RunHeads, NEW t \in Turn, status[t] # "none",
           NEW W, W \subseteq {u \in Turn : status[u] # "none"}, RunSheds(t, W)
    PROVE  RunHeads'
<1>1. ASSUME NEW S, S \subseteq {u \in Turn : status[u] # "none"}, S # {},
             shed' = [shed EXCEPT ![t] = S], Goto(t, "mark"),
             NEW verdict \in Verdict, Mark(Smallest(S), verdict)
      PROVE  RunHeads'
  <2>0. S \in SUBSET Turn
    BY <1>1
  <2>1. Smallest(S) \in S
    BY <1>1, <2>0, SmallestOf
  <2>2. terminal'[Smallest(S)] \in Verdict /\ status'[Smallest(S)] # "none"
    BY <1>1, <2>1 DEF Mark, Types, TypeOK, Lasting
  <2>3. /\ shed'[t] = S /\ run'[t] = "mark"
        /\ \A u \in Turn : u # t => shed'[u] = shed[u] /\ run'[u] = run[u]
    BY <1>1 DEF Types, TypeOK, Goto
  <2>4. ASSUME NEW u \in Turn, run[u] \in {"mark", "join", "leave"} PROVE Smallest(shed[u]) \in Turn
    BY <2>4, SmallestOf DEF Types, TypeOK, Lists
  <2>. QED
    BY <2>2, <2>3, <2>4 DEF RunHeads, Lasting
<1>2. ASSUME shed' = [shed EXCEPT ![t] = {}], Goto(t, "race") PROVE RunHeads'
  <2>1. /\ run'[t] = "race"
        /\ \A u \in Turn : u # t => shed'[u] = shed[u] /\ run'[u] = run[u]
    BY <1>2 DEF Types, TypeOK, Goto
  <2>2. ASSUME NEW u \in Turn, run[u] \in {"mark", "join", "leave"} PROVE Smallest(shed[u]) \in Turn
    BY <2>2, SmallestOf DEF Types, TypeOK, Lists
  <2>. QED
    BY <2>1, <2>2 DEF RunHeads, Lasting
<1>3. Smallest({t}) = t
  BY SmallestOf
<1>4. "failed" \in Verdict /\ "expired" \in Verdict
  BY DEF Verdict
<1>5. CASE /\ W # {} /\ shed' = [shed EXCEPT ![t] = W]
           /\ Mark(Smallest(W), "failed") /\ Goto(t, "mark")
  BY <1>1, <1>4, <1>5
<1>6. CASE shed' = [shed EXCEPT ![t] = {t}] /\ Mark(t, "expired") /\ Goto(t, "mark")
  BY <1>1, <1>3, <1>4, <1>6
<1>. QED
  BY <1>2, <1>5, <1>6 DEF RunSheds

\* The verdicts on the overflow of the runs.
LEMMA RunHeadsNext == ASSUME Judged, [Next]_vars PROVE RunHeads'
<1>0. Lasting /\ Course /\ Types /\ RunHeads /\ Courses
  BY Closings DEF Judged, Course
<1> DEFINE Q == \A u \in Turn :
                   \/ run'[u] \notin {"mark", "join", "leave"}
                   \/ shed'[u] = shed[u] /\ (run'[u] = run[u] \/ run[u] \in {"join", "leave"})
<1>1. ASSUME Q PROVE RunHeads'
  <2>1. ASSUME NEW u \in Turn, run[u] \in {"mark", "join", "leave"} PROVE Smallest(shed[u]) \in Turn
    BY <1>0, <2>1, SmallestOf DEF Types, TypeOK, Lists
  <2>. QED
    BY <1>0, <1>1, <2>1 DEF RunHeads, Lasting
<1>2. UNCHANGED <<run, shed>> => Q
  OBVIOUS
<1>3. ASSUME NEW t \in Turn, NEW r \in {"wait", "exec", "dead", "slot", "race", "drain", "done", "unwind"},
             Goto(t, r), shed' = shed \/ shed' = [shed EXCEPT ![t] = {}]
      PROVE  Q
  BY <1>0, <1>3 DEF Goto, Types, TypeOK
<1>4. ASSUME NEW t \in Turn, NEW compatible, Revision(t, compatible), shed' = shed PROVE Q
  BY <1>2, <1>3, <1>4 DEF Revision, Goto
<1>. HIDE DEF Q
<1>5. ASSUME UNCHANGED vars \/ SpeakerStep PROVE Q
  <2>1. CASE Speak
    <3>1. next \in Turn
      BY <1>0, <2>1, SizeAssumption DEF Speak, Types, TypeOK, Turn
    <3>. QED
      BY <1>2, <1>4, <2>1, <3>1 DEF Speak
  <2>2. ASSUME NEW t \in Turn, Revise(t) PROVE Q
    BY <1>4, <2>2 DEF Revise
  <2>3. ASSUME NEW t \in Turn, Revised(t) \/ Prestart(t) \/ Superseded(t) PROVE Q
    BY <1>2, <2>3 DEF Revised, Prestart, Superseded, runVars
  <2>4. CASE ManualBegins \/ ManualEnds \/ OpenIngress \/ Rest \/ UNCHANGED vars
    BY <1>2, <2>4 DEF ManualBegins, ManualEnds, OpenIngress, Rest, vars, runVars
  <2>. QED
    BY <1>5, <2>1, <2>2, <2>3, <2>4 DEF SpeakerStep
<1>6. ASSUME NEW t \in Turn, Commit(t) \/ Seal(t) \/ ExpiryFires(t) \/ ExpiryRetires(t) PROVE Q
  BY <1>2, <1>4, <1>6, SealKeeps, TimerKeeps DEF Commit
<1>7. ASSUME NEW t \in Turn, Run(t) PROVE Q \/ RunHeads'
  <2>1. CASE RunWakes(t)
    BY <1>3, <2>1 DEF RunWakes, GiveUp, Execute
  <2>2. CASE RunGranted(t) \/ RunReady(t)
    BY <1>3, <2>2 DEF RunGranted, RunReady, Execute
  <2>3. CASE RunGivesUp(t)
    <3>1. status[t] # "none"
      BY <1>0, <2>3 DEF RunGivesUp, At, Courses
    <3>2. Waiting \cup {t} \subseteq {u \in Turn : status[u] # "none"}
      BY <3>1 DEF Waiting, Open
    <3>3. PICK W : RunSheds(t, W) /\ W \subseteq {u \in Turn : status[u] # "none"}
      BY <2>3, <3>2, WaitingOpen DEF RunGivesUp
    <3>. QED
      BY <1>0, <3>1, <3>3, RunShedHeads
  <2>4. CASE RunRetires(t)
    <3>1. Smallest(shed[t]) \in Turn /\ run[t] = "mark"
      BY <1>0, <2>4, SmallestOf DEF RunRetires, At, Types, TypeOK, Lists
    <3>2. PICK v \in Turn : v = Smallest(shed[t]) /\ Retire(v, t)
      BY <2>4, <3>1 DEF RunRetires
    <3>3. status'[v] = "closed"
      BY <1>0, <3>1, <3>2, RetireStatus DEF RunHeads, Types, TypeOK, Open
    <3>4. /\ run'[t] = "join" /\ shed' = shed
          /\ \A u \in Turn : u # t => run'[u] = run[u]
      BY <1>0, <2>4 DEF RunRetires, Goto, Types, TypeOK
    <3>5. ASSUME NEW u \in Turn, run[u] \in {"mark", "join", "leave"} PROVE Smallest(shed[u]) \in Turn
      BY <1>0, <3>5, SmallestOf DEF Types, TypeOK, Lists
    <3>. QED
      BY <1>0, <3>1, <3>2, <3>3, <3>4, <3>5 DEF RunHeads, Lasting
  <2>5. CASE RunJoins(t)
    <3>1. status[t] # "none"
      BY <1>0, <2>5 DEF RunJoins, At, Courses
    <3>2. {u \in shed[t] \ {Smallest(shed[t])} : Retirable(u)} \subseteq {u \in Turn : status[u] # "none"}
      BY <1>0 DEF Types, TypeOK, Retirable, Open
    <3>3. CASE RunSheds(t, {u \in shed[t] \ {Smallest(shed[t])} : Retirable(u)})
      BY <1>0, <3>1, <3>2, <3>3, RunShedHeads
    <3>4. CASE ~RunSheds(t, {u \in shed[t] \ {Smallest(shed[t])} : Retirable(u)})
      BY <1>3, <2>5, <3>4 DEF RunJoins, Execute
    <3>. QED
      BY <3>3, <3>4
  <2>6. CASE RunCancelled(t)
    <3>1. CASE run' = run /\ shed' = shed
      BY <1>2, <3>1
    <3>2. CASE Goto(t, "leave") /\ run[t] = "join" /\ shed' = shed
      BY <1>0, <3>2 DEF Goto, Types, TypeOK, Q
    <3>3. CASE \/ GiveUp(t) /\ shed' = [shed EXCEPT ![t] = {}]
               \/ Goto(t, "unwind") /\ shed' = shed
               \/ Goto(t, "drain") /\ shed' = shed
      BY <1>3, <3>3 DEF GiveUp
    <3>. QED
      BY <2>6, <3>1, <3>2, <3>3 DEF RunCancelled, Joins
  <2>7. CASE RunLeaves(t) \/ RunUnwound(t) \/ RunDead(t) \/ RunDrained(t) \/ \E k \in Child : RunRefused(t, k)
    BY <1>3, <2>7 DEF RunLeaves, RunUnwound, RunDead, RunDrained, RunRefused, GiveUp
  <2>8. ASSUME NEW k \in Child, ExecRetry(t, k) \/ RunPublish(t, k) PROVE Q
    BY <1>2, <1>3, <2>8 DEF ExecRetry, RunPublish, runVars, Goto
  <2>. QED
    BY <1>7, <2>1, <2>2, <2>3, <2>4, <2>5, <2>6, <2>7, <2>8 DEF Run
<1>8. ASSUME NEW t \in Turn, NEW k \in Child, Provider(t, k) PROVE Q
  BY <1>2, <1>8, ProviderKeeps DEF runVars
<1>9. ASSUME NEW c \in Controller, CtlBegin(c) \/ Control(c) PROVE Q
  BY <1>2, <1>9, ControllerKeeps
<1>. QED
  BY <1>1, <1>5, <1>6, <1>7, <1>8, <1>9, StepCases

\* A timer that retires its turn has just given its verdict.
LEMMA TimersNext == ASSUME Judged, [Next]_vars PROVE Timers'
<1>0. Lasting /\ Course /\ Types /\ Timers
  BY Closings DEF Judged, Course
<1> DEFINE Q == \A u \in Turn : expiry'[u] = "publish" => expiry[u] = "publish"
<1>1. ASSUME Q PROVE Timers'
  BY <1>0, <1>1 DEF Timers, Lasting
<1>2. UNCHANGED expiry => Q
  OBVIOUS
<1>3. ASSUME NEW t, NEW e \in {"none", "sleep", "done"}, expiry' = [expiry EXCEPT ![t] = e] PROVE Q
  BY <1>0, <1>3 DEF Types, TypeOK
<1>4. ASSUME NEW t \in Turn, Execute(t) PROVE Q
  BY <1>0, <1>4 DEF Execute, MarkStarted, EndTimer, Types, TypeOK
<1>5. ASSUME NEW t \in Turn, NEW S, NEW kind, Settle(t, S, kind) PROVE Q
  BY <1>0, <1>5 DEF Settle, EndTimer, Types, TypeOK
<1>. HIDE DEF Q
<1>6. ASSUME NEW t, NEW self, Retire(t, self), t \in Turn PROVE Q
  BY <1>2, <1>5, <1>6 DEF Retire
<1>7. ASSUME NEW t \in Turn, NEW r, Admit(t, r) \/ SealDraft(t, r) PROVE Q
  <2>1. Admit(t, r) => Q
    BY <1>2, <1>3 DEF Admit
  <2>. QED
    BY <1>2, <1>7, <2>1 DEF SealDraft, markVars
<1>8. ASSUME UNCHANGED vars \/ SpeakerStep PROVE Q
  BY <1>2, <1>8, SpeakerKeeps DEF vars, markVars
<1>9. ASSUME NEW t \in Turn, Commit(t) \/ Seal(t) \/ ExpiryRetires(t) PROVE Q
  <2>1. CASE Commit(t) \/ CommitEnds(t) \/ SealLocked(t)
    BY <1>2, <1>7, <2>1 DEF Commit, CommitEnds, SealLocked, markVars
  <2>2. CASE SealerRetires(t)
    <3>1. Smallest(victims[t]) \in Turn
      BY <1>0, <2>2, SmallestOf DEF SealerRetires, Types, TypeOK, Lists
    <3>. QED
      BY <1>6, <2>2, <3>1 DEF SealerRetires
  <2>3. CASE SealerJoins(t) \/ SealerPublishes(t)
    BY <1>2, <2>3 DEF SealerJoins, SealerPublishes, markVars
  <2>4. CASE ExpiryRetires(t)
    BY <1>6, <2>4 DEF ExpiryRetires
  <2>. QED
    BY <1>9, <2>1, <2>2, <2>3, <2>4 DEF Seal
<1>10. ASSUME NEW t \in Turn, ExpiryFires(t) PROVE Timers'
  <2>1. CASE expiry' = [expiry EXCEPT ![t] = "done"]
    BY <1>1, <1>3, <2>1
  <2>2. CASE Retirable(t) /\ Mark(t, "expired") /\ expiry' = [expiry EXCEPT ![t] = "publish"]
    <3>1. /\ terminal'[t] \in Verdict /\ status[t] # "none"
          /\ \A u \in Turn : u # t => expiry'[u] = expiry[u]
      BY <1>0, <2>2 DEF Retirable, Open, Mark, Verdict, Types, TypeOK
    <3>. QED
      BY <1>0, <3>1 DEF Timers, Lasting
  <2>. QED
    BY <1>10, <2>1, <2>2 DEF ExpiryFires
<1>11. ASSUME NEW t \in Turn, Run(t) PROVE Q
  <2>1. CASE RunWakes(t) \/ RunGranted(t) \/ RunReady(t)
    BY <1>2, <1>4, <2>1 DEF RunWakes, RunGranted, RunReady, markVars
  <2>2. CASE RunGivesUp(t) \/ RunJoins(t)
    <3>1. ASSUME NEW W, RunSheds(t, W) PROVE Q
      BY <1>2, <1>3, <3>1 DEF RunSheds
    <3>. QED
      BY <1>2, <1>4, <2>2, <3>1 DEF RunGivesUp, RunJoins
  <2>3. CASE RunRetires(t)
    <3>1. Smallest(shed[t]) \in Turn
      BY <1>0, <2>3, SmallestOf DEF RunRetires, At, Types, TypeOK, Lists
    <3>. QED
      BY <1>6, <2>3, <3>1 DEF RunRetires
  <2>4. CASE RunCancelled(t) \/ RunLeaves(t) \/ RunUnwound(t) \/ RunDrained(t)
             \/ \E k \in Child : ExecRetry(t, k) \/ RunRefused(t, k)
    BY <1>2, <2>4 DEF RunCancelled, RunLeaves, RunUnwound, RunDrained, ExecRetry, RunRefused, markVars
  <2>5. CASE RunDead(t) \/ \E k \in Child : RunPublish(t, k)
    BY <1>2, <1>5, <2>5 DEF RunDead, RunPublish
  <2>. QED
    BY <1>11, <2>1, <2>2, <2>3, <2>4, <2>5 DEF Run
<1>12. ASSUME NEW t \in Turn, NEW k \in Child, Provider(t, k) PROVE Q
  BY <1>2, <1>12, ProviderKeeps DEF markVars
<1>13. ASSUME NEW c \in Controller, CtlBegin(c) \/ Control(c) PROVE Q
  <2>1. CASE CtlBegin(c) \/ CtlSelect(c) \/ CtlReturn(c) \/ CtlClear(c)
    BY <1>2, <2>1 DEF CtlBegin, CtlSelect, CtlReturn, CtlClear, markVars
  <2>2. ASSUME NEW t \in Turn, CtlSettle(c, t) PROVE Q
    BY <1>5, <2>2 DEF CtlSettle
  <2>. QED
    BY <1>13, <2>1, <2>2 DEF Control
<1>. QED
  BY <1>1, <1>8, <1>9, <1>10, <1>11, <1>12, <1>13, StepCases

\* A step that closes no turn and takes no cancellation back.
Careful ==
    \A u \in Turn :
        /\ status'[u] = status[u] \/ (status[u] = "none" /\ status'[u] = "open")
        /\ u \in cancelling' => u \in cancelling \/ Open(u)
        /\ u \in cancelling => u \in cancelling'
        /\ u \in killed' => \/ u \in killed
                            \/ Open(u) /\ u \in cancelling'
                            \/ status[u] = "closed" /\ terminal[u] \in Verdict
        /\ run'[u] \in {"mark", "join"} => \/ Open(u)
                                           \/ u \in killed'
                                           \/ run[u] \in {"mark", "join"} /\ u \notin killed
        /\ run'[u] = "dead" => run[u] = "dead" \/ terminal'[u] # "none"

\* Such a step keeps the cuts.
LEMMA CutStep == ASSUME Judged, Lasting, Careful PROVE Cuts'
<1> SUFFICES ASSUME NEW u \in Turn
             PROVE  /\ run'[u] \in {"mark", "join"} /\ u \notin killed' /\ ~Open(u)' =>
                          terminal'[u] \in Verdict
                    /\ run'[u] = "dead" => terminal'[u] # "none"
                    /\ u \in killed' => \/ Open(u)' /\ u \in cancelling'
                                        \/ status'[u] = "closed" /\ terminal'[u] \in Verdict
                    /\ u \in cancelling' => Open(u)'
  BY DEF Cuts
<1>0. /\ status'[u] = status[u] \/ (status[u] = "none" /\ status'[u] = "open")
      /\ u \in cancelling' => u \in cancelling \/ Open(u)
      /\ u \in cancelling => u \in cancelling'
      /\ u \in killed' => \/ u \in killed
                          \/ Open(u) /\ u \in cancelling'
                          \/ status[u] = "closed" /\ terminal[u] \in Verdict
      /\ run'[u] \in {"mark", "join"} => \/ Open(u)
                                         \/ u \in killed'
                                         \/ run[u] \in {"mark", "join"} /\ u \notin killed
      /\ run'[u] = "dead" => run[u] = "dead" \/ terminal'[u] # "none"
  BY DEF Careful
<1>1. Open(u) => Open(u)'
  BY <1>0 DEF Open
<1>2. /\ run[u] \in {"mark", "join"} /\ u \notin killed /\ ~Open(u) => terminal[u] \in Verdict
      /\ run[u] = "dead" => terminal[u] # "none"
      /\ u \in killed => \/ Open(u) /\ u \in cancelling
                         \/ status[u] = "closed" /\ terminal[u] \in Verdict
      /\ u \in cancelling => Open(u)
  BY DEF Judged, Cuts
<1>3. /\ status[u] = "closed" => status'[u] = "closed"
      /\ terminal[u] \in Verdict => terminal'[u] \in Verdict
      /\ terminal[u] # "none" => terminal'[u] # "none"
  BY DEF Lasting
<1>4. run'[u] \in {"mark", "join"} /\ u \notin killed' /\ ~Open(u)' => terminal'[u] \in Verdict
  BY <1>0, <1>1, <1>2, <1>3
<1>5. run'[u] = "dead" => terminal'[u] # "none"
  BY <1>0, <1>2, <1>3
<1>6. u \in killed' => \/ Open(u)' /\ u \in cancelling'
                       \/ status'[u] = "closed" /\ terminal'[u] \in Verdict
  BY <1>0, <1>1, <1>2, <1>3
<1>7. u \in cancelling' => Open(u)'
  BY <1>0, <1>1, <1>2
<1>. QED
  BY <1>4, <1>5, <1>6, <1>7

\* A step that settles children of a turn, all that are left perhaps.
LEMMA CutClose ==
    ASSUME Judged, Lasting, NEW v \in Turn, NEW S, NEW kind, Open(v), Settle(v, S, kind),
           \A u \in Turn : u # v => (u \in killed' <=> u \in killed),
           \A u \in Turn : run'[u] \in {"mark", "join"} => run[u] \in {"mark", "join"},
           \A u \in Turn : run'[u] = "dead" => run[u] = "dead",
           IF Closes(v, S) THEN terminal[v] \in Verdict \/ (v \notin killed' /\ run[v] \notin {"mark", "join"})
                           ELSE v \in killed' <=> v \in killed
    PROVE  Cuts'
<1>1. /\ \A u \in Turn : u # v => status'[u] = status[u]
      /\ status'[v] = IF Closes(v, S) THEN "closed" ELSE "open"
  BY SettleStatus DEF Judged, Course
<1>2. \A u \in Turn : u \in cancelling' <=> u \in cancelling /\ ~(u = v /\ Closes(v, S))
  BY DEF Settle
<1>. SUFFICES ASSUME NEW u \in Turn
              PROVE  /\ run'[u] \in {"mark", "join"} /\ u \notin killed' /\ ~Open(u)' =>
                           terminal'[u] \in Verdict
                     /\ run'[u] = "dead" => terminal'[u] # "none"
                     /\ u \in killed' => \/ Open(u)' /\ u \in cancelling'
                                         \/ status'[u] = "closed" /\ terminal'[u] \in Verdict
                     /\ u \in cancelling' => Open(u)'
  BY DEF Cuts
<1>3. /\ run[u] \in {"mark", "join"} /\ u \notin killed /\ ~Open(u) => terminal[u] \in Verdict
      /\ run[u] = "dead" => terminal[u] # "none"
      /\ u \in killed => \/ Open(u) /\ u \in cancelling
                         \/ status[u] = "closed" /\ terminal[u] \in Verdict
      /\ u \in cancelling => Open(u)
  BY DEF Judged, Cuts
<1>4. /\ status[u] = "closed" => status'[u] = "closed"
      /\ terminal[u] \in Verdict => terminal'[u] \in Verdict
      /\ terminal[u] # "none" => terminal'[u] # "none"
  BY DEF Lasting
<1>5. CASE u = v /\ Closes(v, S)
  BY <1>1, <1>2, <1>3, <1>4, <1>5 DEF Open
<1>6. CASE ~(u = v /\ Closes(v, S))
  BY <1>1, <1>2, <1>3, <1>4, <1>6 DEF Open
<1>. QED
  BY <1>5, <1>6

\* Turns are retired with a verdict, and cancelled openly.
LEMMA CutsNext == ASSUME Judged, [Next]_vars PROVE Cuts'
<1>0. Lasting /\ Course /\ Types /\ Courses /\ Cuts
  BY Closings DEF Judged, Course
<1>1. ASSUME UNCHANGED <<status, cancelling, run, killed>> PROVE Cuts'
  <2>1. Careful
    BY <1>0, <1>1 DEF Careful
  <2>. QED
    BY <1>0, <2>1, CutStep
<1>2. ASSUME NEW t \in Turn, NEW compatible, Revision(t, compatible), UNCHANGED <<cancelling, killed>>
      PROVE  Cuts'
  <2>1. \A u \in Turn : status'[u] = status[u] \/ (status[u] = "none" /\ status'[u] = "open")
    BY <1>0, <1>2 DEF Revision, Refused, Types, TypeOK
  <2>2. \A u \in Turn : run'[u] = run[u] \/ run'[u] = "wait"
    BY <1>0, <1>2 DEF Revision, Types, TypeOK
  <2>. QED
    <3>1. Careful
      BY <1>0, <1>2, <2>1, <2>2 DEF Careful
    <3>. QED
      BY <1>0, <3>1, CutStep
<1>3. ASSUME NEW v \in Turn, NEW self, Retire(v, self), terminal[v] \in Verdict, status[v] # "none",
             \A u \in Turn : run'[u] \in {"mark", "join"} => run[u] \in {"mark", "join"},
             \A u \in Turn : run'[u] = "dead" => run[u] = "dead"
      PROVE  Cuts'
  <2>1. \A u \in Turn : u # v => (u \in killed' <=> u \in killed)
    BY <1>3 DEF Retire
  <2>2. CASE Open(v)
    <3>1. Closes(v, Remaining(v))
      BY <1>0, <1>3, <2>2, SettleStatus DEF Retire
    <3>. QED
      BY <1>0, <1>3, <2>1, <2>2, <3>1, CutClose DEF Retire
  <2>3. CASE ~Open(v)
    <3>1. UNCHANGED <<status, cancelling>> /\ status[v] = "closed"
      BY <1>0, <1>3, <2>3 DEF Retire, endVars, Open, Types, TypeOK
    <3>2. \A u \in killed : u \in killed'
      BY <1>3 DEF Retire
    <3>. QED
      <4>1. Careful
        BY <1>0, <1>3, <2>1, <3>1, <3>2 DEF Careful
      <4>. QED
        BY <1>0, <4>1, CutStep
  <2>. QED
    BY <2>2, <2>3
<1>4. ASSUME UNCHANGED vars \/ SpeakerStep PROVE Cuts'
  <2>1. CASE Speak
    <3>1. next \in Turn
      BY <1>0, <2>1, SizeAssumption DEF Speak, Types, TypeOK, Turn
    <3>. QED
      BY <1>1, <1>2, <2>1, <3>1 DEF Speak
  <2>2. ASSUME NEW t \in Turn, Revise(t) PROVE Cuts'
    BY <1>2, <2>2 DEF Revise
  <2>3. ASSUME NEW t \in Turn, Revised(t) \/ Prestart(t) \/ Superseded(t) PROVE Cuts'
    BY <1>1, <2>3 DEF Revised, Prestart, Superseded, runVars, endVars
  <2>4. CASE ManualBegins \/ ManualEnds \/ OpenIngress \/ Rest \/ UNCHANGED vars
    BY <1>1, <2>4 DEF ManualBegins, ManualEnds, OpenIngress, Rest, vars, runVars, endVars
  <2>. QED
    BY <1>4, <2>1, <2>2, <2>3, <2>4 DEF SpeakerStep
<1>5. ASSUME NEW t \in Turn, Commit(t) \/ Seal(t) \/ ExpiryFires(t) \/ ExpiryRetires(t) PROVE Cuts'
  <2>1. CASE Commit(t)
    BY <1>1, <1>2, <2>1 DEF Commit
  <2>2. CASE CommitEnds(t) \/ SealLocked(t) \/ SealerJoins(t) \/ SealerPublishes(t) \/ ExpiryFires(t)
    BY <1>1, <2>2 DEF CommitEnds, SealLocked, SealerJoins, SealerPublishes, ExpiryFires, runVars, endVars
  <2>3. CASE SealerRetires(t)
    <3>1. /\ Smallest(victims[t]) \in Turn /\ terminal[Smallest(victims[t])] \in Verdict
          /\ status[Smallest(victims[t])] # "none"
      BY <1>0, <2>3, SmallestOf DEF SealerRetires, Types, TypeOK, Lists, Judged, SealHeads
    <3>2. Retire(Smallest(victims[t]), NoTurn) /\ run' = run
      BY <2>3 DEF SealerRetires
    <3>. QED
      BY <1>3, <3>1, <3>2
  <2>4. CASE ExpiryRetires(t)
    <3>1. terminal[t] \in Verdict /\ status[t] # "none"
      BY <2>4 DEF ExpiryRetires, Judged, Timers
    <3>. QED
      BY <1>3, <2>4, <3>1 DEF ExpiryRetires
  <2>. QED
    BY <1>5, <2>1, <2>2, <2>3, <2>4 DEF Seal
<1>6. ASSUME NEW t \in Turn, NEW r, run' = [run EXCEPT ![t] = r],
             UNCHANGED <<status, cancelling>>,
             killed' = killed \/ killed' = killed \ {t},
             t \in killed /\ t \notin killed' => r \notin {"mark", "join"},
             r \in {"mark", "join"} => Open(t) \/ (run[t] \in {"mark", "join"} /\ t \notin killed),
             r = "dead" => run[t] = "dead" \/ terminal'[t] # "none"
      PROVE  Cuts'
  <2>1. run'[t] = r /\ \A u \in Turn : u # t => run'[u] = run[u]
    BY <1>0, <1>6 DEF Types, TypeOK
  <2>2. \A u \in Turn : u # t => (u \in killed' <=> u \in killed)
    BY <1>6
  <2>. QED
    <3>1. Careful
      BY <1>0, <1>6, <2>1, <2>2 DEF Careful
    <3>. QED
      BY <1>0, <3>1, CutStep
<1>7. ASSUME NEW t \in Turn, GiveUp(t)
      PROVE  run' = [run EXCEPT ![t] = "dead"] /\ terminal'[t] # "none"
  BY <1>0, <1>7 DEF GiveUp, Goto, Mark, Types, TypeOK
<1>8. ASSUME NEW t \in Turn, Run(t) PROVE Cuts'
  <2>1. CASE RunWakes(t)
    <3>1. PICK r \in {"dead", "exec", "race", "slot"} :
             run' = [run EXCEPT ![t] = r] /\ (r = "dead" => terminal'[t] # "none")
      BY <1>7, <2>1 DEF RunWakes, Execute, Goto
    <3>2. UNCHANGED <<status, cancelling, killed>>
      BY <2>1 DEF RunWakes, endVars
    <3>. QED
      BY <1>6, <3>1, <3>2
  <2>2. CASE RunGranted(t) \/ RunReady(t)
    <3>1. PICK r \in {"exec", "drain"} : run' = [run EXCEPT ![t] = r]
      BY <2>2 DEF RunGranted, RunReady, Execute, Goto
    <3>2. UNCHANGED <<status, cancelling, killed>>
      BY <2>2 DEF RunGranted, RunReady, endVars
    <3>. QED
      BY <1>6, <3>1, <3>2
  <2>3. CASE RunGivesUp(t) \/ RunJoins(t)
    <3>1. PICK r \in {"mark", "race", "exec", "drain"} : run' = [run EXCEPT ![t] = r]
      BY <2>3 DEF RunGivesUp, RunJoins, RunSheds, Execute, Goto
    <3>2. UNCHANGED <<status, cancelling, killed>>
      BY <2>3 DEF RunGivesUp, RunJoins, endVars
    <3>3. t \notin killed /\ (Open(t) \/ run[t] \in {"mark", "join"})
      BY <1>0, <2>3 DEF RunGivesUp, RunJoins, At, Courses
    <3>. QED
      BY <1>6, <3>1, <3>2, <3>3
  <2>4. CASE RunRetires(t)
    <3>1. /\ Smallest(shed[t]) \in Turn /\ terminal[Smallest(shed[t])] \in Verdict
          /\ status[Smallest(shed[t])] # "none" /\ run[t] = "mark"
      BY <1>0, <2>4, SmallestOf DEF RunRetires, At, Types, TypeOK, Lists, Judged, RunHeads
    <3>2. /\ Retire(Smallest(shed[t]), t)
          /\ run'[t] = "join" /\ \A u \in Turn : u # t => run'[u] = run[u]
      BY <1>0, <2>4 DEF RunRetires, Goto, Types, TypeOK
    <3>. QED
      BY <1>3, <3>1, <3>2
  <2>5. CASE RunCancelled(t)
    <3>0. UNCHANGED <<status, cancelling>> /\ t \in killed
      BY <2>5 DEF RunCancelled, endVars
    <3>1. CASE killed' = killed \ {t} /\ run' # run
      <4>1. PICK r \in {"dead", "unwind", "leave", "drain"} :
               run' = [run EXCEPT ![t] = r] /\ (r = "dead" => terminal'[t] # "none")
        BY <1>7, <2>5, <3>1 DEF RunCancelled, Goto
      <4>. QED
        BY <1>6, <3>0, <3>1, <4>1
    <3>2. CASE killed' = killed \ {t} /\ run' = run
      <4>1. run[t] \in {"unwind", "leave"}
        <5>1. ASSUME NEW r, Goto(t, r) PROVE r = run[t]
          BY <1>0, <3>2, <5>1 DEF Goto, Types, TypeOK
        <5>. QED
          BY <2>5, <3>2, <5>1 DEF RunCancelled, GiveUp, Joins
      <4>. QED
        <5>1. Careful
          BY <1>0, <3>0, <3>2, <4>1 DEF Careful
        <5>. QED
          BY <1>0, <5>1, CutStep
    <3>3. ASSUME NEW v \in Turn \ {t}, Joins(t, v),
                 killed' = (killed \ {t}) \cup {u \in {v} : Live(u)}, Goto(t, "leave")
          PROVE  Cuts'
      <4>1. run'[t] = "leave" /\ \A u \in Turn : u # t => run'[u] = run[u]
        BY <1>0, <3>3 DEF Goto, Types, TypeOK
      <4>2. status[v] = "closed" /\ terminal[v] \in Verdict
        BY <3>3 DEF Joins, Judged, RunHeads
      <4>3. \A u \in Turn : u \in killed' => u \in killed \/ u = v
        BY <3>3
      <4>4. \A u \in Turn : u # t /\ u \in killed => u \in killed'
        BY <3>3
      <4>. QED
        <5>1. Careful
          BY <1>0, <3>0, <4>1, <4>2, <4>3, <4>4 DEF Careful
        <5>. QED
          BY <1>0, <5>1, CutStep
    <3>. QED
      BY <2>5, <3>1, <3>2, <3>3 DEF RunCancelled
  <2>6. CASE RunLeaves(t) \/ RunUnwound(t) \/ \E k \in Child : RunRefused(t, k)
    <3>1. GiveUp(t) /\ UNCHANGED <<status, cancelling, killed>>
      BY <2>6 DEF RunLeaves, RunUnwound, RunRefused, endVars
    <3>. QED
      BY <1>6, <1>7, <3>1
  <2>7. CASE RunDead(t)
    <3>1. /\ run[t] = "dead" /\ t \notin killed /\ killed' = killed
          /\ run'[t] = "drain" /\ \A u \in Turn : u # t => run'[u] = run[u]
      BY <1>0, <2>7 DEF RunDead, At, Goto, Types, TypeOK
    <3>2. CASE Open(t)
      BY <1>0, <2>7, <3>1, <3>2, CutClose DEF RunDead
    <3>3. CASE ~Open(t)
      <4>1. Careful
        BY <1>0, <2>7, <3>1, <3>3 DEF Careful, RunDead, endVars
      <4>. QED
        BY <1>0, <4>1, CutStep
    <3>. QED
      BY <3>2, <3>3
  <2>8. CASE RunDrained(t)
    <3>1. UNCHANGED <<status, cancelling>> /\ run' = [run EXCEPT ![t] = "done"] /\ killed' = killed \ {t}
      BY <2>8 DEF RunDrained, Goto, endVars
    <3>. QED
      BY <1>6, <3>1
  <2>9. ASSUME NEW k \in Child, ExecRetry(t, k) PROVE Cuts'
    BY <1>1, <2>9 DEF ExecRetry, runVars, endVars
  <2>10. ASSUME NEW k \in Child, RunPublish(t, k) PROVE Cuts'
    <3>1. /\ run[t] = "exec" /\ t \notin killed /\ killed' = killed /\ Open(t)
          /\ Settle(t, {k}, IF op[t][k].st = "good" THEN "translated" ELSE "failed")
      BY <1>0, <2>10 DEF RunPublish, At, Courses
    <3>2. \A u \in Turn : run'[u] = run[u] \/ run'[u] = "drain"
      BY <1>0, <2>10 DEF RunPublish, Types, TypeOK
    <3>. QED
      BY <1>0, <3>1, <3>2, CutClose
  <2>. QED
    BY <1>8, <2>1, <2>2, <2>3, <2>4, <2>5, <2>6, <2>7, <2>8, <2>9, <2>10 DEF Run
<1>9. ASSUME NEW t \in Turn, NEW k \in Child, Provider(t, k) PROVE Cuts'
  BY <1>1, <1>9, ProviderKeeps DEF runVars, endVars
<1>10. ASSUME NEW c \in Controller, CtlBegin(c) \/ Control(c) PROVE Cuts'
  <2>1. ASSUME NEW kind, Select(c, kind), UNCHANGED <<status, run>> PROVE Cuts'
    <3>1. Careful
      BY <1>0, <2>1 DEF Careful, Select, Selected
    <3>. QED
      BY <1>0, <3>1, CutStep
  <2>2. CASE CtlBegin(c) \/ CtlSelect(c)
    BY <1>1, <2>1, <2>2 DEF CtlBegin, CtlSelect, endVars
  <2>3. CASE CtlReturn(c) \/ CtlClear(c)
    BY <1>1, <2>3 DEF CtlReturn, CtlClear, runVars, endVars
  <2>4. ASSUME NEW t \in Turn, CtlSettle(c, t) PROVE Cuts'
    <3>1. /\ Open(t) /\ run[t] \notin {"mark", "join"} /\ t \notin killed
          /\ UNCHANGED <<run, killed>> /\ Settle(t, Remaining(t), "cancelled")
      BY <1>0, <2>4 DEF CtlSettle, Joined, Courses, Live, runVars
    <3>. QED
      BY <1>0, <3>1, CutClose
  <2>. QED
    BY <1>10, <2>2, <2>3, <2>4 DEF Control
<1>. QED
  BY <1>4, <1>5, <1>8, <1>9, <1>10, StepCases

\* Every step keeps the verdicts.
LEMMA JudgedNext == Judged /\ [Next]_vars => Judged'
BY CourseNext, SealHeadsNext, RunHeadsNext, TimersNext, CutsNext DEF Judged

\* Initially.
LEMMA JudgedInit == Init => Judged
<1> SUFFICES ASSUME Init PROVE Judged
  OBVIOUS
<1>1. SealHeads /\ RunHeads /\ Timers /\ Cuts
  BY DEF Init, SealHeads, RunHeads, Timers, Cuts
<1>. QED
  BY <1>1, CourseInit DEF Judged

-------------------------------------------------------------------------------
(* What a step does to an operation, to a run, and to a commit.            *)

\* The operation of a child goes on: its call ends or is cancelled, it is tried again,
\* or its result is published.
Advanced(u, k) ==
    /\ op'[u][k].epoch = op[u][k].epoch
    /\ \/ op[u][k].st = "run" /\ op'[u][k].st \in {"good", "bad", "gone", "dying"}
       \/ op[u][k].st = "retry" /\ op'[u][k].st \in {"good", "bad"}
       \/ op[u][k].st = "retry" /\ op'[u][k].st = "unwinding" /\ run'[u] = "unwind"
       \/ op[u][k].st \in {"dying", "unwinding"} /\ op'[u][k].st = "gone"
       \/ op[u][k].st \in {"bad", "gone"} /\ op'[u][k].st = "retry" /\ run[u] = "exec" /\ run' = run
       \/ op[u][k].st \in {"good", "bad", "gone"} /\ op'[u][k].st = "told" /\ RunPublish(u, k)

\* The operations of a draft are dropped with the text they were for.
Forgotten(u) ==
    /\ op'[u] = [k \in Child |-> NoOperation]
    /\ call[u] = "none" \/ (call[u] = "commit" /\ UNCHANGED <<run, call>>)
    /\ call'[u] \in {"none", "commit"}

\* One operation of a turn goes on.
Sets(t, k, s) == op' = [op EXCEPT ![t][k].st = s]

\* Nothing else changes then.
LEMMA OpUpdate ==
    ASSUME Types, NEW t \in Turn, NEW k \in Child, NEW s, Sets(t, k, s)
    PROVE  /\ op'[t][k].st = s /\ op'[t][k].epoch = op[t][k].epoch
           /\ \A u \in Turn, j \in Child : u # t \/ j # k => op'[u][j] = op[u][j]
<1>1. op \in [Turn -> [Child -> Operation]]
  BY DEF Types, TypeOK
<1>2. op[t][k] \in Operation
  BY <1>1
<1>3. op'[t] = [op[t] EXCEPT ![k].st = s] /\ \A u \in Turn : u # t => op'[u] = op[u]
  BY <1>1 DEF Sets
<1>4. op'[t][k] = [op[t][k] EXCEPT !.st = s] /\ \A j \in Child : j # k => op'[t][j] = op[t][j]
  BY <1>1, <1>3
<1>5. op'[t][k].st = s /\ op'[t][k].epoch = op[t][k].epoch
  BY <1>2, <1>4 DEF Operation
<1>. QED
  BY <1>3, <1>4, <1>5

\* The calls of a turn are cancelled.
LEMMA CancelledCalls ==
    ASSUME Types, NEW t \in Turn, NEW o,
           \/ o = CancelOperations(op[t])
           \/ o = CancelCalls(op[t]) /\ run'[t] = "unwind",
           op' = [op EXCEPT ![t] = o]
    PROVE  /\ \A u \in Turn, k \in Child : op'[u][k] = op[u][k] \/ Advanced(u, k)
           /\ \A k \in Child : op'[t][k].st # "run"
           /\ o = CancelCalls(op[t]) => \A k \in Child : op'[t][k].st # "retry"
<1>1. op \in [Turn -> [Child -> Operation]]
  BY DEF Types, TypeOK
<1>2. op'[t] = o /\ \A u \in Turn : u # t => op'[u] = op[u]
  BY <1>1
<1>3. ASSUME NEW k \in Child
      PROVE  /\ op'[t][k] = op[t][k] \/ Advanced(t, k)
             /\ op'[t][k].st # "run"
             /\ o = CancelCalls(op[t]) => op'[t][k].st # "retry"
  <2>1. op[t][k] \in Operation
    BY <1>1
  <2>2. /\ [op[t][k] EXCEPT !.st = "dying"].st = "dying"
        /\ [op[t][k] EXCEPT !.st = "dying"].epoch = op[t][k].epoch
        /\ [op[t][k] EXCEPT !.st = "unwinding"].st = "unwinding"
        /\ [op[t][k] EXCEPT !.st = "unwinding"].epoch = op[t][k].epoch
    BY <2>1 DEF Operation
  <2>3. CASE op[t][k].st = "run"
    <3>1. op'[t][k] = [op[t][k] EXCEPT !.st = "dying"]
      BY <1>2, <2>3 DEF CancelOperations, CancelCalls
    <3>. QED
      BY <2>2, <2>3, <3>1 DEF Advanced
  <2>4. CASE op[t][k].st = "retry"
    <3>1. \/ o = CancelOperations(op[t]) /\ op'[t][k] = op[t][k]
          \/ op'[t][k] = [op[t][k] EXCEPT !.st = "unwinding"] /\ run'[t] = "unwind"
      BY <1>2, <2>4 DEF CancelOperations, CancelCalls
    <3>2. CASE op'[t][k] = [op[t][k] EXCEPT !.st = "unwinding"] /\ run'[t] = "unwind"
      BY <2>2, <2>4, <3>2 DEF Advanced
    <3>3. CASE o = CancelOperations(op[t]) /\ op'[t][k] = op[t][k]
      <4>1. o = CancelCalls(op[t]) => op'[t][k] = [op[t][k] EXCEPT !.st = "unwinding"]
        BY <1>2, <2>4 DEF CancelCalls
      <4>. QED
        BY <2>2, <2>4, <3>3, <4>1
    <3>. QED
      BY <3>1, <3>2, <3>3
  <2>5. CASE op[t][k].st \notin {"run", "retry"}
    <3>1. op'[t][k] = op[t][k]
      BY <1>2, <2>5 DEF CancelOperations, CancelCalls
    <3>. QED
      BY <2>5, <3>1
  <2>. QED
    BY <2>3, <2>4, <2>5
<1>. QED
  BY <1>2, <1>3

\* What happens to an operation.
LEMMA OpMoves ==
    ASSUME Course, [Next]_vars
    PROVE  \A u \in Turn :
              \/ epoch'[u] = epoch[u] /\ \A k \in Child : \/ op'[u][k] = op[u][k]
                                                          \/ Started(u, k)
                                                          \/ Advanced(u, k)
              \/ Forgotten(u)
<1> DEFINE Q == \A u \in Turn, k \in Child : op'[u][k] = op[u][k] \/ Started(u, k) \/ Advanced(u, k)
           P == \A u \in Turn : \/ epoch'[u] = epoch[u] /\ \A k \in Child : \/ op'[u][k] = op[u][k]
                                                                           \/ Started(u, k)
                                                                           \/ Advanced(u, k)
                                \/ Forgotten(u)
<1>0. Types /\ Courses /\ Ordered
  BY DEF Course
<1>1. ASSUME Q, UNCHANGED epoch PROVE P
  BY <1>1
<1>2. ASSUME UNCHANGED op PROVE Q
  BY <1>2
<1>3. ASSUME NEW t \in Turn, NEW compatible, Revision(t, compatible),
             call[t] = "none" \/ (call[t] = "commit" /\ UNCHANGED <<run, call>>),
             call'[t] \in {"none", "commit"}
      PROVE  P
  <2>1. CASE compatible
    BY <1>3, <2>1 DEF Revision
  <2>2. CASE ~compatible
    <3>1. /\ epoch' = [epoch EXCEPT ![t] = @ + 1]
          /\ op' = [op EXCEPT ![t] = [k \in Child |-> NoOperation]]
      BY <1>3, <2>2 DEF Revision, Forget
    <3>2. Forgotten(t)
      BY <1>0, <1>3, <3>1 DEF Forgotten, Types, TypeOK
    <3>3. \A u \in Turn : u # t => epoch'[u] = epoch[u] /\ op'[u] = op[u]
      BY <1>0, <3>1 DEF Types, TypeOK
    <3>. QED
      BY <3>2, <3>3
  <2>. QED
    BY <2>1, <2>2
<1>4. ASSUME NEW r \in Speculations, Starts(op, r.op, r.spec), Become(r) PROVE Q
  <2>1. ASSUME NEW u \in Turn, NEW k \in Child PROVE op'[u][k] = op[u][k] \/ Started(u, k)
    <3>1. op'[u][k] = r.op[u][k] /\ spec' = r.spec
      BY <1>4 DEF Become
    <3>2. \/ r.op[u][k] = op[u][k]
          \/ /\ op[u][k].st = "none" /\ u = r.spec
             /\ r.op[u][k] = [st |-> "run", epoch |-> epoch[u], guess |-> TRUE]
      BY <1>4 DEF Starts
    <3>. QED
      BY <3>1, <3>2 DEF Started
  <2>. QED
    BY <2>1
<1>. HIDE DEF P, Q
<1>5. PICK r0 \in Speculations : r0 = Speculation /\ Starts(op, r0.op, r0.spec)
  <2>1. Starts(op, op, spec)
    BY DEF Starts
  <2>. QED
    BY <1>0, <2>1, SpeculationTypes DEF Types
<1>6. PICK r1 \in Speculations : r1 = Current(Turn, spec, op) /\ Starts(op, r1.op, r1.spec)
  <2>1. spec \in Turn \cup {NoTurn} /\ op \in [Turn -> Operations] /\ Turn \in SUBSET Turn
    BY <1>0 DEF Types, TypeOK, Operations
  <2>2. Starts(op, Current(Turn, spec, op).op, Current(Turn, spec, op).spec)
    BY <1>0, <2>1, CurrentStarts
  <2>. QED
    BY <1>0, <2>2, SpeculationTypes DEF Types
<1>7. ASSUME NEW t \in Turn, NEW r \in Speculations, Starts(op, r.op, r.spec),
             Admit(t, r) \/ SealDraft(t, r)
      PROVE  Q
  BY <1>0, <1>7, SealStarts DEF Q
<1>8. ASSUME NEW t \in Turn, Execute(t) PROVE Q
  BY <1>0, <1>8, ExecuteStarts DEF Q
<1>9. ASSUME NEW t \in Turn, Become(Released(t, Speculation)) PROVE Q
  <2>1. PICK q \in Speculations : q = Released(t, r0)
    BY <1>0, ReleasedTypes DEF Types
  <2>2. Starts(op, q.op, q.spec)
    <3>1. Starts(r0.op, q.op, q.spec) /\ r0.op = op
      BY <1>0, <1>5, <2>1, ReleasedStarts, SpeculationTypes DEF Types
    <3>. QED
      BY <3>1
  <2>. QED
    BY <1>4, <1>5, <1>9, <2>1, <2>2
<1>10. ASSUME NEW t \in Turn, NEW k \in Child, Advanced(t, k), NEW s, Sets(t, k, s)
       PROVE  Q
  BY <1>0, <1>10, OpUpdate DEF Q
<1>11. ASSUME SpeakerStep \/ UNCHANGED vars PROVE P
  <2>1. CASE Speak
    <3>1. CASE next \in Turn /\ Revision(next, TRUE)
      BY <1>1, <1>2, <2>1, <3>1 DEF Revision
    <3>2. CASE UNCHANGED <<op, epoch>>
      BY <1>1, <1>2, <3>2
    <3>3. next \in Turn
      BY <1>0, <2>1, SizeAssumption DEF Speak, Types, TypeOK, Turn
    <3>. QED
      BY <2>1, <3>1, <3>2, <3>3 DEF Speak
  <2>2. ASSUME NEW t \in Turn, Revise(t) PROVE P
    <3>1. PICK compatible \in BOOLEAN : Revision(t, compatible) /\ (compatible => status[t] = "none")
      BY <2>2 DEF Revise
    <3>2. /\ call[t] \in {"none", "commit"} /\ UNCHANGED call
          /\ call[t] = "commit" => status[t] # "none"
      BY <1>0, <2>2, SizeAssumption DEF Revise, Ordered, Courses, Turn, NoTurn
    <3>3. call[t] = "commit" => UNCHANGED run
      BY <3>1, <3>2 DEF Revision
    <3>. QED
      BY <1>3, <3>1, <3>2, <3>3
  <2>3. ASSUME NEW t \in Turn, Revised(t) PROVE P
    BY <1>1, <1>4, <1>6, <2>3 DEF Revised, draftVars
  <2>4. ASSUME NEW t \in Turn, Prestart(t) PROVE P
    <3>1. UNCHANGED <<epoch, spec>>
      BY <2>4 DEF Prestart
    <3>2. CASE spec = t
      <4>1. op'[t] = Launch(op[t], TRUE, epoch[t], TRUE) /\ \A u \in Turn : u # t => op'[u] = op[u]
        BY <1>0, <2>4, <3>2 DEF Prestart, Types, TypeOK
      <4>2. \A k \in Child : \/ op'[t][k] = op[t][k]
                             \/ /\ op[t][k].st = "none"
                                /\ op'[t][k] = [st |-> "run", epoch |-> epoch[t], guess |-> TRUE]
        BY <4>1 DEF Launch
      <4>3. \A k \in Child : op'[t][k] = op[t][k] \/ Started(t, k)
        BY <3>1, <3>2, <4>2 DEF Started
      <4>. QED
        BY <1>1, <3>1, <4>1, <4>3 DEF Q
    <3>3. CASE spec # t
      BY <1>1, <1>2, <2>4, <3>1, <3>3 DEF Prestart
    <3>. QED
      BY <3>2, <3>3
  <2>5. ASSUME NEW t \in Turn, Superseded(t) PROVE P
    BY <1>1, <1>2, <2>5 DEF Superseded
  <2>6. CASE ManualBegins \/ ManualEnds \/ OpenIngress \/ Rest \/ UNCHANGED vars
    BY <1>1, <1>2, <2>6 DEF ManualBegins, ManualEnds, OpenIngress, Rest, vars, draftVars
  <2>. QED
    BY <1>11, <2>1, <2>2, <2>3, <2>4, <2>5, <2>6 DEF SpeakerStep
<1>12. ASSUME NEW t \in Turn, Commit(t) \/ Seal(t) PROVE P
  <2>1. CASE Commit(t)
    <3>1. CASE \E compatible \in BOOLEAN : Revision(t, compatible) /\ call' = [call EXCEPT ![t] = "commit"]
      <4>1. call[t] = "none" /\ call'[t] = "commit"
        BY <1>0, <2>1, <3>1 DEF Commit, Types, TypeOK
      <4>. QED
        BY <1>3, <3>1, <4>1
    <3>2. CASE SealDraft(t, Speculation) /\ UNCHANGED epoch
      BY <1>1, <1>5, <1>7, <3>2
    <3>. QED
      BY <2>1, <3>1, <3>2 DEF Commit
  <2>2. CASE CommitEnds(t)
    BY <1>1, <1>6, <1>7, <2>2 DEF CommitEnds, draftVars
  <2>3. CASE SealLocked(t)
    BY <1>1, <1>5, <1>7, <2>3 DEF SealLocked, draftVars
  <2>4. CASE SealerRetires(t) \/ SealerJoins(t) \/ SealerPublishes(t)
    BY <1>1, <1>2, <2>4 DEF SealerRetires, SealerJoins, SealerPublishes, draftVars
  <2>. QED
    BY <1>12, <2>1, <2>2, <2>3, <2>4 DEF Seal
<1>13. ASSUME NEW t \in Turn, ExpiryFires(t) \/ ExpiryRetires(t) PROVE P
  BY <1>1, <1>2, <1>13, TimerKeeps DEF draftVars
<1>14. ASSUME NEW t \in Turn, Run(t) PROVE P
  <2>0. UNCHANGED epoch
    BY <1>14, RunKeeps DEF draftVars
  <2>1. CASE RunWakes(t) \/ RunGranted(t) \/ RunReady(t) \/ RunJoins(t)
    <3>1. UNCHANGED op \/ Execute(t)
      BY <2>1 DEF RunWakes, RunGranted, RunReady, RunJoins, RunSheds
    <3>. QED
      BY <1>1, <1>2, <1>8, <2>0, <3>1
  <2>2. CASE RunGivesUp(t)
    BY <1>1, <1>9, <2>0, <2>2 DEF RunGivesUp
  <2>3. CASE RunRetires(t) \/ RunLeaves(t) \/ RunUnwound(t) \/ \E k \in Child : RunRefused(t, k)
    BY <1>1, <1>2, <2>0, <2>3 DEF RunRetires, RunLeaves, RunUnwound, RunRefused
  <2>4. CASE RunCancelled(t) \/ RunDead(t)
    <3>1. \/ UNCHANGED op
          \/ op' = [op EXCEPT ![t] = CancelOperations(op[t])]
          \/ op' = [op EXCEPT ![t] = CancelCalls(op[t])] /\ Goto(t, "unwind")
      BY <2>4 DEF RunCancelled, RunDead
    <3>2. Goto(t, "unwind") => run'[t] = "unwind"
      BY <1>0 DEF Goto, Types, TypeOK
    <3>3. CASE op' = [op EXCEPT ![t] = CancelOperations(op[t])]
      BY <1>0, <1>1, <2>0, <3>3, CancelledCalls DEF Q
    <3>4. CASE op' = [op EXCEPT ![t] = CancelCalls(op[t])] /\ run'[t] = "unwind"
      BY <1>0, <1>1, <2>0, <3>4, CancelledCalls DEF Q
    <3>. QED
      BY <1>1, <1>2, <2>0, <3>1, <3>2, <3>3, <3>4
  <2>5. CASE RunDrained(t)
    BY <1>1, <1>2, <1>9, <2>0, <2>5 DEF RunDrained
  <2>6. ASSUME NEW k \in Child, ExecRetry(t, k) PROVE P
    <3>1. /\ Sets(t, k, "retry") /\ op[t][k].st \in {"bad", "gone"}
          /\ run[t] = "exec" /\ run' = run
      BY <2>6 DEF ExecRetry, At, runVars, Sets
    <3>2. op'[t][k].st = "retry" /\ op'[t][k].epoch = op[t][k].epoch
      BY <1>0, <3>1, OpUpdate
    <3>3. Advanced(t, k)
      BY <3>1, <3>2 DEF Advanced
    <3>. QED
      BY <1>1, <1>10, <2>0, <3>1, <3>3
  <2>7. ASSUME NEW k \in Child, RunPublish(t, k) PROVE P
    <3>1. Sets(t, k, "told") /\ op[t][k].st \in {"good", "bad", "gone"}
      BY <2>7 DEF RunPublish, Final, Sets
    <3>2. op'[t][k].st = "told" /\ op'[t][k].epoch = op[t][k].epoch
      BY <1>0, <3>1, OpUpdate
    <3>3. Advanced(t, k)
      BY <2>7, <3>1, <3>2 DEF Advanced
    <3>. QED
      BY <1>1, <1>10, <2>0, <3>1, <3>3
  <2>. QED
    BY <1>14, <2>1, <2>2, <2>3, <2>4, <2>5, <2>6, <2>7 DEF Run
<1>15. ASSUME NEW t \in Turn, NEW k \in Child, Provider(t, k) PROVE P
  <2>0. UNCHANGED epoch
    BY <1>15, ProviderKeeps DEF draftVars
  <2>1. CASE OpReturns(t, k)
    <3>1. PICK s \in {"good", "bad", "gone"} : Sets(t, k, s) /\ op[t][k].st = "run"
      <4>1. PICK result \in Answers :
               op' = [op EXCEPT ![t][k].st = IF ParentCancelled(t) THEN "gone" ELSE result]
        BY <2>1 DEF OpReturns
      <4>2. (IF ParentCancelled(t) THEN "gone" ELSE result) \in {"good", "bad", "gone"}
        BY ProviderAssumption
      <4>. QED
        BY <2>1, <4>1, <4>2 DEF OpReturns, Sets
    <3>2. op'[t][k].st = s /\ op'[t][k].epoch = op[t][k].epoch
      BY <1>0, <3>1, OpUpdate
    <3>3. Advanced(t, k)
      BY <3>1, <3>2 DEF Advanced
    <3>. QED
      BY <1>1, <1>10, <2>0, <3>1, <3>3
  <2>2. CASE OpDies(t, k)
    <3>1. Sets(t, k, "gone") /\ op[t][k].st \in {"dying", "unwinding"}
      BY <2>2 DEF OpDies, Sets
    <3>2. op'[t][k].st = "gone" /\ op'[t][k].epoch = op[t][k].epoch
      BY <1>0, <3>1, OpUpdate
    <3>3. Advanced(t, k)
      BY <3>1, <3>2 DEF Advanced
    <3>. QED
      BY <1>1, <1>10, <2>0, <3>1, <3>3
  <2>3. CASE RetryReturns(t, k)
    <3>1. PICK result \in {"good", "bad"} :
             /\ op' = [op EXCEPT ![t][k] = [op[t][k] EXCEPT !.st = result, !.guess = FALSE]]
             /\ op[t][k].st = "retry"
      BY <2>3, ProviderAssumption DEF RetryReturns
    <3>2. op \in [Turn -> [Child -> Operation]] /\ op[t][k] \in Operation
      BY <1>0 DEF Types, TypeOK
    <3>3. /\ op'[t][k] = [op[t][k] EXCEPT !.st = result, !.guess = FALSE]
          /\ \A u \in Turn, j \in Child : u # t \/ j # k => op'[u][j] = op[u][j]
      BY <3>1, <3>2
    <3>4. op'[t][k].st = result /\ op'[t][k].epoch = op[t][k].epoch
      BY <3>2, <3>3 DEF Operation
    <3>5. Advanced(t, k)
      BY <3>1, <3>4 DEF Advanced
    <3>. QED
      BY <1>1, <2>0, <3>3, <3>5 DEF Q
  <2>. QED
    BY <1>15, <2>1, <2>2, <2>3 DEF Provider
<1>16. ASSUME NEW c \in Controller, CtlBegin(c) \/ Control(c) PROVE P
  BY <1>1, <1>2, <1>16, ControllerKeeps
<1>. QED
  BY <1>11, <1>12, <1>13, <1>14, <1>15, <1>16, StepCases DEF P

\* A run that executes, or did, does not go back.
Late == {"exec", "unwind", "dead", "drain", "done"}

\* How a run comes to execute, to unwind and to drain.
RunMove(u) ==
    /\ run[u] \in Late => run'[u] \in Late
    /\ run'[u] = "exec" /\ run[u] # "exec" =>
          /\ Execute(u) /\ run[u] \in {"wait", "slot", "race", "join"} /\ Open(u)
          /\ UNCHANGED <<completed, seen>>
          /\ u \in canon' \/ terminal'[u] # "none" \/ Ready(u)
    /\ run'[u] = "exec" /\ u \in killed => u \in killed'
    /\ run'[u] = "unwind" /\ run[u] # "unwind" =>
          run[u] = "exec" /\ op' = [op EXCEPT ![u] = CancelCalls(op[u])]
    /\ run'[u] \in {"drain", "done"} /\ run[u] \notin {"drain", "done"} =>
          terminal'[u] # "none" \/ \E k \in Child : RunPublish(u, k) /\ Closes(u, {k})

\* Which they all do.
LEMMA RunMoves == ASSUME Judged, [Next]_vars PROVE \A u \in Turn : RunMove(u)
<1>0. Lasting /\ Course /\ Types /\ Courses /\ Cuts
  BY Closings DEF Judged, Course
<1> DEFINE Q == \A u \in Turn : RunMove(u)
<1>1. ASSUME \A u \in Turn : run'[u] = run[u] \/ (run[u] = "none" /\ run'[u] = "wait"),
             \A u \in killed : u \in killed'
      PROVE  Q
  BY <1>1 DEF RunMove, Late
<1>2. ASSUME NEW t \in Turn, NEW r, Goto(t, r),
             run[t] \in Late => r \in Late,
             r = "exec" => /\ Execute(t) /\ run[t] \in {"wait", "slot", "race", "join"} /\ Open(t)
                           /\ UNCHANGED <<completed, seen>> /\ t \notin killed
                           /\ t \in canon' \/ terminal'[t] # "none" \/ Ready(t),
             r = "unwind" => run[t] = "exec" /\ op' = [op EXCEPT ![t] = CancelCalls(op[t])],
             r \in {"drain", "done"} /\ run[t] # "drain" =>
                terminal'[t] # "none" \/ \E k \in Child : RunPublish(t, k) /\ Closes(t, {k}),
             \A u \in killed : u # t => u \in killed'
      PROVE  Q
  <2>1. run'[t] = r /\ \A u \in Turn : u # t => run'[u] = run[u]
    BY <1>0, <1>2 DEF Goto, Types, TypeOK
  <2>2. RunMove(t)
    BY <1>2, <2>1 DEF RunMove
  <2>3. ASSUME NEW u \in Turn, u # t PROVE RunMove(u)
    <3>1. run'[u] = run[u] /\ (u \in killed => u \in killed')
      BY <1>2, <2>1, <2>3
    <3>. QED
      BY <3>1 DEF RunMove
  <2>. QED
    BY <2>2, <2>3
<1>. HIDE DEF Q
<1>3. ASSUME NEW t \in Turn, NEW compatible, Revision(t, compatible), UNCHANGED killed PROVE Q
  <2>1. \A u \in Turn : run'[u] = run[u] \/ (run[u] = "none" /\ run'[u] = "wait")
    BY <1>0, <1>3 DEF Revision, Types, TypeOK, Courses
  <2>. QED
    BY <1>1, <1>3, <2>1
<1>4. ASSUME NEW v, NEW self, Retire(v, self), UNCHANGED run PROVE Q
  BY <1>1, <1>4 DEF Retire
<1>5. ASSUME SpeakerStep \/ UNCHANGED vars PROVE Q
  <2>1. CASE Speak
    <3>1. next \in Turn
      BY <1>0, <2>1, SizeAssumption DEF Speak, Types, TypeOK, Turn
    <3>. QED
      BY <1>1, <1>3, <2>1, <3>1 DEF Speak
  <2>2. ASSUME NEW t \in Turn, Revise(t) PROVE Q
    BY <1>3, <2>2 DEF Revise
  <2>3. ASSUME NEW t \in Turn, Revised(t) \/ Prestart(t) \/ Superseded(t) PROVE Q
    BY <1>1, <2>3 DEF Revised, Prestart, Superseded, runVars
  <2>4. CASE ManualBegins \/ ManualEnds \/ OpenIngress \/ Rest \/ UNCHANGED vars
    BY <1>1, <2>4 DEF ManualBegins, ManualEnds, OpenIngress, Rest, vars, runVars
  <2>. QED
    BY <1>5, <2>1, <2>2, <2>3, <2>4 DEF SpeakerStep
<1>6. ASSUME NEW t \in Turn, Commit(t) \/ Seal(t) \/ ExpiryFires(t) \/ ExpiryRetires(t) PROVE Q
  <2>1. CASE Commit(t)
    BY <1>1, <1>3, <2>1 DEF Commit
  <2>2. CASE CommitEnds(t) \/ SealLocked(t) \/ SealerJoins(t) \/ SealerPublishes(t) \/ ExpiryFires(t)
    BY <1>1, <2>2 DEF CommitEnds, SealLocked, SealerJoins, SealerPublishes, ExpiryFires, runVars
  <2>3. CASE SealerRetires(t) \/ ExpiryRetires(t)
    BY <1>4, <2>3 DEF SealerRetires, ExpiryRetires
  <2>. QED
    BY <1>6, <2>1, <2>2, <2>3 DEF Seal
<1>7. ASSUME NEW t \in Turn, Run(t) PROVE Q
  <2>1. CASE RunWakes(t)
    <3>1. /\ run[t] = "wait" /\ t \notin killed /\ Open(t) /\ UNCHANGED <<completed, seen, killed>>
      BY <1>0, <2>1 DEF RunWakes, At, Courses, endVars
    <3>2. CASE GiveUp(t)
      BY <1>2, <3>1, <3>2 DEF GiveUp, Late
    <3>3. CASE Execute(t) /\ t \in canon'
      BY <1>2, <3>1, <3>3 DEF Execute, Late
    <3>4. CASE Goto(t, "race") \/ Goto(t, "slot")
      BY <1>2, <3>1, <3>4 DEF Late
    <3>. QED
      BY <2>1, <3>2, <3>3, <3>4 DEF RunWakes
  <2>2. CASE RunGranted(t) \/ RunReady(t)
    <3>1. /\ run[t] \in {"slot", "race"} /\ t \notin killed /\ Open(t)
          /\ UNCHANGED <<completed, seen, killed>>
      BY <1>0, <2>2 DEF RunGranted, RunReady, At, Courses, endVars
    <3>2. Execute(t) /\ (t \in canon' \/ Ready(t))
      BY <2>2, <3>1 DEF RunGranted, RunReady
    <3>. QED
      BY <1>2, <3>1, <3>2 DEF Execute, Late
  <2>3. CASE RunGivesUp(t)
    <3>1. UNCHANGED killed /\ run[t] = "race" /\ (Goto(t, "mark") \/ Goto(t, "race"))
      BY <2>3 DEF RunGivesUp, RunSheds, At
    <3>. QED
      BY <1>2, <3>1 DEF Late
  <2>4. CASE RunRetires(t)
    BY <1>2, <2>4 DEF RunRetires, At, Retire, Late
  <2>5. CASE RunJoins(t)
    <3>1. run[t] = "join" /\ t \notin killed /\ UNCHANGED <<completed, seen, killed>>
      BY <2>5 DEF RunJoins, At, endVars
    <3>2. \/ Goto(t, "mark") \/ Goto(t, "race")
          \/ ~Open(t) /\ Goto(t, "drain") /\ UNCHANGED terminal
          \/ Open(t) /\ terminal[t] # "none" /\ Execute(t) /\ UNCHANGED terminal
      BY <2>5 DEF RunJoins, RunSheds
    <3>3. ~Open(t) => terminal[t] # "none"
      BY <1>0, <3>1 DEF Cuts, Verdict
    <3>. QED
      BY <1>2, <3>1, <3>2, <3>3 DEF Late, Execute
  <2>6. CASE RunCancelled(t)
    <3>0. t \in killed /\ UNCHANGED <<completed, seen>> /\ \A u \in killed : u # t => u \in killed'
      BY <2>6 DEF RunCancelled, endVars
    <3>1. \/ run[t] \notin Late /\ (GiveUp(t) \/ Goto(t, "leave"))
          \/ run[t] = "exec" /\ Goto(t, "unwind") /\ op' = [op EXCEPT ![t] = CancelCalls(op[t])]
          \/ run[t] \in {"unwind", "leave"} /\ UNCHANGED run
          \/ run[t] = "dead" /\ Goto(t, "drain") /\ UNCHANGED terminal
      BY <2>6 DEF RunCancelled, Joins, Late
    <3>2. run[t] = "dead" => terminal[t] # "none"
      BY <1>0 DEF Cuts
    <3>3. CASE run[t] \in {"unwind", "leave"} /\ UNCHANGED run
      <4>1. ASSUME NEW u \in Turn PROVE RunMove(u)
        BY <3>0, <3>3 DEF RunMove
      <4>. QED
        BY <4>1 DEF Q
    <3>. QED
      BY <1>2, <3>0, <3>1, <3>2, <3>3 DEF Late, GiveUp
  <2>7. CASE RunLeaves(t) \/ RunUnwound(t) \/ \E k \in Child : RunRefused(t, k)
    <3>1. GiveUp(t) /\ UNCHANGED killed
      BY <2>7 DEF RunLeaves, RunUnwound, RunRefused
    <3>. QED
      BY <1>2, <3>1 DEF Late, GiveUp
  <2>8. CASE RunDead(t)
    <3>1. run[t] = "dead" /\ UNCHANGED <<killed, terminal>> /\ Goto(t, "drain") /\ terminal[t] # "none"
      BY <1>0, <2>8 DEF RunDead, At, Cuts
    <3>. QED
      BY <1>2, <3>1 DEF Late
  <2>9. CASE RunDrained(t)
    <3>1. run[t] = "drain" /\ killed' = killed \ {t} /\ Goto(t, "done")
      BY <2>9 DEF RunDrained
    <3>. QED
      BY <1>2, <3>1 DEF Late
  <2>10. ASSUME NEW k \in Child, ExecRetry(t, k) PROVE Q
    BY <1>1, <2>10 DEF ExecRetry, runVars
  <2>11. ASSUME NEW k \in Child, RunPublish(t, k) PROVE Q
    <3>1. run[t] = "exec" /\ UNCHANGED killed
      BY <2>11 DEF RunPublish, At
    <3>2. CASE Closes(t, {k})
      <4>1. Goto(t, "drain")
        BY <2>11, <3>2 DEF RunPublish, Goto
      <4>. QED
        BY <1>2, <2>11, <3>1, <3>2, <4>1 DEF Late
    <3>3. CASE ~Closes(t, {k})
      BY <1>1, <2>11, <3>1, <3>3 DEF RunPublish
    <3>. QED
      BY <3>2, <3>3
  <2>. QED
    BY <1>7, <2>1, <2>2, <2>3, <2>4, <2>5, <2>6, <2>7, <2>8, <2>9, <2>10, <2>11 DEF Run
<1>8. ASSUME NEW t \in Turn, NEW k \in Child, Provider(t, k) PROVE Q
  BY <1>1, <1>8, ProviderKeeps DEF runVars
<1>9. ASSUME NEW c \in Controller, CtlBegin(c) \/ Control(c) PROVE Q
  <2>1. \A u \in killed : u \in killed'
    BY <1>9 DEF CtlBegin, Control, CtlSelect, CtlSettle, CtlReturn, CtlClear, Select, runVars
  <2>. QED
    BY <1>1, <1>9, <2>1, ControllerKeeps
<1>. QED
  BY <1>5, <1>6, <1>7, <1>8, <1>9, StepCases DEF Q

\* A commit that has ended has.
LEMMA CallMoves ==
    ASSUME Course, [Next]_vars PROVE \A u \in Turn : call[u] = "done" => call'[u] = "done"
<1> DEFINE Q == \A u \in Turn : call[u] = "done" => call'[u] = "done"
<1>1. UNCHANGED call => Q
  OBVIOUS
<1>2. ASSUME NEW t \in Turn, call[t] # "done", NEW s, call' = [call EXCEPT ![t] = s] PROVE Q
  BY <1>2 DEF Course, Types, TypeOK
<1>. HIDE DEF Q
<1>3. ASSUME NEW t \in Turn, Commit(t) \/ Seal(t) PROVE Q
  <2>1. call[t] # "done"
    BY <1>3 DEF Commit, Seal, CommitEnds, SealLocked, SealerRetires, SealerJoins, SealerPublishes
  <2>2. \E s : call' = [call EXCEPT ![t] = s]
    BY <1>3 DEF Commit, Seal, CommitEnds, SealLocked, SealerRetires, SealerJoins, SealerPublishes,
       SealDraft, Admit, SealerSheds
  <2>. QED
    BY <1>2, <2>1, <2>2
<1>4. ASSUME NEW t \in Turn, ExpiryFires(t) \/ ExpiryRetires(t) \/ Run(t) PROVE Q
  BY <1>1, <1>4, TimerKeeps, RunKeeps DEF callVars
<1>5. ASSUME NEW t \in Turn, NEW k \in Child, Provider(t, k) PROVE Q
  BY <1>1, <1>5, ProviderKeeps DEF callVars
<1>6. ASSUME NEW c \in Controller, CtlBegin(c) \/ Control(c) PROVE Q
  BY <1>1, <1>6, ControllerKeeps DEF callVars
<1>7. ASSUME UNCHANGED vars \/ SpeakerStep PROVE Q
  BY <1>1, <1>7, SpeakerKeeps DEF vars, callVars
<1>. QED
  BY <1>3, <1>4, <1>5, <1>6, <1>7, StepCases DEF Q

-------------------------------------------------------------------------------
(* What became of the children of a turn.                                  *)

\* A run has told what its completed children were given, and only they: nobody else
\* settles a child of a turn whose run goes on.
Told ==
    \A t \in Turn :
        /\ completed[t] # {} => status[t] = "closed" \/ run[t] \in Late
        /\ run[t] = "exec" /\ t \notin killed =>
              \A k \in Child : k \in completed[t] <=> op[t][k].st = "told"
        /\ \A k \in Child : op[t][k].st \in {"retry", "unwinding", "told"} =>
              run[t] \in Late /\ call[t] = "done"

Tally == Judged /\ SettledOnce /\ Told

\* Settling children that were not settled.
LEMMA SettleOnce ==
    ASSUME Types, SettledOnce, NEW v \in Turn, NEW S \in SUBSET Child, NEW kind,
           Open(v), Settle(v, S, kind), S \cap completed[v] = {}
    PROVE  SettledOnce'
<1> SUFFICES ASSUME NEW u \in Turn
             PROVE  /\ \A k \in Child : Len(seen'[u][k]) = IF k \in completed'[u] THEN 1 ELSE 0
                    /\ status'[u] = "closed" <=> completed'[u] = Child
  BY DEF SettledOnce
<1>1. /\ completed'[v] = completed[v] \cup S
      /\ \A k \in Child : seen'[v][k] = IF k \in S THEN Append(seen[v][k], kind) ELSE seen[v][k]
      /\ u # v => completed'[u] = completed[u] /\ seen'[u] = seen[u]
  BY DEF Settle, Types, TypeOK
<1>2. CASE u # v
  BY <1>1, <1>2, SettleStatus DEF SettledOnce
<1>3. CASE u = v
  <2>1. ASSUME NEW k \in Child PROVE Len(seen'[v][k]) = IF k \in completed'[v] THEN 1 ELSE 0
    <3>0. seen[v][k] \in Seq({"translated", "failed", "source", "cancelled"})
      BY DEF Types, TypeOK
    <3>1. Len(seen[v][k]) = IF k \in completed[v] THEN 1 ELSE 0
      BY DEF SettledOnce
    <3>2. CASE k \in S
      <4>1. Len(seen[v][k]) = 0 /\ k \in completed'[v]
        BY <1>1, <3>1, <3>2
      <4>2. seen'[v][k] = Append(seen[v][k], kind)
        BY <1>1, <3>2
      <4>3. Len(seen'[v][k]) = Len(seen[v][k]) + 1
        BY <3>0, <4>2
      <4>. QED
        BY <4>1, <4>3
    <3>3. CASE k \notin S
      BY <1>1, <3>1, <3>3
    <3>. QED
      BY <3>2, <3>3
  <2>2. status'[v] = "closed" <=> completed'[v] = Child
    BY <1>1, SettleStatus DEF Closes
  <2>. QED
    BY <1>3, <2>1, <2>2
<1>. QED
  BY <1>2, <1>3

\* A published result is of a child that was not settled.
LEMMA PublishOnce ==
    ASSUME Tally, NEW t \in Turn, NEW k \in Child, RunPublish(t, k)
    PROVE  /\ run[t] = "exec" /\ t \notin killed /\ call[t] = "done" /\ Open(t)
           /\ k \notin completed[t] /\ op[t][k].st \in {"good", "bad", "gone"}
           /\ Settle(t, {k}, IF op[t][k].st = "good" THEN "translated" ELSE "failed")
           /\ Sets(t, k, "told") /\ UNCHANGED <<killed, call>>
           /\ run'[t] \in Late /\ \A u \in Turn : u # t => run'[u] = run[u]
<1>1. /\ run[t] = "exec" /\ t \notin killed /\ op[t][k].st \in {"good", "bad", "gone"}
      /\ Settle(t, {k}, IF op[t][k].st = "good" THEN "translated" ELSE "failed")
      /\ Sets(t, k, "told") /\ UNCHANGED <<killed, call>>
      /\ run' = [run EXCEPT ![t] = "drain"] \/ run' = run
  BY DEF RunPublish, At, Final, Sets, callVars
<1>2. call[t] = "done" /\ Open(t)
  BY <1>1 DEF Tally, Judged, Course, Courses
<1>3. k \notin completed[t]
  BY <1>1 DEF Tally, Told
<1>4. run'[t] \in Late /\ \A u \in Turn : u # t => run'[u] = run[u]
  BY <1>1 DEF Late, Tally, Judged, Course, Types, TypeOK
<1>. QED
  BY <1>1, <1>2, <1>3, <1>4

\* Every step settles once.
LEMMA SettledOnceNext == ASSUME Tally, [Next]_vars PROVE SettledOnce'
<1>0. Course /\ Types /\ SettledOnce
  BY DEF Tally, Judged, Course
<1>1. ASSUME UNCHANGED <<completed, seen>>,
             \A u \in Turn : status'[u] = status[u] \/ (status[u] = "none" /\ status'[u] = "open")
      PROVE  SettledOnce'
  BY <1>0, <1>1 DEF SettledOnce
<1>2. ASSUME NEW v \in Turn, NEW kind, Open(v), Settle(v, Remaining(v), kind)
      PROVE  SettledOnce'
  <2>1. Remaining(v) \in SUBSET Child /\ Remaining(v) \cap completed[v] = {}
    BY DEF Remaining
  <2>. QED
    BY <1>0, <1>2, <2>1, SettleOnce
<1>3. ASSUME NEW v \in Turn, NEW k \in Child, RunPublish(v, k) PROVE SettledOnce'
  <2>1. /\ {k} \in SUBSET Child /\ {k} \cap completed[v] = {} /\ Open(v)
        /\ Settle(v, {k}, IF op[v][k].st = "good" THEN "translated" ELSE "failed")
    BY <1>3, PublishOnce
  <2>. QED
    BY <1>0, <2>1, SettleOnce
<1>. QED
  BY <1>0, <1>1, <1>2, <1>3, Settles

\* Every step keeps the account of the runs.
LEMMA ToldNext == ASSUME Tally, [Next]_vars PROVE Told'
<1>0. Judged /\ Course /\ Types /\ Courses /\ Told /\ SettledOnce
  BY DEF Tally, Judged, Course
<1>1. Course' /\ Courses' /\ Lasting
  BY <1>0, CourseNext, Closings DEF Course
<1> SUFFICES ASSUME NEW u \in Turn
             PROVE  /\ completed'[u] # {} => status'[u] = "closed" \/ run'[u] \in Late
                    /\ run'[u] = "exec" /\ u \notin killed' =>
                          \A k \in Child : k \in completed'[u] <=> op'[u][k].st = "told"
                    /\ \A k \in Child : op'[u][k].st \in {"retry", "unwinding", "told"} =>
                          run'[u] \in Late /\ call'[u] = "done"
  BY DEF Told
<1>2. RunMove(u) /\ (call[u] = "done" => call'[u] = "done")
  BY <1>0, RunMoves, CallMoves
<1>3. \/ epoch'[u] = epoch[u] /\ \A k \in Child : \/ op'[u][k] = op[u][k]
                                                  \/ Started(u, k)
                                                  \/ Advanced(u, k)
      \/ Forgotten(u)
  BY <1>0, OpMoves
<1>4. ASSUME Forgotten(u)
      PROVE  /\ run'[u] # "exec"
             /\ \A k \in Child : op'[u][k].st = "none"
  <2>1. \A k \in Child : op'[u][k] = NoOperation
    BY <1>4 DEF Forgotten
  <2>. QED
    BY <1>1, <1>4, <2>1 DEF Forgotten, Courses, NoOperation
<1>5. ASSUME NEW k \in Child, op'[u][k].st \in {"retry", "unwinding", "told"}
      PROVE  run'[u] \in Late /\ call'[u] = "done"
  <2>1. CASE op'[u][k] = op[u][k]
    BY <1>0, <1>2, <1>5, <2>1 DEF Told, RunMove
  <2>2. CASE Started(u, k)
    BY <1>5, <2>2 DEF Started
  <2>3. CASE Advanced(u, k)
    <3>1. \/ op[u][k].st = "retry" \/ run[u] = "exec" \/ RunPublish(u, k)
      BY <1>5, <2>3 DEF Advanced
    <3>2. run[u] \in Late /\ call[u] = "done"
      BY <1>0, <3>1, PublishOnce DEF Told, Courses, Late, RunPublish, At
    <3>. QED
      BY <1>2, <3>2 DEF RunMove
  <2>. QED
    BY <1>3, <1>4, <1>5, <2>1, <2>2, <2>3
<1>6. CASE \E v \in Turn, k \in Child : RunPublish(v, k)
  <2>1. PICK v \in Turn, k \in Child : RunPublish(v, k)
    BY <1>6
  <2>2. /\ run[v] = "exec" /\ v \notin killed
        /\ k \notin completed[v] /\ op[v][k].st \in {"good", "bad", "gone"}
        /\ Settle(v, {k}, IF op[v][k].st = "good" THEN "translated" ELSE "failed")
        /\ Sets(v, k, "told") /\ UNCHANGED <<killed, call>>
        /\ run'[v] \in Late /\ \A w \in Turn : w # v => run'[w] = run[w]
    BY <2>1, PublishOnce
  <2>3. /\ completed'[v] = completed[v] \cup {k}
        /\ \A w \in Turn : w # v => completed'[w] = completed[w]
    BY <1>0, <2>2 DEF Settle, Types, TypeOK
  <2>4. /\ op'[v][k].st = "told"
        /\ \A w \in Turn, j \in Child : w # v \/ j # k => op'[w][j] = op[w][j]
    BY <1>0, <2>2, OpUpdate
  <2>5. CASE u = v
    BY <1>0, <1>5, <2>2, <2>3, <2>4, <2>5 DEF Told
  <2>6. CASE u # v
    BY <1>0, <1>1, <1>5, <2>2, <2>3, <2>4, <2>6 DEF Told, Lasting
  <2>. QED
    BY <2>5, <2>6
<1>7. CASE ~\E v \in Turn, k \in Child : RunPublish(v, k)
  <2>1. \/ completed'[u] = completed[u]
        \/ status'[u] = "closed" /\ (run'[u] = "exec" => u \in killed')
    <3>1. ASSUME NEW v \in Turn, NEW kind, Open(v), Settle(v, Remaining(v), kind),
                 run'[v] = "exec" => v \in killed'
          PROVE  \/ completed'[u] = completed[u]
                 \/ status'[u] = "closed" /\ (run'[u] = "exec" => u \in killed')
      <4>1. u # v => completed'[u] = completed[u]
        BY <1>0, <3>1 DEF Settle, Types, TypeOK
      <4>2. status'[v] = "closed"
        BY <1>0, <3>1, SettleStatus
      <4>. QED
        BY <3>1, <4>1, <4>2
    <3>. QED
      BY <1>0, <1>7, <3>1, Settles
  <2>2. completed'[u] # {} => status'[u] = "closed" \/ run'[u] \in Late
    BY <1>0, <1>1, <1>2, <2>1 DEF Told, Lasting, RunMove
  <2>3. ASSUME run'[u] = "exec", u \notin killed', NEW k \in Child
        PROVE  k \in completed'[u] <=> op'[u][k].st = "told"
    <3>1. completed'[u] = completed[u] /\ u \notin killed /\ ~Forgotten(u)
      BY <1>2, <1>4, <2>1, <2>3 DEF RunMove
    <3>2. op'[u][k].st = "told" <=> op[u][k].st = "told"
      BY <1>3, <1>7, <3>1 DEF Started, Advanced
    <3>3. CASE run[u] = "exec"
      BY <1>0, <3>1, <3>2, <3>3 DEF Told
    <3>4. CASE run[u] # "exec"
      <4>1. Open(u) /\ run[u] \notin Late
        BY <1>2, <2>3, <3>4 DEF RunMove, Late
      <4>2. completed[u] = {} /\ op[u][k].st # "told"
        BY <1>0, <4>1 DEF Told, Open
      <4>. QED
        BY <3>1, <3>2, <4>2
    <3>. QED
      BY <3>3, <3>4
  <2>. QED
    BY <1>5, <2>2, <2>3
<1>. QED
  BY <1>6, <1>7

\* Initially nothing is settled.
LEMMA TallyInit == Init => Tally
<1> SUFFICES ASSUME Init PROVE Tally
  OBVIOUS
<1>1. Judged
  BY JudgedInit
<1>2. SettledOnce
  <2>1. Child # {}
    BY FirstChild
  <2>. QED
    BY <2>1 DEF Init, SettledOnce
<1>3. Told
  BY DEF Init, Told, NoOperation
<1>. QED
  BY <1>1, <1>2, <1>3 DEF Tally

\* Every step keeps the tally.
LEMMA TallyNext == Tally /\ [Next]_vars => Tally'
BY JudgedNext, SettledOnceNext, ToldNext DEF Tally

\* The inductive invariant of the turns of the self channel.
THEOREM TallyInvariance == Spec => []Tally
<1>1. Init => Tally
  BY TallyInit
<1>2. Tally /\ [Next]_vars => Tally'
  BY TallyNext
<1>. QED
  BY <1>1, <1>2, PTL DEF Spec

\* Whoever settles them (its run, a sealer, another run, its own timer, a controller),
\* the children of a turn are settled once each, all of them before it is closed.
THEOREM SettledOnceAlways == Spec => []SettledOnce
<1>1. Tally => SettledOnce
  BY DEF Tally
<1>. QED
  BY <1>1, TallyInvariance, PTL

-------------------------------------------------------------------------------
(* What is shown was translated from the text of the moment.               *)

\* The operations are those of the latest text, and none is dropped once its result is
\* shown.
Latest ==
    \A t \in Turn, k \in Child :
        /\ op[t][k].st # "none" => op[t][k].epoch = epoch[t]
        /\ seen[t][k] = <<"translated">> => op[t][k].st # "none" /\ call[t] = "done"

\* A translation is shown by the run of its turn.
LEMMA Shows ==
    ASSUME Tally, [Next]_vars, NEW u \in Turn, NEW k \in Child, seen'[u][k] = <<"translated">>
    PROVE  seen[u][k] = <<"translated">> \/ RunPublish(u, k)
<1>0. Types /\ Course /\ SettledOnce
  BY DEF Tally, Judged, Course
<1>1. ASSUME NEW v \in Turn, NEW kind \in {"source", "cancelled"}, Settle(v, Remaining(v), kind)
      PROVE  seen'[u][k] = seen[u][k]
  <2>1. /\ u # v => seen'[u] = seen[u]
        /\ seen'[v][k] = IF k \in Remaining(v) THEN Append(seen[v][k], kind) ELSE seen[v][k]
    BY <1>0, <1>1 DEF Settle, Types, TypeOK
  <2>2. ASSUME u = v, k \in Remaining(v) PROVE FALSE
    <3>1. seen[u][k] \in Seq({"translated", "failed", "source", "cancelled"})
      BY <1>0 DEF Types, TypeOK
    <3>2. Len(seen[u][k]) = 0
      BY <1>0, <2>2 DEF SettledOnce, Remaining
    <3>3. seen'[u][k] = Append(seen[u][k], kind)
      BY <2>1, <2>2
    <3>4. seen'[u][k][1] = kind
      BY <3>1, <3>2, <3>3
    <3>. QED
      BY <3>4
  <2>. QED
    BY <2>1, <2>2
<1>2. ASSUME NEW v \in Turn, NEW j \in Child, RunPublish(v, j) PROVE seen'[u][k] = seen[u][k] \/ (u = v /\ k = j)
  <2>1. Settle(v, {j}, IF op[v][j].st = "good" THEN "translated" ELSE "failed")
    BY <1>2 DEF RunPublish
  <2>. QED
    BY <1>0, <2>1 DEF Settle, Types, TypeOK
<1>. QED
  BY <1>0, <1>1, <1>2, Settles

\* Every step keeps that.
LEMMA LatestNext == ASSUME Tally, Latest, [Next]_vars PROVE Latest'
<1>0. Types /\ Course /\ Judged
  BY DEF Tally, Judged, Course
<1> SUFFICES ASSUME NEW u \in Turn, NEW k \in Child
             PROVE  /\ op'[u][k].st # "none" => op'[u][k].epoch = epoch'[u]
                    /\ seen'[u][k] = <<"translated">> => op'[u][k].st # "none" /\ call'[u] = "done"
  BY DEF Latest
<1>1. seen'[u][k] = <<"translated">> => seen[u][k] = <<"translated">> \/ RunPublish(u, k)
  BY Shows
<1>2. RunPublish(u, k) => call[u] = "done"
  BY <1>0 DEF RunPublish, At, Course, Courses
<1>3. call[u] = "done" => call'[u] = "done"
  BY <1>0, CallMoves
<1>4. CASE Forgotten(u)
  <2>1. call[u] # "done" /\ op'[u][k] = NoOperation
    BY <1>4 DEF Forgotten
  <2>. QED
    BY <1>1, <1>2, <2>1 DEF Latest, NoOperation
<1>5. CASE epoch'[u] = epoch[u] /\ (op'[u][k] = op[u][k] \/ Started(u, k) \/ Advanced(u, k))
  <2>1. op'[u][k].st # "none" => op'[u][k].epoch = epoch'[u]
    BY <1>5 DEF Latest, Started, Advanced
  <2>2. op[u][k].st # "none" => op'[u][k].st # "none"
    BY <1>5 DEF Started, Advanced
  <2>3. RunPublish(u, k) => op[u][k].st # "none"
    BY DEF RunPublish, Final
  <2>. QED
    BY <1>1, <1>2, <1>3, <2>1, <2>2, <2>3 DEF Latest
<1>. QED
  BY <1>0, <1>4, <1>5, OpMoves

\* A translation that is shown was made of the text as it was last revised.
THEOREM FreshResultsAlways == Spec => []FreshResults
<1>1. Init => Latest
  BY DEF Init, Latest, NoOperation
<1>2. Tally /\ Latest /\ [Next]_vars => Latest'
  BY LatestNext
<1>3. Latest => FreshResults
  BY DEF Latest, FreshResults
<1>. QED
  BY <1>1, <1>2, <1>3, TallyInvariance, PTL DEF Spec

-------------------------------------------------------------------------------
(* The slots and the speculation.                                          *)

\* A turn takes a slot, when it is sealed or when its run is granted it.
Takes(t) ==
    /\ canon' = canon \cup {t} /\ free > 0 /\ free' = free - 1 /\ t \in started'
    /\ \/ /\ call[t] \in {"none", "commit", "lock"} /\ call'[t] \in {"mark", "publish"}
          /\ Open(t) \/ call[t] = "lock"
          /\ UNCHANGED run
       \/ run[t] \in {"slot", "race"} /\ t \notin killed /\ run'[t] = "exec"

\* The run of a turn gives its slot back with its last step.
Returns(t) ==
    run[t] = "drain" /\ t \notin killed /\ run'[t] = "done" /\ GiveBack(t)

\* What happens to the slots.
LEMMA SlotMoves ==
    ASSUME Course, [Next]_vars
    PROVE  \/ UNCHANGED <<canon, free>>
           \/ \E t \in Turn : Takes(t) \/ Returns(t)
<1> DEFINE Q == \/ UNCHANGED <<canon, free>>
                \/ \E t \in Turn : Takes(t) \/ Returns(t)
<1>0. Types /\ Courses
  BY DEF Course
<1>1. UNCHANGED <<canon, free>> => Q
  OBVIOUS
<1>2. ASSUME NEW t \in Turn, NEW r, SealDraft(t, r) \/ (call[t] = "lock" /\ Admit(t, r)),
             UNCHANGED run, call[t] \in {"none", "commit", "lock"}
      PROVE  Q
  <2>1. CASE UNCHANGED <<canon, free>>
    BY <2>1
  <2>2. CASE ~UNCHANGED <<canon, free>>
    <3>1. /\ ~Locked /\ free' = free - 1 /\ canon' = canon \cup {t} /\ started' = started \cup {t}
          /\ Open(t) \/ call[t] = "lock"
          /\ \E W : call' = [call EXCEPT ![t] = IF W = {} THEN "publish" ELSE "mark"]
      BY <1>2, <2>2 DEF SealDraft, Admit, SealerSheds
    <3>2. call'[t] \in {"mark", "publish"}
      BY <1>0, <3>1 DEF Types, TypeOK
    <3>3. free > 0
      <4>1. free \in Nat
        BY <1>0 DEF Types, TypeOK
      <4>. QED
        BY <3>1, <4>1 DEF Locked
    <3>4. Takes(t)
      BY <1>2, <3>1, <3>2, <3>3 DEF Takes
    <3>. QED
      BY <3>4
  <2>. QED
    BY <2>1, <2>2
<1>3. ASSUME NEW t \in Turn, RunGranted(t) PROVE Q
  <2>1. /\ run[t] \in {"slot", "race"} /\ t \notin killed /\ Open(t)
    BY <1>0, <1>3 DEF RunGranted, At, Courses
  <2>2. /\ \E i \in 1 .. Len(queue) : i <= free
        /\ free' = free - 1 /\ canon' = canon \cup {t} /\ MarkStarted(t) /\ Goto(t, "exec")
    BY <1>3, <2>1 DEF RunGranted, Execute
  <2>3. free > 0
    <3>1. free \in Nat /\ Len(queue) \in Nat
      BY <1>0 DEF Types, TypeOK
    <3>. QED
      BY <2>2, <3>1
  <2>4. run'[t] = "exec" /\ t \in started'
    BY <1>0, <2>2 DEF Goto, MarkStarted, Types, TypeOK
  <2>5. Takes(t)
    BY <2>1, <2>2, <2>3, <2>4 DEF Takes
  <2>. QED
    BY <2>5
<1>4. ASSUME NEW t \in Turn, RunDrained(t) PROVE Q
  <2>1. CASE t \in killed
    BY <1>4, <2>1 DEF RunDrained
  <2>2. CASE t \notin killed
    <3>1. Returns(t)
      BY <1>0, <1>4, <2>2 DEF RunDrained, Goto, Returns, Types, TypeOK
    <3>. QED
      BY <3>1
  <2>. QED
    BY <2>1, <2>2
<1>. HIDE DEF Q
<1>5. ASSUME UNCHANGED vars \/ SpeakerStep PROVE Q
  BY <1>1, <1>5, SpeakerKeeps DEF vars, slotVars
<1>6. ASSUME NEW t \in Turn, Commit(t) \/ Seal(t) PROVE Q
  <2>1. CASE Commit(t)
    <3>1. \/ UNCHANGED <<canon, free>>
          \/ SealDraft(t, Speculation) /\ UNCHANGED run /\ call[t] = "none"
      BY <2>1 DEF Commit
    <3>. QED
      BY <1>1, <1>2, <3>1
  <2>2. CASE CommitEnds(t) \/ SealLocked(t)
    <3>1. UNCHANGED run /\ call[t] \in {"none", "commit", "lock"}
      BY <2>2 DEF CommitEnds, SealLocked, runVars
    <3>. QED
      BY <1>2, <2>2, <3>1 DEF CommitEnds, SealLocked
  <2>3. CASE SealerRetires(t) \/ SealerJoins(t) \/ SealerPublishes(t)
    BY <1>1, <2>3 DEF SealerRetires, SealerJoins, SealerPublishes, slotVars
  <2>. QED
    BY <1>6, <2>1, <2>2, <2>3 DEF Seal
<1>7. ASSUME NEW t \in Turn, ExpiryFires(t) \/ ExpiryRetires(t) PROVE Q
  BY <1>1, <1>7, TimerKeeps DEF slotVars
<1>8. ASSUME NEW t \in Turn, Run(t) PROVE Q
  <2>1. CASE ~RunGranted(t) /\ ~RunDrained(t)
    <3>1. UNCHANGED <<canon, free>>
      BY <1>8, <2>1 DEF Run, RunWakes, RunReady, RunGivesUp, RunRetires, RunJoins, RunCancelled,
         RunLeaves, RunUnwound, RunDead, ExecRetry, RunPublish, RunRefused, slotVars
    <3>. QED
      BY <1>1, <3>1
  <2>. QED
    BY <1>3, <1>4, <2>1
<1>9. ASSUME NEW t \in Turn, NEW k \in Child, Provider(t, k) PROVE Q
  BY <1>1, <1>9, ProviderKeeps DEF slotVars
<1>10. ASSUME NEW c \in Controller, CtlBegin(c) \/ Control(c) PROVE Q
  BY <1>1, <1>10, ControllerKeeps DEF slotVars
<1>. QED
  BY <1>5, <1>6, <1>7, <1>8, <1>9, <1>10, StepCases DEF Q

\* A draft stops speculating when it executes, when it is sealed with a slot, or when it
\* has no call any more: its run gives it up or ends.
LEMMA SpecMoves ==
    ASSUME Course, [Next]_vars, spec # NoTurn, spec' # spec
    PROVE  \/ run'[spec] = "exec" /\ spec \in started'
           \/ spec \in canon' /\ call[spec] \in {"none", "commit", "lock"}
           \/ /\ RunGivesUp(spec) \/ RunDrained(spec)
              /\ op'[spec] = op[spec] /\ \A k \in Child : op[spec][k].st \notin {"run", "dying"}
<1> DEFINE Q == \/ run'[spec] = "exec" /\ spec \in started'
                \/ spec \in canon' /\ call[spec] \in {"none", "commit", "lock"}
                \/ /\ RunGivesUp(spec) \/ RunDrained(spec)
                   /\ op'[spec] = op[spec] /\ \A k \in Child : op[spec][k].st \notin {"run", "dying"}
<1>0. Types
  BY DEF Course
<1>1. /\ spec \in Turn /\ Speculation \in Speculations /\ Speculation.spec = spec
      /\ Speculation.op = op
  BY <1>0, SpeculationTypes DEF Types, TypeOK
<1>2. Current(Turn, spec, op) \in Speculations /\ Current(Turn, spec, op).spec = spec
  <2>1. spec \in Turn \cup {NoTurn} /\ op \in [Turn -> Operations] /\ Turn \in SUBSET Turn
    BY <1>0 DEF Types, TypeOK, Operations
  <2>2. Current(Turn, spec, op).spec = spec
    BY <1>0, <2>1, CurrentStarts
  <2>. QED
    BY <1>0, <2>2, SpeculationTypes DEF Types
<1>3. ASSUME NEW t \in Turn, NEW r \in Speculations, r.spec = spec, SealDraft(t, r) \/ Admit(t, r),
             call[t] \in {"none", "commit", "lock"}
      PROVE  Q
  <2>1. Become(r) \/ (Become(Released(t, r)) /\ t \in canon')
    BY <1>3 DEF SealDraft, Admit
  <2>2. PICK q : q = Released(t, r)
    OBVIOUS
  <2>3. r.spec # t => q = r
    BY <1>0, <2>2, ReleasedStarts
  <2>. QED
    BY <1>3, <2>1, <2>2, <2>3 DEF Become
<1>4. ASSUME NEW t \in Turn, Execute(t) PROVE Q
  <2>1. run'[t] = "exec" /\ t \in started'
    BY <1>0, <1>4 DEF Execute, MarkStarted, Goto, Types, TypeOK
  <2>2. PICK q : q = Released(t, Speculation) /\ spec' = q.spec
    BY <1>0, <1>4, ExecuteStarts
  <2>3. spec # t => q = Speculation
    BY <1>0, <1>1, <2>2, ReleasedStarts
  <2>. QED
    BY <1>1, <2>1, <2>2, <2>3
<1>5. ASSUME NEW t \in Turn, Become(Released(t, Speculation)), \A k \in Child : Done(op[t][k]),
             RunGivesUp(t) \/ RunDrained(t)
      PROVE  Q
  <2>1. PICK q : q = Released(t, Speculation) /\ spec' = q.spec /\ op' = q.op
    BY <1>5 DEF Become
  <2>2. (spec # t => q = Speculation) /\ q.op[t] = op[t]
    BY <1>0, <1>1, <2>1, ReleasedStarts
  <2>. QED
    BY <1>1, <1>5, <2>1, <2>2 DEF Done
<1>6. spec' = spec => Q
  OBVIOUS
<1>. HIDE DEF Q
<1>7. ASSUME UNCHANGED vars \/ SpeakerStep PROVE Q
  <2>1. ASSUME NEW t \in Turn, Revised(t) PROVE Q
    BY <1>2, <1>6, <2>1 DEF Revised, Become
  <2>2. CASE ~\E t \in Turn : Revised(t)
    <3>1. spec' = spec
      BY <1>7, <2>2 DEF SpeakerStep, Speak, ManualBegins, ManualEnds, OpenIngress, Rest, Revise,
         Prestart, Superseded, vars
    <3>. QED
      BY <1>6, <3>1
  <2>. QED
    BY <2>1, <2>2
<1>8. ASSUME NEW t \in Turn, Commit(t) \/ Seal(t) PROVE Q
  <2>1. CASE Commit(t)
    BY <1>1, <1>3, <1>6, <2>1 DEF Commit
  <2>2. CASE CommitEnds(t) \/ SealLocked(t)
    BY <1>1, <1>2, <1>3, <2>2 DEF CommitEnds, SealLocked
  <2>3. CASE SealerRetires(t) \/ SealerJoins(t) \/ SealerPublishes(t)
    BY <1>6, <2>3 DEF SealerRetires, SealerJoins, SealerPublishes
  <2>. QED
    BY <1>8, <2>1, <2>2, <2>3 DEF Seal
<1>9. ASSUME NEW t \in Turn, ExpiryFires(t) \/ ExpiryRetires(t) PROVE Q
  BY <1>6, <1>9, TimerKeeps
<1>10. ASSUME NEW t \in Turn, Run(t) PROVE Q
  <2>1. CASE RunWakes(t) \/ RunGranted(t) \/ RunReady(t) \/ RunJoins(t)
    <3>1. spec' = spec \/ Execute(t)
      BY <2>1 DEF RunWakes, RunGranted, RunReady, RunJoins
    <3>. QED
      BY <1>4, <1>6, <3>1
  <2>2. CASE RunGivesUp(t) \/ RunDrained(t)
    <3>1. \/ spec' = spec
          \/ Become(Released(t, Speculation)) /\ \A k \in Child : Done(op[t][k])
      BY <2>2 DEF RunGivesUp, RunDrained
    <3>. QED
      BY <1>5, <1>6, <2>2, <3>1
  <2>3. CASE \/ RunRetires(t) \/ RunCancelled(t) \/ RunLeaves(t) \/ RunUnwound(t) \/ RunDead(t)
             \/ \E k \in Child : ExecRetry(t, k) \/ RunPublish(t, k) \/ RunRefused(t, k)
    BY <1>6, <2>3 DEF RunRetires, RunCancelled, RunLeaves, RunUnwound, RunDead, ExecRetry, RunPublish,
       RunRefused
  <2>. QED
    BY <1>10, <2>1, <2>2, <2>3 DEF Run
<1>11. ASSUME NEW t \in Turn, NEW k \in Child, Provider(t, k) PROVE Q
  BY <1>6, <1>11, ProviderKeeps
<1>12. ASSUME NEW c \in Controller, CtlBegin(c) \/ Control(c) PROVE Q
  BY <1>6, <1>12, ControllerKeeps
<1>. QED
  BY <1>7, <1>8, <1>9, <1>10, <1>11, <1>12, StepCases DEF Q

-------------------------------------------------------------------------------
(* Who may have calls made.                                                *)

\* A run that executes has asked for everything, and is owed what it asked for: it has a
\* slot, or a verdict, or nothing is left to ask.  A run that has ended has nothing left
\* to ask either, unless it ended with a verdict.
Owned ==
    \A t \in Turn :
        /\ run[t] \in {"exec", "unwind"} => \A k \in Child : op[t][k].st # "none"
        /\ run[t] = "exec" => \/ t \in canon \/ terminal[t] # "none"
                              \/ \A k \in Child : op[t][k].st \in {"good", "told"}
        /\ run[t] = "unwind" => \A k \in Child : op[t][k].st \notin {"run", "retry"}
        /\ run[t] \in {"drain", "done"} =>
              terminal[t] # "none" \/ \A k \in Child : op[t][k].st = "told"
        /\ \A k \in Child : op[t][k].st = "run" => t \in canon \cup {spec} \/ terminal[t] # "none"

\* How the operations of a run that executes or has executed come about.
LEMMA OpSteps ==
    ASSUME Tally, [Next]_vars, NEW u \in Turn, run[u] \in {"exec", "unwind"}, NEW k \in Child
    PROVE  op'[u][k] = op[u][k] \/ Started(u, k) \/ Advanced(u, k)
<1>1. call[u] = "done"
  BY DEF Tally, Judged, Course, Courses
<1>2. ~Forgotten(u)
  BY <1>1 DEF Forgotten
<1>. QED
  BY <1>2, OpMoves DEF Tally, Judged

\* Every step keeps that everything was asked for.
LEMMA AskedNext ==
    ASSUME Tally, Owned, [Next]_vars, NEW u \in Turn
    PROVE  /\ run'[u] \in {"exec", "unwind"} => \A k \in Child : op'[u][k].st # "none"
           /\ run'[u] = "exec" => \/ u \in canon' \/ terminal'[u] # "none"
                                  \/ \A k \in Child : op'[u][k].st \in {"good", "told"}
           /\ run'[u] = "unwind" => \A k \in Child : op'[u][k].st \notin {"run", "retry"}
<1>0. Types /\ Course /\ Judged /\ Lasting
  BY Closings DEF Tally, Judged, Course
<1>1. RunMove(u)
  BY <1>0, RunMoves
<1>2. CASE run'[u] = "exec" /\ run[u] # "exec"
  <2>1. Execute(u) /\ (u \in canon' \/ terminal'[u] # "none" \/ Ready(u))
    BY <1>1, <1>2 DEF RunMove
  <2>2. \A k \in Child : op'[u][k] = IF op[u][k].st = "none"
                                     THEN [st |-> "run", epoch |-> epoch[u], guess |-> FALSE]
                                     ELSE op[u][k]
    BY <1>0, <2>1, ExecuteStarts
  <2>3. \A k \in Child : op'[u][k].st # "none"
    BY <2>2
  <2>4. Ready(u) => \A k \in Child : op'[u][k].st \in {"good", "told"}
    BY <2>2 DEF Ready
  <2>. QED
    BY <1>2, <2>1, <2>3, <2>4
<1>3. CASE run'[u] = "exec" /\ run[u] = "exec"
  <2>1. \A k \in Child : op[u][k].st # "none" /\ (op'[u][k] = op[u][k] \/ Started(u, k) \/ Advanced(u, k))
    BY <1>3, OpSteps DEF Owned
  <2>2. \A k \in Child : op'[u][k].st # "none"
    BY <2>1 DEF Started, Advanced
  <2>3. u \in canon => u \in canon'
    BY <1>0, <1>3, SlotMoves DEF Takes, Returns, GiveBack
  <2>4. terminal[u] # "none" => terminal'[u] # "none"
    BY <1>0 DEF Lasting
  <2>5. (\A k \in Child : op[u][k].st \in {"good", "told"}) =>
           \A k \in Child : op'[u][k].st \in {"good", "told"}
    BY <2>1 DEF Started, Advanced
  <2>. QED
    BY <1>3, <2>2, <2>3, <2>4, <2>5 DEF Owned
<1>4. CASE run'[u] = "unwind" /\ run[u] # "unwind"
  <2>1. run[u] = "exec" /\ op' = [op EXCEPT ![u] = CancelCalls(op[u])]
    BY <1>1, <1>4 DEF RunMove
  <2>2. \A k \in Child : op'[u][k].st \notin {"run", "retry"}
    BY <1>0, <1>4, <2>1, CancelledCalls
  <2>3. \A k \in Child : op[u][k].st # "none" /\ (op'[u][k] = op[u][k] \/ Started(u, k) \/ Advanced(u, k))
    BY <2>1, OpSteps DEF Owned
  <2>4. \A k \in Child : op'[u][k].st # "none"
    BY <2>3 DEF Started, Advanced
  <2>. QED
    BY <1>4, <2>2, <2>4
<1>5. CASE run'[u] = "unwind" /\ run[u] = "unwind"
  <2>1. \A k \in Child : op[u][k].st # "none" /\ (op'[u][k] = op[u][k] \/ Started(u, k) \/ Advanced(u, k))
    BY <1>5, OpSteps DEF Owned
  <2>2. \A k \in Child : op'[u][k].st # "none"
    BY <2>1 DEF Started, Advanced
  <2>3. ASSUME NEW k \in Child PROVE op'[u][k].st \notin {"run", "retry"}
    <3>1. op[u][k].st \notin {"run", "retry"}
      BY <1>5 DEF Owned
    <3>. QED
      BY <1>5, <2>1, <3>1 DEF Started, Advanced
  <2>. QED
    BY <1>5, <2>2, <2>3
<1>. QED
  BY <1>2, <1>3, <1>4, <1>5

\* Every step keeps that an ended run has nothing left to ask.
LEMMA EndedNext ==
    ASSUME Tally, Owned, [Next]_vars, NEW u \in Turn, run'[u] \in {"drain", "done"}
    PROVE  terminal'[u] # "none" \/ \A k \in Child : op'[u][k].st = "told"
<1>0. Types /\ Course /\ Judged /\ Lasting /\ Told
  BY Closings DEF Tally, Judged, Course
<1>1. CASE run[u] \in {"drain", "done"}
  <2>1. terminal[u] # "none" => terminal'[u] # "none"
    BY <1>0 DEF Lasting
  <2>2. ASSUME \A k \in Child : op[u][k].st = "told", NEW k \in Child PROVE op'[u][k].st = "told"
    <3>1. op[u][k].st = "told" /\ call[u] = "done"
      BY <1>0, <2>2 DEF Told
    <3>2. ~Forgotten(u)
      BY <3>1 DEF Forgotten
    <3>3. op'[u][k] = op[u][k] \/ Started(u, k) \/ Advanced(u, k)
      BY <1>0, <3>2, OpMoves
    <3>. QED
      BY <3>1, <3>3 DEF Started, Advanced
  <2>. QED
    BY <1>1, <2>1, <2>2 DEF Owned
<1>2. CASE run[u] \notin {"drain", "done"} /\ terminal'[u] = "none"
  <2>1. PICK j \in Child : RunPublish(u, j) /\ Closes(u, {j})
    BY <1>0, <1>2, RunMoves DEF RunMove
  <2>2. run[u] = "exec" /\ u \notin killed /\ Sets(u, j, "told")
    BY <2>1, PublishOnce
  <2>3. op'[u][j].st = "told" /\ \A k \in Child : k # j => op'[u][k] = op[u][k]
    BY <1>0, <2>2, OpUpdate
  <2>4. \A k \in Child : k # j => op[u][k].st = "told"
    BY <1>0, <2>1, <2>2 DEF Told, Closes
  <2>. QED
    BY <2>3, <2>4
<1>. QED
  BY <1>1, <1>2

\* Every step keeps that the calls have an owner.
LEMMA OwnersNext ==
    ASSUME Tally, Owned, [Next]_vars, NEW u \in Turn, NEW k \in Child, op'[u][k].st = "run"
    PROVE  u \in canon' \cup {spec'} \/ terminal'[u] # "none"
<1>0. Types /\ Course /\ Judged /\ Lasting
  BY Closings DEF Tally, Judged, Course
<1>1. u # NoTurn
  BY DEF Turn, NoTurn
<1>2. ASSUME run'[u] = "exec" PROVE u \in canon' \/ terminal'[u] # "none"
  <2>1. op'[u][k].st \notin {"good", "told"}
    OBVIOUS
  <2>. QED
    BY <1>2, <2>1, AskedNext
<1>3. CASE op'[u][k] = op[u][k]
  <2>1. u \in canon \cup {spec} \/ terminal[u] # "none"
    BY <1>3 DEF Owned
  <2>2. CASE terminal[u] # "none"
    BY <1>0, <2>2 DEF Lasting
  <2>3. CASE u \in canon /\ terminal[u] = "none"
    <3>1. run[u] # "drain"
      BY <1>3, <2>3 DEF Owned
    <3>. QED
      BY <1>0, <2>3, <3>1, SlotMoves DEF Takes, Returns, GiveBack
  <2>4. CASE u = spec /\ spec' # spec
    BY <1>0, <1>1, <1>2, <1>3, <2>4, SpecMoves
  <2>. QED
    BY <2>1, <2>2, <2>3, <2>4
<1>4. CASE Started(u, k)
  BY <1>2, <1>4 DEF Started
<1>5. ~Advanced(u, k)
  BY DEF Advanced
<1>6. ~Forgotten(u)
  BY DEF Forgotten, NoOperation
<1>. QED
  BY <1>0, <1>3, <1>4, <1>5, <1>6, OpMoves

\* Every step keeps the ownership.
LEMMA OwnedNext == Tally /\ Owned /\ [Next]_vars => Owned'
<1> SUFFICES ASSUME Tally, Owned, [Next]_vars PROVE Owned'
  OBVIOUS
<1>. QED
  BY AskedNext, EndedNext, OwnersNext DEF Owned

\* Initially there are no calls.
LEMMA OwnedInit == Init => Owned
BY DEF Init, Owned, NoOperation

\* A provider call is made for the speculating draft or for a turn with a slot, whatever
\* was released, granted or cancelled meanwhile, unless there is a verdict on the turn.
THEOREM CallsOwnedAlways == Spec => []CallsOwned
<1>1. Tally /\ Owned => CallsOwned
  <2> SUFFICES ASSUME Tally, Owned, NEW t \in Turn, NEW k \in Child, op[t][k].st = "retry"
               PROVE  t \in canon \cup {spec} \/ terminal[t] # "none"
    BY DEF CallsOwned, Owned
  <2>1. run[t] \in Late
    BY DEF Tally, Told
  <2>2. run[t] = "dead" => terminal[t] # "none"
    BY DEF Tally, Judged, Cuts
  <2>. QED
    BY <2>1, <2>2 DEF Owned, Late
<1>. QED
  BY <1>1, OwnedInit, OwnedNext, TallyInvariance, PTL DEF Spec

-------------------------------------------------------------------------------
(* The account of the slots.                                               *)

\* A sealed turn stays sealed.
LEMMA SealedStays ==
    ASSUME Course, [Next]_vars
    PROVE  \A u \in Turn : call[u] \notin {"none", "commit", "lock"} =>
                              call'[u] \notin {"none", "commit", "lock"}
<1> DEFINE Q == \A u \in Turn : call[u] \notin {"none", "commit", "lock"} =>
                                   call'[u] \notin {"none", "commit", "lock"}
<1>1. UNCHANGED call => Q
  OBVIOUS
<1>2. ASSUME NEW t \in Turn, NEW s, call' = [call EXCEPT ![t] = s],
             call[t] \in {"none", "commit", "lock"} \/ s \notin {"none", "commit", "lock"}
      PROVE  Q
  BY <1>2 DEF Course, Types, TypeOK
<1>. HIDE DEF Q
<1>3. ASSUME NEW t \in Turn, Commit(t) \/ Seal(t) PROVE Q
  <2>1. CASE Commit(t) \/ CommitEnds(t) \/ SealLocked(t)
    <3>1. call[t] \in {"none", "commit", "lock"}
      BY <2>1 DEF Commit, CommitEnds, SealLocked
    <3>2. \E s : call' = [call EXCEPT ![t] = s]
      BY <2>1 DEF Commit, CommitEnds, SealLocked, SealDraft, Admit, SealerSheds
    <3>. QED
      BY <1>2, <3>1, <3>2
  <2>2. CASE SealerRetires(t) \/ SealerJoins(t) \/ SealerPublishes(t)
    <3>1. \E s \in {"join", "publish", "mark", "done"} : call' = [call EXCEPT ![t] = s]
      BY <2>2 DEF SealerRetires, SealerJoins, SealerPublishes, SealerSheds
    <3>. QED
      BY <1>2, <3>1
  <2>. QED
    BY <1>3, <2>1, <2>2 DEF Seal
<1>4. ASSUME NEW t \in Turn, ExpiryFires(t) \/ ExpiryRetires(t) \/ Run(t) PROVE Q
  BY <1>1, <1>4, TimerKeeps, RunKeeps DEF callVars
<1>5. ASSUME NEW t \in Turn, NEW k \in Child, Provider(t, k) PROVE Q
  BY <1>1, <1>5, ProviderKeeps DEF callVars
<1>6. ASSUME NEW c \in Controller, CtlBegin(c) \/ Control(c) PROVE Q
  BY <1>1, <1>6, ControllerKeeps DEF callVars
<1>7. ASSUME UNCHANGED vars \/ SpeakerStep PROVE Q
  BY <1>1, <1>7, SpeakerKeeps DEF vars, callVars
<1>. QED
  BY <1>3, <1>4, <1>5, <1>6, <1>7, StepCases DEF Q

\* What has begun to execute has.
LEMMA StartedStays ==
    ASSUME Course, [Next]_vars PROVE started \subseteq started'
<1>1. ASSUME NEW t \in Turn, Commit(t) \/ Seal(t) PROVE started \subseteq started'
  BY <1>1 DEF Commit, Seal, CommitEnds, SealLocked, SealerRetires, SealerJoins, SealerPublishes,
     SealDraft, Admit, markVars
<1>2. ASSUME NEW t \in Turn, ExpiryFires(t) \/ ExpiryRetires(t) PROVE started \subseteq started'
  BY <1>2, TimerKeeps
<1>3. ASSUME NEW t \in Turn, Run(t) PROVE started \subseteq started'
  <2>1. UNCHANGED started \/ MarkStarted(t)
    BY <1>3 DEF Run, RunWakes, RunGranted, RunReady, RunGivesUp, RunRetires, RunJoins, RunCancelled,
       RunLeaves, RunUnwound, RunDead, RunDrained, ExecRetry, RunPublish, RunRefused, Execute, markVars
  <2>. QED
    BY <2>1 DEF MarkStarted
<1>4. ASSUME NEW t \in Turn, NEW k \in Child, Provider(t, k) PROVE started \subseteq started'
  BY <1>4, ProviderKeeps DEF markVars
<1>5. ASSUME NEW c \in Controller, CtlBegin(c) \/ Control(c) PROVE started \subseteq started'
  BY <1>5, ControllerKeeps
<1>6. ASSUME UNCHANGED vars \/ SpeakerStep PROVE started \subseteq started'
  BY <1>6, SpeakerKeeps DEF vars, markVars
<1>. QED
  BY <1>1, <1>2, <1>3, <1>4, <1>5, <1>6, StepCases

\* The ways out of a cancelled run.
Outs == {"unwind", "leave", "dead"}

\* How a run of a turn ends, and how it comes by a cancellation.
ExitMove(u) ==
    /\ run'[u] \in Outs => run[u] \in Outs \/ u \in killed \/ ParentCancelled(u)
    /\ run'[u] = "leave" /\ run[u] # "leave" => u \in killed
    /\ run'[u] = "dead" /\ run[u] # "dead" => u \notin killed'
    /\ run'[u] \in {"drain", "done"} /\ run[u] \notin {"drain", "done"} =>
          status'[u] # "open" \/ (run[u] = "dead" /\ u \in killed)
    /\ u \in killed' /\ u \notin killed =>
          \/ status'[u] # "open"
          \/ run'[u] = run[u] /\ Open(u) /\ \E c \in Controller : ctl[c].pc \in {"idle", "select"}
    /\ run'[u] = "done" /\ run[u] # "done" => run[u] = "drain" /\ (u \in killed \/ u \notin canon')
    /\ run[u] = "none" => run'[u] \in {"none", "wait"}
    /\ run[u] = "wait" => run'[u] = "wait" \/ u \in killed \/ call[u] = "done"
    /\ run[u] \in {"none", "wait"} /\ u \in canon => run'[u] \in {"none", "wait"} \cup Late

\* Which they all do.
LEMMA ExitMoves == ASSUME Judged, [Next]_vars PROVE \A u \in Turn : ExitMove(u)
<1>0. Lasting /\ Course /\ Types /\ Courses /\ Cuts /\ RunHeads
  BY Closings DEF Judged, Course
<1> DEFINE Q == \A u \in Turn : ExitMove(u)
<1>1. ASSUME \A u \in Turn : run'[u] = run[u] \/ (run[u] = "none" /\ run'[u] = "wait"),
             \A u \in killed' : u \in killed \/ (u \in Turn => status'[u] # "open")
      PROVE  Q
  BY <1>1 DEF ExitMove, Outs, Late
<1>2. ASSUME NEW t \in Turn, NEW r, Goto(t, r),
             run[t] # "none", run[t] = "wait" => t \in killed \/ call[t] = "done",
             r \in Outs => run[t] \in Outs \/ t \in killed \/ ParentCancelled(t),
             r = "leave" => t \in killed,
             r = "dead" => t \notin killed',
             r = "drain" => status'[t] # "open" \/ (run[t] = "dead" /\ t \in killed),
             r = "done" => run[t] = "drain" /\ (t \in killed \/ t \notin canon'),
             t \in canon => run[t] \notin {"none", "wait"} \/ r \in Late,
             \A u \in killed' : u \in killed \/ (u \in Turn => status'[u] # "open")
      PROVE  Q
  <2>1. run'[t] = r /\ \A u \in Turn : u # t => run'[u] = run[u]
    BY <1>0, <1>2 DEF Goto, Types, TypeOK
  <2>2. ExitMove(t)
    BY <1>2, <2>1 DEF ExitMove, Outs
  <2>3. ASSUME NEW u \in Turn, u # t PROVE ExitMove(u)
    <3>1. run'[u] = run[u] /\ (u \in killed' => u \in killed \/ status'[u] # "open")
      BY <1>2, <2>1, <2>3
    <3>. QED
      BY <3>1 DEF ExitMove
  <2>. QED
    BY <2>2, <2>3
<1>3. ASSUME NEW v \in Turn, NEW self, Retire(v, self)
      PROVE  \A u \in killed' : u \in killed \/ (u \in Turn => status'[u] # "open")
  <2>1. status'[v] # "open"
    BY <1>0, <1>3, SettleStatus DEF Retire, endVars, Open
  <2>. QED
    BY <1>3, <2>1 DEF Retire
<1>. HIDE DEF Q
<1>4. ASSUME NEW t \in Turn, NEW compatible, Revision(t, compatible), UNCHANGED killed PROVE Q
  <2>1. \A u \in Turn : run'[u] = run[u] \/ (run[u] = "none" /\ run'[u] = "wait")
    BY <1>0, <1>4 DEF Revision, Types, TypeOK, Courses
  <2>. QED
    BY <1>1, <1>4, <2>1
<1>5. ASSUME SpeakerStep \/ UNCHANGED vars PROVE Q
  <2>1. CASE Speak
    <3>1. next \in Turn
      BY <1>0, <2>1, SizeAssumption DEF Speak, Types, TypeOK, Turn
    <3>. QED
      BY <1>1, <1>4, <2>1, <3>1 DEF Speak
  <2>2. ASSUME NEW t \in Turn, Revise(t) PROVE Q
    BY <1>4, <2>2 DEF Revise
  <2>3. ASSUME NEW t \in Turn, Revised(t) \/ Prestart(t) \/ Superseded(t) PROVE Q
    BY <1>1, <2>3 DEF Revised, Prestart, Superseded, runVars
  <2>4. CASE ManualBegins \/ ManualEnds \/ OpenIngress \/ Rest \/ UNCHANGED vars
    BY <1>1, <2>4 DEF ManualBegins, ManualEnds, OpenIngress, Rest, vars, runVars
  <2>. QED
    BY <1>5, <2>1, <2>2, <2>3, <2>4 DEF SpeakerStep
<1>6. ASSUME NEW t \in Turn, Commit(t) \/ Seal(t) \/ ExpiryFires(t) \/ ExpiryRetires(t) PROVE Q
  <2>1. CASE Commit(t)
    BY <1>1, <1>4, <2>1 DEF Commit
  <2>2. CASE CommitEnds(t) \/ SealLocked(t) \/ SealerJoins(t) \/ SealerPublishes(t) \/ ExpiryFires(t)
    BY <1>1, <2>2 DEF CommitEnds, SealLocked, SealerJoins, SealerPublishes, ExpiryFires, runVars
  <2>3. CASE SealerRetires(t)
    <3>1. Smallest(victims[t]) \in Turn
      BY <1>0, <2>3, SmallestOf DEF SealerRetires, Types, TypeOK, Lists
    <3>. QED
      BY <1>1, <1>3, <2>3, <3>1 DEF SealerRetires
  <2>4. CASE ExpiryRetires(t)
    BY <1>1, <1>3, <2>4 DEF ExpiryRetires
  <2>. QED
    BY <1>6, <2>1, <2>2, <2>3, <2>4 DEF Seal
<1>7. ASSUME NEW t \in Turn, Run(t) PROVE Q
  <2>0. run[t] # "none" /\ (run[t] = "wait" => t \in killed \/ call[t] = "done")
    <3>1. \/ run[t] # "none" /\ (run[t] = "wait" => call[t] = "done")
          \/ t \in killed
      BY <1>7 DEF Run, RunWakes, RunGranted, RunReady, RunGivesUp, RunRetires, RunJoins, RunCancelled,
         RunLeaves, RunUnwound, RunDead, RunDrained, ExecRetry, RunPublish, RunRefused, At
    <3>. QED
      BY <1>0, <3>1 DEF Courses, Live
  <2>1. CASE RunWakes(t)
    <3>1. run[t] = "wait" /\ t \notin killed /\ UNCHANGED killed
      BY <2>1 DEF RunWakes, At
    <3>2. CASE GiveUp(t) /\ ParentCancelled(t)
      BY <1>2, <2>0, <3>1, <3>2 DEF GiveUp, Late
    <3>3. CASE Execute(t)
      BY <1>2, <2>0, <3>1, <3>3 DEF Execute, Late, Outs
    <3>4. CASE t \notin canon /\ (Goto(t, "race") \/ Goto(t, "slot"))
      BY <1>2, <2>0, <3>1, <3>4 DEF Outs
    <3>. QED
      BY <2>1, <3>2, <3>3, <3>4 DEF RunWakes
  <2>2. CASE RunGranted(t) \/ RunReady(t)
    <3>1. run[t] \in {"slot", "race"} /\ t \notin killed /\ Open(t) /\ UNCHANGED killed
      BY <1>0, <2>2 DEF RunGranted, RunReady, At, Courses
    <3>2. Goto(t, "exec")
      BY <2>2, <3>1 DEF RunGranted, RunReady, Execute
    <3>. QED
      BY <1>2, <2>0, <3>1, <3>2 DEF Outs
  <2>3. CASE RunGivesUp(t)
    <3>1. UNCHANGED killed /\ run[t] = "race" /\ (Goto(t, "mark") \/ Goto(t, "race"))
      BY <2>3 DEF RunGivesUp, RunSheds, At
    <3>. QED
      BY <1>2, <2>0, <3>1 DEF Outs
  <2>4. CASE RunRetires(t)
    <3>1. Smallest(shed[t]) \in Turn /\ run[t] = "mark"
      BY <1>0, <2>4, SmallestOf DEF RunRetires, At, Types, TypeOK, Lists
    <3>2. \A u \in killed' : u \in killed \/ (u \in Turn => status'[u] # "open")
      BY <1>3, <2>4, <3>1 DEF RunRetires
    <3>. QED
      BY <1>2, <2>0, <2>4, <3>1, <3>2 DEF RunRetires, Outs
  <2>5. CASE RunJoins(t)
    <3>1. run[t] = "join" /\ t \notin killed /\ UNCHANGED <<status, killed>>
      BY <2>5 DEF RunJoins, At, endVars
    <3>2. \/ Goto(t, "mark") \/ Goto(t, "race") \/ Goto(t, "exec")
          \/ ~Open(t) /\ Goto(t, "drain")
      BY <2>5 DEF RunJoins, RunSheds, Execute
    <3>. QED
      BY <1>2, <2>0, <3>1, <3>2 DEF Outs, Open
  <2>6. CASE RunCancelled(t)
    <3>0. t \in killed /\ UNCHANGED status
      BY <2>6 DEF RunCancelled, endVars
    <3>1. CASE killed' = killed \ {t} /\ GiveUp(t)
      BY <1>2, <2>0, <3>0, <3>1 DEF GiveUp, Late
    <3>2. CASE run[t] = "exec" /\ killed' = killed \ {t} /\ Goto(t, "unwind")
      BY <1>2, <2>0, <3>0, <3>2
    <3>3. CASE UNCHANGED run /\ killed' = killed \ {t}
      BY <1>1, <3>3
    <3>4. CASE run[t] = "dead" /\ killed' = killed \ {t} /\ Goto(t, "drain")
      BY <1>2, <2>0, <3>0, <3>4 DEF Outs
    <3>5. ASSUME NEW v \in Turn, Joins(t, v), killed' = (killed \ {t}) \cup {u \in {v} : Live(u)},
                 Goto(t, "leave")
          PROVE  Q
      <4>1. status[v] = "closed" /\ run[t] = "join"
        BY <1>0, <3>5 DEF RunHeads, Joins
      <4>2. \A u \in killed' : u \in killed \/ status'[u] # "open"
        BY <3>0, <3>5, <4>1
      <4>. QED
        BY <1>2, <2>0, <3>0, <3>5, <4>1, <4>2
    <3>. QED
      BY <2>6, <3>1, <3>2, <3>3, <3>4, <3>5 DEF RunCancelled
  <2>7. CASE RunLeaves(t) \/ RunUnwound(t)
    <3>1. GiveUp(t) /\ UNCHANGED killed /\ run[t] \in Outs /\ t \notin killed
      BY <2>7 DEF RunLeaves, RunUnwound, At, Outs
    <3>. QED
      BY <1>2, <2>0, <3>1 DEF Late, GiveUp
  <2>8. ASSUME NEW k \in Child, RunRefused(t, k) PROVE Q
    <3>1. GiveUp(t) /\ UNCHANGED killed /\ run[t] = "exec" /\ t \notin killed /\ ParentCancelled(t)
      BY <2>8 DEF RunRefused, At, ParentCancelled
    <3>. QED
      BY <1>2, <2>0, <3>1 DEF Late, GiveUp
  <2>9. CASE RunDead(t)
    <3>1. run[t] = "dead" /\ UNCHANGED killed /\ Goto(t, "drain")
      BY <2>9 DEF RunDead, At
    <3>2. status'[t] # "open"
      BY <1>0, <2>9, SettleStatus DEF RunDead, endVars, Open
    <3>. QED
      BY <1>2, <2>0, <3>1, <3>2 DEF Outs
  <2>10. CASE RunDrained(t)
    <3>1. run[t] = "drain" /\ killed' = killed \ {t} /\ Goto(t, "done")
      BY <2>10 DEF RunDrained
    <3>2. t \in killed \/ t \notin canon'
      BY <2>10 DEF RunDrained, GiveBack
    <3>. QED
      BY <1>2, <2>0, <3>1, <3>2 DEF Outs
  <2>11. ASSUME NEW k \in Child, ExecRetry(t, k) PROVE Q
    BY <1>1, <2>11 DEF ExecRetry, runVars
  <2>12. ASSUME NEW k \in Child, RunPublish(t, k) PROVE Q
    <3>1. run[t] = "exec" /\ UNCHANGED killed /\ Open(t)
      BY <1>0, <2>12 DEF RunPublish, At, Courses
    <3>2. CASE Closes(t, {k})
      <4>1. Goto(t, "drain") /\ Settle(t, {k}, IF op[t][k].st = "good" THEN "translated" ELSE "failed")
        BY <2>12, <3>2 DEF RunPublish, Goto
      <4>2. status'[t] # "open"
        BY <1>0, <3>1, <3>2, <4>1, SettleStatus
      <4>. QED
        BY <1>2, <2>0, <3>1, <4>1, <4>2 DEF Outs
    <3>3. CASE ~Closes(t, {k})
      BY <1>1, <2>12, <3>1, <3>3 DEF RunPublish
    <3>. QED
      BY <3>2, <3>3
  <2>. QED
    BY <1>7, <2>1, <2>2, <2>3, <2>4, <2>5, <2>6, <2>7, <2>8, <2>9, <2>10, <2>11, <2>12 DEF Run
<1>8. ASSUME NEW t \in Turn, NEW k \in Child, Provider(t, k) PROVE Q
  BY <1>1, <1>8, ProviderKeeps DEF runVars
<1>9. ASSUME NEW c \in Controller, CtlBegin(c) \/ Control(c) PROVE Q
  <2>0. UNCHANGED run
    BY <1>9, ControllerKeeps
  <2>1. CASE UNCHANGED killed
    BY <1>1, <2>0, <2>1
  <2>2. ASSUME NEW kind, Select(c, kind), ctl[c].pc \in {"idle", "select"} PROVE Q
    <3>1. ASSUME NEW u \in Turn PROVE ExitMove(u)
      <4>1. u \in killed' => u \in killed \/ Open(u)
        BY <2>2 DEF Select, Selected
      <4>. QED
        BY <2>0, <2>2, <4>1 DEF ExitMove
    <3>. QED
      BY <3>1 DEF Q
  <2>3. CASE CtlBegin(c)
    BY <2>1, <2>2, <2>3 DEF CtlBegin, NoCall
  <2>4. CASE CtlSelect(c)
    BY <2>2, <2>4 DEF CtlSelect
  <2>5. CASE CtlReturn(c) \/ CtlClear(c) \/ \E t \in Turn : CtlSettle(c, t)
    BY <2>1, <2>5 DEF CtlReturn, CtlClear, CtlSettle, runVars
  <2>. QED
    BY <1>9, <2>3, <2>4, <2>5 DEF Control
<1>. QED
  BY <1>5, <1>6, <1>7, <1>8, <1>9, StepCases DEF Q

\* Slots are neither made up nor lost; a turn that has one was sealed, began to execute,
\* and does not wait for another.
Account ==
    /\ free + Cardinality(canon) = RunningCapacity
    /\ canon \subseteq started
    /\ \A t \in canon : /\ call[t] \notin {"none", "commit", "lock"}
                        /\ run[t] \in {"none", "wait"} \cup Late

\* Every step keeps the account.
LEMMA AccountNext == ASSUME Judged, Account, [Next]_vars PROVE Account'
<1>0. Course /\ Types /\ Courses
  BY DEF Judged, Course
<1>1. /\ free \in Nat /\ canon \in SUBSET Turn /\ IsFiniteSet(canon)
      /\ Cardinality(canon) \in Nat
  <2>1. IsFiniteSet(Turn)
    BY SizeAssumption, FS_Interval DEF Turn
  <2>2. free \in Nat /\ canon \in SUBSET Turn
    BY <1>0 DEF Types, TypeOK
  <2>. QED
    BY <2>1, <2>2, FS_Subset, FS_CardinalityType
<1>2. started \subseteq started'
  BY <1>0, StartedStays
<1>3. ASSUME NEW t \in canon
      PROVE  /\ call'[t] \notin {"none", "commit", "lock"}
             /\ run'[t] \in {"none", "wait"} \cup Late
  <2>1. t \in Turn
    BY <1>1
  <2>2. call'[t] \notin {"none", "commit", "lock"}
    BY <1>0, <2>1, SealedStays DEF Account
  <2>3. ExitMove(t) /\ RunMove(t)
    BY <2>1, ExitMoves, RunMoves
  <2>. QED
    BY <2>2, <2>3 DEF ExitMove, RunMove, Account
<1>4. CASE UNCHANGED <<canon, free>>
  BY <1>2, <1>3, <1>4 DEF Account
<1>5. ASSUME NEW t \in Turn, Takes(t) PROVE Account'
  <2>1. t \notin canon
    BY <1>5 DEF Takes, Account, Late
  <2>2. Cardinality(canon') = Cardinality(canon) + 1
    BY <1>1, <1>5, <2>1, FS_AddElement DEF Takes
  <2>3. free' + Cardinality(canon') = RunningCapacity
    BY <1>1, <1>5, <2>2 DEF Takes, Account
  <2>4. canon' \subseteq started'
    BY <1>2, <1>5 DEF Takes, Account
  <2>5. call'[t] \notin {"none", "commit", "lock"} /\ run'[t] \in {"none", "wait"} \cup Late
    <3>1. CASE /\ call[t] \in {"none", "commit", "lock"} /\ call'[t] \in {"mark", "publish"}
               /\ UNCHANGED run
      <4>1. run[t] \in {"none", "wait"} \cup Late
        BY <1>0, <3>1 DEF Courses, Types, TypeOK, Late
      <4>. QED
        BY <3>1, <4>1
    <3>2. CASE run[t] \in {"slot", "race"} /\ run'[t] = "exec"
      <4>1. call[t] = "done"
        BY <1>0, <3>2 DEF Courses
      <4>2. call'[t] = "done"
        BY <1>0, <4>1, CallMoves
      <4>. QED
        BY <3>2, <4>2 DEF Late
    <3>. QED
      BY <1>5, <3>1, <3>2 DEF Takes
  <2>6. canon' = canon \cup {t}
    BY <1>5 DEF Takes
  <2>. QED
    BY <1>3, <2>3, <2>4, <2>5, <2>6 DEF Account
<1>6. ASSUME NEW t \in Turn, Returns(t) PROVE Account'
  <2>1. canon' = canon \ {t} /\ free' = IF t \in canon THEN free + 1 ELSE free
    BY <1>6 DEF Returns, GiveBack
  <2>2. free' + Cardinality(canon') = RunningCapacity
    <3>1. CASE t \in canon
      <4>1. Cardinality(canon') = Cardinality(canon) - 1
        BY <1>1, <2>1, <3>1, FS_RemoveElement
      <4>. QED
        BY <1>1, <2>1, <3>1, <4>1 DEF Account
    <3>2. CASE t \notin canon
      <4>1. canon' = canon
        BY <2>1, <3>2
      <4>. QED
        BY <2>1, <3>2, <4>1 DEF Account
    <3>. QED
      BY <3>1, <3>2
  <2>. QED
    BY <1>2, <1>3, <2>1, <2>2 DEF Account
<1>. QED
  BY <1>0, <1>4, <1>5, <1>6, SlotMoves

-------------------------------------------------------------------------------
(* The controllers and the admission lock.                                 *)

\* A turn that is being cancelled is one that a call waits for.
Awaited == \A t \in cancelling : \E c \in Controller : ctl[c].pc = "join" /\ t \in ctl[c].sel

\* While calls come one at a time, a reset or a closing of the ingress keeps drafts out
\* until it returns; a turn that is open behind the block is being cancelled, or its
\* call has yet to see it.
Barred ==
    OneAtATime =>
        /\ \A c \in Controller :
              ctl[c].pc \in {"select", "join"} /\ ctl[c].kind # "speech" => blocked
        /\ blocked => \A t \in Turn : Open(t) => \/ t \in cancelling
                                                 \/ \E c \in Controller : ctl[c].pc = "select"

\* Without manual submissions nobody waits for the admission lock.
Unlocked ==
    manuals = 0 => /\ ~manual
                   /\ \A t \in Turn : call[t] # "lock"
                   /\ \A c \in Controller : ctl[c].pc # "select"

\* A controller's own call of the channel: it begins, selects its turns, ends or clears.
CtlMoves(c) ==
    \/ CtlBegin(c) \/ CtlSelect(c) \/ CtlReturn(c) \/ CtlClear(c)

\* Only those steps, and the reopening of the ingress, change the block and the calls.
LEMMA CtlKeeps ==
    ASSUME [Next]_vars
    PROVE  \/ UNCHANGED <<blocked, ctl>>
           \/ UNCHANGED <<ctl, cancelling>> /\ ~blocked' /\ \A c \in Controller : ctl[c] = NoCall
           \/ \E c \in Controller : CtlMoves(c)
<1>1. ASSUME NEW t \in Turn, Commit(t) \/ Seal(t) \/ ExpiryFires(t) \/ ExpiryRetires(t) \/ Run(t)
      PROVE  UNCHANGED <<blocked, ctl>>
  BY <1>1, SealKeeps, TimerKeeps, RunKeeps DEF ctlVars, Commit
<1>2. ASSUME NEW t \in Turn, NEW k \in Child, Provider(t, k) PROVE UNCHANGED <<blocked, ctl>>
  BY <1>2, ProviderKeeps DEF ctlVars
<1>3. ASSUME NEW c \in Controller, CtlBegin(c) \/ Control(c)
      PROVE  UNCHANGED <<blocked, ctl>> \/ CtlMoves(c)
  BY <1>3 DEF Control, CtlSettle, ctlVars, CtlMoves
<1>4. CASE UNCHANGED vars
  BY <1>4 DEF vars, ctlVars
<1>5. CASE SpeakerStep
  <2>1. CASE OpenIngress
    BY <2>1 DEF OpenIngress
  <2>2. CASE ~OpenIngress
    BY <1>5, <2>2 DEF SpeakerStep, Speak, ManualBegins, ManualEnds, Rest, Revise, Revised, Prestart,
       Superseded, ctlVars, vars
  <2>. QED
    BY <2>1, <2>2
<1>. QED
  BY <1>1, <1>2, <1>3, <1>4, <1>5, StepCases

\* A turn that is being cancelled is until it is closed; which turns are is decided by
\* a controller.
LEMMA CancellingMoves ==
    ASSUME Judged, [Next]_vars, NEW u \in Turn
    PROVE  /\ u \in cancelling => u \in cancelling' \/ status'[u] # "open"
           /\ u \in cancelling' => \/ u \in cancelling
                                   \/ \E c \in Controller : \E kind : Select(c, kind)
<1>0. Types /\ Course /\ Courses
  BY DEF Judged, Course
<1>1. u \in cancelling => u \in cancelling' \/ status'[u] # "open"
  <2>1. ASSUME NEW v \in Turn, NEW S, NEW kind, Open(v), Settle(v, S, kind), u \in cancelling
        PROVE  u \in cancelling' \/ status'[u] # "open"
    <3>1. status'[v] = IF Closes(v, S) THEN "closed" ELSE "open"
      BY <1>0, <2>1, SettleStatus
    <3>. QED
      BY <2>1, <3>1 DEF Settle
  <2>2. ASSUME NEW v \in Turn, NEW k \in Child, RunPublish(v, k)
        PROVE  Open(v) /\ Settle(v, {k}, IF op[v][k].st = "good" THEN "translated" ELSE "failed")
    BY <1>0, <2>2 DEF RunPublish, At, Courses
  <2>. QED
    BY <1>0, <2>1, <2>2, Settles
<1>2. cancelling' \subseteq cancelling \/ \E c \in Controller : \E kind : Select(c, kind)
  <2>0. ASSUME NEW v, NEW self, Retire(v, self) PROVE cancelling' \subseteq cancelling
    BY <2>0 DEF Retire, Settle
  <2>1. ASSUME NEW t \in Turn, Commit(t) \/ Seal(t) \/ ExpiryFires(t) \/ ExpiryRetires(t)
        PROVE  cancelling' \subseteq cancelling
    BY <2>0, <2>1 DEF Commit, Seal, CommitEnds, SealLocked, SealerRetires, SealerJoins, SealerPublishes,
       ExpiryFires, ExpiryRetires
  <2>2. ASSUME NEW t \in Turn, Run(t) PROVE cancelling' \subseteq cancelling
    <3>1. CASE RunRetires(t)
      BY <2>0, <3>1 DEF RunRetires
    <3>2. CASE RunDead(t) \/ \E k \in Child : RunPublish(t, k)
      BY <3>2 DEF RunDead, RunPublish, Settle
    <3>3. CASE ~RunRetires(t) /\ ~RunDead(t) /\ ~\E k \in Child : RunPublish(t, k)
      BY <2>2, <3>3 DEF Run, RunWakes, RunGranted, RunReady, RunGivesUp, RunJoins, RunCancelled,
         RunLeaves, RunUnwound, RunDrained, ExecRetry, RunRefused
    <3>. QED
      BY <3>1, <3>2, <3>3
  <2>3. ASSUME NEW t \in Turn, NEW k \in Child, Provider(t, k) PROVE cancelling' \subseteq cancelling
    BY <2>3, ProviderKeeps
  <2>4. ASSUME NEW c \in Controller, CtlBegin(c) \/ Control(c)
        PROVE  cancelling' \subseteq cancelling \/ \E d \in Controller : \E kind : Select(d, kind)
    BY <2>4 DEF CtlBegin, Control, CtlSelect, CtlSettle, CtlReturn, CtlClear, Settle
  <2>5. CASE UNCHANGED vars \/ SpeakerStep
    BY <2>5, SpeakerKeeps DEF vars
  <2>. QED
    BY <2>1, <2>2, <2>3, <2>4, <2>5, StepCases
<1>. QED
  BY <1>1, <1>2

\* A turn is registered only when the channel is not blocked.
LEMMA Opens ==
    ASSUME Course, [Next]_vars, NEW u \in Turn, status'[u] = "open" PROVE Open(u) \/ ~blocked
<1>0. Types /\ Course
  BY DEF Course
<1>1. ASSUME UNCHANGED status PROVE Open(u)
  BY <1>1 DEF Open
<1>2. ASSUME NEW t, NEW compatible, Revision(t, compatible) PROVE ~blocked
  BY <1>2 DEF Revision, Refused
<1>3. ASSUME NEW v \in Turn, NEW kind, Open(v), Settle(v, Remaining(v), kind) PROVE Open(u)
  <2>1. status'[v] = "closed" /\ \A w \in Turn : w # v => status'[w] = status[w]
    BY <1>0, <1>3, SettleStatus
  <2>. QED
    BY <2>1 DEF Open
<1>4. ASSUME NEW v \in Turn, NEW k \in Child, RunPublish(v, k) PROVE Open(u)
  <2>1. Open(v) /\ Settle(v, {k}, IF op[v][k].st = "good" THEN "translated" ELSE "failed")
    BY <1>4 DEF RunPublish, At, Course, Courses
  <2>2. \A w \in Turn : w # v => status'[w] = status[w]
    BY <1>0, <2>1, SettleStatus
  <2>. QED
    BY <2>1, <2>2 DEF Open
<1>5. CASE UNCHANGED <<completed, seen>>
  <2>1. ASSUME NEW v, NEW self, Retire(v, self) PROVE Open(u)
    <3>1. CASE UNCHANGED status
      BY <1>1, <3>1
    <3>2. CASE Settle(v, Remaining(v), "source") /\ Open(v)
      <4>1. CASE v \in Turn
        BY <1>3, <3>2, <4>1
      <4>2. CASE v \notin Turn
        BY <1>0, <3>2, <4>2 DEF Settle, Types, TypeOK, Open
      <4>. QED
        BY <4>1, <4>2
    <3>. QED
      BY <2>1, <3>1, <3>2 DEF Retire, endVars
  <2>2. ASSUME NEW t \in Turn, Commit(t) \/ Seal(t) \/ ExpiryFires(t) \/ ExpiryRetires(t)
        PROVE  Open(u) \/ ~blocked
    BY <1>1, <1>2, <2>1, <2>2 DEF Commit, Seal, CommitEnds, SealLocked, SealerRetires, SealerJoins,
       SealerPublishes, ExpiryFires, ExpiryRetires, endVars
  <2>3. ASSUME NEW t \in Turn, Run(t) PROVE Open(u)
    <3>1. CASE RunRetires(t)
      BY <2>1, <3>1 DEF RunRetires
    <3>2. CASE RunDead(t)
      <4>1. UNCHANGED status \/ (Open(t) /\ Settle(t, Remaining(t), "cancelled"))
        BY <3>2 DEF RunDead, endVars
      <4>. QED
        BY <1>1, <1>3, <4>1
    <3>3. CASE \E k \in Child : RunPublish(t, k)
      BY <1>4, <3>3
    <3>4. CASE ~RunRetires(t) /\ ~RunDead(t) /\ ~\E k \in Child : RunPublish(t, k)
      <4>1. UNCHANGED status
        BY <2>3, <3>4 DEF Run, RunWakes, RunGranted, RunReady, RunGivesUp, RunJoins, RunCancelled,
           RunLeaves, RunUnwound, RunDrained, ExecRetry, RunRefused, endVars
      <4>. QED
        BY <1>1, <4>1
    <3>. QED
      BY <3>1, <3>2, <3>3, <3>4
  <2>4. ASSUME NEW t \in Turn, NEW k \in Child, Provider(t, k) PROVE Open(u)
    BY <1>1, <2>4, ProviderKeeps DEF endVars
  <2>5. ASSUME NEW c \in Controller, CtlBegin(c) \/ Control(c) PROVE Open(u)
    <3>1. UNCHANGED status \/ \E t \in Turn : Open(t) /\ Settle(t, Remaining(t), "cancelled")
      BY <2>5 DEF CtlBegin, Control, CtlSelect, CtlReturn, CtlClear, CtlSettle, endVars
    <3>. QED
      BY <1>1, <1>3, <3>1
  <2>6. ASSUME SpeakerStep \/ UNCHANGED vars PROVE Open(u) \/ ~blocked
    <3>1. UNCHANGED status \/ \E t, compatible : Revision(t, compatible)
      BY <2>6 DEF SpeakerStep, Speak, ManualBegins, ManualEnds, OpenIngress, Rest, Revise, Revised,
         Prestart, Superseded, vars, endVars
    <3>. QED
      BY <1>1, <1>2, <3>1
  <2>. QED
    BY <2>2, <2>3, <2>4, <2>5, <2>6, StepCases
<1>. QED
  BY <1>0, <1>3, <1>4, <1>5, Settles

\* Every step keeps that who is being cancelled is waited for.
LEMMA AwaitedNext == ASSUME Judged, Awaited, [Next]_vars PROVE Awaited'
<1>0. Types /\ ctl \in [Controller -> Call] /\ Cuts /\ cancelling' \subseteq Turn
  <2>1. Types'
    BY TypesNext DEF Judged, Course
  <2>. QED
    BY <2>1 DEF Judged, Course, Types, TypeOK
<1> SUFFICES ASSUME NEW u \in cancelling'
             PROVE  \E c \in Controller : ctl'[c].pc = "join" /\ u \in ctl'[c].sel
  BY DEF Awaited
<1>1. u \in Turn
  BY <1>0
<1>2. ASSUME NEW c \in Controller, ctl[c].pc # "join" \/ ~Open(u), NEW x, ctl' = [ctl EXCEPT ![c] = x],
             u \in cancelling
      PROVE  \E d \in Controller : ctl'[d].pc = "join" /\ u \in ctl'[d].sel
  <2>1. PICK d \in Controller : ctl[d].pc = "join" /\ u \in ctl[d].sel
    BY <1>2 DEF Awaited
  <2>2. Open(u)
    BY <1>0, <1>1, <1>2 DEF Cuts
  <2>3. d # c
    BY <1>2, <2>1, <2>2
  <2>4. ctl'[d] = ctl[d]
    BY <1>0, <1>2, <2>3
  <2>. QED
    BY <2>1, <2>4
<1>3. ASSUME NEW c \in Controller, NEW kind, Select(c, kind),
             ctl' = ctl \/ ctl[c].pc \in {"idle", "select"}
      PROVE  \E d \in Controller : ctl'[d].pc = "join" /\ u \in ctl'[d].sel
  <2>1. /\ ctl' = [ctl EXCEPT ![c] = [pc |-> "join", kind |-> kind, sel |-> Selected]]
        /\ cancelling' = cancelling \cup Selected
    BY <1>3 DEF Select
  <2>2. CASE u \in Selected
    <3>1. ctl'[c] = [pc |-> "join", kind |-> kind, sel |-> Selected]
      BY <1>0, <2>1
    <3>. QED
      BY <2>2, <3>1
  <2>3. CASE u \in cancelling /\ ctl' = ctl
    BY <2>3 DEF Awaited
  <2>4. CASE u \in cancelling /\ ctl[c].pc \in {"idle", "select"}
    BY <1>2, <2>1, <2>4
  <2>. QED
    BY <1>3, <2>1, <2>2, <2>3, <2>4
<1>4. CASE UNCHANGED <<blocked, ctl>>
  <2>1. u \in cancelling \/ \E c \in Controller : \E kind : Select(c, kind)
    BY <1>1, CancellingMoves
  <2>2. CASE u \in cancelling
    BY <1>4, <2>2 DEF Awaited
  <2>. QED
    BY <1>3, <1>4, <2>1, <2>2
<1>5. CASE UNCHANGED <<ctl, cancelling>>
  BY <1>5 DEF Awaited
<1>6. ASSUME NEW c \in Controller, CtlBegin(c) PROVE \E d \in Controller : ctl'[d].pc = "join" /\ u \in ctl'[d].sel
  <2>1. ctl[c].pc = "idle"
    BY <1>6 DEF CtlBegin, NoCall
  <2>2. \/ \E kind : Select(c, kind)
        \/ UNCHANGED cancelling /\ \E x : ctl' = [ctl EXCEPT ![c] = x]
    BY <1>6 DEF CtlBegin
  <2>. QED
    BY <1>2, <1>3, <2>1, <2>2
<1>7. ASSUME NEW c \in Controller, CtlSelect(c) PROVE \E d \in Controller : ctl'[d].pc = "join" /\ u \in ctl'[d].sel
  BY <1>3, <1>7 DEF CtlSelect
<1>8. ASSUME NEW c \in Controller, CtlReturn(c) PROVE \E d \in Controller : ctl'[d].pc = "join" /\ u \in ctl'[d].sel
  <2>1. u \in cancelling /\ Open(u)
    BY <1>0, <1>1, <1>8 DEF CtlReturn, Cuts
  <2>2. PICK d \in Controller : ctl[d].pc = "join" /\ u \in ctl[d].sel
    BY <2>1 DEF Awaited
  <2>3. d # c
    BY <1>8, <2>1, <2>2 DEF CtlReturn
  <2>4. ctl'[d] = ctl[d]
    BY <1>0, <1>8, <2>3 DEF CtlReturn
  <2>. QED
    BY <2>2, <2>4
<1>9. ASSUME NEW c \in Controller, CtlClear(c) PROVE \E d \in Controller : ctl'[d].pc = "join" /\ u \in ctl'[d].sel
  BY <1>2, <1>9 DEF CtlClear
<1>. QED
  BY <1>4, <1>5, <1>6, <1>7, <1>8, <1>9, CtlKeeps DEF CtlMoves

\* Every step keeps the block.
LEMMA BarredNext == ASSUME Judged, Barred, [Next]_vars PROVE Barred'
<1>0. Types /\ Course /\ ctl \in [Controller -> Call]
  BY DEF Judged, Course, Types, TypeOK
<1> DEFINE Holds == \A c \in Controller :
                       ctl'[c].pc \in {"select", "join"} /\ ctl'[c].kind # "speech" => blocked'
           Bars == blocked' => \A t \in Turn : status'[t] = "open" =>
                      \/ t \in cancelling'
                      \/ \E c \in Controller : ctl'[c].pc = "select"
<1> SUFFICES ASSUME OneAtATime PROVE Holds /\ Bars
  BY DEF Barred, OneAtATime, Open
<1>1. CASE UNCHANGED <<blocked, ctl>>
  <2>1. ASSUME blocked', NEW t \in Turn, status'[t] = "open"
        PROVE  t \in cancelling' \/ \E c \in Controller : ctl'[c].pc = "select"
    <3>1. Open(t)
      BY <1>0, <1>1, <2>1, Opens
    <3>2. t \in cancelling \/ \E c \in Controller : ctl[c].pc = "select"
      BY <1>1, <2>1, <3>1 DEF Barred
    <3>. QED
      BY <1>1, <2>1, <3>2, CancellingMoves
  <2>. QED
    BY <1>1, <2>1 DEF Barred
<1>2. CASE UNCHANGED <<ctl, cancelling>> /\ ~blocked' /\ \A c \in Controller : ctl[c] = NoCall
  BY <1>2 DEF NoCall
<1>3. ASSUME NEW c \in Controller, NEW x, ctl' = [ctl EXCEPT ![c] = x]
      PROVE  \A d \in Controller : ctl'[d] = x
  BY <1>0, <1>3 DEF OneAtATime
<1>4. ASSUME NEW c \in Controller, NEW kind, Select(c, kind), UNCHANGED status,
             kind # "speech" => blocked'
      PROVE  Holds /\ Bars
  <2>1. \A d \in Controller : ctl'[d] = [pc |-> "join", kind |-> kind, sel |-> Selected]
    BY <1>3, <1>4 DEF Select
  <2>2. \A t \in Turn : status'[t] = "open" => t \in cancelling'
    BY <1>4 DEF Select, Selected, Open
  <2>. QED
    BY <1>4, <2>1, <2>2
<1>5. ASSUME NEW c \in Controller, CtlBegin(c) PROVE Holds /\ Bars
  <2>1. PICK kind : /\ blocked' = (blocked \/ kind # "speech")
                    /\ \/ Select(c, kind)
                       \/ ctl' = [ctl EXCEPT ![c] = [pc |-> "select", kind |-> kind, sel |-> {}]]
    BY <1>5 DEF CtlBegin
  <2>2. UNCHANGED status
    BY <1>5 DEF CtlBegin, endVars
  <2>3. CASE ctl' = [ctl EXCEPT ![c] = [pc |-> "select", kind |-> kind, sel |-> {}]]
    <3>1. \A d \in Controller : ctl'[d] = [pc |-> "select", kind |-> kind, sel |-> {}]
      BY <1>3, <2>3
    <3>2. \A d \in Controller : ctl'[d].pc = "select" /\ ctl'[d].kind = kind
      BY <3>1
    <3>3. ctl'[c].pc = "select"
      BY <3>2
    <3>4. Bars
      BY <3>3
    <3>5. kind # "speech" => blocked'
      BY <2>1
    <3>6. Holds
      BY <3>2, <3>5
    <3>. QED
      BY <3>4, <3>6
  <2>. QED
    BY <1>4, <2>1, <2>2, <2>3
<1>6. ASSUME NEW c \in Controller, CtlSelect(c) PROVE Holds /\ Bars
  <2>1. ctl[c].pc = "select" /\ Select(c, ctl[c].kind) /\ UNCHANGED <<status, blocked>>
    BY <1>6 DEF CtlSelect, endVars
  <2>2. ctl[c].kind # "speech" => blocked'
    BY <2>1 DEF Barred
  <2>. QED
    BY <1>4, <2>1, <2>2
<1>7. ASSUME NEW c \in Controller, CtlReturn(c) PROVE Holds /\ Bars
  <2>1. /\ ctl[c].pc = "join" /\ UNCHANGED <<status, cancelling>>
        /\ ctl[c].kind = "speech" => blocked' = blocked
    BY <1>7 DEF CtlReturn, Joined, endVars
  <2>2. PICK x : ctl' = [ctl EXCEPT ![c] = x] /\ x.pc \in {"idle", "clear"}
    <3>1. ctl' = [ctl EXCEPT ![c] = IF ctl[c].kind = "ingress" THEN NoCall
                                    ELSE [ctl[c] EXCEPT !.pc = "clear", !.sel = {}]]
      BY <1>7 DEF CtlReturn
    <3>2. ctl[c] \in Call
      BY <1>0
    <3>3. [ctl[c] EXCEPT !.pc = "clear", !.sel = {}].pc = "clear" /\ NoCall.pc = "idle"
      BY <3>2 DEF Call, NoCall
    <3>. QED
      BY <3>1, <3>3
  <2>3. \A d \in Controller : ctl'[d] = x
    BY <1>3, <2>2
  <2>4. blocked' => blocked
    BY <2>1 DEF Barred
  <2>5. \A d \in Controller : ctl[d].pc # "select"
    BY <2>1 DEF OneAtATime
  <2>6. Holds
    BY <2>2, <2>3
  <2>7. Bars
    BY <2>1, <2>4, <2>5 DEF Barred, Open
  <2>. QED
    BY <2>6, <2>7
<1>8. ASSUME NEW c \in Controller, CtlClear(c) PROVE Holds /\ Bars
  <2>1. /\ ctl[c].pc = "clear" /\ UNCHANGED <<status, cancelling, blocked>>
        /\ ctl' = [ctl EXCEPT ![c] = NoCall]
    BY <1>8 DEF CtlClear, endVars
  <2>2. \A d \in Controller : ctl'[d] = NoCall
    BY <1>3, <2>1
  <2>3. \A d \in Controller : ctl[d].pc # "select"
    BY <2>1 DEF OneAtATime
  <2>. QED
    BY <2>1, <2>2, <2>3 DEF Barred, Open, NoCall
<1>. QED
  BY <1>1, <1>2, <1>5, <1>6, <1>7, <1>8, CtlKeeps DEF CtlMoves

\* Every step keeps that nobody waits for the admission lock without manual submissions.
LEMMA UnlockedNext == ASSUME Types, Unlocked, [Next]_vars PROVE Unlocked'
<1>0. ctl \in [Controller -> Call] /\ manuals \in Nat
  BY BoundAssumption DEF Types, TypeOK
<1> DEFINE Lifted == /\ manual' => manual
                     /\ \A t \in Turn : call'[t] = "lock" => call[t] = "lock" \/ manual
                     /\ \A c \in Controller : ctl'[c].pc = "select" => ctl[c].pc = "select" \/ manual
           Q == manuals' # 0 \/ (manuals' = manuals /\ Lifted)
<1>1. UNCHANGED <<manual, manuals, call, ctl>> => Q
  OBVIOUS
<1>2. ASSUME NEW t \in Turn, NEW s, call' = [call EXCEPT ![t] = s], s = "lock" => manual,
             UNCHANGED <<manual, manuals, ctl>>
      PROVE  Q
  BY <1>2 DEF Types, TypeOK
<1>3. ASSUME NEW c \in Controller, NEW x, ctl' = [ctl EXCEPT ![c] = x], x.pc = "select" => manual,
             UNCHANGED <<manual, manuals, call>>
      PROVE  Q
  BY <1>0, <1>3
<1>4. ASSUME ManualBegins PROVE Q
  BY <1>0, <1>4 DEF ManualBegins
<1>5. ASSUME ManualEnds PROVE Q
  BY <1>5 DEF ManualEnds, callVars, ctlVars
<1>. HIDE DEF Q
<1>6. ASSUME UNCHANGED vars \/ SpeakerStep PROVE Q
  <2>1. ManualBegins \/ ManualEnds \/ UNCHANGED <<manual, manuals, call, ctl>>
    BY <1>6 DEF SpeakerStep, Speak, OpenIngress, Rest, Revise, Revised, Prestart, Superseded,
       speakerVars, callVars, ctlVars, vars
  <2>. QED
    BY <1>1, <1>4, <1>5, <2>1
<1>7. ASSUME NEW t \in Turn, Commit(t) \/ Seal(t) PROVE Q
  <2>0. UNCHANGED <<manual, manuals, ctl>>
    BY <1>7, SealKeeps DEF Commit, ctlVars
  <2>1. ASSUME NEW r, SealDraft(t, r) \/ Admit(t, r) PROVE Q
    <3>1. CASE (Open(t) /\ ~manual) \/ Admit(t, r)
      <4>1. \E W : call' = [call EXCEPT ![t] = IF W = {} THEN "publish" ELSE "mark"]
        BY <2>1, <3>1 DEF SealDraft, Admit, SealerSheds
      <4>. QED
        BY <1>2, <2>0, <4>1
    <3>2. CASE ~(Open(t) /\ ~manual) /\ SealDraft(t, r)
      <4>1. call' = [call EXCEPT ![t] = IF Open(t) THEN "lock" ELSE "done"]
        BY <3>2 DEF SealDraft
      <4>. QED
        BY <1>2, <2>0, <3>2, <4>1
    <3>. QED
      BY <2>1, <3>1, <3>2
  <2>2. CASE Commit(t) \/ CommitEnds(t) \/ SealLocked(t)
    <3>1. (\E r : SealDraft(t, r) \/ Admit(t, r)) \/ call' = [call EXCEPT ![t] = "commit"]
      BY <2>2 DEF Commit, CommitEnds, SealLocked
    <3>. QED
      BY <1>2, <2>0, <2>1, <3>1
  <2>3. CASE SealerRetires(t) \/ SealerJoins(t) \/ SealerPublishes(t)
    <3>1. \E s \in {"join", "publish", "mark", "done"} : call' = [call EXCEPT ![t] = s]
      BY <2>3 DEF SealerRetires, SealerJoins, SealerPublishes, SealerSheds
    <3>. QED
      BY <1>2, <2>0, <3>1
  <2>. QED
    BY <1>7, <2>2, <2>3 DEF Seal
<1>8. ASSUME NEW t \in Turn, ExpiryFires(t) \/ ExpiryRetires(t) \/ Run(t) PROVE Q
  BY <1>1, <1>8, TimerKeeps, RunKeeps DEF speakerVars, callVars, ctlVars
<1>9. ASSUME NEW t \in Turn, NEW k \in Child, Provider(t, k) PROVE Q
  BY <1>1, <1>9, ProviderKeeps DEF speakerVars, callVars, ctlVars
<1>10. ASSUME NEW c \in Controller, CtlBegin(c) \/ Control(c) PROVE Q
  <2>0. UNCHANGED <<manual, manuals, call>>
    BY <1>10, ControllerKeeps DEF callVars
  <2>1. ASSUME NEW kind, Select(c, kind) PROVE Q
    <3>1. ctl' = [ctl EXCEPT ![c] = [pc |-> "join", kind |-> kind, sel |-> Selected]]
      BY <2>1 DEF Select
    <3>. QED
      BY <1>3, <2>0, <3>1
  <2>2. CASE CtlBegin(c)
    <3>1. (\E kind : Select(c, kind))
          \/ (manual /\ \E kind : ctl' = [ctl EXCEPT ![c] = [pc |-> "select", kind |-> kind, sel |-> {}]])
      BY <2>2 DEF CtlBegin
    <3>. QED
      BY <1>3, <2>0, <2>1, <3>1
  <2>3. CASE CtlSelect(c)
    BY <2>1, <2>3 DEF CtlSelect
  <2>4. CASE CtlReturn(c)
    <3>1. ctl' = [ctl EXCEPT ![c] = IF ctl[c].kind = "ingress" THEN NoCall
                                    ELSE [ctl[c] EXCEPT !.pc = "clear", !.sel = {}]]
      BY <2>4 DEF CtlReturn
    <3>2. ctl[c] \in Call
      BY <1>0
    <3>3. [ctl[c] EXCEPT !.pc = "clear", !.sel = {}].pc = "clear" /\ NoCall.pc = "idle"
      BY <3>2 DEF Call, NoCall
    <3>. QED
      BY <1>3, <2>0, <3>1, <3>3
  <2>5. CASE CtlClear(c)
    <3>1. ctl' = [ctl EXCEPT ![c] = NoCall] /\ NoCall.pc = "idle"
      BY <2>5 DEF CtlClear, NoCall
    <3>. QED
      BY <1>3, <2>0, <3>1
  <2>6. ASSUME NEW t \in Turn, CtlSettle(c, t) PROVE Q
    BY <1>1, <2>6 DEF CtlSettle, speakerVars, callVars, ctlVars
  <2>. QED
    BY <1>10, <2>2, <2>3, <2>4, <2>5, <2>6 DEF Control
<1>. QED
  BY <1>6, <1>7, <1>8, <1>9, <1>10, StepCases DEF Q, Unlocked

-------------------------------------------------------------------------------
(* The ends of the runs.                                                   *)

\* While calls come one at a time and nothing is submitted by hand, a run on its way out
\* is of a turn that is closed or is being cancelled, a run that has ended is of a closed
\* turn, and a turn whose run has ended has no slot but for a verdict on it.
Exits ==
    OneAtATime /\ manuals = 0 =>
        \A t \in Turn :
            /\ run[t] \in Outs => ~Open(t) \/ t \in cancelling
            /\ run[t] \in {"dead", "drain"} /\ t \in killed => ~Open(t)
            /\ run[t] \in {"drain", "done"} => ~Open(t)
            /\ t \in canon => Live(t) \/ terminal[t] \in Verdict

\* Every step keeps that.
LEMMA ExitsNext ==
    ASSUME Judged, Account, Awaited, Barred, Unlocked, Exits, [Next]_vars PROVE Exits'
<1>0. Types /\ Course /\ Courses /\ Cuts /\ Lasting
  BY Closings DEF Judged, Course
<1>1. Courses' /\ Cuts' /\ Types' /\ Unlocked'
  BY <1>0, JudgedNext, UnlockedNext DEF Judged, Course
<1> SUFFICES ASSUME OneAtATime, manuals' = 0, NEW u \in Turn
             PROVE  /\ run'[u] \in Outs => status'[u] # "open" \/ u \in cancelling'
                    /\ run'[u] \in {"dead", "drain"} /\ u \in killed' => status'[u] # "open"
                    /\ run'[u] \in {"drain", "done"} => status'[u] # "open"
                    /\ u \in canon' => run'[u] \notin {"none", "done"} \/ terminal'[u] \in Verdict
  BY DEF Exits, OneAtATime, Open, Live
<1>2. manuals = 0
  <2>1. manuals \in Nat
    BY <1>0, BoundAssumption DEF Types, TypeOK
  <2>2. UNCHANGED manuals \/ ManualBegins
    <3>1. CASE UNCHANGED vars \/ SpeakerStep
      BY <3>1 DEF SpeakerStep, Speak, ManualEnds, OpenIngress, Rest, Revise, Revised, Prestart, Superseded,
         speakerVars, vars
    <3>2. ASSUME NEW t \in Turn, Commit(t) \/ Seal(t) \/ ExpiryFires(t) \/ ExpiryRetires(t) \/ Run(t)
          PROVE  UNCHANGED manuals
      BY <3>2, SealKeeps, TimerKeeps, RunKeeps DEF Commit, speakerVars
    <3>3. ASSUME NEW t \in Turn, NEW k \in Child, Provider(t, k) PROVE UNCHANGED manuals
      BY <3>3, ProviderKeeps DEF speakerVars
    <3>4. ASSUME NEW c \in Controller, CtlBegin(c) \/ Control(c) PROVE UNCHANGED manuals
      BY <3>4, ControllerKeeps
    <3>. QED
      BY <3>1, <3>2, <3>3, <3>4, StepCases
  <2>3. ~ManualBegins
    BY <2>1 DEF ManualBegins
  <2>. QED
    BY <2>2, <2>3
<1>3. /\ run[u] \in Outs => ~Open(u) \/ u \in cancelling
      /\ run[u] \in {"dead", "drain"} /\ u \in killed => ~Open(u)
      /\ run[u] \in {"drain", "done"} => ~Open(u)
      /\ u \in canon => Live(u) \/ terminal[u] \in Verdict
  BY <1>2 DEF Exits
<1>4. /\ ExitMove(u) /\ RunMove(u)
      /\ u \in cancelling => u \in cancelling' \/ status'[u] # "open"
  BY <1>0, ExitMoves, RunMoves, CancellingMoves
<1>5. run[u] # "none" /\ ~Open(u) => status[u] = "closed" /\ status'[u] # "open"
  BY <1>0 DEF Courses, Types, TypeOK, Open, Lasting
<1>6. \A c \in Controller : ctl[c].pc # "select"
  BY <1>2 DEF Unlocked
<1>7. blocked /\ Open(u) => u \in cancelling
  BY <1>6 DEF Barred
<1>8. ASSUME NEW c \in Controller, ctl[c].pc = "idle" PROVE u \notin cancelling
  BY <1>8 DEF Awaited, OneAtATime
<1>9. ASSUME run'[u] \in Outs PROVE status'[u] # "open" \/ u \in cancelling'
  <2>1. run[u] \in Outs \/ u \in killed \/ ParentCancelled(u)
    BY <1>4, <1>9 DEF ExitMove
  <2>2. ~Open(u) \/ u \in cancelling
    BY <1>0, <1>3, <1>7, <2>1 DEF ParentCancelled, ChildCancelled, Cuts, Open
  <2>3. run[u] # "none"
    BY <1>4, <1>9 DEF ExitMove, Outs
  <2>. QED
    BY <1>4, <1>5, <2>2, <2>3
<1>10. ASSUME run'[u] \in {"drain", "done"} PROVE status'[u] # "open"
  <2>1. CASE run[u] \in {"drain", "done"}
    BY <1>3, <1>5, <2>1
  <2>2. CASE run[u] = "dead" /\ u \in killed
    BY <1>3, <1>5, <2>2
  <2>. QED
    BY <1>4, <1>10, <2>1, <2>2 DEF ExitMove
<1>11. ASSUME run'[u] = "dead", u \in killed' PROVE status'[u] # "open"
  <2>1. run[u] = "dead"
    BY <1>4, <1>11 DEF ExitMove
  <2>2. CASE u \in killed
    BY <1>3, <1>5, <2>1, <2>2
  <2>3. CASE u \notin killed /\ Open(u)
    <3>1. u \in cancelling
      BY <1>3, <2>1, <2>3 DEF Outs
    <3>2. \A c \in Controller : ctl[c].pc \notin {"idle", "select"}
      BY <1>6, <1>8, <3>1
    <3>. QED
      BY <1>4, <1>11, <2>3, <3>2 DEF ExitMove
  <2>. QED
    BY <1>5, <2>1, <2>2, <2>3
<1>12. ASSUME u \in canon', run'[u] \in {"none", "done"} PROVE terminal'[u] \in Verdict
  <2>1. CASE u \in canon
    <3>1. CASE run[u] \in {"none", "done"}
      BY <1>0, <1>3, <2>1, <3>1 DEF Live, Lasting
    <3>2. CASE run[u] \notin {"none", "done"}
      <4>1. run'[u] = "done"
        BY <1>0, <1>1, <1>12, <3>2 DEF Courses, Lasting
      <4>2. run[u] = "drain" /\ u \in killed
        BY <1>4, <1>12, <3>2, <4>1 DEF ExitMove
      <4>3. terminal[u] \in Verdict
        BY <1>0, <1>3, <4>2 DEF Cuts
      <4>. QED
        BY <1>0, <4>3 DEF Lasting
    <3>. QED
      BY <3>1, <3>2
  <2>2. CASE u \notin canon
    <3>1. Takes(u)
      BY <1>0, <1>12, <2>2, SlotMoves DEF Takes, Returns, GiveBack
    <3>2. call[u] # "lock"
      BY <1>2 DEF Unlocked
    <3>3. Open(u) /\ UNCHANGED run
      BY <1>12, <3>1, <3>2 DEF Takes
    <3>4. run[u] \notin {"none", "done"}
      BY <1>0, <1>3, <3>3 DEF Courses, Open
    <3>. QED
      BY <1>12, <3>3, <3>4
  <2>. QED
    BY <2>1, <2>2
<1>. QED
  BY <1>9, <1>10, <1>11, <1>12

\* Every step keeps what the slots and the block rest on.
LEMMA EndsNext ==
    Judged /\ Account /\ Awaited /\ Barred /\ Unlocked /\ Exits /\ [Next]_vars =>
        Account' /\ Awaited' /\ Barred' /\ Unlocked' /\ Exits'
BY AccountNext, AwaitedNext, BarredNext, UnlockedNext, ExitsNext DEF Judged, Course

\* Initially all slots are free and nobody calls.
LEMMA EndsInit == Init => Account /\ Awaited /\ Barred /\ Unlocked /\ Exits
<1> SUFFICES ASSUME Init PROVE Account /\ Awaited /\ Barred /\ Unlocked /\ Exits
  OBVIOUS
<1>1. Account
  <2>1. Cardinality({}) = 0 /\ RunningCapacity \in Nat
    BY FS_EmptySet, CapacityAssumption
  <2>. QED
    BY <2>1 DEF Init, Account
<1>. QED
  BY <1>1 DEF Init, Awaited, Barred, Unlocked, Exits, NoCall, Outs

\* The inductive invariant of the slots and of the calls that cancel the channel.
THEOREM EndsInvariance == Spec => [](Judged /\ Account /\ Awaited /\ Barred /\ Unlocked /\ Exits)
<1>1. Init => Judged /\ Account /\ Awaited /\ Barred /\ Unlocked /\ Exits
  BY JudgedInit, EndsInit
<1>2. /\ Judged /\ Account /\ Awaited /\ Barred /\ Unlocked /\ Exits
      /\ [Next]_vars
      => (Judged /\ Account /\ Awaited /\ Barred /\ Unlocked /\ Exits)'
  BY JudgedNext, EndsNext
<1>. QED
  BY <1>1, <1>2, PTL DEF Spec

\* No slot is made up: those that are free and those turns have add up to
\* self_speech_running_capacity, a slot is for a turn whose execution began, and an ended
\* run has given its slot back, but for the exceptions SlotAccounting names.
THEOREM SlotAccountingAlways == Spec => []SlotAccounting
<1>1. Judged /\ Account /\ Exits => SlotAccounting
  <2> SUFFICES ASSUME Judged, Account, Exits, manuals = 0, OneAtATime, NEW t \in canon
               PROVE  Live(t) \/ terminal[t] \in {"expired", "failed"}
    BY DEF Account, SlotAccounting
  <2>1. t \in Turn
    BY DEF Judged, Course, Types, TypeOK
  <2>. QED
    BY <2>1 DEF Exits, Verdict
<1>. QED
  BY <1>1, EndsInvariance, PTL

\* When closing the self ingress has returned no turn is open, and no run of one can make
\* another call, unless calls that cancel the channel overlapped.
THEOREM DrainedWhenShutAlways == Spec => []DrainedWhenShut
<1>1. Judged /\ Awaited /\ Barred => DrainedWhenShut
  <2> SUFFICES ASSUME Judged, Awaited, Barred, OneAtATime, blocked,
                      \A c \in Controller : ctl[c] = NoCall, NEW t \in Turn
               PROVE  /\ ~Open(t)
                      /\ run[t] \in {"wait", "slot", "race", "exec"} => t \in killed
    BY DEF DrainedWhenShut
  <2>1. \A c \in Controller : ctl[c].pc = "idle"
    BY DEF NoCall
  <2>2. ~Open(t)
    BY <2>1 DEF Barred, Awaited
  <2>. QED
    BY <2>2 DEF Judged, Course, Courses
<1>. QED
  BY <1>1, EndsInvariance, PTL

-------------------------------------------------------------------------------
(* The speculation is taken up.                                            *)

\* A commit does not begin anew.
LEMMA CallBegins ==
    ASSUME Course, [Next]_vars, NEW u \in Turn
    PROVE  /\ call'[u] = "none" => call[u] = "none"
           /\ call'[u] = "commit" => call[u] \in {"none", "commit"}
<1> DEFINE Q == /\ call'[u] = "none" => call[u] = "none"
                /\ call'[u] = "commit" => call[u] \in {"none", "commit"}
<1>0. UNCHANGED call => Q
  OBVIOUS
<1>1. ASSUME NEW t \in Turn, NEW s, s # "none", s = "commit" => call[t] = "none",
             call' = [call EXCEPT ![t] = s]
      PROVE  Q
  BY <1>1 DEF Course, Types, TypeOK
<1>. HIDE DEF Q
<1>2. ASSUME NEW t \in Turn, Commit(t) \/ Seal(t) PROVE Q
  <2>1. \/ call' = [call EXCEPT ![t] = "commit"] /\ call[t] = "none"
        \/ \E s \in {"lock", "join", "done"} : call' = [call EXCEPT ![t] = s]
        \/ \E W : call' = [call EXCEPT ![t] = IF W = {} THEN "publish" ELSE "mark"]
    BY <1>2 DEF Commit, Seal, CommitEnds, SealLocked, SealerRetires, SealerJoins, SealerPublishes,
       SealDraft, Admit, SealerSheds
  <2>. QED
    BY <1>1, <2>1
<1>3. ASSUME NEW t \in Turn, ExpiryFires(t) \/ ExpiryRetires(t) \/ Run(t) PROVE Q
  BY <1>0, <1>3, TimerKeeps, RunKeeps DEF callVars
<1>4. ASSUME NEW t \in Turn, NEW k \in Child, Provider(t, k) PROVE Q
  BY <1>0, <1>4, ProviderKeeps DEF callVars
<1>5. ASSUME NEW c \in Controller, CtlBegin(c) \/ Control(c) PROVE Q
  BY <1>0, <1>5, ControllerKeeps DEF callVars
<1>6. ASSUME UNCHANGED vars \/ SpeakerStep PROVE Q
  BY <1>0, <1>6, SpeakerKeeps DEF vars, callVars
<1>. QED
  BY <1>2, <1>3, <1>4, <1>5, <1>6, StepCases DEF Q

\* The speaker fills one buffer after the other, or the buffer is taken away.
LEMMA BufferMoves ==
    ASSUME [Next]_vars
    PROVE  Speak \/ (next' = next /\ buffer' \in {buffer, NoTurn})
<1>1. ASSUME NEW t \in Turn, Commit(t) \/ Seal(t) \/ ExpiryFires(t) \/ ExpiryRetires(t) \/ Run(t)
      PROVE  next' = next /\ buffer' \in {buffer, NoTurn}
  <2>1. CASE Commit(t) \/ CommitEnds(t)
    BY <2>1 DEF Commit, CommitEnds, SealDraft
  <2>2. CASE SealLocked(t) \/ SealerRetires(t) \/ SealerJoins(t) \/ SealerPublishes(t)
    BY <2>2 DEF SealLocked, SealerRetires, SealerJoins, SealerPublishes, speakerVars
  <2>3. CASE ExpiryFires(t) \/ ExpiryRetires(t) \/ Run(t)
    BY <2>3, TimerKeeps, RunKeeps DEF speakerVars
  <2>. QED
    BY <1>1, <2>1, <2>2, <2>3 DEF Seal
<1>2. ASSUME NEW t \in Turn, NEW k \in Child, Provider(t, k)
      PROVE  next' = next /\ buffer' \in {buffer, NoTurn}
  BY <1>2, ProviderKeeps DEF speakerVars
<1>3. ASSUME NEW c \in Controller, CtlBegin(c) \/ Control(c)
      PROVE  next' = next /\ buffer' \in {buffer, NoTurn}
  BY <1>3 DEF CtlBegin, Control, CtlSelect, CtlReturn, CtlClear, CtlSettle, speakerVars
<1>4. CASE SpeakerStep \/ UNCHANGED vars
  BY <1>4 DEF SpeakerStep, Speak, ManualBegins, ManualEnds, OpenIngress, Rest, Revise, Revised, Prestart,
     Superseded, vars, speakerVars
<1>. QED
  BY <1>1, <1>2, <1>3, <1>4, StepCases

\* A turn is registered, before it is sealed, with a revision that is on its way to be
\* shown, of the events that are accepted or of a commit.
LEMMA Registers ==
    ASSUME Course, [Next]_vars, NEW u \in Turn, status[u] # "open", status'[u] = "open"
    PROVE  /\ (u \in pending' /\ accepting) \/ call'[u] = "commit"
           /\ call[u] \in {"none", "commit"}
<1>0. Types /\ Ordered
  BY DEF Course
<1>1. ASSUME NEW t \in Turn, NEW compatible, Revision(t, compatible) PROVE u = t
  BY <1>0, <1>1 DEF Revision, Types, TypeOK
<1>2. UNCHANGED <<completed, seen>>
  <2>1. ASSUME NEW v \in Turn, NEW S, NEW kind, Open(v), Settle(v, S, kind) PROVE FALSE
    <3>1. \A w \in Turn : w # v => status'[w] = status[w]
      BY <1>0, <2>1, SettleStatus
    <3>. QED
      BY <2>1, <3>1 DEF Open
  <2>2. ASSUME NEW v \in Turn, NEW k \in Child, RunPublish(v, k)
        PROVE  Open(v) /\ Settle(v, {k}, IF op[v][k].st = "good" THEN "translated" ELSE "failed")
    BY <2>2 DEF RunPublish, At, Course, Courses
  <2>. QED
    BY <2>1, <2>2, Settles
<1>3. CASE Speak
  <2>1. next \in Turn
    BY <1>0, <1>3, SizeAssumption DEF Speak, Types, TypeOK, Turn
  <2>2. u = next /\ u \in pending' /\ accepting
    BY <1>1, <1>3, <2>1 DEF Speak
  <2>3. call[next] = "none"
    BY <1>0, <2>1, SizeAssumption DEF Ordered, Turn
  <2>. QED
    BY <2>2, <2>3
<1>4. ASSUME NEW t \in Turn, Revise(t) PROVE u \in pending' /\ accepting /\ call[u] \in {"none", "commit"}
  BY <1>0, <1>1, <1>4, SizeAssumption DEF Revise, Ordered, Turn, NoTurn
<1>5. ASSUME NEW t \in Turn, Commit(t) PROVE call'[u] = "commit" /\ call[u] = "none"
  <2>1. \E compatible : Revision(t, compatible) /\ call[t] = "none" /\ call' = [call EXCEPT ![t] = "commit"]
    BY <1>5 DEF Commit
  <2>. QED
    BY <1>0, <1>1, <2>1 DEF Types, TypeOK
<1>6. ASSUME NEW v, NEW self, Retire(v, self) PROVE UNCHANGED status
  <2>1. ASSUME NEW S, NEW kind, Settle(v, S, kind), Open(v) PROVE UNCHANGED status
    <3>1. status' = [status EXCEPT ![v] = IF Closes(v, S) THEN "closed" ELSE @]
      BY <2>1 DEF Settle
    <3>2. u = v => FALSE
      BY <2>1 DEF Open
    <3>. QED
      BY <1>0, <3>1, <3>2 DEF Types, TypeOK
  <2>. QED
    BY <1>6, <2>1 DEF Retire, endVars
<1>7. ASSUME NEW t \in Turn, Seal(t) \/ ExpiryFires(t) \/ ExpiryRetires(t) \/ Run(t) PROVE FALSE
  <2>1. CASE SealerRetires(t) \/ ExpiryRetires(t) \/ RunRetires(t)
    BY <1>6, <2>1 DEF SealerRetires, ExpiryRetires, RunRetires
  <2>2. ASSUME NEW S, NEW kind, Settle(t, S, kind), Open(t) PROVE FALSE
    BY <1>0, <2>2, SettleStatus DEF Open
  <2>3. CASE RunDead(t) \/ \E k \in Child : RunPublish(t, k)
    BY <1>0, <2>2, <2>3 DEF RunDead, RunPublish, At, Course, Courses, endVars
  <2>4. CASE Seal(t) /\ ~SealerRetires(t)
    BY <2>4 DEF Seal, CommitEnds, SealLocked, SealerJoins, SealerPublishes, endVars
  <2>5. CASE ExpiryFires(t)
    BY <2>5 DEF ExpiryFires, endVars
  <2>6. CASE Run(t) /\ ~RunRetires(t) /\ ~RunDead(t) /\ ~\E k \in Child : RunPublish(t, k)
    BY <2>6 DEF Run, RunWakes, RunGranted, RunReady, RunGivesUp, RunJoins, RunCancelled,
       RunLeaves, RunUnwound, RunDrained, ExecRetry, RunRefused, endVars
  <2>. QED
    BY <1>7, <2>1, <2>3, <2>4, <2>5, <2>6
<1>8. ASSUME NEW t \in Turn, NEW k \in Child, Provider(t, k) PROVE FALSE
  BY <1>8, ProviderKeeps DEF endVars
<1>9. ASSUME NEW c \in Controller, CtlBegin(c) \/ Control(c) PROVE FALSE
  <2>1. ASSUME NEW t \in Turn, NEW S, NEW kind, Settle(t, S, kind), Open(t) PROVE FALSE
    BY <1>0, <2>1, SettleStatus DEF Open
  <2>. QED
    BY <1>9, <2>1 DEF CtlBegin, Control, CtlSelect, CtlReturn, CtlClear, CtlSettle, endVars
<1>10. ASSUME SpeakerStep \/ UNCHANGED vars, ~Speak, ~\E t \in Turn : Revise(t) PROVE FALSE
  BY <1>10 DEF SpeakerStep, ManualBegins, ManualEnds, OpenIngress, Rest, Revised, Prestart,
     Superseded, vars, endVars
<1>. QED
  BY <1>3, <1>4, <1>5, <1>7, <1>8, <1>9, <1>10, StepCases

\* A turn of an earlier generation stays one.
LEMMA OutdatedStays == ASSUME [Next]_vars PROVE outdated \subseteq outdated'
<1>1. ASSUME NEW t \in Turn, Commit(t) \/ Seal(t) \/ ExpiryFires(t) \/ ExpiryRetires(t) \/ Run(t)
      PROVE  UNCHANGED outdated
  BY <1>1, SealKeeps, TimerKeeps, RunKeeps DEF Commit, draftVars
<1>2. ASSUME NEW t \in Turn, NEW k \in Child, Provider(t, k) PROVE UNCHANGED outdated
  BY <1>2, ProviderKeeps DEF draftVars
<1>3. ASSUME NEW c \in Controller, CtlBegin(c) \/ Control(c) PROVE outdated \subseteq outdated'
  BY <1>3 DEF CtlBegin, Control, CtlSelect, CtlReturn, CtlClear, CtlSettle, draftVars
<1>4. ASSUME SpeakerStep \/ UNCHANGED vars PROVE UNCHANGED outdated
  BY <1>4, SpeakerKeeps DEF vars, draftVars
<1>. QED
  BY <1>1, <1>2, <1>3, <1>4, StepCases

\* The speculation is left free only if no draft could take it, the one whose run ended
\* apart.
LEMMA Frees ==
    ASSUME Course, [Next]_vars, NEW u \in Turn, Startable(u), spec' = NoTurn
    PROVE  \/ spec = NoTurn /\ (u \in pending => u \in pending')
           \/ run[u] = "drain" \/ buffer' = NoTurn
<1> DEFINE Q == \/ spec = NoTurn /\ (u \in pending => u \in pending')
                \/ run[u] = "drain" \/ buffer' = NoTurn
<1>0. Types /\ Courses /\ call[u] \in {"none", "commit"}
  BY DEF Course, Startable, Draft
<1>1. spec' = spec /\ (u \in pending => u \in pending') => Q
  OBVIOUS
<1>2. ASSUME NEW t \in Turn, spec' = Released(t, Speculation).spec
      PROVE  spec = NoTurn \/ u = t
  <2>1. PICK q : q = Released(t, Speculation)
    OBVIOUS
  <2>2. Speculation \in Speculations /\ Speculation.spec = spec
    BY <1>0, SpeculationTypes DEF Types
  <2>3. /\ Speculation.spec # t => q = Speculation
        /\ Speculation.spec = t /\ q.spec = NoTurn => \A w \in Turn \ {t} : ~Startable(w)
    BY <1>0, <2>1, <2>2, ReleasedStarts
  <2>. QED
    BY <1>2, <2>1, <2>2, <2>3
<1>3. ASSUME NEW t \in Turn, Execute(t), UNCHANGED pending, call[t] = "done" PROVE Q
  <2>1. spec' = Released(t, Speculation).spec
    BY <1>0, <1>3, ExecuteStarts
  <2>. QED
    BY <1>0, <1>2, <1>3, <2>1
<1>. HIDE DEF Q
<1>4. ASSUME UNCHANGED vars \/ SpeakerStep PROVE Q
  <2>1. ASSUME NEW t \in Turn, Revised(t) PROVE FALSE
    <3>1. spec \in Turn \cup {NoTurn} /\ op \in [Turn -> Operations] /\ Turn \in SUBSET Turn
      BY <1>0 DEF Types, TypeOK, Operations
    <3>2. Current(Turn, spec, op).spec = NoTurn
      BY <2>1 DEF Revised, Become
    <3>3. \A w \in Turn : ~Startable(w)
      BY <1>0, <3>1, <3>2, CurrentStarts
    <3>. QED
      BY <3>3
  <2>2. CASE ~\E t \in Turn : Revised(t)
    <3>1. spec' = spec /\ (u \in pending => u \in pending')
      BY <1>4, <2>2 DEF SpeakerStep, Speak, ManualBegins, ManualEnds, OpenIngress, Rest, Revise,
         Prestart, Superseded, vars, callVars
    <3>. QED
      BY <1>1, <3>1
  <2>. QED
    BY <2>1, <2>2
<1>5. ASSUME NEW t \in Turn, Commit(t) \/ Seal(t) PROVE Q
  <2>1. CASE \E r : SealDraft(t, r)
    BY <2>1 DEF SealDraft, Q
  <2>2. CASE SealLocked(t)
    <3>1. UNCHANGED pending /\ call[t] = "lock"
      BY <2>2 DEF SealLocked
    <3>2. Become(Speculation) \/ Become(Released(t, Speculation))
      BY <2>2 DEF SealLocked, Admit
    <3>3. CASE Become(Speculation)
      BY <1>1, <3>1, <3>3 DEF Become, Speculation
    <3>4. CASE Become(Released(t, Speculation))
      BY <1>0, <1>2, <3>1, <3>4 DEF Become, Q
    <3>. QED
      BY <3>2, <3>3, <3>4
  <2>3. CASE ~(\E r : SealDraft(t, r)) /\ ~SealLocked(t)
    BY <1>1, <1>5, <2>3 DEF Commit, Seal, CommitEnds, SealerRetires, SealerJoins, SealerPublishes
  <2>. QED
    BY <2>1, <2>2, <2>3
<1>6. ASSUME NEW t \in Turn, ExpiryFires(t) \/ ExpiryRetires(t) PROVE Q
  BY <1>1, <1>6, TimerKeeps DEF callVars
<1>7. ASSUME NEW t \in Turn, Run(t) PROVE Q
  <2>0. UNCHANGED pending
    BY <1>7, RunKeeps DEF callVars
  <2>1. CASE RunWakes(t) \/ RunGranted(t) \/ RunReady(t) \/ RunJoins(t)
    <3>1. spec' = spec \/ Execute(t)
      BY <2>1 DEF RunWakes, RunGranted, RunReady, RunJoins
    <3>2. call[t] = "done"
      BY <1>0, <2>1 DEF RunWakes, RunGranted, RunReady, RunJoins, At, Courses
    <3>. QED
      BY <1>1, <1>3, <2>0, <3>1, <3>2
  <2>2. CASE RunGivesUp(t)
    <3>1. call[t] = "done" /\ Become(Released(t, Speculation))
      BY <1>0, <2>2 DEF RunGivesUp, At, Courses
    <3>. QED
      BY <1>0, <1>2, <2>0, <3>1 DEF Become, Q
  <2>3. CASE RunDrained(t)
    <3>1. run[t] = "drain" /\ (spec' = spec \/ Become(Released(t, Speculation)))
      BY <2>3 DEF RunDrained
    <3>2. CASE spec' = spec
      BY <1>1, <2>0, <3>2
    <3>3. CASE Become(Released(t, Speculation))
      BY <1>2, <2>0, <3>1, <3>3 DEF Become, Q
    <3>. QED
      BY <3>1, <3>2, <3>3
  <2>4. CASE \/ RunRetires(t) \/ RunCancelled(t) \/ RunLeaves(t) \/ RunUnwound(t) \/ RunDead(t)
             \/ \E k \in Child : ExecRetry(t, k) \/ RunPublish(t, k) \/ RunRefused(t, k)
    BY <1>1, <2>0, <2>4 DEF RunRetires, RunCancelled, RunLeaves, RunUnwound, RunDead, ExecRetry,
       RunPublish, RunRefused
  <2>. QED
    BY <1>7, <2>1, <2>2, <2>3, <2>4 DEF Run
<1>8. ASSUME NEW t \in Turn, NEW k \in Child, Provider(t, k) PROVE Q
  BY <1>1, <1>8, ProviderKeeps DEF callVars
<1>9. ASSUME NEW c \in Controller, CtlBegin(c) \/ Control(c) PROVE Q
  BY <1>1, <1>9, ControllerKeeps DEF callVars
<1>. QED
  BY <1>4, <1>5, <1>6, <1>7, <1>8, <1>9, StepCases DEF Q

\* Closing the ingress is under way.
Closing(c) == ctl[c].pc \in {"select", "join"} /\ ctl[c].kind = "ingress"
Shut == blocked \/ \E c \in Controller : Closing(c)

\* The buffer of the moment is the newest; no event is accepted while the ingress closes;
\* behind a block a draft nobody has committed is of an earlier generation; and a draft
\* whose run has ended, or is about to, is being cancelled.
Paced == buffer # NoTurn => buffer = next - 1
Deaf == \A c \in Controller : Closing(c) => ~accepting
Stale == Shut => \A t \in Turn : Open(t) /\ call[t] = "none" => t \in outdated
Dropped == \A t \in Turn : Draft(t) /\ run[t] \notin {"none", "wait"} => t \in cancelling

\* How the ingress comes to be closed.
LEMMA ShutMoves ==
    ASSUME Types, Deaf, [Next]_vars
    PROVE  /\ Deaf'
           /\ Shut' => Shut \/ (UNCHANGED <<status, call>> /\ \A t \in Turn : Open(t) => t \in outdated')
<1>0. ctl \in [Controller -> Call]
  BY DEF Types, TypeOK
<1> DEFINE Q == /\ Deaf'
                /\ Shut' => \/ Shut
                            \/ UNCHANGED <<status, call>> /\ \A t \in Turn : Open(t) => t \in outdated'
<1>1. ASSUME UNCHANGED <<blocked, ctl>>, accepting' => accepting PROVE Q
  BY <1>1 DEF Deaf, Shut, Closing
<1>2. ASSUME OpenIngress PROVE Q
  BY <1>2 DEF OpenIngress, Deaf, Shut, Closing, NoCall
<1>3. ASSUME NEW c \in Controller, NEW x, ctl' = [ctl EXCEPT ![c] = x], accepting' => accepting,
             x.pc \in {"select", "join"} /\ x.kind = "ingress" => ~accepting',
             \/ blocked' => Shut
             \/ UNCHANGED <<status, call>> /\ \A t \in Turn : Open(t) => t \in outdated',
             \/ x.pc \in {"select", "join"} /\ x.kind = "ingress" => Shut
             \/ UNCHANGED <<status, call>> /\ \A t \in Turn : Open(t) => t \in outdated'
      PROVE  Q
  <2>1. ctl'[c] = x /\ \A d \in Controller : d # c => ctl'[d] = ctl[d]
    BY <1>0, <1>3
  <2>2. Deaf'
    BY <1>3, <2>1 DEF Deaf, Closing
  <2>3. Shut' => \/ Shut
                 \/ UNCHANGED <<status, call>> /\ \A t \in Turn : Open(t) => t \in outdated'
    BY <1>3, <2>1 DEF Shut, Closing
  <2>. QED
    BY <2>2, <2>3
<1>. HIDE DEF Q
<1>4. ASSUME NEW t \in Turn, Commit(t) \/ Seal(t) \/ ExpiryFires(t) \/ ExpiryRetires(t) \/ Run(t) PROVE Q
  <2>1. UNCHANGED <<blocked, ctl, accepting>>
    BY <1>4, SealKeeps, TimerKeeps, RunKeeps DEF Commit, ctlVars, speakerVars
  <2>. QED
    BY <1>1, <2>1
<1>5. ASSUME NEW t \in Turn, NEW k \in Child, Provider(t, k) PROVE Q
  BY <1>1, <1>5, ProviderKeeps DEF ctlVars, speakerVars
<1>6. ASSUME UNCHANGED vars \/ SpeakerStep, ~OpenIngress PROVE Q
  <2>1. UNCHANGED <<blocked, ctl, accepting>>
    BY <1>6 DEF SpeakerStep, Speak, ManualBegins, ManualEnds, Rest, Revise, Revised, Prestart,
       Superseded, vars, speakerVars, ctlVars
  <2>. QED
    BY <1>1, <2>1
<1>7. ASSUME NEW c \in Controller, CtlBegin(c) PROVE Q
  <2>1. PICK kind \in {"speech", "reset", "ingress"} :
           /\ outdated' = IF kind = "speech" THEN outdated ELSE outdated \cup {t \in Turn : Open(t)}
           /\ blocked' = (blocked \/ kind # "speech")
           /\ accepting' = (accepting /\ kind # "ingress")
           /\ \/ ctl' = [ctl EXCEPT ![c] = [pc |-> "select", kind |-> kind, sel |-> {}]]
              \/ Select(c, kind)
    BY <1>7 DEF CtlBegin
  <2>2. PICK x : ctl' = [ctl EXCEPT ![c] = x] /\ x.kind = kind
    <3>1. \/ ctl' = [ctl EXCEPT ![c] = [pc |-> "select", kind |-> kind, sel |-> {}]]
          \/ ctl' = [ctl EXCEPT ![c] = [pc |-> "join", kind |-> kind, sel |-> Selected]]
      BY <2>1 DEF Select
    <3>2. /\ [pc |-> "select", kind |-> kind, sel |-> {}].kind = kind
          /\ [pc |-> "join", kind |-> kind, sel |-> Selected].kind = kind
      OBVIOUS
    <3>. QED
      BY <3>1, <3>2
  <2>3. UNCHANGED <<status, call>>
    BY <1>7 DEF CtlBegin, endVars, callVars
  <2>4. kind # "speech" => \A t \in Turn : Open(t) => t \in outdated'
    BY <2>1
  <2>5. kind = "speech" => (blocked' => Shut) /\ x.kind # "ingress"
    BY <2>1, <2>2 DEF Shut
  <2>. QED
    BY <1>3, <2>1, <2>2, <2>3, <2>4, <2>5
<1>8. ASSUME NEW c \in Controller, CtlSelect(c) PROVE Q
  <2>1. /\ ctl[c].pc = "select" /\ UNCHANGED <<blocked, accepting>>
        /\ ctl' = [ctl EXCEPT ![c] = [pc |-> "join", kind |-> ctl[c].kind, sel |-> Selected]]
    BY <1>8 DEF CtlSelect, Select, speakerVars
  <2>2. ctl[c].kind = "ingress" => Shut /\ ~accepting
    BY <2>1 DEF Shut, Closing, Deaf
  <2>3. blocked' => Shut
    BY <2>1 DEF Shut
  <2>. QED
    BY <1>3, <2>1, <2>2, <2>3
<1>9. ASSUME NEW c \in Controller, CtlReturn(c) PROVE Q
  <2>1. ctl[c].pc = "join" /\ UNCHANGED accepting
    BY <1>9 DEF CtlReturn, Joined, speakerVars
  <2>2. PICK x : ctl' = [ctl EXCEPT ![c] = x] /\ x.pc \in {"idle", "clear"}
    <3>1. ctl' = [ctl EXCEPT ![c] = IF ctl[c].kind = "ingress" THEN NoCall
                                    ELSE [ctl[c] EXCEPT !.pc = "clear", !.sel = {}]]
      BY <1>9 DEF CtlReturn
    <3>2. ctl[c] \in Call
      BY <1>0
    <3>3. [ctl[c] EXCEPT !.pc = "clear", !.sel = {}].pc = "clear" /\ NoCall.pc = "idle"
      BY <3>2 DEF Call, NoCall
    <3>. QED
      BY <3>1, <3>3
  <2>3. blocked' => Shut
    <3>1. /\ ctl[c].kind = "speech" => blocked' = blocked
          /\ ctl[c].kind = "reset" => ~blocked'
      BY <1>9 DEF CtlReturn
    <3>2. ctl[c].kind \in {"speech", "reset", "ingress"}
      BY <1>0, <2>1 DEF Types, Lists, Call
    <3>. QED
      BY <2>1, <3>1, <3>2 DEF Shut, Closing
  <2>. QED
    BY <1>3, <2>1, <2>2, <2>3
<1>10. ASSUME NEW c \in Controller, CtlClear(c) PROVE Q
  <2>1. UNCHANGED <<blocked, accepting>> /\ ctl' = [ctl EXCEPT ![c] = NoCall] /\ NoCall.pc = "idle"
    BY <1>10 DEF CtlClear, NoCall
  <2>2. blocked' => Shut
    BY <2>1 DEF Shut
  <2>. QED
    BY <1>3, <2>1, <2>2
<1>11. ASSUME NEW c \in Controller, NEW t \in Turn, CtlSettle(c, t) PROVE Q
  BY <1>1, <1>11 DEF CtlSettle, speakerVars, ctlVars
<1>. QED
  BY <1>2, <1>4, <1>5, <1>6, <1>7, <1>8, <1>9, <1>10, <1>11, StepCases DEF Q, Control, SpeakerStep

\* Every step keeps the pace.
LEMMA PacedNext == ASSUME Types, Paced, [Next]_vars PROVE Paced'
<1>1. next \in Nat
  BY SizeAssumption DEF Types, TypeOK
<1>2. CASE Speak
  BY <1>1, <1>2 DEF Speak, Paced
<1>3. CASE next' = next /\ buffer' \in {buffer, NoTurn}
  BY <1>3 DEF Paced
<1>. QED
  BY <1>2, <1>3, BufferMoves

\* Every step keeps what is behind the block.
LEMMA StaleNext == ASSUME Course, Deaf, Stale, [Next]_vars PROVE Stale'
<1>0. Types
  BY DEF Course
<1> SUFFICES ASSUME Shut', NEW t \in Turn, status'[t] = "open", call'[t] = "none"
             PROVE  t \in outdated'
  BY DEF Stale, Open
<1>1. CASE UNCHANGED <<status, call>> /\ \A u \in Turn : Open(u) => u \in outdated'
  BY <1>1 DEF Open
<1>2. CASE Shut
  <2>1. call[t] = "none"
    BY CallBegins
  <2>2. CASE Open(t)
    BY <1>2, <2>1, <2>2, OutdatedStays DEF Stale
  <2>3. CASE ~Open(t)
    <3>1. accepting
      BY <2>3, Registers DEF Open
    <3>2. ~blocked
      BY <2>3, Opens
    <3>. QED
      BY <1>2, <3>1, <3>2 DEF Shut, Deaf
  <2>. QED
    BY <2>2, <2>3
<1>. QED
  BY <1>0, <1>1, <1>2, ShutMoves

\* Every step keeps that a draft whose run has ended is being cancelled.
LEMMA DroppedNext == ASSUME Judged, Dropped, [Next]_vars PROVE Dropped'
<1>0. Course /\ Courses /\ Cuts /\ Lasting /\ Types
  BY Closings DEF Judged, Course
<1> SUFFICES ASSUME NEW t \in Turn, status'[t] = "open", call'[t] \in {"none", "commit"},
                    run'[t] \notin {"none", "wait"}
             PROVE  t \in cancelling'
  BY DEF Dropped, Draft, Open
<1>1. call[t] \in {"none", "commit"}
  BY <1>0, CallBegins
<1>2. t \in cancelling => t \in cancelling'
  BY CancellingMoves
<1>3. ExitMove(t)
  BY ExitMoves
<1>4. CASE run[t] \in {"none", "wait"}
  <2>1. t \in killed
    BY <1>1, <1>3, <1>4 DEF ExitMove
  <2>. QED
    BY <1>0, <1>2, <2>1 DEF Cuts, Lasting
<1>5. CASE run[t] \notin {"none", "wait"}
  <2>1. Open(t)
    BY <1>0, <1>5 DEF Courses, Lasting, Types, TypeOK, Open
  <2>. QED
    BY <1>1, <1>2, <1>5, <2>1 DEF Dropped, Draft
<1>. QED
  BY <1>4, <1>5

\* Every step keeps the speculation taken up.
LEMMA NoIdleNext ==
    ASSUME Judged, Paced, Deaf, Stale, Dropped, NoIdleSpeculation, [Next]_vars
    PROVE  NoIdleSpeculation'
<1>0. Course /\ Types /\ Ordered /\ Cuts
  BY DEF Judged, Course
<1> DEFINE b == buffer'
<1> SUFFICES ASSUME spec' = NoTurn, b # NoTurn, Startable(buffer)', b \notin pending',
                    call'[b] # "commit"
             PROVE  FALSE
  BY DEF NoIdleSpeculation
<1>1. b \in Turn
  <2>1. Types'
    BY <1>0, TypesNext
  <2>. QED
    BY <2>1 DEF Types, TypeOK
<1>2. /\ status'[b] = "open" /\ call'[b] = "none" /\ b \notin outdated' /\ ~blocked'
      /\ b \notin cancelling'
  BY DEF Startable, Draft, Open, ChildCancelled
<1>. HIDE DEF b
<1>3. CASE Speak
  <2>1. /\ b = next /\ Refused(next) /\ UNCHANGED <<status, blocked>>
    BY <1>3 DEF Speak, b, ctlVars
  <2>. QED
    BY <1>2, <2>1 DEF Refused
<1>4. CASE next' = next /\ b = buffer
  <2>1. call[b] = "none" /\ b \notin outdated
    BY <1>0, <1>1, <1>2, CallBegins, OutdatedStays
  <2>2. Open(b)
    BY <1>0, <1>1, <1>2, Registers DEF Open
  <2>3. ~blocked
    BY <1>1, <2>1, <2>2 DEF Stale, Shut
  <2>4. b \notin cancelling
    BY <1>1, <1>2, CancellingMoves
  <2>5. \A u \in Turn : Open(u) => u <= b
    <3>1. b = next - 1 /\ next \in Nat
      BY <1>0, <1>4, SizeAssumption DEF Paced, Types, TypeOK
    <3>2. ASSUME NEW u \in Turn, Open(u) PROVE u < next
      <4>1. ~(u >= next)
        BY <1>0, <3>2 DEF Ordered, Open
      <4>. QED
        BY <3>1, <4>1, SizeAssumption DEF Turn
    <3>. QED
      BY <3>1, <3>2, SizeAssumption DEF Turn
  <2>6. Startable(b)
    BY <2>1, <2>2, <2>3, <2>4, <2>5 DEF Startable, Draft, ChildCancelled
  <2>7. run[b] # "drain"
    BY <1>1, <2>1, <2>2, <2>4 DEF Dropped, Draft
  <2>8. buffer' # NoTurn
    BY DEF b
  <2>9. spec = NoTurn /\ (b \in pending => b \in pending')
    BY <1>0, <1>1, <2>6, <2>7, <2>8, Frees
  <2>10. b \in pending
    BY <1>4, <2>1, <2>6, <2>9 DEF NoIdleSpeculation
  <2>. QED
    BY <2>9, <2>10
<1>. QED
  BY <1>3, <1>4, BufferMoves DEF b

\* _start_current_draft is called wherever it has to be: what is being said now is being
\* translated, unless another turn still occupies the speculation or the draft's own
\* revision is on its way to be shown.
THEOREM NoIdleSpeculationAlways == Spec => []NoIdleSpeculation
<1> DEFINE Attended == Paced /\ Deaf /\ Stale /\ Dropped /\ NoIdleSpeculation
<1>1. Init => Judged /\ Attended
  <2>1. Init => Attended
    BY DEF Init, Paced, Deaf, Stale, Shut, Closing, Dropped, NoIdleSpeculation, Draft, Open, NoCall
  <2>. QED
    BY <2>1, JudgedInit
<1>2. Judged /\ Attended /\ [Next]_vars => (Judged /\ Attended)'
  <2> SUFFICES ASSUME Judged, Attended, [Next]_vars PROVE Attended'
    BY JudgedNext
  <2>1. Course /\ Types
    BY DEF Judged, Course
  <2>. QED
    BY <2>1, PacedNext, ShutMoves, StaleNext, DroppedNext, NoIdleNext
<1>3. Judged /\ Attended => NoIdleSpeculation
  OBVIOUS
<1>. QED
  BY <1>1, <1>2, <1>3, PTL DEF Spec

-------------------------------------------------------------------------------
(* The turns that wait for a slot.                                         *)

\* The turns of self_speech_waiting: sealed, not spoken for in any other way.
Outside(u) ==
    Open(u) /\ call[u] \notin {"none", "commit", "lock"} /\ spec # u /\ u \notin started
    /\ u \notin cancelling

\* Those that would be left if every overflow but those of the runs of T were retired and
\* T was gone as well: a turn of T takes its overflow with it.
Kept(T) ==
    {u \in Turn \ T : /\ Outside(u)
                      /\ \A t \in Turn : u \notin victims[t]
                      /\ \A t \in Turn \ T : u \notin shed[t]}
Bounded == \A T \in SUBSET Turn : Cardinality(Kept(T)) <= WaitingCapacity

\* A run that has left an overflow behind, or that has ended, is of a turn that is closed
\* or being cancelled.
Gone ==
    \A t \in Turn : run[t] \in {"leave", "drain", "done"} => ~Open(t) \/ t \in cancelling

\* What is left of W without its overflow are no more than may wait.
LEMMA OldestLeft ==
    ASSUME NEW W \in SUBSET Turn, NEW S \in SUBSET (W \ Oldest(W))
    PROVE  Cardinality(S) <= WaitingCapacity
<1>0. IsFiniteSet(Turn)
  BY SizeAssumption, FS_Interval DEF Turn
<1>1. CASE S = {}
  BY <1>1, FS_EmptySet, CapacityAssumption
<1>2. CASE S # {}
  <2>1. S \in SUBSET Turn
    OBVIOUS
  <2>2. PICK m \in S : \A u \in S : m <= u
    BY <1>2, <2>1, SmallestOf
  <2> DEFINE A == {u \in W : u >= m}
  <2>3. S \subseteq A
    BY <2>1, <2>2, SizeAssumption DEF Turn
  <2>4. IsFiniteSet(A) /\ Cardinality(S) <= Cardinality(A)
    BY <1>0, <2>3, FS_Subset
  <2>5. Cardinality(A) \in Nat /\ Cardinality(S) \in Nat
    BY <1>0, <2>1, <2>4, FS_Subset, FS_CardinalityType
  <2>6. ~(Cardinality(A) > WaitingCapacity)
    BY <2>2 DEF Oldest
  <2>. QED
    BY <2>4, <2>5, <2>6, CapacityAssumption
<1>. QED
  BY <1>1, <1>2

\* A run leaves its turn behind only closed or being cancelled.
LEMMA GoneNext == ASSUME Judged, Gone, [Next]_vars PROVE Gone'
<1>0. Courses /\ Cuts /\ Lasting /\ Types
  BY Closings DEF Judged, Course
<1> SUFFICES ASSUME NEW t \in Turn, run'[t] \in {"leave", "drain", "done"}, status'[t] = "open"
             PROVE  t \in cancelling'
  BY DEF Gone, Open
<1>1. t \in cancelling => t \in cancelling'
  BY CancellingMoves
<1>2. ExitMove(t)
  BY ExitMoves
<1>3. CASE t \in killed
  BY <1>0, <1>1, <1>3 DEF Cuts, Lasting
<1>4. CASE t \notin killed
  <2>1. run[t] \in {"leave", "drain", "done"}
    BY <1>2, <1>4 DEF ExitMove
  <2>2. Open(t)
    BY <1>0, <2>1 DEF Courses, Lasting, Types, TypeOK, Open
  <2>. QED
    BY <1>1, <2>1, <2>2 DEF Gone
<1>. QED
  BY <1>3, <1>4

\* Who waits did so before, unless it is sealed in the step or its run gives up its
\* speculation.
LEMMA Waits ==
    ASSUME Judged, Gone, [Next]_vars, NEW u \in Turn, Outside(u)'
    PROVE  Outside(u) \/ call[u] \in {"none", "commit", "lock"} \/ RunGivesUp(u)
<1>0. Course /\ Courses /\ Types
  BY DEF Judged, Course
<1> SUFFICES ASSUME call[u] \notin {"none", "commit", "lock"}, ~RunGivesUp(u)
             PROVE  Outside(u)
  OBVIOUS
<1>1. /\ status'[u] = "open" /\ call'[u] \notin {"none", "commit", "lock"} /\ spec' # u
      /\ u \notin started' /\ u \notin cancelling'
  BY DEF Outside, Open
<1>2. Open(u)
  BY <1>0, <1>1, Registers DEF Open
<1>3. u \notin started
  BY <1>0, <1>1, StartedStays
<1>4. u \notin cancelling
  BY <1>1, CancellingMoves
<1>5. ASSUME spec = u PROVE FALSE
  <2>1. spec # NoTurn /\ spec' # spec
    BY <1>1, <1>5, SizeAssumption DEF Turn, NoTurn
  <2>2. RunDrained(u)
    BY <1>0, <1>1, <1>5, <2>1, SpecMoves
  <2>3. run[u] = "drain"
    BY <2>2 DEF RunDrained
  <2>. QED
    BY <1>2, <1>4, <2>3 DEF Gone
<1>. QED
  BY <1>2, <1>3, <1>4, <1>5 DEF Outside

\* A turn is sealed with the overflow of all that will wait.
LEMMA AdmitWaits ==
    ASSUME Types, NEW t \in Turn, NEW r \in Speculations, spec # NoTurn => r.spec = spec,
           Admit(t, r), UNCHANGED status, call[t] \in {"none", "commit", "lock"}
    PROVE  \E W \in SUBSET Turn : {u \in Turn : Outside(u)'} \subseteq W /\ victims'[t] = Oldest(W)
<1>1. \A u \in Turn : u # t => call'[u] = call[u]
  BY DEF Admit, SealerSheds, Types, TypeOK
<1>2. \A u \in Turn : u # t /\ spec = u => r.spec = u
  BY SizeAssumption DEF Turn, NoTurn
<1>3. Waiting \in SUBSET Turn
  BY DEF Waiting
<1>4. \A W : SealerSheds(t, W) => victims'[t] = W
  BY DEF SealerSheds, Types, TypeOK
<1>5. ASSUME NEW u \in Turn, u # t, started \subseteq started', Outside(u)', spec # u
      PROVE  u \in Waiting
  BY <1>1, <1>5 DEF Outside, Waiting, Open, Draft
<1>6. CASE ~Locked
  <2>1. /\ started' = started \cup {t} /\ Become(Released(t, r))
        /\ SealerSheds(t, Oldest(Waiting \ {t}))
    BY <1>6 DEF Admit
  <2>2. ASSUME NEW u \in Turn, Outside(u)' PROVE u \in Waiting \ {t}
    <3>1. u # t
      BY <2>1, <2>2 DEF Outside
    <3>2. spec # u
      <4>1. PICK q : q = Released(t, r)
        OBVIOUS
      <4>2. r.spec # t => q = r
        BY <4>1, ReleasedStarts
      <4>. QED
        BY <1>2, <2>1, <2>2, <3>1, <4>1, <4>2 DEF Become, Outside
    <3>. QED
      BY <1>5, <2>1, <2>2, <3>1, <3>2
  <2>. QED
    BY <1>3, <1>4, <2>1, <2>2
<1>7. CASE Locked
  <2> DEFINE W == IF Open(t) /\ r.spec # t THEN Waiting \cup {t} ELSE Waiting
  <2>1. started' = started /\ spec' = r.spec /\ SealerSheds(t, Oldest(W))
    BY <1>7 DEF Admit, Become
  <2>2. ASSUME NEW u \in Turn, Outside(u)' PROVE u \in W
    <3>1. CASE u = t
      BY <2>1, <2>2, <3>1 DEF Outside, Open
    <3>2. CASE u # t
      BY <1>2, <1>5, <2>1, <2>2, <3>2 DEF Outside
    <3>. QED
      BY <3>1, <3>2
  <2>. QED
    BY <1>3, <1>4, <2>1, <2>2
<1>. QED
  BY <1>6, <1>7

\* A sealer's overflow shrinks only by those who wait no more; nobody else begins to wait
\* with a commit than who is sealed with an overflow.
LEMMA SealOverflows ==
    ASSUME Judged, [Next]_vars
    PROVE  \/ \E t \in Turn : \E W \in SUBSET Turn :
                 {u \in Turn : Outside(u)'} \subseteq W /\ victims'[t] = Oldest(W)
           \/ \A u \in Turn : Outside(u)' =>
                 /\ call[u] \notin {"none", "commit", "lock"}
                 /\ \A t \in Turn : u \in victims[t] => u \in victims'[t]
<1> DEFINE Q == \/ \E t \in Turn : \E W \in SUBSET Turn :
                      {u \in Turn : Outside(u)'} \subseteq W /\ victims'[t] = Oldest(W)
                \/ \A u \in Turn : Outside(u)' =>
                      /\ call[u] \notin {"none", "commit", "lock"}
                      /\ \A t \in Turn : u \in victims[t] => u \in victims'[t]
<1>0. Course /\ Types /\ SealHeads
  BY DEF Judged, Course
<1>1. ASSUME UNCHANGED <<call, victims>> PROVE Q
  BY <1>1 DEF Outside
<1>2. ASSUME NEW t \in Turn, NEW s, call' = [call EXCEPT ![t] = s], UNCHANGED victims,
             \/ s \in {"commit", "lock"} \/ call[t] \notin {"none", "commit", "lock"}
             \/ status'[t] # "open"
      PROVE  Q
  <2>1. call'[t] = s /\ \A u \in Turn : u # t => call'[u] = call[u]
    BY <1>0, <1>2 DEF Types, TypeOK
  <2>. QED
    BY <1>2, <2>1 DEF Outside, Open
<1>3. ASSUME NEW t \in Turn, NEW r \in Speculations, spec # NoTurn => r.spec = spec,
             Admit(t, r), UNCHANGED status, call[t] \in {"none", "commit", "lock"}
      PROVE  Q
  BY <1>0, <1>3, AdmitWaits
<1>4. ASSUME NEW t \in Turn, SealerJoins(t) PROVE Q
  <2> DEFINE v == Smallest(victims[t])
  <2> DEFINE W == {u \in victims[t] \ {v} : Retirable(u)}
  <2>1. /\ call[t] = "join" /\ victims' = [victims EXCEPT ![t] = W]
        /\ \E s : call' = [call EXCEPT ![t] = s]
        /\ UNCHANGED <<status, started>>
    BY <1>4 DEF SealerJoins, SealerSheds, endVars
  <2>2. status[v] = "closed"
    BY <1>0, <2>1 DEF SealHeads
  <2>. HIDE DEF v
  <2>3. victims'[t] = W /\ \A w \in Turn : w # t => victims'[w] = victims[w] /\ call'[w] = call[w]
    BY <1>0, <2>1 DEF Types, TypeOK
  <2>4. ASSUME NEW u \in Turn, Outside(u)', u \in victims[t] PROVE u \in W
    BY <2>1, <2>2, <2>4 DEF Outside, Open, Retirable
  <2>5. ASSUME NEW u \in Turn, Outside(u)' PROVE call[u] \notin {"none", "commit", "lock"}
    BY <2>1, <2>3, <2>5 DEF Outside
  <2>. HIDE DEF W
  <2>. QED
    BY <2>3, <2>4, <2>5
<1>. HIDE DEF Q
<1>5. ASSUME NEW t \in Turn, NEW r \in Speculations, spec # NoTurn => r.spec = spec,
             SealDraft(t, r), UNCHANGED status, call[t] \in {"none", "commit", "lock"}
      PROVE  Q
  <2>1. CASE Open(t) /\ ~manual
    BY <1>3, <1>5, <2>1 DEF SealDraft
  <2>2. CASE ~(Open(t) /\ ~manual)
    <3>1. UNCHANGED victims /\ call' = [call EXCEPT ![t] = IF Open(t) THEN "lock" ELSE "done"]
      BY <1>5, <2>2 DEF SealDraft
    <3>2. ~Open(t) => status'[t] # "open"
      BY <1>5 DEF Open
    <3>. QED
      BY <1>2, <3>1, <3>2
  <2>. QED
    BY <2>1, <2>2
<1>6. ASSUME NEW t \in Turn, Commit(t) \/ Seal(t) PROVE Q
  <2>1. Speculation \in Speculations /\ Speculation.spec = spec
    BY <1>0, SpeculationTypes DEF Types, TypeOK
  <2>2. CASE Commit(t)
    <3>1. call[t] = "none"
      BY <2>2 DEF Commit
    <3>. QED
      BY <1>2, <1>5, <2>1, <2>2, <3>1 DEF Commit
  <2>3. CASE CommitEnds(t)
    <3>1. spec \in Turn \cup {NoTurn} /\ op \in [Turn -> Operations] /\ Turn \in SUBSET Turn
      BY <1>0 DEF Types, TypeOK, Operations
    <3>2. Current(Turn, spec, op) \in Speculations
      BY <1>0, <3>1, SpeculationTypes DEF Types
    <3>3. spec # NoTurn => Current(Turn, spec, op).spec = spec
      BY <1>0, <3>1, CurrentStarts
    <3>. QED
      BY <1>5, <2>3, <3>2, <3>3 DEF CommitEnds, endVars
  <2>4. CASE SealLocked(t)
    BY <1>3, <2>1, <2>4 DEF SealLocked, endVars
  <2>5. CASE SealerRetires(t) \/ SealerPublishes(t)
    <3>1. UNCHANGED victims /\ call[t] \in {"mark", "publish"} /\ \E s : call' = [call EXCEPT ![t] = s]
      BY <2>5 DEF SealerRetires, SealerPublishes
    <3>. QED
      BY <1>2, <3>1
  <2>. QED
    BY <1>4, <1>6, <2>2, <2>3, <2>4, <2>5 DEF Seal
<1>7. ASSUME NEW t \in Turn, ExpiryFires(t) \/ ExpiryRetires(t) \/ Run(t) PROVE Q
  BY <1>1, <1>7, TimerKeeps, RunKeeps DEF callVars
<1>8. ASSUME NEW t \in Turn, NEW k \in Child, Provider(t, k) PROVE Q
  BY <1>1, <1>8, ProviderKeeps DEF callVars
<1>9. ASSUME NEW c \in Controller, CtlBegin(c) \/ Control(c) PROVE Q
  BY <1>1, <1>9, ControllerKeeps DEF callVars
<1>10. ASSUME UNCHANGED vars \/ SpeakerStep PROVE Q
  BY <1>1, <1>10, SpeakerKeeps DEF vars, callVars
<1>. QED
  BY <1>6, <1>7, <1>8, <1>9, <1>10, StepCases DEF Q

\* A run's overflow shrinks by those who wait no more, or is forgotten by a run whose own
\* turn does not.
LEMMA RunOverflows ==
    ASSUME Judged, Gone, [Next]_vars, NEW t \in Turn, ~RunGivesUp(t),
           NEW u \in shed[t], Outside(u)'
    PROVE  u \in shed'[t] \/ (shed'[t] = {} /\ ~Outside(t)')
<1> DEFINE Q == u \in shed'[t] \/ (shed'[t] = {} /\ ~Outside(t)')
<1>0. Types /\ RunHeads /\ Cuts
  BY DEF Judged, Course
<1>1. UNCHANGED shed => Q
  OBVIOUS
<1>2. ASSUME NEW w \in Turn, w # t, NEW S, shed' = [shed EXCEPT ![w] = S] PROVE Q
  BY <1>0, <1>2 DEF Types, TypeOK
<1>3. ASSUME shed' = [shed EXCEPT ![t] = {}], UNCHANGED <<status, cancelling>>,
             ~Open(t) \/ t \in cancelling
      PROVE  Q
  BY <1>0, <1>3 DEF Types, TypeOK, Outside, Open
<1>4. ASSUME RunJoins(t) PROVE Q
  <2> DEFINE v == Smallest(shed[t])
  <2> DEFINE W == {w \in shed[t] \ {v} : Retirable(w)}
  <2>1. run[t] = "join" /\ UNCHANGED status
    BY <1>4 DEF RunJoins, At, endVars
  <2>2. status[v] = "closed"
    BY <1>0, <2>1 DEF RunHeads
  <2>3. u \in Turn /\ u \notin started
    <3>1. u \in Turn
      BY <1>0 DEF Types, TypeOK
    <3>. QED
      BY <3>1, StartedStays DEF Outside, Judged
  <2>4. u \in W
    BY <2>1, <2>2, <2>3 DEF Outside, Open, Retirable
  <2>5. W # {}
    BY <2>4
  <2>6. RunSheds(t, W)
    BY <1>4, <2>5 DEF RunJoins
  <2>. HIDE DEF W
  <2>7. shed' = [shed EXCEPT ![t] = W]
    BY <2>5, <2>6 DEF RunSheds
  <2>. QED
    BY <1>0, <2>4, <2>7 DEF Types, TypeOK
<1>5. ASSUME NEW w \in Turn, Run(w), w # t PROVE Q
  <2>1. UNCHANGED shed \/ \E S : shed' = [shed EXCEPT ![w] = S]
    BY <1>5 DEF Run, RunWakes, RunGranted, RunReady, RunGivesUp, RunRetires, RunJoins, RunSheds,
       RunCancelled, RunLeaves, RunUnwound, RunDead, RunDrained, ExecRetry, RunPublish, RunRefused,
       runVars
  <2>. QED
    BY <1>1, <1>2, <1>5, <2>1
<1>6. ASSUME RunCancelled(t) PROVE Q
  <2>1. /\ t \in killed /\ UNCHANGED <<status, cancelling>>
        /\ UNCHANGED shed \/ shed' = [shed EXCEPT ![t] = {}]
    BY <1>6 DEF RunCancelled, endVars
  <2>2. ~Open(t) \/ t \in cancelling
    BY <1>0, <2>1 DEF Cuts, Open
  <2>. QED
    BY <1>1, <1>3, <2>1, <2>2
<1>7. ASSUME RunLeaves(t) PROVE Q
  <2>1. run[t] = "leave" /\ shed' = [shed EXCEPT ![t] = {}] /\ UNCHANGED <<status, cancelling>>
    BY <1>7 DEF RunLeaves, At, endVars
  <2>. QED
    BY <1>3, <2>1 DEF Gone
<1>. HIDE DEF Q
<1>8. ASSUME Run(t) PROVE Q
  <2>1. CASE ~RunJoins(t) /\ ~RunCancelled(t) /\ ~RunLeaves(t)
    <3>1. UNCHANGED shed
      BY <1>8, <2>1 DEF Run, RunWakes, RunGranted, RunReady, RunRetires, RunUnwound, RunDead,
         RunDrained, ExecRetry, RunPublish, RunRefused, runVars
    <3>. QED
      BY <1>1, <3>1
  <2>. QED
    BY <1>4, <1>6, <1>7, <2>1
<1>9. ASSUME NEW w \in Turn, Commit(w) \/ Seal(w) \/ ExpiryFires(w) \/ ExpiryRetires(w) PROVE Q
  <2>1. UNCHANGED shed
    BY <1>9, SealKeeps, TimerKeeps DEF Commit
  <2>. QED
    BY <1>1, <2>1
<1>10. ASSUME NEW w \in Turn, NEW k \in Child, Provider(w, k) PROVE Q
  BY <1>1, <1>10, ProviderKeeps DEF runVars
<1>11. ASSUME NEW c \in Controller, CtlBegin(c) \/ Control(c) PROVE Q
  BY <1>1, <1>11, ControllerKeeps
<1>12. ASSUME UNCHANGED vars \/ SpeakerStep PROVE Q
  BY <1>1, <1>12, SpeakerKeeps DEF vars, runVars
<1>. QED
  BY <1>5, <1>8, <1>9, <1>10, <1>11, <1>12, StepCases DEF Q

\* A run that gives up its speculation retires the overflow of all that will wait, or
\* itself.
LEMMA GiveUpWaits ==
    ASSUME Types, NEW t \in Turn, RunGivesUp(t)
    PROVE  /\ \E W \in SUBSET Turn : {u \in Turn : Outside(u)'} \subseteq W /\ Oldest(W) \subseteq shed'[t]
           /\ \A u \in Turn : u # t => shed'[u] = shed[u] /\ (Outside(u)' => Outside(u))
           /\ UNCHANGED victims
<1> DEFINE W == Waiting \cup {t}
<1>1. /\ spec = t /\ RunSheds(t, Oldest(W)) /\ UNCHANGED <<status, call, victims, started, cancelling>>
  BY DEF RunGivesUp, callVars, endVars
<1>2. W \in SUBSET Turn
  BY DEF Waiting
<1>3. ASSUME NEW u \in Turn, Outside(u)', u # t PROVE u \in Waiting /\ Outside(u)
  BY <1>1, <1>3 DEF Outside, Waiting, Open, Draft
<1>4. \/ shed' = [shed EXCEPT ![t] = Oldest(W)]
      \/ Oldest(W) = {} /\ \E S : shed' = [shed EXCEPT ![t] = S]
  BY <1>1 DEF RunSheds
<1>. HIDE DEF W
<1>5. Oldest(W) \subseteq shed'[t] /\ \A u \in Turn : u # t => shed'[u] = shed[u]
  BY <1>4 DEF Types, TypeOK
<1>6. {u \in Turn : Outside(u)'} \subseteq W
  BY <1>3 DEF W
<1>. QED
  BY <1>1, <1>2, <1>3, <1>5, <1>6

\* Every step keeps the number of those who wait bounded.
LEMMA BoundedNext == ASSUME Judged, Gone, Bounded, [Next]_vars PROVE Bounded'
<1>0. Types /\ IsFiniteSet(Turn)
  BY SizeAssumption, FS_Interval DEF Judged, Course, Turn
<1> SUFFICES ASSUME NEW T \in SUBSET Turn PROVE Cardinality(Kept(T)') <= WaitingCapacity
  BY DEF Bounded
<1>1. \A u \in Kept(T)' : /\ u \in Turn \ T /\ Outside(u)'
                          /\ \A t \in Turn : u \notin victims'[t]
                          /\ \A t \in Turn \ T : u \notin shed'[t]
  BY DEF Kept
<1>2. ASSUME NEW R \in SUBSET Turn, Kept(T)' \subseteq Kept(R)
      PROVE  Cardinality(Kept(T)') <= WaitingCapacity
  <2>1. Kept(R) \subseteq Turn
    BY DEF Kept
  <2>2. IsFiniteSet(Kept(R)) /\ IsFiniteSet(Kept(T)') /\ Cardinality(Kept(T)') <= Cardinality(Kept(R))
    BY <1>0, <1>2, <2>1, FS_Subset
  <2>3. Cardinality(Kept(T)') \in Nat /\ Cardinality(Kept(R)) \in Nat
    BY <2>2, FS_CardinalityType
  <2>4. Cardinality(Kept(R)) <= WaitingCapacity
    BY DEF Bounded
  <2>. QED
    BY <2>2, <2>3, <2>4, CapacityAssumption
<1>3. ASSUME NEW W \in SUBSET Turn, {u \in Turn : Outside(u)'} \subseteq W,
             \A u \in Kept(T)' : u \notin Oldest(W)
      PROVE  Cardinality(Kept(T)') <= WaitingCapacity
  <2>1. Kept(T)' \in SUBSET (W \ Oldest(W))
    BY <1>1, <1>3
  <2>. QED
    BY <2>1, OldestLeft
<1>4. ASSUME NEW t \in Turn, RunGivesUp(t) PROVE Cardinality(Kept(T)') <= WaitingCapacity
  <2>1. /\ \E W \in SUBSET Turn : {u \in Turn : Outside(u)'} \subseteq W /\ Oldest(W) \subseteq shed'[t]
        /\ \A u \in Turn : u # t => shed'[u] = shed[u] /\ (Outside(u)' => Outside(u))
        /\ UNCHANGED victims
    BY <1>0, <1>4, GiveUpWaits
  <2>2. CASE t \in T
    <3>1. ASSUME NEW u \in Kept(T)' PROVE u \in Kept(T)
      BY <1>1, <2>1, <2>2 DEF Kept
    <3>. QED
      BY <1>2, <3>1
  <2>3. CASE t \notin T
    <3>1. PICK W \in SUBSET Turn : {u \in Turn : Outside(u)'} \subseteq W /\ Oldest(W) \subseteq shed'[t]
      BY <2>1
    <3>2. \A u \in Kept(T)' : u \notin Oldest(W)
      BY <1>1, <2>3, <3>1
    <3>. QED
      BY <1>3, <3>1, <3>2
  <2>. QED
    BY <2>2, <2>3
<1>5. ASSUME NEW t \in Turn, NEW W \in SUBSET Turn,
             {u \in Turn : Outside(u)'} \subseteq W, victims'[t] = Oldest(W)
      PROVE  Cardinality(Kept(T)') <= WaitingCapacity
  <2>1. \A u \in Kept(T)' : u \notin Oldest(W)
    BY <1>1, <1>5
  <2>. QED
    BY <1>3, <1>5, <2>1
<1>6. ASSUME \A t \in Turn : ~RunGivesUp(t),
             \A u \in Turn : Outside(u)' =>
                /\ call[u] \notin {"none", "commit", "lock"}
                /\ \A t \in Turn : u \in victims[t] => u \in victims'[t]
      PROVE  Cardinality(Kept(T)') <= WaitingCapacity
  <2> DEFINE R == T \cup {t \in Turn : shed'[t] = {} /\ ~Outside(t)'}
  <2>1. ASSUME NEW u \in Kept(T)' PROVE u \in Kept(R)
    <3>1. u \in Turn /\ u \notin R
      BY <1>1
    <3>2. Outside(u)
      BY <1>1, <1>6, <3>1, Waits
    <3>3. \A t \in Turn : u \notin victims[t]
      BY <1>1, <1>6, <3>1
    <3>4. ASSUME NEW t \in Turn \ R, u \in shed[t] PROVE FALSE
      <4>1. u \in shed'[t] \/ (shed'[t] = {} /\ ~Outside(t)')
        BY <1>1, <1>6, <3>4, RunOverflows
      <4>. QED
        BY <1>1, <3>4, <4>1
    <3>. QED
      BY <3>1, <3>2, <3>3, <3>4 DEF Kept
  <2>2. R \in SUBSET Turn
    OBVIOUS
  <2>. HIDE DEF R
  <2>. QED
    BY <1>2, <2>1, <2>2
<1>. QED
  BY <1>4, <1>5, <1>6, SealOverflows

\* No more turns wait for a slot than self_speech_waiting_capacity, beside those some task
\* is about to retire, those that wait for the admission lock and those that are being
\* cancelled.
THEOREM WaitingBoundedAlways == Spec => []WaitingBounded
<1>1. Init => Judged /\ Gone /\ Bounded
  <2>1. ASSUME Init, NEW T \in SUBSET Turn PROVE Kept(T) = {}
    BY <2>1 DEF Init, Kept, Outside, Open
  <2>2. Init => Bounded
    BY <2>1, FS_EmptySet, CapacityAssumption DEF Bounded
  <2>3. Init => Gone
    BY DEF Init, Gone
  <2>. QED
    BY <2>2, <2>3, JudgedInit
<1>2. Judged /\ Gone /\ Bounded /\ [Next]_vars => (Judged /\ Gone /\ Bounded)'
  BY JudgedNext, GoneNext, BoundedNext
<1>3. Judged /\ Bounded => WaitingBounded
  <2> SUFFICES ASSUME Judged, Bounded PROVE WaitingBounded
    OBVIOUS
  <2>1. Waiting \ ((UNION {victims[t] \cup shed[t] : t \in Turn})
                   \cup {t \in Turn : call[t] = "lock"} \cup cancelling) = Kept({})
    <3>1. ASSUME NEW u \in Turn
          PROVE  u \in UNION {victims[t] \cup shed[t] : t \in Turn}
                    <=> \E t \in Turn : u \in victims[t] \/ u \in shed[t]
      OBVIOUS
    <3>. QED
      BY <3>1 DEF Waiting, Draft, Kept, Outside, Open
  <2>2. Cardinality(Kept({})) <= WaitingCapacity
    BY DEF Bounded
  <2>. QED
    BY <2>1, <2>2 DEF WaitingBounded
<1>. QED
  BY <1>1, <1>2, <1>3, PTL DEF Spec
===============================================================================
