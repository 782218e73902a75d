----------------------------- MODULE TurnDelivery -----------------------------
(***************************************************************************)
(* What the peer translation channel promises to its reader, whatever the     *)
(* owner, the provider calls and the output line do to keep it:                *)
(*                                                                         *)
(*   - every child of an admitted turn is shown exactly once;                 *)
(*   - a translation, or the source of a retired turn, is shown only while     *)
(*     its turn is at the head of the line of admitted turns;                 *)
(*   - a turn that lost its place, or was cancelled, gives up: what is left    *)
(*     of it is shown as a fallback, outside the order;                       *)
(*   - a turn ends, and leaves the line, with its last child.                 *)
(*                                                                         *)
(* PeerTurns implements this specification with queue <- line.               *)
(***************************************************************************)
EXTENDS Naturals, Sequences, TurnSpace, OutputLine

VARIABLES
    status,  \* "none", "open", "closed" or "rejected", per turn
    queue,   \* admitted turns that have a place in the order
    seen     \* what was shown for each child, in order

vars == <<status, queue, seen>>

TypeOK ==
    /\ status \in [Turn -> {"none", "open", "closed", "rejected"}]
    /\ queue \in Seq(Turn)
    /\ seen \in [Turn -> [Child -> Seq(Kind)]]

Init ==
    /\ status = [t \in Turn |-> "none"]
    /\ queue = <<>>
    /\ seen = [t \in Turn |-> [c \in Child |-> <<>>]]


\* Mutant: an older turn may still take a place.
NewestAny(t) == TRUE
Newest(t) == \A u \in Turn : u > t => status[u] = "none"

\* Mutant: forgets what was shown.
UnseenAll(t) == Child
Unseen(t) == {c \in Child : seen[t][c] = <<>>}

\* The next utterance is admitted, or refused.
Enter(t) ==
    /\ status[t] = "none" /\ Newest(t)
    /\ \E s \in {"open", "rejected"} : status' = [status EXCEPT ![t] = s]
    /\ UNCHANGED <<queue, seen>>

\* The newest turn takes its place behind the others; a turn that is not the
\* head may lose its own to make room.
TakePlace(t) ==
    /\ status[t] = "open" /\ Newest(t) /\ ~InLine(queue, t)
    /\ \A c \in Child : seen[t][c] = <<>>
    /\ \/ queue' = Append(queue, t)
       \/ Len(queue) > 1 /\ queue' = Append(EvictOldest(queue), t)
    /\ UNCHANGED <<status, seen>>

\* Show the children in S as kind; a turn ends with its last child.
Show(t, S, kind) ==
    /\ status[t] = "open" /\ S \subseteq Unseen(t)
    /\ seen' = [seen EXCEPT ![t] =
                   [c \in Child |-> IF c \in S THEN Append(@[c], kind) ELSE @[c]]]
    /\ IF S = Unseen(t)
       THEN /\ status' = [status EXCEPT ![t] = "closed"]
            /\ queue' = Release(queue, t)
       ELSE UNCHANGED <<status, queue>>

\* Mutant: delivers out of turn.
DeliverAnytime(t, c) == InLine(queue, t) /\ Show(t, {c}, "translated")

\* A translation, at the head of the line.
Deliver(t, c) == Ready(queue, t) /\ Show(t, {c}, "translated")

\* Mutant: shows the source under a kind the reader does not know.
RetireUnknown(t) == Ready(queue, t) /\ Show(t, Unseen(t), "retired")

\* The source of every child that is left, at the head of the line.
Retire(t) == Ready(queue, t) /\ Show(t, Unseen(t), "source")

\* A fallback for some or all, anywhere.
GiveUp(t, S) == Show(t, S, "fallback")

\* The turns of a cancelled channel lose their places together.
Flush == queue' = <<>> /\ UNCHANGED <<status, seen>>

Next ==
    \/ \E t \in Turn :
          \/ Enter(t) \/ TakePlace(t) \/ Retire(t)
          \/ \E c \in Child : Deliver(t, c)
          \/ \E S \in SUBSET Child : GiveUp(t, S)
    \/ Flush

Spec == Init /\ [][Next]_vars

-------------------------------------------------------------------------------
\* The line holds open turns only, in admitted order.
QueueOrdered ==
    /\ Increasing(queue)
    /\ \A t \in Turn : InLine(queue, t) => status[t] = "open"

\* Every child is shown at most once, and exactly once when its turn has ended.
ShownOnce ==
    \A t \in Turn, c \in Child :
        /\ Len(seen[t][c]) <= 1
        /\ status[t] = "closed" => Len(seen[t][c]) = 1

ShownNow(t, c, kinds) ==
    \E k \in kinds : seen'[t][c] = Append(seen[t][c], k)
GatedShown(t, c) == \E i \in DOMAIN seen[t][c] : seen[t][c][i] \in Gated

\* No translation and no retired source appears after one of a later turn.
GatedOrder ==
    [][\A t \in Turn, c \in Child : ShownNow(t, c, Gated) =>
          \A u \in Turn, d \in Child : GatedShown(u, d) => u <= t]_vars
===============================================================================
