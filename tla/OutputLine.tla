------------------------------ MODULE OutputLine ------------------------------
(***************************************************************************)
(* The per-destination line of DestinationBatchAdmission                    *)
(* (core/runtime/output_batch.py), seen from the turn owner.  The code      *)
(* keeps, for one scope, the key of the active batch and a deque of waiting  *)
(* keys; here the two are one sequence whose head is the active batch.  A    *)
(* batch's `ready` event is set exactly when it is the head or has left the  *)
(* line, which is what a publication waits for.                              *)
(***************************************************************************)
EXTENDS Integers, Sequences, SequencesExt

InLine(q, t) == \E i \in DOMAIN q : q[i] = t

\* Mutant: any batch still in the line counts as ready.
ReadyAnywhere(q, t) == InLine(q, t)

\* batch.ready set and batch.disposition still None.
Ready(q, t) == q # <<>> /\ Head(q) = t

\* Mutant: one waiting batch too many.
PressuredLate(q, maxUnsent) == q # <<>> /\ Len(q) > maxUnsent + 1

\* _scope_is_pressured by count: an active batch and a full waiting deque.
Pressured(q, maxUnsent) == q # <<>> /\ Len(q) > maxUnsent

\* release of the oldest waiting batch with "output_overload".
EvictOldest(q) == RemoveAt(q, 2)

\* admit_parent: evict the oldest waiting batch of a full line, then insert.
Admit(q, t, maxUnsent) ==
    Append(IF Pressured(q, maxUnsent) THEN EvictOldest(q) ELSE q, t)

Position(q, t) == CHOOSE i \in DOMAIN q : q[i] = t

\* Mutant: only the active batch can leave.
ReleaseActiveBatch(q, t) == IF Ready(q, t) THEN Tail(q) ELSE q

\* release: the batch leaves, and if it was active its successor is promoted.
Release(q, t) == IF InLine(q, t) THEN RemoveAt(q, Position(q, t)) ELSE q

\* Mutant: the active batch survives its generation.
RetireWaiting(q) == IF q = <<>> THEN q ELSE <<Head(q)>>

\* retire_turn_generation: every batch of the retired generation leaves.
RetireGeneration(q) == <<>>

Increasing(q) == \A i, j \in DOMAIN q : i < j => q[i] < q[j]
===============================================================================
