----------------------------- MODULE OutputBatches -----------------------------
(***************************************************************************)
(* DestinationBatchAdmission (core/runtime/output_batch.py): the places that  *)
(* translated parents and adapter events have in the lines of the output        *)
(* destinations.  There is one line per origin and destination; a parent takes  *)
(* a place in the line of each of its destinations, and the publisher of its    *)
(* results waits for all of them.  Every action is one critical section under   *)
(* the admission's lock, or the lock-free retire_turn_generation.              *)
(*                                                                         *)
(* A line here is what OutputLine abstracts for PeerTurns: ImplementsLine.     *)
(***************************************************************************)
EXTENDS Integers, FiniteSets, Sequences, SequencesExt, FiniteSetsExt, Functions

CONSTANTS
    N,              \* parents; a parent's number is its turn order
    M,              \* overlay events of an adapter
    Origin,         \* turn kinds: "self", "peer", "manual"
    Destination,    \* "ui", "overlay", "chatbox"
    MaxUnsent,      \* OUTPUT_BATCH_MAX_UNSENT
    BatchBytes,     \* OUTPUT_BATCH_MAX_BYTES
    ScopeBytes,     \* OUTPUT_SCOPE_MAX_BYTES
    Size,           \* payload sizes, in some unit
    MaxGeneration   \* bound: generations of a channel

ASSUME CountAssumption == N \in Nat /\ M \in Nat /\ MaxGeneration \in Nat
ASSUME PlaceAssumption ==
    /\ Origin \subseteq {"self", "peer", "manual"}
    /\ Destination \subseteq {"ui", "overlay", "chatbox"}
ASSUME LimitAssumption ==
    /\ MaxUnsent \in Nat \ {0}
    /\ Size \subseteq Nat \ {0}
    /\ BatchBytes \in Nat /\ ScopeBytes \in Nat /\ BatchBytes <= ScopeBytes

Parent == 1 .. N
Event == (N + 1) .. (N + M)
Key == Parent \union Event
Nobody == 0

Scope == Origin \X Destination
ChannelOf(o) == IF o = "peer" THEN "peer" ELSE "self"
Channel == {ChannelOf(o) : o \in Origin}  \* those in use
Generation == 0 .. MaxGeneration

VARIABLES
    origin,      \* turn_kind of each parent
    generation,  \* the turn generation each parent is admitted with
    born,        \* parents and events already submitted
    line,        \* per scope: active, waiting, batches, reserved_bytes, ...
    retired,     \* retired_turn_generations
    open         \* OutputRuntime accepts publications

vars == <<origin, generation, born, line, retired, open>>

\* held: the bytes of each batch in `batches`; unready: batches whose event is
\* not set; over: parents that ended, or were refused, in this scope.
Empty ==
    [active |-> Nobody, waiting |-> <<>>, held |-> <<>>, reserved |-> 0,
     unready |-> {}, over |-> {}, ranges |-> [g \in Generation |-> <<>>]]

Init ==
    /\ origin \in [Parent -> Origin]
    /\ generation \in [Parent -> Generation]
    /\ \A p, q \in Parent :  \* orders and generations are given out together
          p < q /\ ChannelOf(origin[p]) = ChannelOf(origin[q]) => generation[p] <= generation[q]
    /\ born = {}
    /\ line = [s \in Scope |-> Empty]
    /\ retired = [c \in Channel |-> -1]
    /\ open = TRUE

-------------------------------------------------------------------------------
\* Mutant: ranges that touch are not told from ranges with a gap of one.
JoinLoose(acc, r) ==
    IF r[2] + 2 < acc.start THEN [acc EXCEPT !.merged = Append(@, r)]
    ELSE IF acc.end + 2 < r[1]
    THEN [acc EXCEPT !.merged =
              IF acc.inserted THEN Append(@, r)
              ELSE @ \o <<<<acc.start, acc.end>>, r>>, !.inserted = TRUE]
    ELSE [acc EXCEPT !.start = Min({@, r[1]}), !.end = Max({@, r[2]})]

\* One round of the loop of remember_retired_order over the existing ranges.
Join(acc, r) ==
    IF r[2] + 1 < acc.start THEN [acc EXCEPT !.merged = Append(@, r)]
    ELSE IF acc.end + 1 < r[1]
    THEN [acc EXCEPT !.merged =
              IF acc.inserted THEN Append(@, r)
              ELSE @ \o <<<<acc.start, acc.end>>, r>>, !.inserted = TRUE]
    ELSE [acc EXCEPT !.start = Min({@, r[1]}), !.end = Max({@, r[2]})]

\* remember_retired_order
WithOrder(ranges, order) ==
    LET last == FoldLeft(Join, [start |-> order, end |-> order, merged |-> <<>>,
                                inserted |-> FALSE], ranges)
    IN  IF last.inserted THEN last.merged
        ELSE Append(last.merged, <<last.start, last.end>>)

\* remember_terminal: only a managed parent has an order.
Remember(l, k) ==
    IF k \in Event THEN l
    ELSE [l EXCEPT !.over = @ \union {k},
                   !.ranges[generation[k]] = WithOrder(@, k)]

\* The batch leaves the accounts and its publisher is woken.
Leave(l, k) ==
    [l EXCEPT
        !.held = [j \in DOMAIN @ \ {k} |-> @[j]],
        !.reserved = IF @ > l.held[k] THEN @ - l.held[k] ELSE 0,
        !.unready = @ \ {k},
        !.waiting = RemoveFirst(@, k)]

\* Mutant: the successor becomes active but is not told.
PromoteQuietly(l) ==
    IF l.waiting = <<>> THEN [l EXCEPT !.active = Nobody]
    ELSE [l EXCEPT !.active = Head(l.waiting), !.waiting = Tail(@)]

\* The first batch that waits becomes the active one.
Promote(l) ==
    IF l.waiting = <<>> THEN [l EXCEPT !.active = Nobody]
    ELSE [l EXCEPT !.active = Head(l.waiting), !.waiting = Tail(@),
                   !.unready = @ \ {Head(l.waiting)}]

\* release
Release(l, k) ==
    IF k \notin DOMAIN l.held THEN l
    ELSE LET left == Remember(Leave(l, k), k)
         IN  IF l.active = k THEN Promote(left) ELSE left

Queue(l) == IF l.active = Nobody THEN <<>> ELSE <<l.active>> \o l.waiting

\* The batches of the line that are in the set, one after the other; each may have
\* become the active one meanwhile.
ReleaseAll(l, batches) ==
    FoldLeft(LAMBDA acc, k : IF k \in batches THEN Release(acc, k) ELSE acc, l, Queue(l))

\* Mutant: an urgent batch goes to the front of the waiting ones.
InsertFirst(l, k, bytes) ==
    LET held == [j \in DOMAIN l.held \union {k} |-> IF j = k THEN bytes ELSE l.held[j]]
    IN  IF l.active = Nobody
        THEN [l EXCEPT !.held = held, !.reserved = @ + bytes, !.active = k]
        ELSE [l EXCEPT !.held = held, !.reserved = @ + bytes,
                       !.waiting = <<k>> \o @, !.unready = @ \union {k}]

\* _insert
Insert(l, k, bytes) ==
    LET held == [j \in DOMAIN l.held \union {k} |-> IF j = k THEN bytes ELSE l.held[j]]
    IN  IF l.active = Nobody
        THEN [l EXCEPT !.held = held, !.reserved = @ + bytes, !.active = k]
        ELSE [l EXCEPT !.held = held, !.reserved = @ + bytes,
                       !.waiting = Append(@, k), !.unready = @ \union {k}]

\* Mutant: one waiting batch too many is let in.
CrowdedLate(l) == l.active # Nobody /\ Len(l.waiting) > MaxUnsent

\* By count: an active batch and as many waiting ones as may be.
Crowded(l) == l.active # Nobody /\ Len(l.waiting) >= MaxUnsent

\* _scope_is_pressured
Pressured(l, bytes) ==
    Crowded(l) \/ (l.active # Nobody /\ l.reserved + bytes > ScopeBytes)

\* The waiting batches are evicted, oldest first, until there is room.
Relieved(l, bytes) ==
    FoldLeft(LAMBDA acc, k : IF Pressured(acc, bytes) THEN Release(acc, k) ELSE acc,
             l, l.waiting)

\* admit_parent, in the line of one destination.  A manual parent evicts nobody.
Admitted(l, p, bytes) ==
    LET room == IF origin[p] = "manual" THEN l ELSE Relieved(l, bytes)
    IN  IF Pressured(room, bytes) THEN Remember(room, p) ELSE Insert(room, p, bytes)

-------------------------------------------------------------------------------
\* A parent is admitted in the present generation of its channel, or in the one
\* retired while it was waiting for the lock.
AdmitParent(p, D, bytes) ==
    /\ open /\ p \notin born /\ \A q \in Parent : q < p => q \in born
    /\ born' = born \union {p}
    /\ generation[p] - retired[ChannelOf(origin[p])] \in {0, 1}
    /\ "ui" \in D \/ D = {"chatbox"}
    /\ "chatbox" \in D => ChannelOf(origin[p]) = "self"
    /\ line' = [s \in Scope |->
          IF s[1] = origin[p] /\ s[2] \in D /\ bytes <= BatchBytes
          THEN Admitted(line[s], p, bytes)
          ELSE line[s]]
    /\ UNCHANGED <<origin, generation, retired, open>>

\* register_overlay_event for an event outside a turn.
RegisterEvent(e, s, bytes) ==
    /\ open /\ e \notin born /\ s[2] = "overlay" /\ s[1] # "manual"
    /\ \A f \in Event : f < e => f \in born
    /\ born' = born \union {e}
    /\ LET l == line[s]
           room == IF Crowded(l) THEN Release(l, Head(l.waiting)) ELSE l
       IN  line' = [line EXCEPT ![s] =
              IF bytes > BatchBytes THEN l
              ELSE IF room.reserved + bytes > ScopeBytes THEN room
              ELSE Insert(room, e, bytes)]
    /\ UNCHANGED <<origin, generation, retired, open>>

\* Mutant: the new size is not charged to the scope.
ResizedFree(l, p, bytes) ==
    IF p \notin DOMAIN l.held THEN l
    ELSE IF bytes > BatchBytes THEN Release(l, p)
    ELSE [l EXCEPT !.held[p] = bytes]

\* The payloads of p now take this many bytes, if they may.
Resized(l, p, bytes) ==
    IF p \notin DOMAIN l.held THEN l
    ELSE IF bytes > BatchBytes \/ l.reserved + bytes - l.held[p] > ScopeBytes
    THEN Release(l, p)
    ELSE [l EXCEPT !.held[p] = bytes, !.reserved = @ + bytes - l.held[p]]

Of(p, D) == {s \in Scope : s[1] = origin[p] /\ s[2] \in D}
Lives(k) == {s \in Scope : k \in DOMAIN line[s].held}

\* resize_parent: of all destinations, or of the chatbox alone.
ResizeParent(p, D, bytes) ==
    /\ D \in {Destination, {"chatbox"}}
    /\ Of(p, D) \cap Lives(p) # {}
    /\ line' = [s \in Scope |-> IF s \in Of(p, D) THEN Resized(line[s], p, bytes) ELSE line[s]]
    /\ UNCHANGED <<origin, generation, born, retired, open>>

\* complete_target of the last target that was expected.
CompleteParent(p, D) ==
    /\ Of(p, D) \cap Lives(p) # {}
    /\ line' = [s \in Scope |-> IF s \in Of(p, D) THEN Release(line[s], p) ELSE line[s]]
    /\ UNCHANGED <<origin, generation, born, retired, open>>

\* The event was delivered, failed, or its publisher was cancelled as it waited.
EventEnds(e) ==
    /\ Lives(e) # {}
    /\ line' = [s \in Scope |-> Release(line[s], e)]
    /\ UNCHANGED <<origin, generation, born, retired, open>>

\* release_destination, when another overlay takes over.
ReplaceOverlay ==
    /\ open /\ \E s \in Scope : s[2] = "overlay" /\ Queue(line[s]) # <<>>
    /\ line' = [s \in Scope |->
          IF s[2] = "overlay" THEN ReleaseAll(line[s], Key) ELSE line[s]]
    /\ UNCHANGED <<origin, generation, born, retired, open>>

\* release_all, when the output runtime closes.
Close ==
    /\ open /\ open' = FALSE
    /\ line' = [s \in Scope |-> ReleaseAll(line[s], Key)]
    /\ UNCHANGED <<origin, generation, born, retired>>

\* The batches that the generation g leaves behind.
Outdated(g) == Event \union {p \in Parent : generation[p] < g}

\* The ranges of s that go with the generations of the channel c; those of manual
\* parents go with either channel.
Dropped(l, s, c, g) ==
    IF s[1] \notin {c, "manual"} THEN l
    ELSE [l EXCEPT !.ranges = [h \in Generation |-> IF h < g THEN <<>> ELSE @[h]]]

\* retire_turn_generation
RetireGeneration(c, g) ==
    /\ g \in Generation /\ g - 1 > retired[c]
    /\ retired' = [retired EXCEPT ![c] = g - 1]
    /\ line' = [s \in Scope |->
          Dropped(IF ChannelOf(s[1]) = c THEN ReleaseAll(line[s], Outdated(g))
                  ELSE line[s], s, c, g)]
    /\ UNCHANGED <<origin, generation, born, open>>

Next ==
    \/ \E p \in Parent, D \in SUBSET Destination, bytes \in Size :
          AdmitParent(p, D, bytes) \/ ResizeParent(p, D, bytes)
    \/ \E p \in Parent, D \in SUBSET Destination : CompleteParent(p, D)
    \/ \E e \in Event, s \in Scope, bytes \in Size : RegisterEvent(e, s, bytes)
    \/ \E e \in Event : EventEnds(e)
    \/ \E c \in Channel, g \in Generation : RetireGeneration(c, g)
    \/ ReplaceOverlay
    \/ Close

Spec == Init /\ [][Next]_vars
-------------------------------------------------------------------------------
\* Whoever waits for a batch is woken: a batch that is not ready is waiting
\* behind an active one, once, and every batch of the scope is one of the two.
NobodyStranded ==
    \A s \in Scope :
        LET l == line[s]
            waiting == ToSet(l.waiting)
        IN  /\ l.unready = waiting
            /\ Cardinality(waiting) = Len(l.waiting)
            /\ DOMAIN l.held = ToSet(Queue(l))
            /\ l.active \notin waiting
            /\ l.active = Nobody => waiting = {}

\* The byte budget of a scope is what its batches hold, and is never exceeded:
\* a leak would refuse every later parent, an overdraft would never be noticed.
BytesExact ==
    \A s \in Scope :
        LET l == line[s]
        IN  /\ l.reserved = FoldFunction(+, 0, l.held)
            /\ l.reserved <= ScopeBytes
            /\ \A k \in DOMAIN l.held : l.held[k] <= BatchBytes

\* The generations whose ranges may have been dropped from scope s.
MayBeDropped(s, g) ==
    \E c \in Channel : (s[1] = c \/ s[1] = "manual") /\ g <= retired[c]

\* The merged ranges say exactly which orders of a live generation are over, in
\* increasing order and with a gap between any two.
RangesExact ==
    \A s \in Scope, g \in Generation :
        LET ranges == line[s].ranges[g]
        IN  ~MayBeDropped(s, g) =>
            /\ UNION {ranges[i][1] .. ranges[i][2] : i \in DOMAIN ranges}
                 = {p \in line[s].over : generation[p] = g}
            /\ \A i \in DOMAIN ranges : ranges[i][1] <= ranges[i][2]
            /\ \A i, j \in DOMAIN ranges : i < j => ranges[i][2] + 1 < ranges[j][1]

Before(q, a, b) == \E i, j \in DOMAIN q : i < j /\ q[i] = a /\ q[j] = b

\* Two parents stand in the same order in every line both have a place in: a
\* publisher waits for its places one after the other, and with opposite orders
\* two publishers would wait for each other for good.
SameOrderEverywhere ==
    \A o \in Origin, d, e \in Destination, a, b \in Parent :
        LET q == Queue(line[<<o, d>>])
            r == Queue(line[<<o, e>>])
        IN  ~(Before(q, a, b) /\ Before(r, b, a))

Line == INSTANCE OutputLine

\* Every step does to a line what an operator of OutputLine does to it.
LineStep(q, r) ==
    \/ r = q
    \/ r = Line!RetireGeneration(q)
    \/ \E k \in Key : r = Line!Release(q, k) \/ r = Line!Admit(q, k, MaxUnsent)

\* Where another batch fits in the bytes, and the parents are not manual, a line is
\* the OutputLine that PeerTurns is composed of.
ImplementsLine ==
    [][\A s \in Scope :
          s[1] # "manual" /\ line[s].reserved + BatchBytes <= ScopeBytes =>
              LineStep(Queue(line[s]), Queue(line'[s]))]_vars
===============================================================================
