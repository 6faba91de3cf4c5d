------------------------------ MODULE TmWheel -------------------------------
(***************************************************************************)
(* The hierarchical timing wheel of lib/weos/app/timer.c.  RING rings of   *)
(* SLOT slots each; ring i turns once every SLOT^(i+1) ticks.  A timer     *)
(* waits in the ring of the highest non-zero digit (base SLOT) of the time *)
(* it has left, and is moved down ("re-insert it") when the hand of that   *)
(* ring reaches its slot before the timer is due.                          *)
(*                                                                         *)
(* One tick is a sweep: ring 0 moves its hand and empties the slot under   *)
(* it, one timer at a time; when the hand is back at 0 the next ring does  *)
(* the same.  Callbacks run inside the sweep, so they see a wheel whose    *)
(* outer rings have not moved yet.  The program is single threaded: API    *)
(* calls from outside a callback happen between sweeps.                    *)
(***************************************************************************)
EXTENDS Integers, FiniteSets

CONSTANTS
  Timer,      \* the tm_node_t objects
  SLOT,       \* TM_SLOT, slots of a ring
  RING,       \* TM_RING, number of rings
  Unit,       \* Unit[i] = SLOT^i ticks: how long ring i stays on one slot
  After,      \* delays callers pass to tm_insert
  ChangeTo,   \* values callers pass to tm_change and tm_change_expires
  MaxTick     \* bound: the clock is not driven past this tick

Span == Unit[RING]           \* 2^32: TM_SLOT ^ TM_RING is the range of a uint32

ASSUME WheelAssumption ==
  /\ SLOT \in Nat /\ SLOT >= 2
  /\ RING \in Nat \ {0}
  /\ Unit \in [0 .. RING -> Nat \ {0}]
  /\ Unit[0] = 1
  /\ \A i \in 0 .. (RING - 1) : Unit[i + 1] = SLOT * Unit[i]
  /\ After \subseteq 1 .. (Span - 1)
  /\ ChangeTo \subseteq 0 .. (Span - 1)
  /\ MaxTick \in Nat

RINGMAX == RING - 1
Rings == 0 .. RINGMAX
Slots == 0 .. (SLOT - 1)
Idle == -1                   \* no sweep in progress

VARIABLES
  ticks,      \* clock->ticks
  current,    \* the hand of each ring
  node,       \* the tm_node_t of each timer
  sweep,      \* the ring whose slot is being emptied, or Idle
  todo,       \* timers of that slot the list iteration has not reached
  doubled     \* timers that tm_insert and the sweep both linked (history)

vars == <<ticks, current, node, sweep, todo, doubled>>

\* links: on how many slot lists the node is linked; 0 or 1 in a sane wheel.
Node == [pending : BOOLEAN, once : BOOLEAN, expires : 0 .. (Span - 1),
         create : Nat, ring_idx : Rings, ring_slot : Slots, links : Nat]

Zero == [pending |-> FALSE, once |-> FALSE, expires |-> 0,
         create |-> 0, ring_idx |-> 0, ring_slot |-> 0, links |-> 0]

TypeOK ==
  /\ ticks \in Nat
  /\ current \in [Rings -> Slots]
  /\ node \in [Timer -> Node]
  /\ sweep \in Rings \cup {Idle}
  /\ todo \subseteq Timer
  /\ doubled \subseteq Timer

-----------------------------------------------------------------------------
(* Placing a node.                                                         *)

Deadline(n) == n.create + n.expires

Left(n) == IF Deadline(n) > ticks THEN Deadline(n) - ticks ELSE 0

Digit(left, i) == (left \div Unit[i]) % SLOT

\* The highest ring whose digit of the time left is not zero.
FindRing(left) ==
  IF \A i \in 1 .. RINGMAX : Digit(left, i) = 0 THEN 0
  ELSE CHOOSE i \in 1 .. RINGMAX :
         Digit(left, i) # 0 /\ \A j \in (i + 1) .. RINGMAX : Digit(left, j) = 0

\* Mutant: what is left is rounded up to whole slots of the ring.
RoundedUpSlot(left, i) ==
  (current[i] + (IF i = 0 THEN left ELSE Digit(left, i) + 1)) % SLOT

FindSlot(left, i) ==
  (current[i] + (IF i = 0 THEN left ELSE Digit(left, i))) % SLOT

Insert(n) ==
  LET left == Left(n)
      i == FindRing(left)
  IN  [n EXCEPT !.pending = TRUE, !.links = @ + 1,
                !.ring_idx = i, !.ring_slot = FindSlot(left, i)]

Unlink(n) == [n EXCEPT !.pending = FALSE, !.links = @ - 1]

SlotOf(r, s) ==
  {t \in Timer : node[t].pending /\ node[t].ring_idx = r /\ node[t].ring_slot = s}

-----------------------------------------------------------------------------
(* Calls from outside a callback, between two sweeps.                      *)

tm_insert(t, after, once) ==
  /\ sweep = Idle
  /\ ~node[t].pending
  /\ node' = [node EXCEPT ![t] =
       Insert([node[t] EXCEPT !.create = ticks, !.expires = after, !.once = once])]
  /\ UNCHANGED <<ticks, current, sweep, todo, doubled>>

tm_remove(t) ==
  /\ sweep = Idle
  /\ node[t].pending
  /\ node' = [node EXCEPT ![t] = [Zero EXCEPT !.links = node[t].links - 1]]
  /\ UNCHANGED <<ticks, current, sweep, todo, doubled>>

\* Mutant: expires set to `after` although create is not renewed.
RestartedExpires(n, after) == after

\* expires is moved by the difference, so that `after` ticks are left from now.
ChangedExpires(n, after) == (n.expires + (after - Left(n))) % Span

\* Bound: a timer is not prolonged to a total life of 2^32 ticks or more,
\* where the 32-bit expires would wrap.
tm_change(t, after) ==
  /\ sweep = Idle
  /\ node[t].pending
  /\ (ticks - node[t].create) + after < Span
  /\ node' = [node EXCEPT ![t] =
       Insert([Unlink(node[t]) EXCEPT !.expires = ChangedExpires(node[t], after)])]
  /\ UNCHANGED <<ticks, current, sweep, todo, doubled>>

tm_fini ==
  /\ sweep = Idle
  /\ node' = [t \in Timer |-> IF node[t].pending THEN Unlink(node[t]) ELSE node[t]]
  /\ UNCHANGED <<ticks, current, sweep, todo, doubled>>

-----------------------------------------------------------------------------
(* One tick.                                                               *)

\* Mutant: the slot is taken before the hand moves.
TurnAfter(r) ==
  /\ current' = [current EXCEPT ![r] = (current[r] + 1) % SLOT]
  /\ sweep' = r
  /\ todo' = SlotOf(r, current[r])

\* Ring r moves its hand and starts on the slot under it.
TurnRing(r) ==
  LET hand == (current[r] + 1) % SLOT
  IN  /\ current' = [current EXCEPT ![r] = hand]
      /\ sweep' = r
      /\ todo' = SlotOf(r, hand)

tm_trigger ==
  /\ sweep = Idle
  /\ ticks < MaxTick
  /\ ticks' = ticks + 1
  /\ TurnRing(0)
  /\ UNCHANGED <<node, doubled>>

\* The hand came round: the next ring moves too.
Carry == current[sweep] = 0

NextRing ==
  /\ sweep # Idle
  /\ todo = {}
  /\ Carry
  /\ sweep < RINGMAX
  /\ TurnRing(sweep + 1)
  /\ UNCHANGED <<ticks, node, doubled>>

EndSweep ==
  /\ sweep # Idle
  /\ todo = {}
  /\ ~(Carry /\ sweep < RINGMAX)
  /\ sweep' = Idle
  /\ UNCHANGED <<ticks, current, node, todo, doubled>>

Visit(t, n) ==
  /\ t \in todo
  /\ node' = [node EXCEPT ![t] = n]
  /\ todo' = todo \ {t}
  /\ UNCHANGED <<ticks, current, sweep>>

VisitWell(t, n) == Visit(t, n) /\ UNCHANGED doubled

\* "NOT timeout, re-insert it"
Reinsert(t) ==
  /\ t \in todo
  /\ Left(node[t]) > 0
  /\ VisitWell(t, Insert(Unlink(node[t])))

Due(t) == t \in todo /\ Left(node[t]) = 0

\* Mutant: a once timer starts over too.
SettleAll(n) == Insert([n EXCEPT !.create = ticks])

\* The callback returns safe: a cycle timer starts over, a once timer rests.
Settle(n) == IF n.once THEN n ELSE Insert([n EXCEPT !.create = ticks])

CallbackSafe(t) ==
  /\ Due(t)
  /\ VisitWell(t, Settle(Unlink(node[t])))

\* The callback calls tm_once.
CallbackOnce(t) ==
  /\ Due(t)
  /\ ~node[t].once
  /\ VisitWell(t, Settle([Unlink(node[t]) EXCEPT !.once = TRUE]))

\* The callback calls tm_change_expires, which only a cycle timer accepts.
CallbackChangeExpires(t, expires) ==
  /\ Due(t)
  /\ ~node[t].once
  /\ VisitWell(t, Settle([Unlink(node[t]) EXCEPT !.expires = expires]))

Arm(n, after, once) ==
  Insert([n EXCEPT !.create = ticks, !.expires = after, !.once = once])

\* The callback arms its own timer again.  The sweep does not ask whether a
\* safe timer is pending: a cycle timer is then linked by both.
CallbackInsert(t, after, once, safe) ==
  /\ Due(t)
  /\ LET n == Arm(Unlink(node[t]), after, once)
     IN  Visit(t, IF safe THEN Settle(n) ELSE n)
  /\ doubled' = IF safe /\ ~once THEN doubled \cup {t} ELSE doubled

\* The callback returns unsafe: its owner may have freed the node, which is
\* not touched again; the memory may come back as a new, zeroed timer.
CallbackUnsafe(t) ==
  /\ Due(t)
  /\ VisitWell(t, [Zero EXCEPT !.links = node[t].links - 1])

-----------------------------------------------------------------------------

Init ==
  /\ ticks = 0
  /\ current = [r \in Rings |-> 0]
  /\ node = [t \in Timer |-> Zero]
  /\ sweep = Idle
  /\ todo = {}
  /\ doubled = {}

\* list_add of a linked node makes it its own successor: the rest of its slot
\* is lost and the next visit of the slot runs into NULL.  Nothing is said of
\* the program from there on.
Whole == doubled = {}

Step ==
  \/ tm_trigger
  \/ NextRing
  \/ EndSweep
  \/ tm_fini
  \/ \E t \in Timer :
       \/ \E after \in After, once \in BOOLEAN : tm_insert(t, after, once)
       \/ tm_remove(t)
       \/ \E after \in ChangeTo : tm_change(t, after)
       \/ Reinsert(t)
       \/ CallbackSafe(t)
       \/ CallbackOnce(t)
       \/ \E expires \in ChangeTo : CallbackChangeExpires(t, expires)
       \/ \E after \in After, once, safe \in BOOLEAN : CallbackInsert(t, after, once, safe)
       \/ CallbackUnsafe(t)

Next == Whole /\ Step

Spec == Init /\ [][Next]_vars

-----------------------------------------------------------------------------
(* Properties.                                                             *)

\* A node is on exactly one slot list while it is pending and on none
\* otherwise.  The one exception is the timer whose callback armed it as a
\* cycle and then returned safe: no other call and no other callback gets a
\* node linked twice.
LinkedOnce ==
  \A t \in Timer :
    node[t].links = IF t \in doubled THEN 2 ELSE IF node[t].pending THEN 1 ELSE 0

\* The tick at which the hand of ring r next reaches slot s.
NextVisit(r, s) ==
  LET gap == (s - current[r]) % SLOT
  IN  (ticks \div Unit[r] + (IF gap = 0 THEN SLOT ELSE gap)) * Unit[r]

\* Between sweeps every pending timer sits where the hand of its ring passes
\* no later than its due tick, and exactly then in ring 0: cascading a timer
\* down can never make it late.
VisitedInTime ==
  sweep = Idle =>
    \A t \in Timer : node[t].pending =>
      LET n == node[t]
          at == NextVisit(n.ring_idx, n.ring_slot)
      IN  IF n.ring_idx = 0 THEN at = Deadline(n) ELSE at <= Deadline(n)

\* timer.h says that tm_left returns 0 for a timer that is not pending and
\* more than 0 otherwise.
LeftMeansPending ==
  sweep = Idle => \A t \in Timer : node[t].pending => Left(node[t]) > 0

\* The wheel keeps the clock's promise: every timer fires exactly when due.
Clock == INSTANCE TmClock WITH
  Timer <- Timer, Span <- Span, now <- ticks,
  deadline <- [t \in Timer |-> IF node[t].pending THEN Deadline(node[t]) ELSE -1]

ClockSpec == Clock!ClockSpec
=============================================================================
