--------------------------- MODULE TmWheelProofs ----------------------------
(***************************************************************************)
(* Proofs about the timing wheel, for every number of rings, slots and     *)
(* timers: its data stay in range, no node is ever linked twice, and the   *)
(* wheel implements the clock of TmClock.                                  *)
(*                                                                         *)
(* The last rests on one fact about every pending timer: the slot it is in *)
(* will be reached at some move v of the hand of its ring, less than a     *)
(* turn from now, and the tick of that move is not after the timer is due. *)
(* Moves of a hand are counted as numbers, not modulo the ring; Hand says  *)
(* how many there were.                                                    *)
(***************************************************************************)
EXTENDS TmWheel, WellFoundedInduction, TLAPS

(***************************************************************************)
(* A timer always has a place in the wheel.                                *)
(***************************************************************************)

\* A non-empty set of numbers up to n has a greatest element.
LEMMA Greatest ==
  ASSUME NEW n \in Nat, NEW S \in SUBSET (0 .. n), S # {}
  PROVE  \E m \in S : \A k \in S : k <= m
<1> DEFINE T == {n - k : k \in S}
           R == OpToRel(<, Nat)
<1>1. T \in SUBSET Nat /\ T # {}
  <2>1. \A k \in S : n - k \in Nat
    OBVIOUS
  <2>2. PICK k \in S : TRUE
    OBVIOUS
  <2>3. n - k \in T
    OBVIOUS
  <2> QED
    BY <2>1, <2>3
<1>2. IsWellFoundedOn(R, Nat)
  BY NatLessThanWellFounded
<1>3. PICK x \in T : \A y \in T : ~(<<y, x>> \in R)
  <2> HIDE DEF T, R
  <2> QED BY <1>1, <1>2, WFMin
<1>4. \A y \in T : ~(y < x)
  BY <1>1, <1>3 DEF OpToRel
<1>5. PICK m \in S : x = n - m
  OBVIOUS
<1>6. ASSUME NEW k \in S PROVE k <= m
  <2>1. ~(n - k < n - m)
    BY <1>4, <1>5
  <2>2. k \in Int /\ m \in Int
    OBVIOUS
  <2> QED
    BY <2>1, <2>2
<1> QED
  BY <1>6

\* The constants a wheel is built from are in range.
LEMMA WheelConstants ==
  /\ RING \in Nat \ {0} /\ SLOT \in Nat \ {0}
  /\ Span \in Nat \ {0}
  /\ \A i \in Rings : Unit[i] \in Nat \ {0}
  /\ 0 \in Rings /\ 0 \in Slots
BY WheelAssumption DEF Span, Rings, RINGMAX, Slots

\* Whatever time is left, one of the rings has its highest digit.
LEMMA FindRingType ==
  ASSUME NEW left \in Nat
  PROVE  FindRing(left) \in Rings
<1> DEFINE S == {i \in 1 .. RINGMAX : Digit(left, i) # 0}
           Highest(i) == Digit(left, i) # 0 /\ \A j \in (i + 1) .. RINGMAX : Digit(left, j) = 0
<1>1. RINGMAX \in Nat
  BY WheelConstants DEF RINGMAX
<1>2. CASE S = {}
  <2>1. FindRing(left) = 0
    BY <1>2 DEF FindRing
  <2> QED
    BY <2>1, WheelConstants
<1>3. CASE S # {}
  <2>1. S \in SUBSET (0 .. RINGMAX)
    BY <1>1
  <2>2. PICK m \in S : \A k \in S : k <= m
    <3> HIDE DEF S
    <3> QED BY <1>1, <1>3, <2>1, Greatest
  <2>3. m \in 1 .. RINGMAX /\ Highest(m)
    BY <1>1, <2>2
  <2>4. FindRing(left) = CHOOSE i \in 1 .. RINGMAX : Highest(i)
    BY <1>3 DEF FindRing
  <2>5. FindRing(left) \in 1 .. RINGMAX
    <3> HIDE DEF Highest
    <3> QED BY <2>3, <2>4
  <2> QED
    BY <2>5, <1>1 DEF Rings
<1> QED
  BY <1>2, <1>3

\* "& TM_MASK": the slot is one of the ring.
LEMMA FindSlotType ==
  ASSUME TypeOK, NEW left \in Nat, NEW i \in Rings
  PROVE  FindSlot(left, i) \in Slots
<1> DEFINE d == IF i = 0 THEN left ELSE Digit(left, i)
<1>1. Unit[i] \in Nat \ {0} /\ SLOT \in Nat \ {0}
  BY WheelConstants
<1>2. left \div Unit[i] \in Int
  BY <1>1
<1>3. d \in Int
  BY <1>1, <1>2 DEF Digit
<1>4. current[i] \in Int
  BY DEF TypeOK, Slots
<1>5. (current[i] + d) % SLOT \in 0 .. (SLOT - 1)
  <2> HIDE DEF d
  <2> QED BY <1>1, <1>3, <1>4
<1> QED
  BY <1>5 DEF FindSlot, Slots

\* The time left is a number of ticks.
LEMMA LeftType ==
  ASSUME TypeOK, NEW n \in Node
  PROVE  Left(n) \in Nat
<1>1. ticks \in Nat /\ n.create \in Nat /\ n.expires \in Nat
  BY WheelConstants DEF TypeOK, Node
<1> QED
  BY <1>1 DEF Left, Deadline

\* __tm_insert links the node once more and marks it pending.
LEMMA InsertType ==
  ASSUME TypeOK, NEW n \in Node
  PROVE  /\ Insert(n) \in Node
         /\ Insert(n).pending
         /\ Insert(n).links = n.links + 1
<1> DEFINE i == FindRing(Left(n))
           s == FindSlot(Left(n), i)
<1>1. i \in Rings /\ s \in Slots
  BY LeftType, FindRingType, FindSlotType
<1>2. Insert(n) = [n EXCEPT !.pending = TRUE, !.links = @ + 1,
                            !.ring_idx = i, !.ring_slot = s]
  BY DEF Insert
<1>3. /\ n \in [pending : BOOLEAN, once : BOOLEAN, expires : 0 .. (Span - 1),
                 create : Nat, ring_idx : Rings, ring_slot : Slots, links : Nat]
  BY DEF Node
<1> HIDE DEF i, s
<1>4. Insert(n) = [pending |-> TRUE, once |-> n.once, expires |-> n.expires,
                   create |-> n.create, ring_idx |-> i, ring_slot |-> s,
                   links |-> n.links + 1]
  BY <1>2, <1>3
<1>5. n.links + 1 \in Nat
  BY <1>3
<1> QED
  BY <1>1, <1>3, <1>4, <1>5 DEF Node

(***************************************************************************)
(* The inductive invariant.  LinkedOnce alone is not inductive: the visit  *)
(* of a timer unlinks it without looking at pending, so a slot that is     *)
(* being emptied must hold pending timers only; and calls from outside     *)
(* must find no such slot.                                                 *)
(***************************************************************************)

\* The timers the sweep has yet to visit are pending.
TodoPending == \A t \in todo : node[t].pending

\* Between two sweeps there is nothing left to visit.
NothingLeft == sweep = Idle => todo = {}

IInv == TypeOK /\ LinkedOnce /\ TodoPending /\ NothingLeft

\* What LinkedOnce says of one node.
Sane(n) == n \in Node /\ n.links = IF n.pending THEN 1 ELSE 0

\* An unlinked node may be linked again.
LEMMA UnlinkSane ==
  ASSUME NEW n \in Node, n.pending, n.links = 1
  PROVE  /\ Unlink(n) \in Node /\ Sane(Unlink(n))
         /\ ~Unlink(n).pending /\ Unlink(n).links = 0
         /\ Unlink(n) = [n EXCEPT !.pending = FALSE, !.links = 0]
<1>1. n.links \in Nat
  BY DEF Node
<1>2. Unlink(n) = [n EXCEPT !.pending = FALSE, !.links = 0]
  BY <1>1 DEF Unlink
<1>3. [n EXCEPT !.pending = FALSE, !.links = 0] \in Node
  BY DEF Node
<1>4. ~Unlink(n).pending /\ Unlink(n).links = 0
  BY <1>2 DEF Node
<1> QED
  BY <1>2, <1>3, <1>4 DEF Sane

\* A node that is on no list is linked exactly once by __tm_insert.
LEMMA InsertSane ==
  ASSUME TypeOK, NEW n \in Node, n.links = 0
  PROVE  Sane(Insert(n))
BY InsertType DEF Sane

\* A zeroed node is a sane one.
LEMMA ZeroSane == Sane(Zero) /\ [Zero EXCEPT !.links = 0] = Zero
BY WheelConstants DEF Sane, Zero, Node

\* Whatever the callback did, a cycle timer is linked once and a once timer
\* is left as the callback left it.
LEMMA SettleSane ==
  ASSUME TypeOK, NEW n \in Node, Sane(n), n.once \/ ~n.pending
  PROVE  Sane(Settle(n))
<1>1. CASE n.once
  BY <1>1 DEF Settle
<1>2. CASE ~n.once
  <2>1. n.links = 0
    BY <1>2 DEF Sane
  <2>2. [n EXCEPT !.create = ticks] \in Node /\ [n EXCEPT !.create = ticks].links = 0
    BY <2>1 DEF TypeOK, Node
  <2> QED
    BY <1>2, <2>2, InsertSane DEF Settle
<1> QED
  BY <1>1, <1>2

\* Visiting one timer of the slot keeps the invariant.
LEMMA VisitInv ==
  ASSUME IInv, Whole, NEW t \in Timer, NEW n, Sane(n), VisitWell(t, n)
  PROVE  IInv'
<1> USE DEF IInv, Sane, Visit, VisitWell, Whole
<1>1. TypeOK'
  BY DEF TypeOK
<1>2. LinkedOnce'
  BY DEF TypeOK, LinkedOnce
<1>3. TodoPending'
  BY DEF TypeOK, TodoPending
<1>4. NothingLeft'
  BY DEF NothingLeft
<1> QED
  BY <1>1, <1>2, <1>3, <1>4

\* A call from outside that touches one timer keeps the invariant.
LEMMA CallInv ==
  ASSUME IInv, Whole, NEW t \in Timer, NEW n, Sane(n), sweep = Idle,
         node' = [node EXCEPT ![t] = n], UNCHANGED <<ticks, current, sweep, todo, doubled>>
  PROVE  IInv'
<1> USE DEF IInv, Sane, Whole
<1>1. TypeOK'
  BY DEF TypeOK
<1>2. LinkedOnce'
  BY DEF TypeOK, LinkedOnce
<1>3. TodoPending'
  BY DEF NothingLeft, TodoPending
<1>4. NothingLeft'
  BY DEF NothingLeft
<1> QED
  BY <1>1, <1>2, <1>3, <1>4

\* Turning a ring keeps the invariant: only pending timers are in a slot.
LEMMA TurnInv ==
  ASSUME IInv, NEW r \in Rings, TurnRing(r), ticks' \in Nat, UNCHANGED <<node, doubled>>
  PROVE  IInv'
<1>1. (current[r] + 1) % SLOT \in Slots
  <2>1. current[r] \in Int /\ SLOT \in Nat \ {0}
    BY WheelConstants DEF IInv, TypeOK, Slots
  <2> QED
    BY <2>1 DEF Slots
<1>2. r # Idle
  BY WheelConstants DEF Rings, Idle
<1>3. TypeOK'
  BY <1>1 DEF IInv, TypeOK, TurnRing, SlotOf
<1>4. LinkedOnce'
  BY DEF IInv, LinkedOnce
<1>5. TodoPending'
  BY DEF TodoPending, TurnRing, SlotOf
<1>6. NothingLeft'
  BY <1>2 DEF NothingLeft, TurnRing
<1> QED
  BY <1>3, <1>4, <1>5, <1>6 DEF IInv

\* The timer a callback is run for: pending and linked once, and no longer
\* either when the callback runs.
LEMMA DueSane ==
  ASSUME IInv, Whole, NEW t \in Timer, t \in todo
  PROVE  /\ node[t] \in Node /\ node[t].pending /\ node[t].links = 1
         /\ Unlink(node[t]) \in Node /\ Sane(Unlink(node[t]))
         /\ ~Unlink(node[t]).pending /\ Unlink(node[t]).links = 0
<1>1. node[t] \in Node /\ node[t].pending /\ node[t].links = 1
  BY DEF IInv, TypeOK, LinkedOnce, TodoPending, Whole
<1> QED
  BY <1>1, UnlinkSane

\* The arguments callers pass are in range.
LEMMA Arguments ==
  /\ \A after \in After : after \in 0 .. (Span - 1)
  /\ \A after \in ChangeTo : after \in 0 .. (Span - 1)
BY WheelAssumption, WheelConstants

\* Init establishes the invariant.
LEMMA InitInv == Init => IInv
<1> SUFFICES ASSUME Init PROVE IInv
  OBVIOUS
<1>1. Zero \in Node
  BY ZeroSane DEF Sane
<1>2. TypeOK
  BY <1>1, WheelConstants DEF Init, TypeOK
<1>3. LinkedOnce
  BY DEF Init, LinkedOnce, Zero
<1> QED
  BY <1>2, <1>3 DEF Init, IInv, TodoPending, NothingLeft

\* Every step keeps the invariant.
LEMMA NextInv == IInv /\ [Next]_vars => IInv'
<1> SUFFICES ASSUME IInv, [Next]_vars PROVE IInv'
  OBVIOUS
<1>1. CASE UNCHANGED vars
  <2>1. UNCHANGED <<ticks, current, node, sweep, todo, doubled>>
    BY <1>1 DEF vars
  <2> QED
    BY <2>1 DEF IInv, TypeOK, LinkedOnce, TodoPending, NothingLeft
<1> SUFFICES ASSUME Whole, Step PROVE IInv'
  BY <1>1 DEF Next
<1>2. CASE tm_trigger
  <2>1. ticks' \in Nat
    BY <1>2 DEF tm_trigger, IInv, TypeOK
  <2> QED
    BY <1>2, <2>1, TurnInv, WheelConstants DEF tm_trigger
<1>3. CASE NextRing
  <2>1. sweep + 1 \in Rings /\ ticks' \in Nat
    BY <1>3, WheelConstants DEF NextRing, IInv, TypeOK, Rings, RINGMAX, Idle
  <2> QED
    BY <1>3, <2>1, TurnInv DEF NextRing
<1>4. CASE EndSweep
  BY <1>4 DEF EndSweep, IInv, TypeOK, LinkedOnce, TodoPending, NothingLeft
<1>5. CASE tm_fini
  <2> DEFINE n(t) == IF node[t].pending THEN Unlink(node[t]) ELSE node[t]
  <2>1. ASSUME NEW t \in Timer PROVE Sane(n(t))
    <3>1. node[t] \in Node /\ Sane(node[t])
      BY DEF IInv, TypeOK, LinkedOnce, Sane, Whole
    <3>2. CASE node[t].pending
      BY <3>1, <3>2, UnlinkSane DEF Sane
    <3>3. CASE ~node[t].pending
      BY <3>1, <3>3
    <3> QED
      BY <3>2, <3>3
  <2> HIDE DEF n
  <2>2. node' = [t \in Timer |-> n(t)] /\ todo' = {} /\ UNCHANGED <<ticks, current, sweep, todo, doubled>>
    BY <1>5 DEF tm_fini, IInv, NothingLeft, n
  <2>3. TypeOK'
    BY <2>1, <2>2 DEF IInv, TypeOK, Sane
  <2>4. LinkedOnce'
    BY <2>1, <2>2 DEF LinkedOnce, Sane, Whole
  <2> QED
    BY <2>2, <2>3, <2>4 DEF IInv, TodoPending, NothingLeft
<1>6. ASSUME NEW t \in Timer, NEW after \in After, NEW once \in BOOLEAN,
             tm_insert(t, after, once)
      PROVE  IInv'
  <2> DEFINE n == [node[t] EXCEPT !.create = ticks, !.expires = after, !.once = once]
  <2>1. node[t] \in Node /\ node[t].links = 0
    BY <1>6 DEF tm_insert, IInv, TypeOK, LinkedOnce, Whole
  <2>2. n \in Node /\ n.links = 0
    BY <2>1, Arguments DEF IInv, TypeOK, Node
  <2>3. Sane(Insert(n))
    BY <2>2, InsertSane DEF IInv
  <2> HIDE DEF n
  <2> QED
    BY <1>6, <2>3, CallInv DEF tm_insert, n
<1>7. ASSUME NEW t \in Timer, tm_remove(t)
      PROVE  IInv'
  <2>1. node[t].links = 1
    BY <1>7 DEF tm_remove, IInv, LinkedOnce, Whole
  <2>2. [Zero EXCEPT !.links = node[t].links - 1] = Zero
    BY <2>1, ZeroSane
  <2> QED
    BY <1>7, <2>2, ZeroSane, CallInv DEF tm_remove
<1>8. ASSUME NEW t \in Timer, NEW after \in ChangeTo, tm_change(t, after)
      PROVE  IInv'
  <2> DEFINE e == ChangedExpires(node[t], after)
             n == [Unlink(node[t]) EXCEPT !.expires = e]
  <2>1. node[t] \in Node /\ node[t].pending /\ node[t].links = 1
    BY <1>8 DEF tm_change, IInv, TypeOK, LinkedOnce, Whole
  <2>2. e \in 0 .. (Span - 1)
    <3>1. Left(node[t]) \in Nat
      BY <2>1, LeftType DEF IInv
    <3>2. node[t].expires \in Int /\ after \in Int
      BY <2>1, Arguments, WheelConstants DEF Node
    <3> QED
      BY <3>1, <3>2, WheelConstants DEF ChangedExpires
  <2> HIDE DEF e
  <2>3. n \in Node /\ n.links = 0
    BY <2>1, <2>2, UnlinkSane DEF Node
  <2>4. Sane(Insert(n))
    BY <2>3, InsertSane DEF IInv
  <2> HIDE DEF n
  <2> QED
    BY <1>8, <2>4, CallInv DEF tm_change, n, e
<1>9. ASSUME NEW t \in Timer, Reinsert(t)
      PROVE  IInv'
  <2>1. Sane(Insert(Unlink(node[t])))
    BY <1>9, DueSane, InsertSane DEF Reinsert, IInv
  <2> QED
    BY <1>9, <2>1, VisitInv DEF Reinsert
<1>10. ASSUME NEW t \in Timer, CallbackSafe(t)
       PROVE  IInv'
  <2>1. Sane(Settle(Unlink(node[t])))
    BY <1>10, DueSane, SettleSane DEF CallbackSafe, Due, IInv
  <2> QED
    BY <1>10, <2>1, VisitInv DEF CallbackSafe
<1>11. ASSUME NEW t \in Timer, CallbackOnce(t)
       PROVE  IInv'
  <2> DEFINE n == [Unlink(node[t]) EXCEPT !.once = TRUE]
  <2>1. n \in Node /\ Sane(n) /\ ~n.pending
    BY <1>11, DueSane DEF CallbackOnce, Due, Node, Sane
  <2>2. Sane(Settle(n))
    BY <2>1, SettleSane DEF IInv
  <2> HIDE DEF n
  <2> QED
    BY <1>11, <2>2, VisitInv DEF CallbackOnce, n
<1>12. ASSUME NEW t \in Timer, NEW expires \in ChangeTo, CallbackChangeExpires(t, expires)
       PROVE  IInv'
  <2> DEFINE n == [Unlink(node[t]) EXCEPT !.expires = expires]
  <2>1. n \in Node /\ Sane(n) /\ ~n.pending
    BY <1>12, DueSane, Arguments DEF CallbackChangeExpires, Due, Node, Sane
  <2>2. Sane(Settle(n))
    BY <2>1, SettleSane DEF IInv
  <2> HIDE DEF n
  <2> QED
    BY <1>12, <2>2, VisitInv DEF CallbackChangeExpires, n
<1>13. ASSUME NEW t \in Timer, NEW after \in After, NEW once \in BOOLEAN,
              NEW safe \in BOOLEAN, CallbackInsert(t, after, once, safe)
       PROVE  IInv'
  <2> DEFINE m == [Unlink(node[t]) EXCEPT !.create = ticks, !.expires = after, !.once = once]
             n == Arm(Unlink(node[t]), after, once)
  <2>1. m \in Node /\ m.links = 0 /\ m.once = once /\ t \in todo
    BY <1>13, DueSane, Arguments DEF CallbackInsert, Due, Node, IInv, TypeOK
  <2>2. n = Insert(m)
    BY DEF Arm
  <2>3. n.once = once
    BY <2>1, <2>2 DEF Insert, Node
  <2>4. n \in Node /\ Sane(n) /\ n.pending /\ n.links = 1
    <3>1. Sane(Insert(m)) /\ Insert(m).pending
      BY <2>1, InsertSane, InsertType DEF IInv
    <3> QED
      BY <2>2, <3>1 DEF Sane
  <2> HIDE DEF n, m
  <2>5. CASE safe /\ ~once
    <3> DEFINE d == [n EXCEPT !.create = ticks]
    <3>1. d \in Node /\ d.links = 1
      BY <2>4 DEF Node, IInv, TypeOK
    <3>2. Insert(d) \in Node /\ Insert(d).pending /\ Insert(d).links = 2
      <4> HIDE DEF d
      <4> QED
        BY <3>1, InsertType DEF IInv
    <3>3. Settle(n) = Insert(d)
      BY <2>3, <2>5 DEF Settle
    <3> HIDE DEF d
    <3>4. PICK f : f = Settle(n)
      OBVIOUS
    <3>5. /\ node' = [node EXCEPT ![t] = f] /\ todo' = todo \ {t}
          /\ doubled' = {t} /\ UNCHANGED <<ticks, current, sweep>>
      BY <1>13, <2>5, <3>4 DEF CallbackInsert, Visit, Whole, n
    <3>6. f \in Node /\ f.pending /\ f.links = 2
      BY <3>2, <3>3, <3>4
    <3>7. TypeOK'
      BY <3>5, <3>6 DEF IInv, TypeOK
    <3>8. LinkedOnce'
      BY <3>5, <3>6 DEF IInv, TypeOK, LinkedOnce, Whole
    <3>9. TodoPending' /\ NothingLeft'
      BY <3>5, <3>6 DEF IInv, TypeOK, TodoPending, NothingLeft
    <3> QED
      BY <3>7, <3>8, <3>9 DEF IInv
  <2>6. CASE ~(safe /\ ~once)
    <3>1. VisitWell(t, n)
      BY <1>13, <2>3, <2>6 DEF CallbackInsert, Settle, Visit, VisitWell, n
    <3> QED
      BY <2>4, <3>1, VisitInv
  <2> QED
    BY <2>5, <2>6
<1>14. ASSUME NEW t \in Timer, CallbackUnsafe(t)
       PROVE  IInv'
  <2>1. [Zero EXCEPT !.links = node[t].links - 1] = Zero
    BY <1>14, DueSane, ZeroSane DEF CallbackUnsafe, Due
  <2> QED
    BY <1>14, <2>1, ZeroSane, VisitInv DEF CallbackUnsafe
<1> QED
  BY <1>2, <1>3, <1>4, <1>5, <1>6, <1>7, <1>8, <1>9, <1>10, <1>11,
     <1>12, <1>13, <1>14 DEF Step

\* The wheel keeps its invariant.
LEMMA Invariance == Spec => []IInv
BY InitInv, NextInv, PTL DEF Spec

\* Every member of every node, every hand and the sweep stay in range: in
\* particular no slot index leaves its ring and no expires its 32 bits.
THEOREM TypeCorrect == Spec => []TypeOK
<1>1. IInv => TypeOK
  BY DEF IInv
<1> QED
  BY <1>1, Invariance, PTL

\* Whatever is inserted, changed, removed or rearmed, a pending timer is
\* linked on exactly one slot list and any other on none, but for the timer
\* whose callback armed it as a cycle and returned safe: that one is linked
\* by both and the wheel is no longer whole.
THEOREM AlwaysLinkedOnce == Spec => []LinkedOnce
<1>1. IInv => LinkedOnce
  BY DEF IInv
<1> QED
  BY <1>1, Invariance, PTL

(***************************************************************************)
(* Division with remainder: what the wheel needs of it.                    *)
(***************************************************************************)

\* Division with remainder.
LEMMA DivMod ==
  \A n \in Int, u \in Int : u > 0 =>
    /\ n \div u \in Int /\ n % u \in 0 .. u - 1
    /\ n = u * (n \div u) + (n % u)
BY SMT

\* Quotient and remainder are the only ones.
LEMMA DivModIs ==
  ASSUME NEW n \in Int, NEW u \in Nat \ {0}, NEW q \in Int, NEW r \in 0 .. u - 1,
         n = u * q + r
  PROVE  n \div u = q /\ n % u = r
OBVIOUS

\* The hand one tick earlier.
LEMMA Before ==
  ASSUME NEW n \in Int, NEW u \in Nat \ {0}
  PROVE  /\ n % u = 0 => (n - 1) \div u = (n \div u) - 1
         /\ n % u # 0 => (n - 1) \div u = n \div u
<1> DEFINE q == n \div u
           r == n % u
           k == n - 1
<1>1. q \in Int /\ r \in 0 .. u - 1 /\ n = u * q + r
  BY DivMod
<1>2. k \in Int /\ k = n - 1
  OBVIOUS
<1> HIDE DEF q, r, k
<1>3. CASE r = 0
  <2>1. u * (q - 1) = u * q - u
    BY <1>1
  <2>2. k = u * (q - 1) + (u - 1) /\ q - 1 \in Int /\ u - 1 \in 0 .. u - 1
    BY <1>1, <1>2, <1>3, <2>1
  <2>3. k \div u = q - 1
    BY <1>2, <2>2, DivModIs
  <2> QED
    BY <1>3, <2>3 DEF q, r, k
<1>4. CASE r # 0
  <2>1. k = u * q + (r - 1) /\ r - 1 \in 0 .. u - 1
    BY <1>1, <1>2, <1>4
  <2>2. k \div u = q
    BY <1>1, <1>2, <2>1, DivModIs
  <2> QED
    BY <1>4, <2>2 DEF q, r, k
<1> QED
  BY <1>3, <1>4

\* A hand is back at 0 when the next ring moves.
LEMMA Carries ==
  ASSUME NEW n \in Int, NEW u \in Nat \ {0}, NEW s \in Nat \ {0}, n % u = 0
  PROVE  (n \div u) % s = 0 <=> n % (s * u) = 0
<1> DEFINE q == n \div u
           p == q \div s
           c == q % s
           w == s * u
<1>1. q \in Int /\ n = u * q
  BY DivMod
<1> HIDE DEF q
<1>2. p \in Int /\ c \in 0 .. s - 1 /\ q = s * p + c
  BY <1>1, DivMod
<1> HIDE DEF p, c
<1>3. w \in Nat \ {0}
  OBVIOUS
<1>4. n = (s * u) * p + u * c
  <2>1. u * (s * p + c) = u * (s * p) + u * c
    BY <1>2
  <2>2. u * (s * p) = (s * u) * p
    BY <1>2
  <2> QED
    BY <1>1, <1>2, <2>1, <2>2
<1>5. u * c \in 0 .. w - 1
  <2>1. c + 1 <= s
    BY <1>2
  <2>2. u * (c + 1) <= u * s
    BY <1>2, <2>1
  <2>3. u * (c + 1) = u * c + u /\ u * s = s * u
    BY <1>2
  <2>4. u * c >= 0
    BY <1>2
  <2> QED
    BY <1>2, <2>2, <2>3, <2>4
<1>6. n = w * p + u * c
  BY <1>4
<1> HIDE DEF w
<1>7. n % w = u * c
  BY <1>2, <1>3, <1>5, <1>6, DivModIs
<1>8. u * c = 0 <=> c = 0
  BY <1>2
<1> QED
  BY <1>7, <1>8 DEF w, c, q

\* What the outer ring divides, the inner one does.
LEMMA Inner ==
  ASSUME NEW n \in Int, NEW u \in Nat \ {0}, NEW s \in Nat \ {0}, n % (s * u) = 0
  PROVE  n % u = 0
<1> DEFINE w == s * u
           p == n \div w
<1>1. w \in Nat \ {0}
  OBVIOUS
<1>2. p \in Int /\ n = w * p
  <2> HIDE DEF w
  <2>1. n % w = 0
    BY DEF w
  <2> QED
    BY <1>1, <2>1, DivMod
<1> HIDE DEF p
<1>3. (s * u) * p = u * (s * p)
  BY <1>2
<1>4. n = u * (s * p) + 0 /\ s * p \in Int /\ 0 \in 0 .. u - 1
  BY <1>2, <1>3
<1> QED
  BY <1>4, DivModIs

\* Slots are counted modulo the ring.
LEMMA ModAdd ==
  ASSUME NEW h \in Int, NEW d \in Int, NEW s \in Nat \ {0}
  PROVE  ((h % s) + d) % s = (h + d) % s
<1> DEFINE q == h \div s
           r == h % s
           p == (h + d) \div s
           c == (h + d) % s
<1>1. q \in Int /\ r \in 0 .. s - 1 /\ h = s * q + r
  BY DivMod
<1>2. p \in Int /\ c \in 0 .. s - 1 /\ h + d = s * p + c
  BY DivMod
<1> HIDE DEF q, r, p, c
<1>3. s * (p - q) = s * p - s * q
  BY <1>1, <1>2
<1>4. r + d = s * (p - q) + c /\ p - q \in Int /\ r + d \in Int
  BY <1>1, <1>2, <1>3
<1>5. (r + d) % s = c
  BY <1>2, <1>4, DivModIs
<1> QED
  BY <1>5 DEF r, c

\* In less than a turn no slot comes twice.
LEMMA ModOnce ==
  ASSUME NEW h \in Int, NEW v \in Int, NEW s \in Nat \ {0}, h <= v, v < h + s
  PROVE  /\ v % s = h % s => v = h
         /\ ((v % s) - (h % s)) % s = v - h
<1> DEFINE q == h \div s
           r == h % s
           p == v \div s
           c == v % s
<1>1. q \in Int /\ r \in 0 .. s - 1 /\ h = s * q + r
  BY DivMod
<1>2. p \in Int /\ c \in 0 .. s - 1 /\ v = s * p + c
  BY DivMod
<1> HIDE DEF q, r, p, c
<1>3. s * (q - p) = s * q - s * p
  BY <1>1, <1>2
<1>4. c - r = s * (q - p) + (v - h) /\ q - p \in Int /\ v - h \in 0 .. s - 1 /\ c - r \in Int
  BY <1>1, <1>2, <1>3
<1>5. (c - r) % s = v - h
  BY <1>4, DivModIs
<1>6. c = r => v = h
  <2>1. ASSUME c = r PROVE 0 % s = v - h
    BY <1>5, <2>1, <1>1
  <2>2. 0 = s * 0 + 0
    OBVIOUS
  <2>3. 0 % s = 0
    BY <2>2, DivModIs
  <2> QED
    BY <2>1, <2>3
<1> QED
  BY <1>5, <1>6 DEF r, c

(***************************************************************************)
(* The highest digit of the time left.                                     *)
(***************************************************************************)

\* A non-empty set of numbers has a least element.
LEMMA Least ==
  ASSUME NEW S \in SUBSET Nat, S # {}
  PROVE  \E m \in S : \A k \in S : m <= k
<1> DEFINE R == OpToRel(<, Nat)
<1>1. IsWellFoundedOn(R, Nat)
  BY NatLessThanWellFounded
<1>2. PICK m \in S : \A k \in S : ~(<<k, m>> \in R)
  <2> HIDE DEF R
  <2> QED BY <1>1, WFMin
<1>3. \A k \in S : ~(k < m)
  BY <1>2 DEF OpToRel
<1> QED
  BY <1>3

\* A quotient is as small as its dividend.
LEMMA DivLess ==
  ASSUME NEW n \in Nat, NEW u \in Nat \ {0}, NEW s \in Nat \ {0}, n < s * u
  PROVE  n \div u \in 0 .. s - 1
<1> DEFINE q == n \div u
           r == n % u
<1>1. q \in Int /\ r \in 0 .. u - 1 /\ n = u * q + r
  BY DivMod
<1> HIDE DEF q, r
<1>2. q < s
  <2> SUFFICES ASSUME q >= s PROVE FALSE
    BY <1>1
  <2>1. u * q >= u * s /\ u * s = s * u
    BY <1>1
  <2> QED
    BY <1>1, <2>1
<1>3. q >= 0
  <2> SUFFICES ASSUME q + 1 <= 0 PROVE FALSE
    BY <1>1
  <2>1. u * (q + 1) <= 0 /\ u * (q + 1) = u * q + u
    BY <1>1
  <2> QED
    BY <1>1, <2>1
<1> QED
  BY <1>1, <1>2, <1>3 DEF q

\* A quotient of 0 is that of a smaller number.
LEMMA DivZero ==
  ASSUME NEW n \in Nat, NEW u \in Nat \ {0}, n \div u = 0
  PROVE  n < u
<1> DEFINE r == n % u
<1>1. r \in 0 .. u - 1 /\ n = u * 0 + r
  BY DivMod
<1> HIDE DEF r
<1> QED
  BY <1>1

\* So many whole units are in a number.
LEMMA DivAtMost ==
  ASSUME NEW n \in Nat, NEW u \in Nat \ {0}
  PROVE  u * (n \div u) <= n
<1> DEFINE q == n \div u
           r == n % u
<1>1. q \in Int /\ r \in 0 .. u - 1 /\ n = u * q + r
  BY DivMod
<1> HIDE DEF q, r
<1>2. u * q <= n
  BY <1>1
<1> QED
  BY <1>2 DEF q

\* A digit is its own remainder.
LEMMA ModSmall ==
  ASSUME NEW s \in Nat \ {0}, NEW q \in 0 .. s - 1
  PROVE  q % s = q
<1>1. q = s * 0 + q /\ q \in Int
  OBVIOUS
<1> QED
  BY <1>1, DivModIs

\* Ring after ring.
LEMMA Units ==
  /\ SLOT \in Nat \ {0} /\ SLOT >= 2 /\ RINGMAX \in Nat /\ RING = RINGMAX + 1
  /\ Unit[0] = 1 /\ Unit[RING] = Span
  /\ \A i \in 0 .. RING : Unit[i] \in Nat \ {0}
  /\ \A i \in Rings : i + 1 \in 0 .. RING /\ Unit[i + 1] = SLOT * Unit[i]
BY WheelAssumption DEF Rings, RINGMAX, Span

\* Above the ring a time is found in, it has no digit.
LEMMA FindRingAbove ==
  ASSUME NEW left \in Nat
  PROVE  LET i == FindRing(left)
         IN  /\ \A j \in (i + 1) .. RINGMAX : Digit(left, j) = 0
             /\ i # 0 => Digit(left, i) # 0
<1> DEFINE S == {i \in 1 .. RINGMAX : Digit(left, i) # 0}
           Highest(i) == Digit(left, i) # 0 /\ \A j \in (i + 1) .. RINGMAX : Digit(left, j) = 0
<1>1. RINGMAX \in Nat
  BY WheelConstants DEF RINGMAX
<1>2. CASE S = {}
  <2>1. FindRing(left) = 0 /\ \A j \in 1 .. RINGMAX : Digit(left, j) = 0
    BY <1>2 DEF FindRing
  <2> QED
    BY <2>1
<1>3. CASE S # {}
  <2>1. S \in SUBSET (0 .. RINGMAX)
    BY <1>1
  <2>2. PICK m \in S : \A k \in S : k <= m
    <3> HIDE DEF S
    <3> QED BY <1>1, <1>3, <2>1, Greatest
  <2>3. m \in 1 .. RINGMAX /\ Highest(m)
    BY <1>1, <2>2
  <2>4. FindRing(left) = CHOOSE i \in 1 .. RINGMAX : Highest(i)
    BY <1>3 DEF FindRing
  <2>5. Highest(FindRing(left))
    <3> HIDE DEF Highest
    <3> QED BY <2>3, <2>4
  <2> QED
    BY <2>5
<1> QED
  BY <1>2, <1>3

\* The time left spans less than a turn of its ring, and at least one slot of
\* it unless the ring is the innermost.
LEMMA FindRingSpan ==
  ASSUME NEW left \in 1 .. (Span - 1)
  PROVE  LET i == FindRing(left)
         IN  /\ i \in Rings
             /\ left \div Unit[i] \in 0 .. SLOT - 1
             /\ i # 0 => Digit(left, i) = left \div Unit[i] /\ left \div Unit[i] >= 1
<1> DEFINE i == FindRing(left)
           T == {j \in (i + 1) .. RING : left < Unit[j]}
<1>0. left \in Nat
  OBVIOUS
<1>1. i \in Rings
  BY <1>0, FindRingType
<1>2. /\ \A j \in (i + 1) .. RINGMAX : Digit(left, j) = 0
      /\ i # 0 => Digit(left, i) # 0
  BY <1>0, FindRingAbove
<1> HIDE DEF i
<1>3. RING \in T /\ T \in SUBSET Nat
  BY <1>1, Units DEF Rings
<1>4. PICK m \in T : \A k \in T : m <= k
  <2> HIDE DEF T
  <2> QED BY <1>3, Least
<1>5. m = i + 1
  <2> SUFFICES ASSUME m # i + 1 PROVE FALSE
    OBVIOUS
  <2> DEFINE j == m - 1
             q == left \div Unit[j]
  <2>1. j \in (i + 1) .. RINGMAX /\ j \in Rings /\ j + 1 = m
    BY <1>1, <1>4, Units DEF Rings
  <2>2. Unit[j] \in Nat \ {0} /\ left < SLOT * Unit[j]
    BY <1>4, <2>1, Units
  <2>3. q \in 0 .. SLOT - 1
    BY <1>0, <2>2, DivLess, Units
  <2>4. q % SLOT = 0
    BY <1>2, <2>1 DEF Digit
  <2>5. q = 0
    <3> HIDE DEF q
    <3> QED BY <2>3, <2>4, ModSmall, Units
  <2>6. left < Unit[j]
    BY <1>0, <2>2, <2>5, DivZero
  <2>7. j \in T
    BY <1>1, <2>1, <2>6, Units DEF Rings
  <2> QED
    BY <1>4, <2>1, <2>7
<1>6. left < SLOT * Unit[i] /\ Unit[i] \in Nat \ {0}
  BY <1>1, <1>4, <1>5, Units DEF Rings
<1>7. left \div Unit[i] \in 0 .. SLOT - 1
  BY <1>0, <1>6, DivLess, Units
<1>8. ASSUME i # 0 PROVE Digit(left, i) = left \div Unit[i] /\ left \div Unit[i] >= 1
  <2>1. Digit(left, i) = left \div Unit[i]
    BY <1>7, ModSmall, Units DEF Digit
  <2> QED
    BY <1>2, <1>7, <1>8, <2>1
<1> QED
  BY <1>1, <1>7, <1>8 DEF i

(***************************************************************************)
(* Where the hands are, and where timers wait for them.                    *)
(***************************************************************************)

\* tm_insert refuses a delay of 0 ticks; tm_change and tm_change_expires do
\* not, and a timer they leave with 0 waits a whole turn of ring 0.
NoZeroDelay == 0 \notin ChangeTo

\* The tick ring r has seen: in a sweep, outer rings are one behind.
Seen(r) == IF sweep # Idle /\ r > sweep THEN ticks - 1 ELSE ticks

\* How often ring r has moved its hand.
Hand(r) == Seen(r) \div Unit[r]

\* A sweep reaches a ring only at its ticks.
Turning ==
  /\ \A r \in Rings : current[r] = Hand(r) % SLOT
  /\ sweep # Idle => ticks > 0 /\ ticks % Unit[sweep] = 0

\* The v-th move of the hand of its ring takes n, and not too late.
TakenAt(n, v) ==
  /\ n.ring_slot = v % SLOT
  /\ Unit[n.ring_idx] * v <= Deadline(n)
  /\ n.ring_idx = 0 => v = Deadline(n)

\* A timer armed at a tick of the past, or this one, in the future of it.
Begun(n, t) == n.create <= t /\ n.expires >= 1

\* A hand that has moved h times takes n within the turn; at t.
WaitsFor(n, h, t) ==
  Begun(n, t) /\ \E v \in (h + 1) .. (h + SLOT - 1) : TakenAt(n, v)

\* n is in the slot that is being emptied.
Taken(n, r, h, t) == Begun(n, t) /\ n.ring_idx = r /\ TakenAt(n, h)

Waiting(n) == WaitsFor(n, Hand(n.ring_idx), ticks)

Lodged ==
  \A t \in Timer : node[t].pending =>
    IF t \in todo THEN Taken(node[t], sweep, Hand(sweep), ticks) ELSE Waiting(node[t])

WheelInv == Turning /\ Lodged

\* Hands count from 0.
LEMMA HandType ==
  ASSUME TypeOK, Turning, NEW r \in Rings
  PROVE  /\ Seen(r) \in Nat /\ Seen(r) <= ticks
         /\ Hand(r) \in Nat /\ Unit[r] * Hand(r) <= Seen(r)
         /\ Seen(r) < Unit[r] * (Hand(r) + 1)
         /\ r = 0 => Seen(r) = ticks /\ Hand(r) = ticks
<1> DEFINE n == Seen(r)
           u == Unit[r]
           q == n \div u
           m == n % u
<1>1. n \in Nat /\ n <= ticks /\ (r = 0 => n = ticks)
  BY DEF TypeOK, Turning, Seen, Idle, Rings
<1>2. u \in Nat \ {0} /\ (r = 0 => u = 1)
  BY Units DEF Rings, RINGMAX
<1> HIDE DEF n, u
<1>3. q \in Int /\ m \in 0 .. u - 1 /\ n = u * q + m
  BY <1>1, <1>2, DivMod
<1>4. Hand(r) = q
  BY DEF Hand, n, u
<1> HIDE DEF q, m
<1>5. u * (q + 1) = u * q + u
  BY <1>2, <1>3
<1>6. u * q <= n /\ n < u * (q + 1)
  BY <1>1, <1>2, <1>3, <1>5
<1>7. q >= 0
  <2> SUFFICES ASSUME q + 1 <= 0 PROVE FALSE
    BY <1>3
  <2>1. u * (q + 1) <= 0
    BY <1>2, <1>3
  <2> QED
    BY <1>1, <1>6, <2>1, <1>2, <1>3
<1>8. r = 0 => q = n
  BY <1>1, <1>2, <1>3
<1> QED
  BY <1>1, <1>3, <1>4, <1>6, <1>7, <1>8 DEF n, u

\* __tm_insert lodges a timer that is due later, whatever ring is behind.
LEMMA InsertWaits ==
  ASSUME TypeOK, Turning, NEW n \in Node, Begun(n, ticks), Deadline(n) > ticks
  PROVE  Waiting(Insert(n))
<1> DEFINE left == Left(n)
           i == FindRing(left)
           s == FindSlot(left, i)
           m == Insert(n)
           d == IF i = 0 THEN left ELSE Digit(left, i)
           h == Hand(i)
           v == h + d
           q == left \div Unit[i]
<1>1. ticks \in Nat /\ n.create \in Nat /\ n.expires \in 0 .. (Span - 1) /\ Span \in Nat
  BY WheelConstants DEF TypeOK, Node
<1>2. left = Deadline(n) - ticks /\ left \in 1 .. (Span - 1)
  BY <1>1 DEF Left, Begun, Deadline
<1>3. /\ i \in Rings /\ q \in 0 .. SLOT - 1
      /\ i # 0 => Digit(left, i) = q /\ q >= 1
  <2> HIDE DEF left
  <2> QED BY <1>2, FindRingSpan
<1>4. m = [n EXCEPT !.pending = TRUE, !.links = @ + 1, !.ring_idx = i, !.ring_slot = s]
  BY DEF Insert
<1> HIDE DEF left
<1> HIDE DEF i, m, s
<1>5. /\ m.create = n.create /\ m.expires = n.expires
      /\ m.ring_idx = i /\ m.ring_slot = s
  BY <1>4 DEF Node
<1>6. Deadline(m) = ticks + left
  BY <1>1, <1>2, <1>5 DEF Deadline
<1>7. /\ h \in Nat /\ Unit[i] * h <= ticks /\ (i = 0 => h = ticks)
  <2>1. Seen(i) \in Nat /\ Seen(i) <= ticks /\ h \in Nat /\ Unit[i] * h <= Seen(i)
        /\ (i = 0 => h = ticks)
    BY <1>3, HandType
  <2>2. Unit[i] \in Nat
    BY <1>3, Units DEF Rings, RINGMAX
  <2> QED
    BY <1>1, <2>1, <2>2
<1>8. s = (current[i] + d) % SLOT /\ current[i] = h % SLOT
  BY <1>3 DEF s, FindSlot, Turning
<1> HIDE DEF h
<1>9. d \in 1 .. SLOT - 1 /\ Unit[i] * d <= left
  <2>1. CASE i = 0
    <3>1. Unit[i] = 1
      BY <2>1, Units
    <3>2. left = 1 * q + 0 /\ left \in Int /\ q \in Int
      <4>1. left = 1 * (left \div 1) + (left % 1) /\ left % 1 \in 0 .. 0
        BY <1>2, DivMod
      <4> QED
        BY <1>2, <1>3, <3>1, <4>1
    <3> QED
      BY <1>2, <1>3, <2>1, <3>1, <3>2
  <2>2. CASE i # 0
    <3>1. d = q /\ q >= 1
      BY <1>3, <2>2
    <3>2. Unit[i] \in Nat \ {0} /\ left \in Nat
      BY <1>2, <1>3, Units DEF Rings, RINGMAX
    <3>3. Unit[i] * q <= left
      BY <3>2, DivAtMost
    <3> HIDE DEF q
    <3> QED
      BY <1>3, <3>1, <3>3
  <2> QED
    BY <2>1, <2>2
<1>10. i = 0 => d = left
  OBVIOUS
<1> HIDE DEF d, q
<1>11. s = v % SLOT
  <2>1. h \in Int /\ d \in Int /\ SLOT \in Nat \ {0}
    BY <1>7, <1>9, Units
  <2>2. ((h % SLOT) + d) % SLOT = (h + d) % SLOT
    BY <2>1, ModAdd
  <2> QED
    BY <1>8, <2>2
<1>12. v \in (h + 1) .. (h + SLOT - 1)
  BY <1>7, <1>9, Units
<1>13. Unit[i] * v <= Deadline(m)
  <2>1. Unit[i] \in Nat /\ left \in Nat
    BY <1>2, <1>3, Units DEF Rings, RINGMAX
  <2>2. Unit[i] * v = Unit[i] * h + Unit[i] * d
    BY <1>7, <1>9, <2>1
  <2>3. Unit[i] * h \in Int /\ Unit[i] * d \in Int
    BY <1>7, <1>9, <2>1
  <2> QED
    BY <1>1, <1>6, <1>7, <1>9, <2>1, <2>2, <2>3
<1>14. i = 0 => v = Deadline(m)
  BY <1>6, <1>7, <1>10
<1>15. TakenAt(m, v)
  BY <1>5, <1>11, <1>13, <1>14 DEF TakenAt
<1>16. Begun(m, ticks)
  BY <1>5 DEF Begun
<1> QED
  BY <1>5, <1>12, <1>15, <1>16 DEF Waiting, WaitsFor, h, m

\* A timer that waits is due after the tick its ring has seen.
LEMMA WaitsLater ==
  ASSUME TypeOK, Turning, NEW n \in Node, Waiting(n)
  PROVE  Deadline(n) > Seen(n.ring_idx) /\ Deadline(n) \in Nat
<1> DEFINE r == n.ring_idx
           h == Hand(r)
           u == Unit[r]
<1>1. r \in Rings
  BY DEF Node
<1>2. h \in Nat /\ Seen(r) \in Nat /\ Seen(r) < u * (h + 1)
  BY <1>1, HandType
<1>3. u \in Nat \ {0}
  BY <1>1, Units DEF Rings, RINGMAX
<1>4. PICK v \in (h + 1) .. (h + SLOT - 1) : TakenAt(n, v)
  BY DEF Waiting, WaitsFor
<1> HIDE DEF h
<1>5. u * v <= Deadline(n) /\ v \in Int /\ v >= h + 1
  BY <1>2, <1>4, Units DEF TakenAt
<1>6. Deadline(n) \in Nat
  BY WheelConstants DEF Node, Deadline
<1> HIDE DEF r, u
<1>7. u * (h + 1) <= u * v
  BY <1>2, <1>3, <1>5
<1>8. u * (h + 1) \in Int /\ u * v \in Int
  BY <1>2, <1>3, <1>5
<1>9. Deadline(n) > Seen(r)
  BY <1>2, <1>5, <1>6, <1>7, <1>8
<1> QED
  BY <1>6, <1>9 DEF r

\* A timer whose slot is being emptied is due now or later, and now in ring 0.
LEMMA TakenInTime ==
  ASSUME TypeOK, Turning, sweep # Idle, NEW n \in Node, Taken(n, sweep, Hand(sweep), ticks)
  PROVE  Deadline(n) >= ticks
<1> DEFINE u == Unit[sweep]
           h == Hand(sweep)
<1>1. sweep \in Rings /\ ticks \in Nat /\ ticks % u = 0
  BY DEF TypeOK, Turning
<1>2. u \in Nat \ {0}
  BY <1>1, Units DEF Rings, RINGMAX
<1>3. h = ticks \div u
  BY <1>1 DEF Hand, Seen, Rings
<1>4. u * h <= Deadline(n)
  BY DEF Taken, TakenAt
<1> HIDE DEF u, h
<1>5. ticks = u * h
  BY <1>1, <1>2, <1>3, DivMod
<1>6. Deadline(n) \in Nat
  BY WheelConstants DEF Node, Deadline
<1> QED
  BY <1>1, <1>4, <1>5, <1>6

\* The wheel stands still in all but three steps.
LEMMA HandsRest ==
  ASSUME UNCHANGED <<ticks, current, sweep>>
  PROVE  /\ \A r : Hand(r)' = Hand(r)
         /\ Turning => Turning'
BY DEF Hand, Seen, Turning

\* A step that touches one timer, which then waits or is not pending.
LEMMA TouchInv ==
  ASSUME IInv, WheelInv, NEW t \in Timer, NEW n, n.pending => Waiting(n),
         node' = [node EXCEPT ![t] = n], todo' = todo \ {t},
         UNCHANGED <<ticks, current, sweep>>
  PROVE  WheelInv'
<1>1. Turning' /\ \A r : Hand(r)' = Hand(r)
  BY HandsRest DEF WheelInv
<1>2. ASSUME NEW x \in Timer, node'[x].pending
      PROVE  IF x \in todo' THEN Taken(node'[x], sweep', Hand(sweep)', ticks')
             ELSE WaitsFor(node'[x], Hand(node[x].ring_idx)', ticks')
  <2>1. CASE x = t
    <3>1. node'[x] = n /\ x \notin todo' /\ node[x]' = n
      BY <2>1 DEF IInv, TypeOK
    <3>2. WaitsFor(n, Hand(n.ring_idx), ticks)
      BY <1>2, <3>1 DEF Waiting
    <3>3. Hand(node[x].ring_idx)' = Hand(n.ring_idx)
      BY <3>1 DEF Hand, Seen
    <3> QED
      BY <3>1, <3>2, <3>3
  <2>2. CASE x # t
    <3>1. node'[x] = node[x] /\ (x \in todo' <=> x \in todo) /\ node[x].pending
      BY <1>2, <2>2 DEF IInv, TypeOK
    <3>2. Hand(node[x].ring_idx)' = Hand(node[x].ring_idx) /\ Hand(sweep)' = Hand(sweep)
      BY <3>1 DEF Hand, Seen
    <3> QED
      BY <3>1, <3>2 DEF WheelInv, Lodged, Waiting
  <2> QED
    BY <2>1, <2>2
<1>3. Lodged'
  BY <1>2 DEF Lodged, Waiting
<1> QED
  BY <1>1, <1>3 DEF WheelInv

\* A ring moves its hand: what it takes is what waited for this move.
LEMMA TurnLodges ==
  ASSUME IInv, WheelInv, todo = {}, NEW r \in Rings, TurnRing(r), node' = node,
         ticks \in Nat, ticks' \in Nat, ticks <= ticks',
         ticks' > 0 /\ ticks' % Unit[r] = 0,
         Hand(r)' = Hand(r) + 1,
         \A i \in Rings \ {r} : Hand(i)' = Hand(i)
  PROVE  WheelInv'
<1> DEFINE h == Hand(r)
           hand == (current[r] + 1) % SLOT
<1>1. h \in Nat /\ current[r] = h % SLOT /\ current \in [Rings -> Slots]
  BY HandType DEF IInv, WheelInv, Turning, TypeOK
<1>2. hand = (h + 1) % SLOT
  <2>1. ((h % SLOT) + 1) % SLOT = (h + 1) % SLOT
    <3>1. h \in Int /\ 1 \in Int /\ SLOT \in Nat \ {0}
      BY <1>1, Units
    <3> HIDE DEF h
    <3> QED BY <3>1, ModAdd
  <2> QED
    BY <1>1, <2>1
<1>3. /\ current' = [current EXCEPT ![r] = hand] /\ sweep' = r
      /\ todo' = {t \in Timer : node[t].pending /\ node[t].ring_idx = r /\ node[t].ring_slot = hand}
  BY DEF TurnRing, SlotOf
<1> HIDE DEF hand
<1>4. Turning'
  <2>1. ASSUME NEW i \in Rings PROVE current'[i] = Hand(i)' % SLOT
    <3>1. CASE i = r
      BY <1>1, <1>2, <1>3, <3>1
    <3>2. CASE i # r
      BY <1>1, <1>3, <3>2 DEF WheelInv, Turning
    <3> QED
      BY <3>1, <3>2
  <2> QED
    BY <1>3, <2>1 DEF Turning
<1>5. ASSUME NEW t \in Timer, node[t].pending
      PROVE  IF t \in todo' THEN Taken(node[t], r, h + 1, ticks')
             ELSE WaitsFor(node[t], Hand(node[t].ring_idx)', ticks')
  <2> DEFINE n == node[t]
             i == n.ring_idx
  <2>1. n \in Node /\ i \in Rings /\ n.create \in Nat
    BY DEF IInv, TypeOK, Node
  <2>2. WaitsFor(n, Hand(i), ticks)
    BY <1>5 DEF WheelInv, Lodged, Waiting
  <2>3. Begun(n, ticks')
    BY <2>1, <2>2 DEF WaitsFor, Begun
  <2>4. CASE i # r
    <3>1. t \notin todo'
      BY <1>3, <2>4
    <3>2. Hand(node[t].ring_idx)' = Hand(i)
      BY <2>1, <2>4
    <3> QED
      BY <2>2, <2>3, <3>1, <3>2 DEF WaitsFor
  <2>5. CASE i = r
    <3>1. PICK v \in (h + 1) .. (h + SLOT - 1) : TakenAt(n, v)
      BY <2>2, <2>5 DEF WaitsFor
    <3>2. n.ring_slot = v % SLOT
      BY <3>1 DEF TakenAt
    <3>3. Hand(node[t].ring_idx)' = h + 1
      BY <2>5
    <3> HIDE DEF h
    <3>4. t \in todo' <=> v % SLOT = (h + 1) % SLOT
      BY <1>2, <1>3, <1>5, <2>5, <3>2
    <3>5. h + 1 <= v /\ v < (h + 1) + SLOT /\ v \in Int /\ h + 1 \in Int
      BY <1>1, <3>1, Units
    <3>6. v % SLOT = (h + 1) % SLOT => v = h + 1
      BY <3>5, ModOnce, Units
    <3>7. CASE t \in todo'
      BY <2>3, <2>5, <3>1, <3>4, <3>6, <3>7 DEF Taken
    <3>8. CASE t \notin todo'
      <4>1. v # h + 1
        BY <3>4, <3>8
      <4>2. v \in ((h + 1) + 1) .. ((h + 1) + SLOT - 1)
        BY <1>1, <3>1, <4>1, Units
      <4> QED
        BY <2>3, <3>1, <3>3, <3>8, <4>2 DEF WaitsFor
    <3> QED
      BY <3>7, <3>8
  <2> QED
    BY <2>4, <2>5
<1>6. Hand(sweep)' = h + 1
  BY <1>3 DEF Hand, Seen
<1>7. Lodged'
  BY <1>3, <1>5, <1>6 DEF Lodged, Waiting
<1> QED
  BY <1>4, <1>7 DEF WheelInv

\* tm_trigger: ring 0 moves at every tick.
LEMMA TriggerLodges ==
  ASSUME IInv, WheelInv, tm_trigger
  PROVE  WheelInv'
<1>1. /\ ticks \in Nat /\ ticks' = ticks + 1 /\ sweep = Idle /\ sweep' = 0
      /\ todo = {} /\ node' = node /\ TurnRing(0) /\ 0 \in Rings
  BY WheelConstants DEF tm_trigger, TurnRing, IInv, TypeOK, NothingLeft
<1>2. \A r \in Rings : Seen(r) = ticks /\ Seen(r)' = IF r > 0 THEN ticks ELSE ticks + 1
  BY <1>1 DEF Seen, Idle, Rings
<1>3. \A r \in Rings \ {0} : Hand(r)' = Hand(r)
  BY <1>2, Units DEF Hand, Rings
<1>4. ASSUME NEW k \in Nat PROVE k \div 1 = k /\ k % 1 = 0
  <2>1. k = 1 * k + 0
    OBVIOUS
  <2> QED
    BY <2>1, DivModIs
<1>5. Hand(0) = ticks \div 1 /\ Hand(0)' = (ticks + 1) \div 1
  BY <1>1, <1>2, Units DEF Hand
<1>6. Hand(0)' = Hand(0) + 1 /\ ticks' % Unit[0] = 0
  <2>1. ticks + 1 \in Nat
    BY <1>1
  <2> QED
    BY <1>1, <1>4, <1>5, <2>1, Units
<1> QED
  BY <1>1, <1>3, <1>6, TurnLodges

\* The next ring moves when the hand is back at 0, at a tick it divides.
LEMMA NextRingLodges ==
  ASSUME IInv, WheelInv, NextRing
  PROVE  WheelInv'
<1> SUFFICES ASSUME NEW k \in Rings, sweep = k PROVE WheelInv'
  BY DEF NextRing, IInv, TypeOK
<1> DEFINE r == k + 1
           u == Unit[k]
<1>1. /\ sweep = k /\ r \in Rings /\ k # Idle /\ r # Idle /\ todo = {} /\ Carry
      /\ TurnRing(r) /\ ticks' = ticks /\ node' = node /\ sweep' = r
      /\ ticks \in Nat /\ ticks > 0 /\ ticks % u = 0
  BY Units DEF NextRing, TurnRing, IInv, WheelInv, Turning, TypeOK, Idle, Rings, RINGMAX
<1>2. u \in Nat \ {0} /\ Unit[r] = SLOT * u
  BY <1>1, Units DEF Rings, RINGMAX
<1>3. Hand(k) = ticks \div u /\ current[k] = Hand(k) % SLOT
  BY <1>1 DEF Hand, Seen, Rings, WheelInv, Turning
<1>4. (ticks \div u) % SLOT = 0
  BY <1>1, <1>3 DEF Carry
<1>5. ticks % Unit[r] = 0
  <2>1. ticks \in Int /\ SLOT \in Nat \ {0} /\ u \in Nat \ {0} /\ ticks % u = 0
    BY <1>1, <1>2, Units
  <2> HIDE DEF u
  <2>2. ticks % (SLOT * u) = 0
    BY <1>4, <2>1, Carries
  <2> QED
    BY <1>2, <2>2
<1>6. \A i \in Rings : /\ Seen(i) = IF i > k THEN ticks - 1 ELSE ticks
                       /\ Seen(i)' = IF i > r THEN ticks - 1 ELSE ticks
  BY <1>1 DEF Seen
<1>7. \A i \in Rings \ {r} : Hand(i)' = Hand(i)
  <2>1. ASSUME NEW i \in Rings, i # r PROVE Seen(i)' = Seen(i)
    <3>1. i \in Int /\ k \in Int /\ r = k + 1
      BY <1>1 DEF Rings
    <3>2. i > r <=> i > k
      BY <2>1, <3>1
    <3> QED
      BY <1>6, <3>2
  <2> QED
    BY <2>1 DEF Hand
<1>8. Hand(r)' = Hand(r) + 1
  <2> DEFINE w == Unit[r]
  <2>1. Hand(r) = (ticks - 1) \div w /\ Hand(r)' = ticks \div w
    BY <1>1, <1>6 DEF Hand, Rings
  <2>2. w \in Nat \ {0} /\ ticks % w = 0
    BY <1>2, <1>5, Units
  <2> HIDE DEF w
  <2>3. ticks \in Int
    BY <1>1
  <2>4. (ticks - 1) \div w = (ticks \div w) - 1
    BY <2>2, <2>3, Before
  <2>5. ticks \div w \in Int
    BY <2>2, <2>3, DivMod
  <2> QED
    BY <2>1, <2>4, <2>5
<1>9. ticks' \in Nat /\ ticks <= ticks' /\ ticks' > 0 /\ ticks' % Unit[r] = 0
  BY <1>1, <1>5
<1>10. /\ IInv /\ WheelInv /\ todo = {} /\ r \in Rings /\ TurnRing(r) /\ node' = node
       /\ ticks \in Nat
  BY <1>1
<1> HIDE DEF r
<1> QED
  BY <1>7, <1>8, <1>9, <1>10, TurnLodges

\* What an outer ring divides, the next ring does.
LEMMA OuterDivides ==
  ASSUME NEW n \in Int, NEW k \in Rings, NEW q \in (k + 1) .. RINGMAX, n % Unit[q] = 0
  PROVE  n % Unit[k + 1] = 0
<1> DEFINE T == {i \in (k + 1) .. RINGMAX : n % Unit[i] = 0}
<1>1. T \in SUBSET Nat /\ T # {}
  BY Units DEF Rings
<1>2. PICK m \in T : \A i \in T : m <= i
  <2> HIDE DEF T
  <2> QED BY <1>1, Least
<1>3. m = k + 1
  <2> SUFFICES ASSUME m # k + 1 PROVE FALSE
    OBVIOUS
  <2> DEFINE j == m - 1
  <2>1. j \in (k + 1) .. RINGMAX /\ j \in Rings /\ j + 1 = m /\ j < m
    BY <1>2, Units DEF Rings
  <2>2. Unit[m] = SLOT * Unit[j] /\ Unit[j] \in Nat \ {0} /\ n % Unit[m] = 0
    BY <1>2, <2>1, Units DEF Rings, RINGMAX
  <2> HIDE DEF j
  <2>3. n % Unit[j] = 0
    <3> DEFINE u == Unit[j]
    <3>1. u \in Nat \ {0} /\ n % (SLOT * u) = 0
      BY <2>2
    <3> HIDE DEF u
    <3>2. n % u = 0
      BY <3>1, Inner, Units
    <3> QED
      BY <3>2 DEF u
  <2>4. j \in T
    BY <2>1, <2>3
  <2> QED
    BY <1>2, <2>1, <2>4, Units
<1> QED
  BY <1>2, <1>3

\* A sweep ends where the rings further out do not move.
LEMMA EndLodges ==
  ASSUME IInv, WheelInv, EndSweep
  PROVE  WheelInv'
<1> DEFINE k == sweep
           u == Unit[k]
<1>1. /\ k \in Rings /\ k # Idle /\ todo = {} /\ ~(Carry /\ k < RINGMAX)
      /\ ticks' = ticks /\ node' = node /\ current' = current /\ todo' = todo
      /\ sweep' = Idle /\ ticks \in Nat /\ ticks > 0 /\ ticks % u = 0
  BY DEF EndSweep, IInv, WheelInv, Turning, TypeOK
<1>2. u \in Nat \ {0}
  BY <1>1, Units DEF Rings, RINGMAX
<1>3. ASSUME k < RINGMAX PROVE ticks % Unit[k + 1] # 0
  <2>1. Hand(k) = ticks \div u /\ current[k] = Hand(k) % SLOT
    BY <1>1 DEF Hand, Seen, Rings, WheelInv, Turning
  <2>2. (ticks \div u) % SLOT # 0
    BY <1>1, <1>3, <2>1 DEF Carry
  <2>3. Unit[k + 1] = SLOT * u
    BY <1>1, Units
  <2>4. ticks \in Int /\ SLOT \in Nat \ {0} /\ ticks % u = 0
    BY <1>1, Units
  <2> HIDE DEF u
  <2>5. ticks % (SLOT * u) # 0
    BY <1>2, <2>2, <2>4, Carries
  <2> QED
    BY <2>3, <2>5
<1>4. ASSUME NEW r \in Rings PROVE Hand(r)' = Hand(r)
  <2>1. Seen(r)' = ticks /\ Seen(r) = IF r > k THEN ticks - 1 ELSE ticks
    BY <1>1 DEF Seen
  <2>2. CASE ~(r > k)
    BY <2>1, <2>2 DEF Hand
  <2>3. CASE r > k
    <3>1. r \in (k + 1) .. RINGMAX /\ k < RINGMAX
      BY <1>1, <2>3, Units DEF Rings
    <3>2. ticks % Unit[r] # 0
      BY <1>1, <1>3, <3>1, OuterDivides
    <3>3. Unit[r] \in Nat \ {0}
      BY Units DEF Rings, RINGMAX
    <3>4. ticks \in Int
      BY <1>1
    <3>5. (ticks - 1) \div Unit[r] = ticks \div Unit[r]
      BY <3>2, <3>3, <3>4, Before
    <3> QED
      BY <2>1, <2>3, <3>5 DEF Hand
  <2> QED
    BY <2>2, <2>3
<1>5. Turning'
  BY <1>1, <1>4 DEF WheelInv, Turning
<1>6. ASSUME NEW t \in Timer, node[t].pending
      PROVE  WaitsFor(node[t], Hand(node[t].ring_idx)', ticks)
  <2>1. node[t].ring_idx \in Rings
    BY DEF IInv, TypeOK, Node
  <2>2. Hand(node[t].ring_idx)' = Hand(node[t].ring_idx)
    <3> DEFINE r == node[t].ring_idx
    <3>1. Hand(r)' = Hand(r)
      BY <1>1, <1>4, <2>1 DEF Hand, Seen
    <3> QED
      BY <3>1
  <2>3. WaitsFor(node[t], Hand(node[t].ring_idx), ticks)
    BY <1>1, <1>6 DEF WheelInv, Lodged, Waiting
  <2> QED
    BY <2>2, <2>3
<1>7. Lodged'
  BY <1>1, <1>6 DEF Lodged, Waiting
<1> QED
  BY <1>5, <1>7 DEF WheelInv

(***************************************************************************)
(* The wheel keeps Turning and Lodged.                                     *)
(***************************************************************************)

\* What an armed timer is known to be, in a sweep or between two.
LEMMA PendingIs ==
  ASSUME IInv, WheelInv, NEW t \in Timer, node[t].pending
  PROVE  /\ node[t] \in Node /\ Begun(node[t], ticks)
         /\ Deadline(node[t]) \in Nat /\ Deadline(node[t]) >= ticks
         /\ sweep = Idle => Waiting(node[t]) /\ Deadline(node[t]) > ticks
<1> DEFINE n == node[t]
<1>1. n \in Node /\ n.ring_idx \in Rings /\ Deadline(n) \in Nat /\ ticks \in Nat
  BY WheelConstants DEF IInv, TypeOK, Node, Deadline
<1>2. CASE t \in todo
  <2>1. Taken(n, sweep, Hand(sweep), ticks) /\ sweep # Idle
    BY <1>2 DEF WheelInv, Lodged, IInv, NothingLeft
  <2>2. Deadline(n) >= ticks
    BY <1>1, <2>1, TakenInTime DEF IInv, WheelInv
  <2> QED
    BY <1>1, <2>1, <2>2 DEF Taken
<1>3. CASE t \notin todo
  <2>1. Waiting(n)
    BY <1>3 DEF WheelInv, Lodged
  <2>2. Deadline(n) > Seen(n.ring_idx)
    BY <1>1, <2>1, WaitsLater DEF IInv, WheelInv
  <2>3. Seen(n.ring_idx) >= ticks - 1 /\ (sweep = Idle => Seen(n.ring_idx) = ticks)
    BY <1>1 DEF Seen
  <2>4. Seen(n.ring_idx) \in Int
    BY <1>1 DEF Seen
  <2> HIDE DEF n
  <2>5. Deadline(n) >= ticks /\ (sweep = Idle => Deadline(n) > ticks)
    BY <1>1, <2>2, <2>3, <2>4
  <2> QED
    BY <1>1, <2>1, <2>5 DEF n, Waiting, WaitsFor
<1> QED
  BY <1>2, <1>3

\* A timer armed now, for later, waits.
LEMMA ArmedWaits ==
  ASSUME IInv, WheelInv, NEW n \in Node, n.create = ticks, n.expires >= 1
  PROVE  Waiting(Insert(n)) /\ Deadline(Insert(n)) = ticks + n.expires
<1>1. ticks \in Nat /\ n.expires \in Nat
  BY WheelConstants DEF IInv, TypeOK, Node
<1>2. Begun(n, ticks) /\ Deadline(n) = ticks + n.expires /\ Deadline(n) > ticks
  BY <1>1 DEF Begun, Deadline
<1>3. Deadline(Insert(n)) = Deadline(n)
  BY DEF Deadline, Insert, Node
<1> QED
  BY <1>2, <1>3, InsertWaits DEF IInv, WheelInv

\* After its callback a timer waits again or is not armed.
LEMMA SettleWaits ==
  ASSUME IInv, WheelInv, NEW n \in Node, ~n.pending, ~n.once => n.expires >= 1
  PROVE  /\ n.once => ~Settle(n).pending
         /\ ~n.once => /\ Settle(n).pending /\ Waiting(Settle(n))
                       /\ Deadline(Settle(n)) = ticks + n.expires
<1>1. CASE n.once
  BY <1>1 DEF Settle
<1>2. CASE ~n.once
  <2> DEFINE m == [n EXCEPT !.create = ticks]
  <2>1. m \in Node /\ m.create = ticks /\ m.expires = n.expires
    BY DEF IInv, TypeOK, Node
  <2>2. Settle(n) = Insert(m)
    BY <1>2 DEF Settle
  <2> HIDE DEF m
  <2>3. Insert(m).pending
    BY <2>1, InsertType DEF IInv
  <2> QED
    BY <1>2, <2>1, <2>2, <2>3, ArmedWaits
<1> QED
  BY <1>1, <1>2

\* tm_change gives a timer exactly `after` more ticks.
LEMMA ChangedIs ==
  ASSUME IInv, WheelInv, NEW t \in Timer, NEW after \in 1 .. (Span - 1),
         node[t].pending, sweep = Idle, (ticks - node[t].create) + after < Span
  PROVE  /\ ChangedExpires(node[t], after) = (ticks - node[t].create) + after
         /\ (ticks - node[t].create) + after \in 1 .. (Span - 1)
<1> DEFINE n == node[t]
           e == (ticks - n.create) + after
<1>1. /\ n \in Node /\ n.create <= ticks /\ Deadline(n) > ticks
      /\ ticks \in Nat /\ n.create \in Nat /\ n.expires \in Nat /\ Span \in Nat \ {0}
  BY PendingIs, WheelConstants DEF Begun, Node, IInv, TypeOK
<1>2. Left(n) = (n.create + n.expires) - ticks
  BY <1>1 DEF Left, Deadline
<1>3. n.expires + (after - Left(n)) = e
  BY <1>1, <1>2
<1>4. e \in 0 .. (Span - 1) /\ e \in 1 .. (Span - 1)
  BY <1>1
<1>5. e % Span = e
  <2> HIDE DEF e
  <2> QED BY <1>1, <1>4, ModSmall
<1> QED
  BY <1>3, <1>4, <1>5 DEF ChangedExpires


(***************************************************************************)
(* Every step keeps the wheel turning, and is a step of the clock.         *)
(***************************************************************************)

\* The due ticks the clock is given by the wheel.
DueTicks == [t \in Timer |-> IF node[t].pending THEN Deadline(node[t]) ELSE -1]

\* A step that leaves timer t, alone, as n.
LEMMA TouchStep ==
  ASSUME IInv, WheelInv, NEW t \in Timer, NEW n, n.pending => Waiting(n),
         node' = [node EXCEPT ![t] = n], todo' = todo \ {t},
         UNCHANGED <<ticks, current, sweep>>
  PROVE  /\ WheelInv' /\ ticks' = ticks
         /\ DueTicks' = [DueTicks EXCEPT ![t] = IF n.pending THEN Deadline(n) ELSE -1]
<1>1. WheelInv'
  BY TouchInv
<1>2. DueTicks' = [DueTicks EXCEPT ![t] = IF n.pending THEN Deadline(n) ELSE -1]
  BY DEF DueTicks, Deadline, IInv, TypeOK
<1> QED
  BY <1>1, <1>2

\* A timer whose callback runs is due at this very tick.
LEMMA DueNow ==
  ASSUME IInv, Whole, WheelInv, NEW t \in Timer, Due(t)
  PROVE  /\ DueTicks[t] = ticks
         /\ Unlink(node[t]) \in Node /\ ~Unlink(node[t]).pending
         /\ Unlink(node[t]).once = node[t].once
         /\ Unlink(node[t]).expires = node[t].expires /\ node[t].expires >= 1
         /\ node[t].expires \in 1 .. (Span - 1)
         /\ [Zero EXCEPT !.links = node[t].links - 1] = Zero
<1> DEFINE n == node[t]
<1>1. /\ n \in Node /\ n.pending /\ n.links = 1
      /\ Unlink(n) \in Node /\ ~Unlink(n).pending
  BY DueSane DEF Due
<1>2. Deadline(n) \in Nat /\ Deadline(n) >= ticks /\ Begun(n, ticks) /\ ticks \in Nat
  BY <1>1, PendingIs DEF IInv, TypeOK
<1>3. Deadline(n) = ticks
  BY <1>2 DEF Due, Left
<1>4. DueTicks[t] = ticks
  BY <1>1, <1>3 DEF DueTicks
<1>5. Unlink(n).once = n.once /\ Unlink(n).expires = n.expires
  BY <1>1 DEF Unlink, Node
<1>6. n.expires >= 1 /\ n.expires \in 1 .. (Span - 1)
  BY <1>1, <1>2, WheelConstants DEF Begun, Node
<1>7. [Zero EXCEPT !.links = n.links - 1] = Zero
  BY <1>1, ZeroSane
<1> QED
  BY <1>1, <1>4, <1>5, <1>6, <1>7

\* tm_insert arms a timer.
LEMMA InsertStep ==
  ASSUME IInv, WheelInv, NEW t \in Timer, NEW after \in After, NEW once \in BOOLEAN,
         tm_insert(t, after, once)
  PROVE  WheelInv' /\ Clock!Arm(t, after) /\ after \in Clock!Delay
<1> DEFINE m == [node[t] EXCEPT !.create = ticks, !.expires = after, !.once = once]
           n == Insert(m)
<1>1. after \in 1 .. (Span - 1)
  BY WheelAssumption
<1>2. m \in Node /\ m.create = ticks /\ m.expires = after
  BY Arguments DEF IInv, TypeOK, Node
<1>3. /\ node' = [node EXCEPT ![t] = n] /\ ~node[t].pending /\ todo = {}
      /\ UNCHANGED <<ticks, current, sweep, todo>>
  BY DEF tm_insert, IInv, NothingLeft
<1> HIDE DEF m
<1>4. n.pending /\ Waiting(n) /\ Deadline(n) = ticks + after
  BY <1>1, <1>2, InsertType, ArmedWaits DEF IInv
<1> HIDE DEF n
<1>5. /\ WheelInv' /\ ticks' = ticks
      /\ DueTicks' = [DueTicks EXCEPT ![t] = ticks + after]
  BY <1>3, <1>4, TouchStep
<1>6. DueTicks[t] = -1
  BY <1>3 DEF DueTicks
<1> QED
  BY <1>1, <1>5, <1>6 DEF DueTicks, Clock!Arm, Clock!Armed, Clock!Never, Clock!Delay

\* tm_remove disarms one.
LEMMA RemoveStep ==
  ASSUME IInv, Whole, WheelInv, NEW t \in Timer, tm_remove(t)
  PROVE  WheelInv' /\ Clock!Disarm({t})
<1>1. node[t].links = 1
  BY DEF tm_remove, IInv, LinkedOnce, Whole
<1>2. /\ node' = [node EXCEPT ![t] = Zero] /\ ~Zero.pending /\ todo = {}
      /\ UNCHANGED <<ticks, current, sweep, todo>>
  <2>1. [Zero EXCEPT !.links = node[t].links - 1] = Zero
    BY <1>1, ZeroSane
  <2>2. ~Zero.pending
    BY DEF Zero
  <2> QED
    BY <2>1, <2>2 DEF tm_remove, IInv, NothingLeft
<1>3. /\ WheelInv' /\ ticks' = ticks
      /\ DueTicks' = [DueTicks EXCEPT ![t] = -1]
  BY <1>2, TouchStep
<1>4. DueTicks' = [x \in Timer |-> IF x \in {t} THEN -1 ELSE DueTicks[x]]
  BY <1>3 DEF DueTicks
<1> QED
  BY <1>3, <1>4 DEF DueTicks, Clock!Disarm, Clock!Never

\* tm_change gives an armed timer another due tick.
LEMMA ChangeStep ==
  ASSUME NoZeroDelay, IInv, Whole, WheelInv, NEW t \in Timer, NEW after \in ChangeTo,
         tm_change(t, after)
  PROVE  WheelInv' /\ Clock!Rearm(t, after) /\ after \in Clock!Delay
<1> DEFINE e == (ticks - node[t].create) + after
           m == [Unlink(node[t]) EXCEPT !.expires = e]
           n == Insert(m)
<1>1. after \in 1 .. (Span - 1)
  BY Arguments, WheelConstants DEF NoZeroDelay
<1>2. /\ node[t] \in Node /\ Begun(node[t], ticks) /\ Deadline(node[t]) > ticks
      /\ node[t].pending /\ sweep = Idle /\ node[t].links = 1 /\ ticks \in Nat
  BY PendingIs DEF tm_change, IInv, TypeOK, LinkedOnce, Whole
<1>3. ChangedExpires(node[t], after) = e /\ e \in 1 .. (Span - 1)
  BY <1>1, <1>2, ChangedIs DEF tm_change
<1>4. /\ node' = [node EXCEPT ![t] = n] /\ todo = {}
      /\ UNCHANGED <<ticks, current, sweep, todo>>
  BY <1>2, <1>3 DEF tm_change, IInv, NothingLeft
<1>5. m \in Node /\ m.create = node[t].create /\ m.expires = e
  <2> DEFINE l == Unlink(node[t])
  <2>1. l \in Node /\ l = [node[t] EXCEPT !.pending = FALSE, !.links = 0]
    BY <1>2, UnlinkSane
  <2>2. l.create = node[t].create
    BY <1>2, <2>1 DEF Node
  <2>3. e \in 0 .. (Span - 1)
    BY <1>3, WheelConstants
  <2> HIDE DEF l, e
  <2>4. [l EXCEPT !.expires = e] \in Node /\ [l EXCEPT !.expires = e].create = l.create
        /\ [l EXCEPT !.expires = e].expires = e
    BY <2>1, <2>3 DEF Node
  <2> QED
    BY <2>2, <2>4 DEF l
<1>6. node[t].create \in Nat /\ node[t].create <= ticks
  BY <1>2 DEF Begun, Node
<1>7. Deadline(m) = ticks + after /\ Begun(m, ticks)
  <2> HIDE DEF m
  <2> QED BY <1>1, <1>2, <1>3, <1>5, <1>6 DEF Deadline, Begun
<1>8. n.create = m.create /\ n.expires = m.expires
  BY <1>5 DEF Insert, Node
<1> HIDE DEF m
<1>9. n.pending /\ Waiting(n)
  BY <1>1, <1>2, <1>5, <1>7, InsertType, InsertWaits DEF IInv, WheelInv
<1>10. Deadline(n) = ticks + after
  BY <1>7, <1>8 DEF Deadline
<1> HIDE DEF n
<1>11. /\ WheelInv' /\ ticks' = ticks
       /\ DueTicks' = [DueTicks EXCEPT ![t] = ticks + after]
  BY <1>4, <1>9, <1>10, TouchStep
<1>12. DueTicks[t] # -1
  BY <1>2 DEF DueTicks
<1> QED
  BY <1>1, <1>11, <1>12 DEF DueTicks, Clock!Rearm, Clock!Armed, Clock!Never, Clock!Delay

\* Moving a timer down a ring does not show: it keeps its due tick.
LEMMA ReinsertStep ==
  ASSUME IInv, Whole, WheelInv, NEW t \in Timer, Reinsert(t)
  PROVE  WheelInv' /\ UNCHANGED <<ticks, DueTicks>>
<1> DEFINE m == Unlink(node[t])
           n == Insert(m)
<1>1. /\ node[t] \in Node /\ node[t].pending /\ node[t].links = 1 /\ m \in Node
      /\ node' = [node EXCEPT ![t] = n] /\ todo' = todo \ {t}
      /\ UNCHANGED <<ticks, current, sweep>> /\ Left(node[t]) > 0
  BY DueSane DEF Reinsert, Visit, VisitWell
<1>2. Begun(node[t], ticks) /\ ticks \in Nat /\ Deadline(node[t]) \in Nat
  BY <1>1, PendingIs DEF IInv, TypeOK
<1>3. m.create = node[t].create /\ m.expires = node[t].expires
  BY <1>1 DEF Unlink, Node
<1> HIDE DEF m
<1>4. Begun(m, ticks) /\ Deadline(m) = Deadline(node[t]) /\ Deadline(m) > ticks
  BY <1>1, <1>2, <1>3 DEF Begun, Deadline, Left
<1>5. n.pending /\ Waiting(n)
  BY <1>1, <1>4, InsertType, InsertWaits DEF IInv, WheelInv
<1>6. Deadline(n) = Deadline(node[t])
  BY <1>1, <1>4 DEF Deadline, Insert, Node
<1> HIDE DEF n
<1>7. /\ WheelInv' /\ ticks' = ticks
      /\ DueTicks' = [DueTicks EXCEPT ![t] = Deadline(node[t])]
  BY <1>1, <1>5, <1>6, TouchStep
<1>8. DueTicks[t] = Deadline(node[t])
  BY <1>1 DEF DueTicks
<1>9. DueTicks' = DueTicks
  BY <1>7, <1>8 DEF DueTicks
<1> QED
  BY <1>7, <1>9

\* A timer whose callback leaves it as n, and safe, fires, and is armed again
\* if it is a cycle.
LEMMA SettleStep ==
  ASSUME IInv, Whole, WheelInv, NEW t \in Timer, Due(t), NEW n \in Node, ~n.pending,
         n.expires \in 1 .. (Span - 1), Visit(t, Settle(n))
  PROVE  /\ WheelInv'
         /\ \/ Clock!Fire(t)
            \/ n.expires \in Clock!Delay /\ Clock!FireAgain(t, n.expires)
<1>1. DueTicks[t] = ticks
  BY DueNow
<1>2. /\ node' = [node EXCEPT ![t] = Settle(n)] /\ todo' = todo \ {t}
      /\ UNCHANGED <<ticks, current, sweep>>
  BY DEF Visit
<1>3. n.expires >= 1
  BY WheelConstants
<1>4. CASE n.once
  <2>1. ~Settle(n).pending
    BY <1>3, <1>4, SettleWaits
  <2>2. /\ WheelInv' /\ ticks' = ticks
        /\ DueTicks' = [DueTicks EXCEPT ![t] = -1]
    BY <1>2, <2>1, TouchStep
  <2>3. Clock!Fire(t)
    BY <1>1, <2>2 DEF DueTicks, Clock!Fire, Clock!Never
  <2> QED
    BY <2>2, <2>3
<1>5. CASE ~n.once
  <2>1. /\ Settle(n).pending /\ Waiting(Settle(n))
        /\ Deadline(Settle(n)) = ticks + n.expires
    BY <1>3, <1>5, SettleWaits
  <2>2. /\ WheelInv' /\ ticks' = ticks
        /\ DueTicks' = [DueTicks EXCEPT ![t] = ticks + n.expires]
    BY <1>2, <2>1, TouchStep
  <2>3. n.expires \in Clock!Delay /\ Clock!FireAgain(t, n.expires)
    BY <1>1, <2>2 DEF DueTicks, Clock!FireAgain, Clock!Delay
  <2> QED
    BY <2>2, <2>3
<1> QED
  BY <1>4, <1>5


\* Firing a timer that its owner may have freed.
LEMMA UnsafeStep ==
  ASSUME IInv, Whole, WheelInv, NEW t \in Timer, CallbackUnsafe(t)
  PROVE  WheelInv' /\ Clock!Fire(t)
<1>1. /\ DueTicks[t] = ticks /\ ~Zero.pending
      /\ node' = [node EXCEPT ![t] = Zero] /\ todo' = todo \ {t}
      /\ UNCHANGED <<ticks, current, sweep>>
  <2>1. DueTicks[t] = ticks /\ [Zero EXCEPT !.links = node[t].links - 1] = Zero
    BY DueNow DEF CallbackUnsafe
  <2>2. ~Zero.pending
    BY DEF Zero
  <2> QED
    BY <2>1, <2>2 DEF CallbackUnsafe, Visit, VisitWell
<1>2. /\ WheelInv' /\ ticks' = ticks
      /\ DueTicks' = [DueTicks EXCEPT ![t] = -1]
  BY <1>1, TouchStep
<1> QED
  BY <1>1, <1>2 DEF DueTicks, Clock!Fire, Clock!Never

\* Firing a timer whose callback arms it again, linked once or twice.
LEMMA RearmStep ==
  ASSUME IInv, Whole, WheelInv, NEW t \in Timer, NEW after \in After,
         NEW once \in BOOLEAN, NEW safe \in BOOLEAN, CallbackInsert(t, after, once, safe)
  PROVE  WheelInv' /\ Clock!FireAgain(t, after) /\ after \in Clock!Delay
<1> DEFINE l == Unlink(node[t])
           m == [l EXCEPT !.create = ticks, !.expires = after, !.once = once]
           n == Insert(m)
<1>1. after \in 1 .. (Span - 1)
  BY WheelAssumption
<1>2. DueTicks[t] = ticks /\ l \in Node
  BY DueNow DEF CallbackInsert
<1>3. m \in Node /\ m.create = ticks /\ m.expires = after /\ m.once = once
  <2> HIDE DEF l
  <2> QED BY <1>2, Arguments DEF IInv, TypeOK, Node
<1>4. Arm(l, after, once) = n
  BY DEF Arm
<1> HIDE DEF m
<1>5. n.once = once /\ n.create = ticks /\ n.expires = after /\ n \in Node
  BY <1>3, InsertType DEF Insert, Node, IInv
<1>6. n.pending /\ Waiting(n) /\ Deadline(n) = ticks + after
  BY <1>1, <1>3, InsertType, ArmedWaits DEF IInv
<1> HIDE DEF n
<1> DEFINE d == [n EXCEPT !.create = ticks]
           f == IF safe THEN Settle(n) ELSE n
<1>7. f.pending /\ Waiting(f) /\ Deadline(f) = ticks + after
  <2>1. CASE safe /\ ~once
    <3>1. d \in Node /\ d.create = ticks /\ d.expires = after
      BY <1>5 DEF Node
    <3>2. f = Insert(d)
      BY <1>5, <2>1 DEF Settle
    <3> HIDE DEF d, f
    <3>3. Insert(d).pending
      BY <3>1, InsertType DEF IInv
    <3> QED
      BY <1>1, <3>1, <3>2, <3>3, ArmedWaits
  <2>2. CASE ~(safe /\ ~once)
    <3>1. f = n
      BY <1>5, <2>2 DEF Settle
    <3> HIDE DEF f
    <3> QED
      BY <1>6, <3>1
  <2> QED
    BY <2>1, <2>2
<1>8. /\ node' = [node EXCEPT ![t] = f] /\ todo' = todo \ {t}
      /\ UNCHANGED <<ticks, current, sweep>>
  BY <1>4 DEF CallbackInsert, Visit
<1> HIDE DEF f
<1>9. /\ WheelInv' /\ ticks' = ticks
      /\ DueTicks' = [DueTicks EXCEPT ![t] = ticks + after]
  BY <1>7, <1>8, TouchStep
<1> QED
  BY <1>1, <1>2, <1>9 DEF DueTicks, Clock!FireAgain, Clock!Delay

\* A sweep only starts, and the clock only advances, when nothing is due.
LEMMA TriggerStep ==
  ASSUME IInv, WheelInv, tm_trigger
  PROVE  WheelInv' /\ Clock!Advance
<1>1. WheelInv'
  BY TriggerLodges
<1>2. ticks' = ticks + 1 /\ node' = node /\ sweep = Idle /\ ticks \in Nat
  BY DEF tm_trigger, IInv, TypeOK
<1>3. DueTicks' = DueTicks
  BY <1>2 DEF DueTicks, Deadline
<1>4. ASSUME NEW t \in Timer, DueTicks[t] # -1 PROVE DueTicks[t] > ticks
  <2>1. node[t].pending /\ DueTicks[t] = Deadline(node[t])
    BY <1>4 DEF DueTicks
  <2> QED
    BY <1>2, <2>1, PendingIs
<1> QED
  BY <1>1, <1>2, <1>3, <1>4 DEF DueTicks, Clock!Advance, Clock!Armed, Clock!Never

\* tm_fini disarms every timer.
LEMMA FiniStep ==
  ASSUME IInv, WheelInv, tm_fini
  PROVE  WheelInv' /\ Clock!Disarm(Timer)
<1>1. ASSUME NEW t \in Timer PROVE ~node'[t].pending
  <2>1. node[t] \in Node
    BY DEF IInv, TypeOK
  <2> QED
    BY <2>1 DEF tm_fini, Unlink, Node
<1>2. UNCHANGED <<ticks, current, sweep>>
  BY DEF tm_fini
<1>3. WheelInv'
  BY <1>1, <1>2, HandsRest DEF WheelInv, Lodged
<1>4. DueTicks' = [t \in Timer |-> IF t \in Timer THEN -1 ELSE DueTicks[t]]
  BY <1>1 DEF DueTicks
<1> QED
  BY <1>2, <1>3, <1>4 DEF DueTicks, Clock!Disarm, Clock!Never

\* The wheel starts out turning, with a clock that has no timer.
LEMMA WheelStart == Init => WheelInv /\ Clock!ClockInit
<1> SUFFICES ASSUME Init PROVE WheelInv /\ Clock!ClockInit
  OBVIOUS
<1>1. ASSUME NEW u \in Nat \ {0} PROVE 0 \div u = 0
  <2>1. 0 = u * 0 + 0 /\ 0 \in 0 .. (u - 1)
    OBVIOUS
  <2> QED
    BY <2>1, DivModIs
<1>2. ASSUME NEW r \in Rings PROVE Hand(r) = 0
  BY <1>1, WheelConstants DEF Hand, Seen, Init
<1>3. 0 % SLOT = 0
  BY Units, ModSmall
<1>4. Turning
  BY <1>2, <1>3 DEF Turning, Init
<1>5. \A t \in Timer : ~node[t].pending
  BY DEF Init, Zero
<1>6. Clock!ClockInit
  BY <1>5 DEF Init, Clock!ClockInit, Clock!Never
<1> QED
  BY <1>4, <1>5, <1>6 DEF WheelInv, Lodged

\* Every step keeps the wheel turning and is a step of the clock or none.
LEMMA WheelStep ==
  ASSUME NoZeroDelay, IInv, WheelInv, [Next]_vars
  PROVE  WheelInv' /\ [Clock!ClockNext]_(Clock!clockVars)
<1> USE DEF Clock!ClockNext
<1>0. ASSUME WheelInv', UNCHANGED <<ticks, DueTicks>>
      PROVE  WheelInv' /\ [Clock!ClockNext]_(Clock!clockVars)
  BY <1>0 DEF Clock!clockVars, DueTicks
<1>1. CASE UNCHANGED vars
  <2>1. UNCHANGED <<ticks, current, node, sweep, todo>>
    BY <1>1 DEF vars
  <2>2. WheelInv'
    BY <2>1, HandsRest DEF WheelInv, Lodged, Waiting, Hand, Seen
  <2> QED
    BY <1>0, <2>1, <2>2 DEF DueTicks, Deadline
<1> SUFFICES ASSUME Whole, Step
             PROVE  WheelInv' /\ [Clock!ClockNext]_(Clock!clockVars)
  BY <1>1 DEF Next
<1>2. CASE tm_trigger
  BY <1>2, TriggerStep
<1>3. CASE NextRing
  BY <1>0, <1>3, NextRingLodges DEF NextRing, DueTicks, Deadline
<1>4. CASE EndSweep
  BY <1>0, <1>4, EndLodges DEF EndSweep, DueTicks, Deadline
<1>5. CASE tm_fini
  BY <1>5, FiniStep
<1>6. ASSUME NEW t \in Timer, NEW after \in After, NEW once \in BOOLEAN,
             tm_insert(t, after, once)
      PROVE  WheelInv' /\ [Clock!ClockNext]_(Clock!clockVars)
  BY <1>6, InsertStep
<1>7. ASSUME NEW t \in Timer, tm_remove(t)
      PROVE  WheelInv' /\ [Clock!ClockNext]_(Clock!clockVars)
  <2>1. {t} \in SUBSET Timer
    OBVIOUS
  <2> QED
    BY <1>7, <2>1, RemoveStep
<1>8. ASSUME NEW t \in Timer, NEW after \in ChangeTo, tm_change(t, after)
      PROVE  WheelInv' /\ [Clock!ClockNext]_(Clock!clockVars)
  BY <1>8, ChangeStep
<1>9. ASSUME NEW t \in Timer, Reinsert(t)
      PROVE  WheelInv' /\ [Clock!ClockNext]_(Clock!clockVars)
  BY <1>0, <1>9, ReinsertStep
<1>10. ASSUME NEW t \in Timer, CallbackSafe(t)
       PROVE  WheelInv' /\ [Clock!ClockNext]_(Clock!clockVars)
  BY <1>10, DueNow, SettleStep DEF CallbackSafe, VisitWell
<1>11. ASSUME NEW t \in Timer, CallbackOnce(t)
       PROVE  WheelInv' /\ [Clock!ClockNext]_(Clock!clockVars)
  <2> DEFINE l == Unlink(node[t])
             n == [l EXCEPT !.once = TRUE]
  <2>1. l \in Node /\ ~l.pending /\ l.expires \in 1 .. (Span - 1) /\ Due(t)
    BY <1>11, DueNow DEF CallbackOnce
  <2>2. Visit(t, Settle(n))
    BY <1>11 DEF CallbackOnce, VisitWell
  <2> HIDE DEF l
  <2>3. n \in Node /\ ~n.pending /\ n.expires \in 1 .. (Span - 1)
    BY <2>1 DEF Node
  <2> HIDE DEF n
  <2> QED
    BY <2>1, <2>2, <2>3, SettleStep
<1>12. ASSUME NEW t \in Timer, NEW expires \in ChangeTo, CallbackChangeExpires(t, expires)
       PROVE  WheelInv' /\ [Clock!ClockNext]_(Clock!clockVars)
  <2> DEFINE l == Unlink(node[t])
             n == [l EXCEPT !.expires = expires]
  <2>1. l \in Node /\ ~l.pending /\ Due(t)
    BY <1>12, DueNow DEF CallbackChangeExpires
  <2>2. expires \in 0 .. (Span - 1) /\ expires \in 1 .. (Span - 1)
    BY Arguments, WheelConstants DEF NoZeroDelay
  <2>3. Visit(t, Settle(n))
    BY <1>12 DEF CallbackChangeExpires, VisitWell
  <2> HIDE DEF l
  <2>4. n \in Node /\ ~n.pending /\ n.expires \in 1 .. (Span - 1)
    BY <2>1, <2>2 DEF Node
  <2> HIDE DEF n
  <2> QED
    BY <2>1, <2>3, <2>4, SettleStep
<1>13. ASSUME NEW t \in Timer, NEW after \in After, NEW once \in BOOLEAN,
              NEW safe \in BOOLEAN, CallbackInsert(t, after, once, safe)
       PROVE  WheelInv' /\ [Clock!ClockNext]_(Clock!clockVars)
  BY <1>13, RearmStep
<1>14. ASSUME NEW t \in Timer, CallbackUnsafe(t)
       PROVE  WheelInv' /\ [Clock!ClockNext]_(Clock!clockVars)
  BY <1>14, UnsafeStep
<1> QED
  BY <1>2, <1>3, <1>4, <1>5, <1>6, <1>7, <1>8, <1>9, <1>10, <1>11,
     <1>12, <1>13, <1>14 DEF Step

\* The wheel keeps its invariant, if no callback and no caller asks for 0.
LEMMA WheelInvariance == ASSUME NoZeroDelay PROVE Spec => []WheelInv
<1>1. Init => WheelInv
  BY WheelStart
<1>2. IInv /\ WheelInv /\ [Next]_vars => WheelInv'
  BY WheelStep
<1> QED
  BY <1>1, <1>2, Invariance, PTL DEF Spec

\* timer.h says that tm_left returns 0 for a timer that is not pending and
\* more than 0 otherwise: so it is, between two sweeps.
THEOREM PendingHasTimeLeft == ASSUME NoZeroDelay PROVE Spec => []LeftMeansPending
<1>1. IInv /\ WheelInv => LeftMeansPending
  <2> SUFFICES ASSUME IInv, WheelInv, sweep = Idle, NEW t \in Timer, node[t].pending
               PROVE  Left(node[t]) > 0
    BY DEF LeftMeansPending
  <2>1. Deadline(node[t]) > ticks /\ Deadline(node[t]) \in Nat /\ ticks \in Nat
    BY PendingIs DEF IInv, TypeOK
  <2> QED
    BY <2>1 DEF Left
<1> QED
  BY <1>1, Invariance, WheelInvariance, PTL

\* Between sweeps the hand of its ring reaches the slot of a pending timer no
\* later than the timer is due, and exactly then in ring 0.
THEOREM NeverLate == ASSUME NoZeroDelay PROVE Spec => []VisitedInTime
<1>1. IInv /\ WheelInv => VisitedInTime
  <2> SUFFICES ASSUME IInv, WheelInv, sweep = Idle, NEW t \in Timer, node[t].pending
               PROVE  LET n == node[t]
                          at == NextVisit(n.ring_idx, n.ring_slot)
                      IN  IF n.ring_idx = 0 THEN at = Deadline(n) ELSE at <= Deadline(n)
    BY DEF VisitedInTime
  <2> DEFINE n == node[t]
             r == n.ring_idx
             s == n.ring_slot
             h == Hand(r)
             gap == (s - current[r]) % SLOT
             u == Unit[r]
  <2>1. n \in Node /\ Waiting(n) /\ r \in Rings /\ Deadline(n) \in Nat
    BY PendingIs DEF Node
  <2>2. h \in Nat /\ current[r] = h % SLOT /\ ticks \div u = h
    BY <2>1, HandType DEF IInv, WheelInv, Turning, Hand, Seen
  <2>3. PICK v \in (h + 1) .. (h + SLOT - 1) : TakenAt(n, v)
    BY <2>1 DEF Waiting, WaitsFor
  <2>4. u * v <= Deadline(n) /\ (r = 0 => v = Deadline(n)) /\ s = v % SLOT
    BY <2>3 DEF TakenAt
  <2>5. u \in Nat \ {0} /\ (r = 0 => u = 1)
    BY <2>1, Units DEF Rings, RINGMAX
  <2> HIDE DEF h
  <2>6. h \in Int /\ v \in Int /\ SLOT \in Nat \ {0} /\ h <= v /\ v < h + SLOT
    BY <2>2, <2>3, Units
  <2>7. ((v % SLOT) - (h % SLOT)) % SLOT = v - h
    BY <2>6, ModOnce
  <2>8. gap = v - h /\ gap # 0
    BY <2>2, <2>3, <2>4, <2>6, <2>7
  <2>9. NextVisit(r, s) = (h + gap) * u
    BY <2>2, <2>8 DEF NextVisit
  <2> HIDE DEF gap, u, r, s, n
  <2>10. NextVisit(r, s) = u * v
    BY <2>2, <2>5, <2>6, <2>8, <2>9
  <2>11. u * v \in Int
    BY <2>5, <2>6
  <2>12. IF r = 0 THEN NextVisit(r, s) = Deadline(n) ELSE NextVisit(r, s) <= Deadline(n)
    <3>1. r = 0 => u * v = v
      BY <2>5, <2>6
    <3> QED
      BY <2>4, <2>10, <3>1
  <2> QED
    BY <2>12 DEF n, r, s
<1> QED
  BY <1>1, Invariance, WheelInvariance, PTL

\* The wheel keeps the promise of the clock: whatever was inserted, changed,
\* moved down or fired before, every timer fires at its due tick.
THEOREM ImplementsClock == ASSUME NoZeroDelay PROVE Spec => ClockSpec
<1>1. Init => Clock!ClockInit
  BY WheelStart
<1>2. IInv /\ WheelInv /\ [Next]_vars => [Clock!ClockNext]_(Clock!clockVars)
  BY WheelStep
<1> QED
  BY <1>1, <1>2, Invariance, WheelInvariance, PTL DEF Spec, ClockSpec, Clock!ClockSpec

\* Nor does the middle of a sweep, when some of the timers taken off their
\* slots have been visited and others have not, find a timer overdue.
THEOREM NoTimerOverdue == ASSUME NoZeroDelay PROVE Spec => []Clock!NeverOverdue
<1>1. IInv /\ WheelInv => Clock!NeverOverdue
  <2> SUFFICES ASSUME IInv, WheelInv, NEW t \in Timer, node[t].pending
               PROVE  Deadline(node[t]) >= ticks
    BY DEF Clock!NeverOverdue, Clock!Armed, Clock!Never, DueTicks
  <2> QED
    BY PendingIs
<1> QED
  BY <1>1, Invariance, WheelInvariance, PTL
=============================================================================
