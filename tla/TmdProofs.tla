----------------------------- MODULE TmdProofs ------------------------------
(***************************************************************************)
(* Proofs about the timer daemon, for every number of names and every      *)
(* argument a client may send, and that it asks of the timer library what  *)
(* the library promises.                                                   *)
(***************************************************************************)
EXTENDS Tmd, TLAPS

\* No argument's milliseconds overflow an int.
ShortPeriods == \A sec \in Delays \cup Intervals : sec <= MaxSec

\* An entry of the table was accepted by is_good_tm_args.
GoodEntries ==
  \A n \in Timer : Present(n) =>
    /\ entry[n].interval \in Intervals
    /\ entry[n].interval # 0 \/ (entry[n].delay # 0 /\ entry[n].limit = 1)

\* The entry of n after one more trigger.
Triggered(n) == [entry[n] EXCEPT !.triggers = @ + 1]

(***************************************************************************)
(* Facts about entries.                                                    *)
(***************************************************************************)

\* What tmd_create makes is an entry.
LEMMA CreateType ==
  ASSUME NEW n \in Timer, NEW delay \in Delays, NEW interval \in Intervals,
         NEW limit \in Limits, is_good_tm_args(delay, interval, limit)
  PROVE  /\ tmd_create(n, delay, interval, limit) \in Xtimer
         /\ tmd_create(n, delay, interval, limit) # NoEntry
<1>1. delay \in Nat /\ interval \in Nat /\ limit \in Nat
  BY TmdAssumption DEF is_good_tm_args
<1>2. tmd_create(n, delay, interval, limit).triggers = 0 /\ NoEntry.triggers = -1
  BY DEF tmd_create, NoEntry
<1> QED
  BY <1>1, <1>2 DEF tmd_create, Xtimer

\* One more trigger leaves an entry an entry.
LEMMA TriggerType ==
  ASSUME TypeOK, NEW n \in Timer
  PROVE  Triggered(n) \in Xtimer /\ Triggered(n) # NoEntry
<1>1. NoEntry.triggers = -1
  BY DEF NoEntry
<1>2. CASE entry[n] \in Xtimer
  <2>1. Triggered(n) \in Xtimer /\ Triggered(n).triggers \in Nat
    BY <1>2 DEF Xtimer, Triggered
  <2>2. Triggered(n).triggers # -1
    BY <2>1
  <2> QED
    BY <2>1, <2>2, <1>1
<1>3. CASE entry[n] = NoEntry
  <2>1. Triggered(n) = [delay |-> 0, interval |-> 0, limit |-> 0, triggers |-> 0]
    BY <1>3 DEF NoEntry, Triggered
  <2>2. Triggered(n).triggers = 0
    BY <2>1
  <2> QED
    BY <2>1, <2>2, <1>1 DEF Xtimer
<1> QED
  BY <1>2, <1>3 DEF TypeOK

\* An entry of the table is an xtimer.
LEMMA PresentType ==
  ASSUME TypeOK, NEW n \in Timer, Present(n)
  PROVE  /\ entry[n] \in Xtimer
         /\ entry[n].delay \in Nat /\ entry[n].interval \in Nat
         /\ entry[n].limit \in Nat /\ entry[n].triggers \in Nat
BY DEF TypeOK, Present, Xtimer

\* A time that does not overflow is converted exactly.
LEMMA TicksExact ==
  ASSUME NEW sec \in Nat, sec <= MaxSec
  PROVE  Ticks(sec) = {sec}
BY DEF Ticks

\* What the callback of a due timer leaves: one more trigger, and the timer
\* armed again only if the entry has triggers to come, at the exact time if
\* its milliseconds fit.
LEMMA CallbackEffect ==
  ASSUME TypeOK, NEW n \in Timer, tmd_xtimer_cb(n)
  PROVE  /\ entry' = [entry EXCEPT ![n] = Triggered(n)]
         /\ born' = born /\ now' = now /\ deadline[n] = now
         /\ \E due \in Nat \cup {Never} :
              /\ deadline' = [deadline EXCEPT ![n] = due]
              /\ due # Never => Again(Triggered(n))
              /\ Again(Triggered(n)) /\ entry[n].interval \in 1 .. MaxSec
                   => due = now + entry[n].interval
<1> DEFINE e == Triggered(n)
           G(due) == /\ deadline' = [deadline EXCEPT ![n] = due]
                     /\ due # Never => Again(e)
                     /\ Again(e) /\ entry[n].interval \in 1 .. MaxSec
                          => due = now + entry[n].interval
<1>1. e \in Xtimer
  BY TriggerType
<1>2. e.interval = entry[n].interval
  BY <1>1 DEF TypeOK, Triggered, Xtimer, NoEntry
<1>3. Period(e) \in Nat /\ Period(e) = entry[n].interval
  BY <1>1, <1>2 DEF Period, Xtimer
<1>4. entry' = [entry EXCEPT ![n] = e] /\ born' = born /\ deadline[n] = now
  BY DEF tmd_xtimer_cb, Triggered
<1>5. \/ ~Again(e) /\ Fire(n)
      \/ Again(e) /\ \E after \in Ticks(Period(e)) :
                       IF after > 0 THEN FireAgain(n, after) ELSE Fire(n)
  BY DEF tmd_xtimer_cb, Triggered
<1>6. CASE ~Again(e) /\ Fire(n)
  <2>1. G(Never) /\ now' = now
    BY <1>6 DEF Fire
  <2> QED
    BY <1>4, <2>1
<1>7. ASSUME Again(e), NEW after \in Ticks(Period(e)),
             IF after > 0 THEN FireAgain(n, after) ELSE Fire(n)
      PROVE  now' = now /\ \E due \in Nat \cup {Never} : G(due)
  <2>1. after \in Int
    BY <1>3, TmdAssumption DEF Ticks
  <2>2. entry[n].interval \in 1 .. MaxSec => after = entry[n].interval /\ after > 0
    BY <1>3, TmdAssumption, TicksExact
  <2>3. CASE after > 0
    <3>1. G(now + after) /\ now' = now
      BY <1>7, <2>2, <2>3 DEF FireAgain
    <3>2. now + after \in Nat
      BY <2>1, <2>3 DEF TypeOK, ClockTypeOK
    <3> QED
      BY <3>1, <3>2
  <2>4. CASE ~(after > 0)
    <3>1. G(Never) /\ now' = now
      BY <1>7, <2>2, <2>4 DEF Fire
    <3> QED
      BY <3>1
  <2> QED
    BY <2>3, <2>4
<1> QED
  <2> HIDE DEF e, G
  <2>1. now' = now /\ \E due \in Nat \cup {Never} : G(due)
    BY <1>5, <1>6, <1>7 DEF e, G
  <2> QED
    BY <1>4, <2>1 DEF e, G

\* What an accepted insert leaves: a new entry, armed at the exact time if its
\* milliseconds fit.
LEMMA InsertEffect ==
  ASSUME TypeOK, NEW n \in Timer, NEW delay \in Delays, NEW interval \in Intervals,
         NEW limit \in Limits, tmd_handle_insert(n, delay, interval, limit)
  PROVE  /\ entry' = [entry EXCEPT ![n] = tmd_create(n, delay, interval, limit)]
         /\ born' = [born EXCEPT ![n] = now] /\ now' = now
         /\ \E due \in Nat \cup {Never} :
              /\ deadline' = [deadline EXCEPT ![n] = due]
              /\ delay <= MaxSec => due = now + FirstAfter(delay)
<1>1. delay \in Nat /\ FirstAfter(delay) \in Nat /\ FirstAfter(delay) > 0
  BY TmdAssumption DEF tmd_handle_insert, is_good_tm_args, FirstAfter
<1>2. PICK after \in Ticks(FirstAfter(delay)) :
        IF after > 0 THEN Arm(n, after) ELSE UNCHANGED clockVars
  BY DEF tmd_handle_insert
<1>3. after \in Int
  BY <1>1, TmdAssumption DEF Ticks
<1>4. delay <= MaxSec => after = FirstAfter(delay)
  BY <1>1, TmdAssumption, TicksExact DEF FirstAfter
<1>5. entry' = [entry EXCEPT ![n] = tmd_create(n, delay, interval, limit)]
      /\ born' = [born EXCEPT ![n] = now]
  BY DEF tmd_handle_insert
<1>6. CASE after > 0
  <2>1. now + after \in Nat
    BY <1>3, <1>6 DEF TypeOK, ClockTypeOK
  <2>2. now' = now /\ deadline' = [deadline EXCEPT ![n] = now + after]
    BY <1>2, <1>6 DEF Arm
  <2> QED
    BY <1>4, <1>5, <2>1, <2>2
<1>7. CASE ~(after > 0)
  <2>1. now' = now /\ deadline' = [deadline EXCEPT ![n] = Never]
    BY <1>2, <1>7 DEF clockVars, tmd_handle_insert, Armed, TypeOK, ClockTypeOK
  <2>2. ~(delay <= MaxSec)
    BY <1>1, <1>3, <1>4, <1>7
  <2> QED
    BY <1>5, <2>1, <2>2
<1> QED
  BY <1>6, <1>7

(***************************************************************************)
(* Type correctness, whatever the arguments.                               *)
(***************************************************************************)

\* The overflow of a long period disarms or mistimes a timer, but leaves the
\* table and the clock well formed.
LEMMA TypeInit == Init => TypeOK
BY DEF Init, TypeOK, ClockInit, ClockTypeOK

\* Every command, callback and tick keeps the table well formed.
LEMMA TypeNext == TypeOK /\ [Next]_vars => TypeOK'
<1> SUFFICES ASSUME TypeOK, [Next]_vars PROVE TypeOK'
  OBVIOUS
<1> USE DEF TypeOK, ClockTypeOK
<1>1. CASE UNCHANGED vars
  BY <1>1 DEF vars
<1>2. CASE Tick
  BY <1>2 DEF Tick, Advance
<1>3. CASE tmd_handle_clean
  BY <1>3 DEF tmd_handle_clean, Disarm
<1>4. ASSUME NEW n \in Timer, tmd_xtimer_cb(n)
      PROVE  TypeOK'
  BY <1>4, CallbackEffect, TriggerType
<1>5. ASSUME NEW n \in Timer, tmd_handle_remove(n)
      PROVE  TypeOK'
  BY <1>5 DEF tmd_handle_remove, tmd_destroy, Disarm
<1>6. ASSUME NEW n \in Timer, NEW delay \in Delays, NEW interval \in Intervals,
             NEW limit \in Limits, tmd_handle_insert(n, delay, interval, limit)
      PROVE  TypeOK'
  <2>1. tmd_create(n, delay, interval, limit) \in Xtimer
    BY <1>6, CreateType DEF tmd_handle_insert
  <2> QED
    BY <1>6, <2>1, InsertEffect
<1> QED
  BY <1>1, <1>2, <1>3, <1>4, <1>5, <1>6 DEF Next

\* The table holds well-formed entries and every armed timer a due tick, for
\* arguments of any size.
THEOREM TypeCorrect == Spec => []TypeOK
BY TypeInit, TypeNext, PTL DEF Spec

(***************************************************************************)
(* A timer is armed only for an entry with triggers to come.  Inductive    *)
(* together with the types and what is_good_tm_args let in.                *)
(***************************************************************************)

LiveInv == TypeOK /\ GoodEntries /\ ArmedIsLive

\* An empty table arms nothing.
LEMMA LiveInit == Init => LiveInv
BY TypeInit DEF Init, LiveInv, ClockInit, GoodEntries, ArmedIsLive, Present, Armed

\* A due timer's entry is in the table and stays what was accepted.
LEMMA DueEntry ==
  ASSUME LiveInv, NEW n \in Timer, deadline[n] = now
  PROVE  /\ Armed(n) /\ Present(n) /\ entry[n] \in Xtimer
         /\ Triggered(n) = [entry[n] EXCEPT !.triggers = entry[n].triggers + 1]
         /\ Triggered(n).delay = entry[n].delay
         /\ Triggered(n).interval = entry[n].interval
         /\ Triggered(n).limit = entry[n].limit
         /\ Triggered(n).triggers = entry[n].triggers + 1
         /\ Triggered(n).triggers \in Nat \ {0}
<1>1. Armed(n)
  BY DEF LiveInv, TypeOK, ClockTypeOK, Armed, Never
<1>2. Present(n)
  BY <1>1 DEF LiveInv, ArmedIsLive
<1>3. entry[n] \in Xtimer
  BY <1>2, PresentType DEF LiveInv
<1> QED
  BY <1>1, <1>2, <1>3 DEF Triggered, Xtimer

\* No step arms a timer whose entry has no trigger to come.
LEMMA LiveNext == LiveInv /\ [Next]_vars => LiveInv'
<1> SUFFICES ASSUME LiveInv, [Next]_vars PROVE LiveInv'
  OBVIOUS
<1>0. TypeOK /\ TypeOK'
  BY TypeNext DEF LiveInv
<1> USE DEF LiveInv
<1>1. CASE UNCHANGED vars
  BY <1>0, <1>1 DEF vars, GoodEntries, ArmedIsLive, Present, Armed
<1>2. CASE Tick
  BY <1>0, <1>2 DEF Tick, Advance, GoodEntries, ArmedIsLive, Present, Armed
<1>3. CASE tmd_handle_clean
  BY <1>0, <1>3 DEF tmd_handle_clean, Disarm, GoodEntries, ArmedIsLive, Present, Armed
<1>4. ASSUME NEW n \in Timer, tmd_xtimer_cb(n)
      PROVE  LiveInv'
  <2>1. PICK due \in Nat \cup {Never} :
          /\ deadline' = [deadline EXCEPT ![n] = due]
          /\ due # Never => Again(Triggered(n))
    BY <1>0, <1>4, CallbackEffect
  <2>2. entry' = [entry EXCEPT ![n] = Triggered(n)] /\ deadline[n] = now
    BY <1>0, <1>4, CallbackEffect
  <2>3. GoodEntries'
    BY <1>0, <2>2, DueEntry DEF GoodEntries, Present, TypeOK
  <2>4. Again(Triggered(n)) /\ Triggered(n).limit > 0
          => Triggered(n).triggers < Triggered(n).limit
    BY DEF Again, tmd_is_cycle
  <2>5. Triggered(n) # NoEntry
    BY <1>0, TriggerType
  <2>6. ArmedIsLive'
    BY <1>0, <2>1, <2>2, <2>4, <2>5 DEF ArmedIsLive, Armed, Present, TypeOK, ClockTypeOK
  <2> QED
    BY <1>0, <2>3, <2>6
<1>5. ASSUME NEW n \in Timer, tmd_handle_remove(n)
      PROVE  LiveInv'
  BY <1>0, <1>5 DEF tmd_handle_remove, tmd_destroy, Disarm, GoodEntries, ArmedIsLive,
                    Present, Armed, TypeOK, ClockTypeOK
<1>6. ASSUME NEW n \in Timer, NEW delay \in Delays, NEW interval \in Intervals,
             NEW limit \in Limits, tmd_handle_insert(n, delay, interval, limit)
      PROVE  LiveInv'
  <2> DEFINE e == tmd_create(n, delay, interval, limit)
  <2>1. PICK due \in Nat \cup {Never} : deadline' = [deadline EXCEPT ![n] = due]
    BY <1>0, <1>6, InsertEffect
  <2>2. entry' = [entry EXCEPT ![n] = e]
    BY <1>0, <1>6, InsertEffect
  <2>3. /\ e.interval = interval /\ e.delay = delay
        /\ e.limit = limit /\ e.triggers = 0
    BY DEF tmd_create
  <2>4. interval # 0 \/ (delay # 0 /\ limit = 1)
    BY <1>6 DEF tmd_handle_insert, is_good_tm_args
  <2>5. e # NoEntry
    BY <1>6, CreateType DEF tmd_handle_insert
  <2> HIDE DEF e
  <2>6. GoodEntries'
    BY <1>0, <2>2, <2>3, <2>4 DEF GoodEntries, Present, TypeOK
  <2>7. ArmedIsLive'
    BY <1>0, <2>1, <2>2, <2>3, <2>5 DEF ArmedIsLive, Armed, Present, TypeOK, ClockTypeOK
  <2> QED
    BY <1>0, <2>6, <2>7
<1> QED
  BY <1>1, <1>2, <1>3, <1>4, <1>5, <1>6 DEF Next

\* The table and its timers agree in every reachable state.
LEMMA LiveInvariance == Spec => []LiveInv
BY LiveInit, LiveNext, PTL DEF Spec

\* For arguments of any size, no timer outlives its entry and none is armed
\* for more triggers than its limit.
THEOREM NeverOutlives == Spec => []ArmedIsLive
<1>1. LiveInv => ArmedIsLive
  BY DEF LiveInv
<1> QED
  BY <1>1, LiveInvariance, PTL

(***************************************************************************)
(* As long as no argument's milliseconds overflow, no timer is lost and    *)
(* none drifts.                                                            *)
(***************************************************************************)

ExactInv == LiveInv /\ NoDrift /\ LiveIsArmed

\* An empty table has no period to keep.
LEMMA ExactInit == Init => ExactInv
BY LiveInit DEF Init, ExactInv, ClockInit, NoDrift, LiveIsArmed, Present, Armed

\* The due tick of the entry of n that NoDrift promises.
DueTick(e, since) ==
  since + (IF e.delay = 0 THEN 1 ELSE e.delay) + e.triggers * e.interval

\* Every step keeps the deadlines exact, if the milliseconds fit.
LEMMA ExactNext ==
  ASSUME ShortPeriods
  PROVE  ExactInv /\ [Next]_vars => ExactInv'
<1> SUFFICES ASSUME ExactInv, [Next]_vars PROVE ExactInv'
  OBVIOUS
<1>0. LiveInv /\ LiveInv' /\ TypeOK /\ TypeOK'
  BY LiveNext DEF ExactInv, LiveInv
<1>a. \A n \in Timer : Armed(n) => deadline[n] = DueTick(entry[n], born[n])
  BY DEF ExactInv, NoDrift, DueTick
<1>b. (\A n \in Timer : Armed(n)' => deadline'[n] = DueTick(entry'[n], born'[n]))
        => NoDrift'
  BY DEF NoDrift, DueTick
<1> USE DEF ExactInv
<1>1. CASE UNCHANGED vars
  BY <1>0, <1>1 DEF vars, NoDrift, LiveIsArmed, Present, Armed
<1>2. CASE Tick
  BY <1>0, <1>2 DEF Tick, Advance, NoDrift, LiveIsArmed, Present, Armed
<1>3. CASE tmd_handle_clean
  <2>1. \A n \in Timer : ~Armed(n)' /\ ~Present(n)'
    BY <1>0, <1>3 DEF tmd_handle_clean, Disarm, LiveInv, ArmedIsLive, Present, Armed
  <2> QED
    BY <1>0, <2>1 DEF NoDrift, LiveIsArmed
<1>4. ASSUME NEW n \in Timer, tmd_xtimer_cb(n)
      PROVE  ExactInv'
  <2> DEFINE e == Triggered(n)
  <2>1. PICK due \in Nat \cup {Never} :
          /\ deadline' = [deadline EXCEPT ![n] = due]
          /\ due # Never => Again(e)
          /\ Again(e) /\ entry[n].interval \in 1 .. MaxSec
               => due = now + entry[n].interval
    BY <1>0, <1>4, CallbackEffect
  <2>2. /\ entry' = [entry EXCEPT ![n] = e]
        /\ born' = born /\ now' = now /\ deadline[n] = now
    BY <1>0, <1>4, CallbackEffect
  <2>3. /\ Armed(n) /\ Present(n) /\ e.triggers \in Nat \ {0}
        /\ e.delay = entry[n].delay /\ e.interval = entry[n].interval
        /\ e.limit = entry[n].limit /\ e.triggers = entry[n].triggers + 1
    BY <1>0, <2>2, DueEntry
  <2>4. /\ entry[n].delay \in Nat /\ entry[n].interval \in Nat
        /\ entry[n].limit \in Nat /\ entry[n].triggers \in Nat
        /\ now \in Nat /\ born[n] \in Nat
    BY <1>0, <2>3, PresentType DEF TypeOK, ClockTypeOK
  <2>5. Again(e) => entry[n].interval \in 1 .. MaxSec
    <3>1. entry[n].interval <= MaxSec
      BY <1>0, <2>3 DEF LiveInv, GoodEntries, ShortPeriods
    <3>2. Again(e) => entry[n].interval # 0
      BY <1>0, <2>3, <2>4 DEF LiveInv, GoodEntries, Again, tmd_is_cycle
    <3> QED
      BY <3>1, <3>2, <2>4, TmdAssumption
  <2> HIDE DEF e
  <2>6. Again(e) => due = DueTick(e, born[n]) /\ due # Never
    <3>1. now = DueTick(entry[n], born[n])
      BY <1>a, <2>2, <2>3
    <3>2. (entry[n].triggers + 1) * entry[n].interval
            = entry[n].triggers * entry[n].interval + entry[n].interval
      BY <2>4
    <3>3. entry[n].triggers * entry[n].interval \in Nat
      BY <2>4
    <3>4. DueTick(e, born[n]) = now + entry[n].interval
      BY <2>3, <2>4, <3>1, <3>2, <3>3 DEF DueTick
    <3> QED
      BY <2>1, <2>4, <2>5, <3>4 DEF Never
  <2>7. NoDrift'
    BY <1>0, <1>a, <1>b, <2>1, <2>2, <2>6 DEF Armed, TypeOK, ClockTypeOK
  <2>8. Live(e) => Again(e)
    BY <2>3 DEF Live
  <2>9. LiveIsArmed'
    BY <1>0, <2>1, <2>2, <2>6, <2>8 DEF LiveIsArmed, Armed, Present, TypeOK, ClockTypeOK
  <2> QED
    BY <1>0, <2>7, <2>9
<1>5. ASSUME NEW n \in Timer, tmd_handle_remove(n)
      PROVE  ExactInv'
  BY <1>0, <1>5 DEF tmd_handle_remove, tmd_destroy, Disarm, NoDrift, LiveIsArmed,
                    Present, Armed, TypeOK, ClockTypeOK
<1>6. ASSUME NEW n \in Timer, NEW delay \in Delays, NEW interval \in Intervals,
             NEW limit \in Limits, tmd_handle_insert(n, delay, interval, limit)
      PROVE  ExactInv'
  <2> DEFINE e == tmd_create(n, delay, interval, limit)
  <2>1. PICK due \in Nat \cup {Never} :
          /\ deadline' = [deadline EXCEPT ![n] = due]
          /\ delay <= MaxSec => due = now + FirstAfter(delay)
    BY <1>0, <1>6, InsertEffect
  <2>2. /\ entry' = [entry EXCEPT ![n] = e]
        /\ born' = [born EXCEPT ![n] = now]
    BY <1>0, <1>6, InsertEffect
  <2>3. delay \in Nat /\ interval \in Nat /\ delay <= MaxSec /\ now \in Nat
    BY <1>0, <1>6, TmdAssumption DEF tmd_handle_insert, is_good_tm_args, ShortPeriods,
                                    TypeOK, ClockTypeOK
  <2>4. due = DueTick(e, now) /\ due # Never
    <3>1. e.delay = delay /\ e.interval = interval /\ e.triggers = 0
      BY DEF tmd_create
    <3> HIDE DEF e
    <3> QED
      BY <2>1, <2>3, <3>1 DEF DueTick, FirstAfter, Never
  <2> HIDE DEF e
  <2>5. NoDrift'
    BY <1>0, <1>a, <1>b, <2>1, <2>2, <2>4 DEF Armed, TypeOK, ClockTypeOK
  <2>6. LiveIsArmed'
    BY <1>0, <2>1, <2>2, <2>4 DEF LiveIsArmed, Armed, Present, TypeOK, ClockTypeOK
  <2> QED
    BY <1>0, <2>5, <2>6
<1> QED
  BY <1>1, <1>2, <1>3, <1>4, <1>5, <1>6 DEF Next

\* If no argument's milliseconds overflow, the k-th trigger of every timer is
\* due exactly delay + k * interval after its insertion.
THEOREM NeverDrifts ==
  ASSUME ShortPeriods
  PROVE  Spec => []NoDrift
<1>1. ExactInv => NoDrift
  BY DEF ExactInv
<1> QED
  BY <1>1, ExactInit, ExactNext, PTL DEF Spec

\* If no argument's milliseconds overflow, no entry with triggers to come is
\* ever left unarmed.
THEOREM NeverLost ==
  ASSUME ShortPeriods
  PROVE  Spec => []LiveIsArmed
<1>1. ExactInv => LiveIsArmed
  BY DEF ExactInv
<1> QED
  BY <1>1, ExactInit, ExactNext, PTL DEF Spec

(***************************************************************************)
(* tmd uses the timer library as TmClock says it may be used.              *)
(***************************************************************************)

\* The library's delays: seconds are ints and Span is 2^32.
DelaysFit == MaxSec < Span /\ \A sec \in Delays \cup Intervals : sec < Span

\* Whatever ticks are computed of a time, those tm_insert accepts are a delay.
LEMMA TicksAreDelays ==
  ASSUME NEW sec \in Nat, MaxSec < Span, sec < Span, NEW after \in Ticks(sec), after > 0
  PROVE  after \in Delay
BY TmdAssumption, SpanAssumption DEF Ticks, Delay

\* Each step is a step of the clock or leaves it alone.
LEMMA StepsOfClock ==
  ASSUME DelaysFit, LiveInv, [Next]_vars
  PROVE  [ClockNext]_clockVars
<1>0. Span \in Nat /\ 1 < Span
  BY TmdAssumption, SpanAssumption DEF DelaysFit
<1> TypeOK /\ GoodEntries
  BY DEF LiveInv
<1>1. CASE UNCHANGED vars
  BY <1>1 DEF vars, clockVars
<1>2. CASE Tick
  BY <1>2 DEF Tick, ClockNext
<1>3. CASE tmd_handle_clean
  <2>1. \E T \in SUBSET Timer : Disarm(T)
    BY <1>3 DEF tmd_handle_clean
  <2> QED
    BY <2>1 DEF ClockNext
<1>4. ASSUME NEW n \in Timer, tmd_xtimer_cb(n) PROVE ClockNext
  <2> DEFINE e == Triggered(n)
  <2>1. \/ Fire(n)
        \/ Again(e) /\ \E after \in Ticks(Period(e)) : after > 0 /\ FireAgain(n, after)
    BY <1>4 DEF tmd_xtimer_cb, Triggered
  <2>2. ASSUME NEW after \in Ticks(Period(e)), after > 0, FireAgain(n, after), Again(e)
        PROVE  ClockNext
    <3>1. Present(n)
      BY <1>4, DueEntry DEF tmd_xtimer_cb
    <3>2. e.interval = entry[n].interval /\ Period(e) = entry[n].interval
      BY PresentType, <3>1 DEF Period, Triggered, Xtimer
    <3>3. entry[n].interval \in Intervals /\ entry[n].interval \in Nat
      BY <3>1, PresentType DEF GoodEntries
    <3>4. after \in Delay
      BY <2>2, <3>2, <3>3, TicksAreDelays DEF DelaysFit
    <3> QED
      BY <2>2, <3>4 DEF ClockNext
  <2> QED
    BY <2>1, <2>2 DEF ClockNext
<1>5. ASSUME NEW n \in Timer, tmd_handle_remove(n) PROVE ClockNext
  BY <1>5 DEF tmd_handle_remove, tmd_destroy, ClockNext
<1>6. ASSUME NEW n \in Timer, NEW delay \in Delays, NEW interval \in Intervals,
             NEW limit \in Limits, tmd_handle_insert(n, delay, interval, limit)
      PROVE  [ClockNext]_clockVars
  <2>1. PICK after \in Ticks(FirstAfter(delay)) :
          IF after > 0 THEN Arm(n, after) ELSE UNCHANGED clockVars
    BY <1>6 DEF tmd_handle_insert
  <2>2. FirstAfter(delay) \in Nat /\ FirstAfter(delay) < Span
    BY <1>0, <1>6, TmdAssumption DEF tmd_handle_insert, is_good_tm_args, FirstAfter, DelaysFit
  <2>3. after > 0 => after \in Delay
    BY <2>2, TicksAreDelays DEF DelaysFit
  <2> QED
    BY <2>1, <2>3 DEF ClockNext
<1> QED
  BY <1>1, <1>2, <1>3, <1>4, <1>5, <1>6 DEF Next

\* For arguments of any size, overflown ones included, tmd asks of the timer
\* library only what it promises: it is a refinement of the clock that the
\* wheel of TmWheel implements.
THEOREM UsesClock ==
  ASSUME DelaysFit
  PROVE  Spec => ClockSpec
<1>1. Init => ClockInit
  BY DEF Init
<1>2. LiveInv /\ [Next]_vars => [ClockNext]_clockVars
  BY StepsOfClock
<1> QED
  BY <1>1, <1>2, LiveInvariance, PTL DEF Spec, ClockSpec

\* Whatever clients of the library do, no armed timer is overdue.
THEOREM ClockPromise == ClockSpec => []NeverOverdue
<1> DEFINE Inv == ClockTypeOK /\ NeverOverdue
<1>1. ClockInit => Inv
  BY DEF ClockInit, ClockTypeOK, NeverOverdue, Armed
<1>2. Inv /\ [ClockNext]_clockVars => Inv'
  <2> SUFFICES ASSUME Inv, [ClockNext]_clockVars PROVE Inv'
    OBVIOUS
  <2> USE DEF ClockTypeOK, NeverOverdue, Armed, Never
  <2>0. ASSUME NEW t \in Timer, NEW after \in Delay, now' = now,
               deadline' = [deadline EXCEPT ![t] = now + after]
        PROVE  Inv'
    BY <2>0, SpanAssumption DEF Delay
  <2>1. CASE Advance
    BY <2>1 DEF Advance
  <2>2. ASSUME NEW t \in Timer, NEW after \in Delay,
               Arm(t, after) \/ Rearm(t, after) \/ FireAgain(t, after)
        PROVE  Inv'
    BY <2>0, <2>2 DEF Arm, Rearm, FireAgain
  <2>3. ASSUME NEW T \in SUBSET Timer, Disarm(T) PROVE Inv'
    BY <2>3 DEF Disarm
  <2>4. ASSUME NEW t \in Timer, Fire(t) PROVE Inv'
    BY <2>4 DEF Fire
  <2>5. CASE UNCHANGED clockVars
    BY <2>5 DEF clockVars
  <2> QED
    BY <2>1, <2>2, <2>3, <2>4, <2>5 DEF ClockNext
<1> QED
  BY <1>1, <1>2, PTL DEF ClockSpec

(***************************************************************************)
(* What tmd promises and what the clock promises, together.                *)
(***************************************************************************)

\* A product with a factor no greater is no greater.
LEMMA Fewer ==
  ASSUME NEW k \in Nat, NEW l \in Nat, NEW i \in Nat, k <= l
  PROVE  k * i \in Nat /\ l * i \in Nat /\ k * i <= l * i
<1>1. PICK d \in Nat : l = k + d
  <2>1. l - k \in Nat /\ l = k + (l - k)
    OBVIOUS
  <2> QED
    BY <2>1
<1>2. l * i = k * i + d * i
  BY <1>1
<1>3. d * i \in Nat /\ k * i \in Nat
  BY <1>1
<1> QED
  BY <1>2, <1>3

\* A limited timer runs out in time: this is what of RunsOut needs no fairness,
\* and with a clock that goes on it gives RunsOut.
THEOREM RunsOutInTime ==
  ASSUME ShortPeriods, MaxSec < Span
  PROVE  Spec => []OutInTime
<1>1. ExactInv /\ NeverOverdue => OutInTime
  <2> SUFFICES ASSUME ExactInv, NeverOverdue, NEW n \in Timer, Present(n),
                      entry[n].limit > 0, now > LastDue(entry[n], born[n]),
                      ~Exhausted(entry[n])
               PROVE  FALSE
    BY DEF OutInTime
  <2>1. /\ entry[n].delay \in Nat /\ entry[n].interval \in Nat /\ entry[n].limit \in Nat
        /\ entry[n].triggers \in Nat /\ now \in Nat /\ born[n] \in Nat
    BY PresentType DEF ExactInv, LiveInv, TypeOK, ClockTypeOK
  <2>2. entry[n].triggers < entry[n].limit
    BY <2>1 DEF Exhausted
  <2>3. Armed(n)
    BY <2>2 DEF ExactInv, LiveIsArmed, Live, Again
  <2> DEFINE first == IF entry[n].delay = 0 THEN 1 ELSE entry[n].delay
             k == entry[n].triggers
             l == entry[n].limit - 1
             i == entry[n].interval
  <2>4. deadline[n] = born[n] + first + k * i /\ deadline[n] >= now
    BY <2>3 DEF ExactInv, NoDrift, NeverOverdue
  <2>5. k \in Nat /\ l \in Nat /\ i \in Nat /\ k <= l /\ first \in Nat
    BY <2>1, <2>2
  <2> HIDE DEF first, k, l, i
  <2>6. k * i \in Nat /\ l * i \in Nat /\ k * i <= l * i
    BY <2>5, Fewer
  <2>7. now <= born[n] + first + l * i
    BY <2>1, <2>4, <2>5, <2>6
  <2>8. now > born[n] + first + l * i
    BY DEF LastDue, first, l, i
  <2> QED
    BY <2>1, <2>5, <2>6, <2>7, <2>8
<1>2. DelaysFit
  <2>1. \A sec \in Delays \cup Intervals : sec \in Int
    BY TmdAssumption
  <2> QED
    BY <2>1, TmdAssumption, SpanAssumption DEF ShortPeriods, DelaysFit
<1>3. Spec => []NeverOverdue
  BY <1>2, UsesClock, ClockPromise, PTL
<1>4. Spec => []ExactInv
  BY ExactInit, ExactNext, PTL DEF Spec
<1> QED
  BY <1>1, <1>3, <1>4, PTL

=============================================================================
