-------------------------------- MODULE Tmd ---------------------------------
(***************************************************************************)
(* The timer daemon of app/tmd/tmd.c.  Clients insert named timers that    *)
(* run a command after `delay` seconds and then every `interval` seconds,  *)
(* `limit` times or for ever.  An entry that has run out stays in the      *)
(* table, unarmed, until it is removed or inserted again.                  *)
(*                                                                         *)
(* The daemon is one event loop: commands are served between ticks, and    *)
(* the timers due in a tick run before the next command.  One tick is one  *)
(* second (TM_TICKS is 1000 ms).                                           *)
(***************************************************************************)
EXTENDS TmClock

CONSTANTS
  Delays,     \* the delay arguments clients send, in seconds
  Intervals,  \* the interval arguments
  Limits,     \* the limit arguments
  MaxSec,     \* longest time whose milliseconds fit an int: 2147483 s
  CliUntil,   \* bound: no command is sent after this tick
  MaxTick     \* bound: the clock is not driven past this tick

ASSUME TmdAssumption ==
  /\ Delays \subseteq Int /\ Intervals \subseteq Int /\ Limits \subseteq Int
  /\ MaxSec \in Nat \ {0}
  /\ CliUntil \in Nat /\ MaxTick \in Nat

VARIABLES
  entry,      \* the table: the struct xtimer of each name, or NoEntry
  born        \* auxiliary: the tick at which the entry was last inserted

vars == <<now, deadline, entry, born>>

Xtimer == [delay : Nat, interval : Nat, limit : Nat, triggers : Nat]
NoEntry == [delay |-> 0, interval |-> 0, limit |-> 0, triggers |-> -1]

Present(n) == entry[n] # NoEntry

TypeOK ==
  /\ ClockTypeOK
  /\ entry \in [Timer -> Xtimer \cup {NoEntry}]
  /\ born \in [Timer -> Nat]

is_good_tm_args(delay, interval, limit) ==
  /\ delay >= 0 /\ interval >= 0 /\ limit >= 0
  /\ interval # 0 \/ (delay # 0 /\ limit = 1)

tmd_is_cycle(e) == e.interval # 0 /\ e.limit = 0

\* os_ms2tick(1000 * sec, 1000).  The product overflows an int beyond MaxSec:
\* the build yields sec (the division folded away) or a wrapped value.
Ticks(sec) == IF sec <= MaxSec THEN {sec} ELSE {sec} \cup ((-MaxSec) .. MaxSec)

\* Mutant: limit is the number of triggers after the first.
OneTooMany(e) == tmd_is_cycle(e) \/ e.triggers <= e.limit

\* Mutant: only an endless timer is inserted again.
CycleOnly(e) == tmd_is_cycle(e)

\* After a trigger the timer is inserted again.
Again(e) == tmd_is_cycle(e) \/ e.triggers < e.limit

\* Mutant: a delay of 0 is not replaced by 1.
RawAfter(delay) == delay

FirstAfter(delay) == IF delay # 0 THEN delay ELSE 1

\* Mutant: the next period counts from the delay again.
DelayAgain(e) == e.delay + e.interval

Period(e) == e.interval

-----------------------------------------------------------------------------
(* Commands.                                                               *)

Serving ==
  /\ now <= CliUntil
  /\ \A t \in Timer : Armed(t) => deadline[t] > now

\* A new entry, or an unarmed one used again.
tmd_create(n, delay, interval, limit) ==
  [delay |-> delay, interval |-> interval, limit |-> limit, triggers |-> 0]

\* An armed entry is left as it is.  tm_insert refuses ticks <= 0 with an
\* error, and the entry stays in the table unarmed.
tmd_handle_insert(n, delay, interval, limit) ==
  /\ Serving
  /\ is_good_tm_args(delay, interval, limit)
  /\ ~Armed(n)
  /\ entry' = [entry EXCEPT ![n] = tmd_create(n, delay, interval, limit)]
  /\ born' = [born EXCEPT ![n] = now]
  /\ \E after \in Ticks(FirstAfter(delay)) :
       IF after > 0 THEN Arm(n, after) ELSE UNCHANGED clockVars

tmd_destroy(n) ==
  /\ entry' = [entry EXCEPT ![n] = NoEntry]
  /\ Disarm({n})

tmd_handle_remove(n) ==
  /\ Serving
  /\ Present(n)
  /\ tmd_destroy(n)
  /\ UNCHANGED born

tmd_handle_clean ==
  /\ Serving
  /\ entry' = [n \in Timer |-> NoEntry]
  /\ Disarm({n \in Timer : Present(n)})
  /\ UNCHANGED born

-----------------------------------------------------------------------------
(* Ticks.                                                                  *)

\* The callback of a due timer, which the wheel has already disarmed.
tmd_xtimer_cb(n) ==
  /\ deadline[n] = now
  /\ LET e == [entry[n] EXCEPT !.triggers = @ + 1]
     IN  /\ entry' = [entry EXCEPT ![n] = e]
         /\ IF Again(e)
            THEN \E after \in Ticks(Period(e)) :
                   IF after > 0 THEN FireAgain(n, after) ELSE Fire(n)
            ELSE Fire(n)
  /\ UNCHANGED born

Tick ==
  /\ now < MaxTick
  /\ Advance
  /\ UNCHANGED <<entry, born>>

-----------------------------------------------------------------------------

Init ==
  /\ ClockInit
  /\ entry = [n \in Timer |-> NoEntry]
  /\ born = [n \in Timer |-> 0]

Next ==
  \/ Tick
  \/ tmd_handle_clean
  \/ \E n \in Timer :
       \/ tmd_xtimer_cb(n)
       \/ tmd_handle_remove(n)
       \/ \E delay \in Delays, interval \in Intervals, limit \in Limits :
            tmd_handle_insert(n, delay, interval, limit)

Spec == Init /\ [][Next]_vars

\* The timer descriptor keeps ticking, and a tick runs every timer due in it.
FairSpec == Spec /\ WF_vars(Tick) /\ \A n \in Timer : WF_vars(tmd_xtimer_cb(n))

-----------------------------------------------------------------------------
(* Properties.                                                             *)

\* The entry still has triggers to come.
Live(e) == e.triggers = 0 \/ Again(e)

Exhausted(e) == e.limit > 0 /\ e.triggers >= e.limit

\* A timer is armed only for an entry of the table that has triggers to come:
\* no timer outlives its entry, and none fires more than limit times.
ArmedIsLive ==
  \A n \in Timer : Armed(n) =>
    Present(n) /\ (entry[n].limit > 0 => entry[n].triggers < entry[n].limit)

\* An entry with triggers to come is armed: it is not lost by a command that
\* failed half way, by its own callback, or by being inserted again.
LiveIsArmed == \A n \in Timer : Present(n) /\ Live(entry[n]) => Armed(n)

\* The k-th trigger is due delay + k * interval after the insertion, however
\* many commands and other timers came between: periods do not drift.
NoDrift ==
  \A n \in Timer : Armed(n) =>
    deadline[n] = born[n] + (IF entry[n].delay = 0 THEN 1 ELSE entry[n].delay)
                          + entry[n].triggers * entry[n].interval

\* The tick of the last trigger of a limited timer.
LastDue(e, since) ==
  since + (IF e.delay = 0 THEN 1 ELSE e.delay) + (e.limit - 1) * e.interval

\* The last trigger of a limited timer comes when it should: an entry past the
\* tick of its last trigger has had all of them.
OutInTime ==
  \A n \in Timer :
    Present(n) /\ entry[n].limit > 0 /\ now > LastDue(entry[n], born[n])
      => Exhausted(entry[n])

\* A limited timer that is not removed runs its command limit times.
RunsOut ==
  \A n \in Timer :
    Present(n) /\ entry[n].limit > 0 ~> ~Present(n) \/ Exhausted(entry[n])
=============================================================================
