------------------------------ MODULE TmClock -------------------------------
(***************************************************************************)
(* What the timer library of lib/weos/app/timer.c promises its callers: a  *)
(* clock of ticks and, for every armed timer, the tick at which it is due. *)
(* The clock does not advance past a due timer, and a timer fires at its   *)
(* due tick and at no other.  TmWheel, the hierarchical timing wheel of    *)
(* the code, implements this specification; Tmd builds on it.              *)
(***************************************************************************)
EXTENDS Integers

CONSTANTS
  Timer,      \* the tm_node_t objects
  Span        \* one more than the longest delay: 2^32 ticks in the code

ASSUME SpanAssumption == Span \in Nat \ {0}

VARIABLES
  now,        \* tm_ticks()
  deadline    \* the due tick of each timer, or Never

clockVars == <<now, deadline>>

Never == -1
Armed(t) == deadline[t] # Never
Delay == 1 .. (Span - 1)

ClockTypeOK ==
  /\ now \in Nat
  /\ deadline \in [Timer -> Nat \cup {Never}]

ClockInit ==
  /\ now = 0
  /\ deadline = [t \in Timer |-> Never]

\* The clock advances by one tick once every timer due now has fired.
Advance ==
  /\ \A t \in Timer : Armed(t) => deadline[t] > now
  /\ now' = now + 1
  /\ UNCHANGED deadline

\* A timer that is not armed is armed.
Arm(t, after) ==
  /\ ~Armed(t)
  /\ deadline' = [deadline EXCEPT ![t] = now + after]
  /\ UNCHANGED now

\* An armed timer is given another due tick.
Rearm(t, after) ==
  /\ Armed(t)
  /\ deadline' = [deadline EXCEPT ![t] = now + after]
  /\ UNCHANGED now

\* A set of timers is disarmed without firing.
Disarm(T) ==
  /\ deadline' = [t \in Timer |-> IF t \in T THEN Never ELSE deadline[t]]
  /\ UNCHANGED now

\* A due timer fires and is left disarmed.
Fire(t) ==
  /\ deadline[t] = now
  /\ deadline' = [deadline EXCEPT ![t] = Never]
  /\ UNCHANGED now

\* A due timer fires and is armed again, by its callback or as a cycle.
FireAgain(t, after) ==
  /\ deadline[t] = now
  /\ deadline' = [deadline EXCEPT ![t] = now + after]
  /\ UNCHANGED now

ClockNext ==
  \/ Advance
  \/ \E t \in Timer, after \in Delay : Arm(t, after)
  \/ \E t \in Timer, after \in Delay : Rearm(t, after)
  \/ \E T \in SUBSET Timer : Disarm(T)
  \/ \E t \in Timer : Fire(t)
  \/ \E t \in Timer, after \in Delay : FireAgain(t, after)

ClockSpec == ClockInit /\ [][ClockNext]_clockVars

-----------------------------------------------------------------------------

\* No timer is ever overdue: the due tick of an armed timer is now or later.
NeverOverdue == \A t \in Timer : Armed(t) => deadline[t] >= now
=============================================================================
