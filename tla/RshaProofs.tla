----------------------------- MODULE RshaProofs -----------------------------
(* Proofs about Rsha, for every configuration.                             *)
EXTENDS Rsha, TLAPS

Pair == [i : Instance, n : Network]

LEMMA LimitType == \A m \in Modes : Limit(m) \in Nat \ {0}
PROOF
<1> SUFFICES ASSUME NEW m \in Modes PROVE Limit(m) \in Nat \ {0}
  OBVIOUS
<1>1. Interval[m] \in Nat \ {0} /\ Times[m] \in Nat \ {0}
  BY IntervalAssumption, TimesAssumption
<1>2. \A a, b \in Nat \ {0} : a * b \in Nat \ {0}
  OBVIOUS
<1> QED BY <1>1, <1>2 DEF Limit

LEMMA CapType ==
  /\ SendCap \in Nat \ {0}
  /\ RecvCap \in Nat \ {0}
  /\ \A m \in Modes : Limit(m) <= RecvCap
BY LimitType, IntervalAssumption DEF SendCap, RecvCap, MaxOf, Modes

Echo == [sent : BOOLEAN, send : Ages(SendCap), recv : Ages(RecvCap)]

LEMMA EchoType == ASSUME NEW i \in Instance
                  PROVE /\ i.echo \in [Modes -> Echo]
                        /\ Mode(i) \in Modes
                        /\ i.echo[Mode(i)] \in Echo
BY DEF Instance, Echo, Mode, Modes

LEMMA NoAge == ASSUME NEW cap \in Nat PROVE Never \in Ages(cap) /\ 0 \in Ages(cap)
BY DEF Never, Ages

LEMMA OlderType ==
  ASSUME NEW cap \in Nat, NEW age \in Ages(cap)
  PROVE Older(age, cap) \in Ages(cap)
BY DEF Older, Ages, Never

LEMMA AgedType == ASSUME NEW i \in Instance PROVE Aged(i) \in Instance
PROOF
<1>1. Older(i.busyAge, BusyTimeout) \in Ages(BusyTimeout)
  BY OlderType, TimeoutAssumption DEF Instance
<1>2. Older(i.hs.send, HandshakeInterval) \in Ages(HandshakeInterval)
  BY OlderType, TimeoutAssumption DEF Instance
<1>3. \A m \in Modes : /\ Older(i.echo[m].send, SendCap) \in Ages(SendCap)
                       /\ Older(i.echo[m].recv, RecvCap) \in Ages(RecvCap)
  BY OlderType, CapType DEF Instance
<1> QED BY <1>1, <1>2, <1>3 DEF Aged, AgedEcho, Instance

LEMMA EchoSetType ==
  ASSUME NEW i \in Instance, NEW b \in BOOLEAN
  PROVE rshi_echo_set(i, b) \in Instance
PROOF
<1> DEFINE old == i.echo[Mode(i)]
           new == IF b THEN "busy" ELSE "idle"
           copied == [i.echo[new] EXCEPT !.send = old.send, !.recv = old.recv]
           moved == [i EXCEPT !.busy = b, !.echo[new] = copied]
           set == IF i.busy = b THEN i ELSE moved
<1>1. new \in Modes
  BY DEF Modes
<1>2. copied \in Echo
  BY <1>1, EchoType DEF Echo
<1>3. moved \in Instance
  BY <1>1, <1>2, EchoType DEF Instance, Echo
<1>4. set \in Instance
  BY <1>3
<1>5. 0 \in Ages(BusyTimeout)
  BY NoAge, TimeoutAssumption
<1>6. [set EXCEPT !.busyAge = 0] \in Instance
  BY <1>4, <1>5 DEF Instance
<1>7. rshi_echo_set(i, b) = IF b THEN [set EXCEPT !.busyAge = 0] ELSE set
  BY DEF rshi_echo_set
<1> QED BY <1>4, <1>6, <1>7

LEMMA CountErrorType == ASSUME NEW i \in Instance PROVE CountError(i) \in Instance
BY TimeoutAssumption DEF CountError, Instance

LEMMA RestartType ==
  ASSUME NEW w \in Pair, NEW o \in BOOLEAN
  PROVE rshi_fsm_restart(w, o) \in Pair
PROOF
<1>1. w.i \in Instance /\ Quiet \in Network
  BY DEF Pair, Quiet, Network
<1>2. \A m \in Modes : Cleared(w.i.echo[m]) \in Echo
  BY <1>1, EchoType, NoAge, CapType DEF Cleared, Echo
<1>3. [m \in Modes |-> Cleared(w.i.echo[m])] \in [Modes -> Echo]
  BY <1>2
<1>4. [w.i EXCEPT !.fsm = "init", !.sock = o,
                  !.echo = [m \in Modes |-> Cleared(w.i.echo[m])]] \in Instance
  BY <1>1, <1>3 DEF Instance, Fsm, Echo
<1> QED BY <1>1, <1>4 DEF rshi_fsm_restart, Pair

LEMMA SendType ==
  ASSUME NEW w \in Pair, NEW m \in Requests, NEW ok \in BOOLEAN
  PROVE rshi_send(w, m, ok) \in Pair
BY DEF rshi_send, Pair, Network, Posted

LEMMA PostedType ==
  ASSUME NEW S, NEW box \in SUBSET S, NEW m \in S
  PROVE Posted(box, m) \in SUBSET S
BY DEF Posted

LEMMA BehindType ==
  /\ \A box \in SUBSET Requests : Behind(box) \in SUBSET Requests
  /\ \A box \in SUBSET (Requests \cup Commands) :
       Behind(box) \in SUBSET (Requests \cup Commands)
BY SeqWindowAssumption DEF Behind, Requests, Commands, Lags, LagLonger

LEMMA AdvancedType == ASSUME NEW n \in Network PROVE SeqAdvanced(n) \in Network
BY BehindType DEF SeqAdvanced, Network

LEMMA HandshakeType ==
  ASSUME NEW w \in Pair, NEW ok \in BOOLEAN
  PROVE rshi_handshake(w, ok) \in Pair
PROOF
<1> DEFINE v == [w EXCEPT !.i.hs = [sent |-> TRUE, send |-> 0]]
<1>1. 0 \in Ages(HandshakeInterval)
  BY NoAge, TimeoutAssumption
<1>2. v \in Pair
  BY <1>1 DEF Pair, Instance
<1>3. [cmd |-> "handshake", lag |-> 0] \in Requests
  BY DEF Requests
<1> QED BY <1>2, <1>3, SendType DEF rshi_handshake

LEMMA RshiEchoType ==
  ASSUME NEW w \in Pair, NEW ok \in BOOLEAN
  PROVE rshi_echo(w, ok) \in Pair
PROOF
<1> DEFINE e == [w.i.echo[Mode(w.i)] EXCEPT !.sent = TRUE, !.send = 0]
           sent == [w.i EXCEPT !.echo[Mode(w.i)] = e]
           v == [i |-> IF w.i.sock /\ ok THEN sent ELSE w.i, n |-> SeqAdvanced(w.n)]
<1>1. w.i \in Instance /\ w.n \in Network
  BY DEF Pair
<1>2. e \in Echo
  BY <1>1, EchoType, NoAge, CapType DEF Echo
<1>3. sent \in Instance
  BY <1>1, <1>2, EchoType DEF Instance, Echo
<1>4. v \in Pair
  BY <1>1, <1>3, AdvancedType DEF Pair
<1>5. [cmd |-> "echo", lag |-> 1] \in Requests
  BY SeqWindowAssumption DEF Requests, Lags
<1> QED BY <1>4, <1>5, SendType DEF rshi_echo

-----------------------------------------------------------------------------
(* The inductive invariant: whatever is in flight went over the socket     *)
(* that is open now, and the mode the tunnel is in knows the latest answer.*)

Answered(i, n) == i.fsm \in {"handshaked", "run"} => i.sock /\ n.heard

ThisSocket(i, n) ==
  /\ n.up # {} => i.sock
  /\ n.down # {} => n.heard
  /\ n.heard => i.sock

Latest(i) ==
  \A m \in Modes :
    \/ i.echo[m].recv = Never
    \/ /\ i.echo[Mode(i)].recv # Never
       /\ i.echo[Mode(i)].recv <= i.echo[m].recv

Sound(w) ==
  w \in Pair /\ Answered(w.i, w.n) /\ ThisSocket(w.i, w.n) /\ Latest(w.i)

(* The same two modes know the same answers.                               *)
SameEcho(i, j) == /\ j.busy = i.busy
                  /\ \A m \in Modes : j.echo[m].recv = i.echo[m].recv

LEMMA SameLatest ==
  ASSUME NEW i \in Instance, NEW j \in Instance, SameEcho(i, j), Latest(i)
  PROVE Latest(j)
BY EchoType DEF SameEcho, Latest, Mode, Modes

LEMMA BusyNow ==
  ASSUME NEW j \in Instance
  PROVE LET k == [j EXCEPT !.busyAge = 0]
        IN  /\ k.fsm = j.fsm /\ k.sock = j.sock /\ k.errors = j.errors
            /\ k.busy = j.busy /\ k.echo = j.echo
            /\ k.busyAge = 0
BY DEF Instance

LEMMA EchoSetLatest ==
  ASSUME NEW i \in Instance, NEW b \in BOOLEAN, Latest(i)
  PROVE /\ Latest(rshi_echo_set(i, b))
        /\ rshi_echo_set(i, b).fsm = i.fsm
        /\ rshi_echo_set(i, b).sock = i.sock
        /\ rshi_echo_set(i, b).errors = i.errors
        /\ rshi_echo_set(i, b).busy = b
        /\ b => rshi_echo_set(i, b).busyAge = 0
        /\ i.busy = b => SameEcho(i, rshi_echo_set(i, b))
        /\ rshi_echo_set(i, b).echo[Mode(rshi_echo_set(i, b))].recv
             = i.echo[Mode(i)].recv
PROOF
<1> DEFINE old == i.echo[Mode(i)]
           new == IF b THEN "busy" ELSE "idle"
           copied == [i.echo[new] EXCEPT !.send = old.send, !.recv = old.recv]
           moved == [i EXCEPT !.busy = b, !.echo[new] = copied]
           set == IF i.busy = b THEN i ELSE moved
           res == rshi_echo_set(i, b)
<1>1. res = IF b THEN [set EXCEPT !.busyAge = 0] ELSE set
  BY DEF rshi_echo_set
<1>2. copied.recv = old.recv
  BY EchoType DEF Echo, Modes
<1>3. /\ moved.echo = [i.echo EXCEPT ![new] = copied]
      /\ moved.fsm = i.fsm /\ moved.sock = i.sock /\ moved.errors = i.errors
      /\ moved.busy = b
  BY DEF Instance
<1>4. set \in Instance
  <2>1. copied \in Echo /\ new \in Modes
    BY EchoType DEF Echo, Modes
  <2>2. moved \in Instance
    BY <2>1, EchoType DEF Instance, Echo
  <2> QED BY <2>2
<1>5. /\ set.fsm = i.fsm /\ set.sock = i.sock /\ set.errors = i.errors
      /\ set.busy = b /\ (i.busy = b => set = i)
  BY <1>3
<1>6. /\ res.fsm = set.fsm /\ res.sock = set.sock /\ res.errors = set.errors
      /\ res.busy = set.busy /\ res.echo = set.echo
      /\ b => res.busyAge = 0
  <2> HIDE DEF set
  <2> QED BY <1>1, <1>4, BusyNow
<1>7. Mode(res) = new
  <2>1. res.busy = b
    BY <1>5, <1>6
  <2>2. Mode(res) = IF res.busy THEN "busy" ELSE "idle"
    BY DEF Mode
  <2> HIDE DEF res
  <2> QED BY <2>1, <2>2
<1>8. set.echo[new].recv = old.recv
  <2>1. CASE i.busy = b
    BY <2>1, <1>5 DEF Mode
  <2>2. CASE i.busy # b
    <3>1. set.echo = [i.echo EXCEPT ![new] = copied] /\ new \in Modes
      BY <2>2, <1>3 DEF Modes
    <3>2. set.echo[new] = copied
      BY <3>1, EchoType
    <3> QED BY <3>2, <1>2
  <2> QED BY <2>1, <2>2
<1>9. \A m \in Modes : \/ set.echo[m].recv = i.echo[m].recv
                        \/ set.echo[m].recv = old.recv
  <2>1. CASE i.busy = b
    BY <2>1
  <2>2. CASE i.busy # b
    <3>1. set.echo = [i.echo EXCEPT ![new] = copied]
      BY <2>2, <1>3
    <3>2. \A m \in Modes : set.echo[m] = i.echo[m] \/ set.echo[m] = copied
      BY <3>1, EchoType
    <3> QED BY <3>2, <1>2
  <2> QED BY <2>1, <2>2
<1>10. Latest(res)
  <2> SUFFICES ASSUME NEW m \in Modes, res.echo[m].recv # Never
               PROVE /\ res.echo[Mode(res)].recv # Never
                     /\ res.echo[Mode(res)].recv <= res.echo[m].recv
    BY DEF Latest
  <2>1. old.recv \in Ages(RecvCap)
    BY EchoType DEF Echo
  <2> QED BY <1>6, <1>7, <1>8, <1>9, <2>1 DEF Latest, Ages
<1> QED BY <1>5, <1>6, <1>7, <1>8, <1>10 DEF SameEcho

-----------------------------------------------------------------------------
(* What each trigger of the timer pass keeps.                              *)

Steady(w, v) == v.i.fsm = w.i.fsm /\ v.i.errors = w.i.errors /\ SameEcho(w.i, v.i)

LEMMA SendSound ==
  ASSUME NEW w \in Pair, NEW m \in Requests, NEW ok \in BOOLEAN, Sound(w)
  PROVE Sound(rshi_send(w, m, ok)) /\ rshi_send(w, m, ok).i = w.i
BY SendType DEF rshi_send, Sound, Pair, Network, Answered, ThisSocket, Latest

LEMMA InitTriggerSound ==
  ASSUME NEW w, Sound(w), NEW f \in BOOLEAN
  PROVE Sound(InitTrigger(w, f)) /\ (w.i.fsm # "init" => InitTrigger(w, f) = w)
PROOF
<1> DEFINE v == [w EXCEPT !.i.fsm = "resolved"]
<1>1. w \in Pair
  BY DEF Sound
<1>2. v \in Pair /\ v.n = w.n /\ v.i.fsm = "resolved" /\ v.i.sock = w.i.sock
      /\ SameEcho(w.i, v.i)
  BY <1>1 DEF Pair, Instance, Fsm, SameEcho
<1>3. Latest(v.i)
  BY <1>1, <1>2, SameLatest DEF Sound, Pair
<1>4. Sound(v)
  BY <1>2, <1>3 DEF Sound, Answered, ThisSocket
<1> QED BY <1>4 DEF InitTrigger

LEMMA ResolvedTriggerSound ==
  ASSUME NEW w, Sound(w), NEW ok \in BOOLEAN
  PROVE /\ Sound(ResolvedTrigger(w, ok))
        /\ w.i.fsm # "resolved" => ResolvedTrigger(w, ok) = w
PROOF
<1> DEFINE v == [w EXCEPT !.i.hs = [sent |-> TRUE, send |-> 0]]
<1>1. w \in Pair
  BY DEF Sound
<1>2. 0 \in Ages(HandshakeInterval)
  BY NoAge, TimeoutAssumption
<1>3. v \in Pair /\ v.n = w.n /\ v.i.fsm = w.i.fsm /\ v.i.sock = w.i.sock
      /\ SameEcho(w.i, v.i)
  BY <1>1, <1>2 DEF Pair, Instance, SameEcho
<1>4. Latest(v.i)
  BY <1>1, <1>3, SameLatest DEF Sound, Pair
<1>5. Sound(v)
  BY <1>3, <1>4 DEF Sound, Answered, ThisSocket
<1>6. [cmd |-> "handshake", lag |-> 0] \in Requests
  BY DEF Requests
<1>7. Sound(rshi_handshake(w, ok))
  BY <1>3, <1>5, <1>6, SendSound DEF rshi_handshake
<1> QED BY <1>7 DEF ResolvedTrigger

LEMMA HandshakedTriggerSound ==
  ASSUME NEW w, Sound(w)
  PROVE Sound(HandshakedTrigger(w)) /\ (w.i.fsm # "handshaked" => HandshakedTrigger(w) = w)
PROOF
<1> DEFINE v == [w EXCEPT !.i.fsm = "run"]
<1>1. w \in Pair
  BY DEF Sound
<1>2. v \in Pair /\ v.n = w.n /\ v.i.fsm = "run" /\ v.i.sock = w.i.sock
      /\ SameEcho(w.i, v.i)
  BY <1>1 DEF Pair, Instance, Fsm, SameEcho
<1>3. Latest(v.i)
  BY <1>1, <1>2, SameLatest DEF Sound, Pair
<1>4. w.i.fsm = "handshaked" => Sound(v)
  BY <1>2, <1>3 DEF Sound, Answered, ThisSocket
<1> QED BY <1>4 DEF HandshakedTrigger

LEMMA RshiEchoSound ==
  ASSUME NEW w, Sound(w), NEW ok \in BOOLEAN
  PROVE Sound(rshi_echo(w, ok)) /\ Steady(w, rshi_echo(w, ok))
PROOF
<1> DEFINE m == Mode(w.i)
           e == [w.i.echo[m] EXCEPT !.sent = TRUE, !.send = 0]
           sent == [w.i EXCEPT !.echo[m] = e]
           j == IF w.i.sock /\ ok THEN sent ELSE w.i
           n == SeqAdvanced(w.n)
           v == [i |-> j, n |-> n]
<1>1. w \in Pair /\ w.i \in Instance /\ w.n \in Network
  BY DEF Sound, Pair
<1>2. e \in Echo /\ e.recv = w.i.echo[m].recv
  BY <1>1, EchoType, NoAge, CapType DEF Echo
<1>3. sent \in Instance
  BY <1>1, <1>2, EchoType DEF Instance, Echo
<1>4. /\ sent.fsm = w.i.fsm /\ sent.sock = w.i.sock
      /\ sent.errors = w.i.errors /\ sent.busy = w.i.busy
      /\ sent.echo = [w.i.echo EXCEPT ![m] = e]
  BY <1>1 DEF Instance
<1>5. \A k \in Modes : sent.echo[k] = IF k = m THEN e ELSE w.i.echo[k]
  BY <1>1, <1>4, EchoType
<1>6. SameEcho(w.i, sent)
  BY <1>2, <1>4, <1>5 DEF SameEcho
<1>7. /\ j \in Instance /\ j.fsm = w.i.fsm /\ j.sock = w.i.sock
      /\ j.errors = w.i.errors /\ SameEcho(w.i, j)
  BY <1>1, <1>3, <1>4, <1>6 DEF SameEcho
<1>8. Latest(j)
  BY <1>1, <1>7, SameLatest DEF Sound
<1>9. /\ n \in Network /\ n.heard = w.n.heard
      /\ (n.up # {} => w.n.up # {}) /\ (n.down # {} => w.n.down # {})
  BY <1>1, AdvancedType DEF SeqAdvanced, Behind, Network
<1>10. v \in Pair /\ Sound(v)
  BY <1>7, <1>8, <1>9 DEF Sound, Pair, Answered, ThisSocket
<1>11. [cmd |-> "echo", lag |-> 1] \in Requests
  BY SeqWindowAssumption DEF Requests, Lags
<1>12. rshi_echo(w, ok) = rshi_send(v, [cmd |-> "echo", lag |-> 1], ok)
  BY DEF rshi_echo
<1> HIDE DEF v, j, n
<1>13. Sound(rshi_echo(w, ok)) /\ rshi_echo(w, ok).i = v.i
  BY <1>10, <1>11, <1>12, SendSound
<1> QED BY <1>7, <1>13 DEF Steady, v

LEMMA EchoTriggerSound ==
  ASSUME NEW w, Sound(w), NEW ok \in BOOLEAN
  PROVE Sound(EchoTrigger(w, ok)) /\ Steady(w, EchoTrigger(w, ok))
BY RshiEchoSound DEF EchoTrigger, Steady, SameEcho

LEMMA RestartSound ==
  ASSUME NEW w, Sound(w), NEW o \in BOOLEAN
  PROVE Sound(rshi_fsm_restart(w, o)) /\ rshi_fsm_restart(w, o).i.fsm = "init"
PROOF
<1> DEFINE v == rshi_fsm_restart(w, o)
<1>1. w \in Pair /\ v \in Pair
  BY RestartType DEF Sound
<1>2. v.n = Quiet /\ v.i.fsm = "init"
  BY <1>1 DEF rshi_fsm_restart, Pair, Instance
<1>3. \A m \in Modes : v.i.echo[m].recv = Never
  <2>1. v.i.echo = [m \in Modes |-> Cleared(w.i.echo[m])]
    BY <1>1 DEF rshi_fsm_restart, Pair, Instance
  <2>2. \A m \in Modes : Cleared(w.i.echo[m]).recv = Never
    BY <1>1, EchoType DEF Cleared, Pair, Echo
  <2> QED BY <2>1, <2>2
<1> QED BY <1>1, <1>2, <1>3 DEF Sound, Answered, ThisSocket, Latest, Quiet

LEMMA EchoTimeoutSound ==
  ASSUME NEW w, Sound(w), NEW o \in BOOLEAN
  PROVE Sound(EchoTimeoutTrigger(w, o))
BY RestartSound DEF EchoTimeoutTrigger

LEMMA BusyTimeoutSound ==
  ASSUME NEW w, Sound(w)
  PROVE /\ Sound(BusyTimeoutTrigger(w))
        /\ BusyTimeoutTrigger(w).i.fsm = w.i.fsm
        /\ BusyTimeoutTrigger(w).i.errors = w.i.errors
        /\ BusyTimeoutTrigger(w).i.echo[Mode(BusyTimeoutTrigger(w).i)].recv
             = w.i.echo[Mode(w.i)].recv
        /\ BusyTimeoutTrigger(w).i.busy => w.i.busy
        /\ ~BusyTimeoutTrigger(w).i.busy => BusyTimeoutTrigger(w) = w \/ w.i.busy
PROOF
<1> DEFINE v == [w EXCEPT !.i = rshi_echo_set(w.i, FALSE)]
<1>1. w \in Pair /\ w.i \in Instance /\ Latest(w.i)
  BY DEF Sound, Pair
<1>2. rshi_echo_set(w.i, FALSE) \in Instance
  BY <1>1, EchoSetType
<1>3. v \in Pair /\ v.i = rshi_echo_set(w.i, FALSE) /\ v.n = w.n
  BY <1>1, <1>2 DEF Pair
<1>4. /\ Latest(v.i) /\ v.i.fsm = w.i.fsm /\ v.i.sock = w.i.sock
      /\ v.i.errors = w.i.errors /\ v.i.busy = FALSE
      /\ v.i.echo[Mode(v.i)].recv = w.i.echo[Mode(w.i)].recv
  BY <1>1, <1>3, EchoSetLatest
<1>5. Sound(v)
  BY <1>3, <1>4 DEF Sound, Answered, ThisSocket
<1> QED BY <1>4, <1>5 DEF BusyTimeoutTrigger

LEMMA ErrorSound ==
  ASSUME NEW w, Sound(w), NEW o \in BOOLEAN
  PROVE Sound(ErrorTrigger(w, o))
BY RestartSound DEF ErrorTrigger

-----------------------------------------------------------------------------
(* A pass of the timer.                                                    *)

OnTime(i) == i.fsm = "run" => i.echo[Mode(i)].recv < Limit(Mode(i))

LEMMA EchoTimeoutOnTime ==
  ASSUME NEW w, Sound(w), NEW o \in BOOLEAN
  PROVE OnTime(EchoTimeoutTrigger(w, o).i)
PROOF
<1>1. w \in Pair /\ w.i \in Instance
  BY DEF Sound, Pair
<1>2. w.i.echo[Mode(w.i)].recv \in Ages(RecvCap) /\ Limit(Mode(w.i)) \in Nat \ {0}
  BY <1>1, EchoType, LimitType DEF Echo
<1>3. CASE EchoTimeoutTrigger(w, o) = rshi_fsm_restart(w, o)
  BY <1>3, RestartSound DEF OnTime
<1>4. CASE EchoTimeoutTrigger(w, o) # rshi_fsm_restart(w, o)
  <2>1. EchoTimeoutTrigger(w, o) = w
    BY <1>4 DEF EchoTimeoutTrigger
  <2>2. w.i.fsm = "run" => ~TimedOut(w.i.echo[Mode(w.i)].recv, Limit(Mode(w.i)))
    BY <1>4 DEF EchoTimeoutTrigger
  <2> QED BY <1>2, <2>1, <2>2 DEF OnTime, TimedOut, Ages
<1> QED BY <1>3, <1>4

(* An instance between two passes: a change of mode may have shortened the *)
(* limit.                                                                  *)
Bounded(i) ==
  i.fsm = "run" =>
    \/ i.echo[Mode(i)].recv < Limit(Mode(i))
    \/ /\ i.busy => i.busyAge = 0
       /\ i.echo[Mode(i)].recv < Limit(Other(i))

LEMMA BusyTimeoutBounded ==
  ASSUME NEW w, Sound(w), OnTime(w.i)
  PROVE Bounded(BusyTimeoutTrigger(w).i)
PROOF
<1> DEFINE v == BusyTimeoutTrigger(w)
<1>1. /\ Sound(v) /\ v.i.fsm = w.i.fsm
      /\ v.i.echo[Mode(v.i)].recv = w.i.echo[Mode(w.i)].recv
      /\ v.i.busy => w.i.busy
      /\ ~v.i.busy => v = w \/ w.i.busy
  BY BusyTimeoutSound
<1>2. v.i \in Instance /\ w.i \in Instance
  BY <1>1 DEF Sound, Pair
<1> HIDE DEF v
<1>3. v.i.busy \in BOOLEAN /\ w.i.busy \in BOOLEAN
  BY <1>2 DEF Instance
<1>4. Mode(w.i) = Mode(v.i) \/ (~v.i.busy /\ Mode(w.i) = Other(v.i))
  BY <1>1, <1>3 DEF Mode, Other
<1>5. Bounded(v.i)
  BY <1>1, <1>4 DEF OnTime, Bounded
<1> QED BY <1>5 DEF v

LEMMA ErrorBounded ==
  ASSUME NEW w, Sound(w), Bounded(w.i), NEW o \in BOOLEAN
  PROVE Bounded(ErrorTrigger(w, o).i)
BY RestartSound DEF ErrorTrigger, Bounded

(* Ageing changes nothing but ages, and no age by more than a second.      *)
LEMMA AgedSound ==
  ASSUME NEW i \in Instance, NEW n \in Network, Sound([i |-> i, n |-> n])
  PROVE /\ Sound([i |-> Aged(i), n |-> n])
        /\ Aged(i).fsm = i.fsm /\ Aged(i).errors = i.errors
        /\ Mode(Aged(i)) = Mode(i)
        /\ \A m \in Modes : Aged(i).echo[m].recv = Older(i.echo[m].recv, RecvCap)
PROOF
<1> DEFINE a == Aged(i)
<1>1. a \in Instance
  BY AgedType
<1>2. /\ a.fsm = i.fsm /\ a.errors = i.errors /\ a.sock = i.sock
      /\ a.busy = i.busy
      /\ a.echo = [m \in Modes |-> AgedEcho(i.echo[m])]
  BY DEF Aged, Instance
<1>3. Mode(a) = Mode(i)
  BY <1>2 DEF Mode
<1>4. \A m \in Modes : AgedEcho(i.echo[m]).recv = Older(i.echo[m].recv, RecvCap)
  BY EchoType DEF AgedEcho, Echo
<1>5. \A m \in Modes : a.echo[m].recv = Older(i.echo[m].recv, RecvCap)
  BY <1>2, <1>4
<1>6. \A m \in Modes : i.echo[m].recv \in Ages(RecvCap)
  BY EchoType DEF Echo
<1>7. Latest(i)
  BY DEF Sound
<1>8. Latest(a)
  <2>1. \A x, y \in Ages(RecvCap) :
          /\ Older(x, RecvCap) = Never <=> x = Never
          /\ x <= y => Older(x, RecvCap) <= Older(y, RecvCap)
    BY CapType DEF Older, Ages, Never
  <2>2. Mode(i) \in Modes
    BY EchoType
  <2> HIDE DEF a
  <2>3. SUFFICES ASSUME NEW m \in Modes, a.echo[m].recv # Never
                 PROVE /\ a.echo[Mode(a)].recv # Never
                       /\ a.echo[Mode(a)].recv <= a.echo[m].recv
    BY DEF Latest
  <2>4. i.echo[m].recv # Never
    BY <1>5, <1>6, <2>1, <2>3
  <2>5. i.echo[Mode(i)].recv # Never /\ i.echo[Mode(i)].recv <= i.echo[m].recv
    BY <2>4, <1>7 DEF Latest
  <2>6. a.echo[m].recv = Older(i.echo[m].recv, RecvCap)
        /\ a.echo[Mode(a)].recv = Older(i.echo[Mode(i)].recv, RecvCap)
    BY <1>3, <1>5, <2>2
  <2> QED BY <1>6, <2>1, <2>2, <2>5, <2>6
<1> QED BY <1>1, <1>2, <1>3, <1>5, <1>8
        DEF Sound, Pair, Answered, ThisSocket

(* What a pass makes of a sound pair.                                      *)
LEMMA PassSound ==
  ASSUME NEW s, Sound(s), NEW f \in BOOLEAN, NEW ok \in BOOLEAN, NEW o \in BOOLEAN,
         NEW w \in rsha_timer_handle({s}, f, ok, o)
  PROVE /\ Sound(w)
        /\ Bounded(w.i)
        /\ s.i.fsm = "run" /\ w.i.fsm = "init" =>
             \/ TimedOut(s.i.echo[Mode(s.i)].recv, Limit(Mode(s.i)))
             \/ s.i.errors > PeerErrorMax
PROOF
<1> DEFINE w1 == InitTrigger(s, f)
           w2 == ResolvedTrigger(w1, ok)
           w3 == HandshakedTrigger(w2)
           w4 == EchoTrigger(w3, ok)
           w5 == EchoTimeoutTrigger(w4, o)
           w6 == BusyTimeoutTrigger(w5)
<1>1. w = ErrorTrigger(w6, o)
  BY DEF rsha_timer_handle
<1>2. Sound(w1) /\ (s.i.fsm = "run" => w1 = s)
  BY InitTriggerSound
<1> HIDE DEF w1
<1>3. Sound(w2) /\ (w1.i.fsm = "run" => w2 = w1)
  BY <1>2, ResolvedTriggerSound
<1> HIDE DEF w2
<1>4. Sound(w3) /\ (w2.i.fsm = "run" => w3 = w2)
  BY <1>3, HandshakedTriggerSound
<1> HIDE DEF w3
<1>5. Sound(w4) /\ Steady(w3, w4)
  BY <1>4, EchoTriggerSound
<1> HIDE DEF w4
<1>6. Sound(w5) /\ OnTime(w5.i)
  BY <1>5, EchoTimeoutSound, EchoTimeoutOnTime
<1>7. \/ w5 = w4
      \/ TimedOut(w4.i.echo[Mode(w4.i)].recv, Limit(Mode(w4.i)))
  BY DEF EchoTimeoutTrigger
<1> HIDE DEF w5
<1>8. /\ Sound(w6) /\ Bounded(w6.i)
      /\ w6.i.fsm = w5.i.fsm /\ w6.i.errors = w5.i.errors
  BY <1>6, BusyTimeoutSound, BusyTimeoutBounded
<1> HIDE DEF w6
<1>9. Sound(w) /\ Bounded(w.i)
  BY <1>1, <1>8, ErrorSound, ErrorBounded
<1>10. w = w6 \/ w6.i.errors > PeerErrorMax
  BY <1>1 DEF ErrorTrigger
<1>11. ASSUME s.i.fsm = "run", w.i.fsm = "init"
       PROVE \/ TimedOut(s.i.echo[Mode(s.i)].recv, Limit(Mode(s.i)))
             \/ s.i.errors > PeerErrorMax
  <2>1. w3 = s
    BY <1>2, <1>3, <1>4, <1>11
  <2>2. /\ w4.i.fsm = "run" /\ w4.i.errors = s.i.errors
        /\ SameEcho(s.i, w4.i) /\ s.i \in Instance
    BY <2>1, <1>5, <1>11 DEF Steady, Sound, Pair
  <2>3. /\ Mode(w4.i) = Mode(s.i)
        /\ w4.i.echo[Mode(w4.i)].recv = s.i.echo[Mode(s.i)].recv
    BY <2>2, EchoType DEF SameEcho, Mode
  <2>4. CASE w5 = w4
    BY <2>2, <2>4, <1>8, <1>10, <1>11
  <2>5. CASE w5 # w4
    BY <2>3, <2>5, <1>7
  <2> QED BY <2>4, <2>5
<1> QED BY <1>9, <1>11

-----------------------------------------------------------------------------
(* What comes down the socket.                                             *)

LEMMA CountErrorSame ==
  ASSUME NEW i \in Instance
  PROVE /\ CountError(i).fsm = i.fsm /\ CountError(i).sock = i.sock
        /\ CountError(i).busy = i.busy /\ CountError(i).busyAge = i.busyAge
        /\ CountError(i).echo = i.echo
BY DEF CountError, Instance

(* The pair i, n is fit for the handler to leave behind.                   *)
Kept(i, j) ==
  /\ j \in Instance
  /\ j.sock = i.sock
  /\ j.fsm \in {i.fsm, "handshaked"}
  /\ Latest(j)
  /\ Bounded(j)

LEMMA CountErrorKept ==
  ASSUME NEW i \in Instance, NEW j, Kept(i, j)
  PROVE Kept(i, CountError(j))
BY CountErrorSame, CountErrorType DEF Kept, Latest, Bounded, Mode, Other

LEMMA CommandKept ==
  ASSUME NEW i \in Instance, Latest(i), Bounded(i)
  PROVE Kept(i, rshi_echo_set(i, TRUE))
PROOF
<1> DEFINE j == rshi_echo_set(i, TRUE)
<1>1. /\ Latest(j) /\ j.fsm = i.fsm /\ j.sock = i.sock /\ j.busy = TRUE
      /\ j.busyAge = 0 /\ j.echo[Mode(j)].recv = i.echo[Mode(i)].recv
  BY EchoSetLatest
<1>2. j \in Instance
  BY EchoSetType
<1>3. Mode(j) = "busy" /\ Other(j) = "idle"
  BY <1>1 DEF Mode, Other
<1>4. i.fsm = "run" => \/ i.echo[Mode(i)].recv < Limit("busy")
                       \/ i.echo[Mode(i)].recv < Limit("idle")
  BY DEF Bounded, Mode, Other
<1> HIDE DEF j
<1>6. Bounded(j)
  BY <1>1, <1>3, <1>4 DEF Bounded
<1>7. Kept(i, j)
  BY <1>1, <1>2, <1>6 DEF Kept
<1> QED BY <1>7 DEF j

LEMMA EchoHeardKept ==
  ASSUME NEW i \in Instance, Latest(i)
  PROVE Kept(i, [i EXCEPT !.echo[Mode(i)] = [i.echo[Mode(i)] EXCEPT !.recv = 0]])
PROOF
<1> DEFINE m == Mode(i)
           e == [i.echo[m] EXCEPT !.recv = 0]
           j == [i EXCEPT !.echo[m] = e]
<1>1. m \in Modes /\ e \in Echo /\ e.recv = 0
  BY EchoType, NoAge, CapType DEF Echo
<1>2. j \in Instance
  BY <1>1, EchoType DEF Instance, Echo
<1>3. /\ j.fsm = i.fsm /\ j.sock = i.sock /\ j.busy = i.busy
      /\ j.echo = [i.echo EXCEPT ![m] = e]
  BY DEF Instance
<1>4. \A k \in Modes : j.echo[k] = IF k = m THEN e ELSE i.echo[k]
  BY <1>3, EchoType
<1>5. Mode(j) = m
  BY <1>3 DEF Mode
<1>6. \A k \in Modes : i.echo[k].recv \in Ages(RecvCap)
  BY EchoType DEF Echo
<1>7. j.echo[m].recv = 0 /\ \A k \in Modes : k # m => j.echo[k].recv = i.echo[k].recv
  BY <1>1, <1>4
<1> HIDE DEF j, e
<1>8. Latest(j)
  BY <1>1, <1>5, <1>6, <1>7 DEF Latest, Ages, Never
<1>9. Bounded(j)
  BY <1>1, <1>5, <1>7, LimitType DEF Bounded
<1>10. Kept(i, j)
  BY <1>2, <1>3, <1>8, <1>9 DEF Kept
<1> QED BY <1>10 DEF j, e

LEMMA RecverKept ==
  ASSUME NEW i \in Instance, Latest(i), Bounded(i),
         NEW m \in Requests \cup Commands, NEW good \in BOOLEAN, NEW failed \in BOOLEAN
  PROVE /\ Kept(i, rsha_recver(i, m, good, failed))
        /\ rsha_recver(i, m, good, failed).fsm = "handshaked" =>
             i.fsm = "handshaked" \/ m.cmd = "handshake"
PROOF
<1>1. Kept(i, i)
  BY DEF Kept
<1>2. Kept(i, CountError(i)) /\ CountError(i).fsm = i.fsm
  BY <1>1, CountErrorKept, CountErrorSame
<1>3. m.cmd \in {"handshake", "echo", "command"}
  BY DEF Requests, Commands
<1>4. /\ Kept(i, Handled(i, m, failed))
      /\ Handled(i, m, failed).fsm = "handshaked" =>
           i.fsm = "handshaked" \/ m.cmd = "handshake"
  <2>1. CASE m.cmd = "handshake"
    <3> DEFINE j == [i EXCEPT !.fsm = "handshaked"]
    <3>1. /\ j \in Instance /\ j.sock = i.sock /\ j.fsm = "handshaked"
          /\ j.echo = i.echo /\ j.busy = i.busy
      BY DEF Instance, Fsm
    <3>2. Kept(i, j)
      BY <3>1 DEF Kept, Latest, Bounded, Mode
    <3> QED BY <2>1, <3>2 DEF Handled
  <2>2. CASE m.cmd = "echo"
    <3> DEFINE j == [i EXCEPT !.echo[Mode(i)] = [i.echo[Mode(i)] EXCEPT !.recv = 0]]
    <3>1. Kept(i, j) /\ j.fsm = i.fsm
      BY EchoHeardKept DEF Instance
    <3>2. Handled(i, m, failed) = j
      BY <2>2 DEF Handled
    <3> QED BY <3>1, <3>2
  <2>3. CASE m.cmd = "command"
    <3> DEFINE j == rshi_echo_set(i, TRUE)
    <3>1. Kept(i, j) /\ j.fsm = i.fsm /\ j \in Instance
      BY CommandKept, EchoSetLatest DEF Kept
    <3>2. Kept(i, CountError(j)) /\ CountError(j).fsm = i.fsm
      BY <3>1, CountErrorKept, CountErrorSame
    <3>3. Handled(i, m, failed) = IF failed THEN CountError(j) ELSE j
      BY <2>3 DEF Handled
    <3> QED BY <3>1, <3>2, <3>3
  <2> QED BY <1>3, <2>1, <2>2, <2>3
<1> QED BY <1>1, <1>2, <1>4 DEF rsha_recver

-----------------------------------------------------------------------------
(* The theorems.                                                           *)

IInv == Sound([i |-> ins, n |-> net]) /\ Bounded(ins)

LEMMA IInvMeans ==
  IInv <=> /\ TypeOK /\ Answered(ins, net) /\ ThisSocket(ins, net)
           /\ Latest(ins) /\ Bounded(ins)
BY DEF IInv, Sound, Pair, TypeOK

LEMMA FreshType ==
  ASSUME NEW o \in BOOLEAN
  PROVE /\ Fresh(o) \in Instance
        /\ Fresh(o).fsm = "init"
        /\ \A m \in Modes : Fresh(o).echo[m].recv = Never
PROOF
<1>1. NoEcho \in Echo
  BY NoAge, CapType DEF NoEcho, Echo
<1>2. [m \in Modes |-> NoEcho] \in [Modes -> Echo]
  BY <1>1
<1>3. /\ Never \in Ages(BusyTimeout) /\ Never \in Ages(HandshakeInterval)
      /\ 0 \in 0 .. (PeerErrorMax + 1)
  BY NoAge, TimeoutAssumption
<1>4. Fresh(o) \in Instance
  BY <1>2, <1>3 DEF Fresh, Instance, Fsm, Echo
<1> QED BY <1>4 DEF Fresh, NoEcho

LEMMA NewOrGone ==
  /\ Gone \in Instance /\ Gone.fsm = "none" /\ Quiet \in Network
  /\ Latest(Gone) /\ Bounded(Gone) /\ Answered(Gone, Quiet) /\ ThisSocket(Gone, Quiet)
  /\ \A o \in BOOLEAN :
       /\ Latest(Fresh(o)) /\ Bounded(Fresh(o))
       /\ Answered(Fresh(o), Quiet) /\ ThisSocket(Fresh(o), Quiet)
PROOF
<1>1. /\ Gone \in Instance /\ Gone.fsm = "none"
      /\ \A m \in Modes : Gone.echo[m].recv = Never
  BY FreshType DEF Gone, Instance, Fsm
<1>2. Quiet \in Network /\ Quiet.up = {} /\ Quiet.down = {} /\ Quiet.heard = FALSE
  BY DEF Quiet, Network
<1> QED BY <1>1, <1>2, FreshType DEF Latest, Bounded, Answered, ThisSocket

LEMMA InitIInv == Init => IInv
BY NewOrGone, IInvMeans DEF Init, TypeOK

LEMMA TimerIInv == ASSUME IInv, Timer PROVE IInv'
PROOF
<1>1. PICK f, ok, o \in BOOLEAN : TimerPass(f, ok, o)
  BY DEF Timer
<1> DEFINE s == [i |-> Aged(ins), n |-> net]
<1>2. ins \in Instance /\ net \in Network
  BY IInvMeans DEF TypeOK
<1>3. Sound(s)
  BY <1>2, AgedSound DEF IInv
<1>4. PICK w \in rsha_timer_handle({s}, f, ok, o) : ins' = w.i /\ net' = w.n
  BY <1>1 DEF TimerPass
<1> HIDE DEF s
<1>5. Sound(w) /\ Bounded(w.i)
  BY <1>3, PassSound
<1>6. Bounded(ins')
  BY <1>4, <1>5 DEF Bounded
<1>7. TypeOK' /\ Answered(ins', net') /\ ThisSocket(ins', net') /\ Latest(ins')
  BY <1>4, <1>5 DEF Sound, Pair, TypeOK
<1> QED BY <1>6, <1>7 DEF IInv, Sound, Pair, TypeOK

LEMMA RecverIInv == ASSUME IInv, NEW m \in net.down, Recver(m) PROVE IInv'
PROOF
<1>1. PICK good, failed \in BOOLEAN : ins' = rsha_recver(ins, m, good, failed)
  BY DEF Recver
<1>2. PICK rest \in {net.down, net.down \ {m}} : net' = [net EXCEPT !.down = rest]
  BY DEF Recver
<1>3. /\ ins \in Instance /\ net \in Network /\ Latest(ins) /\ Bounded(ins)
      /\ Answered(ins, net) /\ ThisSocket(ins, net)
  BY IInvMeans DEF TypeOK
<1>4. m \in Requests \cup Commands
  BY <1>3 DEF Network
<1>5. Kept(ins, ins')
  BY <1>1, <1>3, <1>4, RecverKept
<1>6. /\ net' \in Network /\ net'.up = net.up /\ net'.heard = net.heard
      /\ net'.down # {} => net.down # {}
  BY <1>2, <1>3 DEF Network
<1>7. net.heard /\ ins.sock
  BY <1>3 DEF ThisSocket
<1>8. Answered(ins', net') /\ ThisSocket(ins', net')
  BY <1>3, <1>5, <1>6, <1>7 DEF Kept, Answered, ThisSocket
<1> QED BY <1>5, <1>6, <1>8 DEF Kept, IInv, Sound, Pair

(* What happens to the messages in flight leaves the instance alone.       *)
LEMMA NetIInv ==
  ASSUME IInv, Lose \/ PeerCommand \/ \E m \in net.up : PeerAnswer(m)
  PROVE IInv'
PROOF
<1>1. /\ ins \in Instance /\ net \in Network /\ Latest(ins) /\ Bounded(ins)
      /\ Answered(ins, net) /\ ThisSocket(ins, net)
  BY IInvMeans DEF TypeOK
<1>2. SUFFICES /\ ins' = ins /\ net' \in Network
               /\ net.heard => net'.heard
               /\ net'.up # {} => net.up # {}
               /\ net'.down # {} => net'.heard
               /\ net'.heard => net.heard \/ net.up # {}
  BY <1>1 DEF IInv, Sound, Pair, Answered, ThisSocket
<1>3. CASE Lose
  BY <1>1, <1>3 DEF Lose, Network, ThisSocket
<1>4. CASE PeerCommand
  BY <1>1, <1>4 DEF PeerCommand, Network
<1>5. CASE \E m \in net.up : PeerAnswer(m)
  <2>1. PICK m \in net.up : PeerAnswer(m)
    BY <1>5
  <2>2. PICK rest \in {net.up, net.up \ {m}} :
          net' = [up |-> rest, down |-> Posted(net.down, m), heard |-> TRUE]
    BY <2>1 DEF PeerAnswer
  <2>3. Posted(net.down, m) \in SUBSET (Requests \cup Commands)
    BY <1>1, PostedType DEF Network
  <2> QED BY <1>1, <2>1, <2>2, <2>3 DEF PeerAnswer, Network
<1> QED BY <1>3, <1>4, <1>5

LEMMA NextIInv == IInv /\ [Next]_vars => IInv'
PROOF
<1> SUFFICES ASSUME IInv, [Next]_vars PROVE IInv'
  OBVIOUS
<1>1. CASE Insert
  BY <1>1, NewOrGone, FreshType DEF Insert, IInv, Sound, Pair
<1>2. CASE Remove
  BY <1>2, NewOrGone DEF Remove, IInv, Sound, Pair
<1>3. CASE Timer
  BY <1>3, TimerIInv
<1>4. CASE \E m \in net.down : Recver(m)
  BY <1>4, RecverIInv
<1>5. CASE Lose \/ PeerCommand \/ \E m \in net.up : PeerAnswer(m)
  BY <1>5, NetIInv
<1>6. CASE UNCHANGED vars
  BY <1>6 DEF vars, IInv, Sound, Pair, Bounded, Latest, Answered, ThisSocket
<1> QED BY <1>1, <1>2, <1>3, <1>4, <1>5, <1>6 DEF Next

LEMMA SpecIInv == Spec => []IInv
BY InitIInv, NextIInv, PTL DEF Spec

(* The fields of rsh_instance_t and the messages in flight keep their      *)
(* types, whatever the configuration of the echoes.                        *)
THEOREM SpecTypeOK == Spec => []TypeOK
PROOF
<1>1. IInv => TypeOK
  BY IInvMeans
<1> QED BY <1>1, SpecIInv, PTL

(* A tunnel that counts as shaken hands has its socket open and was heard  *)
(* over it.                                                                *)
THEOREM SpecTunnelIsAnswered == Spec => []TunnelIsAnswered
PROOF
<1>1. IInv => TunnelIsAnswered
  BY IInvMeans DEF Answered, TunnelIsAnswered
<1> QED BY <1>1, SpecIInv, PTL

(* No silence of interval*times seconds goes unnoticed, whatever the two   *)
(* intervals and times are.                                                *)
THEOREM SpecSilenceBounded == Spec => []SilenceBounded
PROOF
<1>1. IInv => SilenceBounded
  BY IInvMeans DEF Bounded, SilenceBounded
<1> QED BY <1>1, SpecIInv, PTL

(* A running tunnel goes back to init for a cause only.                    *)
Cause ==
  ins.fsm = "run" /\ ins'.fsm = "init" =>
    \/ /\ \E m \in Modes : ins.echo[m].recv # Never
       /\ \A m \in Modes : \/ ins.echo[m].recv = Never
                          \/ ins.echo[m].recv + 1 >= Limit(Mode(ins))
    \/ ins.errors > PeerErrorMax

LEMMA TimerCause == ASSUME IInv, Timer PROVE Cause
PROOF
<1>1. PICK f, ok, o \in BOOLEAN : TimerPass(f, ok, o)
  BY DEF Timer
<1> DEFINE s == [i |-> Aged(ins), n |-> net]
           r == ins.echo[Mode(ins)].recv
<1>2. ins \in Instance /\ net \in Network
  BY IInvMeans DEF TypeOK
<1>3. /\ Sound(s) /\ s.i.fsm = ins.fsm /\ s.i.errors = ins.errors
      /\ Mode(s.i) = Mode(ins)
      /\ s.i.echo[Mode(ins)].recv = Older(r, RecvCap)
  BY <1>2, AgedSound, EchoType DEF IInv
<1>4. PICK w \in rsha_timer_handle({s}, f, ok, o) : ins' = w.i /\ net' = w.n
  BY <1>1 DEF TimerPass
<1> HIDE DEF s
<1>5. s.i.fsm = "run" /\ w.i.fsm = "init" =>
        \/ TimedOut(s.i.echo[Mode(s.i)].recv, Limit(Mode(s.i)))
        \/ s.i.errors > PeerErrorMax
  BY <1>3, PassSound
<1>6. /\ \A m \in Modes : ins.echo[m].recv \in Ages(RecvCap)
      /\ Mode(ins) \in Modes /\ Limit(Mode(ins)) \in Nat
  BY <1>2, EchoType, LimitType DEF Echo
<1>7. Latest(ins)
  BY IInvMeans
<1>8. ASSUME TimedOut(Older(r, RecvCap), Limit(Mode(ins)))
      PROVE r # Never /\ r + 1 >= Limit(Mode(ins))
  BY <1>6, <1>8, CapType DEF TimedOut, Older, Ages, Never
<1>9. ASSUME r # Never, r + 1 >= Limit(Mode(ins)), NEW m \in Modes
      PROVE ins.echo[m].recv = Never \/ ins.echo[m].recv + 1 >= Limit(Mode(ins))
  BY <1>6, <1>7, <1>9 DEF Latest, Ages, Never
<1> QED BY <1>3, <1>4, <1>5, <1>6, <1>8, <1>9 DEF Cause

LEMMA RecverCause == ASSUME IInv, NEW m \in net.down, Recver(m) PROVE Cause
PROOF
<1>1. PICK good, failed \in BOOLEAN : ins' = rsha_recver(ins, m, good, failed)
  BY DEF Recver
<1>2. ins \in Instance /\ Latest(ins) /\ Bounded(ins) /\ m \in Requests \cup Commands
  BY IInvMeans DEF TypeOK, Network
<1>3. ins'.fsm \in {ins.fsm, "handshaked"}
  BY <1>1, <1>2, RecverKept DEF Kept
<1> QED BY <1>3 DEF Cause

(* The pass of the timer is the only way from run to init, and it has its  *)
(* cause (timer.c:78, 102).                                                *)
THEOREM SpecRestartForCause == Spec => RestartForCause
PROOF
<1>1. IInv /\ [Next]_vars => [Cause]_vars
  <2> SUFFICES ASSUME IInv, Next PROVE Cause
    BY DEF Cause
  <2>1. CASE Insert \/ Remove
    BY <2>1, NewOrGone DEF Insert, Remove, Cause
  <2>2. CASE Timer
    BY <2>2, TimerCause
  <2>3. CASE \E m \in net.down : Recver(m)
    BY <2>3, RecverCause
  <2>4. CASE Lose \/ PeerCommand \/ \E m \in net.up : PeerAnswer(m)
    BY <2>4 DEF Lose, PeerCommand, PeerAnswer, Cause
  <2> QED BY <2>1, <2>2, <2>3, <2>4 DEF Next
<1>2. Spec => [][Next]_vars
  BY DEF Spec
<1>3. Spec => [][Cause]_vars
  BY <1>1, <1>2, SpecIInv, PTL
<1> QED BY <1>3 DEF RestartForCause, Cause

=============================================================================
