-------------------------------- MODULE Rsha --------------------------------
(***************************************************************************)
(* One instance of the rsh agent (src/app/rsha): it resolves its proxy,    *)
(* shakes hands, then echoes, and runs the commands of its peer.  The      *)
(* network is UDP: it loses, duplicates and reorders.  The peer is not in  *)
(* the repository: it answers handshakes and echoes and sends commands.    *)
(*                                                                         *)
(* A time_t is modelled by its age, the seconds since it was taken, which  *)
(* stops counting where the code compares it, or Never while the code      *)
(* holds a 0.                                                              *)
(***************************************************************************)
EXTENDS Integers, FiniteSets

CONSTANTS Interval,          \* echo->interval of each mode, in seconds
          Times,             \* echo->times of each mode
          HandshakeInterval, \* handshake->interval
          BusyTimeout,       \* RSHA_ECHO_BUSY_TIMEOUT as it is compared
          PeerErrorMax,      \* peer_error_max
          SeqWindow,         \* 1024, the distance an ack may have
          NetMax             \* bound: messages in flight, each way

VARIABLES ins,  \* the rsh_instance_t
          net   \* messages to and from the peer over the open socket

vars == <<ins, net>>

Modes == {"idle", "busy"}
Limit(m) == Interval[m] * Times[m]
MaxOf(a, b) == IF a >= b THEN a ELSE b
SendCap == MaxOf(Interval["idle"], Interval["busy"])
RecvCap == MaxOf(Limit("idle"), Limit("busy"))

ASSUME IntervalAssumption == Interval \in [Modes -> Nat \ {0}]
ASSUME TimesAssumption == Times \in [Modes -> Nat \ {0}]
ASSUME TimeoutAssumption ==
  /\ HandshakeInterval \in Nat \ {0}
  /\ BusyTimeout \in Nat \ {0}
  /\ PeerErrorMax \in Nat
ASSUME SeqWindowAssumption == SeqWindow \in Nat
ASSUME NetMaxAssumption == NetMax \in Nat \ {0}

-----------------------------------------------------------------------------
(* Ages and lags.                                                          *)

Never == -1
Ages(cap) == -1 .. cap

Older(age, cap) == IF age = Never \/ age = cap THEN age ELSE age + 1

TimedOut(age, max) == age > 0 /\ age >= max

Lags == 0 .. (SeqWindow + 1)

LagLonger(lag) == IF lag > SeqWindow THEN lag ELSE lag + 1

-----------------------------------------------------------------------------
(* Messages.  A sequence number is modelled by its lag, the distance       *)
(* os_seq_offset gives between it and instance->seq, which stops counting  *)
(* beyond the window: the lag of a request, of the request an answer or a  *)
(* command acknowledges.  A handshake needs none, see Reported.  Answers   *)
(* carry the ack flag, commands do not.                                    *)

Requests == [cmd : {"handshake"}, lag : {0}] \cup [cmd : {"echo"}, lag : Lags]
Commands == [cmd : {"command"}, lag : Lags]

Network == [up : SUBSET Requests, down : SUBSET (Requests \cup Commands),
            heard : BOOLEAN]

(* up and down hold what is in flight; heard is whether the peer has heard *)
(* from this socket: before, it knows no address to send to.               *)
Quiet == [up |-> {}, down |-> {}, heard |-> FALSE]

(* A datagram that finds no room is lost.                                  *)
Posted(box, m) == IF Cardinality(box) < NetMax THEN box \cup {m} ELSE box

(* instance->seq++: every number in use is one further behind.             *)
Behind(box) ==
  {IF m.cmd = "handshake" THEN m ELSE [m EXCEPT !.lag = LagLonger(@)] : m \in box}
SeqAdvanced(n) ==
  [n EXCEPT !.up = Behind(@), !.down = Behind(@)]

-----------------------------------------------------------------------------
(* The instance.                                                           *)

Fsm == {"none", "init", "resolved", "handshaked", "run"}

Mode(i) == IF i.busy THEN "busy" ELSE "idle"
Other(i) == IF i.busy THEN "idle" ELSE "busy"

Instance ==
  [fsm : Fsm, sock : BOOLEAN, errors : 0 .. (PeerErrorMax + 1),
   busy : BOOLEAN, busyAge : Ages(BusyTimeout),
   hs : [sent : BOOLEAN, send : Ages(HandshakeInterval)],
   echo : [Modes -> [sent : BOOLEAN, send : Ages(SendCap), recv : Ages(RecvCap)]]]

NoEcho == [sent |-> FALSE, send |-> Never, recv |-> Never]

Fresh(opened) ==
  [fsm |-> "init", sock |-> opened, errors |-> 0,
   busy |-> FALSE, busyAge |-> Never,
   hs |-> [sent |-> FALSE, send |-> Never],
   echo |-> [m \in Modes |-> NoEcho]]

Gone == [Fresh(FALSE) EXCEPT !.fsm = "none"]

AgedEcho(e) ==
  [e EXCEPT !.send = Older(@, SendCap), !.recv = Older(@, RecvCap)]

Aged(i) ==
  [i EXCEPT !.busyAge = Older(@, BusyTimeout),
            !.hs.send = Older(@, HandshakeInterval),
            !.echo = [m \in Modes |-> AgedEcho(i.echo[m])]]

(* rshi_echo_clear: the times, not the counts.                             *)
Cleared(e) == [e EXCEPT !.send = Never, !.recv = Never]

(* peer_error++; what matters is whether it is beyond the maximum.         *)
CountError(i) ==
  [i EXCEPT !.errors = IF @ > PeerErrorMax THEN @ ELSE @ + 1]

\* Mutant: the new mode goes on with its own old times.
EchoSetKeepTimes(i, busy) ==
  LET set == [i EXCEPT !.busy = busy]
  IN  IF busy THEN [set EXCEPT !.busyAge = 0] ELSE set

(* A change of mode takes over the times of the other mode, not its count. *)
rshi_echo_set(i, busy) ==
  LET old == i.echo[Mode(i)]
      new == IF busy THEN "busy" ELSE "idle"
      set == IF i.busy = busy THEN i
             ELSE [i EXCEPT !.busy = busy,
                            !.echo[new] = [i.echo[new] EXCEPT !.send = old.send,
                                                              !.recv = old.recv]]
  IN  IF busy THEN [set EXCEPT !.busyAge = 0] ELSE set

-----------------------------------------------------------------------------
(* The triggers of the timer pass.  Each maps the pair w of the instance   *)
(* and the network to the next one.                                        *)

\* Mutant: the old socket stays open, and what comes down it is still read.
RestartKeepSocket(w, opened) ==
  [i |-> [w.i EXCEPT !.fsm = "init", !.sock = opened,
                     !.echo = [m \in Modes |-> Cleared(w.i.echo[m])]],
   n |-> [Quiet EXCEPT !.down = w.n.down]]

(* Back to init: the socket is closed, and with it goes what is in flight; *)
(* opened is whether a new one could be had.                               *)
rshi_fsm_restart(w, opened) ==
  [i |-> [w.i EXCEPT !.fsm = "init", !.sock = opened,
                     !.echo = [m \in Modes |-> Cleared(w.i.echo[m])]],
   n |-> Quiet]

(* ok is whether sendto succeeds.                                          *)
rshi_send(w, m, ok) ==
  IF w.i.sock /\ ok THEN [w EXCEPT !.n.up = Posted(w.n.up, m)] ELSE w

rshi_handshake(w, ok) ==
  rshi_send([w EXCEPT !.i.hs = [sent |-> TRUE, send |-> 0]],
            [cmd |-> "handshake", lag |-> 0], ok)

(* The number is used up whether or not the echo could be sent.            *)
rshi_echo(w, ok) ==
  LET m == Mode(w.i)
      n == SeqAdvanced(w.n)
      sent == [w.i EXCEPT !.echo[m] = [w.i.echo[m] EXCEPT !.sent = TRUE, !.send = 0]]
  IN  rshi_send([i |-> IF w.i.sock /\ ok THEN sent ELSE w.i, n |-> n],
                [cmd |-> "echo", lag |-> 1], ok)

InitTrigger(w, found) ==
  IF w.i.fsm = "init" /\ found THEN [w EXCEPT !.i.fsm = "resolved"] ELSE w

\* Mutant: a handshake is sent once.
HandshakeOnce(w, ok) ==
  IF w.i.fsm = "resolved" /\ ~w.i.hs.sent THEN rshi_handshake(w, ok) ELSE w

ResolvedTrigger(w, ok) ==
  IF /\ w.i.fsm = "resolved"
     /\ ~w.i.hs.sent \/ TimedOut(w.i.hs.send, HandshakeInterval)
  THEN rshi_handshake(w, ok) ELSE w

HandshakedTrigger(w) ==
  IF w.i.fsm = "handshaked" THEN [w EXCEPT !.i.fsm = "run"] ELSE w

\* Mutant: only the first echo of a mode is sent.
EchoOnce(w, ok) ==
  IF w.i.fsm = "run" /\ ~w.i.echo[Mode(w.i)].sent THEN rshi_echo(w, ok) ELSE w

EchoTrigger(w, ok) ==
  LET e == w.i.echo[Mode(w.i)]
  IN  IF /\ w.i.fsm = "run"
         /\ ~e.sent \/ TimedOut(e.send, Interval[Mode(w.i)])
      THEN rshi_echo(w, ok) ELSE w

\* Mutant: the time of the last echo instead of that of the last answer.
SendTimeout(w, opened) ==
  IF /\ w.i.fsm = "run"
     /\ TimedOut(w.i.echo[Mode(w.i)].send, Limit(Mode(w.i)))
  THEN rshi_fsm_restart(w, opened) ELSE w

EchoTimeoutTrigger(w, opened) ==
  IF /\ w.i.fsm = "run"
     /\ TimedOut(w.i.echo[Mode(w.i)].recv, Limit(Mode(w.i)))
  THEN rshi_fsm_restart(w, opened) ELSE w

BusyTimeoutTrigger(w) ==
  IF w.i.fsm = "run" /\ w.i.busy /\ TimedOut(w.i.busyAge, BusyTimeout)
  THEN [w EXCEPT !.i = rshi_echo_set(w.i, FALSE)] ELSE w

ErrorTrigger(w, opened) ==
  IF w.i.fsm = "run" /\ w.i.errors > PeerErrorMax
  THEN rshi_fsm_restart(w, opened) ELSE w

(* The triggers in their order, over the one pair in start.                *)
rsha_timer_handle(start, found, ok, opened) ==
  LET sought  == {InitTrigger(w, found) : w \in start}
      asked   == {ResolvedTrigger(w, ok) : w \in sought}
      shaken  == {HandshakedTrigger(w) : w \in asked}
      echoed  == {EchoTrigger(w, ok) : w \in shaken}
      heard   == {EchoTimeoutTrigger(w, opened) : w \in echoed}
      watched == {BusyTimeoutTrigger(w) : w \in heard}
  IN  {ErrorTrigger(w, opened) : w \in watched}

-----------------------------------------------------------------------------
(* What comes down the socket.                                             *)

(* good is false for a message that fails a check of rshi_recv_checker:    *)
(* hmac, length, version, mac.  rshi_ack_error reports it to the peer only *)
(* when it lacks the ack flag, and returns 0 when it has it, so a bad      *)
(* answer is handled like a good one; so is an answer to a handshake with  *)
(* another number (rshi_handshake_checker).                                *)
Reported(m, good) == ~good /\ m.cmd = "command"

(* rshi_ack_checker, reached by good messages only.                        *)
OutOfWindow(m, good) ==
  /\ good
  /\ m.cmd # "handshake"
  /\ m.lag > SeqWindow

(* failed is whether jscript_exec returns an error for a command.          *)
Handled(i, m, failed) ==
  CASE m.cmd = "handshake" -> [i EXCEPT !.fsm = "handshaked"]
    [] m.cmd = "echo" ->
         [i EXCEPT !.echo[Mode(i)] = [i.echo[Mode(i)] EXCEPT !.recv = 0]]
    [] m.cmd = "command" ->
         LET b == rshi_echo_set(i, TRUE)
         IN  IF failed THEN CountError(b) ELSE b

rsha_recver(i, m, good, failed) ==
  IF Reported(m, good) THEN CountError(i)
  ELSE IF OutOfWindow(m, good) THEN i
  ELSE Handled(i, m, failed)

-----------------------------------------------------------------------------
(* Actions.                                                                *)

Init == ins = Gone /\ net = Quiet

Insert ==
  /\ ins.fsm = "none"
  /\ \E opened \in BOOLEAN : ins' = Fresh(opened)
  /\ net' = Quiet

Remove ==
  /\ ins.fsm # "none"
  /\ ins' = Gone
  /\ net' = Quiet

(* A second has passed and the timer of the loop goes over the instance.   *)
TimerPass(found, ok, opened) ==
  /\ ins.fsm # "none"
  /\ \E w \in rsha_timer_handle({[i |-> Aged(ins), n |-> net]},
                                found, ok, opened) :
       ins' = w.i /\ net' = w.n

Timer == \E found, ok, opened \in BOOLEAN : TimerPass(found, ok, opened)

(* The handler of the socket; a message may stay in flight: a duplicate.   *)
Recver(m) ==
  /\ m \in net.down
  /\ \E good, failed \in BOOLEAN : ins' = rsha_recver(ins, m, good, failed)
  /\ \E rest \in {net.down, net.down \ {m}} : net' = [net EXCEPT !.down = rest]

Lose ==
  /\ \/ \E m \in net.up : net' = [net EXCEPT !.up = @ \ {m}]
     \/ \E m \in net.down : net' = [net EXCEPT !.down = @ \ {m}]
  /\ UNCHANGED ins

(* The peer hears a request and answers it.                                *)
PeerAnswer(m) ==
  /\ m \in net.up
  /\ \E rest \in {net.up, net.up \ {m}} :
       net' = [up |-> rest, down |-> Posted(net.down, m), heard |-> TRUE]
  /\ UNCHANGED ins

(* The peer sends a command, acknowledging any number it likes.  Bound:    *)
(* commands leave room for one answer.                                     *)
PeerCommand ==
  /\ net.heard
  /\ Cardinality(net.down) < NetMax - 1
  /\ \E m \in Commands : net' = [net EXCEPT !.down = @ \cup {m}]
  /\ UNCHANGED ins

Next ==
  \/ Insert \/ Remove \/ Timer
  \/ \E m \in net.down : Recver(m)
  \/ Lose
  \/ \E m \in net.up : PeerAnswer(m)
  \/ PeerCommand

Spec == Init /\ [][Next]_vars

(* The timer goes on, and again and again a pass finds name server, route  *)
(* and socket working; a handshake that is sent again and again arrives,   *)
(* and so does its answer.                                                 *)
HandshakeArrives == \E m \in net.up : m.cmd = "handshake" /\ PeerAnswer(m)
AnswerArrives == \E m \in net.down : m.cmd = "handshake" /\ Recver(m)

FairSpec ==
  /\ Spec
  /\ WF_vars(TimerPass(TRUE, TRUE, TRUE))
  /\ SF_vars(HandshakeArrives)
  /\ SF_vars(AnswerArrives)

-----------------------------------------------------------------------------
(* Properties.                                                             *)

(* The fields of the instance and the messages in flight have the types    *)
(* their C declarations give them (rsh_instance_t, rsh_msg_t).             *)
TypeOK == ins \in Instance /\ net \in Network

(* A tunnel that counts as shaken hands has an open socket, and the peer   *)
(* has heard from this very socket: no answer to an earlier one, late or   *)
(* doubled, carries a restarted tunnel forward (proto.c:263,               *)
(* instance.c:438).                                                        *)
TunnelIsAnswered ==
  ins.fsm \in {"handshaked", "run"} => ins.sock /\ net.heard

(* Once an echo was answered, a running tunnel never hears nothing for     *)
(* interval*times seconds: the pass of the timer that finds it so restarts *)
(* it.  A change of mode takes the silence along, so it may reach the      *)
(* limit of the other mode where that is the longer one: in busy mode only *)
(* if a command has come since the last pass (timer.c:72, instance.c:419). *)
SilenceBounded ==
  ins.fsm = "run" =>
    \/ ins.echo[Mode(ins)].recv < Limit(Mode(ins))
    \/ /\ ins.busy => ins.busyAge = 0
       /\ ins.echo[Mode(ins)].recv < Limit(Other(ins))

(* A running tunnel goes back to init only for a cause: no answer to an    *)
(* echo, in whichever mode it came, for the limit of the mode it is in, or *)
(* too many errors of the peer (timer.c:78, 102).                          *)
RestartForCause ==
  [][ins.fsm = "run" /\ ins'.fsm = "init" =>
       \/ /\ \E m \in Modes : ins.echo[m].recv # Never
          /\ \A m \in Modes : \/ ins.echo[m].recv = Never
                             \/ ins.echo[m].recv + 1 >= Limit(Mode(ins))
       \/ ins.errors > PeerErrorMax]_vars

(* A tunnel in init comes to run, unless it was removed, has no socket or  *)
(* has counted too many errors: peer_error is never cleared, so then each  *)
(* pass that sees it run restarts it (timer.c:102).                        *)
Reconnects ==
  ins.fsm = "init" ~>
    (ins.fsm \in {"run", "none"} \/ ~ins.sock \/ ins.errors > PeerErrorMax)

(* A running tunnel sends echoes again and again, but for the mode in      *)
(* which it has sent one before a restart: the restart clears the time of  *)
(* the last echo and not their count (timer.c:57, rsha.h:416).             *)
EchoesGoOn ==
  []<>(\/ ins.fsm # "run"
       \/ ins.echo[Mode(ins)].send = 0
       \/ ins.echo[Mode(ins)].sent /\ ins.echo[Mode(ins)].send = Never)

=============================================================================
