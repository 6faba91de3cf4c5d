-------------------------------- MODULE Nsqa --------------------------------
(***************************************************************************)
(* The nsq agent (src/app/nsqa) over the event loop: its instances, each a *)
(* client of a message queue over TCP, the timer that leads them through   *)
(* their states, the receiver, and the clients that insert and remove      *)
(* instances.  Ages of states are left out: what a timeout sends again     *)
(* leaves the instance as it is.                                           *)
(***************************************************************************)
EXTENDS Loop

VARIABLE inst  \* nsqa.table: the instance of a name, topic and channel

vars == <<loop, batch, inst>>

Name == User

Fsm == {"init", "resolved", "connected", "handshaked", "identifying",
        "identified", "authing", "authed", "subscribing", "subscribed", "run"}

Instance == [fsm : Fsm, fd : Fds \cup {INVALID_FD},
             resolved : BOOLEAN, linked : BOOLEAN]

NoInstance == [fsm |-> "none", fd |-> INVALID_FD,
               resolved |-> FALSE, linked |-> FALSE]

Fresh(fd) == [NoInstance EXCEPT !.fsm = "init", !.fd = fd]

Live(n) == inst[n] # NoInstance

-----------------------------------------------------------------------------
(* The timer: each trigger maps the instances possible before it to those  *)
(* possible after it, by what the resolver and the network answer.         *)

Resolvable(i) == i.fsm = "init" /\ ~ i.resolved

(* An address that is known already is not looked up, and nothing moves.    *)
nsq_resolve(S) ==
  {i \in S : ~ Resolvable(i)}
  \cup {[i EXCEPT !.fsm = "resolved"] : i \in {i \in S : Resolvable(i)}}
  \cup {[i EXCEPT !.fsm = "resolved", !.resolved = TRUE] :
          i \in {i \in S : Resolvable(i)}}

(* The code looks at the descriptor, not at the result of connect.          *)
Connectable(i) == i.fsm = "resolved" /\ i.fd # INVALID_FD

nsq_connect(S) ==
  {i \in S : ~ Connectable(i)}
  \cup {[i EXCEPT !.fsm = "connected", !.linked = FALSE] :
          i \in {i \in S : Connectable(i)}}
  \cup {[i EXCEPT !.fsm = "connected", !.linked = TRUE] :
          i \in {i \in S : Connectable(i) /\ i.resolved}}

(* What is sent may fail; without a connection it does.                     *)
Sent(S, from, to) ==
  S \cup {[i EXCEPT !.fsm = to] : i \in {i \in S : i.fsm = from /\ i.linked}}

nsq_handshake(S) == Sent(S, "connected", "handshaked")
nsq_identify(S) == Sent(S, "handshaked", "identifying")
nsq_auth(S) ==
  {i \in S : i.fsm # "identified"}
  \cup {[i EXCEPT !.fsm = "authed"] : i \in {i \in S : i.fsm = "identified"}}
nsq_subscrib(S) == Sent(S, "authed", "subscribing")
nsq_run(S) == Sent(S, "subscribed", "run")

nsqa_timer_handle(i) ==
  IF i = NoInstance THEN {i}
  ELSE nsq_run(nsq_subscrib(nsq_auth(nsq_identify(nsq_handshake(
         nsq_connect(nsq_resolve({i})))))))

nsqa_timer ==
  /\ \E fd \in Fds : Event(fd, "timer")
  /\ \E after \in [Name -> UNION {nsqa_timer_handle(inst[n]) : n \in Name}] :
       /\ \A n \in Name : after[n] \in nsqa_timer_handle(inst[n])
       /\ inst' = after
  /\ UNCHANGED loop

-----------------------------------------------------------------------------
(* The receiver.                                                           *)

(* Mutant: the descriptor is closed and its number kept.                    *)
ConfuseKeepFd(i) == IF i.fd = INVALID_FD THEN i ELSE [i EXCEPT !.fsm = "init"]

nsq_confuse(i) ==
  IF i.fd = INVALID_FD THEN i ELSE [i EXCEPT !.fsm = "init", !.fd = INVALID_FD]

Frame == {"short", "heartbeat", "named", "features", "message"}

is_down(i) == i.fsm \in {"init", "resolved", "connected"}

(* OK is one of the named errors, which are refused: only the features of   *)
(* an answer to IDENTIFY are taken.                                         *)
nsq_frame_handle(i, frame) ==
  IF i.fsm = "identifying" /\ frame = "features"
  THEN [i EXCEPT !.fsm = "identified"]
  ELSE i

(* A frame that was handled well falls through to confused.                 *)
nsq_recver(n) ==
  /\ \E fd \in Fds : Event(fd, "normal") /\ n = loop.watcher[fd].user
  /\ \E frame \in Frame :
       LET handled == IF is_down(inst[n]) THEN inst[n]
                      ELSE nsq_frame_handle(inst[n], frame)
       IN  inst' = [inst EXCEPT ![n] = nsq_confuse(handled)]
  /\ loop' = os_close(loop, {inst[n].fd})

-----------------------------------------------------------------------------
(* The clients: a son is handled once and deleted.  Where the file of the  *)
(* son was closed under it there is nothing to read.                       *)

Call(fd) == Event(fd, "son")
Request(fd) == Call(fd) /\ loop.file[fd] = "conn"

FdsOf(names) == {inst[n].fd : n \in names}

(* Mutant: the descriptor is closed and its watcher forgotten.              *)
DestroyOnlyClose(l, names) == os_close(l, FdsOf(names))

(* del_watcher closes the descriptor, and the close after it finds it so.   *)
__nsqi_destroy(l, names) ==
  os_close(os_loop_del_watcher(l, FdsOf(names)), FdsOf(names))

(* A number a watcher still has is refused, and its descriptor closed.      *)
nsqi_insert(n) ==
  \E fd, sock \in Fds :
    /\ Request(fd)
    /\ ~ Live(n)
    /\ IsFree(loop, sock)
    /\ LET opened == Open(loop, sock, "sock")
       IN  \/ /\ ~ is_watched(loop, sock)
              /\ loop' = os_loop_del_watcher(
                           os_loop_add(opened, sock, "normal", n), {fd})
              /\ inst' = [inst EXCEPT ![n] = Fresh(sock)]
           \/ /\ is_watched(loop, sock)
              /\ loop' = os_loop_del_watcher(os_close(opened, {sock}), {fd})
              /\ UNCHANGED inst

(* socket fails: the instance that is destroyed has the descriptor it was   *)
(* allocated with, 0, and no watcher.                                       *)
nsqi_insert_fails(n) ==
  \E fd \in Fds :
    /\ Request(fd)
    /\ ~ Live(n)
    /\ loop' = os_loop_del_watcher(os_close(loop, {StdinFd}), {fd})
    /\ UNCHANGED inst

(* A name, or with wildcards the instances that match.                      *)
nsqi_remove(names) ==
  \E fd \in Fds :
    /\ Request(fd)
    /\ names # {} /\ \A n \in names : Live(n)
    /\ loop' = os_loop_del_watcher(__nsqi_destroy(loop, names), {fd})
    /\ inst' = [n \in Name |-> IF n \in names THEN NoInstance ELSE inst[n]]

(* show, a request that is refused, and one that never comes.               *)
Refuse ==
  \E fd \in Fds :
    /\ Call(fd)
    /\ loop' = os_loop_del_watcher(loop, {fd})
    /\ UNCHANGED inst

-----------------------------------------------------------------------------
Init == LoopInit /\ inst = [n \in Name |-> NoInstance]

Next ==
  \/ (Wait \/ Skip \/ Accept) /\ UNCHANGED inst
  \/ nsqa_timer
  \/ \E n \in Name : nsq_recver(n) \/ nsqi_insert(n) \/ nsqi_insert_fails(n)
  \/ \E names \in SUBSET Name : nsqi_remove(names)
  \/ Refuse

Spec == Init /\ [][Next]_vars

-----------------------------------------------------------------------------
(* Properties.                                                             *)

(* Values stay in their sets (loop.h, nsqa.h nsq_instance_t).               *)
TypeOK ==
  /\ loop \in Loop
  /\ batch \in Seq(Fds)
  /\ inst \in [Name -> Instance \cup {NoInstance}]

(* The descriptor an instance holds is its own socket, open and watched for *)
(* it, whatever numbers were closed and given out again: no instance sends  *)
(* to, or closes, a file of another one (instance.c:66-72, proto.c:347).    *)
(* The one number that can be taken from its instance is 0, which a failed  *)
(* insert closes; the instance then keeps the watcher and no events.        *)
OwnsItsSocket ==
  \A n \in Name :
    LET fd == inst[n].fd
    IN  fd # INVALID_FD =>
          /\ loop.watcher[fd] = [type |-> "normal", user |-> n]
          /\ \/ loop.file[fd] = "sock" /\ fd \in loop.epoll
             \/ fd = StdinFd /\ fd \notin loop.epoll

(* An event is handed to an instance that is alive and has this descriptor: *)
(* requests handled earlier in the same batch may have freed it, and the    *)
(* table keeps watchers of freed instances (loop.c:442-454).                *)
HandledIsOwn ==
  batch # <<>> =>
    LET fd == Head(batch)
    IN  loop.watcher[fd].type = "normal" =>
          inst[loop.watcher[fd].user].fd = fd

(* A client that was accepted is watched, and so will be answered and       *)
(* closed, unless it got a number whose watcher was left behind: by an      *)
(* instance that was confused, or on 0 by whatever a failed insert closed   *)
(* (loop.c:171-176, proto.c:352, instance.c:72).                            *)
ServedUnlessStale ==
  \A fd \in Fds :
    loop.file[fd] = "conn" =>
      \/ fd \in loop.epoll /\ loop.watcher[fd].type = "son"
      \/ /\ fd \notin loop.epoll
         /\ \/ /\ loop.watcher[fd].type = "normal"
               /\ inst[loop.watcher[fd].user].fd # fd
            \/ fd = StdinFd /\ is_watched(loop, fd)

(* The first trigger of the timer resolves: "==> resolved" (timer.c:22).    *)
InitResolves ==
  [][ \A n \in Name :
        (inst[n].fsm = "init" /\ Event(TimerFd, "timer"))
          => inst'[n].fsm # "init" ]_vars

=============================================================================
