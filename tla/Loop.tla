-------------------------------- MODULE Loop --------------------------------
(***************************************************************************)
(* The event loop the daemons run on (src/lib/weos/app/loop.c): a table of *)
(* watchers indexed by descriptor number, over the kernel's descriptors    *)
(* and its epoll set.  The kernel gives a new file the lowest free number  *)
(* and forgets a file that is closed; the table forgets nothing it is not  *)
(* told.  One epoll_wait returns several events, which are handled one     *)
(* after the other while their handlers open and close descriptors.        *)
(***************************************************************************)
EXTENDS Integers, Sequences, FiniteSets

CONSTANTS MaxFd,    \* bound: the highest descriptor number
          BatchMax, \* bound: events of one epoll_wait, 32 in the code
          User      \* what a watcher may hand to its callback

ASSUME MaxFdAssumption == MaxFd \in Nat /\ MaxFd >= 3
ASSUME BatchMaxAssumption == BatchMax \in Nat \ {0}

VARIABLES loop,  \* files and epoll of the kernel, watcher of the table
          batch  \* the events of the last epoll_wait not handled yet

Fds == 0 .. MaxFd
INVALID_FD == -1
Nobody == "nobody"

File == {"none", "stdin", "timer", "listen", "conn", "sock"}
LoopType == {"timer", "father", "son", "normal"}

Watcher == [type : LoopType \cup {"none"}, user : User \cup {Nobody}]

NoWatcher == [type |-> "none", user |-> Nobody]

Loop == [file : [Fds -> File], epoll : SUBSET Fds, watcher : [Fds -> Watcher]]

-----------------------------------------------------------------------------
(* The kernel.                                                             *)

IsFree(l, fd) ==
  /\ l.file[fd] = "none"
  /\ \A lower \in Fds : lower < fd => l.file[lower] # "none"

Full(l) == \A fd \in Fds : l.file[fd] # "none"

Open(l, fd, file) == [l EXCEPT !.file[fd] = file]

(* INVALID_FD is not a descriptor: to close it does nothing.                *)
os_close(l, gone) ==
  [l EXCEPT !.file = [fd \in Fds |-> IF fd \in gone THEN "none"
                                     ELSE l.file[fd]],
            !.epoll = @ \ gone]

-----------------------------------------------------------------------------
(* The table.                                                              *)

is_watched(l, fd) == l.watcher[fd].type # "none"

os_loop_add(l, fd, type, user) ==
  IF is_watched(l, fd) THEN l
  ELSE [l EXCEPT !.watcher[fd] = [type |-> type, user |-> user],
                 !.epoll = @ \cup {fd}]

WatchedOf(l, fds) == {fd \in fds \cap Fds : is_watched(l, fd)}

(* Mutant: the destructor closes the descriptor and keeps its number.       *)
DelKeepWatcher(l, gone) == os_close(l, WatchedOf(l, gone))

(* The destructor of a watcher closes its descriptor.                       *)
os_loop_del_watcher(l, gone) ==
  [os_close(l, WatchedOf(l, gone)) EXCEPT
     !.watcher = [fd \in Fds |-> IF fd \in gone THEN NoWatcher
                                 ELSE l.watcher[fd]]]

StdinFd == 0
TimerFd == 1
ListenFd == 2

(* After init: a timer, and a father that accepts clients.  Of what the     *)
(* daemon was started with only descriptor 0 matters: no watcher has it.    *)
LoopInit ==
  /\ loop = [file |-> [fd \in Fds |-> CASE fd = StdinFd -> "stdin"
                                        [] fd = TimerFd -> "timer"
                                        [] fd = ListenFd -> "listen"
                                        [] OTHER -> "none"],
             epoll |-> {TimerFd, ListenFd},
             watcher |-> [fd \in Fds |->
                CASE fd = TimerFd -> [type |-> "timer", user |-> Nobody]
                  [] fd = ListenFd -> [type |-> "father", user |-> Nobody]
                  [] OTHER -> NoWatcher]]
  /\ batch = <<>>

-----------------------------------------------------------------------------
(* __loop_handle: the events of epoll_wait, each descriptor once.           *)
Wait ==
  /\ batch = <<>>
  /\ \E n \in 1 .. BatchMax :
       batch' \in {b \in [1 .. n -> loop.epoll] :
                     \A i, j \in 1 .. n : b[i] = b[j] => i = j}
  /\ UNCHANGED loop

(* __loop_handle_ev: the next event goes to the watcher its number has now. *)
Event(fd, type) ==
  /\ batch # <<>>
  /\ fd = Head(batch)
  /\ loop.watcher[fd].type = type
  /\ batch' = Tail(batch)

(* No watcher has the number any more.                                      *)
Skip == \E fd \in Fds : Event(fd, "none") /\ UNCHANGED loop

(* Whether or not its number can be watched, the son stays open.            *)
Accept ==
  \E fd \in Fds :
    /\ Event(fd, "father")
    /\ \/ \E son \in Fds :
            /\ IsFree(loop, son)
            /\ loop' = os_loop_add(Open(loop, son, "conn"), son, "son",
                                   loop.watcher[fd].user)
       \/ Full(loop) /\ UNCHANGED loop

=============================================================================
