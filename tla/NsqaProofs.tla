----------------------------- MODULE NsqaProofs -----------------------------
(* Proofs about Nsqa and the event loop under it, for any number of        *)
(* instances and descriptors, and batches of any length.                   *)
EXTENDS Nsqa, TLAPS

Instances == [Name -> Instance \cup {NoInstance}]

(***************************************************************************)
(* The inductive invariant, of a loop l, the batch b still to be handled   *)
(* and the instances i: handlers change them one after the other.          *)
(***************************************************************************)
Typed(l, b, i) == l \in Loop /\ b \in Seq(Fds) /\ i \in Instances

(* A socket, or number 0 after it was closed under its instance.            *)
Held(l, fd) ==
  \/ l.file[fd] = "sock" /\ fd \in l.epoll
  \/ fd = StdinFd /\ fd \notin l.epoll

Owned(l, i) ==
  \A n \in Name :
    i[n].fd # INVALID_FD =>
      /\ l.watcher[i[n].fd] = [type |-> "normal", user |-> n]
      /\ Held(l, i[n].fd)

(* What a normal watcher hands out is an instance.                          *)
Handed(l) ==
  \A fd \in Fds : l.watcher[fd].type = "normal" => l.watcher[fd].user \in Name

(* A descriptor the kernel reports belongs to the instance it is handed to. *)
IsOwn(l, i, fd) ==
  l.watcher[fd].type = "normal" => i[l.watcher[fd].user].fd = fd

Registered(l, i) == \A fd \in l.epoll : l.file[fd] # "none" /\ IsOwn(l, i, fd)

Batched(l, b, i) == \A k \in 1 .. Len(b) : IsOwn(l, i, b[k])

Once(b) == \A j, k \in 1 .. Len(b) : b[j] = b[k] => j = k

(* A number that is free and still watched was left by its instance, or is  *)
(* 0 and was closed under whatever had it.                                  *)
Stale(l, i, fd) ==
  /\ fd \notin l.epoll
  /\ \/ l.watcher[fd].type = "normal" /\ i[l.watcher[fd].user].fd # fd
     \/ fd = StdinFd /\ is_watched(l, fd)

Left(l, i) ==
  \A fd \in Fds : l.file[fd] = "none" /\ is_watched(l, fd) => Stale(l, i, fd)

Served(l, i) ==
  \A fd \in Fds :
    l.file[fd] = "conn" =>
      \/ fd \in l.epoll /\ l.watcher[fd].type = "son"
      \/ Stale(l, i, fd)

Sound(l, b, i) ==
  /\ Typed(l, b, i)
  /\ Owned(l, i)
  /\ Handed(l)
  /\ Registered(l, i)
  /\ Batched(l, b, i)
  /\ Once(b)
  /\ Left(l, i)
  /\ Served(l, i)

-----------------------------------------------------------------------------
(* Descriptors.                                                            *)

LEMMA InvalidFd == INVALID_FD \notin Fds
BY DEF INVALID_FD, Fds

LEMMA FdType ==
  ASSUME NEW i \in Instances, NEW n \in Name
  PROVE  i[n].fd \in Fds \cup {INVALID_FD}
PROOF
<1>1. i[n] \in Instance \/ i[n] = NoInstance
  BY DEF Instances
<1> QED BY <1>1 DEF Instance, NoInstance

LEMMA CloseIs ==
  ASSUME NEW l \in Loop, NEW gone
  PROVE  /\ os_close(l, gone) \in Loop
         /\ os_close(l, gone).watcher = l.watcher
         /\ os_close(l, gone).epoll = l.epoll \ gone
         /\ \A fd \in Fds :
              os_close(l, gone).file[fd] = IF fd \in gone THEN "none" ELSE l.file[fd]
BY DEF os_close, Loop, File

LEMMA DelIs ==
  ASSUME NEW l \in Loop, NEW gone
  PROVE  LET d == os_loop_del_watcher(l, gone)
         IN  /\ d \in Loop
             /\ d.epoll = l.epoll \ WatchedOf(l, gone)
             /\ \A fd \in Fds :
                  /\ d.file[fd] = IF fd \in WatchedOf(l, gone) THEN "none"
                                  ELSE l.file[fd]
                  /\ d.watcher[fd] = IF fd \in gone THEN NoWatcher
                                     ELSE l.watcher[fd]
PROOF
<1> DEFINE c == os_close(l, WatchedOf(l, gone))
           w == [fd \in Fds |-> IF fd \in gone THEN NoWatcher ELSE l.watcher[fd]]
<1>1. /\ c \in Loop
      /\ c.epoll = l.epoll \ WatchedOf(l, gone)
      /\ \A fd \in Fds :
           c.file[fd] = IF fd \in WatchedOf(l, gone) THEN "none" ELSE l.file[fd]
  BY CloseIs
<1>2. w \in [Fds -> Watcher]
  BY DEF Loop, Watcher, NoWatcher
<1>3. os_loop_del_watcher(l, gone) = [c EXCEPT !.watcher = w]
  BY DEF os_loop_del_watcher
<1> HIDE DEF c, w
<1>4. LET d == [c EXCEPT !.watcher = w]
      IN  d \in Loop /\ d.epoll = c.epoll /\ d.file = c.file /\ d.watcher = w
  BY <1>1, <1>2 DEF Loop
<1>5. \A fd \in Fds : w[fd] = IF fd \in gone THEN NoWatcher ELSE l.watcher[fd]
  BY DEF w
<1> QED BY <1>1, <1>3, <1>4, <1>5

LEMMA AddIs ==
  ASSUME NEW l \in Loop, NEW fd \in Fds, NEW file \in File, ~ is_watched(l, fd),
         NEW type \in LoopType, NEW user \in User \cup {Nobody}
  PROVE  LET d == os_loop_add(Open(l, fd, file), fd, type, user)
         IN  /\ d \in Loop
             /\ d.epoll = l.epoll \cup {fd}
             /\ \A g \in Fds :
                  /\ d.file[g] = IF g = fd THEN file ELSE l.file[g]
                  /\ d.watcher[g] = IF g = fd THEN [type |-> type, user |-> user]
                                    ELSE l.watcher[g]
PROOF
<1> DEFINE o == Open(l, fd, file)
           w == [type |-> type, user |-> user]
<1>1. /\ o \in Loop /\ o.epoll = l.epoll /\ o.watcher = l.watcher
      /\ \A g \in Fds : o.file[g] = IF g = fd THEN file ELSE l.file[g]
  BY DEF Open, Loop
<1>2. w \in Watcher
  BY DEF Watcher
<1> HIDE DEF o, w
<1>3. ~ is_watched(o, fd)
  BY <1>1 DEF is_watched
<1>4. os_loop_add(o, fd, type, user)
        = [o EXCEPT !.watcher[fd] = w, !.epoll = @ \cup {fd}]
  BY <1>3 DEF os_loop_add, w
<1>5. LET d == [o EXCEPT !.watcher[fd] = w, !.epoll = @ \cup {fd}]
      IN  /\ d \in Loop
          /\ d.epoll = o.epoll \cup {fd}
          /\ d.file = o.file
          /\ \A g \in Fds : d.watcher[g] = IF g = fd THEN w ELSE o.watcher[g]
  BY <1>1, <1>2 DEF Loop
<1> QED BY <1>1, <1>4, <1>5 DEF o, w

LEMMA TailIs ==
  ASSUME NEW b \in Seq(Fds), b # <<>>
  PROVE  /\ Tail(b) \in Seq(Fds)
         /\ Head(b) \in Fds /\ Head(b) = b[1]
         /\ Len(Tail(b)) = Len(b) - 1 /\ Len(b) \in Nat \ {0}
         /\ \A k \in 1 .. Len(Tail(b)) : Tail(b)[k] = b[k + 1] /\ k + 1 \in 1 .. Len(b)
OBVIOUS

(* One event is taken from the batch, and is not in it again.               *)
LEMMA Taken ==
  ASSUME NEW l, NEW b, NEW i, Sound(l, b, i), b # <<>>
  PROVE  /\ Sound(l, Tail(b), i)
         /\ Head(b) \in Fds
         /\ IsOwn(l, i, Head(b))
         /\ \A k \in 1 .. Len(Tail(b)) : Tail(b)[k] # Head(b)
PROOF
<1>1. /\ Tail(b) \in Seq(Fds)
      /\ Head(b) \in Fds /\ Head(b) = b[1]
      /\ Len(Tail(b)) = Len(b) - 1 /\ Len(b) \in Nat \ {0}
      /\ \A k \in 1 .. Len(Tail(b)) : Tail(b)[k] = b[k + 1] /\ k + 1 \in 1 .. Len(b)
  BY TailIs DEF Sound, Typed
<1>2. 1 \in 1 .. Len(b)
  BY <1>1
<1>3. \A k \in 1 .. Len(Tail(b)) : Tail(b)[k] # Head(b)
  <2> TAKE k \in 1 .. Len(Tail(b))
  <2>1. k + 1 # 1 /\ k + 1 \in 1 .. Len(b)
    BY <1>1
  <2> QED BY <1>1, <1>2, <2>1 DEF Sound, Once
<1>4. Once(Tail(b))
  <2> SUFFICES ASSUME NEW j \in 1 .. Len(Tail(b)), NEW k \in 1 .. Len(Tail(b)),
                      Tail(b)[j] = Tail(b)[k]
               PROVE  j = k
    BY DEF Once
  <2>1. b[j + 1] = b[k + 1] /\ j + 1 \in 1 .. Len(b) /\ k + 1 \in 1 .. Len(b)
    BY <1>1
  <2>2. j + 1 = k + 1
    BY <2>1 DEF Sound, Once
  <2> QED BY <2>2
<1>5. Batched(l, Tail(b), i) /\ IsOwn(l, i, Head(b))
  BY <1>1, <1>2 DEF Sound, Batched
<1> QED BY <1>1, <1>3, <1>4, <1>5 DEF Sound, Typed

-----------------------------------------------------------------------------
(* What the handlers do to the table.                                      *)

(* A client that was answered is deleted: no instance had its number.       *)
LEMMA SonDeleted ==
  ASSUME NEW l, NEW b, NEW i, Sound(l, b, i),
         NEW fd \in Fds, l.watcher[fd].type = "son"
  PROVE  Sound(os_loop_del_watcher(l, {fd}), b, i)
PROOF
<1> DEFINE d == os_loop_del_watcher(l, {fd})
<1>1. l \in Loop /\ b \in Seq(Fds) /\ i \in Instances
  BY DEF Sound, Typed
<1>2. WatchedOf(l, {fd}) = {fd}
  BY DEF WatchedOf, is_watched
<1>3. /\ d \in Loop
      /\ d.epoll = l.epoll \ {fd}
      /\ \A g \in Fds : /\ d.file[g] = IF g = fd THEN "none" ELSE l.file[g]
                        /\ d.watcher[g] = IF g = fd THEN NoWatcher ELSE l.watcher[g]
  <2>1. LET e == os_loop_del_watcher(l, {fd})
        IN  /\ e \in Loop
            /\ e.epoll = l.epoll \ WatchedOf(l, {fd})
            /\ \A g \in Fds :
                 /\ e.file[g] = IF g \in WatchedOf(l, {fd}) THEN "none"
                                ELSE l.file[g]
                 /\ e.watcher[g] = IF g \in {fd} THEN NoWatcher ELSE l.watcher[g]
    BY <1>1, DelIs
  <2> QED BY <1>2, <2>1
<1> HIDE DEF d
<1>4. \A n \in Name : i[n].fd # fd /\ i[n].fd \in Fds \cup {INVALID_FD}
  <2> SUFFICES ASSUME NEW n \in Name PROVE i[n].fd # fd
    BY <1>1, FdType
  <2>1. ASSUME i[n].fd = fd PROVE FALSE
    <3>1. l.watcher[fd] = [type |-> "normal", user |-> n]
      BY <2>1, InvalidFd DEF Sound, Owned
    <3>2. l.watcher[fd].type = "normal"
      BY <3>1
    <3> QED BY <3>2
  <2> QED BY <2>1
<1>5. Owned(d, i)
  BY <1>3, <1>4 DEF Sound, Owned, Held
<1>6. Handed(d)
  BY <1>3 DEF Sound, Handed, NoWatcher
<1>7. \A g \in Fds : IsOwn(l, i, g) => IsOwn(d, i, g)
  BY <1>3 DEF IsOwn, NoWatcher
<1>8. Registered(d, i)
  BY <1>1, <1>3, <1>7 DEF Sound, Registered, Loop
<1>9. Batched(d, b, i)
  BY <1>1, <1>7 DEF Sound, Batched
<1>10. Left(d, i)
  BY <1>3 DEF Sound, Left, Stale, is_watched, NoWatcher
<1>11. Served(d, i)
  BY <1>3 DEF Sound, Served, Stale, is_watched
<1> QED BY <1>1, <1>3, <1>5, <1>6, <1>8, <1>9, <1>10, <1>11 DEF Sound, Typed, d

(* A new client gets the lowest free number, watched or not.                *)
LEMMA Accepted ==
  ASSUME NEW l, NEW b, NEW i, Sound(l, b, i),
         NEW son \in Fds, IsFree(l, son), NEW user \in User \cup {Nobody}
  PROVE  Sound(os_loop_add(Open(l, son, "conn"), son, "son", user), b, i)
PROOF
<1> DEFINE d == os_loop_add(Open(l, son, "conn"), son, "son", user)
           w == IF is_watched(l, son) THEN l.watcher[son]
                ELSE [type |-> "son", user |-> user]
<1>1. l \in Loop /\ b \in Seq(Fds) /\ i \in Instances /\ l.file[son] = "none"
  BY DEF Sound, Typed, IsFree
<1>2. w \in Watcher
  BY <1>1 DEF Loop, Watcher, LoopType
<1>3. /\ d \in Loop
      /\ d.epoll = IF is_watched(l, son) THEN l.epoll ELSE l.epoll \cup {son}
      /\ \A g \in Fds : /\ d.file[g] = IF g = son THEN "conn" ELSE l.file[g]
                        /\ d.watcher[g] = IF g = son THEN w ELSE l.watcher[g]
  <2>1. CASE is_watched(l, son)
    <3>1. is_watched(Open(l, son, "conn"), son)
      BY <1>1, <2>1 DEF is_watched, Open, Loop
    <3>2. d = Open(l, son, "conn")
      BY <3>1 DEF os_loop_add
    <3> QED BY <1>1, <2>1, <3>2 DEF Open, Loop, File
  <2>2. CASE ~ is_watched(l, son)
    <3> DEFINE e == os_loop_add(Open(l, son, "conn"), son, "son", user)
    <3>1. "conn" \in File /\ "son" \in LoopType
      BY DEF File, LoopType
    <3>2. /\ e \in Loop
          /\ e.epoll = l.epoll \cup {son}
          /\ \A g \in Fds :
               /\ e.file[g] = IF g = son THEN "conn" ELSE l.file[g]
               /\ e.watcher[g] = IF g = son THEN [type |-> "son", user |-> user]
                                 ELSE l.watcher[g]
      BY <1>1, <2>2, <3>1, AddIs
    <3> QED BY <2>2, <3>2
  <2> QED BY <2>1, <2>2
<1>4. /\ (is_watched(l, son) => Stale(l, i, son))
      /\ (is_watched(l, son) => w = l.watcher[son])
      /\ (~ is_watched(l, son) => w.type = "son")
  BY <1>1 DEF Sound, Left
<1> HIDE DEF d, w
<1>5. \A n \in Name : i[n].fd # INVALID_FD => i[n].fd \in Fds
  BY <1>1, FdType
<1>6. Owned(d, i)
  <2> SUFFICES ASSUME NEW n \in Name, i[n].fd # INVALID_FD
               PROVE  /\ d.watcher[i[n].fd] = [type |-> "normal", user |-> n]
                      /\ Held(d, i[n].fd)
    BY DEF Owned
  <2>1. /\ i[n].fd \in Fds
        /\ l.watcher[i[n].fd] = [type |-> "normal", user |-> n]
        /\ Held(l, i[n].fd)
    BY <1>5 DEF Sound, Owned
  <2>2. CASE i[n].fd = son
    <3>1. l.watcher[son].type = "normal"
      BY <2>1, <2>2
    <3>2. is_watched(l, son)
      BY <3>1 DEF is_watched
    <3>3. son = StdinFd /\ son \notin l.epoll
      BY <1>1, <2>1, <2>2 DEF Held
    <3> QED BY <1>3, <1>4, <2>1, <2>2, <3>2, <3>3 DEF Held
  <2>3. CASE i[n].fd # son
    BY <1>3, <2>1, <2>3 DEF Held
  <2> QED BY <2>2, <2>3
<1>7. Handed(d)
  BY <1>3, <1>4 DEF Sound, Handed
<1>8. \A g \in Fds : IsOwn(l, i, g) => IsOwn(d, i, g)
  BY <1>3, <1>4 DEF IsOwn
<1>9. Registered(d, i)
  <2> SUFFICES ASSUME NEW g \in d.epoll PROVE d.file[g] # "none" /\ IsOwn(d, i, g)
    BY DEF Registered
  <2>1. CASE g = son
    <3>1. is_watched(l, son) => son \notin l.epoll
      BY <1>1 DEF Sound, Registered
    <3>2. ~ is_watched(l, son)
      BY <1>3, <2>1, <3>1
    <3> QED BY <1>3, <1>4, <2>1, <3>2 DEF IsOwn
  <2>2. CASE g # son
    <3>1. g \in l.epoll /\ g \in Fds
      BY <1>1, <1>3, <2>2 DEF Loop
    <3> QED BY <1>3, <1>8, <2>2, <3>1 DEF Sound, Registered
  <2> QED BY <2>1, <2>2
<1>10. Batched(d, b, i)
  BY <1>1, <1>8 DEF Sound, Batched
<1>11. Left(d, i)
  BY <1>3 DEF Sound, Left, Stale, is_watched
<1>12. Served(d, i)
  <2> SUFFICES ASSUME NEW g \in Fds, d.file[g] = "conn"
               PROVE  (g \in d.epoll /\ d.watcher[g].type = "son") \/ Stale(d, i, g)
    BY DEF Served
  <2>1. CASE g = son
    BY <1>3, <1>4, <2>1 DEF Stale, is_watched
  <2>2. CASE g # son
    BY <1>3, <2>2 DEF Sound, Served, Stale, is_watched
  <2> QED BY <2>1, <2>2
<1> QED BY <1>1, <1>3, <1>6, <1>7, <1>9, <1>10, <1>11, <1>12 DEF Sound, Typed, d

(* A new instance gets a number that is neither used nor watched.           *)
LEMMA Inserted ==
  ASSUME NEW l, NEW b, NEW i, Sound(l, b, i), NEW n \in Name, i[n] = NoInstance,
         NEW sock \in Fds, IsFree(l, sock), ~ is_watched(l, sock)
  PROVE  Sound(os_loop_add(Open(l, sock, "sock"), sock, "normal", n), b,
               [i EXCEPT ![n] = Fresh(sock)])
PROOF
<1> DEFINE d == os_loop_add(Open(l, sock, "sock"), sock, "normal", n)
           j == [i EXCEPT ![n] = Fresh(sock)]
           w == [type |-> "normal", user |-> n]
<1>1. l \in Loop /\ b \in Seq(Fds) /\ i \in Instances /\ l.file[sock] = "none"
  BY DEF Sound, Typed, IsFree
<1>2. w \in Watcher
  BY DEF Watcher, LoopType, Name
<1>3. /\ d \in Loop
      /\ d.epoll = l.epoll \cup {sock}
      /\ \A g \in Fds : /\ d.file[g] = IF g = sock THEN "sock" ELSE l.file[g]
                        /\ d.watcher[g] = IF g = sock THEN w ELSE l.watcher[g]
  <2>1. "sock" \in File /\ "normal" \in LoopType /\ n \in User \cup {Nobody}
    BY DEF File, LoopType, Name
  <2> QED BY <1>1, <2>1, AddIs
<1>4. Fresh(sock) \in Instance /\ Fresh(sock).fd = sock
  BY DEF Fresh, NoInstance, Instance, Fsm
<1>5. /\ j \in Instances
      /\ j[n].fd = sock
      /\ \A m \in Name : m # n => j[m] = i[m]
  BY <1>1, <1>4 DEF Instances
<1> HIDE DEF d, j
<1>6. /\ i[n].fd = INVALID_FD
      /\ \A m \in Name : i[m].fd # sock /\ i[m].fd \in Fds \cup {INVALID_FD}
  <2>1. i[n].fd = INVALID_FD
    BY DEF NoInstance
  <2>2. ASSUME NEW m \in Name, i[m].fd = sock PROVE FALSE
    <3>1. l.watcher[sock] = [type |-> "normal", user |-> m]
      BY <2>2, InvalidFd DEF Sound, Owned
    <3>2. l.watcher[sock].type = "normal"
      BY <3>1
    <3> QED BY <3>2 DEF is_watched
  <2> QED BY <1>1, <2>1, <2>2, FdType
<1>7. Owned(d, j)
  <2> SUFFICES ASSUME NEW m \in Name, j[m].fd # INVALID_FD
               PROVE  /\ d.watcher[j[m].fd] = [type |-> "normal", user |-> m]
                      /\ Held(d, j[m].fd)
    BY DEF Owned
  <2>1. CASE m = n
    BY <1>3, <1>5, <2>1 DEF Held
  <2>2. CASE m # n
    <3>1. /\ i[m].fd # sock /\ i[m].fd \in Fds /\ j[m].fd = i[m].fd
          /\ l.watcher[i[m].fd] = [type |-> "normal", user |-> m]
          /\ Held(l, i[m].fd)
      BY <1>5, <1>6, <2>2 DEF Sound, Owned
    <3> QED BY <1>3, <3>1 DEF Held
  <2> QED BY <2>1, <2>2
<1>8. Handed(d)
  BY <1>3 DEF Sound, Handed
<1>9. \A g \in Fds : IsOwn(l, i, g) => IsOwn(d, j, g)
  <2> SUFFICES ASSUME NEW g \in Fds, IsOwn(l, i, g), d.watcher[g].type = "normal"
               PROVE  j[d.watcher[g].user].fd = g
    BY DEF IsOwn
  <2>1. CASE g = sock
    BY <1>3, <1>5, <2>1
  <2>2. CASE g # sock
    <3>1. d.watcher[g] = l.watcher[g] /\ l.watcher[g].user \in Name
      BY <1>3, <2>2 DEF Sound, Handed
    <3>2. i[l.watcher[g].user].fd = g
      BY <3>1 DEF IsOwn
    <3>3. l.watcher[g].user # n
      BY <1>6, <3>2, InvalidFd
    <3> QED BY <1>5, <3>1, <3>2, <3>3
  <2> QED BY <2>1, <2>2
<1>10. Registered(d, j)
  <2> SUFFICES ASSUME NEW g \in d.epoll PROVE d.file[g] # "none" /\ IsOwn(d, j, g)
    BY DEF Registered
  <2>1. CASE g = sock
    BY <1>3, <1>5, <2>1 DEF IsOwn
  <2>2. CASE g # sock
    <3>1. g \in l.epoll /\ g \in Fds
      BY <1>1, <1>3, <2>2 DEF Loop
    <3> QED BY <1>3, <1>9, <2>2, <3>1 DEF Sound, Registered
  <2> QED BY <2>1, <2>2
<1>11. Batched(d, b, j)
  BY <1>1, <1>9 DEF Sound, Batched
<1>12. \A g \in Fds : g # sock /\ Stale(l, i, g) => Stale(d, j, g)
  <2> SUFFICES ASSUME NEW g \in Fds, g # sock, Stale(l, i, g) PROVE Stale(d, j, g)
    OBVIOUS
  <2>1. d.watcher[g] = l.watcher[g] /\ g \notin d.epoll
    BY <1>3 DEF Stale
  <2>2. CASE g = StdinFd /\ is_watched(l, g)
    BY <2>1, <2>2 DEF Stale, is_watched
  <2>3. CASE l.watcher[g].type = "normal" /\ i[l.watcher[g].user].fd # g
    <3>1. l.watcher[g].user \in Name
      BY <2>3 DEF Sound, Handed
    <3> QED BY <1>5, <2>1, <2>3, <3>1 DEF Stale
  <2> QED BY <2>2, <2>3 DEF Stale
<1>13. Left(d, j)
  BY <1>3, <1>12 DEF Sound, Left, is_watched
<1>14. Served(d, j)
  BY <1>3, <1>12 DEF Sound, Served
<1> QED BY <1>1, <1>3, <1>5, <1>7, <1>8, <1>10, <1>11, <1>13, <1>14 DEF Sound, Typed, d, j

(* Instances that are removed take their descriptors and watchers along.    *)
LEMMA Destroyed ==
  ASSUME NEW b, Sound(loop, b, inst), NEW names \in SUBSET Name
  PROVE  Sound(__nsqi_destroy(loop, names), b,
               [n \in Name |-> IF n \in names THEN NoInstance ELSE inst[n]])
PROOF
<1> DEFINE gone == FdsOf(names)
           e == os_loop_del_watcher(loop, gone)
           d == os_close(e, gone)
           j == [n \in Name |-> IF n \in names THEN NoInstance ELSE inst[n]]
<1>1. loop \in Loop /\ b \in Seq(Fds) /\ inst \in Instances
  BY DEF Sound, Typed
<1>2. /\ e \in Loop
      /\ e.epoll = loop.epoll \ WatchedOf(loop, gone)
      /\ \A g \in Fds :
           /\ e.file[g] = IF g \in WatchedOf(loop, gone) THEN "none" ELSE loop.file[g]
           /\ e.watcher[g] = IF g \in gone THEN NoWatcher ELSE loop.watcher[g]
  BY <1>1, DelIs
<1> HIDE DEF e
<1>3. /\ d \in Loop
      /\ d.watcher = e.watcher
      /\ d.epoll = e.epoll \ gone
      /\ \A g \in Fds : d.file[g] = IF g \in gone THEN "none" ELSE e.file[g]
  BY <1>2, CloseIs
<1> HIDE DEF d
<1>4. /\ d.epoll = loop.epoll \ gone
      /\ \A g \in Fds :
           /\ d.file[g] = IF g \in gone THEN "none" ELSE loop.file[g]
           /\ d.watcher[g] = IF g \in gone THEN NoWatcher ELSE loop.watcher[g]
  BY <1>2, <1>3 DEF WatchedOf
<1>5. /\ j \in Instances
      /\ \A n \in Name : j[n] = IF n \in names THEN NoInstance ELSE inst[n]
  BY <1>1 DEF Instances
<1> HIDE DEF j
<1>6. \A n \in Name : j[n].fd # INVALID_FD => n \notin names /\ j[n] = inst[n]
  BY <1>5 DEF NoInstance
<1>7. ASSUME NEW n \in Name, n \notin names, inst[n].fd # INVALID_FD
      PROVE  inst[n].fd \notin gone /\ inst[n].fd \in Fds
  <2>1. inst[n].fd \in Fds
    BY <1>1, <1>7, FdType
  <2>2. ASSUME NEW m \in names, inst[m].fd = inst[n].fd PROVE FALSE
    <3>1. m \in Name
      OBVIOUS
    <3>2. /\ loop.watcher[inst[n].fd] = [type |-> "normal", user |-> n]
          /\ loop.watcher[inst[n].fd] = [type |-> "normal", user |-> m]
      BY <1>7, <2>2, <3>1 DEF Sound, Owned
    <3>3. loop.watcher[inst[n].fd].user = n /\ loop.watcher[inst[n].fd].user = m
      BY <3>2
    <3> QED BY <1>7, <3>3
  <2> QED BY <2>1, <2>2 DEF FdsOf
<1>8. Owned(d, j)
  <2> SUFFICES ASSUME NEW n \in Name, j[n].fd # INVALID_FD
               PROVE  /\ d.watcher[j[n].fd] = [type |-> "normal", user |-> n]
                      /\ Held(d, j[n].fd)
    BY DEF Owned
  <2>1. n \notin names /\ j[n] = inst[n] /\ inst[n].fd # INVALID_FD
    BY <1>6
  <2>2. inst[n].fd \notin gone /\ inst[n].fd \in Fds
    BY <1>7, <2>1
  <2>3. /\ loop.watcher[inst[n].fd] = [type |-> "normal", user |-> n]
        /\ Held(loop, inst[n].fd)
    BY <2>1 DEF Sound, Owned
  <2> QED BY <1>4, <2>1, <2>2, <2>3 DEF Held
<1>9. Handed(d)
  BY <1>4 DEF Sound, Handed, NoWatcher
(* A watcher that stays hands out an instance that stays, or that had       *)
(* already lost its descriptor.                                             *)
<1>10. \A g \in Fds : g \notin gone /\ IsOwn(loop, inst, g) => IsOwn(d, j, g)
  <2> SUFFICES ASSUME NEW g \in Fds, g \notin gone, IsOwn(loop, inst, g),
                      d.watcher[g].type = "normal"
               PROVE  j[d.watcher[g].user].fd = g
    BY DEF IsOwn
  <2>1. d.watcher[g] = loop.watcher[g] /\ loop.watcher[g].user \in Name
    BY <1>4 DEF Sound, Handed
  <2>2. inst[loop.watcher[g].user].fd = g
    BY <2>1 DEF IsOwn
  <2>3. loop.watcher[g].user \notin names
    BY <2>2 DEF FdsOf
  <2> QED BY <1>5, <2>1, <2>2, <2>3
<1>11. \A g \in gone : g \in Fds => d.watcher[g] = NoWatcher /\ g \notin d.epoll
  BY <1>4
<1>12. Registered(d, j)
  BY <1>1, <1>4, <1>10 DEF Sound, Registered, Loop
<1>13. Batched(d, b, j)
  <2> SUFFICES ASSUME NEW k \in 1 .. Len(b) PROVE IsOwn(d, j, b[k])
    BY DEF Batched
  <2>1. b[k] \in Fds /\ IsOwn(loop, inst, b[k])
    BY <1>1 DEF Sound, Batched
  <2>2. CASE b[k] \in gone
    BY <1>11, <2>1, <2>2 DEF IsOwn, NoWatcher
  <2> QED BY <1>10, <2>1, <2>2
<1>14. \A g \in Fds : g \notin gone /\ Stale(loop, inst, g) => Stale(d, j, g)
  <2> SUFFICES ASSUME NEW g \in Fds, g \notin gone, Stale(loop, inst, g)
               PROVE  Stale(d, j, g)
    OBVIOUS
  <2>1. d.watcher[g] = loop.watcher[g] /\ g \notin d.epoll /\ g # INVALID_FD
    BY <1>4, InvalidFd DEF Stale
  <2>2. CASE g = StdinFd /\ is_watched(loop, g)
    BY <2>1, <2>2 DEF Stale, is_watched
  <2>3. CASE loop.watcher[g].type = "normal" /\ inst[loop.watcher[g].user].fd # g
    <3>1. loop.watcher[g].user \in Name
      BY <2>3 DEF Sound, Handed
    <3> QED BY <1>5, <2>1, <2>3, <3>1 DEF Stale, NoInstance
  <2> QED BY <2>2, <2>3 DEF Stale
<1>15. Left(d, j)
  <2> SUFFICES ASSUME NEW g \in Fds, d.file[g] = "none", is_watched(d, g)
               PROVE  Stale(d, j, g)
    BY DEF Left
  <2>1. g \notin gone
    BY <1>11 DEF is_watched, NoWatcher
  <2>2. loop.file[g] = "none" /\ is_watched(loop, g)
    BY <1>4, <2>1 DEF is_watched
  <2> QED BY <1>14, <2>1, <2>2 DEF Sound, Left
<1>16. Served(d, j)
  <2> SUFFICES ASSUME NEW g \in Fds, d.file[g] = "conn"
               PROVE  (g \in d.epoll /\ d.watcher[g].type = "son") \/ Stale(d, j, g)
    BY DEF Served
  <2>1. g \notin gone /\ loop.file[g] = "conn"
    BY <1>4
  <2>2. (g \in loop.epoll /\ loop.watcher[g].type = "son") \/ Stale(loop, inst, g)
    BY <2>1 DEF Sound, Served
  <2> QED BY <1>4, <1>14, <2>1, <2>2
<1>17. __nsqi_destroy(loop, names) = d
  BY DEF __nsqi_destroy, d, e
<1> QED BY <1>1, <1>3, <1>5, <1>8, <1>9, <1>12, <1>13, <1>15, <1>16, <1>17
        DEF Sound, Typed, j

(* The receiver closes the descriptor whose event it handles, which is not  *)
(* in the batch again; the watcher stays.                                   *)
LEMMA Confused ==
  ASSUME NEW l, NEW b, NEW i, Sound(l, b, i), NEW n \in Name, NEW fd \in Fds,
         i[n].fd = fd, \A k \in 1 .. Len(b) : b[k] # fd,
         NEW c \in Instance, c.fd = INVALID_FD
  PROVE  Sound(os_close(l, {fd}), b, [i EXCEPT ![n] = c])
PROOF
<1> DEFINE d == os_close(l, {fd})
           j == [i EXCEPT ![n] = c]
<1>1. l \in Loop /\ b \in Seq(Fds) /\ i \in Instances
  BY DEF Sound, Typed
<1>2. /\ d \in Loop
      /\ d.watcher = l.watcher
      /\ d.epoll = l.epoll \ {fd}
      /\ \A g \in Fds : d.file[g] = IF g = fd THEN "none" ELSE l.file[g]
  BY <1>1, CloseIs
<1>3. j \in Instances /\ j[n] = c /\ \A m \in Name : m # n => j[m] = i[m]
  BY <1>1 DEF Instances
<1> HIDE DEF d, j
<1>4. l.watcher[fd] = [type |-> "normal", user |-> n]
  BY InvalidFd DEF Sound, Owned
<1>5. l.watcher[fd].user = n
  BY <1>4
<1>6. Owned(d, j)
  <2> SUFFICES ASSUME NEW m \in Name, j[m].fd # INVALID_FD
               PROVE  /\ d.watcher[j[m].fd] = [type |-> "normal", user |-> m]
                      /\ Held(d, j[m].fd)
    BY DEF Owned
  <2>1. m # n /\ j[m] = i[m]
    BY <1>3
  <2>2. /\ l.watcher[i[m].fd] = [type |-> "normal", user |-> m]
        /\ Held(l, i[m].fd)
    BY <2>1 DEF Sound, Owned
  <2>3. l.watcher[i[m].fd].user = m
    BY <2>2
  <2>4. i[m].fd # fd
    BY <1>5, <2>1, <2>3
  <2>5. i[m].fd \in Fds
    BY <1>1, <2>1, FdType
  <2> QED BY <1>2, <2>1, <2>2, <2>4, <2>5 DEF Held
<1>7. Handed(d)
  BY <1>2 DEF Sound, Handed
<1>8. \A g \in Fds : g # fd /\ IsOwn(l, i, g) => IsOwn(d, j, g)
  <2> SUFFICES ASSUME NEW g \in Fds, g # fd, IsOwn(l, i, g),
                      l.watcher[g].type = "normal"
               PROVE  j[l.watcher[g].user].fd = g
    BY <1>2 DEF IsOwn
  <2>1. l.watcher[g].user \in Name /\ i[l.watcher[g].user].fd = g
    BY DEF Sound, Handed, IsOwn
  <2>2. l.watcher[g].user # n
    BY <2>1
  <2> QED BY <1>3, <2>1, <2>2
<1>9. Registered(d, j)
  <2> SUFFICES ASSUME NEW g \in d.epoll PROVE d.file[g] # "none" /\ IsOwn(d, j, g)
    BY DEF Registered
  <2>1. g \in l.epoll /\ g # fd /\ g \in Fds
    BY <1>1, <1>2 DEF Loop
  <2> QED BY <1>2, <1>8, <2>1 DEF Sound, Registered
<1>10. Batched(d, b, j)
  <2> SUFFICES ASSUME NEW k \in 1 .. Len(b) PROVE IsOwn(d, j, b[k])
    BY DEF Batched
  <2>1. b[k] \in Fds /\ b[k] # fd /\ IsOwn(l, i, b[k])
    BY <1>1 DEF Sound, Batched
  <2> QED BY <1>8, <2>1
<1>11. \A g \in Fds : Stale(l, i, g) => Stale(d, j, g)
  <2> SUFFICES ASSUME NEW g \in Fds, Stale(l, i, g) PROVE Stale(d, j, g)
    OBVIOUS
  <2>1. d.watcher[g] = l.watcher[g] /\ g \notin d.epoll /\ g # INVALID_FD
    BY <1>2, InvalidFd DEF Stale
  <2>2. CASE g = StdinFd /\ is_watched(l, g)
    BY <2>1, <2>2 DEF Stale, is_watched
  <2>3. CASE l.watcher[g].type = "normal" /\ i[l.watcher[g].user].fd # g
    <3>1. l.watcher[g].user \in Name
      BY <2>3 DEF Sound, Handed
    <3> QED BY <1>3, <2>1, <2>3, <3>1 DEF Stale
  <2> QED BY <2>2, <2>3 DEF Stale
<1>12. Stale(d, j, fd)
  BY <1>2, <1>3, <1>4, <1>5, InvalidFd DEF Stale
<1>13. Left(d, j)
  <2> SUFFICES ASSUME NEW g \in Fds, d.file[g] = "none", is_watched(d, g)
               PROVE  Stale(d, j, g)
    BY DEF Left
  <2>1. g = fd \/ (l.file[g] = "none" /\ is_watched(l, g))
    BY <1>2 DEF is_watched
  <2> QED BY <1>11, <1>12, <2>1 DEF Sound, Left
<1>14. Served(d, j)
  <2> SUFFICES ASSUME NEW g \in Fds, d.file[g] = "conn"
               PROVE  (g \in d.epoll /\ d.watcher[g].type = "son") \/ Stale(d, j, g)
    BY DEF Served
  <2>1. g # fd /\ l.file[g] = "conn"
    BY <1>2
  <2>2. (g \in l.epoll /\ l.watcher[g].type = "son") \/ Stale(l, i, g)
    BY <2>1 DEF Sound, Served
  <2> QED BY <1>2, <1>11, <2>1, <2>2
<1> QED BY <1>1, <1>2, <1>3, <1>6, <1>7, <1>9, <1>10, <1>13, <1>14
        DEF Sound, Typed, d, j

(* Descriptor 0 is closed under whatever had it; its watcher stays.         *)
LEMMA ZeroClosed ==
  ASSUME NEW l, NEW b, NEW i, Sound(l, b, i)
  PROVE  Sound(os_close(l, {StdinFd}), b, i)
PROOF
<1> DEFINE d == os_close(l, {StdinFd})
<1>1. l \in Loop /\ b \in Seq(Fds) /\ i \in Instances
  BY DEF Sound, Typed
<1>2. /\ d \in Loop
      /\ d.watcher = l.watcher
      /\ d.epoll = l.epoll \ {StdinFd}
      /\ \A g \in Fds : d.file[g] = IF g = StdinFd THEN "none" ELSE l.file[g]
  BY <1>1, CloseIs
<1> HIDE DEF d
<1>3. Owned(d, i)
  <2> SUFFICES ASSUME NEW n \in Name, i[n].fd # INVALID_FD
               PROVE  /\ d.watcher[i[n].fd] = [type |-> "normal", user |-> n]
                      /\ Held(d, i[n].fd)
    BY DEF Owned
  <2>1. i[n].fd \in Fds
    BY <1>1, FdType
  <2>2. /\ l.watcher[i[n].fd] = [type |-> "normal", user |-> n]
        /\ Held(l, i[n].fd)
    BY DEF Sound, Owned
  <2> QED BY <1>2, <2>1, <2>2 DEF Held
<1>4. Handed(d)
  BY <1>2 DEF Sound, Handed
<1>5. \A g \in Fds : IsOwn(l, i, g) => IsOwn(d, i, g)
  BY <1>2 DEF IsOwn
<1>6. Registered(d, i)
  BY <1>1, <1>2, <1>5 DEF Sound, Registered, Loop
<1>7. Batched(d, b, i)
  BY <1>1, <1>5 DEF Sound, Batched
<1>8. \A g \in Fds : Stale(l, i, g) => Stale(d, i, g)
  BY <1>2 DEF Stale, is_watched
<1>9. Left(d, i)
  <2> SUFFICES ASSUME NEW g \in Fds, d.file[g] = "none", is_watched(d, g)
               PROVE  Stale(d, i, g)
    BY DEF Left
  <2>1. CASE g = StdinFd
    BY <1>2, <2>1 DEF Stale
  <2>2. CASE g # StdinFd
    BY <1>2, <1>8, <2>2 DEF Sound, Left, is_watched
  <2> QED BY <2>1, <2>2
<1>10. Served(d, i)
  <2> SUFFICES ASSUME NEW g \in Fds, d.file[g] = "conn"
               PROVE  (g \in d.epoll /\ d.watcher[g].type = "son") \/ Stale(d, i, g)
    BY DEF Served
  <2>1. g # StdinFd /\ l.file[g] = "conn"
    BY <1>2
  <2>2. (g \in l.epoll /\ l.watcher[g].type = "son") \/ Stale(l, i, g)
    BY <2>1 DEF Sound, Served
  <2> QED BY <1>2, <1>8, <2>1, <2>2
<1> QED BY <1>1, <1>2, <1>3, <1>4, <1>6, <1>7, <1>9, <1>10 DEF Sound, Typed, d

(* What keeps every descriptor keeps the invariant.                         *)
LEMMA SameFds ==
  ASSUME NEW l, NEW b, NEW i, Sound(l, b, i), NEW j \in Instances,
         \A n \in Name : j[n].fd = i[n].fd
  PROVE  Sound(l, b, j)
PROOF
<1>1. Owned(l, j)
  BY DEF Sound, Owned
<1>2. \A fd \in Fds : IsOwn(l, i, fd) => IsOwn(l, j, fd)
  BY DEF Sound, Handed, IsOwn
<1>3. \A fd \in Fds : Stale(l, i, fd) => Stale(l, j, fd)
  BY DEF Sound, Handed, Stale
<1>4. Registered(l, j)
  BY <1>2 DEF Sound, Typed, Registered, Loop
<1>5. Batched(l, b, j)
  BY <1>2 DEF Sound, Typed, Batched
<1>6. Left(l, j) /\ Served(l, j)
  BY <1>3 DEF Sound, Left, Served
<1> QED BY <1>1, <1>4, <1>5, <1>6 DEF Sound, Typed

-----------------------------------------------------------------------------
(* The timer keeps descriptors.                                            *)

With(fd) == {i \in Instance : i.fd = fd}

LEMMA Moved ==
  ASSUME NEW fd, NEW i \in With(fd), NEW to \in Fsm,
         NEW found \in BOOLEAN, NEW linked \in BOOLEAN
  PROVE  /\ [i EXCEPT !.fsm = to] \in With(fd)
         /\ [i EXCEPT !.fsm = to, !.resolved = found] \in With(fd)
         /\ [i EXCEPT !.fsm = to, !.linked = linked] \in With(fd)
BY DEF With, Instance

LEMMA SentKeeps ==
  ASSUME NEW fd, NEW S \in SUBSET With(fd), NEW from, NEW to \in Fsm
  PROVE  Sent(S, from, to) \in SUBSET With(fd)
PROOF
<1> SUFFICES ASSUME NEW r \in Sent(S, from, to) PROVE r \in With(fd)
  OBVIOUS
<1>1. CASE r \in S
  BY <1>1
<1>2. ASSUME NEW i \in S, r = [i EXCEPT !.fsm = to] PROVE r \in With(fd)
  <2>1. i \in With(fd)
    OBVIOUS
  <2> QED BY <1>2, <2>1, Moved
<1> QED BY <1>1, <1>2 DEF Sent

LEMMA TriggersKeep ==
  ASSUME NEW fd, NEW S \in SUBSET With(fd)
  PROVE  /\ nsq_resolve(S) \in SUBSET With(fd)
         /\ nsq_connect(S) \in SUBSET With(fd)
         /\ nsq_handshake(S) \in SUBSET With(fd)
         /\ nsq_identify(S) \in SUBSET With(fd)
         /\ nsq_auth(S) \in SUBSET With(fd)
         /\ nsq_subscrib(S) \in SUBSET With(fd)
         /\ nsq_run(S) \in SUBSET With(fd)
PROOF
<1>1. {"resolved", "connected", "handshaked", "identifying", "authed",
       "subscribing", "run"} \subseteq Fsm
  BY DEF Fsm
<1>2. nsq_resolve(S) \in SUBSET With(fd)
  <2> SUFFICES ASSUME NEW r \in nsq_resolve(S) PROVE r \in With(fd)
    OBVIOUS
  <2>1. ASSUME NEW i \in S,
               \/ r = [i EXCEPT !.fsm = "resolved"]
               \/ r = [i EXCEPT !.fsm = "resolved", !.resolved = TRUE]
        PROVE  r \in With(fd)
    <3>1. i \in With(fd) /\ "resolved" \in Fsm
      BY <1>1
    <3> QED BY <2>1, <3>1, Moved
  <2> QED BY <2>1 DEF nsq_resolve
<1>3. nsq_connect(S) \in SUBSET With(fd)
  <2> SUFFICES ASSUME NEW r \in nsq_connect(S) PROVE r \in With(fd)
    OBVIOUS
  <2>1. ASSUME NEW i \in S, NEW linked \in BOOLEAN,
               r = [i EXCEPT !.fsm = "connected", !.linked = linked]
        PROVE  r \in With(fd)
    <3>1. i \in With(fd) /\ "connected" \in Fsm
      BY <1>1
    <3> QED BY <2>1, <3>1, Moved
  <2> QED BY <2>1 DEF nsq_connect
<1>4. nsq_auth(S) \in SUBSET With(fd)
  <2> SUFFICES ASSUME NEW r \in nsq_auth(S) PROVE r \in With(fd)
    OBVIOUS
  <2>1. ASSUME NEW i \in S, r = [i EXCEPT !.fsm = "authed"] PROVE r \in With(fd)
    <3>1. i \in With(fd) /\ "authed" \in Fsm
      BY <1>1
    <3> QED BY <2>1, <3>1, Moved
  <2> QED BY <2>1 DEF nsq_auth
<1> QED BY <1>1, <1>2, <1>3, <1>4, SentKeeps
        DEF nsq_handshake, nsq_identify, nsq_subscrib, nsq_run

LEMMA TimerKeeps ==
  ASSUME NEW i \in Instance \cup {NoInstance}, NEW r \in nsqa_timer_handle(i)
  PROVE  r \in Instance \cup {NoInstance} /\ r.fd = i.fd
PROOF
<1>1. CASE i = NoInstance
  BY <1>1 DEF nsqa_timer_handle
<1>2. CASE i # NoInstance
  <2> DEFINE fd == i.fd
  <2>1. {i} \in SUBSET With(fd)
    BY <1>2 DEF With
  <2> HIDE DEF fd
  <2>2. nsq_resolve({i}) \in SUBSET With(fd)
    BY <2>1, TriggersKeep
  <2>3. nsq_connect(nsq_resolve({i})) \in SUBSET With(fd)
    BY <2>2, TriggersKeep
  <2>4. nsq_handshake(nsq_connect(nsq_resolve({i}))) \in SUBSET With(fd)
    BY <2>3, TriggersKeep
  <2>5. nsq_identify(nsq_handshake(nsq_connect(nsq_resolve({i})))) \in SUBSET With(fd)
    BY <2>4, TriggersKeep
  <2>6. nsq_auth(nsq_identify(nsq_handshake(nsq_connect(nsq_resolve({i})))))
          \in SUBSET With(fd)
    BY <2>5, TriggersKeep
  <2>7. nsq_subscrib(nsq_auth(nsq_identify(nsq_handshake(nsq_connect(
          nsq_resolve({i})))))) \in SUBSET With(fd)
    BY <2>6, TriggersKeep
  <2>8. nsqa_timer_handle(i) \in SUBSET With(fd)
    BY <1>2, <2>7, TriggersKeep DEF nsqa_timer_handle
  <2> QED BY <2>8 DEF With, fd
<1> QED BY <1>1, <1>2

-----------------------------------------------------------------------------
(* The invariant.                                                          *)

Inv == Sound(loop, batch, inst)

LEMMA InitSound == Init => Inv
PROOF
<1> SUFFICES ASSUME Init PROVE Inv
  OBVIOUS
<1>1. loop \in Loop
  <2>1. [fd \in Fds |-> CASE fd = StdinFd -> "stdin"
                          [] fd = TimerFd -> "timer"
                          [] fd = ListenFd -> "listen"
                          [] OTHER -> "none"] \in [Fds -> File]
    BY DEF File
  <2>2. [fd \in Fds |-> CASE fd = TimerFd -> [type |-> "timer", user |-> Nobody]
                          [] fd = ListenFd -> [type |-> "father", user |-> Nobody]
                          [] OTHER -> NoWatcher] \in [Fds -> Watcher]
    BY DEF Watcher, NoWatcher, LoopType
  <2>3. {TimerFd, ListenFd} \in SUBSET Fds
    BY MaxFdAssumption DEF TimerFd, ListenFd, Fds
  <2> QED BY <2>1, <2>2, <2>3 DEF Init, LoopInit, Loop
<1>2. batch \in Seq(Fds) /\ Len(batch) = 0
  BY DEF Init, LoopInit
<1>3. /\ inst \in Instances
      /\ \A n \in Name : inst[n].fd = INVALID_FD
  BY DEF Init, Instances, NoInstance
<1>4. /\ loop.epoll = {TimerFd, ListenFd}
      /\ \A fd \in Fds :
           /\ loop.file[fd] # "conn"
           /\ loop.file[fd] = "none" => loop.watcher[fd] = NoWatcher
           /\ fd \in loop.epoll => loop.file[fd] # "none"
           /\ loop.watcher[fd].type # "normal"
  BY DEF Init, LoopInit, NoWatcher
<1>5. Owned(loop, inst)
  BY <1>3 DEF Owned
<1>6. Handed(loop) /\ Registered(loop, inst)
  BY <1>1, <1>4 DEF Handed, Registered, IsOwn, Loop
<1>7. Batched(loop, batch, inst) /\ Once(batch)
  BY <1>2 DEF Batched, Once
<1>8. Left(loop, inst) /\ Served(loop, inst)
  BY <1>4 DEF Left, Served, is_watched, NoWatcher
<1> QED BY <1>1, <1>2, <1>3, <1>5, <1>6, <1>7, <1>8 DEF Inv, Sound, Typed

LEMMA WaitSound == ASSUME Inv, Wait, UNCHANGED inst PROVE Inv'
PROOF
<1> PICK n \in 1 .. BatchMax :
       batch' \in {b \in [1 .. n -> loop.epoll] :
                     \A i, j \in 1 .. n : b[i] = b[j] => i = j}
  BY DEF Wait
<1>1. loop' = loop /\ inst' = inst
  BY DEF Wait
<1>2. loop.epoll \subseteq Fds
  BY DEF Inv, Sound, Typed, Loop
<1>3. n \in Nat
  BY BatchMaxAssumption
<1>4. /\ batch' \in [1 .. n -> loop.epoll]
      /\ \A i, j \in 1 .. n : batch'[i] = batch'[j] => i = j
  OBVIOUS
<1>5. batch' \in Seq(Fds) /\ Len(batch') = n
  BY <1>2, <1>3, <1>4
<1>6. Once(batch')
  BY <1>4, <1>5 DEF Once
<1>7. Batched(loop, batch', inst)
  BY <1>4, <1>5 DEF Batched, Inv, Sound, Registered
<1> QED BY <1>1, <1>5, <1>6, <1>7 DEF Inv, Sound, Typed

(* The event taken: the loop and the instances with the rest of the batch.  *)
LEMMA EventSound ==
  ASSUME Inv, NEW fd, NEW type, Event(fd, type)
  PROVE  /\ Sound(loop, Tail(batch), inst)
         /\ batch' = Tail(batch)
         /\ fd \in Fds /\ loop.watcher[fd].type = type
         /\ IsOwn(loop, inst, fd)
         /\ \A k \in 1 .. Len(Tail(batch)) : Tail(batch)[k] # fd
BY Taken DEF Inv, Event

LEMMA SkipSound == ASSUME Inv, Skip, UNCHANGED inst PROVE Inv'
PROOF
<1> PICK fd \in Fds : Event(fd, "none") /\ UNCHANGED loop
  BY DEF Skip
<1>1. Sound(loop, Tail(batch), inst) /\ batch' = Tail(batch)
  BY EventSound
<1> QED BY <1>1 DEF Inv

LEMMA AcceptSound == ASSUME Inv, Accept, UNCHANGED inst PROVE Inv'
PROOF
<1> PICK fd \in Fds :
       /\ Event(fd, "father")
       /\ \/ \E son \in Fds :
               /\ IsFree(loop, son)
               /\ loop' = os_loop_add(Open(loop, son, "conn"), son, "son",
                                      loop.watcher[fd].user)
          \/ Full(loop) /\ UNCHANGED loop
  BY DEF Accept
<1>1. Sound(loop, Tail(batch), inst) /\ batch' = Tail(batch)
  BY EventSound
<1>2. loop.watcher[fd].user \in User \cup {Nobody}
  BY <1>1 DEF Sound, Typed, Loop, Watcher
<1>3. Sound(loop', Tail(batch), inst)
  BY <1>1, <1>2, Accepted
<1> QED BY <1>1, <1>3 DEF Inv

LEMMA TimerSound == ASSUME Inv, nsqa_timer PROVE Inv'
PROOF
<1> PICK fd \in Fds : Event(fd, "timer")
  BY DEF nsqa_timer
<1>1. Sound(loop, Tail(batch), inst) /\ batch' = Tail(batch) /\ loop' = loop
  BY EventSound DEF nsqa_timer
<1> PICK after \in [Name -> UNION {nsqa_timer_handle(inst[n]) : n \in Name}] :
       /\ \A n \in Name : after[n] \in nsqa_timer_handle(inst[n])
       /\ inst' = after
  BY DEF nsqa_timer
<1>2. \A n \in Name : inst[n] \in Instance \cup {NoInstance}
  BY <1>1 DEF Sound, Typed, Instances
<1>3. \A n \in Name : after[n] \in Instance \cup {NoInstance} /\ after[n].fd = inst[n].fd
  BY <1>2, TimerKeeps
<1>4. after \in Instances
  BY <1>3 DEF Instances
<1>5. Sound(loop, Tail(batch), after)
  BY <1>1, <1>3, <1>4, SameFds
<1> QED BY <1>1, <1>5 DEF Inv

LEMMA RecverSound == ASSUME Inv, NEW n \in Name, nsq_recver(n) PROVE Inv'
PROOF
<1> PICK fd \in Fds : Event(fd, "normal") /\ n = loop.watcher[fd].user
  BY DEF nsq_recver
<1> PICK frame \in Frame :
       inst' = [inst EXCEPT ![n] =
                  nsq_confuse(IF is_down(inst[n]) THEN inst[n]
                              ELSE nsq_frame_handle(inst[n], frame))]
  BY DEF nsq_recver
<1> DEFINE h == IF is_down(inst[n]) THEN inst[n] ELSE nsq_frame_handle(inst[n], frame)
<1>1. /\ Sound(loop, Tail(batch), inst) /\ batch' = Tail(batch)
      /\ \A k \in 1 .. Len(Tail(batch)) : Tail(batch)[k] # fd
      /\ inst[n].fd = fd
  BY EventSound DEF IsOwn
<1>2. inst[n] \in Instance
  BY <1>1, InvalidFd DEF Sound, Typed, Instances, NoInstance
<1>3. h \in Instance /\ h.fd = fd
  BY <1>1, <1>2 DEF nsq_frame_handle, Instance, Fsm
<1> HIDE DEF h
<1>4. nsq_confuse(h) \in Instance /\ nsq_confuse(h).fd = INVALID_FD
  BY <1>3, InvalidFd DEF nsq_confuse, Instance, Fsm
<1>5. Sound(os_close(loop, {fd}), Tail(batch), [inst EXCEPT ![n] = nsq_confuse(h)])
  BY <1>1, <1>4, Confused
<1>6. loop' = os_close(loop, {fd})
  BY <1>1 DEF nsq_recver
<1> QED BY <1>1, <1>5, <1>6 DEF Inv, h

(* A refused socket is closed again.                                        *)
LEMMA OpenedClosed ==
  ASSUME NEW b, NEW i, NEW l, Sound(l, b, i), NEW sock \in Fds, IsFree(l, sock)
  PROVE  os_close(Open(l, sock, "sock"), {sock}) = l
PROOF
<1> DEFINE o == Open(l, sock, "sock")
           d == os_close(o, {sock})
<1>1. l \in Loop /\ l.file[sock] = "none" /\ sock \notin l.epoll
  BY DEF Sound, Typed, IsFree, Registered
<1>2. /\ o \in Loop /\ o.epoll = l.epoll /\ o.watcher = l.watcher
      /\ \A fd \in Fds : fd # sock => o.file[fd] = l.file[fd]
  BY <1>1 DEF Open, Loop, File
<1> HIDE DEF o
<1>3. /\ d \in Loop /\ d.epoll = o.epoll \ {sock} /\ d.watcher = o.watcher
      /\ \A fd \in Fds : d.file[fd] = IF fd \in {sock} THEN "none" ELSE o.file[fd]
  BY <1>2, CloseIs
<1> HIDE DEF d
<1>4. d.file = l.file
  BY <1>1, <1>2, <1>3 DEF Loop
<1>5. d.epoll = l.epoll /\ d.watcher = l.watcher
  BY <1>1, <1>2, <1>3
<1>6. /\ d = [file |-> d.file, epoll |-> d.epoll, watcher |-> d.watcher]
      /\ l = [file |-> l.file, epoll |-> l.epoll, watcher |-> l.watcher]
  BY <1>1, <1>3 DEF Loop
<1>7. d = l
  BY <1>4, <1>5, <1>6
<1> QED BY <1>7 DEF d, o

LEMMA InsertSound == ASSUME Inv, NEW n \in Name, nsqi_insert(n) PROVE Inv'
PROOF
<1> PICK fd \in Fds, sock \in Fds :
      /\ Request(fd)
      /\ ~ Live(n)
      /\ IsFree(loop, sock)
      /\ \/ /\ ~ is_watched(loop, sock)
            /\ loop' = os_loop_del_watcher(
                 os_loop_add(Open(loop, sock, "sock"), sock, "normal", n), {fd})
            /\ inst' = [inst EXCEPT ![n] = Fresh(sock)]
         \/ /\ is_watched(loop, sock)
            /\ loop' = os_loop_del_watcher(
                 os_close(Open(loop, sock, "sock"), {sock}), {fd})
            /\ UNCHANGED inst
  BY DEF nsqi_insert
<1>1. /\ Sound(loop, Tail(batch), inst) /\ batch' = Tail(batch)
      /\ loop.watcher[fd].type = "son"
  BY EventSound DEF Request, Call
<1>2. CASE ~ is_watched(loop, sock)
  <2> DEFINE l == os_loop_add(Open(loop, sock, "sock"), sock, "normal", n)
             i == [inst EXCEPT ![n] = Fresh(sock)]
  <2>1. Sound(l, Tail(batch), i)
    BY <1>1, <1>2, Inserted DEF Live
  <2>2. l.watcher[fd].type = "son"
    <3>1. "sock" \in File /\ "normal" \in LoopType /\ n \in User \cup {Nobody}
      BY DEF File, LoopType, Name
    <3>2. loop \in Loop
      BY <1>1 DEF Sound, Typed
    <3>3. fd # sock
      BY <1>1, <1>2 DEF is_watched
    <3>4. \A g \in Fds : l.watcher[g] = IF g = sock
                                        THEN [type |-> "normal", user |-> n]
                                        ELSE loop.watcher[g]
      <4>1. LET d == os_loop_add(Open(loop, sock, "sock"), sock, "normal", n)
            IN  /\ d \in Loop
                /\ d.epoll = loop.epoll \cup {sock}
                /\ \A g \in Fds :
                     /\ d.file[g] = IF g = sock THEN "sock" ELSE loop.file[g]
                     /\ d.watcher[g] = IF g = sock
                                       THEN [type |-> "normal", user |-> n]
                                       ELSE loop.watcher[g]
        BY <1>2, <3>1, <3>2, AddIs
      <4> QED BY <4>1
    <3>5. l.watcher[fd] = loop.watcher[fd]
      BY <3>3, <3>4
    <3> QED BY <1>1, <3>5
  <2> HIDE DEF l, i
  <2>3. Sound(os_loop_del_watcher(l, {fd}), Tail(batch), i)
    BY <2>1, <2>2, SonDeleted
  <2>4. loop' = os_loop_del_watcher(l, {fd}) /\ inst' = i
    BY <1>2 DEF l, i
  <2> QED BY <1>1, <2>3, <2>4 DEF Inv
<1>3. CASE is_watched(loop, sock)
  <2>1. loop' = os_loop_del_watcher(loop, {fd}) /\ inst' = inst
    BY <1>1, <1>3, OpenedClosed
  <2>2. Sound(os_loop_del_watcher(loop, {fd}), Tail(batch), inst)
    BY <1>1, SonDeleted
  <2> QED BY <1>1, <2>1, <2>2 DEF Inv
<1> QED BY <1>2, <1>3

(* The watcher of the client stays while descriptor 0 is closed.            *)
LEMMA InsertFailsSound ==
  ASSUME Inv, NEW n \in Name, nsqi_insert_fails(n) PROVE Inv'
PROOF
<1> PICK fd \in Fds :
      /\ Request(fd)
      /\ loop' = os_loop_del_watcher(os_close(loop, {StdinFd}), {fd})
      /\ UNCHANGED inst
  BY DEF nsqi_insert_fails
<1> DEFINE l == os_close(loop, {StdinFd})
<1>1. /\ Sound(loop, Tail(batch), inst) /\ batch' = Tail(batch)
      /\ loop.watcher[fd].type = "son"
  BY EventSound DEF Request, Call
<1>2. Sound(l, Tail(batch), inst)
  BY <1>1, ZeroClosed
<1>3. l.watcher[fd].type = "son"
  <2>1. loop \in Loop
    BY <1>1 DEF Sound, Typed
  <2>2. l.watcher = loop.watcher
    BY <2>1, CloseIs
  <2> QED BY <1>1, <2>2
<1> HIDE DEF l
<1>4. Sound(os_loop_del_watcher(l, {fd}), Tail(batch), inst)
  BY <1>2, <1>3, SonDeleted
<1>5. loop' = os_loop_del_watcher(l, {fd}) /\ inst' = inst
  BY DEF l
<1> QED BY <1>1, <1>4, <1>5 DEF Inv

LEMMA RemoveSound ==
  ASSUME Inv, NEW names \in SUBSET Name, nsqi_remove(names) PROVE Inv'
PROOF
<1> PICK fd \in Fds :
      /\ Request(fd)
      /\ loop' = os_loop_del_watcher(__nsqi_destroy(loop, names), {fd})
      /\ inst' = [n \in Name |-> IF n \in names THEN NoInstance ELSE inst[n]]
  BY DEF nsqi_remove
<1> DEFINE l == __nsqi_destroy(loop, names)
           i == [n \in Name |-> IF n \in names THEN NoInstance ELSE inst[n]]
<1>1. /\ Sound(loop, Tail(batch), inst) /\ batch' = Tail(batch)
      /\ loop.watcher[fd].type = "son"
  BY EventSound DEF Request, Call
<1>2. Sound(l, Tail(batch), i)
  BY <1>1, Destroyed
<1>3. l.watcher[fd].type = "son"
  <2>1. loop \in Loop /\ inst \in Instances
    BY <1>1 DEF Sound, Typed
  <2>2. fd \notin FdsOf(names)
    <3> SUFFICES ASSUME NEW n \in names, inst[n].fd = fd PROVE FALSE
      BY DEF FdsOf
    <3>1. loop.watcher[fd] = [type |-> "normal", user |-> n]
      BY <1>1, InvalidFd DEF Sound, Owned
    <3>2. loop.watcher[fd].type = "normal"
      BY <3>1
    <3> QED BY <1>1, <3>2
  <2> DEFINE e == os_loop_del_watcher(loop, FdsOf(names))
  <2>3. e \in Loop /\ e.watcher[fd] = loop.watcher[fd]
    BY <2>1, <2>2, DelIs
  <2> HIDE DEF e
  <2>4. os_close(e, FdsOf(names)).watcher = e.watcher
    BY <2>3, CloseIs
  <2> QED BY <1>1, <2>3, <2>4 DEF __nsqi_destroy, e
<1> HIDE DEF l, i
<1>4. Sound(os_loop_del_watcher(l, {fd}), Tail(batch), i)
  BY <1>2, <1>3, SonDeleted
<1>5. loop' = os_loop_del_watcher(l, {fd}) /\ inst' = i
  BY DEF l, i
<1> QED BY <1>1, <1>4, <1>5 DEF Inv

LEMMA RefuseSound == ASSUME Inv, Refuse PROVE Inv'
PROOF
<1> PICK fd \in Fds : /\ Call(fd)
                      /\ loop' = os_loop_del_watcher(loop, {fd})
                      /\ UNCHANGED inst
  BY DEF Refuse
<1>1. /\ Sound(loop, Tail(batch), inst) /\ batch' = Tail(batch)
      /\ loop.watcher[fd].type = "son"
  BY EventSound DEF Request, Call
<1>2. Sound(os_loop_del_watcher(loop, {fd}), Tail(batch), inst)
  BY <1>1, SonDeleted
<1> QED BY <1>1, <1>2 DEF Inv

LEMMA StepSound == ASSUME Inv, [Next]_vars PROVE Inv'
PROOF
<1>1. CASE UNCHANGED vars
  BY <1>1 DEF vars, Inv
<1>2. CASE (Wait \/ Skip \/ Accept) /\ UNCHANGED inst
  BY <1>2, WaitSound, SkipSound, AcceptSound
<1>3. CASE nsqa_timer
  BY <1>3, TimerSound
<1>4. CASE \E n \in Name : nsq_recver(n) \/ nsqi_insert(n) \/ nsqi_insert_fails(n)
  BY <1>4, RecverSound, InsertSound, InsertFailsSound
<1>5. CASE \E names \in SUBSET Name : nsqi_remove(names)
  BY <1>5, RemoveSound
<1>6. CASE Refuse
  BY <1>6, RefuseSound
<1> QED BY <1>1, <1>2, <1>3, <1>4, <1>5, <1>6 DEF Next

LEMMA AlwaysSound == Spec => []Inv
PROOF
<1>1. Init => Inv
  BY InitSound
<1>2. Inv /\ [Next]_vars => Inv'
  BY StepSound
<1> QED BY <1>1, <1>2, PTL DEF Spec

-----------------------------------------------------------------------------
(* The loop, the batch and the instances stay well formed.                  *)
THEOREM SpecTypeOK == Spec => []TypeOK
PROOF
<1>1. Inv => TypeOK
  BY DEF Inv, Sound, Typed, TypeOK, Instances
<1> QED BY <1>1, AlwaysSound, PTL

(* However descriptors are closed and their numbers given out again, what   *)
(* an instance holds is its own socket; only 0 can be closed under it, by   *)
(* an insert whose socket failed (instance.c:66-72, 92-97, proto.c:352).    *)
THEOREM SpecOwnsItsSocket == Spec => []OwnsItsSocket
PROOF
<1>1. Inv => OwnsItsSocket
  BY DEF Inv, Sound, Owned, Held, OwnsItsSocket
<1> QED BY <1>1, AlwaysSound, PTL

(* No event of a batch reaches a freed instance, or one that does not have  *)
(* the descriptor, whatever the earlier events did (loop.c:442-454).        *)
THEOREM SpecHandledIsOwn == Spec => []HandledIsOwn
PROOF
<1>1. Inv => HandledIsOwn
  <2> SUFFICES ASSUME Inv, batch # <<>>,
                      loop.watcher[Head(batch)].type = "normal"
               PROVE  inst[loop.watcher[Head(batch)].user].fd = Head(batch)
    BY DEF HandledIsOwn
  <2>1. IsOwn(loop, inst, Head(batch))
    BY Taken DEF Inv
  <2> QED BY <2>1 DEF IsOwn
<1> QED BY <1>1, AlwaysSound, PTL

(* A client is left unwatched only on a number that still has the watcher   *)
(* of an instance that lost its socket, or on 0 (loop.c:171-176).           *)
THEOREM SpecServedUnlessStale == Spec => []ServedUnlessStale
PROOF
<1>1. Inv => ServedUnlessStale
  BY DEF Inv, Sound, Served, Stale, ServedUnlessStale
<1> QED BY <1>1, AlwaysSound, PTL

=============================================================================
