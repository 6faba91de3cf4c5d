------------------------------ MODULE UmdConn -------------------------------
(***************************************************************************)
(* Captured packets in app/umd/flow.c: which connection a packet belongs   *)
(* to, which way it goes, and what it is charged to.  A packet between a   *)
(* user and the device or the lan is lan flow of that user, one between a  *)
(* user and the outside is wan flow; the device's own packets are counted  *)
(* apart.  With umd.cfg.connectable a connection is kept per pair of ends, *)
(* with the time it was last hit, and `last` points at the one found last. *)
(*                                                                         *)
(* umd_conn_handle, which charges a user, is modelled in module Umd; here  *)
(* it is the charge itself and whether the user is known.                  *)
(***************************************************************************)
EXTENDS Integers

CONSTANTS
  Host,           \* ends of packets: a mac with an address
  Class,          \* the class of each host, see Ends
  Autouser,       \* umd.cfg.autouser: an unknown user is created
  Connectable,    \* the values umd.cfg.connectable may have at the start
  Talk,           \* bound: the pairs that send packets while there is a table
  TICKS,          \* umd.cfg.ticks
  GCCONN,         \* umd.cfg.gcconn
  MaxTime         \* bound: the clock is not driven past this time

\* "dev": the mac of one of the device's interfaces, whatever the address;
\* "user", "lan", "wan": by the address, in this order of preference.
Ends == {"dev", "user", "lan", "wan"}
Pair == Host \X Host        \* umd_conn_t: the ends of a connection
Nobody == <<>>
Device == "device"
NoConn == -1

ASSUME ConnAssumption ==
  /\ Class \in [Host -> Ends]
  /\ Device \notin Host
  /\ Autouser \in BOOLEAN
  /\ Connectable \subseteq BOOLEAN
  /\ Talk \subseteq Pair
  /\ TICKS \in Nat \ {0} /\ GCCONN \in Nat /\ MaxTime \in Nat

VARIABLES
  connectable,\* umd.cfg.connectable, read once at the start
  now,        \* the loop's time
  due,        \* the timer has expired and has not been handled yet
  known,      \* hosts that are users of the user table
  hit,        \* cn->hit of each connection of the table, or NoConn
  last,       \* the static `last` of umd_conn_get: the key it was found with
  freed,      \* the connection `last` points at has been freed
  packet,     \* the last packet
  charged     \* what it was charged to: <<host or Device, type, dir>>

connVars == <<connectable, now, due, known, hit, last, freed, packet, charged>>

ConnTypeOK ==
  /\ connectable \in BOOLEAN
  /\ now \in Nat /\ due \in BOOLEAN
  /\ known \subseteq {h \in Host : Class[h] = "user"}
  /\ hit \in [Pair -> Nat \cup {NoConn}]
  /\ last \in Pair \cup {Nobody} /\ freed \in BOOLEAN
  /\ packet \in Pair \cup {Nobody}
  /\ charged \subseteq (Host \cup {Device}) \X {"lan", "wan"} \X {"up", "down"}

-----------------------------------------------------------------------------
(* Which way a packet goes, and its charges.                               *)

\* The chain of tests takes a packet from the lan to a user for lan2dev.
umd_conn_dir(s, d) ==
  IF Class[s] = "lan" /\ Class[d] = "user" THEN <<"lan", "dev">>
  ELSE <<Class[s], Class[d]>>

\* The type of a user's or the device's flow with an end of class `other`.
FlowType(other) == IF other = "wan" THEN "wan" ELSE "lan"

\* A flow is charged to the user, or counted for the device.
Subject(class, host) == IF class = "user" THEN host ELSE Device

\* Mutant: the source is charged for what comes down to the destination.
SourceDown(s, d) ==
  LET dir == umd_conn_dir(s, d)
      up == <<Subject(dir[1], s), FlowType(dir[2]), "up">>
      down == <<Subject(dir[2], s), FlowType(dir[1]), "down">>
  IN  IF dir[1] = "user" THEN {up} ELSE IF dir[2] = "user" THEN {down} ELSE {}

\* What each handler of umd_conn_update charges; user2user charges both ends
\* unless they are the same.
Charges(s, d) ==
  LET dir == umd_conn_dir(s, d)
      up == <<Subject(dir[1], s), FlowType(dir[2]), "up">>
      down == <<Subject(dir[2], d), FlowType(dir[1]), "down">>
  IN  CASE dir = <<"user", "user">> -> IF s = d THEN {} ELSE {down, up}
        [] dir[1] = "user" /\ dir[2] # "user" -> {up}
        [] dir[2] = "user" /\ dir[1] # "user" -> {down}
        [] dir \in {<<"dev", "lan">>, <<"dev", "wan">>} -> {up}
        [] dir \in {<<"lan", "dev">>, <<"wan", "dev">>} -> {down}
        [] OTHER -> {}

Unknown(h) == Class[h] = "user" /\ h \notin known /\ ~Autouser

\* A user that is not known is not charged, and user2user, which begins with
\* the destination, then leaves the source uncharged too.
Charged(s, d) ==
  IF umd_conn_dir(s, d) = <<"user", "user">> /\ Unknown(d) THEN {}
  ELSE {c \in Charges(s, d) : c[1] = Device \/ ~Unknown(c[1])}

-----------------------------------------------------------------------------
(* The connection of a packet.                                             *)

\* `last` is the connection of the packet.
HitLast(k) ==
  /\ last = k /\ ~freed
  /\ hit' = [hit EXCEPT ![k] = now]
  /\ UNCHANGED <<last, freed>>

\* The freed memory `last` points at still reads as this connection: it is
\* taken for it, and the hit is written there.
HitFreed(k) ==
  /\ last = k /\ freed
  /\ UNCHANGED <<hit, last, freed>>

Find(k) ==
  /\ last # k \/ freed
  /\ hit[k] # NoConn
  /\ hit' = [hit EXCEPT ![k] = now]
  /\ last' = k
  /\ freed' = FALSE

\* A connection that is not found is inserted.  It does not become `last`,
\* unless its memory is the one `last` still points at.
Insert(k) ==
  /\ hit[k] = NoConn
  /\ hit' = [hit EXCEPT ![k] = now]
  /\ \/ UNCHANGED <<last, freed>>
     \/ /\ freed
        /\ last' = k
        /\ freed' = FALSE

umd_conn_getEx(k) ==
  IF connectable
  THEN HitLast(k) \/ HitFreed(k) \/ Find(k) \/ Insert(k)
  ELSE UNCHANGED <<hit, last, freed>>

Packet(s, d) ==
  /\ connectable => <<s, d>> \in Talk
  /\ umd_conn_getEx(<<s, d>>)
  /\ packet' = <<s, d>>
  /\ charged' = Charged(s, d)
  /\ known' = known \cup ({c[1] : c \in charged'} \ {Device})
  /\ UNCHANGED <<connectable, now, due>>

\* A user is created or deleted by a command or the timer of module Umd.
UserCreated(h) ==
  /\ Class[h] = "user"
  /\ known' = known \cup {h}
  /\ packet' = Nobody /\ charged' = {}
  /\ UNCHANGED <<connectable, now, due, hit, last, freed>>

UserDeleted(h) ==
  /\ h \in known
  /\ known' = known \ {h}
  /\ packet' = Nobody /\ charged' = {}
  /\ UNCHANGED <<connectable, now, due, hit, last, freed>>

-----------------------------------------------------------------------------
(* Collection.                                                             *)

Collect(gone) ==
  /\ hit' = [k \in Pair |-> IF k \in gone THEN NoConn ELSE hit[k]]
  /\ freed' = (freed \/ (last \in gone))
  /\ UNCHANGED <<connectable, now, known, last, packet, charged>>

umd_conn_gc ==
  /\ connectable /\ GCCONN # 0
  /\ Collect({k \in Pair : hit[k] # NoConn})
  /\ UNCHANGED due

\* Mutant: gcconn is taken for a number of timer runs.
GcByTicks(k) ==
  hit[k] # NoConn /\ GCCONN # 0 /\ hit[k] < now /\ now - hit[k] > GCCONN * TICKS

is_umd_conn_gc(k) ==
  hit[k] # NoConn /\ GCCONN # 0 /\ hit[k] < now /\ now - hit[k] > GCCONN

umd_conn_timer ==
  /\ due
  /\ due' = FALSE
  /\ Collect({k \in Pair : connectable /\ is_umd_conn_gc(k)})

Tick ==
  /\ ~due
  /\ now < MaxTime
  /\ now' = now + 1
  /\ due' = ((now + 1) % TICKS = 0)
  /\ UNCHANGED <<connectable, known, hit, last, freed, packet, charged>>

ConnInit ==
  /\ connectable \in Connectable
  /\ now = 0 /\ due = FALSE
  /\ known = {}
  /\ hit = [k \in Pair |-> NoConn]
  /\ last = Nobody /\ freed = FALSE
  /\ packet = Nobody /\ charged = {}

ConnNext ==
  \/ \E s, d \in Host : Packet(s, d)
  \/ \E h \in Host : UserCreated(h) \/ UserDeleted(h)
  \/ umd_conn_gc
  \/ umd_conn_timer
  \/ Tick

ConnSpec == ConnInit /\ [][ConnNext]_connVars
-----------------------------------------------------------------------------
(* Properties.                                                             *)

\* The reference: each end that is a known user is charged, up if it is the
\* source and down if it is the destination, by what the other end is.
Expected(s, d) ==
  LET counts(h) == s # d /\ Class[h] = "user" /\ h \in known
      type(other) == IF Class[other] = "wan" THEN "wan" ELSE "lan"
  IN  {c \in {<<s, type(d), "up">>, <<d, type(s), "down">>} : counts(c[1])}

UsersCharged == {c \in charged : c[1] # Device}

FromLan(s, d) == Class[s] = "lan" /\ Class[d] = "user"
ToUnknown(s, d) == Class[s] = "user" /\ Class[d] = "user" /\ d \notin known

\* Every packet is charged to the users at its ends, as the handlers' comments
\* say ("lan==>user, lan down for user", "first, lan down for {user}, again,
\* lan up for {user}"), but one from the lan to a user, which is taken for the
\* device's, and one to another user that umd does not know: through a cached,
\* a found, a new or a freed connection, a user that sends or receives is
\* charged exactly once, in its own direction.
ChargedButFromLan ==
  packet # Nobody =>
    LET s == packet[1]
        d == packet[2]
    IN  FromLan(s, d) \/ ToUnknown(s, d) \/ UsersCharged = Expected(s, d)

\* Once the timer has been handled, the table holds no connection that was not
\* hit for GCCONN seconds, whatever path its last packets took.
NoStaleConn ==
  ~due /\ connectable /\ GCCONN # 0 =>
    \A k \in Pair : hit[k] # NoConn => now - hit[k] < GCCONN + TICKS

=============================================================================
