------------------------------ MODULE UmdTable ------------------------------
(***************************************************************************)
(* The user table of app/umd: the h2 table of lib/utils (db.h, hash.h), a  *)
(* list and two hash indexes over the same objects, by mac and by address. *)
(* A node remembers the bucket it is linked in; the keys are members of    *)
(* the object, and whoever changes a key must take the object out of the   *)
(* table and put it back.                                                  *)
(*                                                                         *)
(* Objects are memory: an object that is freed may be allocated again for  *)
(* another station.  A chain is the set of the nodes that point at its     *)
(* bucket; a lookup returns some object on the chain with the key, the     *)
(* most recently linked one in the code.                                   *)
(***************************************************************************)
EXTENDS Integers

CONSTANTS
  Obj,            \* memory for umd_user_t objects
  Mac, Ip,        \* keys; an object starts with the address NoIp
  NoIp,
  Bucket,         \* buckets of an index
  HashMac, HashIp,\* __umduser_hashmac and __umduser_haship
  Associable,     \* the driver sends associate
  Dumps           \* [mac, ip] of the documents sync commands carry

Addr == Ip \cup {NoIp}
Index == {"mac", "ip"}
Key == [mac : Mac, ip : Addr]
Free == [mac |-> "free", ip |-> "free"]
NotIn == "not in hash"

ASSUME TableAssumption ==
  /\ NoIp \notin Ip
  /\ HashMac \in [Mac -> Bucket]
  /\ HashIp \in [Addr -> Bucket]
  /\ NotIn \notin Bucket
  /\ Free \notin Key
  /\ Associable \in BOOLEAN
  /\ Dumps \subseteq Key

VARIABLES
  mem,        \* the keys of each object, or Free
  listed,     \* the objects on the table's list
  bucket,     \* node->bucket of each object in each index
  synced,     \* auxiliary: objects a sync has overwritten
  extra       \* auxiliary: objects associate has created

vars == <<mem, listed, bucket, synced, extra>>

TypeOK ==
  /\ mem \in [Obj -> Key \cup {Free}]
  /\ listed \subseteq Obj
  /\ bucket \in [Index -> [Obj -> Bucket \cup {NotIn}]]
  /\ synced \subseteq Obj /\ extra \subseteq Obj

-----------------------------------------------------------------------------
(* The h2 table.                                                           *)

Hash(key) == [i \in Index |-> IF i = "mac" THEN HashMac[key.mac] ELSE HashIp[key.ip]]

\* h2_add links o in both indexes and in the list, wherever it was linked.
h2_add(o, key) ==
  /\ bucket' = [i \in Index |-> [bucket[i] EXCEPT ![o] = Hash(key)[i]]]
  /\ listed' = listed \cup {o}

\* Mutant: the bucket is found by hashing the keys again.
DelByKey(S) ==
  /\ bucket' = [i \in Index |-> [o \in Obj |->
       IF o \in S /\ bucket[i][o] = Hash(mem[o])[i] THEN NotIn ELSE bucket[i][o]]]
  /\ listed' = listed \ S

\* h2_del unlinks each object of S from the bucket its node points at.
h2_del(S) ==
  /\ bucket' = [i \in Index |-> [o \in Obj |-> IF o \in S THEN NotIn ELSE bucket[i][o]]]
  /\ listed' = listed \ S

\* The objects h2_find may return.
FindMac(m) == {o \in Obj : bucket["mac"][o] = HashMac[m] /\ mem[o].mac = m}
FindIp(ip) == {o \in Obj : bucket["ip"][o] = HashIp[ip] /\ mem[o].ip = ip}

-----------------------------------------------------------------------------
(* The operations of user.c on the table.                                  *)

New(o, m) ==
  /\ mem[o] = Free
  /\ mem' = [mem EXCEPT ![o] = [mac |-> m, ip |-> NoIp]]
  /\ h2_add(o, [mac |-> m, ip |-> NoIp])

\* Mutant: the table is not searched first.
CreateAnyway(m) ==
  /\ \E o \in Obj : New(o, m)
  /\ UNCHANGED <<synced, extra>>

umd_user_create(m) ==
  /\ FindMac(m) = {}
  /\ \E o \in Obj : New(o, m)
  /\ UNCHANGED <<synced, extra>>

\* The object found for m is ignored and another one is created.
umd_user_associate(m) ==
  /\ Associable
  /\ \E o \in Obj : New(o, m) /\ extra' = extra \cup {o}
  /\ UNCHANGED synced

Drop(S) ==
  /\ h2_del(S)
  /\ mem' = [o \in Obj |-> IF o \in S THEN Free ELSE mem[o]]
  /\ synced' = synced \ S
  /\ extra' = extra \ S

umd_user_delete(m) == \E o \in FindMac(m) : Drop({o})

umd_user_delbyip(ip) == \E o \in FindIp(ip) : Drop({o})

\* delby walks the list with a filter: by mac or by address.
umd_user_delby(m, ip) ==
  Drop({o \in listed : mem[o].mac = m \/ mem[o].ip = ip})

\* The timer and the gc command walk the list too, and delete unused users.
umd_user_gc(S) == S \subseteq listed /\ Drop(S)

\* Mutant: the address is changed in place.
SetIpInPlace(m, ip) ==
  \E o \in FindMac(m) :
    /\ mem[o].ip # ip
    /\ mem' = [mem EXCEPT ![o].ip = ip]
    /\ UNCHANGED <<listed, bucket, synced, extra>>

\* bind, fake, auth and unbind: the object leaves the table, its address
\* changes, and it is linked again.
umd_set_user_ip(m, ip) ==
  \E o \in FindMac(m) :
    /\ mem[o].ip # ip
    /\ mem' = [mem EXCEPT ![o].ip = ip]
    /\ h2_add(o, mem'[o])
    /\ UNCHANGED <<synced, extra>>

\* The document's mac and address are written into the object, which stays
\* linked where it is.
umd_user_sync(m, dump) ==
  \E o \in IF FindMac(m) # {} THEN FindMac(m) ELSE {p \in Obj : mem[p] = Free} :
    /\ mem' = [mem EXCEPT ![o] = dump]
    /\ IF FindMac(m) # {} THEN UNCHANGED <<listed, bucket>>
       ELSE h2_add(o, [mac |-> m, ip |-> NoIp])
    /\ synced' = synced \cup {o}
    /\ UNCHANGED extra

Init ==
  /\ mem = [o \in Obj |-> Free]
  /\ listed = {}
  /\ bucket = [i \in Index |-> [o \in Obj |-> NotIn]]
  /\ synced = {} /\ extra = {}

Next ==
  \/ \E m \in Mac :
       \/ umd_user_create(m)
       \/ umd_user_associate(m)
       \/ umd_user_delete(m)
       \/ \E ip \in Addr : umd_set_user_ip(m, ip)
       \/ \E ip \in Ip : umd_user_delby(m, ip)
       \/ \E dump \in Dumps : umd_user_sync(m, dump)
  \/ \E ip \in Addr : umd_user_delbyip(ip)
  \/ \E S \in SUBSET Obj : umd_user_gc(S)

Spec == Init /\ [][Next]_vars

-----------------------------------------------------------------------------
(* Properties.                                                             *)

\* No list or chain holds freed memory, and every user is on all three:
\* deletion unlinks a user even if its keys changed since it was linked.
NoDangling ==
  \A o \in Obj :
    /\ o \in listed <=> mem[o] # Free
    /\ \A i \in Index : o \in listed <=> bucket[i][o] # NotIn

Found(o) == o \in FindMac(mem[o].mac) /\ o \in FindIp(mem[o].ip)

\* "show {"ip": ...}" and delbyip find a user by any address it has, and get
\* finds it by its mac, unless a sync has overwritten it: no other user is in a
\* bucket of its former keys, and no sync, deletion or collection of another
\* user loses it.
FoundUnlessSynced == \A o \in listed \ synced : Found(o)

\* A station has one user object, found again by every later command: of two
\* users of one station, one comes from associate or from a sync.
OneUnlessExtra ==
  \A o, p \in listed \ (synced \cup extra) : mem[o].mac = mem[p].mac => o = p
=============================================================================
